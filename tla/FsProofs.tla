------------------------------ MODULE FsProofs -------------------------------
EXTENDS FileSystem, DataLemmas, TLAPS

\* Quotient and rest.
LEMMA DivMod ==
  ASSUME NEW n \in Nat, NEW m \in Nat \ {0}
  PROVE  /\ n \div m \in Nat /\ n % m \in 0..(m - 1)
         /\ n = (n \div m) * m + (n % m)
OBVIOUS

LEMMA BlocksIs == BLOCKS \in Nat \ {0}
<1>1. /\ MAP_SECTORS \in Nat /\ BITS_SECTOR \in Nat
      /\ MAP_SECTORS >= 1 /\ BITS_SECTOR >= 1
  BY FsAssumption
<1>2. MAP_SECTORS * BITS_SECTOR >= 1 /\ MAP_SECTORS * BITS_SECTOR \in Nat
  BY <1>1
<1>3. QED
  BY <1>2 DEF BLOCKS

(***************************************************************************)
(* free_allocate: as long as there is a free block, it returns one, marks  *)
(* that one used and no other, and leaves all else alone; the position of  *)
(* the next scan stays in the map.                                         *)
(***************************************************************************)
THEOREM BlockIsFresh ==
  ASSUME NEW s, s.mem.bmap \subseteq Block, s.mem.bprev \in 0..(BLOCKS - 1),
         ~ (Block \subseteq s.mem.bmap)
  PROVE  /\ FreeBlock(s) \in Block \ s.mem.bmap
         /\ free_allocate(s) =
              [s EXCEPT !.mem.bmap = s.mem.bmap \cup {FreeBlock(s)},
                        !.mem.bprev = FreeBlock(s) % BLOCKS]
         /\ FreeBlock(s) % BLOCKS \in 0..(BLOCKS - 1)
<1> DEFINE used == {b - 1 : b \in s.mem.bmap}
           bit == bitmap_scan_empty(BLOCKS, used, s.mem.bprev)
<1>1. BLOCKS \in Nat \ {0}
  BY BlocksIs
<1>2. ~ (0..(BLOCKS - 1) \subseteq used)
  <2>1. PICK b \in Block : b \notin s.mem.bmap
    OBVIOUS
  <2>2. b - 1 \in 0..(BLOCKS - 1)
    BY <1>1, <2>1 DEF Block
  <2>3. b - 1 \notin used
    BY <1>1, <2>1 DEF Block
  <2>4. QED
    BY <2>2, <2>3
<1>3. bit \in (0..(BLOCKS - 1)) \ used
  BY <1>1, <1>2, ScanFindsNearest
<1>4. FreeBlock(s) = 1 + bit
  BY DEF FreeBlock
<1> HIDE DEF bit
<1>5. FreeBlock(s) \in Block
  BY <1>1, <1>3, <1>4 DEF Block
<1>6. FreeBlock(s) \notin s.mem.bmap
  <2>1. SUFFICES ASSUME FreeBlock(s) \in s.mem.bmap PROVE FALSE
    OBVIOUS
  <2>2. FreeBlock(s) - 1 \in used
    BY <2>1
  <2>3. FreeBlock(s) - 1 = bit
    BY <1>1, <1>3, <1>4
  <2>4. QED
    BY <1>3, <2>2, <2>3
<1>7. FreeBlock(s) % BLOCKS \in 0..(BLOCKS - 1)
  BY <1>1, <1>5 DEF Block
<1>8. QED
  BY <1>5, <1>6, <1>7 DEF free_allocate

(***************************************************************************)
(* inode_allocate, the same: a free inode is found, it and no other is     *)
(* marked used, and the next scan starts inside the map.                   *)
(***************************************************************************)
THEOREM InodeIsFresh ==
  ASSUME NEW s, s.mem.iprev \in Inode, ~ (Inode \subseteq s.mem.imap)
  PROVE  /\ FreeInode(s) \in Inode \ s.mem.imap
         /\ inode_allocate(s) =
              [s EXCEPT !.mem.imap = s.mem.imap \cup {FreeInode(s)},
                        !.mem.iprev = (FreeInode(s) + 1) % MAX_INODES]
         /\ (FreeInode(s) + 1) % MAX_INODES \in Inode
<1>1. MAX_INODES \in Nat \ {0}
  BY FsAssumption
<1>2. bitmap_scan_empty(MAX_INODES, s.mem.imap, s.mem.iprev) \in Inode \ s.mem.imap
  BY <1>1, ScanFindsNearest DEF Inode
<1>3. FreeInode(s) \in Inode \ s.mem.imap
  BY <1>2 DEF FreeInode
<1>4. (FreeInode(s) + 1) % MAX_INODES \in Inode
  BY <1>1, <1>3 DEF Inode
<1>5. QED
  BY <1>3, <1>4 DEF inode_allocate
-----------------------------------------------------------------------------
Write == UNION {[at : {a}, val : Content(a)] : a \in Sector}

DiskType == {d \in [Sector -> UNION {Content(a) : a \in Sector}] :
               \A a \in Sector : d[a] \in Content(a)}

\* The states of the file system that its functions make.
FsState == [mem : MemType, disk : DiskType, todo : Seq(Write)]

LEMMA Sizes ==
  /\ MAX_DIRECT \in Nat \ {0} /\ LBA_ITEMS_PER_SECTOR \in Nat \ {0, 1}
  /\ MAX_INODE_BLOCKS = MAX_DIRECT + 2
  /\ LEVEL1_INDEX = MAX_DIRECT /\ LEVEL2_INDEX = MAX_DIRECT + 1
  /\ LEVEL1_BORDER = MAX_DIRECT + LBA_ITEMS_PER_SECTOR
  /\ LEVEL2_BORDER = LEVEL1_BORDER + LBA_ITEMS_PER_SECTOR * LBA_ITEMS_PER_SECTOR
  /\ LEVEL1_BORDER \in Nat /\ LEVEL2_BORDER \in Nat
  /\ MAX_DIRITEM_PER_BLOCK \in Nat \ {0, 1} /\ BYTES_SECTOR \in Nat \ {0}
  /\ MAX_INODES \in Nat \ {0} /\ BLOCKS \in Nat \ {0}
  /\ MAX_DIRITEM_PER_BLOCK <= LBA_ITEMS_PER_SECTOR
<1>1. MAX_DIRECT \in Int /\ MAX_INODE_BLOCKS = MAX_DIRECT + 2
  BY FsAssumption DEF MAX_DIRECT
<1>2. MAX_DIRECT > 0
  <2>1. MAX_DIRECT * MAX_DIRITEM_PER_BLOCK > 0
    BY <1>1, FsAssumption
  <2>2. QED
    BY <1>1, <2>1, FsAssumption
<1>3. LBA_ITEMS_PER_SECTOR * LBA_ITEMS_PER_SECTOR \in Nat
  BY FsAssumption
<1>4. QED
  BY <1>1, <1>2, <1>3, FsAssumption, BlocksIs
     DEF LEVEL1_INDEX, LEVEL2_INDEX, LEVEL1_BORDER, LEVEL2_BORDER

\* The sectors of the map, and how many of them are sent.
MapSector == 0..(MAP_SECTORS - 1)

\* The sectors, and that no two of them are the same.
LEMMA Sectors ==
  /\ Magic \in Sector /\ Content(Magic) = BOOLEAN
  /\ MapInodes \in Sector /\ Content(MapInodes) = SUBSET Inode
  /\ \A n \in MapSector : MapFree(n) \in Sector /\ Content(MapFree(n)) = SUBSET MapBits(n)
  /\ \A i \in Inode : InodeAt(i) \in Sector /\ Content(InodeAt(i)) = InodeType
  /\ \A b \in Block : BlockAt(b) \in Sector /\ Content(BlockAt(b)) = BlockType
BY DEF Sector, MapSector, Content, Magic, MapInodes, MapFree, InodeAt, BlockAt

LEMMA SectorsApart ==
  /\ \A b, c : BlockAt(b) = BlockAt(c) => b = c
  /\ \A i, j : InodeAt(i) = InodeAt(j) => i = j
  /\ \A n, m : MapFree(n) = MapFree(m) => n = m
  /\ \A i, b : InodeAt(i) # BlockAt(b)
  /\ \A b : BlockAt(b) \notin {Magic, MapInodes}
  /\ \A i : InodeAt(i) \notin {Magic, MapInodes}
  /\ \A n, b : MapFree(n) # BlockAt(b)
  /\ \A n, i : MapFree(n) # InodeAt(i)
  /\ \A n : MapFree(n) \notin {Magic, MapInodes}
  /\ Magic # MapInodes
BY DEF Magic, MapInodes, MapFree, InodeAt, BlockAt

\* What the disk d has of the map.
MapOn(d) == UNION {d[MapFree(n)] : n \in MapSector}

LEMMA MapSent ==
  /\ MAP_SENT \in Nat /\ MAP_SENT <= MAP_SECTORS /\ MAP_SECTORS \in Nat \ {0}
  /\ \A n \in 0..(MAP_SENT - 1) : n \in MapSector
  /\ Sent \subseteq Block
<1> DEFINE m == MAP_SECTORS - 1
<1>1. m \in Nat /\ COUNTS \in Nat \ {0} /\ MAP_SECTORS \in Nat \ {0}
  BY FsAssumption
<1>2. /\ m \div COUNTS \in Nat /\ m % COUNTS \in 0..(COUNTS - 1)
      /\ m = (m \div COUNTS) * COUNTS + (m % COUNTS)
  BY <1>1, DivMod
<1>3. m % COUNTS <= m
  <2> DEFINE q == m \div COUNTS
             r == m % COUNTS
  <2>1. q \in Nat /\ COUNTS \in Nat /\ r \in Int /\ m = q * COUNTS + r
    BY <1>1, <1>2
  <2> HIDE DEF q, r, m
  <2>2. q * COUNTS \in Nat
    BY <2>1
  <2>3. r <= m
    BY <2>1, <2>2
  <2>4. QED
    BY <2>3 DEF r
<1>4. MAP_SENT \in Nat /\ MAP_SENT <= MAP_SECTORS
  BY <1>1, <1>2, <1>3 DEF MAP_SENT
<1>5. Sent \subseteq Block
  BY DEF Sent, MapBits
<1>6. QED
  BY <1>1, <1>4, <1>5 DEF MapSector

\* No bit is in two sectors of the map.
LEMMA MapOnIs ==
  ASSUME NEW d \in DiskType
  PROVE  /\ MapOn(d) \subseteq Block
         /\ \A n \in MapSector : \A b \in MapBits(n) : b \in MapOn(d) <=> b \in d[MapFree(n)]
<1>1. \A n \in MapSector : d[MapFree(n)] \subseteq MapBits(n)
  BY Sectors DEF DiskType
<1>2. \A n, m, b : b \in MapBits(n) /\ b \in MapBits(m) => n = m
  BY DEF MapBits
<1>3. MapOn(d) \subseteq Block
  BY <1>1 DEF MapOn, MapBits
<1>4. ASSUME NEW n \in MapSector, NEW b \in MapBits(n), b \in MapOn(d)
      PROVE  b \in d[MapFree(n)]
  <2>1. PICK m \in MapSector : b \in d[MapFree(m)]
    BY <1>4 DEF MapOn
  <2>2. m = n
    BY <1>1, <1>2, <1>4, <2>1
  <2>3. QED
    BY <2>1, <2>2
<1>5. QED
  BY <1>3, <1>4 DEF MapOn

\* The map on the disk stays when other sectors are written.
LEMMA MapOther ==
  ASSUME NEW s \in FsState, NEW a, \A n \in MapSector : a # MapFree(n), NEW val
  PROVE  MapOn([s.disk EXCEPT ![a] = val]) = MapOn(s.disk)
<1>1. \A n \in MapSector : MapFree(n) \in Sector
  BY Sectors
<1>2. \A n \in MapSector : [s.disk EXCEPT ![a] = val][MapFree(n)] = s.disk[MapFree(n)]
  BY <1>1 DEF FsState, DiskType
<1>3. QED
  BY <1>2 DEF MapOn

LEMMA StateIs ==
  ASSUME NEW s \in FsState
  PROVE  /\ s.mem \in MemType /\ s.disk \in DiskType /\ s.todo \in Seq(Write)
         /\ s.mem.imap \subseteq Inode /\ s.mem.bmap \subseteq Block
         /\ s.mem.inode \in [Inode -> InodeType]
         /\ \A b \in Block : s.disk[BlockAt(b)] \in BlockType
         /\ \A i \in Inode : s.disk[InodeAt(i)] \in InodeType
         /\ s.disk[MapInodes] \subseteq Inode /\ MapOn(s.disk) \subseteq Block
<1>1. s.mem \in MemType /\ s.disk \in DiskType /\ s.todo \in Seq(Write)
  BY DEF FsState
<1>2. \A a \in Sector : s.disk[a] \in Content(a)
  BY <1>1 DEF DiskType
<1>3. /\ s.mem.imap \subseteq Inode /\ s.mem.bmap \subseteq Block
      /\ s.mem.inode \in [Inode -> InodeType]
  BY <1>1 DEF MemType
<1>4. MapOn(s.disk) \subseteq Block
  BY <1>1, MapOnIs
<1>5. QED
  BY <1>1, <1>2, <1>3, <1>4, Sectors

\* A new disk and a new list of writes make a state.
LEMMA NewDisk ==
  ASSUME NEW s \in FsState, NEW a \in Sector, NEW val \in Content(a)
  PROVE  [s EXCEPT !.disk[a] = val, !.todo = Append(@, [at |-> a, val |-> val])] \in FsState
<1> DEFINE w == [at |-> a, val |-> val]
<1>1. w \in Write
  BY DEF Write
<1>2. Append(s.todo, w) \in Seq(Write)
  BY <1>1, StateIs
<1>3. [s.disk EXCEPT ![a] = val] \in DiskType
  BY StateIs DEF DiskType
<1>4. QED
  BY <1>2, <1>3 DEF FsState

\* What a list of writes makes of a disk.
Settles(d, w, fin) ==
  \A a \in Sector :
    \/ /\ \A n \in 1..Len(w) : w[n].at # a
       /\ fin[a] = d[a]
    \/ \E n \in 1..Len(w) :
         /\ w[n].at = a /\ w[n].val = fin[a]
         /\ \A m \in 1..Len(w) : m > n => w[m].at # a

\* From s to t the writes go on, and the disk with them.
Follows(s, t) ==
  \A d : Settles(d, s.todo, s.disk) => Settles(d, t.todo, t.disk)

LEMMA FollowsOn ==
  ASSUME NEW s, NEW t, NEW u, Follows(s, t), Follows(t, u)
  PROVE  Follows(s, u)
BY DEF Follows

LEMMA FollowsSame ==
  ASSUME NEW s, NEW t, s.todo = t.todo, s.disk = t.disk
  PROVE  Follows(s, t)
BY DEF Follows

\* What ata_driver_rw does, writing.
LEMMA WriteIs ==
  ASSUME NEW s \in FsState, NEW a \in Sector, NEW val \in Content(a)
  PROVE  LET t == WriteSector(s, a, val)
         IN  /\ t \in FsState /\ Follows(s, t) /\ t.mem = s.mem
             /\ s.mem.halt # "no" => t = s
             /\ s.mem.halt = "no" => t.disk = [s.disk EXCEPT ![a] = val]
<1>1. CASE s.mem.halt # "no"
  <2>1. WriteSector(s, a, val) = s
    BY <1>1 DEF WriteSector
  <2>2. QED
    BY <1>1, <2>1, FollowsSame
<1>2. CASE s.mem.halt = "no"
  <2> DEFINE w == [at |-> a, val |-> val]
             t == [s EXCEPT !.disk[a] = val, !.todo = Append(@, w)]
  <2>1. WriteSector(s, a, val) = t
    BY <1>2 DEF WriteSector
  <2>2. t \in FsState
    BY NewDisk
  <2>3. t.mem = s.mem /\ t.disk = [s.disk EXCEPT ![a] = val] /\ t.todo = Append(s.todo, w)
    BY DEF FsState
  <2>4. Follows(s, t)
    <3> SUFFICES ASSUME NEW d, Settles(d, s.todo, s.disk) PROVE Settles(d, t.todo, t.disk)
      BY DEF Follows
    <3> DEFINE len == Len(s.todo)
    <3>1. /\ Len(t.todo) = len + 1 /\ len \in Nat /\ t.todo[len + 1] = w
          /\ \A n \in 1..len : t.todo[n] = s.todo[n]
      BY <2>3, StateIs
    <3>2. w.at = a /\ w.val = val
      OBVIOUS
    <3>3. t.disk[a] = val /\ \A x \in Sector : x # a => t.disk[x] = s.disk[x]
      BY <2>3, StateIs DEF DiskType
    <3>todo. DEFINE tt == t.todo
                    td == t.disk
    <3> HIDE DEF t, w, len, tt, td
    <3>4. ASSUME NEW x \in Sector
          PROVE  \/ /\ \A n \in 1..Len(tt) : tt[n].at # x
                    /\ td[x] = d[x]
                 \/ \E n \in 1..Len(tt) :
                      /\ tt[n].at = x /\ tt[n].val = td[x]
                      /\ \A m \in 1..Len(tt) : m > n => tt[m].at # x
      <4>0. /\ Len(tt) = len + 1 /\ len \in Nat /\ tt[len + 1] = w
            /\ \A n \in 1..len : tt[n] = s.todo[n]
            /\ td[a] = val /\ (x # a => td[x] = s.disk[x])
        BY <3>1, <3>3 DEF tt, td
      <4>1. CASE x = a
        BY <3>2, <4>0, <4>1
      <4>2. CASE x # a
        <5>1. CASE (\A n \in 1..len : s.todo[n].at # x) /\ s.disk[x] = d[x]
          <6>1. \A n \in 1..Len(tt) : tt[n].at # x
            BY <3>2, <4>0, <4>2, <5>1
          <6>2. QED
            BY <4>0, <4>2, <5>1, <6>1
        <5>2. CASE \E n \in 1..len :
                      /\ s.todo[n].at = x /\ s.todo[n].val = s.disk[x]
                      /\ \A m \in 1..len : m > n => s.todo[m].at # x
          <6>1. PICK n \in 1..len :
                      /\ s.todo[n].at = x /\ s.todo[n].val = s.disk[x]
                      /\ \A m \in 1..len : m > n => s.todo[m].at # x
            BY <5>2
          <6>2. n \in 1..Len(tt) /\ tt[n].at = x /\ tt[n].val = td[x]
            BY <4>0, <4>2, <6>1
          <6>3. \A m \in 1..Len(tt) : m > n => tt[m].at # x
            BY <3>2, <4>0, <4>2, <6>1
          <6>4. QED
            BY <6>2, <6>3
        <5>3. QED
          BY <5>1, <5>2 DEF Settles, len
      <4>3. QED
        BY <4>1, <4>2
    <3>5. QED
      BY <3>4 DEF Settles, tt, td
  <2>5. QED
    BY <1>2, <2>1, <2>2, <2>3, <2>4
<1>3. QED
  BY <1>1, <1>2

\* Changes of memory alone.
LEMMA NewMem ==
  ASSUME NEW s \in FsState, NEW m \in MemType
  PROVE  LET t == [s EXCEPT !.mem = m]
         IN  /\ t \in FsState /\ Follows(s, t)
             /\ t.mem = m /\ t.disk = s.disk /\ t.todo = s.todo
<1> DEFINE t == [s EXCEPT !.mem = m]
<1>1. t \in FsState /\ t.mem = m /\ t.disk = s.disk /\ t.todo = s.todo
  BY DEF FsState
<1> HIDE DEF t
<1>2. Follows(s, t)
  BY <1>1, FollowsSame
<1>3. QED
  BY <1>1, <1>2 DEF t

LEMMA PanicIs ==
  ASSUME NEW s \in FsState, NEW why \in Halts \ {"no"}
  PROVE  LET t == Panic(s, why)
         IN  /\ t \in FsState /\ Follows(s, t) /\ t.disk = s.disk /\ t.todo = s.todo
             /\ t.mem.halt # "no" /\ t.mem.halt \in {s.mem.halt, why}
             /\ s.mem.halt # "no" => t = s
<1>1. CASE s.mem.halt # "no"
  <2>1. Panic(s, why) = s
    BY <1>1 DEF Panic
  <2>2. QED
    BY <1>1, <2>1, FollowsSame
<1>2. CASE s.mem.halt = "no"
  <2> DEFINE m == [s.mem EXCEPT !.halt = why]
  <2>1. Panic(s, why) = [s EXCEPT !.mem = m]
    BY <1>2 DEF Panic
  <2>2. m \in MemType /\ m.halt = why
    BY StateIs DEF MemType
  <2> HIDE DEF m
  <2>3. QED
    BY <1>2, <2>1, <2>2, NewMem
<1>3. QED
  BY <1>1, <1>2

\* free_allocate, also of a map that is full.
LEMMA AllocIs ==
  ASSUME NEW s \in FsState
  PROVE  LET t == free_allocate(s)
         IN  /\ t \in FsState /\ Follows(s, t) /\ t.disk = s.disk /\ t.todo = s.todo
             /\ FreeBlock(s) \in Block
             /\ t.mem.halt \in {s.mem.halt, "full"}
             /\ s.mem.halt # "no" => t.mem.halt # "no"
             /\ t.mem.halt = "no" =>
                  /\ s.mem.halt = "no" /\ FreeBlock(s) \notin s.mem.bmap
                  /\ t.mem.bmap = s.mem.bmap \cup {FreeBlock(s)}
                  /\ t.mem.imap = s.mem.imap /\ t.mem.inode = s.mem.inode
<1>0. "full" \in Halts \ {"no"} /\ s.mem.halt \in Halts
  BY StateIs DEF Halts, MemType
<1>1. CASE Block \subseteq s.mem.bmap
  <2>1. free_allocate(s) = Panic(s, "full") /\ FreeBlock(s) = 1
    BY <1>1 DEF free_allocate, FreeBlock
  <2>2. 1 \in Block
    BY Sizes DEF Block
  <2>3. QED
    BY <1>0, <2>1, <2>2, PanicIs
<1>2. CASE ~(Block \subseteq s.mem.bmap)
  <2>0. s.mem.bmap \subseteq Block /\ s.mem.bprev \in 0..(BLOCKS - 1)
    BY StateIs DEF MemType
  <2>1. /\ FreeBlock(s) \in Block \ s.mem.bmap
        /\ FreeBlock(s) % BLOCKS \in 0..(BLOCKS - 1)
    BY <1>2, <2>0, BlockIsFresh
  <2> DEFINE m == [s.mem EXCEPT !.bmap = s.mem.bmap \cup {FreeBlock(s)},
                                !.bprev = FreeBlock(s) % BLOCKS]
  <2>2. free_allocate(s) = [s EXCEPT !.mem = m]
    <3> DEFINE u == [s EXCEPT !.mem = [s.mem EXCEPT !.bmap = s.mem.bmap \cup {FreeBlock(s)}]]
    <3>1. free_allocate(s) = [u EXCEPT !.mem = [u.mem EXCEPT !.bprev = FreeBlock(s) % BLOCKS]]
      BY <1>2, Zenon DEF free_allocate
    <3>2. u.mem = [s.mem EXCEPT !.bmap = s.mem.bmap \cup {FreeBlock(s)}]
      BY DEF FsState
    <3>3. [u.mem EXCEPT !.bprev = FreeBlock(s) % BLOCKS] = m
      BY <3>2
    <3> DEFINE v == m
    <3> HIDE DEF m
    <3>4. [u EXCEPT !.mem = v] = [s EXCEPT !.mem = v]
      BY DEF FsState
    <3>5. QED
      BY <3>1, <3>3, <3>4
  <2>3. /\ m \in MemType /\ m.halt = s.mem.halt /\ m.bmap = s.mem.bmap \cup {FreeBlock(s)}
        /\ m.imap = s.mem.imap /\ m.inode = s.mem.inode
    BY <2>1, StateIs DEF MemType
  <2> HIDE DEF m
  <2>4. QED
    BY <2>1, <2>2, <2>3, NewMem
<1>3. QED
  BY <1>1, <1>2

\* inode_allocate, also of a map that is full.
LEMMA InodeAllocIs ==
  ASSUME NEW s \in FsState
  PROVE  LET t == inode_allocate(s)
         IN  /\ t \in FsState /\ Follows(s, t) /\ t.disk = s.disk /\ t.todo = s.todo
             /\ FreeInode(s) \in Inode
             /\ t.mem.halt \in {s.mem.halt, "full"}
             /\ s.mem.halt # "no" => t.mem.halt # "no"
             /\ t.mem.halt = "no" =>
                  /\ s.mem.halt = "no" /\ FreeInode(s) \notin s.mem.imap
                  /\ t.mem.imap = s.mem.imap \cup {FreeInode(s)}
                  /\ t.mem.bmap = s.mem.bmap /\ t.mem.inode = s.mem.inode
             /\ t.mem.bmap = s.mem.bmap /\ t.mem.bprev = s.mem.bprev
<1>0. "full" \in Halts \ {"no"} /\ s.mem.halt \in Halts
  BY StateIs DEF Halts, MemType
<1>1. CASE Inode \subseteq s.mem.imap
  <2>1. inode_allocate(s) = Panic(s, "full") /\ FreeInode(s) = 0
    BY <1>1 DEF inode_allocate, FreeInode
  <2>2. 0 \in Inode
    BY Sizes DEF Inode
  <2>3. Panic(s, "full").mem.bmap = s.mem.bmap /\ Panic(s, "full").mem.bprev = s.mem.bprev
    BY StateIs DEF Panic, FsState, MemType
  <2>4. QED
    BY <1>0, <2>1, <2>2, <2>3, PanicIs
<1>2. CASE ~(Inode \subseteq s.mem.imap)
  <2>0. s.mem.imap \subseteq Inode /\ s.mem.iprev \in Inode
    BY StateIs DEF MemType
  <2>1. /\ FreeInode(s) \in Inode \ s.mem.imap
        /\ (FreeInode(s) + 1) % MAX_INODES \in Inode
    BY <1>2, <2>0, InodeIsFresh
  <2> DEFINE m == [s.mem EXCEPT !.imap = s.mem.imap \cup {FreeInode(s)},
                                !.iprev = (FreeInode(s) + 1) % MAX_INODES]
  <2>2. inode_allocate(s) = [s EXCEPT !.mem = m]
    <3> DEFINE u == [s EXCEPT !.mem = [s.mem EXCEPT !.imap = s.mem.imap \cup {FreeInode(s)}]]
    <3>1. inode_allocate(s)
            = [u EXCEPT !.mem = [u.mem EXCEPT !.iprev = (FreeInode(s) + 1) % MAX_INODES]]
      BY <1>2, Zenon DEF inode_allocate
    <3>2. u.mem = [s.mem EXCEPT !.imap = s.mem.imap \cup {FreeInode(s)}]
      BY DEF FsState
    <3>3. [u.mem EXCEPT !.iprev = (FreeInode(s) + 1) % MAX_INODES] = m
      BY <3>2
    <3> DEFINE v == m
    <3> HIDE DEF m
    <3>4. [u EXCEPT !.mem = v] = [s EXCEPT !.mem = v]
      BY DEF FsState
    <3>5. QED
      BY <3>1, <3>3, <3>4
  <2>3. /\ m \in MemType /\ m.halt = s.mem.halt /\ m.imap = s.mem.imap \cup {FreeInode(s)}
        /\ m.bmap = s.mem.bmap /\ m.inode = s.mem.inode /\ m.bprev = s.mem.bprev
    BY <2>1, StateIs DEF MemType
  <2> HIDE DEF m
  <2>4. QED
    BY <2>1, <2>2, <2>3, NewMem
<1>3. QED
  BY <1>1, <1>2

\* Changes of one inode in memory.
LEMMA NodeSet ==
  ASSUME NEW s \in FsState, NEW i \in Inode, NEW v \in InodeType
  PROVE  LET t == [s EXCEPT !.mem.inode[i] = v]
         IN  /\ t \in FsState /\ Follows(s, t) /\ t.disk = s.disk /\ t.todo = s.todo
             /\ t.mem.imap = s.mem.imap /\ t.mem.bmap = s.mem.bmap /\ t.mem.halt = s.mem.halt
             /\ t.mem.inode = [s.mem.inode EXCEPT ![i] = v]
<1> DEFINE m == [s.mem EXCEPT !.inode = [s.mem.inode EXCEPT ![i] = v]]
           t == [s EXCEPT !.mem.inode[i] = v]
<1>1. t = [s EXCEPT !.mem = m]
  OBVIOUS
<1>2. /\ m \in MemType /\ m.halt = s.mem.halt /\ m.imap = s.mem.imap
      /\ m.bmap = s.mem.bmap /\ m.inode = [s.mem.inode EXCEPT ![i] = v]
  BY StateIs DEF MemType
<1> HIDE DEF m, t
<1>3. t \in FsState /\ Follows(s, t) /\ t.mem = m /\ t.disk = s.disk /\ t.todo = s.todo
  BY <1>1, <1>2, NewMem
<1>4. QED
  BY <1>2, <1>3 DEF t

LEMMA EntrySet ==
  ASSUME NEW s \in FsState, NEW i \in Inode, NEW k \in 0..(MAX_INODE_BLOCKS - 1),
         NEW b \in {0} \cup Block
  PROVE  LET t == [s EXCEPT !.mem.inode[i].iblocks[k] = b]
             v == [s.mem.inode[i] EXCEPT !.iblocks[k] = b]
         IN  /\ t \in FsState /\ Follows(s, t) /\ t.disk = s.disk /\ t.todo = s.todo
             /\ t.mem.imap = s.mem.imap /\ t.mem.bmap = s.mem.bmap /\ t.mem.halt = s.mem.halt
             /\ t.mem.inode = [s.mem.inode EXCEPT ![i] = v]
             /\ v.size = s.mem.inode[i].size
             /\ v.iblocks = [s.mem.inode[i].iblocks EXCEPT ![k] = b]
<1> DEFINE v == [s.mem.inode[i] EXCEPT !.iblocks[k] = b]
<1>1. [s EXCEPT !.mem.inode[i].iblocks[k] = b] = [s EXCEPT !.mem.inode[i] = v]
  OBVIOUS
<1>2. /\ v \in InodeType /\ v.size = s.mem.inode[i].size
      /\ v.iblocks = [s.mem.inode[i].iblocks EXCEPT ![k] = b]
  BY StateIs DEF InodeType
<1> HIDE DEF v
<1>3. QED
  BY <1>1, <1>2, NodeSet DEF v

LEMMA SizeSet ==
  ASSUME NEW s \in FsState, NEW i \in Inode, NEW size \in Nat
  PROVE  LET t == [s EXCEPT !.mem.inode[i].size = size]
             v == [s.mem.inode[i] EXCEPT !.size = size]
         IN  /\ t \in FsState /\ Follows(s, t) /\ t.disk = s.disk /\ t.todo = s.todo
             /\ t.mem.imap = s.mem.imap /\ t.mem.bmap = s.mem.bmap /\ t.mem.halt = s.mem.halt
             /\ t.mem.inode = [s.mem.inode EXCEPT ![i] = v]
             /\ v.size = size /\ v.iblocks = s.mem.inode[i].iblocks
<1> DEFINE v == [s.mem.inode[i] EXCEPT !.size = size]
<1>1. [s EXCEPT !.mem.inode[i].size = size] = [s EXCEPT !.mem.inode[i] = v]
  OBVIOUS
<1>2. v \in InodeType /\ v.size = size /\ v.iblocks = s.mem.inode[i].iblocks
  BY StateIs DEF InodeType
<1> HIDE DEF v
<1>3. QED
  BY <1>1, <1>2, NodeSet DEF v

\* free_rw_disk, writing.
LEMMA RwIs ==
  ASSUME NEW s \in FsState, NEW b, NEW val,
         s.mem.halt = "no" /\ b \in s.mem.bmap => val \in BlockType
  PROVE  LET t == free_rw_disk(s, b, val)
         IN  /\ t \in FsState /\ Follows(s, t)
             /\ s.mem.halt # "no" => t = s
             /\ t.mem.halt # "no" => t.disk = s.disk /\ t.mem.halt \in {s.mem.halt, "empty"}
             /\ b \in s.mem.bmap => t.mem = s.mem
             /\ t.mem.halt = "no" =>
                  /\ s.mem.halt = "no" /\ b \in s.mem.bmap /\ t.mem = s.mem
                  /\ t.disk = [s.disk EXCEPT ![BlockAt(b)] = val]
<1>1. CASE s.mem.halt = "no" /\ b \in s.mem.bmap
  <2>1. free_rw_disk(s, b, val) = WriteSector(s, BlockAt(b), val)
    BY <1>1 DEF free_rw_disk, Used
  <2>2. b \in Block
    BY <1>1, StateIs
  <2>3. BlockAt(b) \in Sector /\ val \in Content(BlockAt(b))
    BY <1>1, <2>2, Sectors
  <2> DEFINE t == WriteSector(s, BlockAt(b), val)
  <2>4. /\ t \in FsState /\ Follows(s, t) /\ t.mem = s.mem
        /\ t.disk = [s.disk EXCEPT ![BlockAt(b)] = val]
    BY <1>1, <2>3, WriteIs
  <2> HIDE DEF t
  <2>5. QED
    BY <1>1, <2>1, <2>4 DEF t
<1>2. CASE ~(s.mem.halt = "no" /\ b \in s.mem.bmap)
  <2> DEFINE u == IF b \in s.mem.bmap THEN s ELSE Panic(s, "empty")
  <2>0. "empty" \in Halts \ {"no"}
    BY DEF Halts
  <2>1. /\ u \in FsState /\ Follows(s, u) /\ u.disk = s.disk /\ u.mem.halt # "no"
        /\ u.mem.halt \in {s.mem.halt, "empty"}
        /\ s.mem.halt # "no" => u = s
        /\ b \in s.mem.bmap => u.mem = s.mem
    <3>1. CASE b \in s.mem.bmap
      BY <1>2, <3>1, FollowsSame
    <3>2. CASE b \notin s.mem.bmap
      BY <2>0, <3>2, PanicIs
    <3>3. QED
      BY <3>1, <3>2
  <2>2. free_rw_disk(s, b, val) = WriteSector(u, BlockAt(b), val)
    BY DEF free_rw_disk, Used
  <2> HIDE DEF u
  <2>3. WriteSector(u, BlockAt(b), val) = u
    BY <2>1 DEF WriteSector
  <2>4. QED
    BY <2>1, <2>2, <2>3
<1>3. QED
  BY <1>1, <1>2

\* The maps and the inodes go to the disk.
LEMMA WriteMapIs ==
  ASSUME NEW s \in FsState, NEW n \in Nat, n <= MAP_SECTORS
  PROVE  LET t == WriteMap(s, n)
         IN  /\ t \in FsState /\ Follows(s, t) /\ t.mem = s.mem
             /\ s.mem.halt # "no" => t = s
             /\ s.mem.halt = "no" =>
                  /\ \A k \in 0..(n - 1) : t.disk[MapFree(k)] = s.mem.bmap \cap MapBits(k)
                  /\ \A a \in Sector : (\A k \in 0..(n - 1) : a # MapFree(k))
                       => t.disk[a] = s.disk[a]
<1>1. CASE s.mem.halt # "no"
  <2>1. WriteMap(s, n) = s
    BY <1>1 DEF WriteMap
  <2>2. QED
    BY <1>1, <2>1, FollowsSame
<1>2. CASE s.mem.halt = "no"
  <2> DEFINE bits(k) == s.mem.bmap \cap MapBits(k)
             sent == {MapFree(k) : k \in 0..(n - 1)}
             d == [at \in Sector |-> IF at \in sent THEN s.mem.bmap \cap MapBits(at[2])
                                     ELSE s.disk[at]]
             w == [k \in 1..n |-> [at |-> MapFree(k - 1), val |-> bits(k - 1)]]
             t == [s EXCEPT !.disk = d, !.todo = s.todo \o w]
  <2>1. WriteMap(s, n) = t
    BY <1>2 DEF WriteMap
  <2>2. 0..(n - 1) \subseteq MapSector
    BY FsAssumption DEF MapSector
  <2>3. \A k : MapFree(k)[2] = k
    BY DEF MapFree
  <2>4. \A k \in 0..(n - 1) : /\ MapFree(k) \in Sector /\ bits(k) \in Content(MapFree(k))
                              /\ d[MapFree(k)] = bits(k)
    BY <2>2, <2>3, Sectors
  <2>5. \A a \in Sector : a \notin sent => d[a] = s.disk[a]
    OBVIOUS
  <2>6. d \in DiskType
    <3>1. \A a \in Sector : d[a] \in Content(a)
      <4>1. ASSUME NEW a \in sent PROVE d[a] \in Content(a)
        BY <2>4
      <4>2. ASSUME NEW a \in Sector, a \notin sent PROVE d[a] \in Content(a)
        BY <2>5, <4>2, StateIs DEF DiskType
      <4>3. QED
        BY <4>1, <4>2
    <3>2. d = [a \in Sector |-> d[a]]
      OBVIOUS
    <3> HIDE DEF d
    <3>3. QED
      BY <3>1, <3>2 DEF DiskType
  <2>7. w \in Seq(Write) /\ Len(w) = n
        /\ \A k \in 1..n : w[k].at = MapFree(k - 1) /\ w[k].val = bits(k - 1)
    <3>1. \A k \in 1..n : k - 1 \in 0..(n - 1)
      OBVIOUS
    <3>2. \A k \in 1..n : [at |-> MapFree(k - 1), val |-> bits(k - 1)] \in Write
      BY <2>4, <3>1 DEF Write
    <3>3. QED
      BY <3>2
  <2> HIDE DEF d, w
  <2>8. s.todo \o w \in Seq(Write)
    BY <2>7, StateIs
  <2>9. t \in FsState /\ t.mem = s.mem /\ t.disk = d /\ t.todo = s.todo \o w
    BY <2>6, <2>8 DEF FsState
  <2>10. Follows(s, t)
    <3> SUFFICES ASSUME NEW d0, Settles(d0, s.todo, s.disk)
                 PROVE  Settles(d0, s.todo \o w, d)
      BY <2>9 DEF Follows
    <3> DEFINE len == Len(s.todo)
               all == s.todo \o w
    <3>1. /\ Len(all) = len + n /\ len \in Nat
          /\ \A k \in 1..len : all[k] = s.todo[k]
          /\ \A k \in 1..n : all[len + k] = w[k]
      <4>1. s.todo \in Seq(Write)
        BY StateIs
      <4>2. w \in Seq(Write)
        BY <2>7
      <4>len. Len(w) = n
        BY <2>7
      <4> DEFINE v == s.todo
      <4> HIDE DEF len, all, v
      <4>3. v \in Seq(Write)
        BY <4>1 DEF v
      <4>4. /\ Len(v \o w) = Len(v) + Len(w) /\ Len(v) \in Nat
            /\ \A k \in 1..Len(v) : (v \o w)[k] = v[k]
            /\ \A k \in 1..Len(w) : (v \o w)[Len(v) + k] = w[k]
        BY <4>2, <4>3
      <4>5. QED
        BY <4>len, <4>4 DEF len, all, v
    <3>2. \A k \in (len + 1)..(len + n) : all[k] = w[k - len] /\ k - len \in 1..n
      <4>1. ASSUME NEW k \in (len + 1)..(len + n) PROVE all[k] = w[k - len] /\ k - len \in 1..n
        <5>1. k - len \in 1..n /\ len + (k - len) = k
          BY <3>1
        <5>2. QED
          BY <3>1, <5>1
      <4>2. QED
        BY <4>1
    <3> HIDE DEF len, all
    <3>3. ASSUME NEW x \in Sector
          PROVE  \/ (\A k \in 1..Len(all) : all[k].at # x) /\ d[x] = d0[x]
                 \/ \E k \in 1..Len(all) :
                      /\ all[k].at = x /\ all[k].val = d[x]
                      /\ \A m \in 1..Len(all) : m > k => all[m].at # x
      <4>1. CASE x \in sent
        <5>1. PICK k \in 0..(n - 1) : x = MapFree(k)
          BY <4>1
        <5>2. /\ k + 1 \in 1..n /\ (k + 1) - 1 = k
              /\ len + (k + 1) \in 1..Len(all) /\ all[len + (k + 1)] = w[k + 1]
          BY <3>1
        <5>3. all[len + (k + 1)].at = x /\ all[len + (k + 1)].val = d[x]
          BY <2>4, <2>7, <5>1, <5>2
        <5>4. ASSUME NEW m \in 1..Len(all), m > len + (k + 1), all[m].at = x PROVE FALSE
          <6>1. m \in (len + 1)..(len + n) /\ (m - len) - 1 # k
            BY <3>1, <5>4
          <6>2. all[m].at = MapFree((m - len) - 1)
            BY <2>7, <3>2, <6>1
          <6>3. QED
            BY <5>1, <5>4, <6>1, <6>2, SectorsApart
        <5>5. QED
          BY <5>2, <5>3, <5>4
      <4>2. CASE x \notin sent
        <5>1. \A m \in (len + 1)..(len + n) : all[m].at # x
          <6>1. \A k \in 1..n : k - 1 \in 0..(n - 1)
            OBVIOUS
          <6>2. \A k \in 1..n : w[k].at # x
            BY <2>7, <4>2, <6>1
          <6>3. QED
            BY <3>2, <6>2
        <5>2. d[x] = s.disk[x]
          BY <2>5, <4>2
        <5>3. CASE (\A k \in 1..len : s.todo[k].at # x) /\ s.disk[x] = d0[x]
          <6>1. \A m \in 1..Len(all) : all[m].at # x
            BY <3>1, <5>1, <5>3
          <6>2. QED
            BY <5>2, <5>3, <6>1
        <5>4. CASE \E k \in 1..len :
                      /\ s.todo[k].at = x /\ s.todo[k].val = s.disk[x]
                      /\ \A m \in 1..len : m > k => s.todo[m].at # x
          <6>1. PICK k \in 1..len :
                      /\ s.todo[k].at = x /\ s.todo[k].val = s.disk[x]
                      /\ \A m \in 1..len : m > k => s.todo[m].at # x
            BY <5>4
          <6>2. k \in 1..Len(all) /\ all[k].at = x /\ all[k].val = d[x]
            BY <3>1, <5>2, <6>1
          <6>3. \A m \in 1..Len(all) : m > k => all[m].at # x
            BY <3>1, <5>1, <6>1
          <6>4. QED
            BY <6>2, <6>3
        <5>5. QED
          BY <5>3, <5>4 DEF Settles, len
      <4>3. QED
        BY <4>1, <4>2
    <3>4. QED
      BY <3>3 DEF Settles, all
  <2> HIDE DEF t
  <2>11. \A a \in Sector : (\A k \in 0..(n - 1) : a # MapFree(k)) => d[a] = s.disk[a]
    BY <2>5
  <2>12. QED
    BY <1>2, <2>1, <2>4, <2>9, <2>10, <2>11
<1>3. QED
  BY <1>1, <1>2

\* The disk has what memory has of the bits that are sent.
MapSaved(s) == MapOn(s.disk) \cap Sent = s.mem.bmap \cap Sent

\* From s to t, only the map on the disk is another.
OnlyMap(s, t) ==
  \A a \in Sector : (\A n \in MapSector : a # MapFree(n)) => t.disk[a] = s.disk[a]

LEMMA OnlyMapIs ==
  ASSUME NEW s, NEW t, OnlyMap(s, t)
  PROVE  /\ t.disk[MapInodes] = s.disk[MapInodes]
         /\ \A i \in Inode : t.disk[InodeAt(i)] = s.disk[InodeAt(i)]
         /\ \A b \in Block : t.disk[BlockAt(b)] = s.disk[BlockAt(b)]
BY Sectors, SectorsApart DEF OnlyMap

LEMMA MapIs ==
  ASSUME NEW s \in FsState
  PROVE  LET t == free_map_update(s)
         IN  /\ t \in FsState /\ Follows(s, t) /\ t.mem = s.mem
             /\ s.mem.halt # "no" => t = s
             /\ s.mem.halt = "no" =>
                  MapSaved(t) /\ OnlyMap(s, t)
<1> DEFINE t == WriteMap(s, MAP_SENT)
<1>1. MAP_SENT \in Nat /\ MAP_SENT <= MAP_SECTORS /\ \A n \in 0..(MAP_SENT - 1) : n \in MapSector
  BY MapSent
<1>2. /\ t \in FsState /\ Follows(s, t) /\ t.mem = s.mem
      /\ s.mem.halt # "no" => t = s
      /\ s.mem.halt = "no" =>
           /\ \A k \in 0..(MAP_SENT - 1) : t.disk[MapFree(k)] = s.mem.bmap \cap MapBits(k)
           /\ \A a \in Sector : (\A k \in 0..(MAP_SENT - 1) : a # MapFree(k))
                => t.disk[a] = s.disk[a]
  BY <1>1, WriteMapIs
<1> HIDE DEF t
<1>3. ASSUME s.mem.halt = "no" PROVE MapOn(t.disk) \cap Sent = s.mem.bmap \cap Sent
  <2>1. ASSUME NEW n \in 0..(MAP_SENT - 1), NEW b \in MapBits(n)
        PROVE  b \in MapOn(t.disk) <=> b \in s.mem.bmap
    <3>1. n \in MapSector /\ t.disk \in DiskType
      BY <1>1, <1>2, StateIs
    <3>2. b \in MapOn(t.disk) <=> b \in t.disk[MapFree(n)]
      BY <3>1, MapOnIs
    <3>3. QED
      BY <1>2, <1>3, <3>2
  <2>2. \A b \in Sent : \E n \in 0..(MAP_SENT - 1) : b \in MapBits(n)
    BY DEF Sent
  <2>3. QED
    BY <2>1, <2>2
<1>4. QED
  BY <1>1, <1>2, <1>3 DEF free_map_update, t, MapSaved, OnlyMap

LEMMA InodeMapIs ==
  ASSUME NEW s \in FsState
  PROVE  LET t == inode_map_update(s)
         IN  /\ t \in FsState /\ Follows(s, t) /\ t.mem = s.mem
             /\ s.mem.halt # "no" => t = s
             /\ s.mem.halt = "no" => t.disk = [s.disk EXCEPT ![MapInodes] = s.mem.imap]
<1>1. MapInodes \in Sector /\ s.mem.imap \in Content(MapInodes)
  BY StateIs, Sectors
<1>2. QED
  BY <1>1, WriteIs DEF inode_map_update

LEMMA InodeRwIs ==
  ASSUME NEW s \in FsState, NEW i \in Inode
  PROVE  LET t == inodes_rw_disk(s, i)
         IN  /\ t \in FsState /\ Follows(s, t) /\ t.mem = s.mem
             /\ s.mem.halt # "no" => t = s
             /\ s.mem.halt = "no" => t.disk = [s.disk EXCEPT ![InodeAt(i)] = s.mem.inode[i]]
<1>1. InodeAt(i) \in Sector /\ s.mem.inode[i] \in Content(InodeAt(i))
  BY StateIs, Sectors
<1>2. QED
  BY <1>1, WriteIs DEF inodes_rw_disk
-----------------------------------------------------------------------------
\* The quotient of what is less than m * q is less than q.
LEMMA DivLess ==
  ASSUME NEW n \in Nat, NEW m \in Nat \ {0}, NEW q \in Nat, n < q * m
  PROVE  n \div m < q
<1> DEFINE d == n \div m
<1>1. d \in Nat /\ d * m <= n
  BY DivMod
<1> HIDE DEF d
<1>2. SUFFICES ASSUME d >= q PROVE FALSE
  BY <1>1 DEF d
<1>3. d * m >= q * m
  BY <1>1, <1>2
<1>4. QED
  BY <1>1, <1>3

LEMMA EntryIs ==
  /\ \A c : Lba(c).type = "lba" /\ Lba(c).inode = c /\ Lba(c).name = ""
  /\ Invalid.type = "invalid" /\ Invalid.name = "" /\ Invalid.inode = 0
  /\ \A x, i, n : Entry(x, i, n).type = x /\ Entry(x, i, n).inode = i /\ Entry(x, i, n).name = n
BY DEF Lba, Invalid, Entry

\* An index block.
IndexType == [0..(LBA_ITEMS_PER_SECTOR - 1) -> {Lba(b) : b \in {0} \cup Block}]

LEMMA IndexIs ==
  ASSUME NEW s \in FsState, NEW b \in {0} \cup Block
  PROVE  /\ Index(s, b) \in IndexType
         /\ \A n \in 0..(LBA_ITEMS_PER_SECTOR - 1) : Index(s, b)[n].inode \in {0} \cup Block
<1>1. Lba(0) \in {Lba(c) : c \in {0} \cup Block} /\ DOMAIN NoIndex = 0..(LBA_ITEMS_PER_SECTOR - 1)
  BY DEF NoIndex
<1>2. NoIndex \in IndexType
  BY <1>1 DEF NoIndex, IndexType
<1>3. ASSUME b # 0, s.disk[BlockAt(b)][0].type = "lba" PROVE s.disk[BlockAt(b)] \in IndexType
  <2>1. s.disk[BlockAt(b)] \in BlockType
    BY <1>3, StateIs
  <2>2. 0 \in Slot
    BY Sizes DEF Slot
  <2>3. \A e \in EntryType : e.type # "lba"
    BY EntryIs DEF EntryType
  <2>4. s.disk[BlockAt(b)] \notin [Slot -> EntryType]
    BY <1>3, <2>2, <2>3
  <2>5. QED
    BY <1>1, <2>1, <2>4 DEF BlockType, IndexType
<1>4. Index(s, b) \in IndexType
  BY <1>2, <1>3 DEF Index
<1>5. \A n \in 0..(LBA_ITEMS_PER_SECTOR - 1) : \E c \in {0} \cup Block : Index(s, b)[n] = Lba(c)
  BY <1>4 DEF IndexType
<1>6. ASSUME NEW n \in 0..(LBA_ITEMS_PER_SECTOR - 1)
      PROVE  Index(s, b)[n].inode \in {0} \cup Block
  <2>1. PICK c \in {0} \cup Block : Index(s, b)[n] = Lba(c)
    BY <1>5
  <2>2. Lba(c).inode = c
    BY EntryIs
  <2>3. QED
    BY <2>1, <2>2
<1>7. QED
  BY <1>4, <1>6

\* An index block with a new entry can be stored and is read as it was written.
LEMMA IndexNew ==
  ASSUME NEW x \in IndexType, NEW n \in 0..(LBA_ITEMS_PER_SECTOR - 1), NEW c \in {0} \cup Block
  PROVE  /\ [x EXCEPT ![n] = Lba(c)] \in IndexType
         /\ [x EXCEPT ![n] = Lba(c)] \in BlockType
         /\ \A t, b : b # 0 /\ t.disk[BlockAt(b)] = [x EXCEPT ![n] = Lba(c)]
              => Index(t, b) = [x EXCEPT ![n] = Lba(c)]
<1> DEFINE y == [x EXCEPT ![n] = Lba(c)]
<1>1. y \in IndexType
  BY DEF IndexType
<1>2. DOMAIN NoIndex = 0..(LBA_ITEMS_PER_SECTOR - 1)
  BY DEF NoIndex
<1> HIDE DEF y
<1>3. y \in BlockType
  BY <1>1, <1>2 DEF IndexType, BlockType
<1>4. 0 \in 0..(LBA_ITEMS_PER_SECTOR - 1)
  BY Sizes
<1>5. y[0].type = "lba"
  <2>1. \E d \in {0} \cup Block : y[0] = Lba(d)
    BY <1>1, <1>4 DEF IndexType
  <2>2. QED
    BY <2>1, EntryIs
<1>6. \A t, b : b # 0 /\ t.disk[BlockAt(b)] = y => Index(t, b) = y
  BY <1>5 DEF Index
<1>7. QED
  BY <1>1, <1>3, <1>6 DEF y

\* The three ranges of an index, and where an index of the last one leads.
LEMMA Ranges ==
  ASSUME NEW k \in IBlock
  PROVE  /\ k \in Nat
         /\ k < MAX_DIRECT \/ k \in MAX_DIRECT..(LEVEL1_BORDER - 1) \/ k >= LEVEL1_BORDER
         /\ k \in MAX_DIRECT..(LEVEL1_BORDER - 1) =>
              /\ ~(k < MAX_DIRECT)
              /\ k - MAX_DIRECT \in 0..(LBA_ITEMS_PER_SECTOR - 1)
         /\ k >= LEVEL1_BORDER =>
              /\ ~(k < MAX_DIRECT) /\ k \notin MAX_DIRECT..(LEVEL1_BORDER - 1)
              /\ (k - LEVEL1_BORDER) \div LBA_ITEMS_PER_SECTOR \in 0..(LBA_ITEMS_PER_SECTOR - 1)
              /\ (k - LEVEL1_BORDER) % LBA_ITEMS_PER_SECTOR \in 0..(LBA_ITEMS_PER_SECTOR - 1)
<1>0. /\ MAX_DIRECT \in Nat /\ LBA_ITEMS_PER_SECTOR \in Nat \ {0}
      /\ LEVEL1_BORDER = MAX_DIRECT + LBA_ITEMS_PER_SECTOR
      /\ LEVEL2_BORDER = LEVEL1_BORDER + LBA_ITEMS_PER_SECTOR * LBA_ITEMS_PER_SECTOR
      /\ LBA_ITEMS_PER_SECTOR * LBA_ITEMS_PER_SECTOR \in Nat
  BY Sizes
<1>1. k \in Nat /\ k < LEVEL2_BORDER
  BY <1>0 DEF IBlock
<1>2. ASSUME k >= LEVEL1_BORDER
      PROVE  /\ (k - LEVEL1_BORDER) \div LBA_ITEMS_PER_SECTOR \in 0..(LBA_ITEMS_PER_SECTOR - 1)
             /\ (k - LEVEL1_BORDER) % LBA_ITEMS_PER_SECTOR \in 0..(LBA_ITEMS_PER_SECTOR - 1)
  <2> DEFINE n == k - LEVEL1_BORDER
  <2>1. n \in Nat /\ n < LBA_ITEMS_PER_SECTOR * LBA_ITEMS_PER_SECTOR
    BY <1>0, <1>1, <1>2
  <2> HIDE DEF n
  <2>2. /\ n \div LBA_ITEMS_PER_SECTOR \in Nat
        /\ n % LBA_ITEMS_PER_SECTOR \in 0..(LBA_ITEMS_PER_SECTOR - 1)
        /\ n \div LBA_ITEMS_PER_SECTOR < LBA_ITEMS_PER_SECTOR
    BY <1>0, <2>1, DivMod, DivLess
  <2>3. QED
    BY <1>0, <2>2 DEF n
<1>3. QED
  BY <1>0, <1>1, <1>2

\* Two indexes that lead to the same entry of the same block are the same.
LEMMA SamePlace ==
  ASSUME NEW n \in Nat, NEW k \in Nat, NEW m \in Nat \ {0}, n \div m = k \div m, n % m = k % m
  PROVE  n = k
<1> DEFINE d == n \div m
           r == n % m
<1>1. n = d * m + r /\ k = d * m + r
  BY DivMod
<1>2. QED
  BY <1>1
-----------------------------------------------------------------------------
\* What an inode names.
LEMMA LevelIs ==
  ASSUME NEW s \in FsState, NEW i \in Inode
  PROVE  /\ Level1(s, i) \in {0} \cup Block /\ Level2(s, i) \in {0} \cup Block
         /\ \A k \in 0..(MAX_DIRECT - 1) : s.mem.inode[i].iblocks[k] \in {0} \cup Block
         /\ s.mem.inode[i].size \in Nat
<1>1. s.mem.inode[i] \in InodeType
  BY StateIs
<1>2. /\ LEVEL1_INDEX \in 0..(MAX_INODE_BLOCKS - 1) /\ LEVEL2_INDEX \in 0..(MAX_INODE_BLOCKS - 1)
      /\ 0..(MAX_DIRECT - 1) \subseteq 0..(MAX_INODE_BLOCKS - 1)
  BY Sizes
<1>3. QED
  BY <1>1, <1>2 DEF Level1, Level2, InodeType

LEMMA EmptyIndex ==
  ASSUME NEW s, NEW n \in 0..(LBA_ITEMS_PER_SECTOR - 1)
  PROVE  Index(s, 0)[n].inode = 0
<1>1. Index(s, 0) = NoIndex
  BY DEF Index
<1>2. NoIndex[n] = Lba(0)
  BY DEF NoIndex
<1>3. QED
  BY <1>1, <1>2, EntryIs

\* The three cases of iblock_get.
LEMMA GetIs ==
  ASSUME NEW s \in FsState, NEW i \in Inode, NEW k \in IBlock
  PROVE  /\ iblock_get(s, i, k) \in {0} \cup Block
         /\ k < MAX_DIRECT => iblock_get(s, i, k) = s.mem.inode[i].iblocks[k]
         /\ k \in MAX_DIRECT..(LEVEL1_BORDER - 1) =>
              /\ iblock_get(s, i, k) = Index(s, Level1(s, i))[k - MAX_DIRECT].inode
              /\ Level1(s, i) = 0 => iblock_get(s, i, k) = 0
         /\ k >= LEVEL1_BORDER =>
              /\ Level1Of(s, i, k) \in {0} \cup Block
              /\ iblock_get(s, i, k) = Index(s, Level1Of(s, i, k))
                                         [(k - LEVEL1_BORDER) % LBA_ITEMS_PER_SECTOR].inode
              /\ Level2(s, i) = 0 => Level1Of(s, i, k) = 0
              /\ Level1Of(s, i, k) = 0 => iblock_get(s, i, k) = 0
<1>1. CASE k < MAX_DIRECT
  <2>1. k \in 0..(MAX_DIRECT - 1) /\ k \notin MAX_DIRECT..(LEVEL1_BORDER - 1) /\ ~(k >= LEVEL1_BORDER)
    BY <1>1, Ranges, Sizes
  <2>2. iblock_get(s, i, k) = s.mem.inode[i].iblocks[k]
    BY <1>1, <2>1 DEF iblock_get
  <2>3. QED
    BY <1>1, <2>1, <2>2, LevelIs
<1>2. CASE k \in MAX_DIRECT..(LEVEL1_BORDER - 1)
  <2>1. ~(k < MAX_DIRECT) /\ ~(k >= LEVEL1_BORDER) /\ k - MAX_DIRECT \in 0..(LBA_ITEMS_PER_SECTOR - 1)
    BY <1>2, Ranges, Sizes
  <2>2. iblock_get(s, i, k) = Index(s, Level1(s, i))[k - MAX_DIRECT].inode
    BY <1>2, <2>1 DEF iblock_get
  <2>3. QED
    BY <1>2, <2>1, <2>2, LevelIs, IndexIs, EmptyIndex
<1>3. CASE k >= LEVEL1_BORDER
  <2> DEFINE q == (k - LEVEL1_BORDER) \div LBA_ITEMS_PER_SECTOR
             r == (k - LEVEL1_BORDER) % LBA_ITEMS_PER_SECTOR
  <2>1. /\ ~(k < MAX_DIRECT) /\ k \notin MAX_DIRECT..(LEVEL1_BORDER - 1)
        /\ q \in 0..(LBA_ITEMS_PER_SECTOR - 1) /\ r \in 0..(LBA_ITEMS_PER_SECTOR - 1)
    BY <1>3, Ranges
  <2>2. iblock_get(s, i, k) = Index(s, Level1Of(s, i, k))[r].inode
    BY <1>3, <2>1 DEF iblock_get
  <2>3. Level1Of(s, i, k) = Index(s, Level2(s, i))[q].inode
    BY DEF Level1Of
  <2> HIDE DEF q
  <2>4. Level1Of(s, i, k) \in {0} \cup Block /\ (Level2(s, i) = 0 => Level1Of(s, i, k) = 0)
    BY <2>1, <2>3, LevelIs, IndexIs, EmptyIndex
  <2>5. iblock_get(s, i, k) \in {0} \cup Block /\ (Level1Of(s, i, k) = 0 => iblock_get(s, i, k) = 0)
    <3> HIDE DEF r
    <3>1. QED
      BY <2>1, <2>2, <2>4, IndexIs, EmptyIndex
  <2>6. QED
    BY <1>3, <2>1, <2>2, <2>4, <2>5
<1>4. QED
  BY <1>1, <1>2, <1>3, Ranges

\* The blocks before the first that is missing.
LEMMA IBlocksIs ==
  ASSUME NEW s, NEW i
  PROVE  /\ IBlocks(s, i) \subseteq IBlock
         /\ \A k \in IBlock :
              k \in IBlocks(s, i) <=> \A m \in 0..k : iblock_get(s, i, m) # 0
         /\ \A k \in IBlocks(s, i) : 0..k \subseteq IBlocks(s, i) /\ iblock_get(s, i, k) # 0
<1> DEFINE missing == {k \in IBlock : iblock_get(s, i, k) = 0}
<1>0. IBlock \in SUBSET Nat /\ \A k \in IBlock : 0..k \subseteq IBlock
  BY Sizes DEF IBlock
<1>1. CASE missing = {}
  <2>1. IBlocks(s, i) = IBlock
    BY <1>1 DEF IBlocks
  <2>2. QED
    BY <1>0, <1>1, <2>1
<1>2. CASE missing # {}
  <2>1. missing \in SUBSET Nat
    BY <1>0
  <2>2. PICK x \in missing : \A y \in missing : x <= y
    BY <1>2, <2>1, Least, Zenon
  <2> DEFINE low == Min(missing)
  <2>3. low \in missing /\ \A y \in missing : low <= y
    BY <2>2, Zenon DEF Min
  <2>4. IBlocks(s, i) = 0..(low - 1)
    BY <1>2 DEF IBlocks
  <2>5. low \in IBlock /\ iblock_get(s, i, low) = 0
    BY <2>3
  <2>6. \A k \in IBlock : iblock_get(s, i, k) = 0 => low <= k
    BY <2>3
  <2> HIDE DEF low, missing
  <2>7. low \in Nat
    BY <1>0, <2>5
  <2>8. \A k \in IBlock : k \in IBlocks(s, i) <=> k < low
    BY <1>0, <2>4, <2>7
  <2>9. IBlocks(s, i) \subseteq IBlock
    BY <1>0, <2>4, <2>5, <2>7
  <2>10. ASSUME NEW k \in IBlock
         PROVE  k < low <=> \A m \in 0..k : iblock_get(s, i, m) # 0
    <3>1. k \in Nat /\ 0..k \subseteq IBlock
      BY <1>0
    <3>2. ASSUME k < low, NEW m \in 0..k PROVE iblock_get(s, i, m) # 0
      <4>1. m \in IBlock /\ ~(low <= m)
        BY <2>7, <3>1, <3>2
      <4>2. QED
        BY <2>6, <4>1
    <3>3. ASSUME ~(k < low) PROVE \E m \in 0..k : iblock_get(s, i, m) = 0
      <4>1. low \in 0..k
        BY <2>7, <3>1, <3>3
      <4>2. QED
        BY <2>5, <4>1
    <3>4. QED
      BY <3>2, <3>3
  <2>11. \A k \in IBlocks(s, i) : 0..k \subseteq IBlocks(s, i)
    BY <1>0, <2>4, <2>7
  <2>12. \A k \in IBlock : k \in IBlocks(s, i) <=> \A m \in 0..k : iblock_get(s, i, m) # 0
    BY <2>8, <2>10, Zenon
  <2>13. ASSUME NEW k \in IBlocks(s, i) PROVE iblock_get(s, i, k) # 0
    <3>1. k \in IBlock
      BY <2>9
    <3>2. k \in Nat
      BY <1>0, <3>1
    <3>3. \A m \in 0..k : iblock_get(s, i, m) # 0
      BY <2>12, <3>1, Zenon
    <3>4. QED
      BY <3>2, <3>3
  <2>14. QED
    BY <2>9, <2>11, <2>12, <2>13
<1>3. QED
  BY <1>1, <1>2
-----------------------------------------------------------------------------
\* The places of an index block, and the level 1 block behind one of the level 2.
Place == 0..(LBA_ITEMS_PER_SECTOR - 1)

Behind(s, i, n) == Index(s, Level2(s, i))[n].inode

\* No two names for one block.
Apart(s, i) == \A x, y \in Named(s, i) : x[3] = y[3] => x = y

LEMMA NamedIs ==
  ASSUME NEW s, NEW i, NEW x
  PROVE  x \in Named(s, i) <=>
           \/ \E k \in IBlocks(s, i) : x = <<"data", k, iblock_get(s, i, k)>>
           \/ x = <<"level1", 0, Level1(s, i)>> /\ Level1(s, i) # 0
           \/ x = <<"level2", 0, Level2(s, i)>> /\ Level2(s, i) # 0
           \/ \E n \in Place : x = <<"level2", 1 + n, Behind(s, i, n)>> /\ Behind(s, i, n) # 0
<1>1. DOMAIN NoIndex = Place
  BY DEF NoIndex, Place
<1>2. QED
  BY <1>1 DEF Named, Behind

\* What an inode owns: its data blocks and its index blocks.
LEMMA OwnedIs ==
  ASSUME NEW s \in FsState, NEW i \in Inode
  PROVE  /\ Owned(s, i) \subseteq Block
         /\ \A k \in IBlocks(s, i) : iblock_get(s, i, k) \in Owned(s, i)
         /\ Level1(s, i) # 0 => Level1(s, i) \in Owned(s, i)
         /\ Level2(s, i) # 0 => Level2(s, i) \in Owned(s, i)
         /\ \A n \in Place : Behind(s, i, n) # 0 => Behind(s, i, n) \in Owned(s, i)
         /\ \A n \in Place : Behind(s, i, n) \in {0} \cup Block
         /\ \A b \in Owned(s, i) :
              \/ \E k \in IBlocks(s, i) : b = iblock_get(s, i, k)
              \/ b = Level1(s, i) \/ b = Level2(s, i)
              \/ \E n \in Place : b = Behind(s, i, n)
<1>1. \A k \in IBlocks(s, i) : iblock_get(s, i, k) \in Block
  BY GetIs, IBlocksIs
<1>2. /\ Level1(s, i) \in {0} \cup Block /\ Level2(s, i) \in {0} \cup Block
      /\ \A n \in Place : Behind(s, i, n) \in {0} \cup Block
  BY LevelIs, IndexIs DEF Place, Behind
<1>3. ASSUME NEW b \in Owned(s, i)
      PROVE  /\ b \in Block
             /\ \/ \E k \in IBlocks(s, i) : b = iblock_get(s, i, k)
                \/ b = Level1(s, i) \/ b = Level2(s, i)
                \/ \E n \in Place : b = Behind(s, i, n)
  <2>1. PICK x \in Named(s, i) : b = x[3]
    BY DEF Owned
  <2>2. QED
    BY <1>1, <1>2, <2>1, NamedIs
<1>4. \A k \in IBlocks(s, i) : iblock_get(s, i, k) \in Owned(s, i)
  <2> TAKE k \in IBlocks(s, i)
  <2> DEFINE x == <<"data", k, iblock_get(s, i, k)>>
  <2>1. x \in Named(s, i) /\ x[3] = iblock_get(s, i, k)
    BY NamedIs
  <2>2. QED
    BY <2>1 DEF Owned
<1>5. ASSUME Level1(s, i) # 0 PROVE Level1(s, i) \in Owned(s, i)
  <2> DEFINE x == <<"level1", 0, Level1(s, i)>>
  <2>1. x \in Named(s, i) /\ x[3] = Level1(s, i)
    BY <1>5, NamedIs
  <2>2. QED
    BY <2>1 DEF Owned
<1>6. ASSUME Level2(s, i) # 0 PROVE Level2(s, i) \in Owned(s, i)
  <2> DEFINE x == <<"level2", 0, Level2(s, i)>>
  <2>1. x \in Named(s, i) /\ x[3] = Level2(s, i)
    BY <1>6, NamedIs
  <2>2. QED
    BY <2>1 DEF Owned
<1>7. ASSUME NEW n \in Place, Behind(s, i, n) # 0 PROVE Behind(s, i, n) \in Owned(s, i)
  <2> DEFINE x == <<"level2", 1 + n, Behind(s, i, n)>>
  <2>1. x \in Named(s, i) /\ x[3] = Behind(s, i, n)
    BY <1>7, NamedIs
  <2>2. QED
    BY <2>1 DEF Owned
<1>8. QED
  BY <1>2, <1>3, <1>4, <1>5, <1>6, <1>7

LEMMA ApartIs ==
  ASSUME NEW s \in FsState, NEW i \in Inode
  PROVE  Apart(s, i) <=>
           /\ \A k, m \in IBlocks(s, i) : iblock_get(s, i, k) = iblock_get(s, i, m) => k = m
           /\ \A k \in IBlocks(s, i) :
                /\ iblock_get(s, i, k) # Level1(s, i) /\ iblock_get(s, i, k) # Level2(s, i)
                /\ \A n \in Place : iblock_get(s, i, k) # Behind(s, i, n)
           /\ Level1(s, i) # 0 =>
                /\ Level1(s, i) # Level2(s, i)
                /\ \A n \in Place : Level1(s, i) # Behind(s, i, n)
           /\ Level2(s, i) # 0 => \A n \in Place : Level2(s, i) # Behind(s, i, n)
           /\ \A n, m \in Place :
                Behind(s, i, n) = Behind(s, i, m) /\ Behind(s, i, n) # 0 => n = m
<1> DEFINE G(k) == iblock_get(s, i, k)
           L1 == Level1(s, i)
           L2 == Level2(s, i)
           E(n) == Behind(s, i, n)
           x1(k) == <<"data", k, G(k)>>
           x2 == <<"level1", 0, L1>>
           x3 == <<"level2", 0, L2>>
           x4(n) == <<"level2", 1 + n, E(n)>>
           K == IBlocks(s, i)
<1>0. /\ \A k \in K : G(k) # 0
      /\ \A n \in Place : n \in Nat /\ 1 + n # 0
  BY IBlocksIs DEF Place
<1>1. /\ \A k : x1(k)[1] = "data" /\ x1(k)[2] = k /\ x1(k)[3] = G(k)
      /\ x2[1] = "level1" /\ x2[2] = 0 /\ x2[3] = L1
      /\ x3[1] = "level2" /\ x3[2] = 0 /\ x3[3] = L2
      /\ \A n : x4(n)[1] = "level2" /\ x4(n)[2] = 1 + n /\ x4(n)[3] = E(n)
  OBVIOUS
<1>2. \A x : x \in Named(s, i) <=>
           \/ \E k \in K : x = x1(k)
           \/ x = x2 /\ L1 # 0
           \/ x = x3 /\ L2 # 0
           \/ \E n \in Place : x = x4(n) /\ E(n) # 0
  BY NamedIs
<1>3. \A n, m \in Place : 1 + n = 1 + m => n = m
  BY DEF Place
<1> HIDE DEF G, L1, L2, E, x1, x2, x3, x4, K
<1> DEFINE A == /\ \A k, m \in K : G(k) = G(m) => k = m
                /\ \A k \in K : G(k) # L1 /\ G(k) # L2 /\ \A n \in Place : G(k) # E(n)
                /\ L1 # 0 => L1 # L2 /\ \A n \in Place : L1 # E(n)
                /\ L2 # 0 => \A n \in Place : L2 # E(n)
                /\ \A n, m \in Place : E(n) = E(m) /\ E(n) # 0 => n = m
<1>4. ASSUME Apart(s, i) PROVE A
  <2>1. \A x, y \in Named(s, i) : x[3] = y[3] => x = y
    BY <1>4 DEF Apart
  <2>2. \A k, m \in K : G(k) = G(m) => k = m
    <3> TAKE k \in K, m \in K
    <3>1. x1(k) \in Named(s, i) /\ x1(m) \in Named(s, i)
      BY <1>2
    <3>2. QED
      BY <1>1, <2>1, <3>1
  <2>3. ASSUME NEW k \in K PROVE G(k) # L1 /\ G(k) # L2 /\ \A n \in Place : G(k) # E(n)
    <3>1. x1(k) \in Named(s, i) /\ G(k) # 0
      BY <1>0, <1>2
    <3>2. "data" # "level1" /\ "data" # "level2"
      OBVIOUS
    <3>3. G(k) # L1
      BY <1>1, <1>2, <2>1, <3>1, <3>2
    <3>4. G(k) # L2
      BY <1>1, <1>2, <2>1, <3>1, <3>2
    <3>5. \A n \in Place : G(k) # E(n)
      BY <1>1, <1>2, <2>1, <3>1, <3>2
    <3>6. QED
      BY <3>3, <3>4, <3>5
  <2>4. ASSUME L1 # 0 PROVE L1 # L2 /\ \A n \in Place : L1 # E(n)
    <3>1. x2 \in Named(s, i) /\ "level1" # "level2"
      BY <1>2, <2>4
    <3>2. L1 # L2
      BY <1>1, <1>2, <2>1, <2>4, <3>1
    <3>3. \A n \in Place : L1 # E(n)
      BY <1>1, <1>2, <2>1, <2>4, <3>1
    <3>4. QED
      BY <3>2, <3>3
  <2>5. ASSUME L2 # 0, NEW n \in Place PROVE L2 # E(n)
    <3>1. x3 \in Named(s, i) /\ 1 + n # 0
      BY <1>0, <1>2, <2>5
    <3>2. QED
      BY <1>1, <1>2, <2>1, <2>5, <3>1
  <2>6. ASSUME NEW n \in Place, NEW m \in Place, E(n) = E(m), E(n) # 0 PROVE n = m
    <3>1. x4(n) \in Named(s, i) /\ x4(m) \in Named(s, i)
      BY <1>2, <2>6
    <3>2. x4(n) = x4(m)
      BY <1>1, <2>1, <2>6, <3>1
    <3>3. 1 + n = 1 + m
      BY <1>1, <3>2
    <3>4. QED
      BY <1>3, <3>3
  <2>7. QED
    BY <2>2, <2>3, <2>4, <2>5, <2>6
<1>5. ASSUME A PROVE Apart(s, i)
  <2> SUFFICES ASSUME NEW x \in Named(s, i), NEW y \in Named(s, i), x[3] = y[3] PROVE x = y
    BY DEF Apart
  <2>1. CASE \E k \in K : x = x1(k)
    BY <1>0, <1>1, <1>2, <1>5, <2>1
  <2>2. CASE x = x2 /\ L1 # 0
    BY <1>0, <1>1, <1>2, <1>5, <2>2
  <2>3. CASE x = x3 /\ L2 # 0
    BY <1>0, <1>1, <1>2, <1>5, <2>3
  <2>4. CASE \E n \in Place : x = x4(n) /\ E(n) # 0
    BY <1>0, <1>1, <1>2, <1>5, <2>4
  <2>5. QED
    BY <1>2, <2>1, <2>2, <2>3, <2>4
<1>6. Apart(s, i) <=> A
  BY <1>4, <1>5
<1>7. QED
  BY <1>6 DEF A, G, L1, L2, E, K
-----------------------------------------------------------------------------
\* The first block of i that is missing.
FirstMissing(s, i, k) == k \in IBlock \ IBlocks(s, i) /\ 0..(k - 1) \subseteq IBlocks(s, i)

\* A block of i for the first that was missing.
Grown(s, t, i, k, b) ==
  \A m \in IBlock : iblock_get(t, i, m) = IF m = k THEN b ELSE iblock_get(s, i, m)

LEMMA GrownBlocks ==
  ASSUME NEW s, NEW t, NEW i, NEW k, NEW b \in Block,
         FirstMissing(s, i, k), Packed(s, i), Grown(s, t, i, k, b)
  PROVE  /\ IBlocks(t, i) = IBlocks(s, i) \cup {k} /\ Packed(t, i)
         /\ iblock_get(s, i, k) = 0
<1>0. /\ IBlock \in SUBSET Nat /\ \A n \in IBlock : 0..n \subseteq IBlock
      /\ k \in IBlock /\ b # 0 /\ k \notin IBlocks(s, i)
  BY Sizes DEF IBlock, FirstMissing, Block
<1>1. \A m \in IBlock \ IBlocks(s, i) : iblock_get(s, i, m) = 0
  BY DEF Packed
<1>2. ASSUME NEW m \in IBlocks(s, i) PROVE m < k /\ m \in IBlock
  <2>1. m \in IBlock /\ 0..m \subseteq IBlocks(s, i)
    BY IBlocksIs
  <2>2. k \notin 0..m
    BY <1>0, <2>1
  <2>3. QED
    BY <1>0, <2>1, <2>2
<1>3. ASSUME NEW m \in IBlock, m < k PROVE m \in IBlocks(s, i)
  <2>1. m \in 0..(k - 1)
    BY <1>0, <1>3
  <2>2. QED
    BY <2>1 DEF FirstMissing
<1>4. ASSUME NEW m \in IBlock, m <= k PROVE m \in IBlocks(t, i)
  <2>1. ASSUME NEW x \in 0..m PROVE iblock_get(t, i, x) # 0
    <3>1. x \in IBlock /\ x <= k
      BY <1>0, <1>4, <2>1
    <3>2. CASE x = k
      BY <1>0, <3>1, <3>2 DEF Grown
    <3>3. CASE x # k
      <4>1. x \in IBlocks(s, i)
        BY <1>0, <1>3, <3>1, <3>3
      <4>2. iblock_get(s, i, x) # 0
        BY <4>1, IBlocksIs
      <4>3. QED
        BY <3>1, <3>3, <4>2 DEF Grown
    <3>4. QED
      BY <3>2, <3>3
  <2>2. QED
    BY <2>1, IBlocksIs, Zenon
<1>5. ASSUME NEW m \in IBlock, m > k PROVE iblock_get(t, i, m) = 0
  <2>1. m \notin IBlocks(s, i) /\ m # k
    BY <1>0, <1>2, <1>5
  <2>2. QED
    BY <1>1, <2>1 DEF Grown
<1>6. ASSUME NEW m \in IBlocks(t, i) PROVE m \in IBlock /\ m <= k
  <2>1. m \in IBlock /\ iblock_get(t, i, m) # 0
    BY IBlocksIs
  <2>2. QED
    BY <1>0, <1>5, <2>1
<1>7. IBlocks(t, i) = IBlocks(s, i) \cup {k}
  <2>1. ASSUME NEW m PROVE m \in IBlocks(t, i) <=> m \in IBlocks(s, i) \cup {k}
    <3>1. ASSUME m \in IBlocks(t, i), m # k PROVE m \in IBlocks(s, i)
      <4>1. m \in IBlock /\ m <= k /\ m \in Nat /\ k \in Nat
        BY <1>0, <1>6, <3>1
      <4>2. m < k
        BY <3>1, <4>1
      <4>3. QED
        BY <1>3, <4>1, <4>2
    <3>2. ASSUME m \in IBlocks(s, i) PROVE m \in IBlocks(t, i)
      <4>1. m \in IBlock /\ m < k /\ m \in Nat /\ k \in Nat
        BY <1>0, <1>2, <3>2
      <4>2. m <= k
        BY <4>1
      <4>3. QED
        BY <1>4, <4>1, <4>2
    <3>3. k \in IBlocks(t, i)
      BY <1>0, <1>4
    <3>4. QED
      BY <3>1, <3>2, <3>3
  <2>2. QED
    BY <2>1
<1>8. Packed(t, i)
  <2> SUFFICES ASSUME NEW m \in IBlock, m \notin IBlocks(t, i) PROVE iblock_get(t, i, m) = 0
    BY DEF Packed
  <2>1. m > k
    BY <1>0, <1>4
  <2>2. QED
    BY <1>5, <2>1
<1>9. QED
  BY <1>0, <1>1, <1>7, <1>8

\* What iblock_set asks of its caller.
Linkable(s, i, k, b) ==
  /\ FirstMissing(s, i, k) /\ Packed(s, i) /\ Apart(s, i)
  /\ Owned(s, i) \subseteq s.mem.bmap /\ b \in s.mem.bmap \ Owned(s, i)

\* The index blocks of i are the old ones and new ones, F.
NewIndex(s, t, i, F) ==
  /\ F \cap s.mem.bmap = {}
  /\ Level1(t, i) \in {Level1(s, i)} \cup F /\ Level2(t, i) \in {Level2(s, i)} \cup F
  /\ \A n \in Place : Behind(t, i, n) \in {Behind(s, i, n)} \cup F
  /\ Level1(t, i) \in F =>
       /\ Level1(t, i) # Level2(t, i)
       /\ \A n \in Place : Level1(t, i) # Behind(t, i, n)
  /\ Level2(t, i) \in F => \A n \in Place : Level2(t, i) # Behind(t, i, n)
  /\ \A n, m \in Place :
       Behind(t, i, n) \in F /\ Behind(t, i, n) = Behind(t, i, m) => n = m

\* What i owns then.
LEMMA GrownApart ==
  ASSUME NEW s \in FsState, NEW t \in FsState, NEW i \in Inode, NEW k, NEW b, NEW F,
         Linkable(s, i, k, b), Grown(s, t, i, k, b), NewIndex(s, t, i, F)
  PROVE  Apart(t, i) /\ Owned(t, i) \subseteq Owned(s, i) \cup {b} \cup F
<1>link. /\ FirstMissing(s, i, k) /\ Packed(s, i) /\ Apart(s, i)
         /\ Owned(s, i) \subseteq s.mem.bmap /\ b \in s.mem.bmap \ Owned(s, i)
  BY DEF Linkable
<1>0. b \in Block /\ b # 0 /\ 0 \notin Owned(s, i)
  BY <1>link, StateIs, OwnedIs DEF Block
<1>1. /\ IBlocks(t, i) = IBlocks(s, i) \cup {k} /\ k \notin IBlocks(s, i)
      /\ k \in IBlock /\ IBlocks(s, i) \subseteq IBlock
  BY <1>0, <1>link, GrownBlocks, IBlocksIs DEF FirstMissing
<1> DEFINE G(m) == iblock_get(s, i, m)
           H(m) == iblock_get(t, i, m)
           L1 == Level1(s, i)
           L2 == Level2(s, i)
           E(n) == Behind(s, i, n)
           M1 == Level1(t, i)
           M2 == Level2(t, i)
           B(n) == Behind(t, i, n)
           K == IBlocks(s, i)
           O == Owned(s, i)
<1>2. H(k) = b /\ \A m \in K : H(m) = G(m)
  BY <1>1 DEF Grown
<1>3. /\ \A m \in K : G(m) \in O
      /\ L1 # 0 => L1 \in O
      /\ L2 # 0 => L2 \in O
      /\ \A n \in Place : E(n) # 0 => E(n) \in O
  BY OwnedIs
<1>4. /\ \A m, n \in K : G(m) = G(n) => m = n
      /\ \A m \in K : G(m) # L1 /\ G(m) # L2 /\ \A n \in Place : G(m) # E(n)
      /\ L1 # 0 => L1 # L2 /\ \A n \in Place : L1 # E(n)
      /\ L2 # 0 => \A n \in Place : L2 # E(n)
      /\ \A n, m \in Place : E(n) = E(m) /\ E(n) # 0 => n = m
  BY <1>link, ApartIs
<1>5. /\ M1 \in {L1} \cup F /\ M2 \in {L2} \cup F /\ \A n \in Place : B(n) \in {E(n)} \cup F
      /\ F \cap s.mem.bmap = {}
  BY DEF NewIndex
<1>6. /\ M1 \in F => M1 # M2 /\ \A n \in Place : M1 # B(n)
      /\ M2 \in F => \A n \in Place : M2 # B(n)
      /\ \A n, m \in Place : B(n) \in F /\ B(n) = B(m) => n = m
  BY DEF NewIndex
<1>7. \A c \in O \cup {b} : c \notin F /\ c # 0
  BY <1>0, <1>5, <1>link
<1>8. IBlocks(t, i) = K \cup {k} /\ b \notin O /\ k \notin K
  BY <1>1, <1>link
<1>9. \A c \in Owned(t, i) :
              \/ \E m \in IBlocks(t, i) : c = H(m)
              \/ c = M1 \/ c = M2
              \/ \E n \in Place : c = B(n)
  BY OwnedIs
<1>10. 0 \notin Owned(t, i)
  BY OwnedIs DEF Block
<1>11. Apart(t, i) <=>
           /\ \A m, n \in IBlocks(t, i) : H(m) = H(n) => m = n
           /\ \A m \in IBlocks(t, i) : H(m) # M1 /\ H(m) # M2 /\ \A n \in Place : H(m) # B(n)
           /\ M1 # 0 => M1 # M2 /\ \A n \in Place : M1 # B(n)
           /\ M2 # 0 => \A n \in Place : M2 # B(n)
           /\ \A n, m \in Place : B(n) = B(m) /\ B(n) # 0 => n = m
  BY ApartIs
<1> HIDE DEF G, H, L1, L2, E, M1, M2, B, K, O
<1>12. \A m, n \in IBlocks(t, i) : H(m) = H(n) => m = n
  BY <1>2, <1>3, <1>4, <1>8
<1>13. \A m \in IBlocks(t, i) : H(m) \in O \cup {b}
  BY <1>2, <1>3, <1>8
<1>14. ASSUME NEW m \in IBlocks(t, i) PROVE H(m) # M1 /\ H(m) # M2 /\ \A n \in Place : H(m) # B(n)
  <2>1. H(m) \notin F /\ H(m) # 0
    BY <1>7, <1>13
  <2>2. CASE m = k
    BY <1>2, <1>3, <1>5, <1>8, <2>1, <2>2
  <2>3. CASE m \in K
    BY <1>2, <1>4, <1>5, <2>1, <2>3
  <2>4. QED
    BY <1>8, <2>2, <2>3
<1>15. ASSUME M1 # 0 PROVE M1 # M2 /\ \A n \in Place : M1 # B(n)
  <2>1. CASE M1 \in F
    BY <1>6, <2>1
  <2>2. CASE M1 \notin F
    BY <1>3, <1>4, <1>5, <1>7, <1>15, <2>2
  <2>3. QED
    BY <2>1, <2>2
<1>16. ASSUME M2 # 0, NEW n \in Place PROVE M2 # B(n)
  <2>1. CASE M2 \in F
    BY <1>6, <2>1
  <2>2. CASE M2 \notin F
    BY <1>3, <1>4, <1>5, <1>7, <1>16, <2>2
  <2>3. QED
    BY <2>1, <2>2
<1>17. ASSUME NEW n \in Place, NEW m \in Place, B(n) = B(m), B(n) # 0 PROVE n = m
  <2>1. CASE B(n) \in F
    BY <1>6, <1>17, <2>1
  <2>2. CASE B(n) \notin F
    BY <1>3, <1>4, <1>5, <1>7, <1>17, <2>2
  <2>3. QED
    BY <2>1, <2>2
<1>18. Apart(t, i)
  BY <1>11, <1>12, <1>14, <1>15, <1>16, <1>17
<1>19. ASSUME NEW c \in Owned(t, i) PROVE c \in O \cup {b} \cup F
  <2>1. c # 0
    BY <1>10
  <2>2. QED
    BY <1>3, <1>5, <1>9, <1>13, <2>1
<1>20. QED
  BY <1>18, <1>19 DEF O
-----------------------------------------------------------------------------
\* Block b has become block k of inode i, and the index blocks are there.
Linked(s, t, i, k, b) ==
  /\ t.mem.imap = s.mem.imap /\ s.mem.bmap \subseteq t.mem.bmap
  /\ \A j \in Inode \ {i} : t.mem.inode[j] = s.mem.inode[j]
  /\ t.mem.inode[i].size = s.mem.inode[i].size
  /\ Grown(s, t, i, k, b) /\ Apart(t, i)
  /\ Owned(t, i) \subseteq Owned(s, i) \cup {b} \cup (t.mem.bmap \ s.mem.bmap)
  /\ \A c \in s.mem.bmap :
       (c \in Owned(s, i) => \E m \in IBlocks(s, i) : c = iblock_get(s, i, m))
         => t.disk[BlockAt(c)] = s.disk[BlockAt(c)]

OthersSame(s, t, i) ==
  /\ t.mem.imap = s.mem.imap
  /\ \A j \in Inode \ {i} : t.mem.inode[j] = s.mem.inode[j]
  /\ t.mem.inode[i].size = s.mem.inode[i].size

LEMMA GetDirect ==
  ASSUME NEW s \in FsState, NEW i \in Inode, NEW k \in IBlock, k < MAX_DIRECT
  PROVE  iblock_get(s, i, k) = s.mem.inode[i].iblocks[k]
BY GetIs

LEMMA GetLevel1 ==
  ASSUME NEW s \in FsState, NEW i \in Inode, NEW k \in IBlock,
         k \in MAX_DIRECT..(LEVEL1_BORDER - 1)
  PROVE  iblock_get(s, i, k) = Index(s, Level1(s, i))[k - MAX_DIRECT].inode
BY GetIs

LEMMA GetLevel2 ==
  ASSUME NEW s \in FsState, NEW i \in Inode, NEW k \in IBlock, k >= LEVEL1_BORDER
  PROVE  iblock_get(s, i, k) = Index(s, Level1Of(s, i, k))
                                 [(k - LEVEL1_BORDER) % LBA_ITEMS_PER_SECTOR].inode
BY GetIs

\* A new inode with other entries is read as they say.
LEMMA NodeReads ==
  ASSUME NEW s \in FsState, NEW t \in FsState, NEW i \in Inode, NEW level \in 0..(MAX_INODE_BLOCKS - 1),
         NEW c, t.mem.inode[i].iblocks = [s.mem.inode[i].iblocks EXCEPT ![level] = c]
  PROVE  /\ \A n \in 0..(MAX_INODE_BLOCKS - 1) :
              t.mem.inode[i].iblocks[n] = IF n = level THEN c ELSE s.mem.inode[i].iblocks[n]
         /\ Level1(t, i) = IF level = LEVEL1_INDEX THEN c ELSE Level1(s, i)
         /\ Level2(t, i) = IF level = LEVEL2_INDEX THEN c ELSE Level2(s, i)
<1>1. s.mem.inode[i].iblocks \in [0..(MAX_INODE_BLOCKS - 1) -> {0} \cup Block]
  BY StateIs DEF InodeType
<1>2. LEVEL1_INDEX \in 0..(MAX_INODE_BLOCKS - 1) /\ LEVEL2_INDEX \in 0..(MAX_INODE_BLOCKS - 1)
  BY Sizes
<1>3. QED
  BY <1>1, <1>2 DEF Level1, Level2

\* A direct block.
SetDirect(s, t, i, k, b) ==
  /\ t.mem.bmap = s.mem.bmap
  /\ t.mem.inode[i].iblocks = [s.mem.inode[i].iblocks EXCEPT ![k] = b]
  /\ \A c \in Block : t.disk[BlockAt(c)] = s.disk[BlockAt(c)]

LEMMA LinkedDirect ==
  ASSUME NEW s \in FsState, NEW t \in FsState, NEW i \in Inode, NEW k \in 0..(MAX_DIRECT - 1),
         NEW b \in Block, Linkable(s, i, k, b), OthersSame(s, t, i), SetDirect(s, t, i, k, b)
  PROVE  Linked(s, t, i, k, b)
<1>set. /\ t.mem.bmap = s.mem.bmap
        /\ t.mem.inode[i].iblocks = [s.mem.inode[i].iblocks EXCEPT ![k] = b]
        /\ \A c \in Block : t.disk[BlockAt(c)] = s.disk[BlockAt(c)]
  BY DEF SetDirect
<1>1. /\ k \in 0..(MAX_INODE_BLOCKS - 1) /\ k # LEVEL1_INDEX /\ k # LEVEL2_INDEX
      /\ 0..(MAX_DIRECT - 1) \subseteq 0..(MAX_INODE_BLOCKS - 1)
      /\ \A m \in IBlock : m < MAX_DIRECT => m \in 0..(MAX_DIRECT - 1)
      /\ \A m \in IBlock : m >= MAX_DIRECT => m # k
  BY Sizes DEF IBlock
<1>2. /\ \A m \in IBlock : m < MAX_DIRECT =>
           t.mem.inode[i].iblocks[m] = IF m = k THEN b ELSE s.mem.inode[i].iblocks[m]
      /\ Level1(t, i) = Level1(s, i) /\ Level2(t, i) = Level2(s, i)
  <2>1. /\ \A n \in 0..(MAX_INODE_BLOCKS - 1) :
             t.mem.inode[i].iblocks[n] = IF n = k THEN b ELSE s.mem.inode[i].iblocks[n]
        /\ Level1(t, i) = IF k = LEVEL1_INDEX THEN b ELSE Level1(s, i)
        /\ Level2(t, i) = IF k = LEVEL2_INDEX THEN b ELSE Level2(s, i)
    <3>1. k \in 0..(MAX_INODE_BLOCKS - 1)
      BY <1>1
    <3>2. t.mem.inode[i].iblocks = [s.mem.inode[i].iblocks EXCEPT ![k] = b]
      BY <1>set
    <3>3. s.mem.inode[i].iblocks \in [0..(MAX_INODE_BLOCKS - 1) -> {0} \cup Block]
      BY StateIs DEF InodeType
    <3>4. LEVEL1_INDEX \in 0..(MAX_INODE_BLOCKS - 1) /\ LEVEL2_INDEX \in 0..(MAX_INODE_BLOCKS - 1)
      BY Sizes
    <3>5. QED
      BY <3>1, <3>2, <3>3, <3>4 DEF Level1, Level2
  <2>2. Level1(t, i) = Level1(s, i) /\ Level2(t, i) = Level2(s, i)
    BY <1>1, <2>1
  <2>3. ASSUME NEW m \in IBlock, m < MAX_DIRECT
        PROVE  t.mem.inode[i].iblocks[m] = IF m = k THEN b ELSE s.mem.inode[i].iblocks[m]
    <3>1. m \in 0..(MAX_INODE_BLOCKS - 1)
      BY <1>1, <2>3
    <3>2. QED
      BY <2>1, <3>1
  <2>4. QED
    BY <2>2, <2>3
<1>3. \A c \in {0} \cup Block : Index(t, c) = Index(s, c)
  BY <1>set DEF Index
<1>4. Level1(s, i) \in {0} \cup Block /\ Level2(s, i) \in {0} \cup Block
  BY LevelIs
<1>5. /\ \A n \in Place : Behind(t, i, n) = Behind(s, i, n)
      /\ \A m \in IBlock : Level1Of(t, i, m) = Level1Of(s, i, m)
  BY <1>2, <1>3, <1>4 DEF Behind, Level1Of
<1>6. ASSUME NEW m \in IBlock
      PROVE  iblock_get(t, i, m) = IF m = k THEN b ELSE iblock_get(s, i, m)
  <2>1. CASE m < MAX_DIRECT
    <3>1. /\ iblock_get(t, i, m) = t.mem.inode[i].iblocks[m]
          /\ iblock_get(s, i, m) = s.mem.inode[i].iblocks[m]
      BY <2>1, GetDirect, Zenon
    <3>2. QED
      BY <1>2, <2>1, <3>1, Zenon
  <2>2. CASE m \in MAX_DIRECT..(LEVEL1_BORDER - 1)
    <3>1. m # k
      BY <1>1, <2>2, Sizes
    <3>2. QED
      <4>1. /\ iblock_get(t, i, m) = Index(t, Level1(t, i))[m - MAX_DIRECT].inode
            /\ iblock_get(s, i, m) = Index(s, Level1(s, i))[m - MAX_DIRECT].inode
        BY <2>2, GetLevel1, Zenon
      <4>2. Index(t, Level1(t, i)) = Index(s, Level1(s, i))
        BY <1>2, <1>3, <1>4, Zenon
      <4>3. QED
        BY <3>1, <4>1, <4>2, Zenon
  <2>3. CASE m >= LEVEL1_BORDER
    <3>1. m # k
      BY <1>1, <2>3, Ranges, Sizes
    <3>2. Level1Of(s, i, m) \in {0} \cup Block
      BY <2>3, GetIs
    <3>3. QED
      <4> DEFINE r == (m - LEVEL1_BORDER) % LBA_ITEMS_PER_SECTOR
      <4>1. /\ iblock_get(t, i, m) = Index(t, Level1Of(t, i, m))[r].inode
            /\ iblock_get(s, i, m) = Index(s, Level1Of(s, i, m))[r].inode
        BY <2>3, GetLevel2
      <4> HIDE DEF r
      <4>2. Index(t, Level1Of(t, i, m)) = Index(s, Level1Of(s, i, m))
        BY <1>3, <1>5, <3>2, Zenon
      <4>3. QED
        BY <3>1, <4>1, <4>2, Zenon
  <2>4. QED
    BY <2>1, <2>2, <2>3, Ranges
<1>7. Grown(s, t, i, k, b)
  BY <1>6 DEF Grown
<1>8. Apart(t, i) /\ Owned(t, i) \subseteq Owned(s, i) \cup {b}
  <2> DEFINE F == {}
  <2>1. /\ Level1(t, i) \in {Level1(s, i)} \cup F /\ Level2(t, i) \in {Level2(s, i)} \cup F
        /\ \A n \in Place : Behind(t, i, n) \in {Behind(s, i, n)} \cup F
        /\ \A x : x \notin F
        /\ F \cap s.mem.bmap = {}
    BY <1>2, <1>5
  <2> HIDE DEF F
  <2>2. Apart(t, i) /\ Owned(t, i) \subseteq Owned(s, i) \cup {b} \cup F
    <3>1. QED
      BY <1>7, <2>1, GrownApart DEF NewIndex
  <2>3. QED
    BY <2>1, <2>2
<1>9. QED
  BY <1>7, <1>8, <1>set, StateIs DEF Linked, OthersSame

\* A block of the level 1 block, which is the old one, or new.
SetLevel1(s, t, i, k, b, l1) ==
  /\ \/ l1 = Level1(s, i) /\ t.mem.bmap = s.mem.bmap
     \/ Level1(s, i) = 0 /\ l1 \notin s.mem.bmap /\ t.mem.bmap = s.mem.bmap \cup {l1}
  /\ t.mem.inode[i].iblocks = [s.mem.inode[i].iblocks EXCEPT ![LEVEL1_INDEX] = l1]
  /\ Index(t, l1) = [Index(s, Level1(s, i)) EXCEPT ![k - MAX_DIRECT] = Lba(b)]
  /\ \A c \in Block \ {l1} : t.disk[BlockAt(c)] = s.disk[BlockAt(c)]

LEMMA LinkedLevel1 ==
  ASSUME NEW s \in FsState, NEW t \in FsState, NEW i \in Inode,
         NEW k \in MAX_DIRECT..(LEVEL1_BORDER - 1),
         NEW b \in Block, Linkable(s, i, k, b), NEW l1 \in Block,
         OthersSame(s, t, i), SetLevel1(s, t, i, k, b, l1)
  PROVE  Linked(s, t, i, k, b)
<1>set. /\ \/ l1 = Level1(s, i) /\ t.mem.bmap = s.mem.bmap
           \/ Level1(s, i) = 0 /\ l1 \notin s.mem.bmap /\ t.mem.bmap = s.mem.bmap \cup {l1}
        /\ t.mem.inode[i].iblocks = [s.mem.inode[i].iblocks EXCEPT ![LEVEL1_INDEX] = l1]
        /\ Index(t, l1) = [Index(s, Level1(s, i)) EXCEPT ![k - MAX_DIRECT] = Lba(b)]
        /\ \A c \in Block \ {l1} : t.disk[BlockAt(c)] = s.disk[BlockAt(c)]
  BY DEF SetLevel1
<1>0. /\ k \in IBlock /\ MAX_DIRECT \in Nat /\ LEVEL1_BORDER \in Nat
      /\ ~(k < MAX_DIRECT) /\ ~(k >= LEVEL1_BORDER)
      /\ k - MAX_DIRECT \in Place
      /\ \A m \in IBlock : m < MAX_DIRECT => m \in 0..(MAX_INODE_BLOCKS - 1) /\ m # LEVEL1_INDEX
      /\ LEVEL1_INDEX \in 0..(MAX_INODE_BLOCKS - 1) /\ LEVEL2_INDEX # LEVEL1_INDEX
      /\ \A m \in MAX_DIRECT..(LEVEL1_BORDER - 1) : m - MAX_DIRECT = k - MAX_DIRECT => m = k
  <2>1. k \in IBlock
    BY DEF Linkable, FirstMissing
  <2>2. QED
    BY <2>1, Sizes DEF Place, IBlock
<1>1. /\ \A m \in IBlock : m < MAX_DIRECT =>
           t.mem.inode[i].iblocks[m] = s.mem.inode[i].iblocks[m]
      /\ Level1(t, i) = l1 /\ Level2(t, i) = Level2(s, i)
  <2>1. /\ \A n \in 0..(MAX_INODE_BLOCKS - 1) :
             t.mem.inode[i].iblocks[n]
               = IF n = LEVEL1_INDEX THEN l1 ELSE s.mem.inode[i].iblocks[n]
        /\ Level1(t, i) = IF LEVEL1_INDEX = LEVEL1_INDEX THEN l1 ELSE Level1(s, i)
        /\ Level2(t, i) = IF LEVEL1_INDEX = LEVEL2_INDEX THEN l1 ELSE Level2(s, i)
    <3>1. /\ LEVEL1_INDEX \in 0..(MAX_INODE_BLOCKS - 1)
          /\ t.mem.inode[i].iblocks = [s.mem.inode[i].iblocks EXCEPT ![LEVEL1_INDEX] = l1]
      BY <1>0, <1>set, Zenon
    <3>2. QED
      BY <3>1, NodeReads
  <2>2. QED
    BY <1>0, <2>1
<1>2. Level1(s, i) \in {0} \cup Block /\ Level2(s, i) \in {0} \cup Block
  BY LevelIs
<1>3. \A c \in {0} \cup (Block \ {l1}) : Index(t, c) = Index(s, c)
  BY <1>set DEF Index
<1>4. Owned(s, i) \subseteq s.mem.bmap /\ Apart(s, i)
  BY DEF Linkable
<1>5. \A c : (c = Level2(s, i) \/ \E n \in Place : c = Behind(s, i, n)) => c # l1
  <2>1. /\ Level2(s, i) # 0 => Level2(s, i) \in s.mem.bmap
        /\ \A n \in Place : Behind(s, i, n) # 0 => Behind(s, i, n) \in s.mem.bmap
    BY <1>4, OwnedIs
  <2>2. l1 # 0
    BY DEF Block
  <2>3. Level1(s, i) # 0 => /\ Level1(s, i) # Level2(s, i)
                            /\ \A n \in Place : Level1(s, i) # Behind(s, i, n)
    BY <1>4, ApartIs
  <2>4. QED
    BY <1>set, <2>1, <2>2, <2>3
<1>6. /\ \A n \in Place : Behind(t, i, n) = Behind(s, i, n)
      /\ \A m \in IBlock : Level1Of(t, i, m) = Level1Of(s, i, m)
  BY <1>1, <1>2, <1>3, <1>5 DEF Behind, Level1Of
<1>7. ASSUME NEW m \in IBlock
      PROVE  iblock_get(t, i, m) = IF m = k THEN b ELSE iblock_get(s, i, m)
  <2>1. CASE m < MAX_DIRECT
    <3>1. /\ iblock_get(t, i, m) = t.mem.inode[i].iblocks[m]
          /\ iblock_get(s, i, m) = s.mem.inode[i].iblocks[m]
      BY <2>1, GetDirect, Zenon
    <3>2. m # k
      BY <1>0, <2>1
    <3>3. QED
      BY <1>1, <2>1, <3>1, <3>2, Zenon
  <2>2. CASE m \in MAX_DIRECT..(LEVEL1_BORDER - 1)
    <3> DEFINE n == m - MAX_DIRECT
               x == Index(s, Level1(s, i))
    <3>1. n \in Place /\ x \in [Place -> {Lba(c) : c \in {0} \cup Block}]
      BY <1>2, <2>2, Ranges, IndexIs DEF Place, IndexType
    <3>2. iblock_get(t, i, m) = Index(t, l1)[n].inode /\ iblock_get(s, i, m) = x[n].inode
      <4>1. /\ iblock_get(t, i, m) = Index(t, Level1(t, i))[n].inode
            /\ iblock_get(s, i, m) = x[n].inode
        BY <2>2, GetLevel1, Zenon
      <4>2. QED
        BY <1>1, <4>1, Zenon
    <3>3. Lba(b).inode = b
      BY EntryIs
    <3>4. n = k - MAX_DIRECT <=> m = k
      BY <1>0, <2>2
    <3>5. Index(t, l1) = [x EXCEPT ![k - MAX_DIRECT] = Lba(b)]
      BY <1>set
    <3> HIDE DEF n, x
    <3>6. QED
      BY <1>0, <3>1, <3>2, <3>3, <3>4, <3>5
  <2>3. CASE m >= LEVEL1_BORDER
    <3>1. m # k
      BY <1>0, <2>3
    <3>2. Level1Of(s, i, m) \in {0} \cup Block /\ Level1Of(s, i, m) # l1
      <4>1. (m - LEVEL1_BORDER) \div LBA_ITEMS_PER_SECTOR \in Place
        BY <2>3, Ranges DEF Place
      <4>2. QED
        BY <1>5, <2>3, <4>1, GetIs DEF Behind, Level1Of
    <3>3. QED
      <4> DEFINE r == (m - LEVEL1_BORDER) % LBA_ITEMS_PER_SECTOR
      <4>1. /\ iblock_get(t, i, m) = Index(t, Level1Of(t, i, m))[r].inode
            /\ iblock_get(s, i, m) = Index(s, Level1Of(s, i, m))[r].inode
        BY <2>3, GetLevel2
      <4> HIDE DEF r
      <4>2. Index(t, Level1Of(t, i, m)) = Index(s, Level1Of(s, i, m))
        BY <1>3, <1>6, <3>2, Zenon
      <4>3. QED
        BY <3>1, <4>1, <4>2, Zenon
  <2>4. QED
    BY <2>1, <2>2, <2>3, Ranges
<1>8. Grown(s, t, i, k, b)
  BY <1>7 DEF Grown
<1> DEFINE F == {l1} \ s.mem.bmap
<1>9. Apart(t, i) /\ Owned(t, i) \subseteq Owned(s, i) \cup {b} \cup F
  <2>1. Level1(s, i) # 0 => Level1(s, i) \in s.mem.bmap
    BY <1>4, OwnedIs
  <2>2. /\ F \cap s.mem.bmap = {} /\ Level1(t, i) \in {Level1(s, i)} \cup F
        /\ Level2(t, i) \in {Level2(s, i)} \cup F
        /\ \A n \in Place : Behind(t, i, n) \in {Behind(s, i, n)} \cup F
    BY <1>1, <1>6, <1>set, <2>1
  <2>3. /\ Level1(t, i) # Level2(t, i)
        /\ \A n \in Place : Level1(t, i) # Behind(t, i, n)
        /\ Level2(t, i) \notin F /\ \A n \in Place : Behind(t, i, n) \notin F
    BY <1>1, <1>5, <1>6
  <2> HIDE DEF F
  <2>4. QED
    BY <1>8, <2>2, <2>3, GrownApart DEF Linkable, NewIndex
<1>10. F \subseteq t.mem.bmap \ s.mem.bmap /\ s.mem.bmap \subseteq t.mem.bmap
  <2>1. l1 # 0
    BY DEF Block
  <2>2. CASE l1 \in s.mem.bmap
    BY <1>set, <2>2
  <2>3. CASE l1 \notin s.mem.bmap
    <3>1. Level1(s, i) # 0 => Level1(s, i) \in s.mem.bmap
      BY <1>4, OwnedIs
    <3>2. t.mem.bmap = s.mem.bmap \cup {l1}
      BY <1>set, <2>1, <2>3, <3>1
    <3>3. QED
      BY <3>2
  <2>4. QED
    BY <2>2, <2>3
<1>11. ASSUME NEW c \in s.mem.bmap,
              c \in Owned(s, i) => \E m \in IBlocks(s, i) : c = iblock_get(s, i, m)
       PROVE  t.disk[BlockAt(c)] = s.disk[BlockAt(c)]
  <2>1. c # l1
    <3>1. SUFFICES ASSUME c = l1 PROVE FALSE
      OBVIOUS
    <3>2. l1 = Level1(s, i) /\ l1 # 0
      BY <1>set, <3>1 DEF Block
    <3>3. l1 \in Owned(s, i)
      BY <3>2, OwnedIs
    <3>4. PICK m \in IBlocks(s, i) : l1 = iblock_get(s, i, m)
      BY <1>11, <3>1, <3>3
    <3>5. QED
      BY <1>4, <3>2, <3>4, ApartIs
  <2>2. QED
    BY <1>set, <2>1, StateIs
<1>12. QED
  BY <1>8, <1>9, <1>10, <1>11 DEF Linked, OthersSame

\* The entries of the level 2 and of the level 1 block that lead to block k.
Outer(k) == (k - LEVEL1_BORDER) \div LBA_ITEMS_PER_SECTOR
Inner(k) == (k - LEVEL1_BORDER) % LBA_ITEMS_PER_SECTOR

LEMMA OuterInner ==
  ASSUME NEW k \in IBlock, k >= LEVEL1_BORDER
  PROVE  /\ Outer(k) \in Place /\ Inner(k) \in Place
         /\ \A m \in IBlock :
              m >= LEVEL1_BORDER /\ Outer(m) = Outer(k) /\ Inner(m) = Inner(k) => m = k
<1>1. Outer(k) \in Place /\ Inner(k) \in Place
  BY Ranges DEF Place, Outer, Inner
<1>2. ASSUME NEW m \in IBlock, m >= LEVEL1_BORDER, Outer(m) = Outer(k), Inner(m) = Inner(k)
      PROVE  m = k
  <2> DEFINE x == k - LEVEL1_BORDER
             y == m - LEVEL1_BORDER
  <2>1. x \in Nat /\ y \in Nat /\ LBA_ITEMS_PER_SECTOR \in Nat \ {0}
    BY <1>2, Sizes DEF IBlock
  <2>2. /\ x \div LBA_ITEMS_PER_SECTOR = y \div LBA_ITEMS_PER_SECTOR
        /\ x % LBA_ITEMS_PER_SECTOR = y % LBA_ITEMS_PER_SECTOR
    BY <1>2, Zenon DEF Outer, Inner
  <2> HIDE DEF x, y
  <2>3. x = y
    BY <2>1, <2>2, SamePlace
  <2>4. QED
    BY <1>2, <2>3, Sizes DEF x, y, IBlock
<1>3. QED
  BY <1>1, <1>2

\* A block of a level 1 block behind the level 2 block, old ones or new ones.
SetLevel2(s, t, i, k, b, l1, l2) ==
  /\ l2 = Level2(s, i) \/ (Level2(s, i) = 0 /\ l2 \notin s.mem.bmap)
  /\ \/ l1 = Behind(s, i, Outer(k))
     \/ Behind(s, i, Outer(k)) = 0 /\ l1 \notin s.mem.bmap /\ l1 # l2
  /\ t.mem.bmap = s.mem.bmap \cup {l1, l2}
  /\ t.mem.inode[i].iblocks = [s.mem.inode[i].iblocks EXCEPT ![LEVEL2_INDEX] = l2]
  /\ Index(t, l2) = [Index(s, Level2(s, i)) EXCEPT ![Outer(k)] = Lba(l1)]
  /\ Index(t, l1) = [Index(s, Behind(s, i, Outer(k))) EXCEPT ![Inner(k)] = Lba(b)]
  /\ \A c \in Block \ {l1, l2} : t.disk[BlockAt(c)] = s.disk[BlockAt(c)]

LEMMA NewLevel2 ==
  ASSUME NEW s \in FsState, NEW t \in FsState, NEW i \in Inode, NEW c,
         t.mem.inode[i].iblocks = [s.mem.inode[i].iblocks EXCEPT ![LEVEL2_INDEX] = c]
  PROVE  /\ \A n \in 0..(MAX_INODE_BLOCKS - 1) :
              t.mem.inode[i].iblocks[n]
                = IF n = LEVEL2_INDEX THEN c ELSE s.mem.inode[i].iblocks[n]
         /\ Level1(t, i) = Level1(s, i) /\ Level2(t, i) = c
<1>1. LEVEL2_INDEX \in 0..(MAX_INODE_BLOCKS - 1) /\ LEVEL1_INDEX # LEVEL2_INDEX
  BY Sizes
<1>2. QED
  BY <1>1, NodeReads

\* The index blocks of i before and after.
LEMMA Level2Blocks ==
  ASSUME NEW s \in FsState, NEW t \in FsState, NEW i \in Inode, NEW k \in IBlock,
         k >= LEVEL1_BORDER, NEW b, NEW l1 \in Block, NEW l2 \in Block,
         Apart(s, i), Owned(s, i) \subseteq s.mem.bmap, SetLevel2(s, t, i, k, b, l1, l2)
  PROVE  /\ \A m \in 0..(MAX_DIRECT - 1) :
              t.mem.inode[i].iblocks[m] = s.mem.inode[i].iblocks[m]
         /\ Level1(t, i) = Level1(s, i) /\ Level2(t, i) = l2 /\ l1 # l2
         /\ \A n \in Place : Behind(t, i, n) = IF n = Outer(k) THEN l1 ELSE Behind(s, i, n)
         /\ \A c : c = Level1(s, i) \/ (\E n \in Place : n # Outer(k) /\ c = Behind(s, i, n))
              => c \notin {l1, l2}
<1>set. /\ l2 = Level2(s, i) \/ (Level2(s, i) = 0 /\ l2 \notin s.mem.bmap)
        /\ \/ l1 = Behind(s, i, Outer(k))
           \/ Behind(s, i, Outer(k)) = 0 /\ l1 \notin s.mem.bmap /\ l1 # l2
        /\ t.mem.inode[i].iblocks = [s.mem.inode[i].iblocks EXCEPT ![LEVEL2_INDEX] = l2]
        /\ Index(t, l2) = [Index(s, Level2(s, i)) EXCEPT ![Outer(k)] = Lba(l1)]
  BY DEF SetLevel2
<1>0. /\ LEVEL2_INDEX \in 0..(MAX_INODE_BLOCKS - 1) /\ LEVEL2_INDEX # LEVEL1_INDEX
      /\ \A m \in 0..(MAX_DIRECT - 1) : m \in 0..(MAX_INODE_BLOCKS - 1) /\ m # LEVEL2_INDEX
  BY Sizes
<1>1. /\ \A m \in 0..(MAX_DIRECT - 1) :
           t.mem.inode[i].iblocks[m] = s.mem.inode[i].iblocks[m]
      /\ Level1(t, i) = Level1(s, i) /\ Level2(t, i) = l2
  <2>1. /\ \A n \in 0..(MAX_INODE_BLOCKS - 1) :
             t.mem.inode[i].iblocks[n]
               = IF n = LEVEL2_INDEX THEN l2 ELSE s.mem.inode[i].iblocks[n]
        /\ Level1(t, i) = Level1(s, i) /\ Level2(t, i) = l2
    <3>1. /\ LEVEL2_INDEX \in 0..(MAX_INODE_BLOCKS - 1)
          /\ t.mem.inode[i].iblocks = [s.mem.inode[i].iblocks EXCEPT ![LEVEL2_INDEX] = l2]
      BY <1>0, <1>set, Zenon
    <3>2. QED
      BY <3>1, NewLevel2
  <2>2. QED
    BY <1>0, <2>1
<1>2. Outer(k) \in Place
  BY OuterInner
<1>3. /\ Level1(s, i) # 0 => Level1(s, i) \in s.mem.bmap
      /\ Level2(s, i) # 0 => Level2(s, i) \in s.mem.bmap
      /\ \A n \in Place : Behind(s, i, n) # 0 => Behind(s, i, n) \in s.mem.bmap
  BY OwnedIs
<1>4. /\ Level1(s, i) # 0 =>
                /\ Level1(s, i) # Level2(s, i)
                /\ \A n \in Place : Level1(s, i) # Behind(s, i, n)
      /\ Level2(s, i) # 0 => \A n \in Place : Level2(s, i) # Behind(s, i, n)
      /\ \A n, m \in Place :
                Behind(s, i, n) = Behind(s, i, m) /\ Behind(s, i, n) # 0 => n = m
  BY ApartIs
<1>5. l1 # 0 /\ l2 # 0
  BY DEF Block
<1>6. l1 # l2
  BY <1>set, <1>2, <1>3, <1>4, <1>5
<1>7. ASSUME NEW n \in Place
      PROVE  Behind(t, i, n) = IF n = Outer(k) THEN l1 ELSE Behind(s, i, n)
  <2> DEFINE x == Index(s, Level2(s, i))
  <2>1. x \in [Place -> {Lba(c) : c \in {0} \cup Block}]
    BY IndexIs, LevelIs DEF Place, IndexType
  <2>2. Behind(t, i, n) = [x EXCEPT ![Outer(k)] = Lba(l1)][n].inode
    BY <1>1, <1>set, Zenon DEF Behind
  <2>3. Behind(s, i, n) = x[n].inode
    BY DEF Behind
  <2>4. Lba(l1).inode = l1
    BY EntryIs
  <2> HIDE DEF x
  <2>5. QED
    BY <1>2, <2>1, <2>2, <2>3, <2>4
<1>8. ASSUME NEW c, c = Level1(s, i) PROVE c \notin {l1, l2}
  BY <1>set, <1>2, <1>3, <1>4, <1>5, <1>8
<1>9. ASSUME NEW n \in Place, n # Outer(k) PROVE Behind(s, i, n) \notin {l1, l2}
  <2>1. Behind(s, i, n) # l1
    BY <1>set, <1>2, <1>3, <1>4, <1>5, <1>9
  <2>2. Behind(s, i, n) # l2
    BY <1>set, <1>3, <1>4, <1>5
  <2>3. QED
    BY <2>1, <2>2
<1>10. QED
  BY <1>1, <1>6, <1>7, <1>8, <1>9

LEMMA LinkedLevel2 ==
  ASSUME NEW s \in FsState, NEW t \in FsState, NEW i \in Inode,
         NEW k \in IBlock, k >= LEVEL1_BORDER,
         NEW b \in Block, Linkable(s, i, k, b), NEW l1 \in Block, NEW l2 \in Block,
         OthersSame(s, t, i), SetLevel2(s, t, i, k, b, l1, l2)
  PROVE  Linked(s, t, i, k, b)
<1>link. Apart(s, i) /\ Owned(s, i) \subseteq s.mem.bmap
  BY DEF Linkable
<1>set. /\ l2 = Level2(s, i) \/ (Level2(s, i) = 0 /\ l2 \notin s.mem.bmap)
        /\ \/ l1 = Behind(s, i, Outer(k))
           \/ Behind(s, i, Outer(k)) = 0 /\ l1 \notin s.mem.bmap /\ l1 # l2
        /\ t.mem.bmap = s.mem.bmap \cup {l1, l2}
        /\ Index(t, l1) = [Index(s, Behind(s, i, Outer(k))) EXCEPT ![Inner(k)] = Lba(b)]
        /\ \A c \in Block \ {l1, l2} : t.disk[BlockAt(c)] = s.disk[BlockAt(c)]
  BY DEF SetLevel2
<1>0. /\ k \in Nat /\ LEVEL1_BORDER \in Nat /\ MAX_DIRECT <= LEVEL1_BORDER
      /\ \A m \in IBlock : m < MAX_DIRECT => m \in 0..(MAX_DIRECT - 1) /\ m # k
      /\ \A m \in MAX_DIRECT..(LEVEL1_BORDER - 1) : m # k
  BY Sizes DEF IBlock
<1>1. /\ \A m \in 0..(MAX_DIRECT - 1) :
              t.mem.inode[i].iblocks[m] = s.mem.inode[i].iblocks[m]
      /\ Level1(t, i) = Level1(s, i) /\ Level2(t, i) = l2 /\ l1 # l2
      /\ \A n \in Place : Behind(t, i, n) = IF n = Outer(k) THEN l1 ELSE Behind(s, i, n)
      /\ \A c : c = Level1(s, i) \/ (\E n \in Place : n # Outer(k) /\ c = Behind(s, i, n))
           => c \notin {l1, l2}
  <2>1. Apart(s, i) /\ Owned(s, i) \subseteq s.mem.bmap
    BY DEF Linkable
  <2>2. QED
    BY <2>1, Level2Blocks
<1>2. Level1(s, i) \in {0} \cup Block /\ \A n \in Place : Behind(s, i, n) \in {0} \cup Block
  BY LevelIs, OwnedIs
<1>3. \A c \in {0} \cup (Block \ {l1, l2}) : Index(t, c) = Index(s, c)
  BY <1>set DEF Index
<1>4. \A u, m : Level1Of(u, i, m) = Behind(u, i, Outer(m))
  BY DEF Level1Of, Behind, Outer
<1>5. ASSUME NEW m \in IBlock
      PROVE  iblock_get(t, i, m) = IF m = k THEN b ELSE iblock_get(s, i, m)
  <2>1. CASE m < MAX_DIRECT
    <3>1. /\ iblock_get(t, i, m) = t.mem.inode[i].iblocks[m]
          /\ iblock_get(s, i, m) = s.mem.inode[i].iblocks[m]
      BY <2>1, GetDirect, Zenon
    <3>2. QED
      BY <1>0, <1>1, <2>1, <3>1, Zenon
  <2>2. CASE m \in MAX_DIRECT..(LEVEL1_BORDER - 1)
    <3>1. /\ iblock_get(t, i, m) = Index(t, Level1(t, i))[m - MAX_DIRECT].inode
          /\ iblock_get(s, i, m) = Index(s, Level1(s, i))[m - MAX_DIRECT].inode
      BY <2>2, GetLevel1, Zenon
    <3>2. Index(t, Level1(t, i)) = Index(s, Level1(s, i))
      BY <1>1, <1>2, <1>3
    <3>3. QED
      BY <1>0, <2>2, <3>1, <3>2, Zenon
  <2>3. CASE m >= LEVEL1_BORDER
    <3>1. /\ iblock_get(t, i, m) = Index(t, Behind(t, i, Outer(m)))[Inner(m)].inode
          /\ iblock_get(s, i, m) = Index(s, Behind(s, i, Outer(m)))[Inner(m)].inode
      <4>1. /\ iblock_get(t, i, m) = Index(t, Level1Of(t, i, m))[Inner(m)].inode
            /\ iblock_get(s, i, m) = Index(s, Level1Of(s, i, m))[Inner(m)].inode
        BY <2>3, GetLevel2 DEF Inner
      <4>2. QED
        BY <1>4, <4>1, Zenon
    <3>2. Outer(m) \in Place /\ Inner(m) \in Place
      BY <2>3, OuterInner
    <3>3. CASE Outer(m) # Outer(k)
      <4>1. Behind(t, i, Outer(m)) = Behind(s, i, Outer(m)) /\ m # k
        BY <1>1, <3>2, <3>3, Zenon
      <4>2. Index(t, Behind(s, i, Outer(m))) = Index(s, Behind(s, i, Outer(m)))
        BY <1>1, <1>2, <1>3, <3>2, <3>3
      <4>3. QED
        BY <3>1, <4>1, <4>2, Zenon
    <3>4. CASE Outer(m) = Outer(k)
      <4> DEFINE x == Index(s, Behind(s, i, Outer(k)))
      <4>1. x \in [Place -> {Lba(c) : c \in {0} \cup Block}]
        BY <1>2, <3>2, <3>4, IndexIs DEF Place, IndexType
      <4>2. iblock_get(t, i, m) = [x EXCEPT ![Inner(k)] = Lba(b)][Inner(m)].inode
        BY <1>1, <1>set, <3>1, <3>2, <3>4, Zenon
      <4>3. iblock_get(s, i, m) = x[Inner(m)].inode
        BY <3>1, <3>4, Zenon
      <4>4. Lba(b).inode = b
        BY EntryIs
      <4>5. Inner(m) = Inner(k) <=> m = k
        BY <2>3, <3>4, OuterInner
      <4>6. Inner(k) \in Place
        BY OuterInner
      <4> HIDE DEF x
      <4>7. QED
        BY <3>2, <4>1, <4>2, <4>3, <4>4, <4>5, <4>6
    <3>5. QED
      BY <3>3, <3>4
  <2>4. QED
    BY <2>1, <2>2, <2>3, Ranges
<1>6. Grown(s, t, i, k, b)
  BY <1>5 DEF Grown
<1> DEFINE F == {l1, l2} \ s.mem.bmap
<1>7. /\ Level1(s, i) # 0 => Level1(s, i) \in s.mem.bmap
      /\ Level2(s, i) # 0 => Level2(s, i) \in s.mem.bmap
      /\ \A n \in Place : Behind(s, i, n) # 0 => Behind(s, i, n) \in s.mem.bmap
      /\ 0 \notin s.mem.bmap
  BY <1>link, OwnedIs, StateIs DEF Block
<1>8. Outer(k) \in Place /\ l1 # 0 /\ l2 # 0
  BY OuterInner DEF Block
<1>9. NewIndex(s, t, i, F)
  <2>1. /\ F \cap s.mem.bmap = {}
        /\ Level1(t, i) \in {Level1(s, i)} /\ Level1(t, i) \notin F
    BY <1>1
  <2>2. Level2(t, i) \in {Level2(s, i)} \cup F
    BY <1>1, <1>set
  <2>3. \A n \in Place : Behind(t, i, n) \in {Behind(s, i, n)} \cup F
    BY <1>1, <1>set
  <2>4. \A n \in Place : Level2(t, i) # Behind(t, i, n)
    BY <1>1
  <2>5. \A n \in Place : Behind(t, i, n) \in F => n = Outer(k)
    BY <1>1
  <2> HIDE DEF F
  <2>6. QED
    BY <2>1, <2>2, <2>3, <2>4, <2>5 DEF NewIndex
<1>10. Apart(t, i) /\ Owned(t, i) \subseteq Owned(s, i) \cup {b} \cup F
  <2> HIDE DEF F
  <2>1. QED
    BY <1>6, <1>9, GrownApart
<1>11. F \subseteq t.mem.bmap \ s.mem.bmap /\ s.mem.bmap \subseteq t.mem.bmap
  BY <1>set
<1>12. ASSUME NEW c \in s.mem.bmap,
              c \in Owned(s, i) => \E m \in IBlocks(s, i) : c = iblock_get(s, i, m)
       PROVE  t.disk[BlockAt(c)] = s.disk[BlockAt(c)]
  <2>1. ASSUME c \in {l1, l2} PROVE FALSE
    <3>1. c = Level2(s, i) \/ c = Behind(s, i, Outer(k))
      BY <1>12, <1>set, <2>1
    <3>2. c # 0
      BY <1>8, <2>1
    <3>3. c \in Owned(s, i)
      BY <1>8, <3>1, <3>2, OwnedIs
    <3>4. PICK m \in IBlocks(s, i) : c = iblock_get(s, i, m)
      BY <1>12, <3>3
    <3>5. QED
      BY <1>8, <1>link, <3>1, <3>2, <3>4, ApartIs
  <2>2. QED
    BY <1>set, <2>1, StateIs
<1>13. QED
  BY <1>6, <1>10, <1>11, <1>12 DEF Linked, OthersSame

SetEntry(s, i, n, b) == [s EXCEPT !.mem.inode[i].iblocks[n] = b]

LEMMA SetEntryIs ==
  ASSUME NEW s \in FsState, NEW i \in Inode, NEW n \in 0..(MAX_INODE_BLOCKS - 1), NEW b \in Block
  PROVE  LET t == SetEntry(s, i, n, b)
         IN  /\ t \in FsState /\ Follows(s, t) /\ t.disk = s.disk
             /\ t.mem.bmap = s.mem.bmap /\ t.mem.halt = s.mem.halt /\ OthersSame(s, t, i)
             /\ t.mem.inode[i].iblocks = [s.mem.inode[i].iblocks EXCEPT ![n] = b]
             /\ t.mem.inode[i].iblocks[n] = b
<1> DEFINE t == [s EXCEPT !.mem.inode[i].iblocks[n] = b]
           v == [s.mem.inode[i] EXCEPT !.iblocks[n] = b]
<1>1. /\ t \in FsState /\ Follows(s, t) /\ t.disk = s.disk /\ t.todo = s.todo
      /\ t.mem.imap = s.mem.imap /\ t.mem.bmap = s.mem.bmap /\ t.mem.halt = s.mem.halt
      /\ t.mem.inode = [s.mem.inode EXCEPT ![i] = v]
      /\ v.size = s.mem.inode[i].size
      /\ v.iblocks = [s.mem.inode[i].iblocks EXCEPT ![n] = b]
  BY EntrySet
<1> HIDE DEF t, v
<1>2. /\ s.mem.inode \in [Inode -> InodeType]
      /\ s.mem.inode[i].iblocks \in [0..(MAX_INODE_BLOCKS - 1) -> {0} \cup Block]
  BY StateIs DEF InodeType
<1>3. t.mem.inode[i] = v /\ \A j \in Inode \ {i} : t.mem.inode[j] = s.mem.inode[j]
  BY <1>1, <1>2
<1>4. t.mem.inode[i].iblocks[n] = b
  BY <1>1, <1>2, <1>3
<1>5. QED
  BY <1>1, <1>3, <1>4 DEF SetEntry, OthersSame, t

\* An indirect entry of the inode, with a new block if it has none.
LEMMA WithIndexIs ==
  ASSUME NEW s \in FsState, NEW i \in Inode, NEW level \in {LEVEL1_INDEX, LEVEL2_INDEX}
  PROVE  LET t == WithIndex(s, i, level)
             c == t.mem.inode[i].iblocks[level]
         IN  /\ t \in FsState /\ Follows(s, t) /\ c \in Block
             /\ t.mem.halt \in {s.mem.halt, "full"}
             /\ s.mem.halt # "no" => t.mem.halt # "no"
             /\ t.mem.halt = "no" =>
                  /\ OthersSame(s, t, i)
                  /\ t.mem.inode[i].iblocks = [s.mem.inode[i].iblocks EXCEPT ![level] = c]
                  /\ \/ c = s.mem.inode[i].iblocks[level] /\ t.mem.bmap = s.mem.bmap
                     \/ /\ s.mem.inode[i].iblocks[level] = 0 /\ c \notin s.mem.bmap
                        /\ t.mem.bmap = s.mem.bmap \cup {c}
                  /\ \A d \in Block : t.disk[BlockAt(d)] = s.disk[BlockAt(d)]
<1> DEFINE t == WithIndex(s, i, level)
<1>0. level \in 0..(MAX_INODE_BLOCKS - 1)
  BY Sizes
<1>1. s.mem.inode[i].iblocks \in [0..(MAX_INODE_BLOCKS - 1) -> {0} \cup Block]
  BY StateIs DEF InodeType
<1>2. CASE s.mem.inode[i].iblocks[level] # 0
  <2>1. t = s
    BY <1>2 DEF WithIndex
  <2>2. [s.mem.inode[i].iblocks EXCEPT ![level] = s.mem.inode[i].iblocks[level]]
          = s.mem.inode[i].iblocks
    BY <1>0, <1>1
  <2>3. s.mem.inode[i].iblocks[level] \in Block
    BY <1>0, <1>1, <1>2
  <2>4. OthersSame(s, s, i) /\ Follows(s, s)
    BY FollowsSame DEF OthersSame
  <2> HIDE DEF t
  <2>5. QED
    BY <2>1, <2>2, <2>3, <2>4 DEF t
<1>3. CASE s.mem.inode[i].iblocks[level] = 0
  <2> DEFINE u == free_allocate(s)
             b == FreeBlock(s)
             v == SetEntry(u, i, level, b)
  <2>1. t = inodes_rw_disk(v, i)
    BY <1>3, Zenon DEF WithIndex, SetEntry
  <2>2. /\ u \in FsState /\ Follows(s, u) /\ u.disk = s.disk /\ b \in Block
        /\ u.mem.halt \in {s.mem.halt, "full"}
        /\ s.mem.halt # "no" => u.mem.halt # "no"
        /\ u.mem.halt = "no" =>
             /\ b \notin s.mem.bmap /\ u.mem.bmap = s.mem.bmap \cup {b}
             /\ u.mem.imap = s.mem.imap /\ u.mem.inode = s.mem.inode
    BY AllocIs
  <2> HIDE DEF u, b
  <2>3. /\ v \in FsState /\ Follows(u, v) /\ v.disk = u.disk
        /\ v.mem.bmap = u.mem.bmap /\ v.mem.halt = u.mem.halt /\ OthersSame(u, v, i)
        /\ v.mem.inode[i].iblocks = [u.mem.inode[i].iblocks EXCEPT ![level] = b]
        /\ v.mem.inode[i].iblocks[level] = b
    BY <1>0, <2>2, SetEntryIs
  <2> HIDE DEF v
  <2>4. /\ t \in FsState /\ Follows(v, t) /\ t.mem = v.mem
        /\ v.mem.halt # "no" => t = v
        /\ v.mem.halt = "no" => t.disk = [v.disk EXCEPT ![InodeAt(i)] = v.mem.inode[i]]
    BY <2>1, <2>3, InodeRwIs
  <2> HIDE DEF t
  <2>5. Follows(s, t)
    BY <2>2, <2>3, <2>4, FollowsOn, Zenon
  <2>9. ASSUME t.mem.halt = "no"
        PROVE  \A d \in Block : t.disk[BlockAt(d)] = s.disk[BlockAt(d)]
    <3>1. t.disk = [s.disk EXCEPT ![InodeAt(i)] = v.mem.inode[i]]
      BY <2>2, <2>3, <2>4, <2>9
    <3>2. \A d \in Block : BlockAt(d) \in Sector /\ BlockAt(d) # InodeAt(i)
      BY Sectors, SectorsApart
    <3>3. s.disk \in [Sector -> UNION {Content(a) : a \in Sector}]
      BY StateIs DEF DiskType
    <3>4. QED
      BY <3>1, <3>2, <3>3
  <2>10. t.mem.halt = u.mem.halt
    BY <2>3, <2>4
  <2>11. ASSUME t.mem.halt = "no" PROVE OthersSame(s, t, i)
    BY <2>2, <2>3, <2>4, <2>10, <2>11 DEF OthersSame
  <2>12. QED
    BY <1>3, <2>2, <2>3, <2>4, <2>5, <2>9, <2>10, <2>11 DEF t
<1>4. QED
  BY <1>2, <1>3

\* An entry of an index block goes to the disk.
LEMMA SetLbaIs ==
  ASSUME NEW s \in FsState, NEW index \in Block, NEW old \in IndexType, NEW n \in Place,
         NEW b \in {0} \cup Block
  PROVE  LET t == SetLba(s, index, old, n, b)
         IN  /\ t \in FsState /\ Follows(s, t) /\ t.mem = s.mem
             /\ s.mem.halt = "no" =>
                  /\ Index(t, index) = [old EXCEPT ![n] = Lba(b)]
                  /\ \A c \in Block \ {index} : t.disk[BlockAt(c)] = s.disk[BlockAt(c)]
<1> DEFINE x == [old EXCEPT ![n] = Lba(b)]
           t == SetLba(s, index, old, n, b)
<1>1. x \in BlockType /\ \A u : u.disk[BlockAt(index)] = x => Index(u, index) = x
  <2>1. index # 0
    BY DEF Block
  <2>2. n \in 0..(LBA_ITEMS_PER_SECTOR - 1)
    BY DEF Place
  <2>3. QED
    <3>1. x \in BlockType
      BY <2>2, IndexNew, Zenon
    <3>2. ASSUME NEW u, u.disk[BlockAt(index)] = x PROVE Index(u, index) = x
      <4>1. \A w, c : c # 0 /\ w.disk[BlockAt(c)] = x => Index(w, c) = x
        BY <2>2, IndexNew, Zenon
      <4>2. QED
        BY <2>1, <3>2, <4>1, Zenon
    <3>3. QED
      BY <3>1, <3>2
<1>2. BlockAt(index) \in Sector /\ Content(BlockAt(index)) = BlockType
  BY Sectors
<1>3. t = WriteSector(s, BlockAt(index), x)
  BY DEF SetLba
<1> HIDE DEF t, x
<1>4. /\ t \in FsState /\ Follows(s, t) /\ t.mem = s.mem
      /\ s.mem.halt = "no" => t.disk = [s.disk EXCEPT ![BlockAt(index)] = x]
  BY <1>1, <1>2, <1>3, WriteIs
<1>5. ASSUME s.mem.halt = "no"
      PROVE  /\ Index(t, index) = x
             /\ \A c \in Block \ {index} : t.disk[BlockAt(c)] = s.disk[BlockAt(c)]
  <2>1. s.disk \in [Sector -> UNION {Content(a) : a \in Sector}]
    BY StateIs DEF DiskType
  <2>2. t.disk[BlockAt(index)] = x
    BY <1>2, <1>4, <1>5, <2>1
  <2>3. \A c \in Block \ {index} : BlockAt(c) # BlockAt(index)
    BY SectorsApart
  <2>4. \A c \in Block \ {index} : t.disk[BlockAt(c)] = s.disk[BlockAt(c)]
    BY <1>4, <1>5, <2>1, <2>3, Sectors
  <2>5. QED
    BY <1>1, <2>2, <2>4
<1>6. QED
  BY <1>4, <1>5 DEF t, x

\* The three ways of iblock_set.
LEMMA DirectSetIs ==
  ASSUME NEW s \in FsState, NEW i \in Inode, NEW k \in 0..(MAX_DIRECT - 1), NEW b \in Block
  PROVE  LET t == inodes_rw_disk([s EXCEPT !.mem.inode[i].iblocks[k] = b], i)
         IN  /\ t \in FsState /\ Follows(s, t) /\ t.mem.halt = s.mem.halt
             /\ t.mem.halt = "no" /\ Linkable(s, i, k, b) => Linked(s, t, i, k, b)
<1> DEFINE u == SetEntry(s, i, k, b)
           t == inodes_rw_disk(u, i)
<1>0. k \in 0..(MAX_INODE_BLOCKS - 1)
  BY Sizes
<1>1. t = inodes_rw_disk([s EXCEPT !.mem.inode[i].iblocks[k] = b], i)
  BY DEF SetEntry
<1>2. /\ u \in FsState /\ Follows(s, u) /\ u.disk = s.disk
      /\ u.mem.bmap = s.mem.bmap /\ u.mem.halt = s.mem.halt /\ OthersSame(s, u, i)
      /\ u.mem.inode[i].iblocks = [s.mem.inode[i].iblocks EXCEPT ![k] = b]
  BY <1>0, SetEntryIs
<1> HIDE DEF u
<1>3. /\ t \in FsState /\ Follows(u, t) /\ t.mem = u.mem
      /\ u.mem.halt = "no" => t.disk = [u.disk EXCEPT ![InodeAt(i)] = u.mem.inode[i]]
  BY <1>2, InodeRwIs
<1> HIDE DEF t
<1>4. ASSUME t.mem.halt = "no", Linkable(s, i, k, b) PROVE Linked(s, t, i, k, b)
  <2>1. \A d \in Block : BlockAt(d) \in Sector /\ BlockAt(d) # InodeAt(i)
    BY Sectors, SectorsApart
  <2>2. s.disk \in [Sector -> UNION {Content(a) : a \in Sector}]
    BY StateIs DEF DiskType
  <2>3. \A d \in Block : t.disk[BlockAt(d)] = s.disk[BlockAt(d)]
    BY <1>2, <1>3, <1>4, <2>1, <2>2
  <2>4. OthersSame(s, t, i) /\ SetDirect(s, t, i, k, b)
    BY <1>2, <1>3, <2>3 DEF OthersSame, SetDirect
  <2>5. QED
    BY <1>3, <1>4, <2>4, LinkedDirect
<1>5. Follows(s, t)
  BY <1>2, <1>3, FollowsOn, Zenon
<1>6. QED
  BY <1>1, <1>2, <1>3, <1>4, <1>5

LEMMA SetByLevel1Is ==
  ASSUME NEW s \in FsState, NEW i \in Inode, NEW k \in MAX_DIRECT..(LEVEL1_BORDER - 1),
         NEW b \in Block
  PROVE  LET t == SetByLevel1(s, i, k, b)
         IN  /\ t \in FsState /\ Follows(s, t) /\ t.mem.halt \in {s.mem.halt, "full"}
             /\ s.mem.halt # "no" => t.mem.halt # "no"
             /\ t.mem.halt = "no" /\ Linkable(s, i, k, b) => Linked(s, t, i, k, b)
<1> DEFINE s1 == WithIndex(s, i, LEVEL1_INDEX)
           c == s1.mem.inode[i].iblocks[LEVEL1_INDEX]
           old == Index(s, Level1(s, i))
           n == k - MAX_DIRECT
           t == SetLba(s1, c, old, n, b)
<1>1. t = SetByLevel1(s, i, k, b)
  BY DEF SetByLevel1, Level1
<1>2. /\ s1 \in FsState /\ Follows(s, s1) /\ c \in Block
      /\ s1.mem.halt \in {s.mem.halt, "full"}
      /\ s.mem.halt # "no" => s1.mem.halt # "no"
      /\ s1.mem.halt = "no" =>
           /\ OthersSame(s, s1, i)
           /\ s1.mem.inode[i].iblocks = [s.mem.inode[i].iblocks EXCEPT ![LEVEL1_INDEX] = c]
           /\ \/ c = s.mem.inode[i].iblocks[LEVEL1_INDEX] /\ s1.mem.bmap = s.mem.bmap
              \/ /\ s.mem.inode[i].iblocks[LEVEL1_INDEX] = 0 /\ c \notin s.mem.bmap
                 /\ s1.mem.bmap = s.mem.bmap \cup {c}
           /\ \A d \in Block : s1.disk[BlockAt(d)] = s.disk[BlockAt(d)]
  BY WithIndexIs
<1>3. old \in IndexType /\ n \in Place /\ b \in {0} \cup Block
  <2>1. old \in IndexType
    BY IndexIs, LevelIs
  <2>2. n \in Place
    BY Sizes DEF Place
  <2> HIDE DEF old, n
  <2>3. QED
    BY <2>1, <2>2
<1> HIDE DEF s1, c, old, n
<1>4. /\ t \in FsState /\ Follows(s1, t) /\ t.mem = s1.mem
      /\ s1.mem.halt = "no" =>
           /\ Index(t, c) = [old EXCEPT ![n] = Lba(b)]
           /\ \A d \in Block \ {c} : t.disk[BlockAt(d)] = s1.disk[BlockAt(d)]
  BY <1>2, <1>3, SetLbaIs
<1> HIDE DEF t
<1>5. ASSUME t.mem.halt = "no", Linkable(s, i, k, b) PROVE Linked(s, t, i, k, b)
  <2>1. OthersSame(s, t, i)
    BY <1>2, <1>4, <1>5 DEF OthersSame
  <2>2. SetLevel1(s, t, i, k, b, c)
    BY <1>2, <1>4, <1>5 DEF SetLevel1, Level1, old, n
  <2>3. QED
    BY <1>2, <1>4, <1>5, <2>1, <2>2, LinkedLevel1
<1>6. Follows(s, t)
  BY <1>2, <1>4, FollowsOn, Zenon
<1>7. QED
  BY <1>1, <1>2, <1>4, <1>5, <1>6

LEMMA SetByLevel2Is ==
  ASSUME NEW s \in FsState, NEW i \in Inode, NEW k \in IBlock, k >= LEVEL1_BORDER,
         NEW b \in Block
  PROVE  LET t == SetByLevel2(s, i, k, b)
         IN  /\ t \in FsState /\ Follows(s, t) /\ t.mem.halt \in {s.mem.halt, "full"}
             /\ s.mem.halt # "no" => t.mem.halt # "no"
             /\ t.mem.halt = "no" /\ Linkable(s, i, k, b) => Linked(s, t, i, k, b)
<1> DEFINE s1 == WithIndex(s, i, LEVEL2_INDEX)
           l2 == s1.mem.inode[i].iblocks[LEVEL2_INDEX]
           l1 == Behind(s, i, Outer(k))
           top == Index(s, Level2(s, i))
           t == SetByLevel2(s, i, k, b)
<1>1. /\ s1 \in FsState /\ Follows(s, s1) /\ l2 \in Block
      /\ s1.mem.halt \in {s.mem.halt, "full"}
      /\ s.mem.halt # "no" => s1.mem.halt # "no"
      /\ s1.mem.halt = "no" =>
           /\ OthersSame(s, s1, i)
           /\ s1.mem.inode[i].iblocks = [s.mem.inode[i].iblocks EXCEPT ![LEVEL2_INDEX] = l2]
           /\ \/ l2 = s.mem.inode[i].iblocks[LEVEL2_INDEX] /\ s1.mem.bmap = s.mem.bmap
              \/ /\ s.mem.inode[i].iblocks[LEVEL2_INDEX] = 0 /\ l2 \notin s.mem.bmap
                 /\ s1.mem.bmap = s.mem.bmap \cup {l2}
           /\ \A d \in Block : s1.disk[BlockAt(d)] = s.disk[BlockAt(d)]
  BY WithIndexIs
<1>2. /\ top \in IndexType /\ l1 \in {0} \cup Block /\ Index(s, l1) \in IndexType
      /\ Outer(k) \in Place /\ Inner(k) \in Place /\ b \in {0} \cup Block
      /\ top[Outer(k)].inode = l1 /\ s.mem.inode[i].iblocks[LEVEL2_INDEX] = Level2(s, i)
  BY IndexIs, LevelIs, OuterInner, OwnedIs DEF Behind, Level2
<1>3. Level2(s, i) = 0 => l1 = 0
  BY <1>2, EmptyIndex DEF Behind, Place
<1>4. Linkable(s, i, k, b) =>
        /\ Level2(s, i) # 0 => Level2(s, i) \in s.mem.bmap
        /\ l1 # 0 => l1 \in s.mem.bmap /\ l1 # Level2(s, i)
  BY <1>2, <1>3, OwnedIs, ApartIs DEF Linkable
<1>5. CASE l1 # 0
  <2> DEFINE v == SetLba(s1, l1, Index(s, l1), Inner(k), b)
  <2>1. t = v
    BY <1>5, Zenon DEF SetByLevel2, Level1Of, Behind, Outer, Inner
  <2>2. top[Outer(k)] = Lba(l1) /\ [top EXCEPT ![Outer(k)] = Lba(l1)] = top
    <3>1. PICK d \in {0} \cup Block : top[Outer(k)] = Lba(d)
      BY <1>2 DEF IndexType, Place
    <3>2. d = l1
      BY <1>2, <3>1, EntryIs
    <3>3. QED
      BY <1>2, <3>1, <3>2 DEF IndexType, Place
  <2> HIDE DEF t, s1, l1, top, l2
  <2>3. /\ v \in FsState /\ Follows(s1, v) /\ v.mem = s1.mem
        /\ s1.mem.halt = "no" =>
             /\ Index(v, l1) = [Index(s, l1) EXCEPT ![Inner(k)] = Lba(b)]
             /\ \A d \in Block \ {l1} : v.disk[BlockAt(d)] = s1.disk[BlockAt(d)]
    <3>1. /\ s1 \in FsState /\ l1 \in Block /\ Index(s, l1) \in IndexType
          /\ Inner(k) \in Place /\ b \in {0} \cup Block
      BY <1>1, <1>2, <1>5
    <3> DEFINE x == Index(s, l1)
               m == Inner(k)
    <3>2. x \in IndexType /\ m \in Place
      BY <3>1
    <3> HIDE DEF x, m
    <3>3. v = SetLba(s1, l1, x, m, b)
      BY DEF x, m
    <3> HIDE DEF v
    <3>4. QED
      BY <3>1, <3>2, <3>3, SetLbaIs DEF x, m
  <2> HIDE DEF v
  <2>4. ASSUME v.mem.halt = "no", Linkable(s, i, k, b) PROVE Linked(s, v, i, k, b)
    <3>1. OthersSame(s, v, i)
      BY <1>1, <2>3, <2>4 DEF OthersSame
    <3>2. l2 = Level2(s, i) /\ s1.mem.bmap = s.mem.bmap
      BY <1>1, <1>2, <1>3, <1>5, <2>3, <2>4
    <3>3. l2 \in s.mem.bmap /\ l1 \in s.mem.bmap /\ l1 # l2 /\ l2 # 0
      BY <1>1, <1>4, <1>5, <2>4, <3>2 DEF Block
    <3>4. \A d \in Block \ {l1} : v.disk[BlockAt(d)] = s.disk[BlockAt(d)]
      BY <1>1, <2>3, <2>4
    <3>5. Index(v, l2) = top
      BY <1>1, <3>2, <3>3, <3>4 DEF Index, top
    <3>6. SetLevel2(s, v, i, k, b, l1, l2)
      <4>1. v.mem.bmap = s.mem.bmap \cup {l1, l2}
        BY <2>3, <3>2, <3>3
      <4>2. v.mem.inode[i].iblocks = [s.mem.inode[i].iblocks EXCEPT ![LEVEL2_INDEX] = l2]
        BY <1>1, <2>3, <2>4
      <4>3. Index(v, l1) = [Index(s, l1) EXCEPT ![Inner(k)] = Lba(b)]
        BY <2>3, <2>4
      <4>4. Index(v, l2) = [Index(s, Level2(s, i)) EXCEPT ![Outer(k)] = Lba(l1)]
        BY <2>2, <3>5 DEF top
      <4>5. \A d \in Block \ {l1, l2} : v.disk[BlockAt(d)] = s.disk[BlockAt(d)]
        BY <3>4
      <4>6. QED
        BY <3>2, <4>1, <4>2, <4>3, <4>4, <4>5, Zenon DEF SetLevel2, l1
    <3>7. l1 \in Block /\ l2 \in Block
      BY <1>1, <1>2, <1>5
    <3>8. QED
      BY <2>3, <2>4, <3>1, <3>6, <3>7, LinkedLevel2
  <2>5. Follows(s, v)
    BY <1>1, <2>3, FollowsOn, Zenon
  <2>6. QED
    BY <1>1, <2>1, <2>3, <2>4, <2>5 DEF t
<1>6. CASE l1 = 0
  <2> DEFINE u == free_allocate(s1)
             f == FreeBlock(s1)
             s2 == SetLba(u, l2, top, Outer(k), f)
             v == SetLba(s2, f, Index(s, l1), Inner(k), b)
  <2>1. t = v
    BY <1>6 DEF SetByLevel2, Level1Of, Behind, Outer, Inner, Level2
  <2>2. /\ u \in FsState /\ Follows(s1, u) /\ u.disk = s1.disk /\ f \in Block
        /\ u.mem.halt \in {s1.mem.halt, "full"}
        /\ s1.mem.halt # "no" => u.mem.halt # "no"
        /\ u.mem.halt = "no" =>
             /\ f \notin s1.mem.bmap /\ u.mem.bmap = s1.mem.bmap \cup {f}
             /\ u.mem.imap = s1.mem.imap /\ u.mem.inode = s1.mem.inode
    BY <1>1, AllocIs
  <2> HIDE DEF t, s1, l1, top, l2, u, f
  <2>3. /\ s2 \in FsState /\ Follows(u, s2) /\ s2.mem = u.mem
        /\ u.mem.halt = "no" =>
             /\ Index(s2, l2) = [top EXCEPT ![Outer(k)] = Lba(f)]
             /\ \A d \in Block \ {l2} : s2.disk[BlockAt(d)] = u.disk[BlockAt(d)]
    <3>1. f \in {0} \cup Block
      BY <2>2
    <3>2. QED
      BY <1>1, <1>2, <2>2, <3>1, SetLbaIs
  <2> HIDE DEF s2
  <2>4. /\ v \in FsState /\ Follows(s2, v) /\ v.mem = s2.mem
        /\ s2.mem.halt = "no" =>
             /\ Index(v, f) = [Index(s, l1) EXCEPT ![Inner(k)] = Lba(b)]
             /\ \A d \in Block \ {f} : v.disk[BlockAt(d)] = s2.disk[BlockAt(d)]
    BY <1>2, <2>2, <2>3, SetLbaIs
  <2> HIDE DEF v
  <2>5. ASSUME v.mem.halt = "no", Linkable(s, i, k, b) PROVE Linked(s, v, i, k, b)
    <3>0. s1.mem.halt = "no" /\ u.mem.halt = "no" /\ s2.mem.halt = "no"
      BY <2>2, <2>3, <2>4, <2>5
    <3>1. OthersSame(s, v, i)
      BY <1>1, <2>2, <2>3, <2>4, <3>0 DEF OthersSame
    <3>2. /\ l2 = Level2(s, i) \/ (Level2(s, i) = 0 /\ l2 \notin s.mem.bmap)
          /\ s1.mem.bmap = s.mem.bmap \cup {l2}
      <4>1. l2 # 0
        BY <1>1 DEF Block
      <4>2. Level2(s, i) # 0 => Level2(s, i) \in s.mem.bmap
        BY <1>4, <2>5
      <4>3. QED
        BY <1>1, <1>2, <3>0, <4>1, <4>2
    <3>3. f \notin s.mem.bmap /\ f # l2 /\ v.mem.bmap = s.mem.bmap \cup {f, l2}
      BY <2>2, <2>3, <2>4, <3>0, <3>2
    <3>4. \A d \in Block \ {f, l2} : v.disk[BlockAt(d)] = s.disk[BlockAt(d)]
      BY <1>1, <2>2, <2>3, <2>4, <3>0
    <3>5. Index(v, l2) = [top EXCEPT ![Outer(k)] = Lba(f)]
      <4>1. v.disk[BlockAt(l2)] = s2.disk[BlockAt(l2)]
        BY <1>1, <2>4, <3>0, <3>3
      <4>2. Index(v, l2) = Index(s2, l2)
        BY <4>1, Zenon DEF Index
      <4>3. QED
        BY <2>3, <3>0, <4>2
    <3>6. SetLevel2(s, v, i, k, b, f, l2)
      <4>1. v.mem.inode[i].iblocks = [s.mem.inode[i].iblocks EXCEPT ![LEVEL2_INDEX] = l2]
        BY <1>1, <2>2, <2>3, <2>4, <3>0
      <4>2. Index(v, f) = [Index(s, Behind(s, i, Outer(k))) EXCEPT ![Inner(k)] = Lba(b)]
        BY <2>4, <3>0 DEF l1
      <4>3. Behind(s, i, Outer(k)) = 0 /\ f \notin s.mem.bmap /\ f # l2
        BY <1>6, <3>3 DEF l1
      <4>4. QED
        BY <3>2, <3>3, <3>4, <3>5, <4>1, <4>2, <4>3, Zenon DEF SetLevel2, top
    <3>7. QED
      BY <1>1, <2>2, <2>4, <2>5, <3>1, <3>6, LinkedLevel2
  <2>6. Follows(s, v)
    BY <1>1, <2>2, <2>3, <2>4, FollowsOn, Zenon
  <2>7. QED
    BY <1>1, <2>1, <2>2, <2>3, <2>4, <2>5, <2>6 DEF t
<1>7. QED
  BY <1>5, <1>6

\* Whatever the index, the block is linked, or no block was left for an index.
LEMMA SetIs ==
  ASSUME NEW s \in FsState, NEW i \in Inode, NEW k \in IBlock, NEW b \in Block
  PROVE  LET t == iblock_set(s, i, k, b)
         IN  /\ t \in FsState /\ Follows(s, t) /\ t.mem.halt \in {s.mem.halt, "full"}
             /\ s.mem.halt # "no" => t.mem.halt # "no"
             /\ t.mem.halt = "no" /\ Linkable(s, i, k, b) => Linked(s, t, i, k, b)
<1>1. CASE k < MAX_DIRECT
  <2>1. k \in 0..(MAX_DIRECT - 1) /\ k \notin MAX_DIRECT..(LEVEL1_BORDER - 1) /\ ~(k >= LEVEL1_BORDER)
    BY <1>1, Ranges, Sizes
  <2>2. iblock_set(s, i, k, b) = inodes_rw_disk([s EXCEPT !.mem.inode[i].iblocks[k] = b], i)
    BY <1>1, <2>1 DEF iblock_set
  <2>3. QED
    BY <2>1, <2>2, DirectSetIs
<1>2. CASE k \in MAX_DIRECT..(LEVEL1_BORDER - 1)
  <2>1. ~(k < MAX_DIRECT) /\ ~(k >= LEVEL1_BORDER)
    BY <1>2, Ranges, Sizes
  <2>2. iblock_set(s, i, k, b) = SetByLevel1(s, i, k, b)
    BY <1>2, <2>1 DEF iblock_set
  <2>3. QED
    BY <1>2, <2>2, SetByLevel1Is
<1>3. CASE k >= LEVEL1_BORDER
  <2>1. ~(k < MAX_DIRECT) /\ k \notin MAX_DIRECT..(LEVEL1_BORDER - 1)
    BY <1>3, Ranges
  <2>2. iblock_set(s, i, k, b) = SetByLevel2(s, i, k, b)
    BY <1>3, <2>1 DEF iblock_set
  <2>3. QED
    BY <1>3, <2>2, SetByLevel2Is
<1>4. QED
  BY <1>1, <1>2, <1>3, Ranges
-----------------------------------------------------------------------------
(***************************************************************************)
(* What the operators leave of the tables on the disk: from s to t, if     *)
(* nothing went wrong, the map of the inodes and all inodes but i stay as  *)
(* they are, in memory and on the disk.                                    *)
(***************************************************************************)
Quiet(s, t, i) ==
  t.mem.halt = "no" =>
    /\ s.mem.halt = "no" /\ t.mem.imap = s.mem.imap
    /\ t.disk[MapInodes] = s.disk[MapInodes]
    /\ \A j \in Inode \ {i} :
         t.mem.inode[j] = s.mem.inode[j] /\ t.disk[InodeAt(j)] = s.disk[InodeAt(j)]

\* So does the map of the blocks.
SameMap(s, t) ==
  t.mem.halt = "no" => t.mem.bmap = s.mem.bmap /\ MapOn(t.disk) = MapOn(s.disk)

LEMMA MapOnSame ==
  ASSUME NEW d, NEW e, \A n \in MapSector : d[MapFree(n)] = e[MapFree(n)]
  PROVE  MapOn(d) = MapOn(e)
BY DEF MapOn

LEMMA QuietOn ==
  ASSUME NEW s, NEW t, NEW u, NEW i, Quiet(s, t, i), Quiet(t, u, i)
  PROVE  Quiet(s, u, i)
BY DEF Quiet

LEMMA SameMapOn ==
  ASSUME NEW s, NEW t, NEW u, u.mem.halt = "no" => t.mem.halt = "no", SameMap(s, t), SameMap(t, u)
  PROVE  SameMap(s, u)
BY DEF SameMap

LEMMA WriteQuiet ==
  ASSUME NEW s \in FsState, NEW i, NEW a \in Sector, NEW val \in Content(a), a # MapInodes,
         \A j \in Inode \ {i} : a # InodeAt(j)
  PROVE  LET t == WriteSector(s, a, val)
         IN  Quiet(s, t, i) /\ ((\A n \in MapSector : a # MapFree(n)) => SameMap(s, t))
<1> DEFINE t == WriteSector(s, a, val)
<1>1. /\ t.mem = s.mem
      /\ s.mem.halt = "no" => t.disk = [s.disk EXCEPT ![a] = val]
  BY WriteIs
<1> HIDE DEF t
<1>2. s.disk \in [Sector -> UNION {Content(c) : c \in Sector}]
  BY StateIs DEF DiskType
<1>3. ASSUME s.mem.halt = "no", NEW c \in Sector, c # a PROVE t.disk[c] = s.disk[c]
  BY <1>1, <1>2, <1>3
<1>4. /\ MapInodes \in Sector /\ \A j \in Inode : InodeAt(j) \in Sector
  BY Sectors
<1>5. Quiet(s, t, i)
  BY <1>1, <1>3, <1>4 DEF Quiet
<1>6. (\A n \in MapSector : a # MapFree(n)) => SameMap(s, t)
  BY <1>1, MapOther DEF SameMap
<1>7. QED
  BY <1>5, <1>6 DEF t

LEMMA AllocQuiet ==
  ASSUME NEW s \in FsState, NEW i
  PROVE  Quiet(s, free_allocate(s), i)
<1> DEFINE t == free_allocate(s)
<1>1. /\ t.disk = s.disk
      /\ t.mem.halt = "no" => /\ s.mem.halt = "no"
                              /\ t.mem.imap = s.mem.imap /\ t.mem.inode = s.mem.inode
  BY AllocIs
<1> HIDE DEF t
<1>2. QED
  BY <1>1 DEF Quiet, t

\* A change of inode i in memory.
LEMMA NodeQuiet ==
  ASSUME NEW s \in FsState, NEW t, NEW i \in Inode, NEW v,
         t.disk = s.disk, t.mem.imap = s.mem.imap, t.mem.bmap = s.mem.bmap,
         t.mem.halt = s.mem.halt, t.mem.inode = [s.mem.inode EXCEPT ![i] = v]
  PROVE  Quiet(s, t, i) /\ SameMap(s, t)
<1>1. s.mem.inode \in [Inode -> InodeType]
  BY StateIs
<1>2. \A j \in Inode \ {i} : t.mem.inode[j] = s.mem.inode[j]
  BY <1>1
<1>3. QED
  BY <1>2 DEF Quiet, SameMap

LEMMA InodeRwQuiet ==
  ASSUME NEW s \in FsState, NEW i \in Inode
  PROVE  LET t == inodes_rw_disk(s, i)
         IN  /\ Quiet(s, t, i) /\ SameMap(s, t)
             /\ s.mem.halt = "no" => t.disk[InodeAt(i)] = t.mem.inode[i]
<1> DEFINE t == inodes_rw_disk(s, i)
<1>1. /\ InodeAt(i) \in Sector /\ s.mem.inode[i] \in Content(InodeAt(i))
      /\ InodeAt(i) # MapInodes /\ \A n \in MapSector : InodeAt(i) # MapFree(n)
      /\ \A j \in Inode \ {i} : InodeAt(i) # InodeAt(j)
  BY StateIs, Sectors, SectorsApart
<1>2. Quiet(s, t, i) /\ SameMap(s, t)
  BY <1>1, WriteQuiet DEF inodes_rw_disk
<1>3. s.mem.halt = "no" => t.disk[InodeAt(i)] = t.mem.inode[i]
  <2> HAVE s.mem.halt = "no"
  <2>1. t.mem = s.mem /\ t.disk = [s.disk EXCEPT ![InodeAt(i)] = s.mem.inode[i]]
    BY InodeRwIs
  <2> HIDE DEF t
  <2>2. s.disk \in [Sector -> UNION {Content(c) : c \in Sector}]
    BY StateIs DEF DiskType
  <2>3. QED
    BY <1>1, <2>1, <2>2
<1> HIDE DEF t
<1>4. QED
  BY <1>2, <1>3 DEF t

LEMMA BlockQuiet ==
  ASSUME NEW s \in FsState, NEW i, NEW b \in Block, NEW val \in BlockType
  PROVE  LET t == WriteSector(s, BlockAt(b), val)
         IN  Quiet(s, t, i) /\ SameMap(s, t)
<1>1. /\ BlockAt(b) \in Sector /\ val \in Content(BlockAt(b))
      /\ BlockAt(b) # MapInodes /\ \A n \in MapSector : BlockAt(b) # MapFree(n)
      /\ \A j \in Inode \ {i} : BlockAt(b) # InodeAt(j)
  BY Sectors, SectorsApart
<1>2. QED
  BY <1>1, WriteQuiet

LEMMA RwQuiet ==
  ASSUME NEW s \in FsState, NEW i, NEW b, NEW val,
         s.mem.halt = "no" /\ b \in s.mem.bmap => val \in BlockType
  PROVE  LET t == free_rw_disk(s, b, val)
         IN  Quiet(s, t, i) /\ SameMap(s, t)
<1> DEFINE t == free_rw_disk(s, b, val)
<1>1. t.mem.halt = "no" => s.mem.halt = "no" /\ b \in s.mem.bmap
  BY RwIs
<1>2. CASE t.mem.halt = "no"
  <2>1. t = WriteSector(s, BlockAt(b), val)
    BY <1>1, <1>2 DEF free_rw_disk, Used
  <2>2. b \in Block /\ val \in BlockType
    BY <1>1, <1>2, StateIs
  <2> HIDE DEF t
  <2>3. QED
    BY <2>1, <2>2, BlockQuiet DEF t
<1>3. CASE t.mem.halt # "no"
  BY <1>3 DEF Quiet, SameMap
<1>4. QED
  BY <1>2, <1>3

LEMMA SetLbaQuiet ==
  ASSUME NEW s \in FsState, NEW i, NEW index \in Block, NEW old \in IndexType, NEW n \in Place,
         NEW b \in {0} \cup Block
  PROVE  LET t == SetLba(s, index, old, n, b)
         IN  Quiet(s, t, i) /\ SameMap(s, t)
<1> DEFINE val == [old EXCEPT ![n] = Lba(b)]
<1>1. val \in BlockType
  BY IndexNew DEF Place
<1>2. SetLba(s, index, old, n, b) = WriteSector(s, BlockAt(index), val)
  BY DEF SetLba
<1> HIDE DEF val
<1>3. QED
  BY <1>1, <1>2, BlockQuiet

LEMMA EntryQuiet ==
  ASSUME NEW s \in FsState, NEW i \in Inode, NEW n \in 0..(MAX_INODE_BLOCKS - 1), NEW b \in Block
  PROVE  LET t == SetEntry(s, i, n, b)
         IN  t \in FsState /\ t.mem.halt = s.mem.halt /\ Quiet(s, t, i) /\ SameMap(s, t)
<1> DEFINE t == SetEntry(s, i, n, b)
           v == [s.mem.inode[i] EXCEPT !.iblocks[n] = b]
<1>1. /\ t \in FsState /\ t.disk = s.disk /\ t.mem.imap = s.mem.imap
      /\ t.mem.bmap = s.mem.bmap /\ t.mem.halt = s.mem.halt
      /\ t.mem.inode = [s.mem.inode EXCEPT ![i] = v]
  <2>1. b \in {0} \cup Block
    OBVIOUS
  <2>2. t = [s EXCEPT !.mem.inode[i].iblocks[n] = b]
    BY DEF SetEntry
  <2> HIDE DEF t
  <2>3. QED
    BY <2>1, <2>2, EntrySet
<1> HIDE DEF t, v
<1>2. QED
  BY <1>1, NodeQuiet DEF t

\* A direct block of i.
LEMMA DirectQuiet ==
  ASSUME NEW s \in FsState, NEW i \in Inode, NEW k \in 0..(MAX_INODE_BLOCKS - 1), NEW b \in Block
  PROVE  LET t == inodes_rw_disk([s EXCEPT !.mem.inode[i].iblocks[k] = b], i)
         IN  Quiet(s, t, i) /\ SameMap(s, t)
<1> DEFINE u == SetEntry(s, i, k, b)
           t == inodes_rw_disk(u, i)
<1>1. t = inodes_rw_disk([s EXCEPT !.mem.inode[i].iblocks[k] = b], i)
  BY DEF SetEntry
<1>2. u \in FsState /\ u.mem.halt = s.mem.halt /\ Quiet(s, u, i) /\ SameMap(s, u)
  BY EntryQuiet
<1> HIDE DEF u
<1>3. t.mem = u.mem /\ Quiet(u, t, i) /\ SameMap(u, t)
  BY <1>2, InodeRwQuiet, InodeRwIs
<1> HIDE DEF t
<1>4. QED
  BY <1>1, <1>2, <1>3, QuietOn, SameMapOn

LEMMA WithIndexQuiet ==
  ASSUME NEW s \in FsState, NEW i \in Inode, NEW level \in {LEVEL1_INDEX, LEVEL2_INDEX}
  PROVE  Quiet(s, WithIndex(s, i, level), i)
<1>1. CASE s.mem.inode[i].iblocks[level] # 0
  BY <1>1 DEF WithIndex, Quiet
<1>2. CASE s.mem.inode[i].iblocks[level] = 0
  <2> DEFINE a == free_allocate(s)
             b == FreeBlock(s)
             t == inodes_rw_disk([a EXCEPT !.mem.inode[i].iblocks[level] = b], i)
  <2>1. WithIndex(s, i, level) = t
    BY <1>2 DEF WithIndex
  <2>2. a \in FsState /\ b \in Block /\ Quiet(s, a, i)
    BY AllocIs, AllocQuiet
  <2>3. level \in 0..(MAX_INODE_BLOCKS - 1)
    BY Sizes
  <2> HIDE DEF a, b
  <2>4. Quiet(a, t, i)
    BY <2>2, <2>3, DirectQuiet
  <2> HIDE DEF t
  <2>5. QED
    BY <2>1, <2>2, <2>4, QuietOn
<1>3. QED
  BY <1>1, <1>2

\* iblock_set, and of a direct block with the map of the blocks as it is.
LEMMA SetQuiet ==
  ASSUME NEW s \in FsState, NEW i \in Inode, NEW k \in IBlock, NEW b \in Block
  PROVE  LET t == iblock_set(s, i, k, b)
         IN  Quiet(s, t, i) /\ (k < MAX_DIRECT => SameMap(s, t))
<1>1. CASE k < MAX_DIRECT
  <2>1. /\ k \notin MAX_DIRECT..(LEVEL1_BORDER - 1) /\ ~(k >= LEVEL1_BORDER)
        /\ k \in 0..(MAX_INODE_BLOCKS - 1)
    BY <1>1, Ranges, Sizes
  <2>2. iblock_set(s, i, k, b) = inodes_rw_disk([s EXCEPT !.mem.inode[i].iblocks[k] = b], i)
    BY <1>1, <2>1 DEF iblock_set
  <2>3. QED
    BY <2>1, <2>2, DirectQuiet
<1>2. CASE k \in MAX_DIRECT..(LEVEL1_BORDER - 1)
  <2> DEFINE s1 == WithIndex(s, i, LEVEL1_INDEX)
             c == s1.mem.inode[i].iblocks[LEVEL1_INDEX]
             old == Index(s, Level1(s, i))
             n == k - MAX_DIRECT
             t == SetLba(s1, c, old, n, b)
  <2>1. ~(k < MAX_DIRECT) /\ ~(k >= LEVEL1_BORDER) /\ n \in Place
    BY <1>2, Ranges, Sizes DEF Place
  <2>2. iblock_set(s, i, k, b) = t
    BY <1>2, <2>1 DEF iblock_set, SetByLevel1, Level1
  <2>3. s1 \in FsState /\ c \in Block /\ Quiet(s, s1, i)
    BY WithIndexIs, WithIndexQuiet
  <2>4. old \in IndexType
    BY IndexIs, LevelIs
  <2> HIDE DEF s1, c, old, n
  <2>5. Quiet(s1, t, i)
    BY <2>1, <2>3, <2>4, SetLbaQuiet
  <2> HIDE DEF t
  <2>6. QED
    BY <2>1, <2>2, <2>3, <2>5, QuietOn
<1>3. CASE k >= LEVEL1_BORDER
  <2> DEFINE s1 == WithIndex(s, i, LEVEL2_INDEX)
             l2 == s1.mem.inode[i].iblocks[LEVEL2_INDEX]
             l1 == Behind(s, i, Outer(k))
             top == Index(s, Level2(s, i))
             t == SetByLevel2(s, i, k, b)
  <2>1. ~(k < MAX_DIRECT) /\ k \notin MAX_DIRECT..(LEVEL1_BORDER - 1)
    BY <1>3, Ranges
  <2>2. iblock_set(s, i, k, b) = t
    BY <1>3, <2>1 DEF iblock_set
  <2>3. s1 \in FsState /\ l2 \in Block /\ Quiet(s, s1, i)
    BY WithIndexIs, WithIndexQuiet
  <2>4. /\ top \in IndexType /\ l1 \in {0} \cup Block /\ Index(s, l1) \in IndexType
        /\ Outer(k) \in Place /\ Inner(k) \in Place /\ b \in {0} \cup Block
    BY <1>3, IndexIs, LevelIs, OuterInner, OwnedIs DEF Behind
  <2> DEFINE inner == Inner(k)
             last == Index(s, l1)
  <2>5. CASE l1 # 0
    <3> DEFINE v == SetLba(s1, l1, last, inner, b)
    <3>1. t = v
      BY <2>5, Zenon DEF SetByLevel2, Level1Of, Behind, Outer, Inner
    <3>2. l1 \in Block /\ last \in IndexType /\ inner \in Place
      BY <2>4, <2>5
    <3> HIDE DEF t, s1, l1, top, l2, inner, last
    <3>3. Quiet(s1, v, i)
      BY <2>3, <2>4, <3>2, SetLbaQuiet
    <3> HIDE DEF v
    <3>4. QED
      BY <2>1, <2>2, <2>3, <3>1, <3>3, QuietOn
  <2>6. CASE l1 = 0
    <3> DEFINE u == free_allocate(s1)
               f == FreeBlock(s1)
               s2 == SetLba(u, l2, top, Outer(k), f)
               v == SetLba(s2, f, last, inner, b)
    <3>1. t = v
      BY <2>6 DEF SetByLevel2, Level1Of, Behind, Outer, Inner, Level2
    <3>2. u \in FsState /\ f \in Block /\ Quiet(s1, u, i)
      BY <2>3, AllocIs, AllocQuiet
    <3>3. last \in IndexType /\ inner \in Place
      BY <2>4
    <3> HIDE DEF t, s1, l1, top, l2, u, f, inner, last
    <3>4. s2 \in FsState /\ Quiet(u, s2, i)
      <4>1. f \in {0} \cup Block
        BY <3>2
      <4>2. QED
        BY <2>3, <2>4, <3>2, <4>1, SetLbaIs, SetLbaQuiet
    <3> HIDE DEF s2
    <3>5. Quiet(s2, v, i)
      BY <2>4, <3>2, <3>3, <3>4, SetLbaQuiet
    <3> HIDE DEF v
    <3>6. QED
      <4>1. Quiet(s, u, i)
        BY <2>3, <3>2, QuietOn
      <4>2. Quiet(s, s2, i)
        BY <3>4, <4>1, QuietOn
      <4>3. Quiet(s, v, i)
        BY <3>5, <4>2, QuietOn
      <4>4. QED
        BY <2>1, <2>2, <3>1, <4>3
  <2>7. QED
    BY <2>5, <2>6
<1>4. QED
  BY <1>1, <1>2, <1>3, Ranges
-----------------------------------------------------------------------------
\* Neither the inode nor a block of i has changed.
Alike(s, t, i) ==
  /\ t.mem.inode[i] = s.mem.inode[i]
  /\ \A b \in Owned(s, i) : t.disk[BlockAt(b)] = s.disk[BlockAt(b)]

\* Neither the entries of the inode nor an index block of i has changed.
SameIndexes(s, t, i) ==
  /\ t.mem.inode[i].iblocks = s.mem.inode[i].iblocks
  /\ \A b \in {Level1(s, i), Level2(s, i)} \cup {Behind(s, i, n) : n \in Place} :
       b # 0 => t.disk[BlockAt(b)] = s.disk[BlockAt(b)]

LEMMA SameNames ==
  ASSUME NEW s \in FsState, NEW t \in FsState, NEW i \in Inode, SameIndexes(s, t, i)
  PROVE  /\ \A k \in IBlock : iblock_get(t, i, k) = iblock_get(s, i, k)
         /\ IBlocks(t, i) = IBlocks(s, i) /\ Named(t, i) = Named(s, i)
         /\ Owned(t, i) = Owned(s, i)
         /\ Apart(s, i) => Apart(t, i)
         /\ Packed(s, i) => Packed(t, i)
<1>1. /\ Level1(t, i) = Level1(s, i) /\ Level2(t, i) = Level2(s, i)
      /\ t.mem.inode[i].iblocks = s.mem.inode[i].iblocks
  BY DEF SameIndexes, Level1, Level2
<1>2. \A c : c = 0 \/ c \in {Level1(s, i), Level2(s, i)} \cup {Behind(s, i, n) : n \in Place}
        => Index(t, c) = Index(s, c)
  BY DEF SameIndexes, Index
<1>3. Index(t, Level1(s, i)) = Index(s, Level1(s, i))
  BY <1>2
<1>4. Index(t, Level2(s, i)) = Index(s, Level2(s, i))
  BY <1>2
<1>5. \A n \in Place : Behind(t, i, n) = Behind(s, i, n)
  BY <1>1, <1>4 DEF Behind
<1>6. ASSUME NEW k \in IBlock PROVE iblock_get(t, i, k) = iblock_get(s, i, k)
  <2>1. CASE k < MAX_DIRECT
    BY <1>1, <2>1, GetDirect
  <2>2. CASE k \in MAX_DIRECT..(LEVEL1_BORDER - 1)
    <3>1. /\ iblock_get(t, i, k) = Index(t, Level1(t, i))[k - MAX_DIRECT].inode
          /\ iblock_get(s, i, k) = Index(s, Level1(s, i))[k - MAX_DIRECT].inode
      BY <2>2, GetLevel1, Zenon
    <3>2. QED
      BY <1>1, <1>3, <3>1
  <2>3. CASE k >= LEVEL1_BORDER
    <3>1. /\ iblock_get(t, i, k) = Index(t, Level1Of(t, i, k))[Inner(k)].inode
          /\ iblock_get(s, i, k) = Index(s, Level1Of(s, i, k))[Inner(k)].inode
      BY <2>3, GetLevel2 DEF Inner
    <3>2. /\ Outer(k) \in Place /\ Level1Of(t, i, k) = Behind(t, i, Outer(k))
          /\ Level1Of(s, i, k) = Behind(s, i, Outer(k))
      BY <2>3, OuterInner DEF Level1Of, Behind, Outer
    <3>3. Index(t, Behind(s, i, Outer(k))) = Index(s, Behind(s, i, Outer(k)))
      BY <1>2, <3>2
    <3>4. QED
      BY <1>5, <3>1, <3>2, <3>3
  <2>4. QED
    BY <2>1, <2>2, <2>3, Ranges
<1>7. IBlocks(t, i) = IBlocks(s, i)
  <2>1. \A k \in IBlock : 0..k \subseteq IBlock
    BY Sizes DEF IBlock
  <2>2. ASSUME NEW k \in IBlock PROVE k \in IBlocks(t, i) <=> k \in IBlocks(s, i)
    <3>1. \A m \in 0..k : iblock_get(t, i, m) = iblock_get(s, i, m)
      BY <1>6, <2>1
    <3>2. k \in IBlocks(t, i) <=> \A m \in 0..k : iblock_get(t, i, m) # 0
      BY IBlocksIs, Zenon
    <3>3. k \in IBlocks(s, i) <=> \A m \in 0..k : iblock_get(s, i, m) # 0
      BY IBlocksIs, Zenon
    <3>4. QED
      BY <3>1, <3>2, <3>3, Zenon
  <2>3. IBlocks(t, i) \subseteq IBlock /\ IBlocks(s, i) \subseteq IBlock
    BY IBlocksIs
  <2>4. QED
    BY <2>2, <2>3
<1>8. Named(t, i) = Named(s, i)
  <2>1. \A k \in IBlocks(s, i) : iblock_get(t, i, k) = iblock_get(s, i, k)
    BY <1>6, IBlocksIs
  <2>2. ASSUME NEW x PROVE x \in Named(t, i) <=> x \in Named(s, i)
    <3>1. x \in Named(t, i) <=>
           \/ \E k \in IBlocks(t, i) : x = <<"data", k, iblock_get(t, i, k)>>
           \/ x = <<"level1", 0, Level1(t, i)>> /\ Level1(t, i) # 0
           \/ x = <<"level2", 0, Level2(t, i)>> /\ Level2(t, i) # 0
           \/ \E n \in Place : x = <<"level2", 1 + n, Behind(t, i, n)>> /\ Behind(t, i, n) # 0
      BY NamedIs
    <3>2. x \in Named(s, i) <=>
           \/ \E k \in IBlocks(s, i) : x = <<"data", k, iblock_get(s, i, k)>>
           \/ x = <<"level1", 0, Level1(s, i)>> /\ Level1(s, i) # 0
           \/ x = <<"level2", 0, Level2(s, i)>> /\ Level2(s, i) # 0
           \/ \E n \in Place : x = <<"level2", 1 + n, Behind(s, i, n)>> /\ Behind(s, i, n) # 0
      BY NamedIs
    <3>3. (\E k \in IBlocks(t, i) : x = <<"data", k, iblock_get(t, i, k)>>)
            <=> (\E k \in IBlocks(s, i) : x = <<"data", k, iblock_get(s, i, k)>>)
      BY <1>7, <2>1
    <3>4. (\E n \in Place : x = <<"level2", 1 + n, Behind(t, i, n)>> /\ Behind(t, i, n) # 0)
            <=> (\E n \in Place : x = <<"level2", 1 + n, Behind(s, i, n)>> /\ Behind(s, i, n) # 0)
      BY <1>5
    <3>5. QED
      BY <1>1, <3>1, <3>2, <3>3, <3>4
  <2>3. QED
    BY <2>2, Zenon DEF Named
<1>9. Owned(t, i) = Owned(s, i) /\ (Apart(s, i) => Apart(t, i))
  BY <1>8 DEF Owned, Apart
<1>10. Packed(s, i) => Packed(t, i)
  BY <1>6, <1>7 DEF Packed
<1>11. QED
  BY <1>6, <1>7, <1>8, <1>9, <1>10

LEMMA SameBlocks ==
  ASSUME NEW s \in FsState, NEW t \in FsState, NEW i \in Inode, Alike(s, t, i)
  PROVE  /\ \A k \in IBlock : iblock_get(t, i, k) = iblock_get(s, i, k)
         /\ IBlocks(t, i) = IBlocks(s, i) /\ Named(t, i) = Named(s, i)
         /\ Owned(t, i) = Owned(s, i)
         /\ Apart(s, i) => Apart(t, i)
         /\ Packed(s, i) => Packed(t, i)
         /\ FileSized(s, i) => FileSized(t, i)
         /\ DirSized(s, i) => DirSized(t, i)
<1>1. SameIndexes(s, t, i) /\ t.mem.inode[i] = s.mem.inode[i]
  BY OwnedIs DEF SameIndexes, Alike
<1>2. /\ \A k \in IBlock : iblock_get(t, i, k) = iblock_get(s, i, k)
      /\ IBlocks(t, i) = IBlocks(s, i) /\ Named(t, i) = Named(s, i)
      /\ Owned(t, i) = Owned(s, i)
      /\ Apart(s, i) => Apart(t, i)
      /\ Packed(s, i) => Packed(t, i)
  BY <1>1, SameNames, Zenon
<1>3. /\ FileSized(s, i) => FileSized(t, i)
      /\ DirSized(s, i) => DirSized(t, i)
  BY <1>1, <1>2 DEF FileSized, DirSized
<1>4. QED
  BY <1>2, <1>3

\* The places of a directory's items.
LEMMA PlacesIs ==
  ASSUME NEW s, NEW i, NEW p
  PROVE  p \in AllItems(s, i) <=>
           \E k \in IBlocks(s, i), j \in Slot :
             p = <<i, k, j>> /\ ~(k = 0 /\ j \in {0, 1})
<1>1. ASSUME p \in AllItems(s, i)
      PROVE  \E k \in IBlocks(s, i), j \in Slot : p = <<i, k, j>> /\ ~(k = 0 /\ j \in {0, 1})
  <2>1. PICK k \in IBlocks(s, i), j \in Slot : p = <<i, k, j>>
    BY <1>1 DEF AllItems
  <2>2. p # <<i, 0, 0>> /\ p # <<i, 0, 1>>
    BY <1>1 DEF AllItems
  <2>3. ~(k = 0 /\ j \in {0, 1})
    BY <2>1, <2>2
  <2>4. QED
    BY <2>1, <2>3
<1>2. ASSUME NEW k \in IBlocks(s, i), NEW j \in Slot, p = <<i, k, j>>, ~(k = 0 /\ j \in {0, 1})
      PROVE  p \in AllItems(s, i)
  <2>1. p[2] = k /\ p[3] = j
    BY <1>2
  <2>2. p # <<i, 0, 0>> /\ p # <<i, 0, 1>>
    BY <1>2, <2>1
  <2>3. QED
    BY <1>2, <2>2 DEF AllItems
<1>3. QED
  BY <1>1, <1>2

LEMMA SameItems ==
  ASSUME NEW s \in FsState, NEW t \in FsState, NEW i \in Inode, Alike(s, t, i)
  PROVE  /\ AllItems(t, i) = AllItems(s, i) /\ SeenItems(t, i) = SeenItems(s, i)
         /\ \A p \in AllItems(s, i) : ItemOf(t, p) = ItemOf(s, p)
         /\ \A k \in IBlocks(s, i) : Items(t, i, k) = Items(s, i, k)
         /\ Valid(t, AllItems(t, i)) = Valid(s, AllItems(s, i))
         /\ HoldsItems(s, i) => HoldsItems(t, i)
         /\ NamedOnce(s, i) => NamedOnce(t, i)
<1>1. /\ \A k \in IBlock : iblock_get(t, i, k) = iblock_get(s, i, k)
      /\ IBlocks(t, i) = IBlocks(s, i)
  BY SameBlocks
<1>2. \A k \in IBlocks(s, i) : Items(t, i, k) = Items(s, i, k)
  <2> TAKE k \in IBlocks(s, i)
  <2>1. iblock_get(t, i, k) = iblock_get(s, i, k)
    BY <1>1, IBlocksIs
  <2>2. iblock_get(s, i, k) \in Owned(s, i)
    BY OwnedIs
  <2>3. QED
    BY <2>1, <2>2 DEF Items, Alike
<1>3. AllItems(t, i) = AllItems(s, i) /\ InSize(t, i) = InSize(s, i)
  BY <1>1 DEF AllItems, InSize, Alike
<1>4. \A p \in AllItems(s, i) : ItemOf(t, p) = ItemOf(s, p)
  <2> TAKE p \in AllItems(s, i)
  <2>1. PICK k \in IBlocks(s, i), j \in Slot : p = <<i, k, j>>
    BY PlacesIs
  <2>2. p[1] = i /\ p[2] = k /\ p[3] = j
    BY <2>1
  <2>3. QED
    BY <1>2, <2>2 DEF ItemOf
<1>5. SeenItems(t, i) = SeenItems(s, i) /\ SeenItems(s, i) \subseteq AllItems(s, i)
  BY <1>3 DEF SeenItems
<1>6. Valid(t, AllItems(t, i)) = Valid(s, AllItems(s, i))
  BY <1>3, <1>4 DEF Valid
<1>7. ASSUME HoldsItems(s, i) PROVE HoldsItems(t, i)
  BY <1>1, <1>2, <1>7 DEF HoldsItems
<1>8. ASSUME NamedOnce(s, i) PROVE NamedOnce(t, i)
  <2>1. Valid(t, SeenItems(t, i)) = Valid(s, SeenItems(s, i))
    BY <1>4, <1>5 DEF Valid
  <2>2. Valid(s, SeenItems(s, i)) \subseteq AllItems(s, i)
    BY <1>5 DEF Valid
  <2>3. QED
    BY <1>4, <1>8, <2>1, <2>2 DEF NamedOnce
<1>9. QED
  BY <1>2, <1>3, <1>4, <1>5, <1>6, <1>7, <1>8
-----------------------------------------------------------------------------
\* One level more of a tree.
Deeper(s, items, X) ==
  X \cup UNION {Valid(s, items[ItemOf(s, p).inode]) :
                  p \in {q \in X : ItemOf(s, q).type = "dir" /\ ItemOf(s, q).inode \in Inode}}

Levels(s, items, f) ==
  /\ f[0] = Valid(s, items[RootInode])
  /\ \A n \in 1..MAX_INODES : f[n] = Deeper(s, items, f[n - 1])

LEMMA TreeLevels ==
  ASSUME NEW s, NEW items
  PROVE  \E f : Levels(s, items, f) /\ f[MAX_INODES] = Tree(s, items)
<1> DEFINE P == UNION {items[i] : i \in Inode}
           S == SUBSET P
           G == [n \in Nat |-> [X \in S |-> Deeper(s, items, X)]]
           a == Valid(s, items[RootInode])
<1>0. MAX_INODES \in Nat /\ 0 \in 0..MAX_INODES /\ MAX_INODES \in 0..MAX_INODES
  BY Sizes
<1>1. \A i \in Inode : Valid(s, items[i]) \subseteq P
  BY DEF Valid
<1>2. a \in S
  <2>1. RootInode \in Inode
    BY Sizes DEF RootInode, Inode
  <2>2. QED
    BY <1>1, <2>1
<1>3. ASSUME NEW X \in S PROVE Deeper(s, items, X) \in S
  <2> HIDE DEF P
  <2>1. QED
    BY <1>1 DEF Deeper
<1>4. G \in [Nat -> [S -> S]]
  <2> HIDE DEF S
  <2>1. QED
    BY <1>3
<1> HIDE DEF G
<1>5. PICK f \in [0..MAX_INODES -> S] : Rounds(f, G, a, MAX_INODES)
  <2> HIDE DEF S, a
  <2>1. QED
    BY <1>0, <1>2, <1>4, RecursionExists
<1>6. ASSUME NEW n \in 0..MAX_INODES
      PROVE  f[n] = IF n = 0 THEN a ELSE Deeper(s, items, f[n - 1])
  <2>1. CASE n = 0
    BY <1>5, <2>1 DEF Rounds
  <2>2. CASE n # 0
    <3> HIDE DEF S, a
    <3>1. n \in Nat /\ f[n - 1] \in S
      BY <1>0, <1>5, <2>2
    <3>2. G[n][f[n - 1]] = Deeper(s, items, f[n - 1])
      BY <3>1 DEF G
    <3>3. QED
      BY <1>5, <2>2, <3>2 DEF Rounds
  <2>3. QED
    BY <2>1, <2>2
<1> HIDE DEF S, a
<1>7. Levels(s, items, f)
  <2>1. \A n \in 1..MAX_INODES : n \in 0..MAX_INODES /\ n # 0
    BY <1>0
  <2>2. QED
    BY <1>0, <1>6, <2>1 DEF Levels, a
<1> DEFINE Body(g) == [n \in 0..MAX_INODES |-> IF n = 0 THEN a ELSE Deeper(s, items, g[n - 1])]
<1>8. f = Body(f)
  <2> DEFINE g == Body(f)
  <2>1. f = [n \in 0..MAX_INODES |-> f[n]] /\ g = [n \in 0..MAX_INODES |-> g[n]]
    BY <1>5
  <2>2. \A n \in 0..MAX_INODES : g[n] = IF n = 0 THEN a ELSE Deeper(s, items, f[n - 1])
    BY Zenon
  <2> HIDE DEF g
  <2>3. \A n \in 0..MAX_INODES : f[n] = g[n]
    BY <1>6, <2>2
  <2>4. QED
    BY <2>1, <2>3 DEF g
<1> DEFINE h == CHOOSE g : g = Body(g)
<1>9. h = Body(h)
  <2> HIDE DEF Body
  <2>1. \E g : g = Body(g)
    BY <1>8
  <2>2. QED
    BY <2>1
<1>10. Tree(s, items) = h[MAX_INODES]
  BY Zenon DEF Tree, Deeper, a
<1> HIDE DEF h
<1>11. \A n \in 0..MAX_INODES : h[n] = IF n = 0 THEN a ELSE Deeper(s, items, h[n - 1])
  BY <1>9, Zenon
<1>12. Levels(s, items, h)
  <2>1. \A n \in 1..MAX_INODES : n \in 0..MAX_INODES /\ n # 0
    BY <1>0
  <2>2. QED
    BY <1>0, <1>11, <2>1 DEF Levels, a
<1>13. QED
  BY <1>10, <1>12

\* Nothing is below a directory of T that is not in T.
Closed(s, T) == \A i \in DirsOf(s, T) : Valid(s, AllItems(s, i)) \subseteq T

\* What T has are items of its directories.
Supported(s, T) ==
  \A p \in T : p[1] \in DirsOf(s, T) /\ p \in Valid(s, AllItems(s, p[1]))

Whole(s, T) == Closed(s, T) /\ Supported(s, T) /\ Consistent(s, T)

LEMMA TreeInside ==
  ASSUME NEW s, NEW T, Closed(s, T)
  PROVE  AllTree(s) \subseteq T
<1> DEFINE items == [i \in Inode |-> AllItems(s, i)]
<1>1. PICK f : Levels(s, items, f) /\ f[MAX_INODES] = AllTree(s)
  BY TreeLevels, Zenon DEF AllTree
<1>2. RootInode \in Inode /\ MAX_INODES \in Nat
  BY Sizes DEF RootInode, Inode
<1>3. \A i \in Inode : items[i] = AllItems(s, i)
  OBVIOUS
<1> HIDE DEF items
<1> DEFINE P == {n \in Nat : f[n] \subseteq T}
<1>4. 0 \in P
  <2>1. RootInode \in DirsOf(s, T)
    BY DEF DirsOf
  <2>2. QED
    BY <1>1, <1>2, <1>3, <2>1 DEF Levels, Closed
<1>5. ASSUME NEW n \in 1..MAX_INODES, n - 1 \in P PROVE n \in P
  <2>1. f[n] = Deeper(s, items, f[n - 1]) /\ f[n - 1] \subseteq T /\ n \in Nat
    BY <1>1, <1>2, <1>5 DEF Levels
  <2>2. ASSUME NEW q \in f[n - 1], ItemOf(s, q).type = "dir", ItemOf(s, q).inode \in Inode
        PROVE  Valid(s, items[ItemOf(s, q).inode]) \subseteq T
    <3>1. ItemOf(s, q).inode \in DirsOf(s, T)
      BY <2>1, <2>2 DEF DirsOf
    <3>2. QED
      BY <1>3, <2>2, <3>1 DEF Closed
  <2>3. Deeper(s, items, f[n - 1]) \subseteq T
    BY <2>1, <2>2 DEF Deeper
  <2>4. QED
    BY <2>1, <2>3
<1>6. 0..MAX_INODES \subseteq P
  <2> HIDE DEF P
  <2>1. QED
    BY <1>2, <1>4, <1>5, UpTo
<1>7. QED
  BY <1>1, <1>2, <1>6

LEMMA Hereditary ==
  ASSUME NEW s, NEW T, Consistent(s, T), NEW X \in SUBSET T
  PROVE  Consistent(s, X)
<1>1. InodesOf(s, X) \subseteq InodesOf(s, T) /\ DirsOf(s, X) \subseteq DirsOf(s, T)
  BY DEF InodesOf, DirsOf
<1>2. InodesOf(s, X) \subseteq s.mem.imap
  BY <1>1 DEF Consistent
<1>3. Disjoint(s, T)
  BY DEF Consistent
<1>4. Disjoint(s, X)
  BY <1>1, <1>3 DEF Disjoint
<1>5. UNION {Owned(s, i) : i \in InodesOf(s, X)} \subseteq s.mem.bmap
  BY <1>1 DEF Consistent
<1>6. /\ \A i \in InodesOf(s, X) : Packed(s, i)
      /\ \A i \in DirsOf(s, X) : HoldsItems(s, i) /\ DirSized(s, i) /\ NamedOnce(s, i)
      /\ \A p \in X : ItemOf(s, p).type = "file" => FileSized(s, ItemOf(s, p).inode)
  BY <1>1 DEF Consistent
<1>7. QED
  BY <1>2, <1>4, <1>5, <1>6 DEF Consistent

\* A set that grows at each of n steps has n elements.
LEMMA GrowsBy ==
  ASSUME NEW f, NEW n \in Nat, IsFiniteSet(f[n]),
         \A m \in 1..n : f[m - 1] \subseteq f[m] /\ f[m - 1] # f[m]
  PROVE  Cardinality(f[n]) >= n
<1> DEFINE Q == {m \in Nat : f[n - m] \subseteq f[n]}
<1>1. 0 \in Q
  OBVIOUS
<1>2. ASSUME NEW m \in 1..n, m - 1 \in Q PROVE m \in Q
  <2>1. n - m + 1 \in 1..n /\ (n - m + 1) - 1 = n - m /\ n - (m - 1) = n - m + 1 /\ m \in Nat
    OBVIOUS
  <2>2. f[n - m] \subseteq f[n - m + 1]
    BY <2>1
  <2>3. f[n - m + 1] \subseteq f[n]
    BY <1>2, <2>1
  <2>4. QED
    BY <2>1, <2>2, <2>3
<1>3. 0..n \subseteq Q
  <2> HIDE DEF Q
  <2>1. QED
    BY <1>1, <1>2, UpTo
<1>4. \A m \in 0..n : IsFiniteSet(f[m]) /\ Cardinality(f[m]) \in Nat
  <2> TAKE m \in 0..n
  <2>1. n - m \in 0..n /\ n - (n - m) = m
    OBVIOUS
  <2>2. f[m] \subseteq f[n]
    BY <1>3, <2>1
  <2>3. IsFiniteSet(f[m])
    BY <2>2, FS_Subset
  <2>4. QED
    BY <2>3, FS_CardinalityType
<1> DEFINE P == {m \in Nat : m <= n => Cardinality(f[m]) >= m}
<1>5. 0 \in P
  BY <1>4
<1>6. ASSUME NEW m \in 1..n, m - 1 \in P PROVE m \in P
  <2>1. m - 1 \in 0..n /\ m \in 0..n /\ m \in Nat
    OBVIOUS
  <2>2. Cardinality(f[m - 1]) >= m - 1
    BY <1>6
  <2>3. /\ IsFiniteSet(f[m]) /\ f[m - 1] \in SUBSET f[m] /\ f[m - 1] # f[m]
        /\ Cardinality(f[m]) \in Nat /\ Cardinality(f[m - 1]) \in Nat
    BY <1>4, <2>1
  <2>4. /\ Cardinality(f[m - 1]) <= Cardinality(f[m])
        /\ Cardinality(f[m]) # Cardinality(f[m - 1])
    BY <2>3, FS_Subset
  <2> DEFINE x == Cardinality(f[m])
             y == Cardinality(f[m - 1])
  <2>5. x \in Nat /\ y \in Nat /\ y <= x /\ x # y /\ y >= m - 1
    BY <2>2, <2>3, <2>4
  <2> HIDE DEF x, y
  <2>6. x >= m
    BY <2>5
  <2>7. QED
    BY <2>1, <2>6 DEF x
<1>7. 0..n \subseteq P
  <2> HIDE DEF P
  <2>1. QED
    BY <1>5, <1>6, UpTo
<1>8. QED
  BY <1>7

Tidy(s) == Consistent(s, AllTree(s))

\* The tree that FsConsistent looks at is all that is below the root: it ends
\* before the levels do, as each level takes an inode of its own.
LEMMA TreeIs ==
  ASSUME NEW s \in FsState, Tidy(s)
  PROVE  Whole(s, AllTree(s))
<1> DEFINE items == [i \in Inode |-> AllItems(s, i)]
           T == AllTree(s)
           M == MAX_INODES
<1>0. /\ RootInode \in Inode /\ M \in Nat \ {0} /\ M \in 1..M
      /\ 0 \in 0..M /\ Inode = 0..(M - 1) /\ RootInode = 0
  BY Sizes DEF RootInode, Inode
<1>1. Consistent(s, T)
  BY DEF Tidy
<1>2. PICK f : Levels(s, items, f) /\ f[M] = T
  BY TreeLevels, Zenon DEF AllTree
<1>3. \A i \in Inode : items[i] = AllItems(s, i)
  OBVIOUS
<1> HIDE DEF items, T
<1>4. \A n \in 1..M : f[n - 1] \subseteq f[n]
  BY <1>2 DEF Levels, Deeper
<1>5. InodesOf(s, T) \subseteq Inode
  BY <1>1, StateIs DEF Consistent
<1>6. IsFiniteSet(T) /\ Cardinality(T) \in Nat /\ Cardinality(T) <= M - 1
  <2> DEFINE own == [p \in T |-> ItemOf(s, p).inode]
  <2>1. \A p \in T : ItemOf(s, p).inode \in 1..(M - 1)
    <3> TAKE p \in T
    <3>1. ItemOf(s, p).inode \in InodesOf(s, T)
      BY DEF InodesOf
    <3>2. ItemOf(s, p).inode # RootInode
      BY <1>1 DEF Consistent, Disjoint
    <3>3. QED
      BY <1>0, <1>5, <3>1, <3>2
  <2>2. \A p, q \in T : ItemOf(s, p).inode = ItemOf(s, q).inode => p = q
    BY <1>1 DEF Consistent, Disjoint
  <2>3. own \in Injection(T, 1..(M - 1))
    BY <2>1, <2>2 DEF Injection, IsInjective
  <2> HIDE DEF own
  <2>4. IsFiniteSet(1..(M - 1)) /\ Cardinality(1..(M - 1)) = M - 1
    BY <1>0, FS_Interval
  <2>5. IsFiniteSet(T) /\ Cardinality(T) <= M - 1
    BY <2>3, <2>4, FS_Injection
  <2>6. QED
    BY <2>5, FS_CardinalityType
<1>7. PICK n \in 1..M : f[n - 1] = f[n]
  <2>1. SUFFICES ASSUME \A n \in 1..M : f[n - 1] # f[n] PROVE FALSE
    OBVIOUS
  <2>2. Cardinality(f[M]) >= M
    <3>1. M \in Nat /\ IsFiniteSet(f[M])
      BY <1>0, <1>2, <1>6
    <3> HIDE DEF M
    <3>2. QED
      BY <1>4, <2>1, <3>1, GrowsBy
  <2> DEFINE c == Cardinality(T)
  <2>3. c \in Nat /\ c <= M - 1 /\ c >= M
    BY <1>2, <1>6, <2>2
  <2> HIDE DEF c
  <2>4. QED
    BY <1>0, <2>3
<1>8. f[M] = f[n - 1]
  <2> DEFINE P == {m \in Nat : m <= M - n + 1 => f[n - 1 + m] = f[n - 1]}
             len == M - n + 1
  <2>1. 0 \in P /\ len \in Nat
    BY <1>0
  <2>2. ASSUME NEW m \in 1..len, m - 1 \in P PROVE m \in P
    <3>1. /\ m \in Nat /\ n - 1 + m \in 1..M /\ (n - 1 + m) - 1 = n - 1 + (m - 1)
          /\ m - 1 <= M - n + 1
      BY <1>0
    <3>2. f[n - 1 + (m - 1)] = f[n - 1]
      BY <2>2, <3>1
    <3>3. f[n - 1 + m] = Deeper(s, items, f[n - 1])
      BY <1>2, <3>1, <3>2 DEF Levels
    <3>4. f[n] = Deeper(s, items, f[n - 1])
      BY <1>2 DEF Levels
    <3>5. QED
      BY <1>7, <3>1, <3>3, <3>4
  <2> HIDE DEF P
  <2>3. 0..len \subseteq P
    <3> HIDE DEF len
    <3>1. QED
      BY <2>1, <2>2, UpTo
  <2>4. len \in 0..len /\ n - 1 + len = M /\ len <= M - n + 1
    BY <1>0
  <2>5. QED
    BY <2>3, <2>4 DEF P
<1>9. Deeper(s, items, T) = T
  BY <1>2, <1>7, <1>8 DEF Levels
<1>10. \A m \in 0..M : f[m] \subseteq T
  <2> DEFINE P == {m \in Nat : f[M - m] \subseteq T}
  <2>1. 0 \in P
    BY <1>0, <1>2
  <2>2. ASSUME NEW m \in 1..M, m - 1 \in P PROVE m \in P
    <3>1. M - m + 1 \in 1..M /\ (M - m + 1) - 1 = M - m /\ M - (m - 1) = M - m + 1 /\ m \in Nat
      BY <1>0
    <3>2. f[M - m] \subseteq f[M - m + 1]
      BY <1>4, <3>1
    <3>3. QED
      BY <2>2, <3>1, <3>2
  <2>3. 0..M \subseteq P
    <3> HIDE DEF P
    <3>0. M \in Nat
      BY <1>0
    <3>1. QED
      BY <2>1, <2>2, <3>0, UpTo
  <2>4. ASSUME NEW m \in 0..M PROVE f[m] \subseteq T
    <3>1. M - m \in 0..M /\ M - (M - m) = m
      BY <1>0
    <3>2. QED
      BY <2>3, <3>1
  <2>5. QED
    BY <2>4
<1>11. Closed(s, T)
  <2> SUFFICES ASSUME NEW i \in DirsOf(s, T) PROVE Valid(s, AllItems(s, i)) \subseteq T
    BY DEF Closed
  <2>1. CASE i = RootInode
    BY <1>0, <1>2, <1>3, <1>10, <2>1 DEF Levels
  <2>2. CASE i # RootInode
    <3>1. PICK p \in T : ItemOf(s, p).type = "dir" /\ i = ItemOf(s, p).inode
      BY <2>2 DEF DirsOf
    <3>2. i \in Inode
      BY <1>5, <3>1 DEF InodesOf
    <3>3. Valid(s, items[i]) \subseteq Deeper(s, items, T)
      BY <3>1, <3>2 DEF Deeper
    <3>4. QED
      BY <1>3, <1>9, <3>2, <3>3
  <2>3. QED
    BY <2>1, <2>2
<1>12. Supported(s, T)
  <2> DEFINE Good(p) == p[1] \in DirsOf(s, T) /\ p \in Valid(s, AllItems(s, p[1]))
             P == {m \in Nat : \A p \in f[m] : Good(p)}
  <2>1. ASSUME NEW i \in Inode, i \in DirsOf(s, T), NEW p \in Valid(s, items[i])
        PROVE  Good(p)
    <3>1. p \in AllItems(s, i)
      BY <1>3, <2>1 DEF Valid
    <3>2. p[1] = i
      BY <3>1, PlacesIs
    <3>3. QED
      BY <1>3, <2>1, <3>2
  <2> HIDE DEF Good
  <2>2. 0 \in P
    <3>1. RootInode \in DirsOf(s, T)
      BY DEF DirsOf
    <3>2. QED
      BY <1>0, <1>2, <2>1, <3>1 DEF Levels
  <2>3. ASSUME NEW m \in 1..M, m - 1 \in P PROVE m \in P
    <3>1. /\ f[m] = Deeper(s, items, f[m - 1]) /\ m \in Nat /\ f[m - 1] \subseteq T
          /\ \A p \in f[m - 1] : Good(p)
      <4>1. m - 1 \in 0..M /\ m \in Nat
        BY <1>0
      <4>2. QED
        BY <1>2, <1>10, <2>3, <4>1 DEF Levels
    <3>2. ASSUME NEW q \in f[m - 1], ItemOf(s, q).type = "dir", ItemOf(s, q).inode \in Inode,
                 NEW p \in Valid(s, items[ItemOf(s, q).inode])
          PROVE  Good(p)
      <4>1. ItemOf(s, q).inode \in DirsOf(s, T)
        BY <3>1, <3>2 DEF DirsOf
      <4>2. QED
        BY <2>1, <3>2, <4>1
    <3>3. \A p \in f[m] : Good(p)
      BY <3>1, <3>2 DEF Deeper
    <3>4. QED
      BY <3>1, <3>3
  <2>4. 0..M \subseteq P
    <3> HIDE DEF P
    <3>0. M \in Nat
      BY <1>0
    <3>1. QED
      BY <2>2, <2>3, <3>0, UpTo
  <2>5. \A p \in T : Good(p)
    BY <1>0, <1>2, <2>4
  <2>6. QED
    BY <2>5 DEF Supported, Good
<1>13. QED
  BY <1>1, <1>11, <1>12 DEF Whole, T
-----------------------------------------------------------------------------
\* An inode whose blocks are its own.
Sound(s, i) ==
  i \in s.mem.imap /\ Owned(s, i) \subseteq s.mem.bmap /\ Apart(s, i) /\ Packed(s, i)

GoodDir(s, i) == HoldsItems(s, i) /\ DirSized(s, i) /\ NamedOnce(s, i)

\* Every directory names its parent, and the root none.
Kin(s, T) ==
  /\ HasParent(s, RootInode, -1)
  /\ \A p \in T : ItemOf(s, p).type = "dir" => HasParent(s, ItemOf(s, p).inode, p[1])

LEMMA ConsistentIs ==
  ASSUME NEW s, NEW T
  PROVE  Consistent(s, T) <=>
           /\ \A i \in InodesOf(s, T) : Sound(s, i)
           /\ \A i, j \in InodesOf(s, T) : i # j => Owned(s, i) \cap Owned(s, j) = {}
           /\ \A p, q \in T : ItemOf(s, p).inode = ItemOf(s, q).inode => p = q
           /\ \A p \in T : ItemOf(s, p).inode # RootInode
           /\ \A i \in DirsOf(s, T) : GoodDir(s, i)
           /\ Kin(s, T)
           /\ \A p \in T : ItemOf(s, p).type = "file" => FileSized(s, ItemOf(s, p).inode)
<1>1. (UNION {Owned(s, i) : i \in InodesOf(s, T)} \subseteq s.mem.bmap)
        <=> \A i \in InodesOf(s, T) : Owned(s, i) \subseteq s.mem.bmap
  OBVIOUS
<1>2. (InodesOf(s, T) \subseteq s.mem.imap) <=> \A i \in InodesOf(s, T) : i \in s.mem.imap
  OBVIOUS
<1>3. QED
  BY <1>1, <1>2, Zenon DEF Consistent, Disjoint, Sound, GoodDir, Apart, Kin

\* What the items and the inodes of a whole tree are.
LEMMA WholeIs ==
  ASSUME NEW s \in FsState, NEW T, Whole(s, T)
  PROVE  /\ RootInode \in DirsOf(s, T) /\ DirsOf(s, T) \subseteq InodesOf(s, T)
         /\ InodesOf(s, T) \subseteq Inode
         /\ \A p \in T :
              /\ ItemOf(s, p).type \in {"file", "dir"} /\ ItemOf(s, p).inode \in InodesOf(s, T)
              /\ p[1] \in DirsOf(s, T) /\ p \in AllItems(s, p[1])
              /\ ItemOf(s, p).type = "dir" => ItemOf(s, p).inode \in DirsOf(s, T)
              /\ ItemOf(s, p).type = "file" => ItemOf(s, p).inode \notin DirsOf(s, T)
<1>1. Consistent(s, T) /\ Supported(s, T)
  BY DEF Whole
<1>2. DirsOf(s, T) \subseteq InodesOf(s, T) /\ RootInode \in DirsOf(s, T)
  BY DEF DirsOf, InodesOf
<1>3. InodesOf(s, T) \subseteq Inode
  BY <1>1, StateIs DEF Consistent
<1>4. ASSUME NEW p \in T
      PROVE  /\ ItemOf(s, p).type \in {"file", "dir"} /\ ItemOf(s, p).inode \in InodesOf(s, T)
             /\ p[1] \in DirsOf(s, T) /\ p \in AllItems(s, p[1])
             /\ ItemOf(s, p).type = "dir" => ItemOf(s, p).inode \in DirsOf(s, T)
  BY <1>1 DEF Supported, Valid, InodesOf, DirsOf
<1>5. ASSUME NEW p \in T, ItemOf(s, p).type = "file", ItemOf(s, p).inode \in DirsOf(s, T)
      PROVE  FALSE
  <2>1. ItemOf(s, p).inode # RootInode
    BY <1>1, ConsistentIs
  <2>2. PICK q \in T : ItemOf(s, q).type = "dir" /\ ItemOf(s, p).inode = ItemOf(s, q).inode
    BY <1>5, <2>1 DEF DirsOf
  <2>3. p = q
    BY <1>1, <2>2, ConsistentIs
  <2>4. QED
    BY <1>5, <2>2, <2>3
<1>6. QED
  BY <1>2, <1>3, <1>4, <1>5

\* The blocks of a directory hold items.
LEMMA ItemsIs ==
  ASSUME NEW s \in FsState, NEW i \in Inode, HoldsItems(s, i), NEW k \in IBlocks(s, i)
  PROVE  /\ Items(s, i, k) \in [Slot -> EntryType]
         /\ \A j \in Slot :
              /\ Items(s, i, k)[j].type \in {"invalid", "file", "dir"}
              /\ Items(s, i, k)[j].type = "invalid" => Items(s, i, k)[j] = Invalid
<1>1. \A j \in Slot : Items(s, i, k)[j].type \in {"invalid", "file", "dir"}
  BY DEF HoldsItems
<1>2. Items(s, i, k) \in BlockType
  <2>1. iblock_get(s, i, k) \in Block
    BY OwnedIs
  <2>2. QED
    BY <2>1, StateIs DEF Items
<1>3. 0 \in Slot /\ 0 \in DOMAIN NoIndex
  BY Sizes DEF Slot, NoIndex
<1>4. Items(s, i, k) \notin [DOMAIN NoIndex -> {Lba(b) : b \in {0} \cup Block}]
  <2> DEFINE x == Items(s, i, k)
             D == DOMAIN NoIndex
             V == {Lba(b) : b \in {0} \cup Block}
  <2>1. x[0].type # "lba"
    BY <1>1, <1>3
  <2>2. SUFFICES ASSUME x \in [D -> V]  PROVE FALSE
    OBVIOUS
  <2> HIDE DEF x, D
  <2>3. 0 \in D
    BY <1>3 DEF D
  <2>4. x[0] \in V
    BY <2>2, <2>3
  <2>5. QED
    BY <2>1, <2>4, EntryIs
<1>5. Items(s, i, k) \in [Slot -> EntryType]
  BY <1>2, <1>4 DEF BlockType
<1>6. \A x \in EntryType : x.type = "invalid" => x = Invalid
  BY EntryIs DEF EntryType
<1>7. QED
  BY <1>1, <1>5, <1>6

\* Where an index of a directory leads.
LEMMA InSizeIs ==
  ASSUME NEW s \in FsState, NEW i \in Inode, NEW x \in InSize(s, i)
  PROVE  /\ x \in Nat /\ x < s.mem.inode[i].size
         /\ x \div MAX_DIRITEM_PER_BLOCK \in IBlocks(s, i)
         /\ x % MAX_DIRITEM_PER_BLOCK \in Slot
         /\ (x \div MAX_DIRITEM_PER_BLOCK) * MAX_DIRITEM_PER_BLOCK + (x % MAX_DIRITEM_PER_BLOCK) = x
<1>1. s.mem.inode[i].size \in Nat /\ MAX_DIRITEM_PER_BLOCK \in Nat \ {0}
  BY LevelIs, Sizes
<1>2. x \in Nat /\ x < s.mem.inode[i].size /\ x \div MAX_DIRITEM_PER_BLOCK \in IBlocks(s, i)
  BY <1>1 DEF InSize
<1>3. QED
  BY <1>1, <1>2, DivMod DEF Slot

\* What the ".." of a directory names.
LEMMA ParentIs ==
  ASSUME NEW s \in FsState, NEW T, Whole(s, T), NEW i \in DirsOf(s, T)
  PROVE  \E j \in DirsOf(s, T) \cup {-1} : HasParent(s, i, j)
<1>1. Kin(s, T)
  BY ConsistentIs DEF Whole
<1>2. CASE i = RootInode
  BY <1>1, <1>2 DEF Kin
<1>3. CASE i # RootInode
  <2>1. PICK p \in T : ItemOf(s, p).type = "dir" /\ i = ItemOf(s, p).inode
    BY <1>3 DEF DirsOf
  <2>2. p[1] \in DirsOf(s, T)
    BY <2>1, WholeIs
  <2>3. QED
    BY <1>1, <2>1, <2>2 DEF Kin
<1>4. QED
  BY <1>2, <1>3

\* Directories that name the parent they named, or their new one.
LEMMA KinKept ==
  ASSUME NEW s \in FsState, NEW t, NEW T, Whole(s, T), NEW U,
         Items(t, RootInode, 0)[1] = Items(s, RootInode, 0)[1],
         \A p \in U : ItemOf(t, p).type = "dir" =>
           \/ HasParent(t, ItemOf(t, p).inode, p[1])
           \/ /\ p \in T /\ ItemOf(t, p) = ItemOf(s, p)
              /\ Items(t, ItemOf(s, p).inode, 0)[1] = Items(s, ItemOf(s, p).inode, 0)[1]
  PROVE  Kin(t, U)
<1>1. Kin(s, T)
  BY ConsistentIs DEF Whole
<1>2. HasParent(t, RootInode, -1)
  BY <1>1 DEF Kin, HasParent
<1>3. ASSUME NEW p \in U, ItemOf(t, p).type = "dir" PROVE HasParent(t, ItemOf(t, p).inode, p[1])
  <2>1. CASE p \in T /\ ItemOf(t, p) = ItemOf(s, p)
             /\ Items(t, ItemOf(s, p).inode, 0)[1] = Items(s, ItemOf(s, p).inode, 0)[1]
    <3>1. HasParent(s, ItemOf(s, p).inode, p[1])
      BY <1>1, <1>3, <2>1 DEF Kin
    <3>2. QED
      BY <2>1, <3>1 DEF HasParent
  <2>2. QED
    BY <1>3, <2>1
<1>4. QED
  BY <1>2, <1>3 DEF Kin
-----------------------------------------------------------------------------
(***************************************************************************)
(* How long a directory gets: Counted bounds it by the number of inodes.   *)
(***************************************************************************)
Hold(s, i) == Valid(s, AllItems(s, i))

Span(s, i) == (Cardinality(Hold(s, i)) + 2)..(s.mem.inode[i].size - 1)

LEMMA ExcessIs ==
  ASSUME NEW s, NEW T, NEW e
  PROVE  e \in Excess(s, T) <=> \E i \in DirsOf(s, T) : \E n \in Span(s, i) : e = <<i, n>>
<1>1. Excess(s, T) = UNION {{i} \X Span(s, i) : i \in DirsOf(s, T)}
  BY Zenon DEF Excess, Span, Hold
<1>2. \A i : e \in {i} \X Span(s, i) <=> \E n \in Span(s, i) : e = <<i, n>>
  OBVIOUS
<1>3. QED
  BY <1>1, <1>2

\* A move of some pairs up or down joins none.
Move(p, d, i, n) == IF i = p THEN n + d ELSE n

LEMMA MovesInto ==
  ASSUME NEW E, NEW F, IsFiniteSet(F), NEW p, NEW d \in Int,
         \A e \in E : \E i : \E n \in Int : e = <<i, n>> /\ <<i, Move(p, d, i, n)>> \in F
  PROVE  IsFiniteSet(E) /\ Cardinality(E) <= Cardinality(F)
<1> DEFINE f == [e \in E |-> <<e[1], Move(p, d, e[1], e[2])>>]
<1>1. ASSUME NEW e \in E
      PROVE  \E i : \E n \in Int : e = <<i, n>> /\ f[e] = <<i, Move(p, d, i, n)>> /\ f[e] \in F
  <2>1. PICK i : \E n \in Int : e = <<i, n>> /\ <<i, Move(p, d, i, n)>> \in F
    OBVIOUS
  <2>2. PICK n \in Int : e = <<i, n>> /\ <<i, Move(p, d, i, n)>> \in F
    BY <2>1
  <2>3. e[1] = i /\ e[2] = n
    BY <2>2
  <2>4. f[e] = <<i, Move(p, d, i, n)>>
    BY <2>3
  <2> HIDE DEF f
  <2>5. QED
    BY <2>2, <2>4
<1>2. f = [e \in E |-> f[e]]
  OBVIOUS
<1> HIDE DEF f
<1>3. ASSUME NEW e \in E, NEW g \in E, f[e] = f[g] PROVE e = g
  <2>1. PICK i : \E n \in Int : e = <<i, n>> /\ f[e] = <<i, Move(p, d, i, n)>>
    BY <1>1
  <2>2. PICK n \in Int : e = <<i, n>> /\ f[e] = <<i, Move(p, d, i, n)>>
    BY <2>1
  <2>3. PICK j : \E m \in Int : g = <<j, m>> /\ f[g] = <<j, Move(p, d, j, m)>>
    BY <1>1
  <2>4. PICK m \in Int : g = <<j, m>> /\ f[g] = <<j, Move(p, d, j, m)>>
    BY <2>3
  <2>5. i = j /\ Move(p, d, i, n) = Move(p, d, j, m)
    BY <1>3, <2>2, <2>4
  <2>6. n = m
    BY <2>5 DEF Move
  <2>7. QED
    BY <2>2, <2>4, <2>5, <2>6
<1>4. f \in Injection(E, F)
  BY <1>1, <1>2, <1>3 DEF Injection, IsInjective
<1>5. QED
  BY <1>4, FS_Injection

LEMMA TreeSizes ==
  ASSUME NEW s \in FsState, NEW T, Whole(s, T)
  PROVE  /\ IsFiniteSet(Inode) /\ Cardinality(Inode) = MAX_INODES
         /\ IsFiniteSet(InodesOf(s, T)) /\ Cardinality(InodesOf(s, T)) \in Nat
         /\ IsFiniteSet(Lost(s, T)) /\ Cardinality(Lost(s, T)) \in Nat
         /\ Cardinality(InodesOf(s, T)) + Cardinality(Lost(s, T)) <= MAX_INODES
         /\ IsFiniteSet(DirsOf(s, T))
         /\ \A i \in DirsOf(s, T) :
              /\ IsFiniteSet(Hold(s, i)) /\ Cardinality(Hold(s, i)) \in Nat
              /\ Cardinality(Hold(s, i)) < Cardinality(InodesOf(s, T))
              /\ i \in Inode /\ s.mem.inode[i].size \in Nat
<1> DEFINE I == InodesOf(s, T)
           L == Lost(s, T)
           D == DirsOf(s, T)
<1>1. /\ I \subseteq Inode /\ D \subseteq I /\ RootInode \in D
      /\ \A p \in T : ItemOf(s, p).inode \in I
  BY WholeIs
<1>2. IsFiniteSet(Inode) /\ Cardinality(Inode) = MAX_INODES /\ MAX_INODES \in Nat
  <2> DEFINE M == MAX_INODES
  <2>1. M \in Nat \ {0} /\ 0 \in Int /\ M - 1 \in Int
    BY Sizes
  <2> HIDE DEF M
  <2>2. IsFiniteSet(0..(M - 1)) /\ Cardinality(0..(M - 1)) = M
    BY <2>1, FS_Interval
  <2>3. QED
    BY <2>1, <2>2 DEF M, Inode
<1>3. L \subseteq Inode /\ I \cap L = {}
  BY StateIs DEF Lost
<1>4. IsFiniteSet(I) /\ IsFiniteSet(L) /\ IsFiniteSet(D) /\ IsFiniteSet(I \cup L)
  <2>1. I \in SUBSET Inode /\ L \in SUBSET Inode /\ D \in SUBSET Inode /\ I \cup L \in SUBSET Inode
    BY <1>1, <1>3
  <2> HIDE DEF I, L, D
  <2>2. QED
    BY <1>2, <2>1, FS_Subset
<1>5. Cardinality(I) \in Nat /\ Cardinality(L) \in Nat /\ Cardinality(I) + Cardinality(L) <= MAX_INODES
  <2> HIDE DEF I, L, D
  <2>1. Cardinality(I) \in Nat /\ Cardinality(L) \in Nat /\ Cardinality(I \cup L) \in Nat
    BY <1>4, FS_CardinalityType
  <2>2. Cardinality(I \cup L) = Cardinality(I) + Cardinality(L) - Cardinality(I \cap L)
    BY <1>4, FS_Union
  <2>3. Cardinality(I \cap L) = 0
    BY <1>3, FS_EmptySet
  <2>4. I \cup L \in SUBSET Inode
    BY <1>1, <1>3
  <2>5. Cardinality(I \cup L) <= Cardinality(Inode)
    BY <1>2, <2>4, FS_Subset
  <2>6. QED
    BY <1>2, <2>1, <2>2, <2>3, <2>5
<1>6. ASSUME NEW i \in D
      PROVE  /\ IsFiniteSet(Hold(s, i)) /\ Cardinality(Hold(s, i)) \in Nat
             /\ Cardinality(Hold(s, i)) < Cardinality(I)
             /\ i \in Inode /\ s.mem.inode[i].size \in Nat
  <2> DEFINE H == Hold(s, i)
             X == I \ {RootInode}
             own == [p \in H |-> ItemOf(s, p).inode]
  <2>1. H \subseteq T
    BY DEF Whole, Closed, Hold
  <2>2. \A p \in T : ItemOf(s, p).inode \in X
    BY <1>1, ConsistentIs DEF Whole
  <2>3. \A p, q \in T : ItemOf(s, p).inode = ItemOf(s, q).inode => p = q
    BY ConsistentIs DEF Whole
  <2> HIDE DEF H, X
  <2>4. own \in Injection(H, X)
    BY <2>1, <2>2, <2>3 DEF Injection, IsInjective
  <2> HIDE DEF own, I
  <2>5. IsFiniteSet(X) /\ Cardinality(X) = Cardinality(I) - 1
    <3>1. RootInode \in I
      BY <1>1
    <3>2. QED
      BY <1>4, <3>1, FS_RemoveElement DEF X
  <2>6. IsFiniteSet(H) /\ Cardinality(H) <= Cardinality(X)
    BY <2>4, <2>5, FS_Injection
  <2>7. Cardinality(H) \in Nat
    BY <2>6, FS_CardinalityType
  <2>8. i \in Inode /\ s.mem.inode[i].size \in Nat
    BY <1>1, LevelIs
  <2>9. QED
    BY <1>5, <2>5, <2>6, <2>7, <2>8 DEF H
<1>7. QED
  BY <1>2, <1>4, <1>5, <1>6

LEMMA ExcessFinite ==
  ASSUME NEW s \in FsState, NEW T, Whole(s, T)
  PROVE  /\ IsFiniteSet(Excess(s, T)) /\ Cardinality(Excess(s, T)) \in Nat
         /\ \A i \in DirsOf(s, T) :
              \/ s.mem.inode[i].size <= Cardinality(Hold(s, i)) + 2
              \/ s.mem.inode[i].size - Cardinality(Hold(s, i)) - 2 <= Cardinality(Excess(s, T))
<1> DEFINE D == DirsOf(s, T)
           g == [i \in D |-> {i} \X Span(s, i)]
           G == {{i} \X Span(s, i) : i \in D}
           h(i) == Cardinality(Hold(s, i))
           n(i) == s.mem.inode[i].size
<1>1. /\ IsFiniteSet(D)
      /\ \A i \in D : h(i) \in Nat /\ n(i) \in Nat
  BY TreeSizes
<1>2. ASSUME NEW i \in D
      PROVE  /\ IsFiniteSet({i} \X Span(s, i))
             /\ Cardinality({i} \X Span(s, i))
                  = IF h(i) + 2 > n(i) - 1 THEN 0 ELSE n(i) - h(i) - 2
  <2> DEFINE a == h(i) + 2
             b == n(i) - 1
  <2>1. a \in Int /\ b \in Int
    BY <1>1
  <2>2. Span(s, i) = a..b
    BY DEF Span
  <2>3. IsFiniteSet(a..b) /\ Cardinality(a..b) = IF a > b THEN 0 ELSE b - a + 1
    <3> HIDE DEF a, b
    <3>1. QED
      BY <2>1, FS_Interval
  <2> DEFINE X == Span(s, i)
             Y == {i}
             c == Cardinality(X)
  <2>4. IsFiniteSet(X) /\ IsFiniteSet(Y) /\ Cardinality(Y) = 1
    BY <2>2, <2>3, FS_Singleton
  <2>5. c = IF a > b THEN 0 ELSE n(i) - h(i) - 2
    <3>1. b - a + 1 = n(i) - h(i) - 2
      BY <1>1
    <3> HIDE DEF a, b, h, n
    <3>2. QED
      BY <2>2, <2>3, <3>1
  <2> HIDE DEF X, Y, a, b, n, h
  <2>6. c \in Nat
    BY <2>4, FS_CardinalityType
  <2>7. IsFiniteSet(Y \X X) /\ Cardinality(Y \X X) = Cardinality(Y) * Cardinality(X)
    BY <2>4, FS_Product
  <2>8. Cardinality(Y \X X) = c
    BY <2>4, <2>6, <2>7
  <2>9. QED
    BY <2>5, <2>7, <2>8 DEF X, Y, a, b
<1>3. Excess(s, T) = UNION G
  BY Zenon DEF Excess, Span, Hold
<1>4. g \in Surjection(D, G)
  BY Zenon DEF Surjection
<1>5. IsFiniteSet(G)
  <2> HIDE DEF g, G, D
  <2>1. QED
    BY <1>1, <1>4, FS_Surjection
<1>6. \A x \in G : IsFiniteSet(x)
  BY <1>2
<1>7. \A i \in D : {i} \X Span(s, i) \in SUBSET UNION G
  OBVIOUS
<1> HIDE DEF G, g, D
<1>8. IsFiniteSet(UNION G)
  BY <1>5, <1>6, FS_UNION
<1>9. Cardinality(UNION G) \in Nat
  BY <1>8, FS_CardinalityType
<1>10. ASSUME NEW i \in D PROVE n(i) <= h(i) + 2 \/ n(i) - h(i) - 2 <= Cardinality(UNION G)
  <2> DEFINE P == {i} \X Span(s, i)
  <2>1. P \in SUBSET UNION G
    BY <1>7
  <2>2. Cardinality(P) = IF h(i) + 2 > n(i) - 1 THEN 0 ELSE n(i) - h(i) - 2
    BY <1>2
  <2> HIDE DEF P
  <2>3. Cardinality(P) <= Cardinality(UNION G)
    BY <1>8, <2>1, FS_Subset
  <2>4. h(i) \in Nat /\ n(i) \in Nat
    BY <1>1
  <2> HIDE DEF n, h
  <2>5. QED
    BY <1>9, <2>2, <2>3, <2>4
<1>11. QED
  BY <1>3, <1>8, <1>9, <1>10 DEF D

\* So no directory needs more than its direct blocks.
LEMMA DirsShort ==
  ASSUME NEW s \in FsState, NEW T, Whole(s, T), Counted(s, T), NEW p \in DirsOf(s, T)
  PROVE  s.mem.inode[p].size \div MAX_DIRITEM_PER_BLOCK < MAX_DIRECT
<1> DEFINE n == s.mem.inode[p].size
           h == Cardinality(Hold(s, p))
           e == Cardinality(Excess(s, T))
           c == Cardinality(InodesOf(s, T))
           l == Cardinality(Lost(s, T))
           M == MAX_DIRITEM_PER_BLOCK
           d == MAX_DIRECT
<1>1. h \in Nat /\ n \in Nat /\ c \in Nat /\ l \in Nat /\ h < c /\ c + l <= MAX_INODES
  BY TreeSizes
<1>2. e \in Nat /\ (n <= h + 2 \/ n - h - 2 <= e) /\ e <= l
  BY ExcessFinite DEF Counted
<1>3. MAX_INODES \in Nat /\ MAX_INODES + 1 < d * M /\ M \in Nat \ {0} /\ d \in Nat
  BY Sizes, FsAssumption
<1> HIDE DEF n, h, e, c, l, M, d
<1>4. n <= MAX_INODES + 1
  BY <1>1, <1>2, <1>3
<1> DEFINE y == d * M
<1>5. y \in Nat /\ MAX_INODES + 1 < y
  BY <1>3
<1> HIDE DEF y
<1>6. n < y
  BY <1>1, <1>3, <1>4, <1>5
<1>7. QED
  BY <1>1, <1>3, <1>6, DivLess DEF y, n, M, d
-----------------------------------------------------------------------------
\* Each inode of I has blocks of its own, all in use.
World(s, I) ==
  /\ \A i \in I : Sound(s, i)
  /\ \A i, j \in I : i # j => Owned(s, i) \cap Owned(s, j) = {}

LEMMA WorldKept ==
  ASSUME NEW s \in FsState, NEW t \in FsState, NEW I, World(s, I), NEW J \in SUBSET I,
         \A j \in J : Alike(s, t, j) /\ j \in t.mem.imap /\ Owned(s, j) \subseteq t.mem.bmap
  PROVE  World(t, J)
<1>1. I \subseteq Inode
  BY StateIs DEF World, Sound
<1>2. \A j \in J : Owned(t, j) = Owned(s, j)
  BY <1>1, SameBlocks
<1>3. ASSUME NEW j \in J PROVE Sound(t, j)
  <2>1. (Apart(s, j) => Apart(t, j)) /\ (Packed(s, j) => Packed(t, j))
    BY <1>1, SameBlocks
  <2>2. QED
    BY <1>2, <2>1 DEF World, Sound
<1>4. QED
  BY <1>2, <1>3 DEF World

\* t writes block k of i, and may give i another size.
Rewrites(s, t, i, k) ==
  /\ t.mem.imap = s.mem.imap /\ t.mem.bmap = s.mem.bmap
  /\ t.mem.inode[i].iblocks = s.mem.inode[i].iblocks
  /\ \A j \in Inode \ {i} : t.mem.inode[j] = s.mem.inode[j]
  /\ \A c \in Block \ {iblock_get(s, i, k)} : t.disk[BlockAt(c)] = s.disk[BlockAt(c)]

LEMMA RewritesIs ==
  ASSUME NEW s \in FsState, NEW t \in FsState, NEW I, World(s, I), NEW i \in I,
         NEW k \in IBlocks(s, i), Rewrites(s, t, i, k)
  PROVE  /\ World(t, I) /\ \A j \in I \ {i} : Alike(s, t, j)
         /\ \A m \in IBlock : iblock_get(t, i, m) = iblock_get(s, i, m)
         /\ IBlocks(t, i) = IBlocks(s, i)
         /\ \A m \in IBlocks(s, i) \ {k} : Items(t, i, m) = Items(s, i, m)
         /\ Owned(t, i) = Owned(s, i)
<1> DEFINE b == iblock_get(s, i, k)
<1>0. I \subseteq Inode /\ i \in Inode
  BY StateIs DEF World, Sound
<1>1. b \in Owned(s, i) /\ Owned(s, i) \subseteq Block /\ Apart(s, i)
  BY <1>0, OwnedIs DEF World, Sound
<1>2. SameIndexes(s, t, i)
  <2>1. /\ b # Level1(s, i) /\ b # Level2(s, i)
        /\ \A n \in Place : b # Behind(s, i, n)
    BY <1>0, <1>1, ApartIs
  <2>2. /\ Level1(s, i) \in {0} \cup Block /\ Level2(s, i) \in {0} \cup Block
        /\ \A n \in Place : Behind(s, i, n) \in {0} \cup Block
    BY <1>0, LevelIs, OwnedIs
  <2> HIDE DEF b
  <2>3. \A c \in Block \ {b} : t.disk[BlockAt(c)] = s.disk[BlockAt(c)]
    BY DEF Rewrites, b
  <2>4. QED
    BY <2>1, <2>2, <2>3 DEF SameIndexes, Rewrites
<1>3. /\ \A m \in IBlock : iblock_get(t, i, m) = iblock_get(s, i, m)
      /\ IBlocks(t, i) = IBlocks(s, i) /\ Owned(t, i) = Owned(s, i)
      /\ Apart(s, i) => Apart(t, i)
      /\ Packed(s, i) => Packed(t, i)
  BY <1>0, <1>2, SameNames
<1>4. ASSUME NEW j \in I \ {i} PROVE Alike(s, t, j)
  <2>1. Owned(s, j) \cap Owned(s, i) = {} /\ Owned(s, j) \subseteq Block
    BY <1>0, OwnedIs DEF World
  <2>2. QED
    BY <1>0, <1>1, <2>1 DEF Alike, Rewrites
<1>5. \A j \in I \ {i} : Sound(t, j) /\ Owned(t, j) = Owned(s, j)
  <2>1. World(t, I \ {i})
    <3>1. \A j \in I \ {i} : j \in t.mem.imap /\ Owned(s, j) \subseteq t.mem.bmap
      BY DEF World, Sound, Rewrites
    <3>2. QED
      BY <1>4, <3>1, WorldKept
  <2>2. \A j \in I \ {i} : Owned(t, j) = Owned(s, j)
    BY <1>0, <1>4, SameBlocks
  <2>3. QED
    BY <2>1, <2>2 DEF World
<1>6. Sound(t, i)
  BY <1>3 DEF World, Sound, Rewrites
<1>7. World(t, I)
  BY <1>3, <1>5, <1>6 DEF World
<1>8. ASSUME NEW m \in IBlocks(s, i) \ {k} PROVE Items(t, i, m) = Items(s, i, m)
  <2>1. iblock_get(s, i, m) # b /\ iblock_get(s, i, m) \in Block
    BY <1>0, <1>1, ApartIs, OwnedIs
  <2>2. iblock_get(t, i, m) = iblock_get(s, i, m)
    BY <1>3, IBlocksIs
  <2>3. QED
    BY <2>1, <2>2 DEF Items, Rewrites
<1>9. QED
  BY <1>3, <1>4, <1>7, <1>8

\* t marks the free block b used.
Marked(s, t, b) ==
  /\ t.mem.imap = s.mem.imap /\ t.mem.inode = s.mem.inode
  /\ b \notin s.mem.bmap /\ t.mem.bmap = s.mem.bmap \cup {b}
  /\ \A c \in Block : t.disk[BlockAt(c)] = s.disk[BlockAt(c)]

\* t gives i the block b, that was free, as its block k.
Extended(s, t, I, i, k, b) ==
  /\ World(t, I) /\ \A j \in I \ {i} : Alike(s, t, j)
  /\ t.mem.imap = s.mem.imap /\ t.mem.inode[i].size = s.mem.inode[i].size
  /\ \A m \in IBlock : iblock_get(t, i, m) = IF m = k THEN b ELSE iblock_get(s, i, m)
  /\ IBlocks(t, i) = IBlocks(s, i) \cup {k}
  /\ \A m \in IBlocks(s, i) : Items(t, i, m) = Items(s, i, m)

LEMMA ExtendedIs ==
  ASSUME NEW s \in FsState, NEW u \in FsState, NEW t \in FsState, NEW I, World(s, I),
         NEW i \in I, NEW k, FirstMissing(s, i, k), NEW b \in Block, Marked(s, u, b),
         Linkable(u, i, k, b) => Linked(u, t, i, k, b)
  PROVE  Extended(s, t, I, i, k, b)
<1>0. I \subseteq Inode /\ i \in Inode
  BY StateIs DEF World, Sound
<1>1. \A j \in Inode : Alike(s, u, j)
  BY OwnedIs DEF Alike, Marked
<1>2. World(u, I)
  <2>1. \A j \in I : j \in u.mem.imap /\ Owned(s, j) \subseteq u.mem.bmap
    BY DEF World, Sound, Marked
  <2>2. QED
    BY <1>0, <1>1, <2>1, WorldKept
<1>3. /\ \A m \in IBlock : iblock_get(u, i, m) = iblock_get(s, i, m)
      /\ IBlocks(u, i) = IBlocks(s, i)
      /\ \A j \in I : Owned(u, j) = Owned(s, j)
  BY <1>0, <1>1, SameBlocks
<1>4. Linkable(u, i, k, b)
  <2>1. FirstMissing(u, i, k)
    BY <1>3 DEF FirstMissing
  <2>2. b \in u.mem.bmap \ Owned(u, i)
    BY <1>3 DEF World, Sound, Marked
  <2>3. QED
    BY <1>2, <2>1, <2>2 DEF Linkable, World, Sound
<1>5. Linked(u, t, i, k, b)
  BY <1>4
<1>6. IBlocks(t, i) = IBlocks(s, i) \cup {k} /\ Packed(t, i)
  BY <1>3, <1>4, <1>5, GrownBlocks DEF Linkable, Linked
<1>7. \A m \in IBlock : iblock_get(t, i, m) = IF m = k THEN b ELSE iblock_get(s, i, m)
  BY <1>3, <1>5 DEF Linked, Grown
<1>8. ASSUME NEW c \in u.mem.bmap,
             c \notin Owned(s, i) \/ \E m \in IBlocks(s, i) : c = iblock_get(s, i, m)
      PROVE  t.disk[BlockAt(c)] = s.disk[BlockAt(c)]
  <2>1. c \in Owned(u, i) => \E m \in IBlocks(u, i) : c = iblock_get(u, i, m)
    BY <1>0, <1>3, <1>8, IBlocksIs
  <2>2. c \in Block
    BY StateIs
  <2>3. QED
    BY <1>5, <2>1, <2>2 DEF Linked, Marked
<1>9. ASSUME NEW j \in I \ {i} PROVE Alike(s, t, j)
  <2>1. Owned(s, j) \subseteq u.mem.bmap /\ Owned(s, j) \cap Owned(s, i) = {}
    BY DEF World, Sound, Marked
  <2>2. t.mem.inode[j] = s.mem.inode[j]
    BY <1>0, <1>5 DEF Linked, Marked
  <2>3. QED
    BY <1>8, <2>1, <2>2 DEF Alike
<1>10. ASSUME NEW m \in IBlocks(s, i) PROVE Items(t, i, m) = Items(s, i, m)
  <2>1. iblock_get(s, i, m) \in u.mem.bmap
    BY <1>0, OwnedIs DEF World, Sound, Marked
  <2>2. m # k /\ m \in IBlock
    BY IBlocksIs DEF FirstMissing
  <2>3. iblock_get(t, i, m) = iblock_get(s, i, m)
    BY <1>7, <2>2
  <2>4. QED
    BY <1>8, <2>1, <2>3 DEF Items
<1>11. World(t, I)
  <2>1. Owned(t, i) \subseteq Owned(s, i) \cup {b} \cup (t.mem.bmap \ u.mem.bmap)
    BY <1>3, <1>5 DEF Linked
  <2>2. u.mem.bmap \subseteq t.mem.bmap /\ t.mem.imap = s.mem.imap /\ Apart(t, i)
    BY <1>5 DEF Linked, Marked
  <2>3. Sound(t, i)
    BY <1>6, <2>1, <2>2 DEF World, Sound, Marked
  <2>4. World(t, I \ {i})
    <3>1. \A j \in I \ {i} : j \in t.mem.imap /\ Owned(s, j) \subseteq t.mem.bmap
      BY <2>2 DEF World, Sound, Marked
    <3>2. QED
      BY <1>9, <3>1, WorldKept
  <2>5. ASSUME NEW j \in I \ {i} PROVE Owned(t, j) \cap Owned(t, i) = {}
    <3>1. Owned(t, j) = Owned(s, j)
      BY <1>0, <1>9, SameBlocks
    <3>2. Owned(s, j) \cap Owned(s, i) = {} /\ Owned(s, j) \subseteq s.mem.bmap
      BY DEF World, Sound
    <3>3. QED
      BY <2>1, <3>1, <3>2 DEF Marked
  <2>6. QED
    BY <2>3, <2>4, <2>5 DEF World
<1>12. t.mem.imap = s.mem.imap /\ t.mem.inode[i].size = s.mem.inode[i].size
  BY <1>5 DEF Linked, Marked
<1>13. QED
  BY <1>6, <1>7, <1>9, <1>10, <1>11, <1>12 DEF Extended
-----------------------------------------------------------------------------
\* A block given to an inode, with or without saving the map in between.
LEMMA NewBlockIs ==
  ASSUME NEW s \in FsState, NEW i \in Inode, NEW k \in IBlock,
         NEW u \in {free_allocate(s), free_map_update(free_allocate(s))}
  PROVE  LET b == FreeBlock(s)
             t == iblock_set(u, i, k, b)
         IN  /\ t \in FsState /\ Follows(s, t) /\ t.mem.halt \in {s.mem.halt, "full"}
             /\ s.mem.halt # "no" => t.mem.halt # "no"
             /\ b \in Block
             /\ \A I : t.mem.halt = "no" /\ World(s, I) /\ i \in I /\ FirstMissing(s, i, k)
                  => Extended(s, t, I, i, k, b)
<1> DEFINE b == FreeBlock(s)
           a == free_allocate(s)
           t == iblock_set(u, i, k, b)
<1>1. /\ a \in FsState /\ Follows(s, a) /\ a.disk = s.disk /\ b \in Block
      /\ a.mem.halt \in {s.mem.halt, "full"}
      /\ s.mem.halt # "no" => a.mem.halt # "no"
      /\ a.mem.halt = "no" =>
           /\ s.mem.halt = "no" /\ b \notin s.mem.bmap
           /\ a.mem.bmap = s.mem.bmap \cup {b}
           /\ a.mem.imap = s.mem.imap /\ a.mem.inode = s.mem.inode
  BY AllocIs
<1> HIDE DEF b, a
<1>2. /\ u \in FsState /\ Follows(s, u) /\ u.mem = a.mem
      /\ \A c \in Block : u.disk[BlockAt(c)] = s.disk[BlockAt(c)]
  <2>1. CASE u = a
    BY <1>1, <2>1
  <2>2. CASE u = free_map_update(a)
    <3>1. /\ u \in FsState /\ Follows(a, u) /\ u.mem = a.mem
          /\ a.mem.halt # "no" => u = a
          /\ a.mem.halt = "no" => OnlyMap(a, u)
      BY <1>1, <2>2, MapIs
    <3>2. \A c \in Block : u.disk[BlockAt(c)] = a.disk[BlockAt(c)]
      BY <1>1, <3>1, OnlyMapIs
    <3>3. QED
      BY <1>1, <3>1, <3>2, FollowsOn
  <2>3. QED
    BY <2>1, <2>2 DEF a
<1>3. /\ t \in FsState /\ Follows(u, t) /\ t.mem.halt \in {u.mem.halt, "full"}
      /\ u.mem.halt # "no" => t.mem.halt # "no"
      /\ t.mem.halt = "no" /\ Linkable(u, i, k, b) => Linked(u, t, i, k, b)
  BY <1>1, <1>2, SetIs
<1> HIDE DEF t
<1>4. Follows(s, t)
  BY <1>2, <1>3, FollowsOn
<1>5. ASSUME NEW I, t.mem.halt = "no", World(s, I), i \in I, FirstMissing(s, i, k)
      PROVE  Extended(s, t, I, i, k, b)
  <2>1. Marked(s, u, b)
    BY <1>1, <1>2, <1>3, <1>5 DEF Marked
  <2>2. QED
    BY <1>1, <1>2, <1>3, <1>5, <2>1, ExtendedIs
<1>6. QED
  BY <1>1, <1>2, <1>3, <1>4, <1>5 DEF t, b

\* t has written the first n blocks of i.
Filled(s, t, I, i, n) ==
  /\ World(t, I) /\ \A j \in I \ {i} : Alike(s, t, j)
  /\ 0..(n - 1) \subseteq IBlocks(t, i)

LEMMA FilledOn ==
  ASSUME NEW s, NEW u \in FsState, NEW t, NEW I, NEW i, NEW n, World(u, I),
         World(s, I), s \in FsState,
         \A j \in I \ {i} : Alike(s, u, j), Filled(u, t, I, i, n)
  PROVE  Filled(s, t, I, i, n)
<1>1. I \subseteq Inode
  BY StateIs DEF World, Sound
<1>2. ASSUME NEW j \in I \ {i} PROVE Alike(s, t, j)
  <2>1. Owned(u, j) = Owned(s, j)
    BY <1>1, SameBlocks
  <2>2. QED
    BY <2>1 DEF Filled, Alike
<1>3. QED
  BY <1>2 DEF Filled

LEMMA DataType ==
  ASSUME NEW i \in Inode
  PROVE  Data(i) \in BlockType
<1>1. Entry("data", i, "") \in EntryType
  BY DEF Entry, EntryType
<1>2. QED
  BY <1>1 DEF Data, BlockType

LEMMA WriteBlockIs ==
  ASSUME NEW s \in FsState, NEW i \in Inode, NEW k \in IBlock
  PROVE  LET t == WriteBlock(s, i, k)
         IN  /\ t \in FsState /\ Follows(s, t) /\ Quiet(s, t, i)
             /\ s.mem.halt # "no" => t.mem.halt # "no"
             /\ (s.mem.halt = "no" =>
                   \E I : World(s, I) /\ i \in I /\ 0..(k - 1) \subseteq IBlocks(s, i))
                  => t.mem.halt \in {s.mem.halt, "full"}
             /\ \A I : t.mem.halt = "no" /\ World(s, I) /\ i \in I
                         /\ 0..(k - 1) \subseteq IBlocks(s, i)
                  => Filled(s, t, I, i, k + 1)
<1> DEFINE s1 == IF iblock_get(s, i, k) = 0
                 THEN iblock_set(free_allocate(s), i, k, FreeBlock(s)) ELSE s
           b == iblock_get(s1, i, k)
           t == free_rw_disk(s1, b, Data(i))
<1>0. k \in Nat /\ 0..k = 0..(k - 1) \cup {k} /\ (k + 1) - 1 = k
  BY Sizes DEF IBlock
<1>1. /\ s1 \in FsState /\ Follows(s, s1) /\ s1.mem.halt \in {s.mem.halt, "full"}
      /\ s.mem.halt # "no" => s1.mem.halt # "no"
  <2>1. CASE iblock_get(s, i, k) = 0
    BY <2>1, NewBlockIs
  <2>2. CASE iblock_get(s, i, k) # 0
    BY <2>2, FollowsSame
  <2>3. QED
    BY <2>1, <2>2
<1>10. Quiet(s, s1, i)
  <2>1. CASE iblock_get(s, i, k) = 0
    <3> DEFINE a == free_allocate(s)
    <3>1. a \in FsState /\ FreeBlock(s) \in Block /\ Quiet(s, a, i)
      BY AllocIs, AllocQuiet
    <3> HIDE DEF a
    <3>2. Quiet(a, iblock_set(a, i, k, FreeBlock(s)), i)
      BY <3>1, SetQuiet
    <3>3. Quiet(s, iblock_set(a, i, k, FreeBlock(s)), i)
      BY <3>1, <3>2, QuietOn
    <3>4. QED
      BY <2>1, <3>3 DEF a
  <2>2. CASE iblock_get(s, i, k) # 0
    BY <2>2 DEF Quiet
  <2>3. QED
    BY <2>1, <2>2
<1>2. ASSUME NEW I, s1.mem.halt = "no", World(s, I), i \in I, 0..(k - 1) \subseteq IBlocks(s, i)
      PROVE  /\ World(s1, I) /\ \A j \in I \ {i} : Alike(s, s1, j)
             /\ 0..k \subseteq IBlocks(s1, i)
  <2>1. CASE iblock_get(s, i, k) = 0
    <3>1. FirstMissing(s, i, k)
      BY <1>2, <2>1, IBlocksIs DEF FirstMissing
    <3>2. Extended(s, s1, I, i, k, FreeBlock(s))
      BY <1>2, <2>1, <3>1, NewBlockIs
    <3>3. QED
      BY <1>0, <1>2, <3>2 DEF Extended
  <2>2. CASE iblock_get(s, i, k) # 0
    <3>1. s1 = s
      BY <2>2
    <3>2. k \in IBlocks(s, i)
      <4>1. \A m \in 0..k : iblock_get(s, i, m) # 0
        BY <1>0, <1>2, <2>2, IBlocksIs
      <4>2. QED
        BY <4>1, IBlocksIs, Zenon
    <3>3. QED
      BY <1>0, <1>2, <3>1, <3>2 DEF Alike
  <2>3. QED
    BY <2>1, <2>2
<1> HIDE DEF s1
<1>3. /\ t \in FsState /\ Follows(s1, t)
      /\ s1.mem.halt # "no" => t = s1
      /\ b \in s1.mem.bmap => t.mem = s1.mem
      /\ t.mem.halt = "no" =>
           /\ s1.mem.halt = "no" /\ b \in s1.mem.bmap /\ t.mem = s1.mem
           /\ t.disk = [s1.disk EXCEPT ![BlockAt(b)] = Data(i)]
  BY <1>1, DataType, RwIs
<1>11. Quiet(s1, t, i)
  BY <1>1, DataType, RwQuiet
<1> HIDE DEF t, b
<1>4. /\ Follows(s, t) /\ Quiet(s, t, i)
      /\ s.mem.halt # "no" => t.mem.halt # "no"
  BY <1>1, <1>3, <1>10, <1>11, FollowsOn, QuietOn
<1>5. ASSUME NEW I, s1.mem.halt = "no", World(s, I), i \in I, 0..(k - 1) \subseteq IBlocks(s, i)
      PROVE  b \in s1.mem.bmap
  <2>1. World(s1, I) /\ k \in IBlocks(s1, i)
    BY <1>0, <1>2, <1>5
  <2>2. QED
    BY <1>1, <1>5, <2>1, OwnedIs DEF World, Sound, b
<1>6. ASSUME s.mem.halt = "no" =>
               \E I : World(s, I) /\ i \in I /\ 0..(k - 1) \subseteq IBlocks(s, i)
      PROVE  t.mem.halt \in {s.mem.halt, "full"}
  <2>1. CASE s1.mem.halt # "no"
    BY <1>1, <1>3, <1>6, <2>1
  <2>2. CASE s1.mem.halt = "no"
    <3>1. b \in s1.mem.bmap
      BY <1>1, <1>5, <1>6, <2>2
    <3>2. QED
      BY <1>1, <1>3, <2>2, <3>1
  <2>3. QED
    BY <2>1, <2>2
<1>7. ASSUME NEW I, t.mem.halt = "no", World(s, I), i \in I, 0..(k - 1) \subseteq IBlocks(s, i)
      PROVE  Filled(s, t, I, i, k + 1)
  <2>1. /\ World(s1, I) /\ \A j \in I \ {i} : Alike(s, s1, j)
        /\ 0..k \subseteq IBlocks(s1, i)
    BY <1>2, <1>3, <1>7
  <2>2. Rewrites(s1, t, i, k)
    <3>1. \A c \in Block \ {b} : t.disk[BlockAt(c)] = s1.disk[BlockAt(c)]
      BY <1>1, <1>3, <1>7, SectorsApart, Sectors, StateIs DEF DiskType
    <3>2. QED
      BY <1>3, <1>7, <3>1 DEF Rewrites, b
  <2>3. k \in IBlocks(s1, i)
    BY <1>0, <2>1
  <2>4. /\ World(t, I) /\ \A j \in I \ {i} : Alike(s1, t, j)
        /\ IBlocks(t, i) = IBlocks(s1, i)
    BY <1>1, <1>3, <1>7, <2>1, <2>2, <2>3, RewritesIs
  <2>5. Filled(s1, t, I, i, k + 1)
    BY <1>0, <2>1, <2>4 DEF Filled
  <2>6. QED
    BY <1>1, <1>7, <2>1, <2>5, FilledOn
<1>8. WriteBlock(s, i, k) = t
  BY DEF WriteBlock, t, b, s1
<1>9. QED
  BY <1>3, <1>4, <1>6, <1>7, <1>8

\* The loop of files_write.
LEMMA WriteBlocksIs ==
  ASSUME NEW s \in FsState, NEW i \in Inode, NEW n \in Nat \ {0}, n - 1 \in IBlock,
         NEW I, s.mem.halt = "no" => World(s, I) /\ i \in I
  PROVE  LET t == WriteBlocks(s, i, n)
         IN  /\ t \in FsState /\ Follows(s, t) /\ t.mem.halt \in {s.mem.halt, "full"}
             /\ Quiet(s, t, i)
             /\ s.mem.halt # "no" => t.mem.halt # "no"
             /\ t.mem.halt = "no" => Filled(s, t, I, i, n)
<1> DEFINE Round(u, k) == IF k - 1 \in IBlock THEN WriteBlock(u, i, k - 1) ELSE u
           G == [k \in Nat |-> [u \in FsState |-> Round(u, k)]]
<1>0. \A k \in 1..n : k - 1 \in IBlock /\ k - 1 \in 0..n /\ k \in 0..n
  BY Sizes DEF IBlock
<1>1. G \in [Nat -> [FsState -> FsState]]
  <2>1. \A k \in Nat, u \in FsState : Round(u, k) \in FsState
    BY WriteBlockIs
  <2> HIDE DEF Round
  <2>2. QED
    BY <2>1
<1> HIDE DEF G
<1>2. PICK f \in [0..n -> FsState] : Rounds(f, G, s, n)
  BY <1>1, RecursionExists
<1>3. ASSUME NEW k \in 0..n
      PROVE  f[k] = IF k = 0 THEN s ELSE WriteBlock(f[k - 1], i, k - 1)
  <2>1. CASE k = 0
    BY <1>2, <2>1 DEF Rounds
  <2>2. CASE k # 0
    <3>1. k \in 1..n /\ k \in Nat /\ f[k - 1] \in FsState /\ k - 1 \in IBlock
      BY <1>0, <1>2, <2>2
    <3>2. G[k][f[k - 1]] = WriteBlock(f[k - 1], i, k - 1)
      BY <3>1 DEF G
    <3>3. QED
      BY <1>2, <2>2, <3>2 DEF Rounds
  <2>3. QED
    BY <2>1, <2>2
<1> DEFINE Body(g) == [k \in 0..n |-> IF k = 0 THEN s ELSE WriteBlock(g[k - 1], i, k - 1)]
<1>4. f = Body(f)
  <2> DEFINE g == Body(f)
  <2>1. f = [k \in 0..n |-> f[k]] /\ g = [k \in 0..n |-> g[k]]
    BY <1>2
  <2>2. \A k \in 0..n : g[k] = IF k = 0 THEN s ELSE WriteBlock(f[k - 1], i, k - 1)
    BY Zenon
  <2> HIDE DEF g
  <2>3. \A k \in 0..n : f[k] = g[k]
    BY <1>3, <2>2
  <2>4. QED
    BY <2>1, <2>3 DEF g
<1> DEFINE h == CHOOSE g : g = Body(g)
<1>5. h = Body(h)
  <2> HIDE DEF Body
  <2>1. \E g : g = Body(g)
    BY <1>4
  <2>2. QED
    BY <2>1
<1>6. WriteBlocks(s, i, n) = h[n]
  BY Zenon DEF WriteBlocks
<1> HIDE DEF h
<1>7. \A k \in 0..n : h[k] = IF k = 0 THEN s ELSE WriteBlock(h[k - 1], i, k - 1)
  BY <1>5, Zenon
<1> HIDE DEF Body
<1> DEFINE Good(u, m) ==
             /\ u \in FsState /\ Follows(s, u) /\ u.mem.halt \in {s.mem.halt, "full"}
             /\ Quiet(s, u, i)
             /\ s.mem.halt # "no" => u.mem.halt # "no"
             /\ u.mem.halt = "no" => Filled(s, u, I, i, m)
           P == {m \in Nat : Good(h[m], m)}
<1>8. 0 \in P
  <2>1. h[0] = s
    BY <1>7
  <2>2. s.mem.halt = "no" => Filled(s, s, I, i, 0)
    BY DEF Filled, Alike
  <2>3. QED
    BY <2>1, <2>2, FollowsSame DEF Quiet
<1>9. ASSUME NEW m \in 1..n, m - 1 \in P PROVE m \in P
  <2> DEFINE u == h[m - 1]
             t == h[m]
             k == m - 1
  <2>1. t = WriteBlock(u, i, k)
    BY <1>7
  <2>2. Good(u, k) /\ k \in IBlock /\ k + 1 = m /\ m \in Nat
    BY <1>0, <1>9
  <2> HIDE DEF t, u, k, P
  <2>3. ASSUME u.mem.halt = "no"
        PROVE  /\ World(s, I) /\ World(u, I) /\ i \in I /\ 0..(k - 1) \subseteq IBlocks(u, i)
               /\ \A j \in I \ {i} : Alike(s, u, j)
    BY <2>2, <2>3 DEF Filled
  <2>4. /\ t \in FsState /\ Follows(u, t) /\ Quiet(u, t, i)
        /\ u.mem.halt # "no" => t.mem.halt # "no"
        /\ t.mem.halt \in {u.mem.halt, "full"}
        /\ t.mem.halt = "no" /\ World(u, I) /\ i \in I /\ 0..(k - 1) \subseteq IBlocks(u, i)
             => Filled(u, t, I, i, k + 1)
    BY <2>1, <2>2, <2>3, WriteBlockIs
  <2>5. Follows(s, t) /\ Quiet(s, t, i)
    BY <2>2, <2>4, FollowsOn, QuietOn
  <2>6. ASSUME t.mem.halt = "no" PROVE Filled(s, t, I, i, m)
    <3>1. Filled(u, t, I, i, m)
      BY <2>2, <2>3, <2>4, <2>6
    <3>2. QED
      BY <2>2, <2>3, <2>4, <2>6, <3>1, FilledOn
  <2>7. Good(t, m)
    BY <2>2, <2>4, <2>5, <2>6
  <2>8. QED
    BY <2>2, <2>7 DEF P, t
<1>10. 0..n \subseteq P
  <2> HIDE DEF P
  <2>1. QED
    BY <1>8, <1>9, UpTo
<1>11. Good(h[n], n)
  BY <1>10
<1>12. QED
  BY <1>6, <1>11

\* What makes a tree consistent that is closed.
LEMMA WholeConsistent ==
  ASSUME NEW s, NEW T, Closed(s, T), Consistent(s, T)
  PROVE  Tidy(s)
<1>1. AllTree(s) \in SUBSET T
  BY TreeInside
<1>2. QED
  BY <1>1, Hereditary DEF Tidy

\* A change that leaves the directories alone, and their inodes in order.
LEMMA SameTree ==
  ASSUME NEW s \in FsState, NEW t \in FsState, NEW T, Whole(s, T),
         \A d \in DirsOf(s, T) : Alike(s, t, d),
         World(t, InodesOf(s, T)),
         \A p \in T : ItemOf(s, p).type = "file" => FileSized(t, ItemOf(s, p).inode)
  PROVE  /\ Whole(t, T) /\ Tidy(t)
         /\ InodesOf(t, T) = InodesOf(s, T) /\ DirsOf(t, T) = DirsOf(s, T)
         /\ \A p \in T : ItemOf(t, p) = ItemOf(s, p)
         /\ \A d \in DirsOf(s, T) : Span(t, d) = Span(s, d)
<1>1. DirsOf(s, T) \subseteq Inode /\ Consistent(s, T)
  BY WholeIs DEF Whole
<1>2. \A p \in T : ItemOf(t, p) = ItemOf(s, p)
  <2> TAKE p \in T
  <2>1. p[1] \in DirsOf(s, T) /\ p \in AllItems(s, p[1])
    BY WholeIs
  <2>2. QED
    BY <1>1, <2>1, SameItems
<1>3. InodesOf(t, T) = InodesOf(s, T) /\ DirsOf(t, T) = DirsOf(s, T)
  BY <1>2 DEF InodesOf, DirsOf
<1>4. \A d \in DirsOf(s, T) : Valid(t, AllItems(t, d)) = Valid(s, AllItems(s, d)) /\ GoodDir(t, d)
  <2> TAKE d \in DirsOf(s, T)
  <2>1. GoodDir(s, d)
    BY <1>1, ConsistentIs
  <2>2. QED
    BY <1>1, <2>1, SameItems, SameBlocks DEF GoodDir
<1>5. Closed(t, T) /\ Supported(t, T)
  BY <1>3, <1>4 DEF Whole, Closed, Supported
<1>6. Consistent(t, T)
  <2>1. /\ \A p, q \in T : ItemOf(t, p).inode = ItemOf(t, q).inode => p = q
        /\ \A p \in T : ItemOf(t, p).inode # RootInode
    BY <1>1, <1>2, ConsistentIs
  <2>2. \A p \in T : ItemOf(t, p).type = "file" => FileSized(t, ItemOf(t, p).inode)
    BY <1>2
  <2>3. Kin(t, T)
    <3>1. \A d \in DirsOf(s, T) : Items(t, d, 0) = Items(s, d, 0)
      <4> TAKE d \in DirsOf(s, T)
      <4>1. 0 \in IBlocks(s, d)
        BY <1>1, ConsistentIs DEF GoodDir, HoldsItems
      <4>2. QED
        BY <1>1, <4>1, SameItems
    <3>2. /\ RootInode \in DirsOf(s, T)
          /\ \A p \in T : ItemOf(s, p).type = "dir" => ItemOf(s, p).inode \in DirsOf(s, T)
      BY WholeIs
    <3>3. QED
      BY <1>2, <3>1, <3>2, KinKept
  <2>4. QED
    BY <1>3, <1>4, <2>1, <2>2, <2>3, ConsistentIs DEF World
<1>7. \A d \in DirsOf(s, T) : Span(t, d) = Span(s, d)
  BY <1>4 DEF Span, Hold, Alike
<1>8. QED
  BY <1>2, <1>3, <1>5, <1>6, <1>7, WholeConsistent DEF Whole
-----------------------------------------------------------------------------
(***************************************************************************)
(* How Counted lasts: a directory gets longer than what it holds only when *)
(* an inode loses its name.                                                *)
(***************************************************************************)
LEMMA LostFinite ==
  ASSUME NEW s \in FsState, NEW T
  PROVE  IsFiniteSet(Lost(s, T)) /\ Cardinality(Lost(s, T)) \in Nat
<1>1. IsFiniteSet(Inode)
  <2> DEFINE M == MAX_INODES
  <2>1. M \in Nat \ {0} /\ 0 \in Int /\ M - 1 \in Int
    BY Sizes
  <2> HIDE DEF M
  <2>2. IsFiniteSet(0..(M - 1))
    BY <2>1, FS_Interval
  <2>3. QED
    BY <2>2 DEF M, Inode
<1>2. Lost(s, T) \in SUBSET Inode
  BY StateIs DEF Lost
<1>3. IsFiniteSet(Lost(s, T))
  BY <1>1, <1>2, FS_Subset
<1>4. QED
  BY <1>3, FS_CardinalityType

\* The directories below A are some of those of T, one of them moved.
LEMMA ExcessMoves ==
  ASSUME NEW s \in FsState, NEW t, NEW T, NEW A, Whole(s, T), NEW p, NEW d \in Int,
         \A c \in DirsOf(t, A) : \A n \in Span(t, c) :
           c \in DirsOf(s, T) /\ n \in Int /\ Move(p, d, c, n) \in Span(s, c)
  PROVE  /\ IsFiniteSet(Excess(t, A))
         /\ Cardinality(Excess(t, A)) \in Nat
         /\ Cardinality(Excess(t, A)) <= Cardinality(Excess(s, T))
<1> DEFINE E == Excess(t, A)
           F == Excess(s, T)
<1>1. IsFiniteSet(F) /\ Cardinality(F) \in Nat
  BY ExcessFinite
<1>2. ASSUME NEW e \in E
      PROVE  \E i : \E n \in Int : e = <<i, n>> /\ <<i, Move(p, d, i, n)>> \in F
  <2>1. PICK i \in DirsOf(t, A) : \E n \in Span(t, i) : e = <<i, n>>
    BY <1>2, ExcessIs
  <2>2. PICK n \in Span(t, i) : e = <<i, n>>
    BY <2>1
  <2>3. i \in DirsOf(s, T) /\ n \in Int /\ Move(p, d, i, n) \in Span(s, i)
    OBVIOUS
  <2>4. <<i, Move(p, d, i, n)>> \in F
    BY <2>3, ExcessIs
  <2>5. QED
    BY <2>2, <2>3, <2>4
<1> HIDE DEF E, F
<1>3. IsFiniteSet(E) /\ Cardinality(E) <= Cardinality(F)
  BY <1>1, <1>2, MovesInto
<1>4. QED
  BY <1>3, FS_CardinalityType DEF E, F

LEMMA CountedMoves ==
  ASSUME NEW s \in FsState, NEW t \in FsState, NEW T, NEW A, Whole(s, T), Counted(s, T),
         NEW p, NEW d \in Int,
         \A c \in DirsOf(t, A) : \A n \in Span(t, c) :
           c \in DirsOf(s, T) /\ n \in Int /\ Move(p, d, c, n) \in Span(s, c),
         Lost(s, T) \subseteq Lost(t, A)
  PROVE  Counted(t, A)
<1> DEFINE x == Cardinality(Excess(t, A))
           y == Cardinality(Excess(s, T))
           z == Cardinality(Lost(s, T))
           w == Cardinality(Lost(t, A))
<1>1. x \in Nat /\ x <= y
  BY ExcessMoves
<1>2. y \in Nat
  BY ExcessFinite
<1>3. z \in Nat /\ w \in Nat /\ z <= w
  <2>1. IsFiniteSet(Lost(t, A)) /\ Lost(s, T) \in SUBSET Lost(t, A) /\ z \in Nat /\ w \in Nat
    BY LostFinite
  <2>2. QED
    BY <2>1, FS_Subset
<1>4. y <= z
  BY DEF Counted
<1> HIDE DEF x, y, z, w
<1>5. x <= w
  BY <1>1, <1>2, <1>3, <1>4
<1>6. QED
  BY <1>5 DEF Counted, x, w

LEMMA SpanInt ==
  ASSUME NEW s \in FsState, NEW T, Whole(s, T), NEW i \in DirsOf(s, T)
  PROVE  Span(s, i) \subseteq Int
<1>1. Cardinality(Hold(s, i)) \in Nat /\ s.mem.inode[i].size \in Nat
  BY TreeSizes
<1>2. QED
  BY <1>1 DEF Span

\* The part of T that can be reached.
LEMMA SmallerTree ==
  ASSUME NEW t, NEW T, Closed(t, T)
  PROVE  /\ AllTree(t) \subseteq T
         /\ InodesOf(t, AllTree(t)) \subseteq InodesOf(t, T)
         /\ DirsOf(t, AllTree(t)) \subseteq DirsOf(t, T)
<1>1. AllTree(t) \subseteq T
  BY TreeInside
<1>2. QED
  BY <1>1 DEF InodesOf, DirsOf

LEMMA SameCounted ==
  ASSUME NEW s \in FsState, NEW t \in FsState, NEW T, Whole(s, T), Counted(s, T),
         \A d \in DirsOf(s, T) : Alike(s, t, d),
         World(t, InodesOf(s, T)),
         \A p \in T : ItemOf(s, p).type = "file" => FileSized(t, ItemOf(s, p).inode),
         s.mem.imap \subseteq t.mem.imap
  PROVE  FsConsistent(t)
<1> DEFINE A == AllTree(t)
<1>1. /\ Whole(t, T) /\ Tidy(t)
      /\ InodesOf(t, T) = InodesOf(s, T) /\ DirsOf(t, T) = DirsOf(s, T)
      /\ \A d \in DirsOf(s, T) : Span(t, d) = Span(s, d)
  BY SameTree
<1>2. /\ InodesOf(t, A) \subseteq InodesOf(s, T) /\ DirsOf(t, A) \subseteq DirsOf(s, T)
  BY <1>1, SmallerTree DEF Whole
<1> HIDE DEF A
<1>3. Lost(s, T) \subseteq Lost(t, A)
  BY <1>2 DEF Lost
<1>4. ASSUME NEW c \in DirsOf(t, A), NEW n \in Span(t, c)
      PROVE  c \in DirsOf(s, T) /\ n \in Int /\ Move(-1, 0, c, n) \in Span(s, c)
  <2>1. c \in DirsOf(s, T) /\ n \in Span(s, c) /\ n \in Int
    BY <1>1, <1>2, SpanInt
  <2>2. n + 0 = n
    BY <2>1
  <2>3. QED
    BY <2>1, <2>2 DEF Move
<1>5. Counted(t, A)
  BY <1>3, <1>4, CountedMoves
<1>6. QED
  BY <1>1, <1>5 DEF A, FsConsistent, Tidy
-----------------------------------------------------------------------------
(***************************************************************************)
(* Between calls the disk has what memory has, save the blocks of files    *)
(* that nobody has written yet.                                            *)
(***************************************************************************)
Unwritten(s) ==
  {s.mem.inode[i].iblocks[0] : i \in {j \in s.mem.imap : s.mem.inode[j].size = 0}}

SavedIn(s) ==
  /\ s.disk[MapInodes] = s.mem.imap
  /\ \A i \in s.mem.imap : s.disk[InodeAt(i)] = s.mem.inode[i]
  /\ MapOn(s.disk) \cap Sent \subseteq s.mem.bmap
  /\ (s.mem.bmap \cap Sent) \ MapOn(s.disk) \subseteq Unwritten(s)

\* The inode i is on the disk as well, and the map of the blocks if it has changed.
Stored(s, t, i) ==
  Quiet(s, t, i) /\ (t.mem.halt = "no" =>
    /\ t.disk[InodeAt(i)] = t.mem.inode[i]
    /\ \/ MapSaved(t)
       \/ SameMap(s, t) /\ s.mem.inode[i].size # 0)

LEMMA StoredSaved ==
  ASSUME NEW s \in FsState, NEW t, NEW i, Stored(s, t, i), SavedIn(s), t.mem.halt = "no"
  PROVE  SavedIn(t)
<1>1. /\ t.mem.imap = s.mem.imap /\ t.disk[MapInodes] = s.disk[MapInodes]
      /\ s.mem.imap \subseteq Inode
      /\ \A j \in Inode \ {i} :
           t.mem.inode[j] = s.mem.inode[j] /\ t.disk[InodeAt(j)] = s.disk[InodeAt(j)]
      /\ t.disk[InodeAt(i)] = t.mem.inode[i]
  BY StateIs DEF Stored, Quiet
<1>2. t.disk[MapInodes] = t.mem.imap
  BY <1>1 DEF SavedIn
<1>3. \A j \in t.mem.imap : t.disk[InodeAt(j)] = t.mem.inode[j]
  BY <1>1 DEF SavedIn
<1>4. CASE MapSaved(t)
  BY <1>2, <1>3, <1>4 DEF SavedIn, MapSaved
<1>5. CASE SameMap(s, t) /\ s.mem.inode[i].size # 0
  <2>1. t.mem.bmap = s.mem.bmap /\ MapOn(t.disk) = MapOn(s.disk)
    BY <1>5 DEF SameMap
  <2>2. \A j \in s.mem.imap : s.mem.inode[j].size = 0 => t.mem.inode[j] = s.mem.inode[j]
    BY <1>1, <1>5
  <2>3. Unwritten(s) \subseteq Unwritten(t)
    BY <1>1, <2>2 DEF Unwritten
  <2>4. QED
    BY <1>2, <1>3, <2>1, <2>3 DEF SavedIn
<1>6. QED
  BY <1>4, <1>5 DEF Stored

LEMMA MapQuiet ==
  ASSUME NEW s \in FsState, NEW i
  PROVE  LET t == free_map_update(s)
         IN  /\ Quiet(s, t, i)
             /\ t.mem.halt = "no" =>
                  MapSaved(t) /\ \A j \in Inode : t.disk[InodeAt(j)] = s.disk[InodeAt(j)]
<1> DEFINE t == free_map_update(s)
<1>1. t.mem = s.mem /\ (s.mem.halt = "no" => MapSaved(t) /\ OnlyMap(s, t))
  BY MapIs
<1> HIDE DEF t
<1>2. QED
  BY <1>1, OnlyMapIs DEF Quiet, t
-----------------------------------------------------------------------------
\* An inode of a whole tree, or one more, that is no directory.
FileOf(s, T, i) == i \in Inode \ DirsOf(s, T) /\ World(s, InodesOf(s, T) \cup {i})

LEMMA WholeWorld ==
  ASSUME NEW s, NEW T, Whole(s, T)
  PROVE  World(s, InodesOf(s, T))
BY ConsistentIs DEF Whole, World

\* files_write on a file of a consistent file system leaves it consistent.
LEMMA FilesWriteIs ==
  ASSUME NEW s \in FsState, NEW T, s.mem.halt = "no" => Whole(s, T) /\ Counted(s, T),
         NEW i \in Inode, s.mem.halt = "no" => FileOf(s, T, i), NEW size \in Nat, Fits(size)
  PROVE  LET t == files_write(s, i, size)
         IN  /\ t \in FsState /\ Follows(s, t) /\ t.mem.halt \in {s.mem.halt, "full"}
             /\ s.mem.halt # "no" => t.mem.halt # "no"
             /\ t.mem.halt = "no" => FsConsistent(t) /\ Stored(s, t, i)
<1> DEFINE n == size \div BYTES_SECTOR + 1
           I == InodesOf(s, T) \cup {i}
           u == WriteBlocks(s, i, n)
           x == [u.mem.inode[i] EXCEPT !.size = size]
           v == [u EXCEPT !.mem.inode[i].size = size]
           w == inodes_rw_disk(v, i)
           t == free_map_update(w)
<1>1. n \in Nat \ {0} /\ n - 1 = size \div BYTES_SECTOR /\ n - 1 \in IBlock
  BY Sizes DEF Fits, IBlock
<1>2. s.mem.halt = "no" => World(s, I) /\ i \in I
  BY DEF FileOf
<1> HIDE DEF n, I
<1>3. /\ u \in FsState /\ Follows(s, u) /\ u.mem.halt \in {s.mem.halt, "full"}
      /\ s.mem.halt # "no" => u.mem.halt # "no"
      /\ u.mem.halt = "no" => Filled(s, u, I, i, n)
      /\ Quiet(s, u, i)
  BY <1>1, <1>2, WriteBlocksIs
<1> HIDE DEF u
<1>4. /\ v \in FsState /\ Follows(u, v) /\ v.disk = u.disk
      /\ v.mem.imap = u.mem.imap /\ v.mem.bmap = u.mem.bmap /\ v.mem.halt = u.mem.halt
      /\ v.mem.inode = [u.mem.inode EXCEPT ![i] = x]
      /\ x.size = size /\ x.iblocks = u.mem.inode[i].iblocks
  BY <1>3, SizeSet
<1> HIDE DEF v, x
<1>10. Quiet(u, v, i)
  BY <1>3, <1>4, NodeQuiet
<1>5. /\ w \in FsState /\ Follows(v, w) /\ w.mem = v.mem
      /\ v.mem.halt # "no" => w = v
      /\ v.mem.halt = "no" => w.disk = [v.disk EXCEPT ![InodeAt(i)] = v.mem.inode[i]]
  BY <1>4, InodeRwIs
<1>11. /\ Quiet(v, w, i)
       /\ v.mem.halt = "no" => w.disk[InodeAt(i)] = w.mem.inode[i]
  BY <1>4, InodeRwQuiet
<1> HIDE DEF w
<1>6. /\ t \in FsState /\ Follows(w, t) /\ t.mem = w.mem
      /\ w.mem.halt # "no" => t = w
      /\ w.mem.halt = "no" => OnlyMap(w, t)
  BY <1>5, MapIs
<1>12. /\ Quiet(w, t, i)
       /\ t.mem.halt = "no" =>
            MapSaved(t) /\ t.disk[InodeAt(i)] = w.disk[InodeAt(i)]
  BY <1>5, MapQuiet
<1> HIDE DEF t
<1>13. Stored(s, t, i)
  <2>1. Quiet(s, t, i)
    BY <1>3, <1>10, <1>11, <1>12, QuietOn
  <2>2. t.mem.halt = "no" => t.disk[InodeAt(i)] = t.mem.inode[i]
    BY <1>5, <1>6, <1>11, <1>12
  <2>3. QED
    BY <1>12, <2>1, <2>2 DEF Stored
<1>7. Follows(s, t) /\ t.mem.halt \in {s.mem.halt, "full"} /\ t.mem.halt = u.mem.halt
  BY <1>3, <1>4, <1>5, <1>6, FollowsOn
<1>8. ASSUME t.mem.halt = "no" PROVE FsConsistent(t)
  <2>1. s.mem.halt = "no" /\ Whole(s, T) /\ Counted(s, T) /\ FileOf(s, T, i) /\ World(s, I) /\ i \in I
    BY <1>2, <1>3, <1>7, <1>8
  <2>2. Filled(s, u, I, i, n)
    BY <1>3, <1>7, <1>8
  <2>3. \A c \in Block : t.disk[BlockAt(c)] = u.disk[BlockAt(c)]
    <3>1. v.disk \in DiskType /\ w.disk \in DiskType
      BY <1>4, <1>5, StateIs
    <3>2. \A c \in Block : w.disk[BlockAt(c)] = v.disk[BlockAt(c)]
      BY <1>5, <3>1, SectorsApart, Sectors DEF DiskType
    <3>3. \A c \in Block : t.disk[BlockAt(c)] = w.disk[BlockAt(c)]
      BY <1>6, <1>7, <1>8, OnlyMapIs
    <3>4. QED
      BY <1>4, <3>2, <3>3
  <2>4. Rewrites(u, t, i, 0) /\ t.mem.inode[i].size = size
    <3>1. u.mem.inode \in [Inode -> InodeType]
      BY <1>3, StateIs
    <3>2. /\ t.mem.inode = [u.mem.inode EXCEPT ![i] = x]
          /\ t.mem.imap = u.mem.imap /\ t.mem.bmap = u.mem.bmap
      BY <1>4, <1>5, <1>6
    <3>3. t.mem.inode[i] = x /\ \A j \in Inode \ {i} : t.mem.inode[j] = u.mem.inode[j]
      BY <3>1, <3>2
    <3>4. QED
      BY <1>4, <2>3, <3>2, <3>3 DEF Rewrites
  <2>5. 0 \in IBlocks(u, i)
    BY <1>1, <2>2 DEF Filled
  <2>6. /\ World(t, I) /\ \A j \in I \ {i} : Alike(u, t, j)
        /\ IBlocks(t, i) = IBlocks(u, i)
    BY <1>3, <1>6, <2>1, <2>2, <2>4, <2>5, RewritesIs DEF Filled
  <2>7. Filled(u, t, I, i, n)
    BY <2>2, <2>6 DEF Filled
  <2>8. Filled(s, t, I, i, n)
    <3>1. u \in FsState /\ World(s, I) /\ World(u, I) /\ \A j \in I \ {i} : Alike(s, u, j)
      BY <1>3, <2>1, <2>2 DEF Filled
    <3>2. QED
      BY <2>7, <3>1, FilledOn
  <2>9. FileSized(t, i)
    BY <1>1, <2>4, <2>8 DEF Filled, FileSized
  <2>10. \A p \in T : ItemOf(s, p).type = "file" => FileSized(t, ItemOf(s, p).inode)
    <3> TAKE p \in T
    <3> HAVE ItemOf(s, p).type = "file"
    <3> DEFINE j == ItemOf(s, p).inode
    <3>1. j \in InodesOf(s, T) /\ j \in Inode
      BY <2>1, WholeIs
    <3>2. FileSized(s, j)
      BY <2>1, ConsistentIs DEF Whole
    <3>3. CASE j # i
      <4>1. Alike(s, t, j)
        BY <2>8, <3>1, <3>3 DEF Filled, I
      <4> HIDE DEF j
      <4>2. FileSized(t, j)
        BY <1>6, <3>1, <3>2, <4>1, SameBlocks
      <4>3. QED
        BY <4>2 DEF j
    <3>4. CASE j = i
      BY <2>9, <3>4
    <3>5. QED
      BY <3>3, <3>4
  <2>11. \A d \in DirsOf(s, T) : Alike(s, t, d)
    BY <2>1, <2>8, WholeIs DEF FileOf, Filled, I
  <2>12. World(t, InodesOf(s, T))
    BY <2>6 DEF World, I
  <2>13. s.mem.imap \subseteq t.mem.imap
    BY <1>8, <1>13 DEF Stored, Quiet
  <2>14. QED
    BY <1>6, <2>1, <2>10, <2>11, <2>12, <2>13, SameCounted
<1>9. QED
  BY <1>3, <1>6, <1>7, <1>8, <1>13 DEF t, w, v, u, n, files_write
-----------------------------------------------------------------------------
LEMMA NotInvalid ==
  ASSUME NEW x, x.type # "invalid"
  PROVE  x # Invalid
<1>1. Invalid.type = "invalid"
  BY EntryIs
<1>2. QED
  BY <1>1, Zenon

LEMMA DotNames ==
  /\ \A name \in Name : name \notin {"", ".", ".."}
  /\ PathName = Name \cup {".", ".."} /\ "" \notin PathName
BY NameAssumption DEF PathName, Dots

\* The first two entries of a directory.
LEMMA DotItems ==
  ASSUME NEW s \in FsState, NEW T, Whole(s, T), NEW i \in DirsOf(s, T)
  PROVE  /\ 0 \in InSize(s, i) /\ 1 \in InSize(s, i)
         /\ ItemAt(s, i, 0) = Items(s, i, 0)[0] /\ ItemAt(s, i, 1) = Items(s, i, 0)[1]
         /\ Items(s, i, 0)[0] = Entry("dir", i, ".")
         /\ \E j \in DirsOf(s, T) \cup {-1} : Items(s, i, 0)[1] = Entry("dir", j, "..")
<1> DEFINE M == MAX_DIRITEM_PER_BLOCK
<1>1. HoldsItems(s, i) /\ DirSized(s, i) /\ i \in Inode
  BY WholeIs, ConsistentIs DEF Whole, GoodDir
<1>2. M \in Nat \ {0, 1}
  BY Sizes
<1>3. 0 \div M = 0 /\ 0 % M = 0 /\ 1 \div M = 0 /\ 1 % M = 1
  <2> HIDE DEF M
  <2>1. QED
    BY <1>2
<1>4. s.mem.inode[i].size \in Nat /\ s.mem.inode[i].size >= 2
  BY <1>1, LevelIs DEF DirSized
<1>5. 0 \in IBlocks(s, i) /\ Items(s, i, 0)[0] = Entry("dir", i, ".")
  BY <1>1 DEF HoldsItems
<1>6. 0 \in InSize(s, i) /\ 1 \in InSize(s, i)
  BY <1>3, <1>4, <1>5 DEF InSize
<1>7. ItemAt(s, i, 0) = Items(s, i, 0)[0] /\ ItemAt(s, i, 1) = Items(s, i, 0)[1]
  BY <1>3 DEF ItemAt
<1>8. \E j \in DirsOf(s, T) \cup {-1} : Items(s, i, 0)[1] = Entry("dir", j, "..")
  BY ParentIs DEF HasParent
<1>9. QED
  BY <1>5, <1>6, <1>7, <1>8

\* The least match is found.
LEMMA FoundAtIs ==
  ASSUME NEW s \in FsState, NEW i \in Inode, NEW name
  PROVE  /\ FoundAt(s, i, name) = -1 <=> Matches(s, i, name) = {}
         /\ FoundAt(s, i, name) # -1 =>
              /\ FoundAt(s, i, name) \in Matches(s, i, name) /\ FoundAt(s, i, name) \in Nat
              /\ \A z \in Matches(s, i, name) : FoundAt(s, i, name) <= z
<1> DEFINE Ms == Matches(s, i, name)
           x == Min(Ms)
<1>1. Ms \in SUBSET Nat
  BY InSizeIs DEF Matches
<1>2. CASE Ms = {}
  BY <1>2 DEF FoundAt
<1>3. CASE Ms # {}
  <2>1. PICK y \in Ms : \A z \in Ms : y <= z
    BY <1>1, <1>3, Least, Zenon
  <2>2. x \in Ms /\ \A z \in Ms : x <= z
    BY <2>1, Zenon DEF Min
  <2>3. FoundAt(s, i, name) = x
    BY <1>3 DEF FoundAt
  <2> HIDE DEF x, Ms
  <2>4. x \in Nat /\ x # -1
    BY <1>1, <2>2
  <2>5. QED
    BY <1>3, <2>2, <2>3, <2>4 DEF Ms
<1>4. QED
  BY <1>2, <1>3

\* No directory is too long to be read to its end.
LEMMA ReadsAll ==
  ASSUME NEW s \in FsState, NEW T, Whole(s, T), Counted(s, T), NEW i \in DirsOf(s, T), NEW x
  PROVE  ReadAll(s, i, x) = s
<1>1. i \in Inode /\ Owned(s, i) \subseteq s.mem.bmap
  BY WholeIs, ConsistentIs DEF Whole, Sound
<1>2. {iblock_get(s, i, k) : k \in ReadUpTo(s, i, x)} \subseteq s.mem.bmap
  <2>1. \A k \in ReadUpTo(s, i, x) : k \in IBlocks(s, i)
    BY DEF ReadUpTo
  <2>2. QED
    BY <1>1, <2>1, OwnedIs
<1>3. ~TooLong(s, i)
  <2>1. s.mem.inode[i].size \in Nat
    BY <1>1, LevelIs
  <2>2. s.mem.inode[i].size \div MAX_DIRITEM_PER_BLOCK \in Nat
    BY <2>1, Sizes, DivMod
  <2>3. s.mem.inode[i].size \div MAX_DIRITEM_PER_BLOCK < MAX_DIRECT
    BY DirsShort
  <2> HIDE DEF MAX_DIRECT
  <2>4. s.mem.inode[i].size \div MAX_DIRITEM_PER_BLOCK \in IBlock
    BY <2>2, <2>3, Sizes DEF IBlock
  <2>5. QED
    BY <2>4 DEF TooLong
<1>4. QED
  BY <1>2, <1>3 DEF ReadAll, ReadBlocks

\* A search in a directory reads only blocks in use, and finds a seen item of
\* that name, or there is none.
LEMMA SearchIs ==
  ASSUME NEW s \in FsState, NEW T, Whole(s, T), NEW i \in DirsOf(s, T), NEW name \in Name
  PROVE  /\ FoundAt(s, i, name) = -1 <=> Matches(s, i, name) = {}
         /\ FoundAt(s, i, name) # -1 =>
              \E x, p : /\ x = FoundAt(s, i, name) /\ x \in InSize(s, i)
                        /\ p = <<i, x \div MAX_DIRITEM_PER_BLOCK, x % MAX_DIRITEM_PER_BLOCK>>
                        /\ p \in T /\ p \in SeenItems(s, i)
                        /\ ItemOf(s, p) = ItemAt(s, i, x) /\ ItemOf(s, p).name = name
<1>0. i \in Inode /\ HoldsItems(s, i)
  BY WholeIs, ConsistentIs DEF Whole, GoodDir
<1> DEFINE x == FoundAt(s, i, name)
<1>1. /\ x = -1 <=> Matches(s, i, name) = {}
      /\ x # -1 => x \in Matches(s, i, name)
  BY <1>0, FoundAtIs
<1> HIDE DEF x
<1>2. ASSUME x # -1
      PROVE  \E p : /\ x \in InSize(s, i)
                    /\ p = <<i, x \div MAX_DIRITEM_PER_BLOCK, x % MAX_DIRITEM_PER_BLOCK>>
                    /\ p \in T /\ p \in SeenItems(s, i)
                    /\ ItemOf(s, p) = ItemAt(s, i, x) /\ ItemOf(s, p).name = name
  <2>5. x \in InSize(s, i) /\ ItemAt(s, i, x).name = name
    BY <1>1, <1>2 DEF Matches
  <2> DEFINE k == x \div MAX_DIRITEM_PER_BLOCK
             j == x % MAX_DIRITEM_PER_BLOCK
             p == <<i, k, j>>
  <2>6. x \in Nat /\ k \in IBlocks(s, i) /\ j \in Slot /\ k * MAX_DIRITEM_PER_BLOCK + j = x
    BY <1>0, <2>5, InSizeIs
  <2>7. ItemAt(s, i, x) = Items(s, i, k)[j]
    BY DEF ItemAt
  <2> HIDE DEF k, j
  <2>8. p[1] = i /\ p[2] = k /\ p[3] = j
    OBVIOUS
  <2>9. ItemOf(s, p) = ItemAt(s, i, x)
    BY <2>7, <2>8 DEF ItemOf
  <2>10. name \notin {"", ".", ".."}
    BY DotNames
  <2>11. ~(k = 0 /\ j \in {0, 1})
    <3>1. /\ Items(s, i, 0)[0] = Entry("dir", i, ".")
          /\ \E q \in DirsOf(s, T) \cup {-1} : Items(s, i, 0)[1] = Entry("dir", q, "..")
      BY DotItems
    <3>2. Items(s, i, 0)[0].name = "." /\ Items(s, i, 0)[1].name = ".."
      BY <3>1 DEF Entry
    <3>3. QED
      BY <2>5, <2>7, <2>10, <3>2
  <2>12. p \in AllItems(s, i)
    BY <2>6, <2>11, PlacesIs
  <2>13. ItemOf(s, p).type \in {"file", "dir"}
    <3>1. Items(s, i, k)[j].type # "invalid"
      <4>1. Invalid.name = ""
        BY EntryIs
      <4>2. QED
        BY <1>0, <2>5, <2>6, <2>7, <2>10, <4>1, ItemsIs
    <3>2. QED
      BY <1>0, <2>6, <2>7, <2>9, <3>1, ItemsIs
  <2>14. p \in T
    BY <2>12, <2>13 DEF Whole, Closed, Valid
  <2>15. p \in SeenItems(s, i)
    BY <2>5, <2>6, <2>8, <2>12 DEF SeenItems
  <2>16. QED
    BY <2>5, <2>9, <2>14, <2>15 DEF k, j
<1>3. QED
  BY <1>1, <1>2 DEF x

\* "." and ".." are in every directory.
LEMMA DotSearch ==
  ASSUME NEW s \in FsState, NEW T, Whole(s, T), NEW i \in DirsOf(s, T), NEW name \in {".", ".."}
  PROVE  /\ FoundAt(s, i, name) # -1
         /\ \E j \in DirsOf(s, T) \cup {-1} :
              ItemAt(s, i, FoundAt(s, i, name)) = Entry("dir", j, name)
<1> DEFINE x == FoundAt(s, i, name)
<1>1. i \in Inode
  BY WholeIs
<1>2. PICK j \in DirsOf(s, T) \cup {-1} :
        /\ 0 \in InSize(s, i) /\ 1 \in InSize(s, i)
        /\ ItemAt(s, i, 0) = Entry("dir", i, ".") /\ ItemAt(s, i, 1) = Entry("dir", j, "..")
  BY DotItems
<1>3. ItemAt(s, i, 0).name = "." /\ ItemAt(s, i, 1).name = ".."
  BY <1>2 DEF Entry
<1>4. /\ x = -1 <=> Matches(s, i, name) = {}
      /\ x # -1 => /\ x \in Matches(s, i, name) /\ x \in Nat
                   /\ \A z \in Matches(s, i, name) : x <= z
  BY <1>1, FoundAtIs
<1> HIDE DEF x
<1>5. CASE name = "."
  <2>1. 0 \in Matches(s, i, name)
    BY <1>2, <1>3, <1>5 DEF Matches
  <2>2. x = 0
    BY <1>4, <2>1
  <2>3. QED
    BY <1>2, <1>5, <2>2 DEF x
<1>6. CASE name = ".."
  <2>1. 1 \in Matches(s, i, name) /\ 0 \notin Matches(s, i, name)
    BY <1>2, <1>3, <1>6 DEF Matches
  <2>2. x = 1
    BY <1>4, <2>1
  <2>3. QED
    BY <1>2, <1>6, <2>2 DEF x
<1>7. QED
  BY <1>5, <1>6

\* What a search can find in a tree.
FoundItems(s, T) ==
  {Invalid, Root} \cup {ItemOf(s, p) : p \in T}
    \cup {Entry("dir", i, name) : i \in DirsOf(s, T) \cup {-1}, name \in {".", ".."}}

\* A search ends so, or where no inode is, or it went through a file.
Got(s, x) == [s |-> s, item |-> x, file |-> FALSE]

Stuck(s) == [s |-> Panic(s, "inode"), item |-> Invalid, file |-> FALSE]

\* What is in a block, be it a directory's or not.
AnyItem == EntryType \cup {Lba(b) : b \in {0} \cup Block}

Via(u, x) == [s |-> u, item |-> x, file |-> TRUE]

ThroughFile == {Via(u, x) : u \in FsState, x \in AnyItem}

LEMMA GotIs ==
  ASSUME NEW s, NEW x
  PROVE  /\ Got(s, x).s = s /\ Got(s, x).item = x /\ Got(s, x).file = FALSE
         /\ Stuck(s).s = Panic(s, "inode") /\ Stuck(s).item = Invalid /\ Stuck(s).file = FALSE
BY DEF Got, Stuck

\* What a found item can be.
LEMMA FoundIs ==
  ASSUME NEW s \in FsState, NEW T, Whole(s, T), NEW x \in FoundItems(s, T)
  PROVE  /\ x.type \in {"invalid", "file", "dir"} /\ (x.type = "invalid" <=> x = Invalid)
         /\ x.type = "dir" => x.inode \in DirsOf(s, T) \cup {-1}
         /\ x.type = "file" => x.inode \in Inode
         /\ DirsOf(s, T) \subseteq Inode
<1>1. /\ RootInode \in DirsOf(s, T) /\ Root.type = "dir" /\ Root.inode = RootInode
      /\ Invalid.type = "invalid"
  <2>1. RootInode \in DirsOf(s, T)
    BY WholeIs
  <2>2. Root.type = "dir" /\ Root.inode = RootInode
    BY DEF Root, Entry
  <2>3. QED
    BY <2>1, <2>2, EntryIs
<1>2. ASSUME NEW p \in T, x = ItemOf(s, p)
      PROVE  /\ x.type \in {"file", "dir"}
             /\ x.type = "dir" => x.inode \in DirsOf(s, T)
             /\ x.inode \in Inode
  BY <1>2, WholeIs
<1>3. ASSUME NEW i \in DirsOf(s, T) \cup {-1}, NEW name, x = Entry("dir", i, name)
      PROVE  x.type = "dir" /\ x.inode = i
  BY <1>3 DEF Entry
<1>4. DirsOf(s, T) \subseteq Inode
  BY WholeIs
<1>5. QED
  BY <1>1, <1>2, <1>3, <1>4 DEF FoundItems

\* A search in a directory of the tree.
LEMMA DescendDir ==
  ASSUME NEW s \in FsState, NEW T, Whole(s, T), Counted(s, T), NEW x, x.type = "dir",
         x.inode \in DirsOf(s, T), NEW name \in PathName
  PROVE  LET y == IF FoundAt(s, x.inode, name) = -1 THEN Invalid
                  ELSE ItemAt(s, x.inode, FoundAt(s, x.inode, name))
         IN  Descend(Got(s, x), name) = Got(s, y) /\ y \in FoundItems(s, T)
<1> DEFINE g == Got(s, x)
           i == x.inode
           y == IF FoundAt(s, i, name) = -1 THEN Invalid ELSE ItemAt(s, i, FoundAt(s, i, name))
<1>1. g.s = s /\ g.item = x /\ g.file = FALSE /\ x # Invalid
  <2>1. x # Invalid
    BY NotInvalid
  <2>2. QED
    BY <2>1, GotIs
<1> HIDE DEF g, i
<1>2. i \in DirsOf(s, T) /\ i \in Inode
  BY WholeIs DEF i
<1>3. y \in FoundItems(s, T)
  <2>1. CASE FoundAt(s, i, name) = -1
    BY <2>1 DEF FoundItems
  <2>2. CASE FoundAt(s, i, name) # -1 /\ name \in Name
    <3>1. PICK z, p : z = FoundAt(s, i, name) /\ p \in T /\ ItemOf(s, p) = ItemAt(s, i, z)
      BY <1>2, <2>2, SearchIs
    <3>2. QED
      BY <2>2, <3>1 DEF FoundItems
  <2>3. CASE FoundAt(s, i, name) # -1 /\ name \in {".", ".."}
    <3>1. PICK j \in DirsOf(s, T) \cup {-1} :
            ItemAt(s, i, FoundAt(s, i, name)) = Entry("dir", j, name)
      BY <1>2, <2>3, DotSearch
    <3>2. QED
      BY <2>3, <3>1 DEF FoundItems
  <2>4. QED
    BY <2>1, <2>2, <2>3, DotNames
<1>4. diritem_find_sub(s, i, name) = s
  BY <1>2, ReadsAll DEF diritem_find_sub
<1>5. Descend(g, name) = [s |-> diritem_find_sub(s, i, name), item |-> y, file |-> FALSE]
  BY <1>1, <1>2, Zenon DEF Descend, i
<1>6. Descend(g, name) = Got(s, y)
  BY <1>4, <1>5 DEF Got
<1>7. QED
  BY <1>3, <1>6 DEF g, i

\* A search goes on in a file's data.
LEMMA DescendFile ==
  ASSUME NEW s \in FsState, NEW x \in AnyItem, NEW file \in BOOLEAN, NEW name,
         file \/ (x.type = "file" /\ x.inode \in Inode)
  PROVE  Descend([s |-> s, item |-> x, file |-> file], name) \in ThroughFile
<1> DEFINE g == [s |-> s, item |-> x, file |-> file]
           i == x.inode
           y == IF FoundAt(s, i, name) = -1 THEN Invalid ELSE ItemAt(s, i, FoundAt(s, i, name))
<1>1. g.s = s /\ g.item = x /\ g.file = file
  OBVIOUS
<1>2. Invalid \in AnyItem
  BY DEF AnyItem, EntryType
<1>3. Panic(s, "inode") \in FsState
  BY PanicIs DEF Halts
<1>4. CASE x = Invalid
  <2>1. Descend(g, name) = g
    BY <1>1, <1>4 DEF Descend
  <2>2. x.type = "invalid"
    BY <1>4, EntryIs
  <2>3. file
    BY <2>2
  <2>4. Descend(g, name) = [s |-> s, item |-> x, file |-> TRUE]
    BY <2>1, <2>3, Zenon
  <2>5. Descend(g, name) = Via(s, x)
    BY <2>4, Zenon DEF Via
  <2>6. QED
    BY <2>5 DEF ThroughFile
<1>5. CASE x # Invalid /\ i \notin Inode
  <2>1. Descend(g, name) = [g EXCEPT !.s = Panic(g.s, "inode"), !.item = Invalid]
    BY <1>1, <1>5 DEF Descend
  <2>2. file = TRUE
    BY <1>5
  <2> DEFINE u == Panic(s, "inode")
             v == Invalid
  <2> HIDE DEF u, v
  <2>3. Descend(g, name) = [s |-> u, item |-> v, file |-> file]
    BY <2>1 DEF u, v
  <2>4. Descend(g, name) = [s |-> u, item |-> v, file |-> TRUE]
    BY <2>2, <2>3, Zenon
  <2>5. u \in FsState /\ v \in AnyItem
    BY <1>2, <1>3 DEF u, v
  <2>6. Descend(g, name) = Via(u, v)
    BY <2>4, Zenon DEF Via
  <2>7. QED
    BY <2>5, <2>6 DEF ThroughFile
<1>6. CASE x # Invalid /\ i \in Inode
  <2> HIDE DEF i, g
  <2>1. Descend(g, name) = [s |-> diritem_find_sub(s, i, name), item |-> y,
                            file |-> file \/ x.type = "file"]
    BY <1>1, <1>6, Zenon DEF Descend, i
  <2>2. diritem_find_sub(s, i, name) \in FsState
    <3> DEFINE blocks == {iblock_get(s, i, k) : k \in ReadUpTo(s, i, FoundAt(s, i, name))}
               u == ReadBlocks(s, blocks)
    <3>1. u \in FsState
      BY PanicIs DEF ReadBlocks, Halts
    <3> HIDE DEF u, blocks
    <3>2. Panic(u, "index") \in FsState
      BY <3>1, PanicIs DEF Halts
    <3>3. QED
      BY <3>1, <3>2 DEF diritem_find_sub, ReadAll, u, blocks
  <2>3. y \in AnyItem
    <3> DEFINE z == FoundAt(s, i, name)
               k == z \div MAX_DIRITEM_PER_BLOCK
               j == z % MAX_DIRITEM_PER_BLOCK
    <3> SUFFICES ASSUME z # -1 PROVE ItemAt(s, i, z) \in AnyItem
      BY <1>2
    <3>1. z \in InSize(s, i)
      BY <1>6, FoundAtIs DEF Matches
    <3> HIDE DEF z
    <3>2. k \in IBlocks(s, i) /\ j \in Slot
      BY <1>6, <3>1, InSizeIs
    <3>3. ItemAt(s, i, z) = Items(s, i, k)[j]
      BY DEF ItemAt
    <3> HIDE DEF k, j
    <3>4. Items(s, i, k) \in BlockType
      <4>1. iblock_get(s, i, k) \in Block
        BY <1>6, <3>2, OwnedIs
      <4>2. QED
        BY <4>1, StateIs DEF Items
    <3>5. CASE Items(s, i, k) \in [Slot -> EntryType]
      BY <3>2, <3>3, <3>5 DEF AnyItem
    <3>6. CASE Items(s, i, k) \in [DOMAIN NoIndex -> {Lba(b) : b \in {0} \cup Block}]
      <4>1. j \in DOMAIN NoIndex
        BY <3>2, Sizes DEF Slot, NoIndex
      <4> DEFINE V == {Lba(b) : b \in {0} \cup Block}
                 D == DOMAIN NoIndex
      <4> HIDE DEF V, D
      <4>2. Items(s, i, k) \in [D -> V] /\ j \in D
        BY <3>6, <4>1 DEF V, D
      <4>3. Items(s, i, k)[j] \in V
        BY <4>2
      <4>4. QED
        BY <3>3, <4>3 DEF AnyItem, V
    <3>7. QED
      BY <3>4, <3>5, <3>6 DEF BlockType
  <2>4. (file \/ x.type = "file") = TRUE
    BY Zenon
  <2> HIDE DEF y
  <2>5. Descend(g, name) = [s |-> diritem_find_sub(s, i, name), item |-> y, file |-> TRUE]
    BY <2>1, <2>4, Zenon
  <2> DEFINE u == diritem_find_sub(s, i, name)
  <2>6. Descend(g, name) = Via(u, y)
    BY <2>5, Zenon DEF Via
  <2> HIDE DEF u
  <2>7. Descend(g, name) \in ThroughFile
    BY <2>2, <2>3, <2>6 DEF ThroughFile, u
  <2>8. QED
    BY <2>7 DEF g
<1>7. QED
  BY <1>4, <1>5, <1>6

\* What a search comes to.
Ends(s, T) == {Got(s, x) : x \in FoundItems(s, T)} \cup {Stuck(s)} \cup ThroughFile

\* A search that is no longer in directories.
LEMMA DescendElse ==
  ASSUME NEW s \in FsState, NEW T, Whole(s, T), NEW name
  PROVE  /\ Descend(Got(s, Invalid), name) = Got(s, Invalid)
         /\ Descend(Stuck(s), name) = Stuck(s)
         /\ \A x : x.type = "dir" /\ x.inode = -1 => Descend(Got(s, x), name) = Stuck(s)
         /\ \A x \in FoundItems(s, T) : x.type = "file" => Descend(Got(s, x), name) \in ThroughFile
         /\ \A g \in ThroughFile : Descend(g, name) \in ThroughFile
<1>1. Descend(Got(s, Invalid), name) = Got(s, Invalid) /\ Descend(Stuck(s), name) = Stuck(s)
  BY DEF Descend, Got, Stuck
<1>2. ASSUME NEW x, x.type = "dir", x.inode = -1 PROVE Descend(Got(s, x), name) = Stuck(s)
  <2>1. x # Invalid /\ x.inode \notin Inode
    BY <1>2, NotInvalid DEF Inode
  <2> DEFINE no == FALSE
  <2>2. PICK file : file = no
    BY Zenon
  <2> DEFINE g == [s |-> s, item |-> x, file |-> file]
             u == Panic(s, "inode")
             v == Invalid
  <2>3. Descend(g, name) = [g EXCEPT !.s = u, !.item = v]
    BY <2>1 DEF Descend
  <2> HIDE DEF u, v
  <2>4. Descend(g, name) = [s |-> u, item |-> v, file |-> file]
    BY <2>3
  <2>5. Descend([s |-> s, item |-> x, file |-> FALSE], name) = [s |-> u, item |-> v, file |-> FALSE]
    BY <2>2, <2>4, Zenon
  <2>6. QED
    BY <2>5, Zenon DEF Stuck, Got, u, v
<1>3. ASSUME NEW x \in FoundItems(s, T), x.type = "file"
      PROVE  Descend(Got(s, x), name) \in ThroughFile
  <2>1. x.inode \in Inode
    BY <1>3, FoundIs
  <2>2. x \in AnyItem
    <3>0. Root.type # "file" /\ Invalid.type # "file" /\ \A i, n : Entry("dir", i, n).type # "file"
      BY DEF Root, Invalid, Entry
    <3>1. PICK p \in T : x = ItemOf(s, p)
      BY <1>3, <3>0 DEF FoundItems
    <3>2. p[1] \in DirsOf(s, T) /\ p \in AllItems(s, p[1])
      BY <3>1, WholeIs
    <3>3. PICK k \in IBlocks(s, p[1]), j \in Slot : p = <<p[1], k, j>>
      BY <3>2, PlacesIs
    <3>4. p[1] \in Inode /\ HoldsItems(s, p[1])
      BY <3>2, WholeIs, ConsistentIs DEF Whole, GoodDir
    <3>5. Items(s, p[1], k) \in [Slot -> EntryType]
      BY <3>3, <3>4, ItemsIs
    <3>6. ItemOf(s, p) = Items(s, p[1], k)[j]
      BY <3>3 DEF ItemOf
    <3>7. QED
      BY <3>1, <3>3, <3>5, <3>6 DEF AnyItem
  <2>3. QED
    BY <1>3, <2>1, <2>2, DescendFile DEF Got
<1>4. ASSUME NEW g \in ThroughFile PROVE Descend(g, name) \in ThroughFile
  <2>1. PICK u \in FsState, x \in AnyItem : g = Via(u, x)
    BY DEF ThroughFile
  <2>2. Descend([s |-> u, item |-> x, file |-> TRUE], name) \in ThroughFile
    BY DescendFile
  <2>3. QED
    BY <2>1, <2>2 DEF Via
<1>5. QED
  BY <1>1, <1>2, <1>3, <1>4

LEMMA EndsClosed ==
  ASSUME NEW s \in FsState, NEW T, Whole(s, T), Counted(s, T), NEW g \in Ends(s, T),
         NEW name \in PathName
  PROVE  Descend(g, name) \in Ends(s, T)
<1>1. CASE g \in ThroughFile \cup {Stuck(s)}
  BY <1>1, DescendElse DEF Ends
<1>2. ASSUME NEW x \in FoundItems(s, T), g = Got(s, x) PROVE Descend(g, name) \in Ends(s, T)
  <2>1. CASE x.type = "dir" /\ x.inode \in DirsOf(s, T)
    <3>1. \E y \in FoundItems(s, T) : Descend(Got(s, x), name) = Got(s, y)
      BY <2>1, DescendDir
    <3>2. QED
      BY <1>2, <3>1 DEF Ends
  <2>2. CASE x.type = "dir" /\ x.inode = -1
    <3>1. Descend(Got(s, x), name) = Stuck(s)
      BY <2>2, DescendElse
    <3>2. QED
      BY <1>2, <3>1 DEF Ends
  <2>3. CASE x.type = "file"
    BY <1>2, <2>3, DescendElse DEF Ends
  <2>4. CASE x = Invalid
    BY <1>2, <2>4, DescendElse DEF Ends
  <2>5. QED
    BY <2>1, <2>2, <2>3, <2>4, FoundIs
<1>3. QED
  BY <1>1, <1>2 DEF Ends

\* The steps of a search.
Steps(s, path, h) ==
  h[0] = Got(s, Root) /\ \A n \in 1..Len(path) : h[n] = Descend(h[n - 1], path[n])

LEMMA FindSteps ==
  ASSUME NEW s \in FsState, NEW T, Whole(s, T), Counted(s, T), NEW path \in Seq(PathName)
  PROVE  \E h : /\ Steps(s, path, h) /\ diritem_find(s, path) = h[Len(path)]
                /\ \A n \in 0..Len(path) : h[n] \in Ends(s, T)
<1> DEFINE len == Len(path)
           S == Ends(s, T)
           Round(g, n) == IF n \in 1..len THEN Descend(g, path[n]) ELSE g
           G == [n \in Nat |-> [g \in S |-> Round(g, n)]]
           a == Got(s, Root)
<1>0. len \in Nat /\ \A n \in 1..len : path[n] \in PathName /\ n \in Nat /\ n - 1 \in 0..len
  OBVIOUS
<1>1. a \in S
  BY DEF FoundItems, Ends
<1>2. ASSUME NEW g \in S, NEW n \in 1..len PROVE Descend(g, path[n]) \in S
  BY <1>0, EndsClosed
<1> HIDE DEF len
<1>3. G \in [Nat -> [S -> S]]
  <2> HIDE DEF S
  <2>1. \A n \in Nat, g \in S : Round(g, n) \in S
    BY <1>2
  <2> HIDE DEF Round
  <2>2. QED
    BY <2>1
<1> HIDE DEF G, S, a
<1>4. PICK f \in [0..len -> S] : Rounds(f, G, a, len)
  BY <1>0, <1>1, <1>3, RecursionExists
<1>5. ASSUME NEW n \in 0..len
      PROVE  f[n] = IF n = 0 THEN a ELSE Descend(f[n - 1], path[n])
  <2>1. CASE n = 0
    BY <1>4, <2>1 DEF Rounds
  <2>2. CASE n # 0
    <3>1. n \in 1..len /\ n \in Nat /\ f[n - 1] \in S
      BY <1>0, <1>4, <2>2
    <3>2. G[n][f[n - 1]] = Descend(f[n - 1], path[n])
      BY <3>1 DEF G
    <3>3. QED
      BY <1>4, <2>2, <3>2 DEF Rounds
  <2>3. QED
    BY <2>1, <2>2
<1> DEFINE Body(g) == [n \in 0..len |-> IF n = 0 THEN a ELSE Descend(g[n - 1], path[n])]
<1>6. f = Body(f)
  <2> DEFINE g == Body(f)
  <2>1. f = [n \in 0..len |-> f[n]] /\ g = [n \in 0..len |-> g[n]]
    BY <1>4
  <2>2. \A n \in 0..len : g[n] = IF n = 0 THEN a ELSE Descend(f[n - 1], path[n])
    BY Zenon
  <2> HIDE DEF g
  <2>3. \A n \in 0..len : f[n] = g[n]
    BY <1>5, <2>2
  <2>4. QED
    BY <2>1, <2>3 DEF g
<1> DEFINE h == CHOOSE g : g = Body(g)
<1>7. h = Body(h)
  <2> HIDE DEF Body
  <2>1. \E g : g = Body(g)
    BY <1>6
  <2>2. QED
    BY <2>1
<1>8. diritem_find(s, path) = h[len]
  BY Zenon DEF diritem_find, len, a, Got
<1> HIDE DEF h
<1>9. \A n \in 0..len : h[n] = IF n = 0 THEN a ELSE Descend(h[n - 1], path[n])
  BY <1>7, Zenon
<1> HIDE DEF Body
<1>10. h[0] = a /\ \A n \in 1..len : h[n] = Descend(h[n - 1], path[n])
  <2>1. \A n \in 1..len : n \in 0..len /\ n # 0
    BY <1>0
  <2>2. 0 \in 0..len
    BY <1>0
  <2>3. QED
    BY <1>9, <2>1, <2>2
<1>11. \A n \in 0..len : h[n] \in S
  <2> DEFINE P == {n \in Nat : h[n] \in S}
  <2>1. 0 \in P
    BY <1>1, <1>10
  <2>2. \A n \in 1..len : n - 1 \in P => n \in P
    BY <1>0, <1>2, <1>10
  <2> HIDE DEF P
  <2>3. 0..len \subseteq P
    BY <1>0, <2>1, <2>2, UpTo
  <2>4. QED
    BY <2>3 DEF P
<1>12. QED
  BY <1>8, <1>10, <1>11 DEF Steps, S, a, len

\* A search changes nothing, unless it goes through a file or gets stuck.
LEMMA FindIs ==
  ASSUME NEW s \in FsState, NEW T, Whole(s, T), Counted(s, T), NEW path \in Seq(PathName)
  PROVE  diritem_find(s, path) \in Ends(s, T)
<1>1. Len(path) \in 0..Len(path)
  OBVIOUS
<1>2. QED
  BY <1>1, FindSteps

\* The last step of a search is a search in the directory found before it.
LEMMA FindLast ==
  ASSUME NEW s \in FsState, NEW T, Whole(s, T), Counted(s, T), NEW path \in Seq(PathName), NEW name \in PathName
  PROVE  diritem_find(s, Append(path, name)) = Descend(diritem_find(s, path), name)
<1> DEFINE longer == Append(path, name)
           len == Len(path)
<1>1. /\ longer \in Seq(PathName) /\ len \in Nat /\ Len(longer) = len + 1 /\ longer[len + 1] = name
      /\ \A n \in 1..len : longer[n] = path[n] /\ n \in 1..(len + 1)
  OBVIOUS
<1>2. PICK g : Steps(s, path, g) /\ diritem_find(s, path) = g[len]
  BY FindSteps
<1> HIDE DEF longer, len
<1>3. PICK h : Steps(s, longer, h) /\ diritem_find(s, longer) = h[len + 1]
  BY <1>1, FindSteps
<1>4. 0..len \subseteq {n \in Nat : g[n] = h[n]}
  <2> DEFINE P == {n \in Nat : g[n] = h[n]}
  <2>1. 0 \in P
    BY <1>2, <1>3 DEF Steps
  <2>2. ASSUME NEW n \in 1..len, n - 1 \in P PROVE n \in P
    <3>1. g[n] = Descend(g[n - 1], path[n]) /\ h[n] = Descend(h[n - 1], longer[n])
      BY <1>1, <1>2, <1>3 DEF Steps, len
    <3>2. n \in Nat /\ g[n - 1] = h[n - 1]
      BY <1>1, <2>2
    <3>3. QED
      BY <1>1, <3>1, <3>2
  <2> HIDE DEF P
  <2>3. 0..len \subseteq P
    BY <1>1, <2>1, <2>2, UpTo
  <2>4. QED
    BY <2>3 DEF P
<1>5. h[len + 1] = Descend(h[len], name)
  <2>1. len + 1 \in 1..(len + 1) /\ (len + 1) - 1 = len
    BY <1>1
  <2>2. QED
    BY <1>1, <1>3, <2>1 DEF Steps
<1>6. g[len] = h[len]
  BY <1>1, <1>4
<1>7. QED
  BY <1>2, <1>3, <1>5, <1>6 DEF longer
-----------------------------------------------------------------------------
\* i has the one block b.
OneBlock(s, i, b) ==
  /\ s.mem.inode[i].iblocks[0] = b
  /\ \A k \in 1..(MAX_INODE_BLOCKS - 1) : s.mem.inode[i].iblocks[k] = 0

LEMMA OneBlockIs ==
  ASSUME NEW s \in FsState, NEW i \in Inode, NEW b \in Block, OneBlock(s, i, b)
  PROVE  /\ IBlocks(s, i) = {0} /\ iblock_get(s, i, 0) = b
         /\ Owned(s, i) = {b} /\ Apart(s, i) /\ Packed(s, i)
<1>1. /\ Level1(s, i) = 0 /\ Level2(s, i) = 0 /\ 0 \in IBlock /\ 0 < MAX_DIRECT
      /\ 0 \in Nat /\ 1 \in IBlock
  BY Sizes DEF OneBlock, Level1, Level2, IBlock
<1>2. \A n \in Place : Behind(s, i, n) = 0
  BY <1>1, EmptyIndex DEF Behind, Place
<1>3. iblock_get(s, i, 0) = b
  BY <1>1, GetDirect DEF OneBlock
<1>4. ASSUME NEW k \in IBlock, k # 0 PROVE iblock_get(s, i, k) = 0
  <2>1. CASE k < MAX_DIRECT
    <3>1. k \in 1..(MAX_INODE_BLOCKS - 1)
      BY <1>4, <2>1, Ranges, Sizes
    <3>2. QED
      BY <2>1, <3>1, GetDirect DEF OneBlock
  <2>2. CASE k \in MAX_DIRECT..(LEVEL1_BORDER - 1)
    BY <1>1, <2>2, GetIs
  <2>3. CASE k >= LEVEL1_BORDER
    BY <1>1, <2>3, GetIs
  <2>4. QED
    BY <2>1, <2>2, <2>3, Ranges
<1>5. IBlocks(s, i) = {0}
  <2>1. 0 \in IBlocks(s, i)
    <3>1. \A m \in 0..0 : iblock_get(s, i, m) # 0
      <4>1. b # 0
        BY DEF Block
      <4>2. QED
        BY <1>3, <4>1
    <3>2. QED
      BY <1>1, <3>1, IBlocksIs, Zenon
  <2>2. \A k \in IBlocks(s, i) : k = 0
    BY <1>4, IBlocksIs
  <2>3. QED
    BY <2>1, <2>2
<1>6. Owned(s, i) = {b}
  <2>1. b \in Owned(s, i)
    BY <1>3, <1>5, OwnedIs
  <2>2. Owned(s, i) \subseteq Block /\ 0 \notin Block
    BY OwnedIs DEF Block
  <2>3. \A c \in Owned(s, i) : c = b
    BY <1>1, <1>2, <1>3, <1>5, <2>2, OwnedIs
  <2>4. QED
    BY <2>1, <2>3
<1>7. Apart(s, i)
  <2>1. b # 0
    BY DEF Block
  <2>2. QED
    BY <1>1, <1>2, <1>3, <1>5, <2>1, ApartIs
<1>8. Packed(s, i)
  BY <1>4, <1>5 DEF Packed
<1>9. QED
  BY <1>3, <1>5, <1>6, <1>7, <1>8

LEMMA NewDirBlockIs ==
  ASSUME NEW i \in Inode, NEW parent \in Inode \cup {-1}
  PROVE  LET x == NewDirBlock(i, parent)
         IN  /\ x \in BlockType
             /\ x[0] = Entry("dir", i, ".") /\ x[1] = Entry("dir", parent, "..")
             /\ \A j \in Slot : j \notin {0, 1} => x[j] = Invalid
<1>1. 0 \in Slot /\ 1 \in Slot
  BY Sizes DEF Slot
<1>3. EmptyBlock \in [Slot -> EntryType] /\ \A j \in Slot : EmptyBlock[j] = Invalid
  BY DEF EmptyBlock, EntryType
<1> DEFINE e0 == Entry("dir", i, ".")
           e1 == Entry("dir", parent, "..")
           x == [EmptyBlock EXCEPT ![0] = e0, ![1] = e1]
<1>2. e0 \in EntryType /\ e1 \in EntryType
  BY DotNames DEF Entry, EntryType
<1> HIDE DEF e0, e1
<1>4. /\ x \in [Slot -> EntryType] /\ x[0] = e0 /\ x[1] = e1
      /\ \A j \in Slot : j \notin {0, 1} => x[j] = Invalid
  BY <1>1, <1>2, <1>3
<1>5. NewDirBlock(i, parent) = x
  BY DEF NewDirBlock, e0, e1
<1>6. QED
  BY <1>4, <1>5 DEF BlockType, e0, e1

\* A new directory holds no item but itself and its parent.
LEMMA NewDirIs ==
  ASSUME NEW s \in FsState, NEW i \in Inode, NEW b \in Block, OneBlock(s, i, b),
         NEW parent \in Inode \cup {-1}, s.disk[BlockAt(b)] = NewDirBlock(i, parent),
         s.mem.inode[i].size = 2
  PROVE  /\ GoodDir(s, i) /\ Valid(s, AllItems(s, i)) = {}
         /\ HasParent(s, i, parent)
<1> DEFINE M == MAX_DIRITEM_PER_BLOCK
<1>1. IBlocks(s, i) = {0} /\ iblock_get(s, i, 0) = b
  BY OneBlockIs
<1>2. Items(s, i, 0) = NewDirBlock(i, parent)
  BY <1>1 DEF Items
<1>3. /\ Items(s, i, 0)[0] = Entry("dir", i, ".") /\ Items(s, i, 0)[0].type = "dir"
      /\ Items(s, i, 0)[1] = Entry("dir", parent, "..") /\ Items(s, i, 0)[1].type = "dir"
      /\ \A j \in Slot : j \notin {0, 1} => Items(s, i, 0)[j].type = "invalid"
  <2> DEFINE x == NewDirBlock(i, parent)
  <2>1. /\ x[0] = Entry("dir", i, ".") /\ x[1] = Entry("dir", parent, "..")
        /\ \A j \in Slot : j \notin {0, 1} => x[j] = Invalid
    BY NewDirBlockIs
  <2> HIDE DEF x
  <2>2. x[0].type = "dir" /\ x[1].type = "dir"
    BY <2>1 DEF Entry
  <2>3. \A j \in Slot : j \notin {0, 1} => x[j].type = "invalid"
    BY <2>1, EntryIs
  <2>4. QED
    BY <1>2, <2>1, <2>2, <2>3 DEF x
<1>4. HoldsItems(s, i)
  <2>1. \A k \in IBlocks(s, i), j \in Slot :
          Items(s, i, k)[j].type \in {"invalid", "file", "dir"}
    BY <1>1, <1>3
  <2>2. QED
    BY <1>1, <1>3, <2>1 DEF HoldsItems
<1>5. DirSized(s, i)
  <2>1. M \in Nat \ {0, 1}
    BY Sizes
  <2>2. \A k \in IBlock : k \in Nat
    BY Sizes DEF IBlock
  <2> HIDE DEF M
  <2>3. ASSUME NEW k \in Nat, (k + 1) * M <= 2 PROVE k = 0
    <3>1. SUFFICES ASSUME k >= 1 PROVE FALSE
      OBVIOUS
    <3>2. PICK c \in Nat : k + 1 = c + 2
      <4>1. k - 1 \in Nat /\ k + 1 = (k - 1) + 2
        BY <3>1
      <4>2. QED
        BY <4>1
    <3>3. (c + 2) * M = c * M + 2 * M /\ c * M \in Nat
      BY <2>1
    <3>4. 2 * M > 2
      BY <2>1
    <3>5. (c + 2) * M <= 2
      BY <2>3, <3>2
    <3> DEFINE y == c * M
               z == (c + 2) * M
    <3>6. y \in Nat /\ z = y + 2 * M /\ z <= 2
      BY <3>3, <3>5
    <3> HIDE DEF y, z
    <3>7. QED
      BY <2>1, <3>4, <3>6
  <2>4. QED
    BY <1>1, <2>2, <2>3 DEF DirSized, M
<1>6. Valid(s, AllItems(s, i)) = {}
  <2> SUFFICES ASSUME NEW p \in AllItems(s, i), ItemOf(s, p).type \in {"file", "dir"}
               PROVE  FALSE
    BY DEF Valid
  <2>1. PICK k \in IBlocks(s, i), j \in Slot : p = <<i, k, j>> /\ ~(k = 0 /\ j \in {0, 1})
    BY PlacesIs
  <2>2. p[1] = i /\ p[2] = 0 /\ p[3] = j /\ j \notin {0, 1} /\ j \in Slot
    BY <1>1, <2>1
  <2>3. QED
    BY <1>3, <2>2 DEF ItemOf
<1>7. NamedOnce(s, i)
  <2>1. Valid(s, SeenItems(s, i)) \subseteq Valid(s, AllItems(s, i))
    BY DEF Valid, SeenItems
  <2>2. QED
    BY <1>6, <2>1 DEF NamedOnce
<1>8. QED
  BY <1>3, <1>4, <1>5, <1>6, <1>7 DEF GoodDir, HasParent

\* t has given inode i, that was free, the block b, that was free as well.
Created(s, t, i, b, type, parent) ==
  /\ s.mem.halt = "no" /\ i \notin s.mem.imap /\ b \notin s.mem.bmap
  /\ t.mem.imap = s.mem.imap \cup {i} /\ t.mem.bmap = s.mem.bmap \cup {b}
  /\ \A j \in Inode \ {i} : t.mem.inode[j] = s.mem.inode[j]
  /\ t.mem.inode[i].size = (IF type = "file" THEN 0 ELSE 2) /\ OneBlock(t, i, b)
  /\ \A c \in Block \ {b} : t.disk[BlockAt(c)] = s.disk[BlockAt(c)]
  /\ type # "file" => t.disk[BlockAt(b)] = NewDirBlock(i, parent)
  /\ t.disk[MapInodes] = t.mem.imap /\ t.disk[InodeAt(i)] = t.mem.inode[i]
  /\ \A j \in Inode \ {i} : t.disk[InodeAt(j)] = s.disk[InodeAt(j)]
  /\ IF type = "file" THEN MapOn(t.disk) = MapOn(s.disk) ELSE MapSaved(t)

NewNode(size, b) == [NoInode EXCEPT !.size = size, !.iblocks[0] = b]

LEMMA NewNodeIs ==
  ASSUME NEW size \in Nat, NEW b \in Block
  PROVE  /\ NewNode(size, b) \in InodeType /\ NewNode(size, b).size = size
         /\ NewNode(size, b).iblocks[0] = b
         /\ \A k \in 1..(MAX_INODE_BLOCKS - 1) : NewNode(size, b).iblocks[k] = 0
<1> DEFINE D == 0..(MAX_INODE_BLOCKS - 1)
           z == [n \in D |-> 0]
           y == [z EXCEPT ![0] = b]
<1>1. 0 \in D /\ \A k \in 1..(MAX_INODE_BLOCKS - 1) : k \in D /\ k # 0
  BY Sizes
<1>2. y \in [D -> {0} \cup Block] /\ y[0] = b /\ \A k \in D : k # 0 => y[k] = 0
  BY <1>1
<1>3. NoInode \in [size : Nat, iblocks : [D -> {0} \cup Block]] /\ NoInode.iblocks = z
  BY DEF NoInode
<1> HIDE DEF z, D
<1>4. NewNode(size, b).size = size /\ NewNode(size, b).iblocks = y
  BY <1>3 DEF NewNode
<1>5. NewNode(size, b) \in [size : Nat, iblocks : [D -> {0} \cup Block]]
  BY <1>3 DEF NewNode
<1> HIDE DEF y
<1>6. QED
  BY <1>1, <1>2, <1>4, <1>5 DEF InodeType, D

\* diritem_create.
LEMMA CreateIs ==
  ASSUME NEW s \in FsState, NEW type \in {"file", "dir"}, NEW parent \in Inode \cup {-1}
  PROVE  LET t == diritem_create(s, type, parent)
         IN  /\ t \in FsState /\ Follows(s, t) /\ t.mem.halt \in {s.mem.halt, "full"}
             /\ s.mem.halt # "no" => t.mem.halt # "no"
             /\ FreeInode(s) \in Inode /\ FreeBlock(s) \in Block
             /\ t.mem.halt = "no" => Created(s, t, FreeInode(s), FreeBlock(s), type, parent)
<1> DEFINE i  == FreeInode(s)
           b  == FreeBlock(s)
           s0 == inode_allocate(s)
           s1 == free_allocate(s0)
           size == IF type = "file" THEN 0 ELSE 2
           v  == NewNode(size, b)
           s2 == [s1 EXCEPT !.mem.inode[i] = v]
           x  == NewDirBlock(i, parent)
           s3 == free_rw_disk(s2, b, x)
           s4 == free_map_update(s3)
           s5 == IF type = "file" THEN s2 ELSE s4
           s6 == inodes_rw_disk(s5, i)
           t  == inode_map_update(s6)
<1>1. /\ s0 \in FsState /\ Follows(s, s0) /\ s0.disk = s.disk
      /\ i \in Inode /\ s0.mem.halt \in {s.mem.halt, "full"}
      /\ s.mem.halt # "no" => s0.mem.halt # "no"
      /\ s0.mem.halt = "no" =>
           /\ s.mem.halt = "no" /\ i \notin s.mem.imap
           /\ s0.mem.imap = s.mem.imap \cup {i} /\ s0.mem.inode = s.mem.inode
      /\ s0.mem.bmap = s.mem.bmap /\ s0.mem.bprev = s.mem.bprev
  BY InodeAllocIs
<1>2. b = FreeBlock(s0)
  BY <1>1 DEF FreeBlock
<1> HIDE DEF i, b, s0
<1>3. /\ s1 \in FsState /\ Follows(s0, s1) /\ s1.disk = s0.disk
      /\ b \in Block /\ s1.mem.halt \in {s0.mem.halt, "full"}
      /\ s0.mem.halt # "no" => s1.mem.halt # "no"
      /\ s1.mem.halt = "no" =>
           /\ s0.mem.halt = "no" /\ b \notin s0.mem.bmap
           /\ s1.mem.bmap = s0.mem.bmap \cup {b}
           /\ s1.mem.imap = s0.mem.imap /\ s1.mem.inode = s0.mem.inode
  BY <1>1, <1>2, AllocIs
<1> HIDE DEF s1
<1>4. /\ v \in InodeType /\ v.size = size /\ v.iblocks[0] = b
      /\ \A k \in 1..(MAX_INODE_BLOCKS - 1) : v.iblocks[k] = 0
  BY <1>3, NewNodeIs
<1> HIDE DEF v, size
<1>5. /\ s2 \in FsState /\ Follows(s1, s2) /\ s2.disk = s1.disk
      /\ s2.mem.imap = s1.mem.imap /\ s2.mem.bmap = s1.mem.bmap /\ s2.mem.halt = s1.mem.halt
      /\ s2.mem.inode = [s1.mem.inode EXCEPT ![i] = v]
  BY <1>1, <1>3, <1>4, NodeSet
<1> HIDE DEF s2
<1>6. x \in BlockType
  BY <1>1, NewDirBlockIs
<1> HIDE DEF x
<1>7. /\ s3 \in FsState /\ Follows(s2, s3)
      /\ s2.mem.halt # "no" => s3 = s2
      /\ s2.mem.halt = "no" =>
           s3.mem = s2.mem /\ s3.disk = [s2.disk EXCEPT ![BlockAt(b)] = x]
  <2>1. /\ s3 \in FsState /\ Follows(s2, s3)
        /\ s2.mem.halt # "no" => s3 = s2
        /\ b \in s2.mem.bmap => s3.mem = s2.mem
        /\ s3.mem.halt = "no" => s3.disk = [s2.disk EXCEPT ![BlockAt(b)] = x]
    BY <1>5, <1>6, RwIs
  <2>2. s2.mem.halt = "no" => b \in s2.mem.bmap
    BY <1>3, <1>5
  <2>3. QED
    BY <2>1, <2>2
<1> HIDE DEF s3
<1>8. /\ s4 \in FsState /\ Follows(s3, s4) /\ s4.mem = s3.mem
      /\ s3.mem.halt # "no" => s4 = s3
      /\ s3.mem.halt = "no" => MapSaved(s4) /\ OnlyMap(s3, s4)
  BY <1>7, MapIs
<1> HIDE DEF s4
<1>9. /\ s5 \in FsState /\ Follows(s2, s5) /\ s5.mem = s2.mem
      /\ s2.mem.halt = "no" =>
           /\ \A c \in Block \ {b} : s5.disk[BlockAt(c)] = s2.disk[BlockAt(c)]
           /\ type # "file" => s5.disk[BlockAt(b)] = x
           /\ \A j \in Inode : s5.disk[InodeAt(j)] = s2.disk[InodeAt(j)]
           /\ IF type = "file" THEN MapOn(s5.disk) = MapOn(s2.disk) ELSE MapSaved(s5)
  <2>1. CASE type = "file"
    BY <1>5, <2>1, FollowsSame
  <2>2. CASE type # "file"
    <3>1. Follows(s2, s4) /\ s4.mem = s2.mem
      BY <1>5, <1>7, <1>8, FollowsOn
    <3>2. ASSUME s2.mem.halt = "no"
          PROVE  \A c \in Block : s4.disk[BlockAt(c)] = IF c = b THEN x ELSE s2.disk[BlockAt(c)]
      <4>1. s2.disk \in DiskType /\ s3.disk \in DiskType
        BY <1>5, <1>7, StateIs
      <4>2. \A c \in Block : s3.disk[BlockAt(c)] = IF c = b THEN x ELSE s2.disk[BlockAt(c)]
        BY <1>7, <3>2, <4>1, SectorsApart, Sectors DEF DiskType
      <4>3. \A c \in Block : s4.disk[BlockAt(c)] = s3.disk[BlockAt(c)]
        BY <1>7, <1>8, <3>2, OnlyMapIs
      <4>4. QED
        BY <4>2, <4>3
    <3>4. ASSUME s2.mem.halt = "no"
          PROVE  /\ \A j \in Inode : s4.disk[InodeAt(j)] = s2.disk[InodeAt(j)]
                 /\ MapSaved(s4)
      <4>1. s2.disk \in DiskType /\ s3.disk \in DiskType
        BY <1>5, <1>7, StateIs
      <4>2. \A j \in Inode : s3.disk[InodeAt(j)] = s2.disk[InodeAt(j)]
        BY <1>3, <1>7, <3>4, <4>1, SectorsApart, Sectors DEF DiskType
      <4>3. \A j \in Inode : s4.disk[InodeAt(j)] = s3.disk[InodeAt(j)]
        BY <1>7, <1>8, <3>4, OnlyMapIs
      <4>4. MapSaved(s4)
        BY <1>7, <1>8, <3>4
      <4>5. QED
        BY <4>2, <4>3, <4>4
    <3>3. s5 = s4
      BY <2>2
    <3> HIDE DEF s5
    <3>5. QED
      BY <1>3, <1>8, <2>2, <3>1, <3>2, <3>3, <3>4
  <2>3. QED
    BY <2>1, <2>2
<1> HIDE DEF s5
<1>10. /\ s6 \in FsState /\ Follows(s5, s6) /\ s6.mem = s5.mem
       /\ s5.mem.halt # "no" => s6 = s5
       /\ s5.mem.halt = "no" => s6.disk = [s5.disk EXCEPT ![InodeAt(i)] = s5.mem.inode[i]]
  BY <1>1, <1>9, InodeRwIs
<1> HIDE DEF s6
<1>11. /\ t \in FsState /\ Follows(s6, t) /\ t.mem = s6.mem
       /\ s6.mem.halt # "no" => t = s6
       /\ s6.mem.halt = "no" => t.disk = [s6.disk EXCEPT ![MapInodes] = s6.mem.imap]
  BY <1>10, InodeMapIs
<1> HIDE DEF t
<1>12. Follows(s, t) /\ t.mem = s2.mem
  <2>1. Follows(s, s2)
    BY <1>1, <1>3, <1>5, FollowsOn
  <2>2. Follows(s2, t)
    BY <1>9, <1>10, <1>11, FollowsOn
  <2>3. QED
    BY <1>9, <1>10, <1>11, <2>1, <2>2, FollowsOn
<1>13. t.mem.halt \in {s.mem.halt, "full"} /\ (s.mem.halt # "no" => t.mem.halt # "no")
  BY <1>1, <1>3, <1>5, <1>12
<1>14. ASSUME t.mem.halt = "no" PROVE Created(s, t, i, b, type, parent)
  <2>1. /\ s.mem.halt = "no" /\ s0.mem.halt = "no" /\ s1.mem.halt = "no" /\ s2.mem.halt = "no"
        /\ s5.mem.halt = "no" /\ s6.mem.halt = "no"
    BY <1>1, <1>3, <1>5, <1>9, <1>10, <1>12, <1>14
  <2>2. /\ i \notin s.mem.imap /\ b \notin s.mem.bmap
        /\ t.mem.imap = s.mem.imap \cup {i} /\ t.mem.bmap = s.mem.bmap \cup {b}
    BY <1>1, <1>3, <1>5, <1>12, <2>1
  <2>3. t.mem.inode[i] = v /\ \A j \in Inode \ {i} : t.mem.inode[j] = s.mem.inode[j]
    <3>1. s.mem.inode \in [Inode -> InodeType]
      BY StateIs
    <3>2. t.mem.inode = [s.mem.inode EXCEPT ![i] = v]
      BY <1>1, <1>3, <1>5, <1>12, <2>1
    <3>3. QED
      BY <1>1, <3>1, <3>2
  <2>4. OneBlock(t, i, b) /\ t.mem.inode[i].size = size
    BY <1>4, <2>3 DEF OneBlock
  <2>5. \A c \in Block : t.disk[BlockAt(c)] = s5.disk[BlockAt(c)]
    <3>1. s5.disk \in DiskType /\ s6.disk \in DiskType
      BY <1>9, <1>10, StateIs
    <3>2. \A c \in Block : s6.disk[BlockAt(c)] = s5.disk[BlockAt(c)]
      BY <1>10, <2>1, <3>1, SectorsApart, Sectors DEF DiskType
    <3>3. \A c \in Block : t.disk[BlockAt(c)] = s6.disk[BlockAt(c)]
      BY <1>11, <2>1, <3>1, SectorsApart, Sectors DEF DiskType
    <3>4. QED
      BY <3>2, <3>3
  <2>6. s2.disk = s.disk
    BY <1>1, <1>3, <1>5
  <2>7. /\ t.disk[MapInodes] = t.mem.imap /\ t.disk[InodeAt(i)] = t.mem.inode[i]
        /\ \A j \in Inode \ {i} : t.disk[InodeAt(j)] = s.disk[InodeAt(j)]
        /\ IF type = "file" THEN MapOn(t.disk) = MapOn(s.disk) ELSE MapSaved(t)
    <3>1. s5.disk \in DiskType /\ s6.disk \in DiskType
      BY <1>9, <1>10, StateIs
    <3>2. /\ s6.disk[InodeAt(i)] = s5.mem.inode[i]
          /\ \A j \in Inode \ {i} : s6.disk[InodeAt(j)] = s5.disk[InodeAt(j)]
      BY <1>1, <1>10, <2>1, <3>1, SectorsApart, Sectors DEF DiskType
    <3>3. /\ t.disk[MapInodes] = s6.mem.imap
          /\ \A j \in Inode : t.disk[InodeAt(j)] = s6.disk[InodeAt(j)]
      BY <1>11, <2>1, <3>1, SectorsApart, Sectors DEF DiskType
    <3>4. /\ t.mem = s6.mem /\ t.mem = s5.mem /\ t.mem = s2.mem
      BY <1>9, <1>10, <1>11
    <3>5. /\ \A j \in Inode : s5.disk[InodeAt(j)] = s.disk[InodeAt(j)]
          /\ IF type = "file" THEN MapOn(s5.disk) = MapOn(s.disk) ELSE MapSaved(s5)
      BY <1>9, <2>1, <2>6
    <3>6. MapOn(t.disk) = MapOn(s6.disk) /\ MapOn(s6.disk) = MapOn(s5.disk)
      <4>1. \A n \in MapSector : s6.disk[MapFree(n)] = s5.disk[MapFree(n)]
        BY <1>10, <2>1, <3>1, SectorsApart, Sectors DEF DiskType
      <4>2. \A n \in MapSector : t.disk[MapFree(n)] = s6.disk[MapFree(n)]
        BY <1>11, <2>1, <3>1, SectorsApart, Sectors DEF DiskType
      <4>3. QED
        BY <4>1, <4>2, MapOnSame
    <3>7. QED
      BY <1>1, <3>2, <3>3, <3>4, <3>5, <3>6 DEF MapSaved
  <2>8. QED
    BY <1>3, <1>9, <2>1, <2>2, <2>3, <2>4, <2>5, <2>6, <2>7 DEF Created, size, x
<1>15. diritem_create(s, type, parent) = t
  BY DEF diritem_create, inode_set, t, s6, s5, s4, s3, s2, s1, s0, x, v, size, i, b, NewNode
<1>16. QED
  BY <1>1, <1>3, <1>11, <1>12, <1>13, <1>14, <1>15 DEF i, b
-----------------------------------------------------------------------------
\* If memory is as it was, and only sectors that are no blocks have changed.
LEMMA OnlyInodes ==
  ASSUME NEW s \in FsState, NEW t \in FsState, t.mem = s.mem,
         \A c \in Block : t.disk[BlockAt(c)] = s.disk[BlockAt(c)]
  PROVE  \A i \in Inode : Alike(s, t, i)
BY OwnedIs DEF Alike

\* A block k of directory p, an old one or a new one.
Reached(s, t, I, p, k) ==
  /\ World(t, I) /\ \A j \in I \ {p} : Alike(s, t, j)
  /\ t.mem.inode[p].size = s.mem.inode[p].size
  /\ IBlocks(t, p) = IBlocks(s, p) \cup {k}
  /\ \A m \in IBlocks(s, p) : Items(t, p, m) = Items(s, p, m)

LEMMA AlikeOn ==
  ASSUME NEW s \in FsState, NEW u \in FsState, NEW t, NEW i \in Inode,
         Alike(s, u, i), Alike(u, t, i)
  PROVE  Alike(s, t, i)
<1>1. Owned(u, i) = Owned(s, i)
  BY SameBlocks
<1>2. QED
  BY <1>1 DEF Alike

LEMMA ExtendDirIs ==
  ASSUME NEW s \in FsState, NEW p \in Inode, NEW k \in IBlock,
         k = s.mem.inode[p].size \div MAX_DIRITEM_PER_BLOCK
  PROVE  LET t == ExtendDir(s, p)
         IN  /\ t \in FsState /\ Follows(s, t) /\ t.mem.halt \in {s.mem.halt, "full"}
             /\ s.mem.halt # "no" => t.mem.halt # "no"
             /\ Quiet(s, t, p)
             /\ t.mem.halt = "no" /\ k < MAX_DIRECT => MapSaved(t)
             /\ \A I : t.mem.halt = "no" /\ World(s, I) /\ p \in I /\ FirstMissing(s, p, k)
                  => Reached(s, t, I, p, k)
<1> DEFINE b == FreeBlock(s)
           a == free_allocate(s)
           u == free_map_update(a)
           e == iblock_set(u, p, k, b)
           t == inodes_rw_disk(e, p)
<1>1. /\ e \in FsState /\ Follows(s, e) /\ e.mem.halt \in {s.mem.halt, "full"}
      /\ s.mem.halt # "no" => e.mem.halt # "no"
      /\ \A I : e.mem.halt = "no" /\ World(s, I) /\ p \in I /\ FirstMissing(s, p, k)
                  => Extended(s, e, I, p, k, b)
  BY NewBlockIs
<1>6. a \in FsState /\ b \in Block /\ Quiet(s, a, p)
  BY AllocIs, AllocQuiet
<1> HIDE DEF a, b
<1>7. /\ u \in FsState /\ Quiet(a, u, p)
      /\ u.mem.halt = "no" => MapSaved(u)
  BY <1>6, MapIs, MapQuiet
<1> HIDE DEF u
<1>8. Quiet(u, e, p) /\ (k < MAX_DIRECT => SameMap(u, e))
  BY <1>6, <1>7, SetQuiet
<1> HIDE DEF e
<1>2. /\ t \in FsState /\ Follows(e, t) /\ t.mem = e.mem
      /\ e.mem.halt # "no" => t = e
      /\ e.mem.halt = "no" => t.disk = [e.disk EXCEPT ![InodeAt(p)] = e.mem.inode[p]]
  BY <1>1, InodeRwIs
<1>9. Quiet(e, t, p) /\ SameMap(e, t)
  BY <1>1, InodeRwQuiet
<1> HIDE DEF t
<1>10. Quiet(s, t, p)
  BY <1>6, <1>7, <1>8, <1>9, QuietOn
<1>11. t.mem.halt = "no" /\ k < MAX_DIRECT => MapSaved(t)
  <2> SUFFICES ASSUME t.mem.halt = "no", k < MAX_DIRECT PROVE MapSaved(t)
    OBVIOUS
  <2>1. e.mem.halt = "no" /\ u.mem.halt = "no"
    BY <1>8, <1>9 DEF Quiet
  <2>2. MapSaved(u) /\ SameMap(u, e) /\ SameMap(e, t)
    BY <1>7, <1>8, <1>9, <2>1
  <2>3. QED
    BY <2>1, <2>2 DEF SameMap, MapSaved
<1>3. Follows(s, t) /\ t.mem.halt \in {s.mem.halt, "full"} /\ (s.mem.halt # "no" => t.mem.halt # "no")
  BY <1>1, <1>2, FollowsOn
<1>4. ASSUME NEW I, t.mem.halt = "no", World(s, I), p \in I, FirstMissing(s, p, k)
      PROVE  Reached(s, t, I, p, k)
  <2>0. I \subseteq Inode
    BY <1>4, StateIs DEF World, Sound
  <2>1. Extended(s, e, I, p, k, b)
    BY <1>1, <1>2, <1>4
  <2>2. \A c \in Block : t.disk[BlockAt(c)] = e.disk[BlockAt(c)]
    <3>1. e.disk \in DiskType
      BY <1>1, StateIs
    <3>2. QED
      BY <1>2, <1>4, <3>1, SectorsApart, Sectors DEF DiskType
  <2>3. \A i \in Inode : Alike(e, t, i)
    BY <1>1, <1>2, <2>2, OnlyInodes
  <2>4. World(t, I)
    <3>1. \A j \in I : j \in t.mem.imap /\ Owned(e, j) \subseteq t.mem.bmap
      BY <1>2, <2>1 DEF Extended, World, Sound
    <3>2. World(e, I)
      BY <2>1 DEF Extended
    <3>3. QED
      BY <1>1, <1>2, <2>0, <2>3, <3>1, <3>2, WorldKept
  <2>5. \A j \in I \ {p} : Alike(s, t, j)
    BY <1>1, <2>0, <2>1, <2>3, AlikeOn DEF Extended
  <2>6. /\ IBlocks(t, p) = IBlocks(e, p)
        /\ \A m \in IBlock : iblock_get(t, p, m) = iblock_get(e, p, m)
    BY <1>1, <1>2, <2>3, SameBlocks
  <2>7. ASSUME NEW m \in IBlocks(s, p) PROVE Items(t, p, m) = Items(s, p, m)
    <3>1. Items(e, p, m) = Items(s, p, m) /\ m \in IBlocks(e, p) /\ m \in IBlock
      BY <2>1, IBlocksIs DEF Extended
    <3>2. iblock_get(t, p, m) = iblock_get(e, p, m) /\ iblock_get(e, p, m) \in Block
      BY <1>1, <2>6, <3>1, OwnedIs
    <3>3. QED
      BY <2>2, <3>1, <3>2 DEF Items
  <2>8. QED
    BY <1>2, <2>1, <2>4, <2>5, <2>6, <2>7 DEF Reached, Extended
<1>5. ExtendDir(s, p) = t
  BY DEF ExtendDir, t, e, u, a, b
<1>12. QED
  BY <1>2, <1>3, <1>4, <1>5, <1>10, <1>11

\* A directory p of a whole tree T, and an item x for it whose inode has its
\* blocks but no name yet.
Spare(s, T, x) ==
  /\ x \in EntryType /\ x.type \in {"file", "dir"}
  /\ x.inode \in Inode \ InodesOf(s, T) /\ World(s, InodesOf(s, T) \cup {x.inode})
  /\ x.type = "dir" => /\ GoodDir(s, x.inode) /\ Valid(s, AllItems(s, x.inode)) = {}
                       /\ s.mem.inode[x.inode].size = 2
  /\ x.type = "file" => FileSized(s, x.inode)

FreeName(s, p, name) == \A q \in Valid(s, SeenItems(s, p)) : ItemOf(s, q).name # name

CanPush(s, T, p, x) ==
  /\ Whole(s, T) /\ p \in DirsOf(s, T) /\ Spare(s, T, x) /\ FreeName(s, p, x.name)
  /\ x.type = "dir" => HasParent(s, x.inode, p)
  /\ Cardinality(Excess(s, T)) <= Cardinality(Lost(s, T) \ {x.inode})

PushBlock(s, p) == s.mem.inode[p].size \div MAX_DIRITEM_PER_BLOCK
PushSlot(s, p)  == s.mem.inode[p].size % MAX_DIRITEM_PER_BLOCK

Pushed(s, t, T, p, x) ==
  LET I   == InodesOf(s, T) \cup {x.inode}
      k   == PushBlock(s, p)
      old == IF k \in IBlocks(s, p) THEN Items(s, p, k) ELSE EmptyBlock
  IN  /\ World(t, I) /\ \A j \in I \ {p} : Alike(s, t, j)
      /\ t.mem.inode[p].size = s.mem.inode[p].size + 1
      /\ IBlocks(t, p) = IBlocks(s, p) \cup {k}
      /\ \A m \in IBlocks(s, p) \ {k} : Items(t, p, m) = Items(s, p, m)
      /\ Items(t, p, k) = [old EXCEPT ![PushSlot(s, p)] = x]

\* The block that the size asks for is there, or is the first that is missing.
LEMMA PushBlockIs ==
  ASSUME NEW s \in FsState, NEW p \in Inode, DirSized(s, p), PushBlock(s, p) \in IBlock
  PROVE  /\ s.mem.inode[p].size \in Nat /\ s.mem.inode[p].size >= 2
         /\ PushBlock(s, p) \in Nat /\ PushSlot(s, p) \in Slot
         /\ s.mem.inode[p].size = PushBlock(s, p) * MAX_DIRITEM_PER_BLOCK + PushSlot(s, p)
         /\ NeedsBlock(s, p) => FirstMissing(s, p, PushBlock(s, p))
         /\ ~NeedsBlock(s, p) => PushBlock(s, p) \in IBlocks(s, p)
<1> DEFINE M == MAX_DIRITEM_PER_BLOCK
           n == s.mem.inode[p].size
           k == n \div M
           j == n % M
<1>1. M \in Nat \ {0, 1} /\ n \in Nat /\ n >= 2
  BY Sizes, LevelIs DEF DirSized
<1>2. k \in Nat /\ j \in 0..(M - 1) /\ n = k * M + j
  BY <1>1, DivMod
<1>3. k = PushBlock(s, p) /\ j = PushSlot(s, p)
  BY DEF PushBlock, PushSlot
<1> HIDE DEF k, j
<1>4. \A m \in 0..(k - 1) : m \in IBlock
  BY <1>2, <1>3, Sizes DEF IBlock
<1>5. ASSUME NEW m \in 0..(k - 1) PROVE m \in IBlocks(s, p)
  <2>1. (m + 1) * M <= n
    <3>1. PICK d \in Nat : k = m + 1 + d
      <4>1. k - m - 1 \in Nat /\ k = m + 1 + (k - m - 1)
        BY <1>2
      <4>2. QED
        BY <4>1
    <3> HIDE DEF M, n
    <3>2. k * M = (m + 1) * M + d * M /\ (m + 1) * M \in Nat /\ d * M \in Nat /\ k * M \in Nat
      BY <1>1, <3>1
    <3> DEFINE x == k * M
               y == (m + 1) * M
               z == d * M
    <3>3. x \in Nat /\ y \in Nat /\ z \in Nat /\ x = y + z /\ n = x + j
      BY <1>2, <3>2
    <3> HIDE DEF x, y, z
    <3>4. y <= n
      BY <1>1, <1>2, <3>3
    <3>5. QED
      BY <3>4 DEF y
  <2>2. QED
    BY <1>4, <2>1 DEF DirSized
<1>6. NeedsBlock(s, p) <=> iblock_get(s, p, k) = 0
  BY DEF NeedsBlock, k
<1>7. NeedsBlock(s, p) => FirstMissing(s, p, k)
  BY <1>3, <1>5, <1>6, IBlocksIs DEF FirstMissing
<1>8. ~NeedsBlock(s, p) => k \in IBlocks(s, p)
  <2> HAVE ~NeedsBlock(s, p)
  <2>1. \A m \in 0..k : m \in 0..(k - 1) \/ m = k
    BY <1>2
  <2>2. \A m \in 0..k : iblock_get(s, p, m) # 0
    BY <1>5, <1>6, <2>1, IBlocksIs
  <2>3. QED
    BY <1>3, <2>2, IBlocksIs, Zenon
<1>9. QED
  BY <1>1, <1>2, <1>3, <1>7, <1>8 DEF Slot

\* A block of items with one of them set.
LEMMA ItemSet ==
  ASSUME NEW old \in [Slot -> EntryType], NEW j \in Slot, NEW x \in EntryType
  PROVE  /\ [old EXCEPT ![j] = x] \in BlockType
         /\ [old EXCEPT ![j] = x][j] = x
         /\ \A l \in Slot \ {j} : [old EXCEPT ![j] = x][l] = old[l]
<1>1. [old EXCEPT ![j] = x] \in [Slot -> EntryType]
  OBVIOUS
<1>2. QED
  BY <1>1 DEF BlockType

LEMMA EmptyBlockIs == EmptyBlock \in [Slot -> EntryType] /\ \A j \in Slot : EmptyBlock[j] = Invalid
BY DEF EmptyBlock, EntryType

\* A directory has a direct block for one item more.
LEMMA PushDirect ==
  ASSUME NEW s \in FsState, NEW T, NEW p, NEW x, CanPush(s, T, p, x)
  PROVE  PushBlock(s, p) < MAX_DIRECT /\ PushBlock(s, p) \in IBlock
<1> DEFINE e == Cardinality(Excess(s, T))
           l == Cardinality(Lost(s, T))
           m == Cardinality(Lost(s, T) \ {x.inode})
<1>1. e \in Nat
  BY ExcessFinite DEF CanPush
<1>2. l \in Nat /\ m \in Nat /\ m <= l
  <2> DEFINE L == Lost(s, T)
  <2>1. IsFiniteSet(L) /\ l \in Nat /\ L \ {x.inode} \in SUBSET L
    BY LostFinite
  <2> HIDE DEF L
  <2>2. IsFiniteSet(L \ {x.inode}) /\ Cardinality(L \ {x.inode}) <= Cardinality(L)
    BY <2>1, FS_Subset
  <2>3. QED
    BY <2>1, <2>2, FS_CardinalityType DEF L
<1>3. e <= m
  BY DEF CanPush
<1> HIDE DEF e, l, m
<1>4. e <= l
  BY <1>1, <1>2, <1>3
<1>5. Counted(s, T)
  BY <1>4 DEF Counted, e, l
<1>6. PushBlock(s, p) < MAX_DIRECT
  BY <1>5, DirsShort DEF CanPush, PushBlock
<1>7. PushBlock(s, p) \in Nat
  <2>1. p \in Inode
    BY WholeIs DEF CanPush
  <2>2. s.mem.inode[p].size \in Nat /\ MAX_DIRITEM_PER_BLOCK \in Nat \ {0}
    BY <2>1, LevelIs, Sizes
  <2>3. QED
    BY <2>2, DivMod DEF PushBlock
<1>8. QED
  BY <1>6, <1>7, Sizes DEF IBlock

\* diritem_push.
LEMMA PushIs ==
  ASSUME NEW s \in FsState, NEW T, NEW p \in Inode, NEW x,
         s.mem.halt = "no" => CanPush(s, T, p, x)
  PROVE  LET t == diritem_push(s, p, x)
         IN  /\ t \in FsState /\ Follows(s, t) /\ t.mem.halt \in {s.mem.halt, "full"}
             /\ s.mem.halt # "no" => t.mem.halt # "no"
             /\ t.mem.halt = "no" => Pushed(s, t, T, p, x) /\ Stored(s, t, p)
<1> DEFINE size == s.mem.inode[p].size
           k    == PushBlock(s, p)
           j    == PushSlot(s, p)
           r    == diritem_push(s, p, x)
           I    == InodesOf(s, T) \cup {x.inode}
<1>0. size \in Nat
  BY LevelIs
<1>1. CASE k \notin IBlock
  <2>1. r = Panic(s, "index")
    BY <1>1 DEF diritem_push, PushBlock
  <2>2. "index" \in Halts \ {"no"}
    BY DEF Halts
  <2>3. s.mem.halt # "no"
    BY <1>1, PushDirect
  <2>4. r = s
    BY <2>1, <2>2, <2>3, PanicIs
  <2>5. QED
    BY <2>3, <2>4, FollowsSame
<1>2. CASE k \in IBlock
  <2> DEFINE need == NeedsBlock(s, p)
             s1 == IF need THEN ExtendDir(s, p) ELSE Used(s, iblock_get(s, p, k))
             b  == iblock_get(s1, p, k)
             old == IF need THEN EmptyBlock ELSE s.disk[BlockAt(b)]
             s2 == [s1 EXCEPT !.mem.inode[p].size = size + 1]
             v  == [s1.mem.inode[p] EXCEPT !.size = size + 1]
             val == [old EXCEPT ![j] = x]
             w  == free_rw_disk(s2, b, val)
             t  == inodes_rw_disk(w, p)
  <2>1. r = t
    BY <1>2 DEF diritem_push, PushBlock, PushSlot
  <2> HIDE DEF r
  <2>2. ASSUME s.mem.halt = "no"
        PROVE  /\ World(s, I) /\ p \in I /\ HoldsItems(s, p) /\ x \in EntryType
               /\ j \in Slot
               /\ need => FirstMissing(s, p, k)
               /\ ~need => k \in IBlocks(s, p)
               /\ \A m \in IBlocks(s, p) : iblock_get(s, p, m) \in s.mem.bmap
    <3>1. CanPush(s, T, p, x)
      BY <2>2
    <3>2. World(s, I) /\ p \in I /\ x \in EntryType
      BY <3>1, WholeIs DEF CanPush, Spare
    <3>3. HoldsItems(s, p) /\ DirSized(s, p)
      BY <3>1, ConsistentIs DEF CanPush, Whole, GoodDir
    <3>4. \A m \in IBlocks(s, p) : iblock_get(s, p, m) \in s.mem.bmap
      BY <3>2, OwnedIs DEF World, Sound
    <3> HIDE DEF need, k, j, I
    <3>5. QED
      BY <1>2, <3>2, <3>3, <3>4, PushBlockIs DEF need, k, j
  <2>3. /\ s1 \in FsState /\ Follows(s, s1) /\ s1.mem.halt \in {s.mem.halt, "full"}
        /\ s.mem.halt # "no" => s1.mem.halt # "no"
        /\ s1.mem.halt = "no" => s.mem.halt = "no" /\ Reached(s, s1, I, p, k)
        /\ s1.mem.halt = "no" /\ ~need => s1 = s
        /\ Quiet(s, s1, p)
        /\ s1.mem.halt = "no" /\ need /\ k < MAX_DIRECT => MapSaved(s1)
    <3>1. CASE need
      <4>1. s1 = ExtendDir(s, p)
        BY <3>1
      <4> HIDE DEF s1, need, I
      <4>2. /\ s1 \in FsState /\ Follows(s, s1) /\ s1.mem.halt \in {s.mem.halt, "full"}
            /\ s.mem.halt # "no" => s1.mem.halt # "no"
            /\ s1.mem.halt = "no" /\ World(s, I) /\ p \in I /\ FirstMissing(s, p, k)
                 => Reached(s, s1, I, p, k)
            /\ Quiet(s, s1, p)
            /\ s1.mem.halt = "no" /\ k < MAX_DIRECT => MapSaved(s1)
        <5>1. k = s.mem.inode[p].size \div MAX_DIRITEM_PER_BLOCK
          BY DEF PushBlock
        <5> HIDE DEF k
        <5>2. QED
          BY <1>2, <4>1, <5>1, ExtendDirIs
      <4>3. QED
        BY <2>2, <3>1, <4>2
    <3>2. CASE ~need
      <4>1. s1 = Used(s, iblock_get(s, p, k))
        BY <3>2
      <4> HIDE DEF s1, need, I, k
      <4>2. CASE s.mem.halt = "no"
        <5>1. s1 = s
          BY <2>2, <3>2, <4>1, <4>2 DEF Used
        <5>2. Reached(s, s, I, p, k)
          BY <2>2, <3>2, <4>2 DEF Reached, Alike
        <5>3. QED
          BY <3>2, <4>2, <5>1, <5>2, FollowsSame DEF Quiet
      <4>3. CASE s.mem.halt # "no"
        <5>1. "empty" \in Halts \ {"no"}
          BY DEF Halts
        <5>2. s1 = s
          BY <4>1, <4>3, <5>1, PanicIs DEF Used
        <5>3. QED
          BY <3>2, <4>3, <5>2, FollowsSame DEF Quiet
      <4>4. QED
        BY <4>2, <4>3
    <3>3. QED
      BY <3>1, <3>2
  <2> HIDE DEF s1
  <2>4. /\ s2 \in FsState /\ Follows(s1, s2) /\ s2.disk = s1.disk
        /\ s2.mem.imap = s1.mem.imap /\ s2.mem.bmap = s1.mem.bmap /\ s2.mem.halt = s1.mem.halt
        /\ s2.mem.inode = [s1.mem.inode EXCEPT ![p] = v]
        /\ v.size = size + 1 /\ v.iblocks = s1.mem.inode[p].iblocks
    <3> DEFINE m == size + 1
    <3>1. m \in Nat /\ s1 \in FsState /\ p \in Inode
      BY <1>0, <2>3
    <3> HIDE DEF size, m
    <3> DEFINE u == [s1 EXCEPT !.mem.inode[p].size = m]
               y == [s1.mem.inode[p] EXCEPT !.size = m]
    <3>2. /\ u \in FsState /\ Follows(s1, u) /\ u.disk = s1.disk
          /\ u.mem.imap = s1.mem.imap /\ u.mem.bmap = s1.mem.bmap /\ u.mem.halt = s1.mem.halt
          /\ u.mem.inode = [s1.mem.inode EXCEPT ![p] = y]
          /\ y.size = m /\ y.iblocks = s1.mem.inode[p].iblocks
      BY <3>1, SizeSet
    <3>3. QED
      BY <3>2 DEF m
  <2> HIDE DEF s2, v
  <2>12. Quiet(s1, s2, p) /\ SameMap(s1, s2)
    <3> HIDE DEF k, j, need, I
    <3>1. QED
      BY <2>3, <2>4, NodeQuiet
  <2>5. ASSUME s1.mem.halt = "no"
        PROVE  /\ b \in s1.mem.bmap /\ b \in Block /\ val \in BlockType /\ World(s1, I)
               /\ k \in IBlocks(s1, p) /\ j \in Slot /\ p \in I
               /\ old = IF k \in IBlocks(s, p) THEN Items(s, p, k) ELSE EmptyBlock
    <3>1. /\ s.mem.halt = "no" /\ World(s1, I) /\ p \in I /\ k \in IBlocks(s1, p)
          /\ HoldsItems(s, p) /\ x \in EntryType /\ j \in Slot
      BY <2>2, <2>3, <2>5 DEF Reached
    <3>2. b \in s1.mem.bmap /\ b \in Block
      BY <2>3, <3>1, OwnedIs DEF World, Sound
    <3>3. CASE need
      <4>1. old = EmptyBlock /\ k \notin IBlocks(s, p)
        BY <2>2, <3>1, <3>3 DEF FirstMissing
      <4>2. val \in BlockType
        BY <3>1, <4>1, ItemSet, EmptyBlockIs
      <4>3. QED
        BY <3>1, <3>2, <4>1, <4>2
    <3>4. CASE ~need
      <4>1. old = Items(s, p, k) /\ k \in IBlocks(s, p)
        BY <2>2, <2>3, <2>5, <3>1, <3>4 DEF Items
      <4>2. Items(s, p, k) \in [Slot -> EntryType]
        BY <3>1, <4>1, ItemsIs
      <4> HIDE DEF old, j, k
      <4>3. val \in BlockType
        BY <3>1, <4>1, <4>2, ItemSet
      <4>4. QED
        BY <3>1, <3>2, <4>1, <4>3
    <3>5. QED
      BY <3>3, <3>4
  <2> HIDE DEF val, b
  <2>6. /\ w \in FsState /\ Follows(s2, w)
        /\ s2.mem.halt # "no" => w = s2
        /\ b \in s2.mem.bmap => w.mem = s2.mem
        /\ w.mem.halt = "no" => w.disk = [s2.disk EXCEPT ![BlockAt(b)] = val]
    <3>1. s2.mem.halt = "no" /\ b \in s2.mem.bmap => val \in BlockType
      BY <2>4, <2>5
    <3>2. QED
      BY <2>4, <3>1, RwIs
  <2>13. Quiet(s2, w, p) /\ SameMap(s2, w)
    <3>1. s2.mem.halt = "no" /\ b \in s2.mem.bmap => val \in BlockType
      BY <2>4, <2>5
    <3>2. QED
      BY <2>4, <3>1, RwQuiet
  <2> HIDE DEF w
  <2>7. /\ t \in FsState /\ Follows(w, t) /\ t.mem = w.mem
        /\ w.mem.halt # "no" => t = w
        /\ w.mem.halt = "no" => t.disk = [w.disk EXCEPT ![InodeAt(p)] = w.mem.inode[p]]
    BY <2>6, InodeRwIs
  <2>14. /\ Quiet(w, t, p) /\ SameMap(w, t)
         /\ w.mem.halt = "no" => t.disk[InodeAt(p)] = t.mem.inode[p]
    BY <2>6, InodeRwQuiet
  <2> HIDE DEF t
  <2>8. t.mem = s2.mem /\ t.mem.halt \in {s.mem.halt, "full"} /\ (s.mem.halt # "no" => t.mem.halt # "no")
    <3>1. w.mem = s2.mem
      BY <2>4, <2>5, <2>6
    <3>2. QED
      BY <2>3, <2>4, <2>7, <3>1
  <2>9. Follows(s, t)
    BY <2>3, <2>4, <2>6, <2>7, FollowsOn
  <2>15. ASSUME t.mem.halt = "no" PROVE Stored(s, t, p)
    <3>1. s1.mem.halt = "no" /\ s2.mem.halt = "no" /\ w.mem.halt = "no" /\ s.mem.halt = "no"
      BY <2>3, <2>4, <2>7, <2>8, <2>15
    <3>2. Quiet(s, t, p)
      BY <2>3, <2>12, <2>13, <2>14, QuietOn
    <3>3. SameMap(s1, t)
      BY <2>12, <2>13, <2>14, <2>15, <3>1 DEF SameMap
    <3>4. t.disk[InodeAt(p)] = t.mem.inode[p]
      BY <2>14, <3>1
    <3>5. CASE need
      <4>1. k < MAX_DIRECT
        BY <3>1, PushDirect
      <4>2. MapSaved(s1)
        BY <2>3, <3>1, <3>5, <4>1
      <4>3. MapSaved(t)
        BY <2>15, <3>3, <4>2 DEF SameMap, MapSaved
      <4>4. QED
        BY <3>2, <3>4, <4>3 DEF Stored
    <3>6. CASE ~need
      <4>1. SameMap(s, t)
        BY <2>3, <3>1, <3>3, <3>6
      <4>2. DirSized(s, p)
        BY <3>1, ConsistentIs DEF CanPush, Whole, GoodDir
      <4>3. s.mem.inode[p].size # 0
        BY <1>0, <4>2 DEF DirSized
      <4>4. QED
        BY <3>2, <3>4, <4>1, <4>3 DEF Stored
    <3>7. QED
      BY <3>5, <3>6
  <2>10. ASSUME t.mem.halt = "no" PROVE Pushed(s, t, T, p, x)
    <3>1. s1.mem.halt = "no" /\ s2.mem.halt = "no" /\ w.mem.halt = "no"
      BY <2>4, <2>7, <2>8, <2>10
    <3>2. /\ b \in s1.mem.bmap /\ b \in Block /\ val \in BlockType /\ World(s1, I)
          /\ k \in IBlocks(s1, p) /\ j \in Slot /\ p \in I
          /\ old = IF k \in IBlocks(s, p) THEN Items(s, p, k) ELSE EmptyBlock
      BY <2>5, <3>1
    <3>3. Reached(s, s1, I, p, k)
      BY <2>3, <3>1
    <3>4. \A c \in Block : t.disk[BlockAt(c)] = IF c = b THEN val ELSE s1.disk[BlockAt(c)]
      <4>1. s2.disk \in DiskType /\ w.disk \in DiskType
        BY <2>4, <2>6, StateIs
      <4>2. \A c \in Block : w.disk[BlockAt(c)] = IF c = b THEN val ELSE s2.disk[BlockAt(c)]
        BY <2>6, <3>1, <4>1, SectorsApart, Sectors DEF DiskType
      <4>3. \A c \in Block : t.disk[BlockAt(c)] = w.disk[BlockAt(c)]
        BY <2>7, <3>1, <4>1, SectorsApart, Sectors DEF DiskType
      <4>4. QED
        BY <2>4, <4>2, <4>3
    <3>5. Rewrites(s1, t, p, k) /\ t.mem.inode[p].size = size + 1
      <4>1. s1.mem.inode \in [Inode -> InodeType]
        BY <2>3, StateIs
      <4>2. t.mem.inode = [s1.mem.inode EXCEPT ![p] = v]
        BY <2>4, <2>8
      <4>3. t.mem.inode[p] = v /\ \A i \in Inode \ {p} : t.mem.inode[i] = s1.mem.inode[i]
        BY <4>1, <4>2
      <4>4. QED
        BY <2>4, <2>8, <3>4, <4>3 DEF Rewrites, b
    <3> HIDE DEF k, j, old, I
    <3>6. /\ World(t, I) /\ \A i \in I \ {p} : Alike(s1, t, i)
          /\ \A m \in IBlock : iblock_get(t, p, m) = iblock_get(s1, p, m)
          /\ IBlocks(t, p) = IBlocks(s1, p)
          /\ \A m \in IBlocks(s1, p) \ {k} : Items(t, p, m) = Items(s1, p, m)
      BY <2>3, <2>7, <3>2, <3>5, RewritesIs
    <3>7. Items(t, p, k) = val
      BY <1>2, <3>2, <3>4, <3>6 DEF Items, b
    <3>8. \A i \in I \ {p} : Alike(s, t, i)
      <4>1. I \subseteq Inode
        BY <2>3, <3>2, StateIs DEF World, Sound
      <4>2. QED
        BY <2>3, <2>7, <3>3, <3>6, <4>1, AlikeOn DEF Reached
    <3>9. \A m \in IBlocks(s, p) \ {k} : Items(t, p, m) = Items(s, p, m)
      BY <3>3, <3>6 DEF Reached
    <3>10. IBlocks(t, p) = IBlocks(s, p) \cup {k}
      BY <3>3, <3>6 DEF Reached
    <3>11. QED
      BY <3>2, <3>5, <3>6, <3>7, <3>8, <3>9, <3>10 DEF Pushed, I, k, j, val
  <2>11. QED
    BY <2>1, <2>7, <2>8, <2>9, <2>10, <2>15 DEF r
<1>3. QED
  BY <1>1, <1>2

\* The index of a place tells the block and the slot.
LEMMA PlaceIndex ==
  ASSUME NEW m \in Nat, NEW M \in Nat \ {0}, NEW l \in 0..(M - 1)
  PROVE  m * M + l \in Nat /\ (m * M + l) \div M = m /\ (m * M + l) % M = l
<1> DEFINE n == m * M + l
           q == n \div M
           r == n % M
<1>1. n \in Nat
  OBVIOUS
<1>2. q \in Nat /\ r \in 0..(M - 1) /\ n = q * M + r
  BY <1>1, DivMod
<1> HIDE DEF q, r
<1>3. ASSUME NEW a \in Nat, NEW b \in Nat, NEW u \in 0..(M - 1), NEW v \in 0..(M - 1),
             a * M + u = b * M + v, a < b
      PROVE  FALSE
  <2>1. PICK d \in Nat : b = a + 1 + d
    <3>1. b - a - 1 \in Nat /\ b = a + 1 + (b - a - 1)
      BY <1>3
    <3>2. QED
      BY <3>1
  <2>2. b * M = a * M + M + d * M /\ a * M \in Nat /\ d * M \in Nat /\ b * M \in Nat
    BY <2>1
  <2> DEFINE x == a * M
             y == b * M
             z == d * M
  <2>3. x \in Nat /\ y \in Nat /\ z \in Nat /\ y = x + M + z /\ x + u = y + v
    BY <1>3, <2>2
  <2> HIDE DEF x, y, z
  <2>4. QED
    BY <2>3
<1>4. q = m
  <2>1. m * M + l = q * M + r
    BY <1>2
  <2>2. ~(q < m) /\ ~(m < q)
    BY <1>2, <1>3, <2>1
  <2>3. QED
    BY <1>2, <2>2
<1>5. r = l
  <2> DEFINE x == m * M
  <2>1. x \in Nat /\ x + l = x + r
    BY <1>2, <1>4
  <2> HIDE DEF x
  <2>2. QED
    BY <1>2, <2>1
<1>6. QED
  BY <1>1, <1>4, <1>5 DEF q, r

\* A pushed item makes the tree one item larger.  What was below an item that
\* no search saw, and that the new one overwrites, is out of the tree: its inode
\* is lost, and the directory holds one item less than its size has it hold.
LEMMA PushedTree ==
  ASSUME NEW s \in FsState, NEW t \in FsState, NEW T, NEW p, NEW x,
         CanPush(s, T, p, x), Pushed(s, t, T, p, x), t.mem.imap = s.mem.imap
  PROVE  FsConsistent(t) /\ (x.type = "file" => FileOf(t, AllTree(t), x.inode))
<1> DEFINE M == MAX_DIRITEM_PER_BLOCK
           n == s.mem.inode[p].size
           k == PushBlock(s, p)
           j == PushSlot(s, p)
           i == x.inode
           I == InodesOf(s, T) \cup {i}
           q == <<p, k, j>>
           T1 == T \cup {q}
<1>0. M \in Nat \ {0, 1} /\ Slot = 0..(M - 1) /\ \A m \in IBlock : m \in Nat
  BY Sizes DEF Slot, IBlock
<1>1. /\ Whole(s, T) /\ Consistent(s, T) /\ Closed(s, T) /\ Spare(s, T, x) /\ FreeName(s, p, x.name)
      /\ p \in DirsOf(s, T) /\ p \in InodesOf(s, T) /\ p \in Inode /\ p # i /\ i \in Inode
      /\ GoodDir(s, p)
  <2>1. Whole(s, T) /\ p \in DirsOf(s, T) /\ Spare(s, T, x) /\ FreeName(s, p, x.name)
    BY DEF CanPush
  <2>2. p \in InodesOf(s, T) /\ p \in Inode /\ p # i
    BY <2>1, WholeIs DEF Spare
  <2>3. QED
    BY <2>1, <2>2, ConsistentIs DEF Whole, Spare
<1>2. /\ World(t, I) /\ \A d \in I \ {p} : Alike(s, t, d)
      /\ t.mem.inode[p].size = n + 1
      /\ IBlocks(t, p) = IBlocks(s, p) \cup {k}
      /\ \A m \in IBlocks(s, p) \ {k} : Items(t, p, m) = Items(s, p, m)
      /\ Items(t, p, k) =
           [(IF k \in IBlocks(s, p) THEN Items(s, p, k) ELSE EmptyBlock) EXCEPT ![j] = x]
  BY DEF Pushed
<1>3. /\ n \in Nat /\ n >= 2 /\ k \in Nat /\ j \in Slot /\ n = k * M + j /\ k \in IBlock
      /\ IBlocks(s, p) \subseteq IBlock
  <2>1. k \in IBlock /\ IBlocks(s, p) \subseteq IBlock
    BY <1>2, IBlocksIs
  <2>2. DirSized(s, p)
    BY <1>1 DEF GoodDir
  <2> HIDE DEF k
  <2>3. QED
    BY <1>1, <2>1, <2>2, PushBlockIs DEF k
<1> HIDE DEF k, j
<1>4. /\ Items(t, p, k)[j] = x
      /\ \A l \in Slot \ {j} : k \in IBlocks(s, p) => Items(t, p, k)[l] = Items(s, p, k)[l]
      /\ \A l \in Slot \ {j} : k \notin IBlocks(s, p) => Items(t, p, k)[l] = Invalid
  <2> DEFINE old == IF k \in IBlocks(s, p) THEN Items(s, p, k) ELSE EmptyBlock
  <2>1. old \in [Slot -> EntryType]
    <3>1. HoldsItems(s, p)
      BY <1>1 DEF GoodDir
    <3>2. QED
      BY <1>1, <3>1, EmptyBlockIs, ItemsIs
  <2>2. x \in EntryType
    BY <1>1 DEF Spare
  <2> HIDE DEF old
  <2>3. /\ [old EXCEPT ![j] = x][j] = x
        /\ \A l \in Slot \ {j} : [old EXCEPT ![j] = x][l] = old[l]
    BY <1>3, <2>1, <2>2, ItemSet
  <2>4. Items(t, p, k) = [old EXCEPT ![j] = x]
    BY <1>2 DEF old
  <2>5. Items(t, p, k)[j] = x /\ \A l \in Slot \ {j} : Items(t, p, k)[l] = old[l]
    BY <2>3, <2>4
  <2>6. QED
    BY <2>5, EmptyBlockIs DEF old
<1>5. ASSUME NEW m \in IBlocks(s, p), NEW l \in Slot, ~(m = k /\ l = j)
      PROVE  Items(t, p, m)[l] = Items(s, p, m)[l]
  BY <1>2, <1>4, <1>5
<1>6. q[1] = p /\ q[2] = k /\ q[3] = j /\ ItemOf(t, q) = x
  BY <1>4 DEF ItemOf
<1>7. ASSUME NEW r \in AllItems(s, p), r # q PROVE ItemOf(t, r) = ItemOf(s, r)
  <2>1. PICK m \in IBlocks(s, p), l \in Slot : r = <<p, m, l>>
    BY PlacesIs
  <2>2. r[1] = p /\ r[2] = m /\ r[3] = l /\ ~(m = k /\ l = j)
    BY <1>7, <2>1
  <2> HIDE DEF q
  <2>3. QED
    BY <1>5, <2>2 DEF ItemOf
<1> HIDE DEF q
<1>8. ASSUME NEW r \in T, r # q PROVE ItemOf(t, r) = ItemOf(s, r)
  <2>1. r[1] \in DirsOf(s, T) /\ r \in AllItems(s, r[1]) /\ r[1] \in Inode /\ r[1] \in I
    BY <1>1, WholeIs
  <2>2. CASE r[1] = p
    BY <1>7, <1>8, <2>1, <2>2
  <2>3. CASE r[1] # p
    BY <1>2, <2>1, <2>3, SameItems
  <2>4. QED
    BY <2>2, <2>3
<1>9. /\ \A r \in T \ {q} : ItemOf(t, r).inode \in InodesOf(s, T)
      /\ \A r \in T \ {q} : ItemOf(t, r).type = "dir" => ItemOf(t, r).inode \in DirsOf(s, T)
      /\ \A r \in T1 : r # q => r \in T \ {q}
      /\ RootInode \in DirsOf(s, T)
  BY <1>1, <1>8, WholeIs
<1>10. InodesOf(t, T1) \subseteq I
  <2>1. RootInode \in InodesOf(s, T)
    BY <1>1, <1>9, WholeIs
  <2>2. QED
    BY <1>6, <1>9, <2>1 DEF InodesOf
<1>11. \A d \in DirsOf(t, T1) : d \in DirsOf(s, T) \/ (d = i /\ x.type = "dir")
  BY <1>6, <1>9 DEF DirsOf
<1>12. i \notin InodesOf(s, T)
  BY <1>1 DEF Spare
<1>13. ASSUME NEW a \in AllItems(t, p), ItemOf(t, a).type \in {"file", "dir"}, a # q
       PROVE  a \in AllItems(s, p) /\ ItemOf(t, a) = ItemOf(s, a)
  <2>1. PICK m \in IBlocks(t, p), l \in Slot : a = <<p, m, l>> /\ ~(m = 0 /\ l \in {0, 1})
    BY PlacesIs
  <2>2. a[1] = p /\ a[2] = m /\ a[3] = l /\ ~(m = k /\ l = j)
    BY <1>13, <2>1 DEF q
  <2>3. m \in IBlocks(s, p)
    <3>1. SUFFICES ASSUME m \notin IBlocks(s, p) PROVE FALSE
      OBVIOUS
    <3>2. m = k /\ l # j /\ ItemOf(t, a) = Invalid
      BY <1>2, <1>4, <2>2, <3>1 DEF ItemOf
    <3>3. QED
      BY <1>13, <3>2, EntryIs
  <2>4. a \in AllItems(s, p)
    BY <2>1, <2>3, PlacesIs
  <2>5. QED
    BY <1>7, <1>13, <2>4
<1>14. Closed(t, T1)
  <2> SUFFICES ASSUME NEW d \in DirsOf(t, T1), NEW a \in Valid(t, AllItems(t, d))
               PROVE  a \in T1
    BY DEF Closed
  <2>0. a \in AllItems(t, d) /\ ItemOf(t, a).type \in {"file", "dir"}
    BY DEF Valid
  <2>1. CASE d = p
    <3>1. CASE a = q
      BY <3>1
    <3>2. CASE a # q
      <4>1. a \in AllItems(s, p) /\ ItemOf(t, a) = ItemOf(s, a)
        BY <1>13, <2>0, <2>1, <3>2
      <4>2. a \in Valid(s, AllItems(s, p))
        BY <2>0, <4>1 DEF Valid
      <4>3. QED
        BY <1>1, <4>2 DEF Closed
    <3>3. QED
      BY <3>1, <3>2
  <2>2. CASE d # p
    <3>1. d \in I \ {p} /\ d \in Inode
      BY <1>1, <1>11, <2>2, WholeIs
    <3>2. Valid(t, AllItems(t, d)) = Valid(s, AllItems(s, d))
      BY <1>2, <3>1, SameItems
    <3>3. d \in DirsOf(s, T)
      BY <1>1, <1>11, <3>2 DEF Spare
    <3>4. QED
      BY <1>1, <3>2, <3>3 DEF Closed
  <2>3. QED
    BY <2>1, <2>2
<1>15. HoldsItems(t, p)
  <2>1. HoldsItems(s, p)
    BY <1>1 DEF GoodDir
  <2>2. ASSUME NEW m \in IBlocks(t, p), NEW l \in Slot
        PROVE  Items(t, p, m)[l].type \in {"invalid", "file", "dir"}
    <3>1. CASE m = k /\ l = j
      BY <1>1, <1>4, <3>1 DEF Spare
    <3>2. CASE ~(m = k /\ l = j) /\ m \in IBlocks(s, p)
      BY <1>5, <2>1, <3>2 DEF HoldsItems
    <3>3. CASE ~(m = k /\ l = j) /\ m \notin IBlocks(s, p)
      <4>1. m = k /\ l \in Slot \ {j}
        BY <1>2, <3>3
      <4>2. Items(t, p, m)[l] = Invalid
        BY <1>4, <3>3, <4>1
      <4>3. QED
        BY <4>2, EntryIs
    <3>4. QED
      BY <3>1, <3>2, <3>3
  <2>3. k = 0 => j >= 2
    BY <1>0, <1>3
  <2>4. 0 \in Slot /\ 1 \in Slot
    BY <1>0
  <2>5. 0 \in IBlocks(s, p) /\ ~(k = 0 /\ j = 0) /\ ~(k = 0 /\ j = 1)
    BY <1>3, <2>1, <2>3 DEF HoldsItems
  <2>6. Items(t, p, 0)[0] = Items(s, p, 0)[0] /\ Items(t, p, 0)[1] = Items(s, p, 0)[1]
    BY <1>5, <2>4, <2>5
  <2>7. QED
    BY <1>2, <2>1, <2>2, <2>5, <2>6 DEF HoldsItems
<1>16. DirSized(t, p)
  <2>1. ASSUME NEW m \in IBlock, (m + 1) * M <= n + 1 PROVE m \in IBlocks(t, p)
    <3>1. m \in Nat /\ (m + 1) * M \in Nat /\ (m + 1) * M = m * M + M /\ m * M \in Nat
      BY <1>0
    <3>2. CASE (m + 1) * M <= n
      BY <1>1, <1>2, <3>2 DEF GoodDir, DirSized
    <3>3. CASE ~((m + 1) * M <= n)
      <4> DEFINE y == (m + 1) * M
                 z == m * M
      <4>1. y \in Nat /\ y <= n + 1 /\ ~(y <= n) /\ y = z + M /\ z \in Nat
        BY <2>1, <3>1, <3>3
      <4> HIDE DEF y, z, M, n
      <4>2. n = z + (M - 1)
        BY <1>0, <1>3, <4>1
      <4>3. M - 1 \in 0..(M - 1) /\ M \in Nat \ {0}
        BY <1>0
      <4>4. n \div M = m
        BY <3>1, <4>2, <4>3, PlaceIndex DEF z
      <4>5. n \div M = k
        BY <1>0, <1>3, PlaceIndex
      <4>6. QED
        BY <1>2, <4>4, <4>5
    <3>4. QED
      BY <3>2, <3>3
  <2>2. n + 1 >= 2
    BY <1>3
  <2>3. QED
    BY <1>2, <2>1, <2>2 DEF DirSized
<1>17. ASSUME NEW a \in Valid(t, SeenItems(t, p)), a # q
       PROVE  a \in Valid(s, SeenItems(s, p)) /\ ItemOf(t, a) = ItemOf(s, a)
  <2>0. a \in AllItems(t, p) /\ ItemOf(t, a).type \in {"file", "dir"}
        /\ a[2] * M + a[3] \in InSize(t, p)
    BY DEF Valid, SeenItems
  <2>1. a \in AllItems(s, p) /\ ItemOf(t, a) = ItemOf(s, a)
    BY <1>13, <1>17, <2>0
  <2>2. PICK m \in IBlocks(s, p), l \in Slot : a = <<p, m, l>>
    BY <2>1, PlacesIs
  <2>3. a[2] = m /\ a[3] = l /\ m \in Nat /\ ~(m = k /\ l = j)
    BY <1>0, <1>3, <1>17, <2>2 DEF q
  <2> DEFINE y == m * M + l
  <2>4. y \in Nat /\ y \div M = m /\ y % M = l
    <3>1. l \in 0..(M - 1) /\ M \in Nat \ {0} /\ m \in Nat
      BY <1>0, <2>3
    <3> HIDE DEF M
    <3>2. QED
      BY <3>1, PlaceIndex
  <2>5. y < n + 1
    BY <1>1, <1>2, <2>0, <2>3, InSizeIs
  <2>6. n \div M = k /\ n % M = j
    BY <1>0, <1>3, PlaceIndex
  <2> HIDE DEF y
  <2>7. y # n
    BY <2>3, <2>4, <2>6
  <2>8. y \in InSize(s, p)
    <3>1. y \in 0..(n - 1)
      BY <1>3, <2>4, <2>5, <2>7
    <3>2. QED
      BY <2>4, <3>1 DEF InSize
  <2>9. a[2] * M + a[3] \in InSize(s, p)
    BY <2>3, <2>8 DEF y
  <2>10. QED
    BY <2>0, <2>1, <2>9 DEF Valid, SeenItems
<1>18. NamedOnce(t, p)
  <2>1. NamedOnce(s, p)
    BY <1>1 DEF GoodDir
  <2>2. \A a \in Valid(s, SeenItems(s, p)) : ItemOf(s, a).name # x.name
    BY <1>1 DEF FreeName
  <2>3. QED
    BY <1>6, <1>17, <2>1, <2>2 DEF NamedOnce
<1>19. \A d \in DirsOf(t, T1) : GoodDir(t, d)
  <2> TAKE d \in DirsOf(t, T1)
  <2>1. CASE d = p
    BY <1>15, <1>16, <1>18, <2>1 DEF GoodDir
  <2>2. CASE d # p
    <3>1. d \in I \ {p} /\ d \in Inode
      BY <1>1, <1>11, <2>2, WholeIs
    <3>2. GoodDir(s, d)
      BY <1>1, <1>11, ConsistentIs DEF Spare
    <3>3. QED
      BY <1>2, <3>1, <3>2, SameItems, SameBlocks DEF GoodDir
  <2>3. QED
    BY <2>1, <2>2
<1>20. \A a, b \in T1 : ItemOf(t, a).inode = ItemOf(t, b).inode => a = b
  <2>1. \A a, b \in T : ItemOf(s, a).inode = ItemOf(s, b).inode => a = b
    BY <1>1, ConsistentIs
  <2>2. QED
    BY <1>6, <1>8, <1>9, <1>12, <2>1
<1>21. \A a \in T1 : ItemOf(t, a).inode # RootInode
  <2>1. \A a \in T : ItemOf(s, a).inode # RootInode
    BY <1>1, ConsistentIs
  <2>2. RootInode # i
    BY <1>1, <1>9, <1>12, WholeIs
  <2>3. QED
    BY <1>6, <1>8, <2>1, <2>2
<1>22. \A a \in T1 : ItemOf(t, a).type = "file" => FileSized(t, ItemOf(t, a).inode)
  <2> TAKE a \in T1
  <2> HAVE ItemOf(t, a).type = "file"
  <2> DEFINE d == ItemOf(t, a).inode
  <2>1. CASE a = q
    <3>1. d = i /\ x.type = "file"
      BY <1>6, <2>1
    <3>2. FileSized(s, i) /\ Alike(s, t, i)
      BY <1>1, <1>2, <3>1 DEF Spare
    <3> HIDE DEF d, i
    <3>3. QED
      BY <1>1, <3>1, <3>2, SameBlocks DEF d
  <2>2. CASE a # q
    <3>1. a \in T /\ ItemOf(t, a) = ItemOf(s, a)
      BY <1>8, <1>9, <2>2
    <3>2. FileSized(s, d) /\ d \in I \ {p} /\ d \in Inode
      BY <1>1, <3>1, ConsistentIs, WholeIs
    <3>3. Alike(s, t, d)
      BY <1>2, <3>2
    <3> HIDE DEF d
    <3>4. QED
      BY <3>2, <3>3, SameBlocks DEF d
  <2>3. QED
    BY <2>1, <2>2
<1>23. World(t, InodesOf(t, T1))
  BY <1>2, <1>10 DEF World
<1>24. Kin(t, T1)
  <2>1. Items(t, p, 0)[1] = Items(s, p, 0)[1]
    <3>1. 0 \in IBlocks(s, p)
      BY <1>1 DEF GoodDir, HoldsItems
    <3>2. k = 0 => j >= 2
      BY <1>0, <1>3
    <3>3. 1 \in Slot /\ ~(k = 0 /\ j = 1)
      BY <1>0, <3>2
    <3>4. QED
      BY <1>5, <3>1, <3>3
  <2>2. \A d \in DirsOf(s, T) : Items(t, d, 0)[1] = Items(s, d, 0)[1]
    <3> TAKE d \in DirsOf(s, T)
    <3>1. CASE d # p
      <4>1. d \in I \ {p} /\ d \in Inode
        BY <1>1, <3>1, WholeIs
      <4>2. 0 \in IBlocks(s, d)
        BY <1>1, ConsistentIs DEF GoodDir, HoldsItems
      <4>3. Items(t, d, 0) = Items(s, d, 0)
        BY <1>2, <4>1, <4>2, SameItems
      <4>4. QED
        BY <4>3
    <3>2. QED
      BY <2>1, <3>1
  <2>3. x.type = "dir" => HasParent(t, i, p)
    <3> HAVE x.type = "dir"
    <3>1. HasParent(s, i, p) /\ HoldsItems(s, i) /\ Alike(s, t, i)
      BY <1>1, <1>2 DEF CanPush, Spare, GoodDir
    <3>2. Items(t, i, 0) = Items(s, i, 0)
      BY <1>1, <3>1, SameItems DEF HoldsItems
    <3>3. QED
      BY <3>1, <3>2 DEF HasParent
  <2>4. ASSUME NEW r \in T1, ItemOf(t, r).type = "dir"
        PROVE  \/ HasParent(t, ItemOf(t, r).inode, r[1])
               \/ /\ r \in T /\ ItemOf(t, r) = ItemOf(s, r)
                  /\ Items(t, ItemOf(s, r).inode, 0)[1] = Items(s, ItemOf(s, r).inode, 0)[1]
    <3>1. CASE r = q
      BY <1>6, <2>3, <2>4, <3>1
    <3>2. CASE r # q
      <4>1. r \in T /\ ItemOf(t, r) = ItemOf(s, r)
        BY <1>8, <1>9, <3>2
      <4>2. ItemOf(s, r).inode \in DirsOf(s, T)
        BY <1>1, <2>4, <4>1, WholeIs
      <4>3. QED
        BY <2>2, <4>1, <4>2
    <3>3. QED
      BY <3>1, <3>2
  <2>5. Items(t, RootInode, 0)[1] = Items(s, RootInode, 0)[1]
    BY <1>9, <2>2
  <2>6. QED
    BY <1>1, <2>4, <2>5, KinKept
<1>29. Consistent(t, T1)
  BY <1>19, <1>20, <1>21, <1>22, <1>23, <1>24, ConsistentIs DEF World
<1>25. Tidy(t)
  BY <1>14, <1>29, WholeConsistent
<1>26. ASSUME x.type = "file" PROVE FileOf(t, AllTree(t), i)
  <2>1. AllTree(t) \subseteq T1
    BY <1>14, TreeInside
  <2>2. /\ InodesOf(t, AllTree(t)) \subseteq InodesOf(t, T1)
        /\ DirsOf(t, AllTree(t)) \subseteq DirsOf(t, T1)
    BY <2>1 DEF InodesOf, DirsOf
  <2>3. i \notin DirsOf(t, AllTree(t))
    BY <1>1, <1>11, <1>12, <1>26, <2>2, WholeIs
  <2>4. InodesOf(t, AllTree(t)) \cup {i} \subseteq I
    BY <1>10, <2>2
  <2>5. World(t, InodesOf(t, AllTree(t)) \cup {i})
    BY <1>2, <2>4 DEF World
  <2>6. QED
    BY <1>1, <2>3, <2>5 DEF FileOf
<1>27. Counted(t, AllTree(t))
  <2> DEFINE A == AllTree(t)
             h == Cardinality(Hold(s, p))
  <2>1. /\ InodesOf(t, A) \subseteq InodesOf(t, T1) /\ DirsOf(t, A) \subseteq DirsOf(t, T1)
    BY <1>14, SmallerTree
  <2> HIDE DEF A
  <2>2. /\ IsFiniteSet(Hold(s, p)) /\ h \in Nat
        /\ \A c \in DirsOf(s, T) : c \in Inode /\ Span(s, c) \subseteq Int
    BY <1>1, TreeSizes, SpanInt
  <2>3. /\ Span(s, p) = (h + 2)..(n - 1)
        /\ Span(t, p) = (Cardinality(Hold(t, p)) + 2)..n
    <3>1. t.mem.inode[p].size = n + 1 /\ s.mem.inode[p].size = n /\ n \in Nat
      BY <1>2, <1>3
    <3> HIDE DEF n, h
    <3>2. t.mem.inode[p].size - 1 = n
      BY <3>1
    <3>3. Span(t, p) = (Cardinality(Hold(t, p)) + 2)..n
      BY Zenon, <3>2 DEF Span
    <3>4. QED
      BY Zenon, <3>1, <3>3 DEF Span, h
  <2>4. ASSUME NEW c \in DirsOf(s, T), c # p PROVE Span(t, c) = Span(s, c)
    <3>1. c \in I \ {p} /\ c \in Inode /\ Alike(s, t, c)
      BY <1>1, <1>2, <2>4, WholeIs
    <3>2. Hold(t, c) = Hold(s, c) /\ t.mem.inode[c].size = s.mem.inode[c].size
      BY <3>1, SameItems DEF Hold, Alike
    <3>3. QED
      BY <3>2 DEF Span
  <2>5. ASSUME x.type = "dir" PROVE Span(t, i) = {}
    <3>1. Alike(s, t, i) /\ Valid(s, AllItems(s, i)) = {} /\ s.mem.inode[i].size = 2
      BY <1>1, <1>2, <2>5 DEF Spare
    <3>2. Hold(t, i) = {} /\ t.mem.inode[i].size = 2
      BY <1>1, <3>1, SameItems DEF Hold, Alike
    <3>3. Cardinality(Hold(t, i)) = 0
      BY <3>2, FS_EmptySet
    <3>4. QED
      BY <3>2, <3>3 DEF Span
  <2>6. ASSUME NEW c \in DirsOf(t, A), NEW m \in Span(t, c)
        PROVE  c \in DirsOf(s, T) /\ (c # p => m \in Span(s, c) /\ m \in Int)
    <3>1. c \in DirsOf(s, T)
      BY <1>11, <2>1, <2>5
    <3>2. QED
      BY <2>2, <2>4, <3>1
  <2>7. q \in Hold(t, p)
    <3>1. k \in IBlocks(t, p) /\ j \in Slot /\ ~(k = 0 /\ j \in {0, 1})
      <4>1. k = 0 => j >= 2
        BY <1>0, <1>3
      <4>2. QED
        BY <1>2, <1>3, <4>1
    <3>2. q \in AllItems(t, p)
      BY <3>1, PlacesIs DEF q
    <3>3. QED
      BY <1>1, <1>6, <3>2 DEF Hold, Valid, Spare
  <2>8. Hold(t, p) = Hold(s, p) \cup {q}
    <3>1. ASSUME NEW a \in Hold(s, p), a # q PROVE a \in Hold(t, p)
      <4>1. a \in AllItems(s, p) /\ ItemOf(s, a).type \in {"file", "dir"}
        BY <3>1 DEF Hold, Valid
      <4>2. a \in AllItems(t, p)
        BY <1>2, <4>1, PlacesIs
      <4>3. ItemOf(t, a) = ItemOf(s, a)
        BY <1>7, <3>1, <4>1
      <4>4. QED
        BY <4>1, <4>2, <4>3 DEF Hold, Valid
    <3>2. ASSUME NEW a \in Hold(t, p), a # q PROVE a \in Hold(s, p)
      <4>1. a \in AllItems(t, p) /\ ItemOf(t, a).type \in {"file", "dir"}
        BY <3>2 DEF Hold, Valid
      <4>2. a \in AllItems(s, p) /\ ItemOf(t, a) = ItemOf(s, a)
        BY <1>13, <3>2, <4>1
      <4>3. QED
        BY <4>1, <4>2 DEF Hold, Valid
    <3>3. QED
      BY <2>7, <3>1, <3>2
  <2>9. Lost(s, T) \ {i} \subseteq Lost(t, A)
    BY <1>10, <2>1 DEF Lost
  <2> DEFINE e  == Cardinality(Excess(s, T))
             e1 == Cardinality(Excess(t, A))
             L  == Lost(s, T) \ {i}
             L1 == Lost(t, A)
  <2>10. /\ IsFiniteSet(Excess(s, T)) /\ e \in Nat /\ e <= Cardinality(L)
         /\ IsFiniteSet(L) /\ Cardinality(L) \in Nat
         /\ IsFiniteSet(L1) /\ Cardinality(L1) \in Nat
    <3>1. IsFiniteSet(Lost(s, T)) /\ IsFiniteSet(L1) /\ Cardinality(L1) \in Nat
      BY LostFinite
    <3>2. L \in SUBSET Lost(s, T)
      OBVIOUS
    <3>3. IsFiniteSet(L)
      BY <3>1, <3>2, FS_Subset
    <3>4. e <= Cardinality(L)
      BY DEF CanPush
    <3> HIDE DEF L, L1, e
    <3>5. Cardinality(L) \in Nat
      BY <3>3, FS_CardinalityType
    <3>6. IsFiniteSet(Excess(s, T)) /\ e \in Nat
      BY <1>1, ExcessFinite DEF e
    <3>7. QED
      BY <3>1, <3>3, <3>4, <3>5, <3>6
  <2>11. CASE q \notin Hold(s, p)
    <3>1. Cardinality(Hold(t, p)) = h + 1
      BY <2>2, <2>8, <2>11, FS_AddElement
    <3>2. ASSUME NEW c \in DirsOf(t, A), NEW m \in Span(t, c)
          PROVE  c \in DirsOf(s, T) /\ m \in Int /\ Move(p, -1, c, m) \in Span(s, c)
      <4>1. CASE c = p
        <5>1. m \in (h + 3)..n
          BY <2>2, <2>3, <3>1, <4>1
        <5>2. m \in Int /\ m - 1 \in Span(s, p) /\ m + (-1) = m - 1
          BY <1>3, <2>2, <2>3, <5>1
        <5>3. QED
          BY <2>6, <4>1, <5>2 DEF Move
      <4>2. CASE c # p
        BY <2>6, <4>2 DEF Move
      <4>3. QED
        BY <4>1, <4>2
    <3>3. e1 \in Nat /\ e1 <= e
      <4>1. -1 \in Int
        OBVIOUS
      <4>2. QED
        BY <1>1, <3>2, <4>1, ExcessMoves
    <3> HIDE DEF L, L1, e, e1
    <3>4. Cardinality(L) <= Cardinality(L1)
      <4>1. L \in SUBSET L1
        BY <2>9 DEF L, L1
      <4>2. QED
        BY <2>10, <4>1, FS_Subset
    <3>5. e1 <= Cardinality(L1)
      BY <2>10, <3>3, <3>4
    <3>6. QED
      BY <3>5 DEF Counted, e1, L1, A
  <2>12. CASE q \in Hold(s, p)
    <3> DEFINE y == ItemOf(s, q).inode
    <3>1. q \in T
      BY <1>1, <2>12 DEF Hold, Closed
    <3>2. y \in InodesOf(s, T)
      BY <3>1 DEF InodesOf
    <3>3. y \notin InodesOf(t, T1)
      <4>1. y # RootInode /\ \A r \in T \ {q} : ItemOf(s, r).inode # y
        BY <1>1, <3>1, ConsistentIs
      <4>2. ItemOf(t, q).inode # y
        BY <1>6, <1>12, <3>2
      <4>3. \A r \in T1 : ItemOf(t, r).inode # y
        BY <1>8, <4>1, <4>2
      <4> HIDE DEF y, T1
      <4>4. y \notin {ItemOf(t, r).inode : r \in T1}
        BY <4>3
      <4>5. QED
        BY <4>1, <4>4 DEF InodesOf
    <3>4. y \in L1 \ L
      <4>1. InodesOf(s, T) \subseteq s.mem.imap
        BY <1>1 DEF Consistent
      <4>2. y \in t.mem.imap
        BY <3>2, <4>1
      <4> HIDE DEF y
      <4>3. QED
        BY <2>1, <3>2, <3>3, <4>2 DEF Lost
    <3>5. Excess(t, A) \subseteq Excess(s, T) \cup {<<p, n>>}
      <4> SUFFICES ASSUME NEW z \in Excess(t, A) PROVE z \in Excess(s, T) \/ z = <<p, n>>
        OBVIOUS
      <4>1. PICK c \in DirsOf(t, A) : \E m \in Span(t, c) : z = <<c, m>>
        BY ExcessIs
      <4>2. PICK m \in Span(t, c) : z = <<c, m>>
        BY <4>1
      <4>3. c \in DirsOf(s, T) /\ (c # p => m \in Span(s, c))
        BY <2>6
      <4>4. CASE c = p
        <5>1. Hold(t, p) = Hold(s, p)
          BY <2>8, <2>12
        <5>2. m \in (h + 2)..n
          BY <2>3, <4>4, <5>1
        <5>3. m = n \/ m \in Span(s, p)
          BY <1>3, <2>2, <2>3, <5>2
        <5>4. QED
          BY <4>2, <4>3, <4>4, <5>3, ExcessIs
      <4>5. CASE c # p
        BY <4>2, <4>3, <4>5, ExcessIs
      <4>6. QED
        BY <4>4, <4>5
    <3> DEFINE E == Excess(s, T) \cup {<<p, n>>}
               L2 == L \cup {y}
    <3>6. L2 \in SUBSET L1 /\ y \notin L
      BY <2>9, <3>4
    <3>7. Excess(t, A) \in SUBSET E
      BY <3>5
    <3>8. IsFiniteSet(E) /\ Cardinality(E) \in Nat /\ Cardinality(E) <= e + 1
      <4> DEFINE z == <<p, n>>
                 X == Excess(s, T)
      <4>1. IsFiniteSet(X) /\ Cardinality(X) \in Nat
        BY <2>10
      <4> HIDE DEF z, X
      <4>2. IsFiniteSet(X \cup {z}) /\ Cardinality(X \cup {z}) = IF z \in X THEN Cardinality(X) ELSE Cardinality(X) + 1
        BY <4>1, FS_AddElement
      <4>3. QED
        BY <4>1, <4>2 DEF z, X
    <3> HIDE DEF E, L, L1, L2, y
    <3>9. Cardinality(L2) = Cardinality(L) + 1
      BY <2>10, <3>6, FS_AddElement DEF L2
    <3>10. Cardinality(L2) <= Cardinality(L1)
      BY <2>10, <3>6, FS_Subset
    <3>11. e1 <= Cardinality(E) /\ IsFiniteSet(Excess(t, A))
      BY <3>7, <3>8, FS_Subset
    <3>12. e1 \in Nat
      BY <3>11, FS_CardinalityType
    <3> HIDE DEF e, e1
    <3>13. e1 <= Cardinality(L1)
      BY <2>10, <3>8, <3>9, <3>10, <3>11, <3>12
    <3>14. QED
      BY <3>13 DEF Counted, e1, L1, A
  <2>13. QED
    BY <2>11, <2>12
<1>28. QED
  BY <1>25, <1>26, <1>27 DEF FsConsistent, Tidy
-----------------------------------------------------------------------------
\* A new inode leaves the tree as it is.
LEMMA CreatedKeeps ==
  ASSUME NEW s \in FsState, NEW t \in FsState, NEW T, Whole(s, T), NEW i \in Inode,
         NEW b \in Block, NEW type \in {"file", "dir"}, NEW parent \in Inode,
         Created(s, t, i, b, type, parent), NEW name \in Name
  PROVE  /\ Whole(t, T) /\ DirsOf(t, T) = DirsOf(s, T)
         /\ Spare(t, T, Entry(type, i, name)) /\ (type = "dir" => HasParent(t, i, parent))
         /\ \A d \in InodesOf(s, T) : Alike(s, t, d)
         /\ Counted(s, T) => Cardinality(Excess(t, T)) <= Cardinality(Lost(t, T) \ {i})
<1> DEFINE x == Entry(type, i, name)
           I == InodesOf(s, T)
<1>1. World(s, I) /\ I \subseteq Inode /\ I \subseteq s.mem.imap
  BY WholeIs, WholeWorld DEF World, Sound
<1>2. i \notin I /\ i \notin s.mem.imap /\ b \notin s.mem.bmap
  BY <1>1 DEF Created
<1>3. ASSUME NEW d \in I PROVE Alike(s, t, d)
  <2>1. Owned(s, d) \subseteq Block \ {b}
    BY <1>1, <1>2, OwnedIs DEF World, Sound
  <2>2. QED
    BY <1>1, <1>2, <2>1 DEF Alike, Created
<1>4. World(t, I)
  <2>1. \A d \in I : d \in t.mem.imap /\ Owned(s, d) \subseteq t.mem.bmap
    BY <1>1 DEF World, Sound, Created
  <2>2. QED
    BY <1>1, <1>3, <2>1, WorldKept
<1>5. /\ Whole(t, T) /\ InodesOf(t, T) = I /\ DirsOf(t, T) = DirsOf(s, T)
      /\ \A d \in DirsOf(s, T) : Span(t, d) = Span(s, d)
  <2>1. \A d \in DirsOf(s, T) : Alike(s, t, d)
    BY <1>3, WholeIs
  <2>2. \A p \in T : ItemOf(s, p).type = "file" => FileSized(t, ItemOf(s, p).inode)
    <3> TAKE p \in T
    <3> HAVE ItemOf(s, p).type = "file"
    <3> DEFINE d == ItemOf(s, p).inode
    <3>1. d \in I /\ d \in Inode /\ FileSized(s, d)
      BY <1>1, WholeIs, ConsistentIs DEF Whole
    <3>2. Alike(s, t, d)
      BY <1>3, <3>1
    <3> HIDE DEF d
    <3>3. QED
      BY <3>1, <3>2, SameBlocks DEF d
  <2>3. QED
    BY <1>4, <2>1, <2>2, SameTree
<1>6. /\ IBlocks(t, i) = {0} /\ iblock_get(t, i, 0) = b
      /\ Owned(t, i) = {b} /\ Apart(t, i) /\ Packed(t, i)
  BY OneBlockIs DEF Created
<1>7. World(t, I \cup {i})
  <2>1. Sound(t, i)
    BY <1>6 DEF Sound, Created
  <2>2. \A d \in I : Owned(t, d) \cap Owned(t, i) = {}
    <3>1. \A d \in I : Owned(t, d) = Owned(s, d) /\ Owned(s, d) \subseteq s.mem.bmap
      BY <1>1, <1>3, SameBlocks DEF World, Sound
    <3>2. QED
      BY <1>2, <1>6, <3>1
  <2>3. QED
    BY <1>4, <2>1, <2>2 DEF World
<1>8. x.type = type /\ x.inode = i
  BY DEF Entry
<1>9. x \in EntryType
  BY DotNames DEF Entry, EntryType
<1> HIDE DEF x
<1>10. ASSUME Counted(s, T) PROVE Cardinality(Excess(t, T)) <= Cardinality(Lost(t, T) \ {i})
  <2> DEFINE e  == Cardinality(Excess(s, T))
             e1 == Cardinality(Excess(t, T))
             L  == Lost(s, T)
             L1 == Lost(t, T) \ {i}
  <2>1. ASSUME NEW c \in DirsOf(t, T), NEW m \in Span(t, c)
        PROVE  c \in DirsOf(s, T) /\ m \in Int /\ Move(-1, 0, c, m) \in Span(s, c)
    <3>1. c \in DirsOf(s, T) /\ m \in Span(s, c) /\ m \in Int
      BY <1>5, SpanInt
    <3>2. m + 0 = m
      BY <3>1
    <3>3. QED
      BY <3>1, <3>2 DEF Move
  <2>2. e1 \in Nat /\ e1 <= e
    <3>1. 0 \in Int
      OBVIOUS
    <3>2. QED
      BY <2>1, <3>1, ExcessMoves
  <2>3. e \in Nat
    BY ExcessFinite
  <2>4. IsFiniteSet(L) /\ Cardinality(L) \in Nat /\ IsFiniteSet(Lost(t, T)) /\ e <= Cardinality(L)
    BY <1>10, LostFinite DEF Counted
  <2>5. L \in SUBSET L1 /\ L1 \in SUBSET Lost(t, T)
    <3>1. L \subseteq Lost(t, T)
      BY <1>5 DEF Lost, Created
    <3>2. i \notin L
      BY <1>2 DEF Lost
    <3> HIDE DEF L
    <3>3. QED
      BY <3>1, <3>2
  <2> HIDE DEF e, e1, L, L1
  <2>6. IsFiniteSet(L1) /\ Cardinality(L) <= Cardinality(L1)
    BY <2>4, <2>5, FS_Subset
  <2>7. Cardinality(L1) \in Nat
    BY <2>6, FS_CardinalityType
  <2>8. e1 <= Cardinality(L1)
    BY <2>2, <2>3, <2>4, <2>6, <2>7
  <2>9. QED
    BY <2>8 DEF e1, L1
<1>11. CASE type = "dir"
  <2>1. GoodDir(t, i) /\ Valid(t, AllItems(t, i)) = {} /\ HasParent(t, i, parent)
    <3>1. /\ OneBlock(t, i, b) /\ t.disk[BlockAt(b)] = NewDirBlock(i, parent)
          /\ t.mem.inode[i].size = 2 /\ parent \in Inode \cup {-1}
      BY <1>11 DEF Created
    <3>2. QED
      BY <3>1, NewDirIs
  <2>2. t.mem.inode[i].size = 2
    BY <1>11 DEF Created
  <2>3. Spare(t, T, x)
    BY <1>2, <1>5, <1>7, <1>8, <1>9, <1>11, <2>1, <2>2 DEF Spare
  <2>4. QED
    BY <1>3, <1>5, <1>10, <2>1, <2>3 DEF x
<1>12. CASE type = "file"
  <2>1. FileSized(t, i)
    BY <1>12 DEF FileSized, Created
  <2>2. Spare(t, T, x)
    BY <1>2, <1>5, <1>7, <1>8, <1>9, <1>12, <2>1 DEF Spare
  <2>3. QED
    BY <1>3, <1>5, <1>10, <1>12, <2>2 DEF x
<1>13. QED
  BY <1>11, <1>12

\* On the disk as well.
LEMMA CreatedSaved ==
  ASSUME NEW s \in FsState, NEW t \in FsState, NEW i \in Inode, NEW b \in Block,
         NEW type, NEW parent, Created(s, t, i, b, type, parent), SavedIn(s)
  PROVE  SavedIn(t)
<1>1. \A j \in t.mem.imap : t.disk[InodeAt(j)] = t.mem.inode[j]
  <2> TAKE j \in t.mem.imap
  <2>1. CASE j = i
    BY <2>1 DEF Created
  <2>2. CASE j # i
    <3>1. j \in s.mem.imap /\ j \in Inode \ {i}
      BY <2>2, StateIs DEF Created
    <3>2. QED
      BY <3>1 DEF Created, SavedIn
  <2>3. QED
    BY <2>1, <2>2
<1>2. t.disk[MapInodes] = t.mem.imap /\ t.mem.bmap = s.mem.bmap \cup {b}
  BY DEF Created
<1>3. CASE type = "file"
  <2>1. MapOn(t.disk) = MapOn(s.disk)
    BY <1>3 DEF Created
  <2>2. b \in Unwritten(t)
    <3>1. i \in t.mem.imap /\ t.mem.inode[i].size = 0 /\ t.mem.inode[i].iblocks[0] = b
      BY <1>3 DEF Created, OneBlock
    <3>2. QED
      BY <3>1 DEF Unwritten
  <2>3. Unwritten(s) \subseteq Unwritten(t)
    <3>1. \A j \in s.mem.imap : j \in t.mem.imap /\ t.mem.inode[j] = s.mem.inode[j]
      BY StateIs DEF Created
    <3>2. QED
      BY <3>1 DEF Unwritten
  <2>4. /\ MapOn(s.disk) \cap Sent \subseteq s.mem.bmap
        /\ (s.mem.bmap \cap Sent) \ MapOn(s.disk) \subseteq Unwritten(s)
    BY DEF SavedIn
  <2>5. MapOn(t.disk) \cap Sent \subseteq t.mem.bmap
    BY <1>2, <2>1, <2>4
  <2>6. (t.mem.bmap \cap Sent) \ MapOn(t.disk) \subseteq Unwritten(t)
    BY <1>2, <2>1, <2>2, <2>3, <2>4
  <2>7. QED
    BY <1>1, <1>2, <2>5, <2>6 DEF SavedIn
<1>4. CASE type # "file"
  <2>1. MapSaved(t)
    BY <1>4 DEF Created
  <2>2. QED
    BY <1>1, <1>2, <2>1 DEF MapSaved, SavedIn
<1>5. QED
  BY <1>3, <1>4

\* What a search does not find is not there.
LEMMA FreeNameIs ==
  ASSUME NEW s \in FsState, NEW T, Whole(s, T), NEW p \in DirsOf(s, T), NEW name \in Name,
         Matches(s, p, name) = {}
  PROVE  FreeName(s, p, name)
<1> DEFINE M == MAX_DIRITEM_PER_BLOCK
<1> SUFFICES ASSUME NEW q \in Valid(s, SeenItems(s, p)), ItemOf(s, q).name = name
             PROVE  FALSE
  BY DEF FreeName
<1>1. q \in AllItems(s, p) /\ q[2] * M + q[3] \in InSize(s, p)
  BY DEF Valid, SeenItems
<1>2. PICK k \in IBlocks(s, p), j \in Slot : q = <<p, k, j>>
  BY <1>1, PlacesIs
<1>3. q[1] = p /\ q[2] = k /\ q[3] = j
  BY <1>2
<1>4. k \in Nat /\ M \in Nat \ {0} /\ j \in 0..(M - 1)
  BY Sizes, IBlocksIs DEF IBlock, Slot
<1> DEFINE y == k * M + j
<1>5. y \div M = k /\ y % M = j
  <2> HIDE DEF M
  <2>1. QED
    BY <1>4, PlaceIndex
<1>6. y \in InSize(s, p)
  BY <1>1, <1>3
<1> HIDE DEF y
<1>7. ItemAt(s, p, y) = ItemOf(s, q)
  BY <1>3, <1>5 DEF ItemAt, ItemOf
<1>8. y \in Matches(s, p, name)
  BY <1>6, <1>7 DEF Matches
<1>9. QED
  BY <1>8

\* files_create leaves a consistent file system consistent, and a new file in it.
LEMMA FilesCreateIs ==
  ASSUME NEW s \in FsState, s.mem.halt = "no", NEW T, Whole(s, T), Counted(s, T), NEW type \in {"file", "dir"},
         NEW p \in DirsOf(s, T), NEW name \in Name, Matches(s, p, name) = {}
  PROVE  LET t == files_create(s, type, p, name)
             i == FreeInode(s)
         IN  /\ t \in FsState /\ Follows(s, t) /\ t.mem.halt \in {"no", "full"}
             /\ i \in Inode
             /\ t.mem.halt = "no" =>
                  /\ FsConsistent(t) /\ (SavedIn(s) => SavedIn(t))
                  /\ type = "file" => FileOf(t, AllTree(t), i)
<1> DEFINE i == FreeInode(s)
           b == FreeBlock(s)
           x == Entry(type, i, name)
           u == diritem_create(s, type, p)
           t == diritem_push(u, p, x)
<1>1. p \in Inode /\ p \in InodesOf(s, T)
  BY WholeIs
<1>2. /\ u \in FsState /\ Follows(s, u) /\ u.mem.halt \in {s.mem.halt, "full"}
      /\ i \in Inode /\ b \in Block
      /\ u.mem.halt = "no" => Created(s, u, i, b, type, p)
  <2>1. p \in Inode \cup {-1}
    BY <1>1
  <2>2. QED
    BY <2>1, CreateIs
<1> HIDE DEF i, b, u
<1>3. u.mem.halt = "no" => CanPush(u, T, p, x)
  <2> HAVE u.mem.halt = "no"
  <2>1. /\ Whole(u, T) /\ DirsOf(u, T) = DirsOf(s, T) /\ Spare(u, T, x)
        /\ type = "dir" => HasParent(u, i, p)
        /\ \A d \in InodesOf(s, T) : Alike(s, u, d)
        /\ Cardinality(Excess(u, T)) <= Cardinality(Lost(u, T) \ {i})
    <3> DEFINE e == Cardinality(Excess(u, T))
               l == Cardinality(Lost(u, T) \ {i})
    <3>1. /\ Whole(u, T) /\ DirsOf(u, T) = DirsOf(s, T) /\ Spare(u, T, Entry(type, i, name))
          /\ type = "dir" => HasParent(u, i, p)
          /\ \A d \in InodesOf(s, T) : Alike(s, u, d)
          /\ Counted(s, T) => e <= l
      <4>1. Created(s, u, i, b, type, p) /\ p \in Inode /\ i \in Inode /\ b \in Block /\ u \in FsState
        BY <1>1, <1>2
      <4> HIDE DEF x
      <4>2. QED
        BY <4>1, CreatedKeeps
    <3>2. QED
      BY <3>1
  <2>2. FreeName(s, p, name)
    BY FreeNameIs
  <2>3. FreeName(u, p, name)
    <3>1. /\ SeenItems(u, p) = SeenItems(s, p)
          /\ \A q \in AllItems(s, p) : ItemOf(u, q) = ItemOf(s, q)
      BY <1>1, <1>2, <2>1, SameItems
    <3>2. SeenItems(s, p) \subseteq AllItems(s, p)
      BY DEF SeenItems
    <3>3. QED
      BY <2>2, <3>1, <3>2 DEF FreeName, Valid
  <2>4. x.name = name /\ x.inode = i /\ x.type = type
    BY DEF x, Entry
  <2>5. QED
    BY <2>1, <2>3, <2>4 DEF CanPush
<1>4. x.type = type /\ x.inode = i
  BY DEF Entry
<1> HIDE DEF x
<1>5. /\ t \in FsState /\ Follows(u, t) /\ t.mem.halt \in {u.mem.halt, "full"}
      /\ u.mem.halt # "no" => t.mem.halt # "no"
      /\ t.mem.halt = "no" => Pushed(u, t, T, p, x) /\ Stored(u, t, p)
  BY <1>1, <1>2, <1>3, PushIs
<1> HIDE DEF t
<1>6. Follows(s, t) /\ t.mem.halt \in {"no", "full"}
  BY <1>2, <1>5, FollowsOn
<1>7. t.mem.halt = "no" =>
        /\ FsConsistent(t) /\ (SavedIn(s) => SavedIn(t))
        /\ type = "file" => FileOf(t, AllTree(t), i)
  <2> HAVE t.mem.halt = "no"
  <2>1. CanPush(u, T, p, x) /\ Pushed(u, t, T, p, x) /\ t.mem.imap = u.mem.imap
    BY <1>3, <1>5 DEF Stored, Quiet
  <2>2. FsConsistent(t) /\ (type = "file" => FileOf(t, AllTree(t), i))
    BY <1>2, <1>4, <1>5, <2>1, PushedTree
  <2>3. SavedIn(s) => SavedIn(t)
    <3>1. u.mem.halt = "no" /\ Created(s, u, i, b, type, p) /\ Stored(u, t, p)
      BY <1>2, <1>5
    <3>2. SavedIn(s) => SavedIn(u)
      BY <1>2, <3>1, CreatedSaved
    <3>3. QED
      BY <1>2, <3>1, <3>2, StoredSaved
  <2>4. QED
    BY <2>2, <2>3
<1>8. files_create(s, type, p, name) = t
  BY DEF files_create, t, u, x, i
<1>9. QED
  BY <1>2, <1>5, <1>6, <1>7, <1>8 DEF i
-----------------------------------------------------------------------------
\* What diritem_remove does before it removes the item's tree: the item at
\* logical index x of directory p gives way to a hole.
Punch(s, p, x) ==
  LET k    == x \div MAX_DIRITEM_PER_BLOCK
      hole == dirblock_set(Items(s, p, k), x % MAX_DIRITEM_PER_BLOCK, Invalid)
      s1   == free_rw_disk(s, iblock_get(s, p, k), hole)
  IN  inodes_rw_disk([s1 EXCEPT !.mem.inode[p].size = @ - 1], p)

Punched(s, t, p, k, j) ==
  /\ Rewrites(s, t, p, k) /\ s.mem.inode[p].size >= 3
  /\ t.mem.inode[p].size = s.mem.inode[p].size - 1
  /\ Items(t, p, k) = [Items(s, p, k) EXCEPT ![j] = Invalid]

LEMMA PunchIs ==
  ASSUME NEW s \in FsState, s.mem.halt = "no", NEW T, Whole(s, T), NEW p \in DirsOf(s, T),
         NEW x \in InSize(s, p),
         <<p, x \div MAX_DIRITEM_PER_BLOCK, x % MAX_DIRITEM_PER_BLOCK>> \in AllItems(s, p)
  PROVE  LET t == Punch(s, p, x)
             k == x \div MAX_DIRITEM_PER_BLOCK
             j == x % MAX_DIRITEM_PER_BLOCK
         IN  /\ t \in FsState /\ Follows(s, t) /\ t.mem.halt = "no"
             /\ k \in IBlocks(s, p) /\ j \in Slot
             /\ Punched(s, t, p, k, j) /\ Stored(s, t, p)
<1> DEFINE M == MAX_DIRITEM_PER_BLOCK
           k == x \div M
           j == x % M
           n == s.mem.inode[p].size
           b == iblock_get(s, p, k)
           hole == [Items(s, p, k) EXCEPT ![j] = Invalid]
           s1 == free_rw_disk(s, b, hole)
           s2 == [s1 EXCEPT !.mem.inode[p].size = n - 1]
           t == inodes_rw_disk(s2, p)
<1>0. M \in Nat \ {0, 1} /\ Slot = 0..(M - 1)
  BY Sizes DEF Slot
<1>1. p \in Inode /\ p \in InodesOf(s, T) /\ HoldsItems(s, p) /\ World(s, InodesOf(s, T))
  BY WholeIs, ConsistentIs, WholeWorld DEF Whole, GoodDir
<1>2. /\ x \in Nat /\ x < n /\ k \in IBlocks(s, p) /\ j \in Slot /\ n \in Nat
      /\ x = k * M + j
  BY <1>1, InSizeIs, LevelIs
<1>3. x >= 2
  <2>1. SUFFICES ASSUME x \in 0..(M - 1), x \in {0, 1} PROVE FALSE
    BY <1>0, <1>2
  <2>2. 0 * M + x = x /\ 0 \in Nat /\ M \in Nat \ {0}
    BY <1>0, <1>2
  <2>3. k = 0 /\ j = x
    <3>1. (0 * M + x) \div M = 0 /\ (0 * M + x) % M = x
      <4> HIDE DEF M
      <4>1. QED
        BY <2>1, <2>2, PlaceIndex
    <3>2. QED
      BY <2>2, <3>1
  <2>4. PICK m \in IBlocks(s, p), l \in Slot : <<p, k, j>> = <<p, m, l>> /\ ~(m = 0 /\ l \in {0, 1})
    BY PlacesIs
  <2>5. QED
    BY <2>1, <2>3, <2>4
<1>4. b \in Block /\ b \in s.mem.bmap
  BY <1>1, <1>2, OwnedIs DEF World, Sound
<1>5. hole \in BlockType
  <2>1. Items(s, p, k) \in [Slot -> EntryType]
    BY <1>1, <1>2, ItemsIs
  <2>2. Invalid \in EntryType
    BY DEF EntryType
  <2>3. QED
    BY <1>2, <2>1, <2>2, ItemSet
<1> HIDE DEF hole, b
<1>6. /\ s1 \in FsState /\ Follows(s, s1) /\ s1.mem = s.mem /\ s1.mem.halt = "no"
      /\ s1.disk = [s.disk EXCEPT ![BlockAt(b)] = hole]
  <2> HIDE DEF M, k, j, n
  <2>1. b \in s.mem.bmap /\ (s.mem.halt = "no" /\ b \in s.mem.bmap => hole \in BlockType)
    BY <1>4, <1>5
  <2>2. /\ s1 \in FsState /\ Follows(s, s1)
        /\ b \in s.mem.bmap => s1.mem = s.mem
        /\ s1.mem.halt = "no" => s1.disk = [s.disk EXCEPT ![BlockAt(b)] = hole]
    BY <2>1, RwIs
  <2>3. s1.mem = s.mem
    BY <2>1, <2>2
  <2>4. QED
    BY <2>2, <2>3
<1> HIDE DEF s1
<1>7. /\ s2 \in FsState /\ Follows(s1, s2) /\ s2.disk = s1.disk
      /\ s2.mem.imap = s1.mem.imap /\ s2.mem.bmap = s1.mem.bmap /\ s2.mem.halt = s1.mem.halt
      /\ s2.mem.inode = [s1.mem.inode EXCEPT ![p] = [s1.mem.inode[p] EXCEPT !.size = n - 1]]
      /\ [s1.mem.inode[p] EXCEPT !.size = n - 1].size = n - 1
      /\ [s1.mem.inode[p] EXCEPT !.size = n - 1].iblocks = s1.mem.inode[p].iblocks
  <2>1. n - 1 \in Nat
    BY <1>2, <1>3
  <2>2. s1 \in FsState /\ p \in Inode
    BY <1>1, <1>6
  <2> DEFINE m == n - 1
  <2>3. m \in Nat
    BY <2>1
  <2> HIDE DEF n, m
  <2> DEFINE u == [s1 EXCEPT !.mem.inode[p].size = m]
             v == [s1.mem.inode[p] EXCEPT !.size = m]
  <2>4. /\ u \in FsState /\ Follows(s1, u) /\ u.disk = s1.disk
        /\ u.mem.imap = s1.mem.imap /\ u.mem.bmap = s1.mem.bmap /\ u.mem.halt = s1.mem.halt
        /\ u.mem.inode = [s1.mem.inode EXCEPT ![p] = v]
        /\ v.size = m /\ v.iblocks = s1.mem.inode[p].iblocks
    BY <2>2, <2>3, SizeSet
  <2>5. QED
    BY <2>4 DEF m
<1> HIDE DEF s2
<1>8. /\ t \in FsState /\ Follows(s2, t) /\ t.mem = s2.mem
      /\ t.disk = [s2.disk EXCEPT ![InodeAt(p)] = s2.mem.inode[p]]
  <2>1. s2.mem.halt = "no"
    BY <1>6, <1>7
  <2> HIDE DEF M, k, j, n
  <2>2. QED
    BY <1>1, <1>7, <2>1, InodeRwIs
<1> HIDE DEF t
<1>9. Follows(s, t)
  BY <1>6, <1>7, <1>8, FollowsOn
<1>10. /\ t.mem.inode[p].size = n - 1
       /\ t.mem.inode[p].iblocks = s.mem.inode[p].iblocks
       /\ \A i \in Inode \ {p} : t.mem.inode[i] = s.mem.inode[i]
  <2>1. s1.mem.inode \in [Inode -> InodeType]
    BY <1>6, StateIs
  <2> DEFINE v == [s1.mem.inode[p] EXCEPT !.size = n - 1]
  <2>2. v.size = n - 1 /\ v.iblocks = s.mem.inode[p].iblocks
    BY <1>6, <1>7
  <2>3. t.mem.inode = [s1.mem.inode EXCEPT ![p] = v]
    BY <1>7, <1>8
  <2> HIDE DEF v
  <2>4. QED
    BY <1>1, <1>6, <2>1, <2>2, <2>3
<1>11. /\ t.disk[BlockAt(b)] = hole
       /\ \A c \in Block \ {b} : t.disk[BlockAt(c)] = s.disk[BlockAt(c)]
  <2>1. s.disk \in DiskType /\ s2.disk \in DiskType
    BY <1>7, StateIs
  <2>2. \A c \in Block : t.disk[BlockAt(c)] = s2.disk[BlockAt(c)]
    BY <1>8, <2>1, SectorsApart, Sectors DEF DiskType
  <2>3. /\ s2.disk[BlockAt(b)] = hole
        /\ \A c \in Block \ {b} : s2.disk[BlockAt(c)] = s.disk[BlockAt(c)]
    BY <1>4, <1>6, <1>7, <2>1, SectorsApart, Sectors DEF DiskType
  <2>4. QED
    BY <1>4, <2>2, <2>3
<1>12. Rewrites(s, t, p, k)
  BY <1>6, <1>7, <1>8, <1>10, <1>11 DEF Rewrites, b
<1>13. Items(t, p, k) = hole
  <2>1. iblock_get(t, p, k) = b
    <3>1. k \in IBlock
      BY <1>2, IBlocksIs
    <3> DEFINE I == InodesOf(s, T)
    <3>2. p \in I /\ World(s, I) /\ k \in IBlocks(s, p) /\ t \in FsState
      BY <1>1, <1>2, <1>8
    <3> HIDE DEF I, k
    <3>3. QED
      BY <1>12, <3>1, <3>2, RewritesIs DEF b
  <2>2. QED
    BY <1>11, <2>1 DEF Items
<1>14. Punched(s, t, p, k, j)
  BY <1>2, <1>3, <1>10, <1>12, <1>13 DEF Punched, hole
<1>15. t.mem.halt = "no"
  BY <1>6, <1>7, <1>8
<1>16. Punch(s, p, x) = t
  <2>1. s1.mem.inode[p].size - 1 = n - 1
    BY <1>6
  <2> HIDE DEF n
  <2>2. [s1 EXCEPT !.mem.inode[p].size = @ - 1] = s2
    BY <2>1 DEF s2
  <2>3. QED
    BY <2>2 DEF Punch, t, s1, hole, b, dirblock_set
<1>17. Stored(s, t, p)
  <2>1. s.disk \in DiskType /\ s1.disk \in DiskType
    BY <1>6, StateIs
  <2>2. /\ InodeAt(p) \in Sector /\ MapInodes \in Sector
        /\ \A i \in Inode : InodeAt(i) \in Sector
        /\ BlockAt(b) # MapInodes /\ \A i \in Inode : BlockAt(b) # InodeAt(i)
        /\ InodeAt(p) # MapInodes
        /\ \A i \in Inode \ {p} : InodeAt(p) # InodeAt(i)
    BY <1>1, <1>4, SectorsApart, Sectors
  <2>3. t.disk[InodeAt(p)] = t.mem.inode[p]
    BY <1>7, <1>8, <2>1, <2>2 DEF DiskType
  <2>4. \A c \in Sector \ {InodeAt(p), BlockAt(b)} : t.disk[c] = s.disk[c]
    BY <1>6, <1>7, <1>8, <2>1 DEF DiskType
  <2>5. /\ t.mem.imap = s.mem.imap /\ t.mem.bmap = s.mem.bmap /\ t.disk[MapInodes] = s.disk[MapInodes]
        /\ \A i \in Inode \ {p} :
             t.mem.inode[i] = s.mem.inode[i] /\ t.disk[InodeAt(i)] = s.disk[InodeAt(i)]
    BY <1>6, <1>7, <1>8, <1>10, <2>2, <2>4
  <2>6. n # 0
    BY <1>2
  <2>9. MapOn(t.disk) = MapOn(s.disk)
    <3>1. \A at \in MapSector : t.disk[MapFree(at)] = s.disk[MapFree(at)]
      BY <2>4, SectorsApart, Sectors
    <3>2. QED
      BY <3>1, MapOnSame
  <2>7. Quiet(s, t, p) /\ SameMap(s, t)
    BY <2>5, <2>9 DEF Quiet, SameMap
  <2>8. QED
    BY <2>3, <2>6, <2>7 DEF Stored
<1> HIDE DEF k, j, n
<1>18. QED
  BY <1>2, <1>8, <1>9, <1>14, <1>15, <1>16, <1>17 DEF k, j

\* What diritem_remove_sub finds: the directories D and the items at the places
\* of T are as FsConsistent wants them, and so is the item x, which is at none.
Loose(s, T, D, I, x) ==
  /\ World(s, I) /\ I \subseteq Inode /\ D \subseteq I /\ RootInode \in D
  /\ \A d \in D : GoodDir(s, d) /\ Valid(s, AllItems(s, d)) \subseteq T
  /\ \A y \in {x} \cup {ItemOf(s, r) : r \in T} :
       /\ y.type \in {"file", "dir"} /\ y.inode \in I \ {RootInode}
       /\ y.type = "dir" => y.inode \in D
  /\ \A r \in T : ItemOf(s, r).type = "file" => FileSized(s, ItemOf(s, r).inode)
  /\ \A r, a \in T : ItemOf(s, r).inode = ItemOf(s, a).inode => r = a
  /\ \A r \in T : ItemOf(s, r).inode # x.inode
  /\ \A r \in T : r[1] \in D /\ r \in AllItems(s, r[1])
  /\ Kin(s, T)

LEMMA PunchedTree ==
  ASSUME NEW s \in FsState, NEW t \in FsState, NEW T, Whole(s, T), NEW q \in T,
         NEW p, NEW k, NEW j, q = <<p, k, j>>, Punched(s, t, p, k, j)
  PROVE  /\ Loose(t, T \ {q}, DirsOf(s, T), InodesOf(s, T), ItemOf(s, q))
         /\ \A d \in DirsOf(s, T) : \A m \in Span(t, d) :
              m \in Int /\ Move(p, 1, d, m) \in Span(s, d)
<1> DEFINE M == MAX_DIRITEM_PER_BLOCK
           n == s.mem.inode[p].size
           I == InodesOf(s, T)
           D == DirsOf(s, T)
           x == ItemOf(s, q)
<1>0. M \in Nat \ {0, 1} /\ Slot = 0..(M - 1) /\ \A m \in IBlock : m \in Nat
  BY Sizes DEF Slot, IBlock
<1>1. /\ p \in D /\ p \in I /\ p \in Inode /\ q \in AllItems(s, p)
      /\ q[1] = p /\ q[2] = k /\ q[3] = j
      /\ D \subseteq I /\ I \subseteq Inode /\ RootInode \in D /\ GoodDir(s, p)
      /\ World(s, I) /\ Closed(s, T) /\ Consistent(s, T)
  <2>1. q[1] = p /\ q[2] = k /\ q[3] = j
    OBVIOUS
  <2>2. p \in D /\ q \in AllItems(s, p) /\ D \subseteq I /\ I \subseteq Inode /\ RootInode \in D
    BY <2>1, WholeIs
  <2>3. World(s, I) /\ Closed(s, T) /\ Consistent(s, T) /\ GoodDir(s, p)
    BY <2>2, WholeWorld, ConsistentIs DEF Whole
  <2>4. QED
    BY <2>1, <2>2, <2>3
<1>2. k \in IBlocks(s, p) /\ j \in Slot /\ ~(k = 0 /\ j \in {0, 1}) /\ k \in IBlock
  <2>1. PICK m \in IBlocks(s, p), l \in Slot : q = <<p, m, l>> /\ ~(m = 0 /\ l \in {0, 1})
    BY <1>1, PlacesIs
  <2>2. QED
    BY <1>1, <2>1, IBlocksIs
<1> HIDE DEF D, I, x, n
<1>3. /\ World(t, I) /\ \A i \in I \ {p} : Alike(s, t, i)
      /\ \A m \in IBlock : iblock_get(t, p, m) = iblock_get(s, p, m)
      /\ IBlocks(t, p) = IBlocks(s, p)
      /\ \A m \in IBlocks(s, p) \ {k} : Items(t, p, m) = Items(s, p, m)
      /\ t.mem.inode[p].size = n - 1 /\ n >= 3
      /\ Items(t, p, k) = [Items(s, p, k) EXCEPT ![j] = Invalid]
  <2>1. Rewrites(s, t, p, k)
    BY DEF Punched
  <2>2. /\ World(t, I) /\ \A i \in I \ {p} : Alike(s, t, i)
        /\ \A m \in IBlock : iblock_get(t, p, m) = iblock_get(s, p, m)
        /\ IBlocks(t, p) = IBlocks(s, p)
        /\ \A m \in IBlocks(s, p) \ {k} : Items(t, p, m) = Items(s, p, m)
    BY <1>1, <1>2, <2>1, RewritesIs
  <2>3. QED
    BY <2>2 DEF Punched, n
<1>4. n \in Nat
  BY <1>1, LevelIs DEF n
<1>5. /\ Items(t, p, k)[j] = Invalid
      /\ \A l \in Slot \ {j} : Items(t, p, k)[l] = Items(s, p, k)[l]
  <2>1. Items(s, p, k) \in [Slot -> EntryType] /\ Invalid \in EntryType
    <3>1. HoldsItems(s, p)
      BY <1>1 DEF GoodDir
    <3>2. QED
      BY <1>1, <1>2, <3>1, ItemsIs DEF EntryType
  <2>2. QED
    BY <1>2, <1>3, <2>1, ItemSet
<1>6. ASSUME NEW m \in IBlocks(s, p), NEW l \in Slot, ~(m = k /\ l = j)
      PROVE  Items(t, p, m)[l] = Items(s, p, m)[l]
  BY <1>3, <1>5, <1>6
<1>7. AllItems(t, p) = AllItems(s, p) /\ ItemOf(t, q) = Invalid
  <2>1. AllItems(t, p) = AllItems(s, p)
    BY <1>3 DEF AllItems
  <2>2. ItemOf(t, q) = Items(t, p, k)[j]
    BY <1>1 DEF ItemOf
  <2>3. QED
    BY <1>5, <2>1, <2>2
<1>8. ASSUME NEW r \in AllItems(s, p), r # q PROVE ItemOf(t, r) = ItemOf(s, r)
  <2>1. PICK m \in IBlocks(s, p), l \in Slot : r = <<p, m, l>>
    BY PlacesIs
  <2>2. r[1] = p /\ r[2] = m /\ r[3] = l /\ ~(m = k /\ l = j)
    BY <1>8, <2>1
  <2>3. QED
    BY <1>6, <2>2 DEF ItemOf
<1>9. ASSUME NEW r \in T \ {q} PROVE ItemOf(t, r) = ItemOf(s, r)
  <2>1. r[1] \in D /\ r \in AllItems(s, r[1]) /\ r[1] \in I /\ r[1] \in Inode
    BY <1>1, WholeIs DEF D, I
  <2>2. CASE r[1] = p
    BY <1>8, <2>1, <2>2
  <2>3. CASE r[1] # p
    BY <1>3, <2>1, <2>3, SameItems
  <2>4. QED
    BY <2>2, <2>3
<1>10. HoldsItems(t, p)
  <2>1. HoldsItems(s, p)
    BY <1>1 DEF GoodDir
  <2>2. ASSUME NEW m \in IBlocks(t, p), NEW l \in Slot
        PROVE  Items(t, p, m)[l].type \in {"invalid", "file", "dir"}
    <3>1. CASE m = k /\ l = j
      BY <1>5, <3>1, EntryIs
    <3>2. CASE ~(m = k /\ l = j)
      BY <1>3, <1>6, <2>1, <3>2 DEF HoldsItems
    <3>3. QED
      BY <3>1, <3>2
  <2>3. 0 \in IBlocks(s, p) /\ 0 \in Slot /\ 1 \in Slot
    BY <1>0, <2>1 DEF HoldsItems
  <2>4. Items(t, p, 0)[0] = Items(s, p, 0)[0] /\ Items(t, p, 0)[1] = Items(s, p, 0)[1]
    BY <1>2, <1>6, <2>3
  <2>5. QED
    BY <1>3, <2>1, <2>2, <2>4 DEF HoldsItems
<1>11. DirSized(t, p)
  <2>1. DirSized(s, p)
    BY <1>1 DEF GoodDir
  <2>2. ASSUME NEW m \in IBlock, (m + 1) * M <= n - 1 PROVE m \in IBlocks(t, p)
    <3> DEFINE y == (m + 1) * M
    <3>1. y \in Nat /\ y <= n - 1
      BY <1>0, <2>2
    <3> HIDE DEF y
    <3>2. y <= n
      BY <1>4, <3>1
    <3>3. QED
      BY <1>3, <2>1, <3>2 DEF DirSized, y, n
  <2>3. QED
    BY <1>3, <1>4, <2>2 DEF DirSized
<1>12. ASSUME NEW a \in Valid(t, SeenItems(t, p))
       PROVE  a \in Valid(s, SeenItems(s, p)) /\ ItemOf(t, a) = ItemOf(s, a)
  <2>0. a \in AllItems(t, p) /\ ItemOf(t, a).type \in {"file", "dir"}
        /\ a[2] * M + a[3] \in InSize(t, p)
    BY DEF Valid, SeenItems
  <2>1. a # q
    BY <1>7, <2>0, EntryIs
  <2>2. a \in AllItems(s, p) /\ ItemOf(t, a) = ItemOf(s, a)
    BY <1>7, <1>8, <2>0, <2>1
  <2> DEFINE y == a[2] * M + a[3]
  <2>3. y \in InSize(s, p)
    <3>1. y \in Nat /\ y < n - 1 /\ y \div M \in IBlocks(s, p)
      BY <1>1, <1>3, <2>0, InSizeIs
    <3> HIDE DEF y
    <3>2. y \in 0..(n - 1)
      BY <1>4, <3>1
    <3>3. QED
      BY <3>1, <3>2 DEF InSize, n
  <2>4. QED
    BY <2>0, <2>2, <2>3 DEF Valid, SeenItems
<1>13. NamedOnce(t, p)
  BY <1>1, <1>12 DEF GoodDir, NamedOnce
<1>14. ASSUME NEW d \in D PROVE GoodDir(t, d) /\ Valid(t, AllItems(t, d)) \subseteq T \ {q}
  <2>1. Valid(s, AllItems(s, d)) \subseteq T /\ GoodDir(s, d) /\ d \in I /\ d \in Inode
    BY <1>1, ConsistentIs DEF Closed, D
  <2>2. CASE d = p
    <3>1. GoodDir(t, p)
      BY <1>10, <1>11, <1>13 DEF GoodDir
    <3>2. ASSUME NEW a \in Valid(t, AllItems(t, p)) PROVE a \in T \ {q}
      <4>1. a \in AllItems(s, p) /\ ItemOf(t, a).type \in {"file", "dir"}
        BY <1>7 DEF Valid
      <4>2. a # q
        BY <1>7, <4>1, EntryIs
      <4>3. a \in Valid(s, AllItems(s, p))
        BY <1>8, <4>1, <4>2 DEF Valid
      <4>4. QED
        BY <2>1, <2>2, <4>2, <4>3
    <3>3. QED
      BY <2>2, <3>1, <3>2
  <2>3. CASE d # p
    <3>1. Alike(s, t, d)
      BY <1>3, <2>1, <2>3
    <3>2. Valid(t, AllItems(t, d)) = Valid(s, AllItems(s, d))
      BY <2>1, <3>1, SameItems
    <3>3. GoodDir(t, d)
      BY <2>1, <3>1, SameItems, SameBlocks DEF GoodDir
    <3>4. q \notin AllItems(s, d)
      BY <1>1, <2>3, PlacesIs
    <3>5. QED
      BY <2>1, <3>2, <3>3, <3>4 DEF Valid
  <2>4. QED
    BY <2>2, <2>3
<1>15. ASSUME NEW r \in T
       PROVE  /\ ItemOf(s, r).type \in {"file", "dir"}
              /\ ItemOf(s, r).inode \in I \ {RootInode}
              /\ ItemOf(s, r).type = "dir" => ItemOf(s, r).inode \in D
  BY <1>1, WholeIs, ConsistentIs DEF I, D
<1>16. \A y \in {x} \cup {ItemOf(t, r) : r \in T \ {q}} :
         /\ y.type \in {"file", "dir"} /\ y.inode \in I \ {RootInode}
         /\ y.type = "dir" => y.inode \in D
  BY <1>9, <1>15 DEF x
<1>17. ASSUME NEW r \in T \ {q}, ItemOf(t, r).type = "file"
       PROVE  FileSized(t, ItemOf(t, r).inode)
  <2> DEFINE d == ItemOf(s, r).inode
  <2>1. /\ ItemOf(t, r) = ItemOf(s, r) /\ d \in I /\ d \in Inode /\ d \notin D
        /\ FileSized(s, d)
    BY <1>1, <1>9, <1>17, WholeIs, ConsistentIs DEF D, I
  <2>2. Alike(s, t, d)
    BY <1>1, <1>3, <2>1
  <2> HIDE DEF d
  <2>3. QED
    BY <2>1, <2>2, SameBlocks DEF d
<1>18. \A r, a \in T : ItemOf(s, r).inode = ItemOf(s, a).inode => r = a
  BY <1>1, ConsistentIs
<1>19. /\ \A r, a \in T \ {q} : ItemOf(t, r).inode = ItemOf(t, a).inode => r = a
       /\ \A r \in T \ {q} : ItemOf(t, r).inode # x.inode
  BY <1>9, <1>18 DEF x
<1>20. ASSUME NEW r \in T \ {q} PROVE r[1] \in D /\ r \in AllItems(t, r[1])
  <2>1. r[1] \in D /\ r \in AllItems(s, r[1]) /\ r[1] \in I /\ r[1] \in Inode
    BY <1>1, WholeIs DEF D, I
  <2>2. CASE r[1] = p
    BY <1>7, <2>1, <2>2
  <2>3. CASE r[1] # p
    BY <1>3, <2>1, <2>3, SameItems
  <2>4. QED
    BY <2>1, <2>2, <2>3
<1>21. Hold(t, p) = Hold(s, p) \ {q} /\ q \in Hold(s, p)
  <2>1. q \in Hold(s, p)
    BY <1>1, <1>15 DEF Hold, Valid, x
  <2>2. q \notin Hold(t, p)
    BY <1>7, EntryIs DEF Hold, Valid
  <2>3. ASSUME NEW a, a # q PROVE a \in Hold(t, p) <=> a \in Hold(s, p)
    BY <1>7, <1>8, <2>3 DEF Hold, Valid
  <2>4. QED
    BY <2>1, <2>2, <2>3
<1>22. ASSUME NEW d \in D, NEW m \in Span(t, d)
       PROVE  m \in Int /\ Move(p, 1, d, m) \in Span(s, d)
  <2>1. CASE d = p
    <3> DEFINE h == Cardinality(Hold(s, p))
               e == Cardinality(Hold(t, p))
    <3>1. IsFiniteSet(Hold(s, p)) /\ h \in Nat
      BY <1>1, TreeSizes DEF D
    <3>2. e = h - 1
      BY <1>21, <3>1, FS_RemoveElement
    <3> HIDE DEF h, e
    <3>3. Span(t, p) = (e + 2)..(n - 1 - 1)
      BY <1>3, Zenon DEF Span, e
    <3>4. Span(s, p) = (h + 2)..(n - 1)
      BY Zenon DEF Span, h, n
    <3>5. m \in Int /\ m + 1 \in Span(s, p)
      BY <1>4, <2>1, <3>1, <3>2, <3>3, <3>4
    <3>6. QED
      BY <2>1, <3>5 DEF Move
  <2>2. CASE d # p
    <3>1. Alike(s, t, d) /\ d \in Inode
      BY <1>1, <1>3, <2>2
    <3>2. Hold(t, d) = Hold(s, d) /\ t.mem.inode[d].size = s.mem.inode[d].size
      BY <3>1, SameItems DEF Hold, Alike
    <3>3. Span(t, d) = Span(s, d) /\ Span(s, d) \subseteq Int
      BY <3>2, SpanInt DEF Span, D
    <3>4. QED
      BY <2>2, <3>3 DEF Move
  <2>3. QED
    BY <2>1, <2>2
<1>23. ASSUME NEW d \in D PROVE Items(t, d, 0)[1] = Items(s, d, 0)[1]
  <2>1. d \in I /\ d \in Inode /\ 0 \in IBlocks(s, d) /\ 0 \in Slot /\ 1 \in Slot
    <3>1. d \in I /\ d \in Inode /\ HoldsItems(s, d)
      BY <1>1, ConsistentIs DEF GoodDir, D
    <3>2. QED
      BY <1>0, <3>1 DEF HoldsItems
  <2>2. CASE d = p
    BY <1>2, <1>6, <2>1, <2>2
  <2>3. CASE d # p
    <3>1. Alike(s, t, d)
      BY <1>3, <2>1, <2>3
    <3>2. QED
      BY <2>1, <3>1, SameItems
  <2>4. QED
    BY <2>2, <2>3
<1>24. Kin(t, T \ {q})
  <2>1. Items(t, RootInode, 0)[1] = Items(s, RootInode, 0)[1]
    BY <1>1, <1>23
  <2>2. ASSUME NEW r \in T \ {q}, ItemOf(t, r).type = "dir"
        PROVE  /\ r \in T /\ ItemOf(t, r) = ItemOf(s, r)
               /\ Items(t, ItemOf(s, r).inode, 0)[1] = Items(s, ItemOf(s, r).inode, 0)[1]
    BY <1>9, <1>15, <1>23, <2>2
  <2>3. QED
    BY <2>1, <2>2, KinKept
<1>25. QED
  BY <1>1, <1>3, <1>14, <1>16, <1>17, <1>19, <1>20, <1>22, <1>24 DEF Loose, D, I, x
-----------------------------------------------------------------------------
\* One level more of what diritem_remove_sub visits.
SubDeeper(s, X) == X \cup UNION {SubItems(s, y) : y \in X}

SubLevels(s, x, f) ==
  f[0] = {x} /\ \A n \in 1..MAX_INODES : f[n] = SubDeeper(s, f[n - 1])

LEMMA SubtreeLevels ==
  ASSUME NEW s, NEW x, NEW P, x \in P, \A y \in P : SubItems(s, y) \subseteq P
  PROVE  \E f : SubLevels(s, x, f) /\ f[MAX_INODES] = Subtree(s, x)
<1> DEFINE S == SUBSET P
           G == [n \in Nat |-> [X \in S |-> SubDeeper(s, X)]]
           a == {x}
<1>0. MAX_INODES \in Nat /\ 0 \in 0..MAX_INODES /\ MAX_INODES \in 0..MAX_INODES
  BY Sizes
<1>1. a \in S
  OBVIOUS
<1>2. ASSUME NEW X \in S PROVE SubDeeper(s, X) \in S
  BY DEF SubDeeper
<1>3. G \in [Nat -> [S -> S]]
  <2> HIDE DEF S
  <2>1. QED
    BY <1>2
<1> HIDE DEF G
<1>4. PICK f \in [0..MAX_INODES -> S] : Rounds(f, G, a, MAX_INODES)
  <2> HIDE DEF S, a
  <2>1. QED
    BY <1>0, <1>1, <1>3, RecursionExists
<1>5. ASSUME NEW n \in 0..MAX_INODES
      PROVE  f[n] = IF n = 0 THEN a ELSE SubDeeper(s, f[n - 1])
  <2>1. CASE n = 0
    BY <1>4, <2>1 DEF Rounds
  <2>2. CASE n # 0
    <3> HIDE DEF S, a
    <3>1. n \in Nat /\ f[n - 1] \in S
      BY <1>0, <1>4, <2>2
    <3>2. G[n][f[n - 1]] = SubDeeper(s, f[n - 1])
      BY <3>1 DEF G
    <3>3. QED
      BY <1>4, <2>2, <3>2 DEF Rounds
  <2>3. QED
    BY <2>1, <2>2
<1> HIDE DEF S, a
<1> DEFINE Body(g) == [n \in 0..MAX_INODES |-> IF n = 0 THEN a ELSE SubDeeper(s, g[n - 1])]
<1>6. f = Body(f)
  <2> DEFINE g == Body(f)
  <2>1. f = [n \in 0..MAX_INODES |-> f[n]] /\ g = [n \in 0..MAX_INODES |-> g[n]]
    BY <1>4
  <2>2. \A n \in 0..MAX_INODES : g[n] = IF n = 0 THEN a ELSE SubDeeper(s, f[n - 1])
    BY Zenon
  <2> HIDE DEF g
  <2>3. \A n \in 0..MAX_INODES : f[n] = g[n]
    BY <1>5, <2>2
  <2>4. QED
    BY <2>1, <2>3 DEF g
<1> DEFINE h == CHOOSE g : g = Body(g)
<1>7. h = Body(h)
  <2> HIDE DEF Body
  <2>1. \E g : g = Body(g)
    BY <1>6
  <2>2. QED
    BY <2>1
<1>8. Subtree(s, x) = h[MAX_INODES]
  BY Zenon DEF Subtree, SubDeeper, a
<1> HIDE DEF h
<1>9. \A n \in 0..MAX_INODES : h[n] = IF n = 0 THEN a ELSE SubDeeper(s, h[n - 1])
  BY <1>7, Zenon
<1>10. SubLevels(s, x, h)
  <2>1. \A n \in 1..MAX_INODES : n \in 0..MAX_INODES /\ n # 0
    BY <1>0
  <2>2. QED
    BY <1>0, <1>9, <2>1 DEF SubLevels, a
<1>11. QED
  BY <1>8, <1>10

\* The item that is removed, and the items at the places of T.
Family(s, T, x) == {x} \cup {ItemOf(s, r) : r \in T}

LEMMA BelowIs ==
  ASSUME NEW s \in FsState, NEW T, NEW D, NEW I, NEW x, Loose(s, T, D, I, x),
         NEW y \in Family(s, T, x), NEW z \in SubItems(s, y)
  PROVE  \E r \in T : z = ItemOf(s, r) /\ r[1] = y.inode
<1> DEFINE d == y.inode
<1>1. y.type = "dir"
  BY DEF SubItems
<1>2. d \in D /\ d \in Inode /\ HoldsItems(s, d) /\ Valid(s, AllItems(s, d)) \subseteq T
  BY <1>1 DEF Loose, Family, GoodDir
<1>3. PICK k \in SubBlocks(s, y) : z \in
        {Items(s, y.inode, k)[j] : j \in {n \in Slot :
           \A m \in 0..n : Skipped(k, m) \/ Items(s, y.inode, k)[m].type # "invalid"}
         \ {n \in Slot : Skipped(k, n)}}
  BY <1>1 DEF SubItems
<1>4. PICK j \in Slot : /\ z = Items(s, d, k)[j] /\ ~Skipped(k, j)
                        /\ \A m \in 0..j : Skipped(k, m) \/ Items(s, d, k)[m].type # "invalid"
  BY <1>3
<1>5. k \in IBlocks(s, d)
  BY DEF SubBlocks
<1>6. Items(s, d, k)[j].type \in {"file", "dir"}
  <2>1. j \in 0..j
    BY Sizes DEF Slot
  <2>2. Items(s, d, k)[j].type \in {"invalid", "file", "dir"}
    BY <1>2, <1>5 DEF HoldsItems
  <2>3. QED
    BY <1>4, <2>1, <2>2
<1> DEFINE r == <<d, k, j>>
<1>7. r \in AllItems(s, d)
  BY <1>4, <1>5, PlacesIs DEF Skipped
<1>8. ItemOf(s, r) = z /\ r[1] = d
  BY <1>4 DEF ItemOf
<1>9. QED
  BY <1>2, <1>4, <1>6, <1>7, <1>8 DEF Valid

\* Whatever is removed, what held it is removed as well.
LEMMA SubtreeIs ==
  ASSUME NEW s \in FsState, NEW T, NEW D, NEW I, NEW x, Loose(s, T, D, I, x)
  PROVE  /\ x \in Subtree(s, x)
         /\ \A y \in Subtree(s, x) :
              y = x \/ \E r \in T, z \in Subtree(s, x) : y = ItemOf(s, r) /\ r[1] = z.inode
<1> DEFINE F == Family(s, T, x)
           M == MAX_INODES
<1>0. M \in Nat /\ M \in 0..M
  BY Sizes
<1>1. x \in F
  BY DEF Family
<1>2. \A y \in F : SubItems(s, y) \subseteq F
  BY BelowIs DEF Family
<1> HIDE DEF F
<1>3. PICK f : SubLevels(s, x, f) /\ f[M] = Subtree(s, x)
  BY <1>1, <1>2, SubtreeLevels
<1> HIDE DEF M
<1> DEFINE Held(y, X) == y = x \/ \E r \in T, z \in X : y = ItemOf(s, r) /\ r[1] = z.inode
           P == {n \in Nat : /\ x \in f[n] /\ f[n] \subseteq F
                             /\ \A y \in f[n] : Held(y, f[n])}
<1>4. 0 \in P
  BY <1>1, <1>3 DEF SubLevels
<1>5. ASSUME NEW n \in 1..M, n - 1 \in P PROVE n \in P
  <2>1. n \in Nat /\ f[n] = SubDeeper(s, f[n - 1])
    BY <1>0, <1>3 DEF SubLevels, M
  <2>2. x \in f[n - 1] /\ f[n - 1] \subseteq F /\ \A y \in f[n - 1] : Held(y, f[n - 1])
    BY <1>5
  <2>3. f[n - 1] \subseteq f[n]
    BY <2>1 DEF SubDeeper
  <2>4. f[n] \subseteq F
    BY <1>2, <2>1, <2>2 DEF SubDeeper
  <2>5. ASSUME NEW y \in f[n] PROVE Held(y, f[n])
    <3>1. CASE y \in f[n - 1]
      BY <2>2, <2>3, <3>1
    <3>2. CASE y \notin f[n - 1]
      <4>1. PICK z \in f[n - 1] : y \in SubItems(s, z)
        BY <2>1, <3>2 DEF SubDeeper
      <4>2. \E r \in T : y = ItemOf(s, r) /\ r[1] = z.inode
        BY <2>2, <4>1, BelowIs DEF F
      <4>3. z \in f[n]
        BY <2>3
      <4>4. QED
        BY <4>2, <4>3
    <3>3. QED
      BY <3>1, <3>2
  <2> HIDE DEF Held
  <2>6. QED
    BY <2>1, <2>2, <2>3, <2>4, <2>5
<1> HIDE DEF P
<1>6. 0..M \subseteq P
  BY <1>0, <1>4, <1>5, UpTo
<1>7. M \in P
  BY <1>0, <1>6
<1>8. QED
  BY <1>3, <1>7 DEF P
-----------------------------------------------------------------------------
\* The removed inodes, and t as s without them.
Gone(s, x) == {y.inode : y \in Subtree(s, x)}

Pruned(s, t, x) ==
  /\ t.mem.inode = s.mem.inode /\ t.mem.imap = s.mem.imap \ Gone(s, x)
  /\ s.mem.bmap \ UNION {Owned(s, i) : i \in Gone(s, x)} \subseteq t.mem.bmap
  /\ \A c \in Block : t.disk[BlockAt(c)] = s.disk[BlockAt(c)]

\* diritem_remove_sub finds no bad block and no bad item.
LEMMA RemoveSubIs ==
  ASSUME NEW s \in FsState, s.mem.halt = "no", NEW T, NEW D, NEW I, NEW x, Loose(s, T, D, I, x)
  PROVE  LET t == diritem_remove_sub(s, x)
         IN  /\ t \in FsState /\ Follows(s, t) /\ t.mem.halt = "no"
             /\ Pruned(s, t, x) /\ t.disk = s.disk
<1> DEFINE tree == Subtree(s, x)
           dirs == {y \in tree : y.type = "dir"}
           B == BlocksOf(s, tree)
           m == [s.mem EXCEPT !.bmap = s.mem.bmap \ B, !.imap = s.mem.imap \ Gone(s, x)]
           t == [s EXCEPT !.mem = m]
<1>1. tree \subseteq Family(s, T, x)
  BY SubtreeIs DEF Family
<1>2. \A y \in tree : y.type \in {"file", "dir"} /\ y.inode \in I /\ y.inode \in Inode
  BY <1>1 DEF Loose, Family
<1> HIDE DEF tree
<1>3. ASSUME NEW y \in tree, NEW k \in SubBlocks(s, y)
      PROVE  iblock_get(s, y.inode, k) \in Owned(s, y.inode)
  <2>1. k \in IBlocks(s, y.inode)
    BY DEF SubBlocks
  <2>2. QED
    BY <1>2, <2>1, OwnedIs
<1>4. B \subseteq UNION {Owned(s, i) : i \in Gone(s, x)}
  <2>1. \A y \in tree : y.inode \in Gone(s, x)
    BY DEF Gone, tree
  <2>2. QED
    BY <1>3, <2>1 DEF BlocksOf
<1>5. BlocksOf(s, dirs) \subseteq s.mem.bmap
  <2>1. \A y \in tree : Owned(s, y.inode) \subseteq s.mem.bmap
    BY <1>2 DEF Loose, World, Sound
  <2>2. QED
    BY <1>3, <2>1 DEF BlocksOf
<1>6. ReadBlocks(s, BlocksOf(s, dirs)) = s
  BY <1>5 DEF ReadBlocks
<1>7. tree = dirs \cup {y \in tree : y.type = "file"}
  BY <1>2
<1>8. m \in MemType /\ m.halt = "no" /\ m.inode = s.mem.inode
      /\ m.imap = s.mem.imap \ Gone(s, x) /\ m.bmap = s.mem.bmap \ B
  BY StateIs DEF MemType
<1>9. diritem_remove_sub(s, x) = t
  <2>0. x.inode \in Inode
    BY DEF Loose
  <2>1. Gone(s, x) = {y.inode : y \in tree}
    BY DEF Gone, tree
  <2>2. diritem_remove_sub(s, x) = [s EXCEPT !.mem.bmap = @ \ B, !.mem.imap = @ \ Gone(s, x)]
    <3> HIDE DEF B, dirs
    <3>1. QED
      BY <1>6, <1>7, <2>0, <2>1, Zenon DEF diritem_remove_sub, tree, dirs, B
  <2> HIDE DEF B
  <2>3. [s EXCEPT !.mem.bmap = @ \ B, !.mem.imap = @ \ Gone(s, x)] = t
    BY DEF FsState, MemType
  <2>4. QED
    BY <2>2, <2>3
<1> HIDE DEF m
<1>10. t \in FsState /\ Follows(s, t) /\ t.mem = m /\ t.disk = s.disk
  BY <1>8, NewMem
<1> HIDE DEF t, B
<1>11. Pruned(s, t, x)
  BY <1>4, <1>8, <1>10 DEF Pruned
<1>12. QED
  BY <1>8, <1>9, <1>10, <1>11

\* What is left is consistent: no item of it names what has gone.
LEMMA PrunedTree ==
  ASSUME NEW s \in FsState, NEW t \in FsState, NEW T, NEW D, NEW I, NEW x, Loose(s, T, D, I, x),
         Pruned(s, t, x)
  PROVE  LET A == AllTree(t)
         IN  /\ Tidy(t) /\ DirsOf(t, A) \subseteq D /\ InodesOf(t, A) \subseteq I
             /\ Gone(s, x) \subseteq I
             /\ \A d \in D : Span(t, d) = Span(s, d)
<1> DEFINE R == Gone(s, x)
           J == I \ R
           T1 == {r \in T : ItemOf(s, r).inode \notin R}
<1>1. /\ x.inode \in R
      /\ \A r \in T : ItemOf(s, r).inode \in R => r[1] \in R
      /\ RootInode \notin R /\ R \subseteq I
  <2>1. x \in Subtree(s, x)
    BY SubtreeIs
  <2>2. ASSUME NEW y \in Subtree(s, x) PROVE y.inode \in I \ {RootInode}
    <3>1. y = x \/ \E r \in T : y = ItemOf(s, r)
      BY SubtreeIs
    <3>2. QED
      BY <3>1 DEF Loose
  <2>3. ASSUME NEW r \in T, ItemOf(s, r).inode \in R PROVE r[1] \in R
    <3>1. PICK y \in Subtree(s, x) : ItemOf(s, r).inode = y.inode
      BY <2>3 DEF Gone
    <3>2. y # x
      BY <3>1 DEF Loose
    <3>3. PICK a \in T, z \in Subtree(s, x) : y = ItemOf(s, a) /\ a[1] = z.inode
      BY <3>2, SubtreeIs
    <3>4. a = r
      BY <3>1, <3>3 DEF Loose
    <3>5. QED
      BY <3>3, <3>4 DEF Gone
  <2>4. QED
    BY <2>1, <2>2, <2>3 DEF Gone
<1>2. World(s, I) /\ I \subseteq Inode /\ D \subseteq I /\ RootInode \in D
  BY DEF Loose
<1>3. \A i \in Inode : Alike(s, t, i)
  <2>1. \A i \in Inode : Owned(s, i) \subseteq Block
    BY OwnedIs
  <2>2. QED
    BY <2>1 DEF Alike, Pruned
<1>4. World(t, J)
  <2>1. ASSUME NEW j \in J PROVE j \in t.mem.imap /\ Owned(s, j) \subseteq t.mem.bmap
    <3>1. j \in s.mem.imap /\ Owned(s, j) \subseteq s.mem.bmap
      BY <1>2 DEF World, Sound
    <3>2. \A i \in R : Owned(s, j) \cap Owned(s, i) = {}
      BY <1>1, <1>2 DEF World
    <3>3. QED
      BY <3>1, <3>2 DEF Pruned
  <2>2. J \in SUBSET I
    OBVIOUS
  <2> HIDE DEF J
  <2>3. QED
    BY <1>2, <1>3, <2>1, <2>2, WorldKept
<1> HIDE DEF R
<1>5. ASSUME NEW d \in D
      PROVE  /\ GoodDir(t, d) /\ Valid(t, AllItems(t, d)) = Valid(s, AllItems(s, d))
             /\ AllItems(t, d) = AllItems(s, d)
             /\ \A r \in AllItems(s, d) : ItemOf(t, r) = ItemOf(s, r)
             /\ Valid(s, AllItems(s, d)) \subseteq T
  <2>1. d \in Inode /\ Alike(s, t, d) /\ GoodDir(s, d) /\ Valid(s, AllItems(s, d)) \subseteq T
    BY <1>2, <1>3 DEF Loose
  <2>2. QED
    BY <2>1, SameItems, SameBlocks DEF GoodDir
<1>6. ASSUME NEW r \in T
      PROVE  ItemOf(t, r) = ItemOf(s, r) /\ r[1] \in D
  <2>1. r[1] \in D /\ r \in AllItems(s, r[1])
    BY DEF Loose
  <2>2. QED
    BY <1>5, <2>1
<1>7. InodesOf(t, T1) \subseteq J
  <2>1. RootInode \in J
    BY <1>1, <1>2
  <2>2. \A r \in T1 : ItemOf(t, r).inode \in J
    BY <1>6 DEF Loose
  <2> HIDE DEF J, T1
  <2>3. QED
    BY <2>1, <2>2 DEF InodesOf
<1>8. DirsOf(t, T1) \subseteq D \ R
  <2>1. RootInode \in D \ R
    BY <1>1, <1>2
  <2>2. \A r \in T1 : ItemOf(t, r).type = "dir" => ItemOf(t, r).inode \in D \ R
    BY <1>6 DEF Loose
  <2> HIDE DEF T1
  <2>3. QED
    BY <2>1, <2>2 DEF DirsOf
<1>9. Closed(t, T1)
  <2> SUFFICES ASSUME NEW d \in DirsOf(t, T1), NEW r \in Valid(t, AllItems(t, d))
               PROVE  r \in T1
    BY DEF Closed
  <2>1. d \in D /\ d \notin R
    BY <1>8
  <2>2. r \in AllItems(t, d) /\ r \in T
    BY <1>5, <2>1 DEF Valid
  <2>3. r[1] = d
    BY <2>2, PlacesIs
  <2>4. QED
    BY <1>1, <2>1, <2>2, <2>3
<1>10. \A r, a \in T1 : ItemOf(t, r).inode = ItemOf(t, a).inode => r = a
  BY <1>6 DEF Loose
<1>11. \A r \in T1 : ItemOf(t, r).inode # RootInode
  BY <1>6 DEF Loose
<1>12. ASSUME NEW r \in T1, ItemOf(t, r).type = "file" PROVE FileSized(t, ItemOf(t, r).inode)
  <2> DEFINE i == ItemOf(s, r).inode
  <2>1. ItemOf(t, r) = ItemOf(s, r) /\ i \in Inode /\ FileSized(s, i)
    BY <1>2, <1>6, <1>12 DEF Loose
  <2>2. Alike(s, t, i)
    BY <1>3, <2>1
  <2> HIDE DEF i
  <2>3. QED
    BY <2>1, <2>2, SameBlocks DEF i
<1>13. \A d \in DirsOf(t, T1) : GoodDir(t, d)
  BY <1>5, <1>8
<1>14. World(t, InodesOf(t, T1))
  BY <1>4, <1>7 DEF World
<1>20. ASSUME NEW d \in D PROVE Items(t, d, 0) = Items(s, d, 0)
  <2>1. d \in Inode /\ Alike(s, t, d) /\ 0 \in IBlocks(s, d)
    BY <1>2, <1>3 DEF Loose, GoodDir, HoldsItems
  <2>2. QED
    BY <2>1, SameItems
<1>21. Kin(t, T1)
  <2>1. Kin(s, T)
    BY DEF Loose
  <2>2. HasParent(t, RootInode, -1)
    BY <1>2, <1>20, <2>1 DEF Kin, HasParent
  <2>3. ASSUME NEW r \in T1, ItemOf(t, r).type = "dir"
        PROVE  HasParent(t, ItemOf(t, r).inode, r[1])
    <3>1. r \in T /\ ItemOf(t, r) = ItemOf(s, r)
      BY <1>6
    <3>2. ItemOf(s, r).inode \in D
      BY <2>3, <3>1 DEF Loose
    <3>3. HasParent(s, ItemOf(s, r).inode, r[1])
      BY <2>1, <2>3, <3>1 DEF Kin
    <3>4. QED
      BY <1>20, <3>1, <3>2, <3>3 DEF HasParent
  <2>4. QED
    BY <2>2, <2>3 DEF Kin
<1> HIDE DEF T1
<1>15. Consistent(t, T1)
  BY <1>10, <1>11, <1>12, <1>13, <1>14, <1>21, ConsistentIs DEF World
<1>16. Tidy(t)
  BY <1>9, <1>15, WholeConsistent
<1>17. DirsOf(t, AllTree(t)) \subseteq D /\ InodesOf(t, AllTree(t)) \subseteq I
  BY <1>7, <1>8, <1>9, SmallerTree
<1>18. \A d \in D : Span(t, d) = Span(s, d)
  BY <1>5 DEF Span, Hold, Pruned
<1>19. QED
  BY <1>1, <1>16, <1>17, <1>18 DEF R

\* diritem_remove leaves a consistent file system consistent.
LEMMA RemoveIs ==
  ASSUME NEW s \in FsState, s.mem.halt = "no", NEW T, Whole(s, T), Counted(s, T),
         NEW p \in DirsOf(s, T), NEW name \in Name, FoundAt(s, p, name) # -1,
         NEW x, x = ItemAt(s, p, FoundAt(s, p, name))
  PROVE  LET t == diritem_remove(s, p, x)
         IN  /\ t \in FsState /\ Follows(s, t) /\ t.mem.halt = "no"
             /\ FsConsistent(t) /\ (SavedIn(s) => SavedIn(t))
<1> DEFINE n == FoundAt(s, p, name)
           k == n \div MAX_DIRITEM_PER_BLOCK
           j == n % MAX_DIRITEM_PER_BLOCK
           q == <<p, k, j>>
           s2 == Punch(s, p, n)
           s3 == diritem_remove_sub(s2, x)
           s4 == free_map_update(s3)
           t == inode_map_update(s4)
<1>1. /\ diritem_find_sub(s, p, name) = s /\ n \in InSize(s, p)
      /\ q \in T /\ q \in AllItems(s, p) /\ ItemOf(s, q) = x /\ x.name = name
  <2>1. diritem_find_sub(s, p, name) = s
    BY ReadsAll DEF diritem_find_sub
  <2>2. QED
    BY <2>1, SearchIs DEF SeenItems
<1> HIDE DEF n
<1>2. /\ s2 \in FsState /\ Follows(s, s2) /\ s2.mem.halt = "no"
      /\ Punched(s, s2, p, k, j) /\ Stored(s, s2, p)
  BY <1>1, PunchIs
<1> HIDE DEF s2, k, j
<1>3. /\ Loose(s2, T \ {q}, DirsOf(s, T), InodesOf(s, T), x)
      /\ \A d \in DirsOf(s, T) : \A m \in Span(s2, d) :
           m \in Int /\ Move(p, 1, d, m) \in Span(s, d)
  <2>1. q = <<p, k, j>>
    OBVIOUS
  <2> HIDE DEF q
  <2>2. QED
    BY <1>1, <1>2, <2>1, PunchedTree
<1> HIDE DEF q
<1>4. s3 \in FsState /\ Follows(s2, s3) /\ s3.mem.halt = "no" /\ Pruned(s2, s3, x)
      /\ s3.disk = s2.disk
  BY <1>2, <1>3, RemoveSubIs
<1> HIDE DEF s3
<1>5. /\ s4 \in FsState /\ Follows(s3, s4) /\ s4.mem = s3.mem
      /\ MapSaved(s4) /\ OnlyMap(s3, s4)
  BY <1>4, MapIs
<1> HIDE DEF s4
<1>6. /\ t \in FsState /\ Follows(s4, t) /\ t.mem = s4.mem
      /\ t.disk = [s4.disk EXCEPT ![MapInodes] = s4.mem.imap]
  <2>1. s4.mem.halt = "no"
    BY <1>4, <1>5
  <2>2. QED
    BY <1>5, <2>1, InodeMapIs
<1> HIDE DEF t
<1>7. Follows(s, t)
  BY <1>2, <1>4, <1>5, <1>6, FollowsOn
<1>8. Pruned(s2, t, x)
  <2>1. \A c \in Block : s4.disk[BlockAt(c)] = s3.disk[BlockAt(c)]
    BY <1>5, OnlyMapIs
  <2>2. \A c \in Block : t.disk[BlockAt(c)] = s4.disk[BlockAt(c)]
    <3>1. s4.disk \in DiskType
      BY <1>5, StateIs
    <3>2. QED
      BY <1>6, <3>1, SectorsApart, Sectors DEF DiskType
  <2>3. QED
    BY <1>4, <1>5, <1>6, <2>1, <2>2 DEF Pruned
<1>9. LET A == AllTree(t)
      IN  /\ Tidy(t) /\ DirsOf(t, A) \subseteq DirsOf(s, T) /\ InodesOf(t, A) \subseteq InodesOf(s, T)
          /\ Gone(s2, x) \subseteq InodesOf(s, T)
          /\ \A d \in DirsOf(s, T) : Span(t, d) = Span(s2, d)
  BY <1>2, <1>3, <1>6, <1>8, PrunedTree
<1>10. Counted(t, AllTree(t))
  <2> DEFINE A == AllTree(t)
  <2>1. t.mem.imap = s.mem.imap \ Gone(s2, x)
    BY <1>2, <1>8 DEF Pruned, Stored, Quiet
  <2>2. Lost(s, T) \subseteq Lost(t, A)
    BY <1>9, <2>1 DEF Lost
  <2>3. ASSUME NEW c \in DirsOf(t, A), NEW m \in Span(t, c)
        PROVE  c \in DirsOf(s, T) /\ m \in Int /\ Move(p, 1, c, m) \in Span(s, c)
    BY <1>3, <1>9
  <2>4. 1 \in Int
    OBVIOUS
  <2> HIDE DEF A
  <2>5. Counted(t, A)
    BY <1>6, <2>2, <2>3, <2>4, CountedMoves
  <2>6. QED
    BY <2>5 DEF A
<1>11. ASSUME SavedIn(s) PROVE SavedIn(t)
  <2>1. s4.disk \in DiskType
    BY <1>5, StateIs
  <2>2. /\ t.disk[MapInodes] = t.mem.imap
        /\ \A i \in Inode : t.disk[InodeAt(i)] = s4.disk[InodeAt(i)]
        /\ \A m \in MapSector : t.disk[MapFree(m)] = s4.disk[MapFree(m)]
    BY <1>6, <2>1, SectorsApart, Sectors DEF DiskType
  <2>3. \A i \in Inode : t.disk[InodeAt(i)] = s2.disk[InodeAt(i)]
    BY <1>4, <1>5, <2>2, OnlyMapIs
  <2>4. MapOn(t.disk) \cap Sent = t.mem.bmap \cap Sent
    <3>1. MapOn(t.disk) = MapOn(s4.disk)
      BY <2>2, MapOnSame
    <3>2. QED
      BY <1>5, <1>6, <3>1 DEF MapSaved
  <2>5. /\ t.mem.inode = s2.mem.inode /\ t.mem.imap \subseteq s.mem.imap /\ s.mem.imap \subseteq Inode
    BY <1>2, <1>8, StateIs DEF Pruned, Stored, Quiet
  <2>6. \A i \in s.mem.imap : s2.disk[InodeAt(i)] = s2.mem.inode[i]
    <3>1. \A i \in s.mem.imap : s.disk[InodeAt(i)] = s.mem.inode[i]
      BY <1>11 DEF SavedIn
    <3>2. \A i \in Inode \ {p} :
            s2.mem.inode[i] = s.mem.inode[i] /\ s2.disk[InodeAt(i)] = s.disk[InodeAt(i)]
      BY <1>2 DEF Stored, Quiet
    <3>3. s2.disk[InodeAt(p)] = s2.mem.inode[p]
      BY <1>2 DEF Stored
    <3>4. QED
      BY <2>5, <3>1, <3>2, <3>3
  <2>7. QED
    BY <2>2, <2>3, <2>4, <2>5, <2>6 DEF SavedIn
<1>12. diritem_remove(s, p, x) = t
  BY <1>1 DEF diritem_remove, Punch, t, s4, s3, s2, n
<1>13. FsConsistent(t)
  BY <1>9, <1>10 DEF FsConsistent, Tidy
<1>14. QED
  BY <1>4, <1>5, <1>6, <1>7, <1>11, <1>12, <1>13
-----------------------------------------------------------------------------
\* Memory as it is before a boot, and after one.
LEMMA NoMemIs ==
  /\ NoMem \in MemType /\ NoInode \in InodeType
  /\ \A why \in Halts : [NoMem EXCEPT !.halt = why] \in MemType
                        /\ [NoMem EXCEPT !.halt = why].halt = why
<1>1. NoInode \in InodeType
  BY DEF NoInode, InodeType
<1>2. 0 \in Inode /\ 0 \in 0..(BLOCKS - 1) /\ "no" \in Halts
  BY Sizes DEF Inode, Halts
<1> DEFINE none == [i \in Inode |-> NoInode]
<1>3. none \in [Inode -> InodeType]
  BY <1>1
<1> HIDE DEF none
<1>4. NoMem = [imap |-> {}, bmap |-> {}, inode |-> none, iprev |-> 0, bprev |-> 0, halt |-> "no"]
  BY DEF NoMem, none
<1>5. QED
  BY <1>1, <1>2, <1>3, <1>4 DEF MemType

LEMMA MountedIs ==
  ASSUME disk \in DiskType
  PROVE  /\ Mounted \in MemType /\ Mounted.halt = "no"
         /\ Mounted.imap = disk[MapInodes] /\ Mounted.bmap = MapOn(disk)
         /\ \A i \in Mounted.imap : Mounted.inode[i] = disk[InodeAt(i)]
<1> DEFINE inode == [i \in Inode |-> IF i \in disk[MapInodes] THEN disk[InodeAt(i)] ELSE NoInode]
<1>1. /\ disk[MapInodes] \subseteq Inode /\ MapOn(disk) \subseteq Block
      /\ \A i \in Inode : disk[InodeAt(i)] \in InodeType
  <2>1. MapOn(disk) \subseteq Block
    BY MapOnIs
  <2>2. QED
    BY <2>1, Sectors DEF DiskType
<1>2. inode \in [Inode -> InodeType]
  BY <1>1, NoMemIs
<1>3. \A i \in disk[MapInodes] : inode[i] = disk[InodeAt(i)]
  BY <1>1
<1> HIDE DEF inode
<1>4. Mounted = [[NoMem EXCEPT !.imap = disk[MapInodes], !.inode = inode]
                   EXCEPT !.bmap = MapOn(disk)]
  BY Zenon DEF Mounted, setup_free_map, setup_inode, inode, DiskMap, MapOn, MapSector
<1>5. NoMem \in MemType /\ NoMem.halt = "no"
  BY NoMemIs DEF NoMem
<1>6. QED
  BY <1>1, <1>2, <1>3, <1>4, <1>5 DEF MemType

\* A root alone is a consistent tree.
LEMMA NewRootIs ==
  ASSUME NEW s \in FsState, NEW t \in FsState, NEW b \in Block,
         Created(s, t, RootInode, b, "dir", -1)
  PROVE  FsConsistent(t)
<1>1. RootInode \in Inode
  BY Sizes DEF RootInode, Inode
<1>2. InodesOf(t, {}) = {RootInode} /\ DirsOf(t, {}) = {RootInode}
  BY DEF InodesOf, DirsOf
<1>3. OneBlock(t, RootInode, b) /\ t.mem.inode[RootInode].size = 2
      /\ t.disk[BlockAt(b)] = NewDirBlock(RootInode, -1)
      /\ RootInode \in t.mem.imap /\ b \in t.mem.bmap
  BY DEF Created
<1>4. GoodDir(t, RootInode) /\ Valid(t, AllItems(t, RootInode)) = {} /\ Kin(t, {})
  <2>1. -1 \in Inode \cup {-1}
    OBVIOUS
  <2>2. /\ GoodDir(t, RootInode) /\ Valid(t, AllItems(t, RootInode)) = {}
        /\ HasParent(t, RootInode, -1)
    BY <1>1, <1>3, <2>1, NewDirIs
  <2>3. QED
    BY <2>2 DEF Kin
<1>5. Sound(t, RootInode)
  BY <1>1, <1>3, OneBlockIs DEF Sound
<1>6. Closed(t, {})
  BY <1>2, <1>4 DEF Closed
<1>7. Consistent(t, {})
  BY <1>2, <1>4, <1>5, ConsistentIs
<1>8. Tidy(t)
  BY <1>6, <1>7, WholeConsistent
<1>9. Counted(t, AllTree(t))
  <2> DEFINE A == AllTree(t)
  <2>1. DirsOf(t, A) \subseteq {RootInode}
    BY <1>2, <1>6, SmallerTree
  <2>2. Span(t, RootInode) = {}
    <3>1. Cardinality(Hold(t, RootInode)) = 0
      BY <1>4, FS_EmptySet DEF Hold
    <3>2. QED
      BY <1>3, <3>1 DEF Span
  <2> HIDE DEF A
  <2>3. Excess(t, A) = {}
    BY <2>1, <2>2, ExcessIs
  <2>4. Cardinality(Excess(t, A)) = 0
    BY <2>3, FS_EmptySet
  <2>5. Cardinality(Lost(t, A)) \in Nat
    BY LostFinite
  <2>6. QED
    BY <2>4, <2>5 DEF Counted, A
<1>10. QED
  BY <1>8, <1>9 DEF FsConsistent, Tidy

\* A first boot makes it, of whatever the disk has.
LEMMA FormattedIs ==
  ASSUME disk \in DiskType, todo = <<>>
  PROVE  LET s == [Now EXCEPT !.mem = NoMem]
         IN  /\ s \in FsState /\ s.disk = disk /\ s.todo = todo
             /\ Formatted \in FsState /\ Follows(s, Formatted)
             /\ Formatted.mem.halt \in {"no", "full"}
             /\ Formatted.mem.halt = "no" => FsConsistent(Formatted) /\ SavedIn(Formatted)
<1> DEFINE s == [Now EXCEPT !.mem = NoMem]
           s1 == WriteSector(s, Magic, TRUE)
           s2 == inode_map_update(s1)
           s3 == WriteMap(s2, MAP_SECTORS)
           t == diritem_create(s3, "dir", -1)
<1>1. /\ s = [mem |-> NoMem, disk |-> disk, todo |-> todo]
      /\ NoMem.halt = "no" /\ NoMem.imap = {} /\ NoMem.bmap = {} /\ NoMem.iprev = 0
  <2>1. s = [mem |-> NoMem, disk |-> disk, todo |-> todo]
    BY DEF Now
  <2>2. NoMem.halt = "no" /\ NoMem.imap = {} /\ NoMem.bmap = {} /\ NoMem.iprev = 0
    BY DEF NoMem
  <2>3. QED
    BY <2>1, <2>2
<1>2. s \in FsState /\ s.mem = NoMem /\ s.disk = disk /\ s.todo = todo /\ s.mem.halt = "no"
  <2>1. todo \in Seq(Write) /\ NoMem \in MemType
    BY NoMemIs
  <2> HIDE DEF s
  <2>2. QED
    BY <1>1, <2>1 DEF FsState
<1> HIDE DEF s
<1>3. s1 \in FsState /\ Follows(s, s1) /\ s1.mem = NoMem
  BY <1>2, Sectors, WriteIs
<1> HIDE DEF s1
<1>4. s2 \in FsState /\ Follows(s1, s2) /\ s2.mem = NoMem
      /\ s2.disk = [s1.disk EXCEPT ![MapInodes] = {}]
  BY <1>1, <1>3, InodeMapIs
<1> HIDE DEF s2
<1>5. /\ s3 \in FsState /\ Follows(s2, s3) /\ s3.mem = NoMem
      /\ \A n \in MapSector : s3.disk[MapFree(n)] = {}
      /\ s3.disk[MapInodes] = {}
  <2>1. MAP_SECTORS \in Nat /\ MAP_SECTORS <= MAP_SECTORS /\ s2.mem.halt = "no" /\ s2.mem.bmap = {}
    BY <1>1, <1>4, MapSent
  <2> HIDE DEF s3
  <2>3. /\ s3 \in FsState /\ Follows(s2, s3) /\ s3.mem = s2.mem
        /\ \A k \in MapSector : s3.disk[MapFree(k)] = s2.mem.bmap \cap MapBits(k)
        /\ \A a \in Sector : (\A k \in MapSector : a # MapFree(k))
             => s3.disk[a] = s2.disk[a]
    BY <1>4, <2>1, WriteMapIs DEF s3, MapSector
  <2>4. MapInodes \in Sector /\ \A k \in MapSector : MapInodes # MapFree(k)
    BY Sectors, SectorsApart
  <2>5. s2.disk[MapInodes] = {}
    <3>1. s1.disk \in DiskType
      BY <1>3, StateIs
    <3>2. QED
      BY <1>4, <2>4, <3>1 DEF DiskType
  <2>6. QED
    BY <1>4, <2>1, <2>3, <2>4, <2>5
<1> HIDE DEF s3
<1> DEFINE i == FreeInode(s3)
           b == FreeBlock(s3)
<1>6. /\ t \in FsState /\ Follows(s3, t) /\ t.mem.halt \in {"no", "full"}
      /\ b \in Block
      /\ t.mem.halt = "no" => Created(s3, t, i, b, "dir", -1)
  <2>1. s3.mem.halt = "no" /\ -1 \in Inode \cup {-1}
    BY <1>1, <1>5
  <2>2. QED
    BY <1>5, <2>1, CreateIs
<1> HIDE DEF t, b
<1>7. i = RootInode
  <2> DEFINE M == MAX_INODES
             n == bitmap_scan_empty(M, {}, 0)
  <2>1. M \in Nat \ {0} /\ 0 \in 0..(M - 1) /\ ~ (0..(M - 1) \subseteq {})
    BY Sizes
  <2>2. ~ (Inode \subseteq s3.mem.imap) /\ s3.mem.imap = {} /\ s3.mem.iprev = 0
    BY <1>1, <1>5, <2>1 DEF Inode
  <2>3. i = n
    BY <2>2 DEF FreeInode
  <2> HIDE DEF M
  <2>4. n \in 0..(M - 1) /\ (n - 0) % M <= (0 - 0) % M
    BY <2>1, ScanFindsNearest
  <2> HIDE DEF n
  <2>5. n % M = n /\ 0 % M = 0
    BY <2>1, <2>4
  <2>6. n - 0 = n /\ 0 - 0 = 0
    BY <2>1, <2>4
  <2>7. n = 0
    BY <2>1, <2>4, <2>5, <2>6
  <2>8. QED
    BY <2>3, <2>7 DEF RootInode
<1> HIDE DEF i
<1>8. t.mem.halt = "no" => FsConsistent(t) /\ SavedIn(t)
  <2> HAVE t.mem.halt = "no"
  <2>1. Created(s3, t, RootInode, b, "dir", -1)
    BY <1>6, <1>7
  <2>2. FsConsistent(t)
    BY <1>5, <1>6, <2>1, NewRootIs
  <2>3. SavedIn(s3)
    <3>3. s3.disk[MapInodes] = {} /\ MapOn(s3.disk) = {}
      BY <1>5 DEF MapOn
    <3>4. s3.mem.imap = {} /\ s3.mem.bmap = {}
      BY <1>1, <1>5
    <3>5. QED
      BY <3>3, <3>4 DEF SavedIn
  <2>4. SavedIn(t)
    <3>1. RootInode \in Inode
      BY Sizes DEF RootInode, Inode
    <3>2. QED
      BY <1>5, <1>6, <2>1, <2>3, <3>1, CreatedSaved
  <2>5. QED
    BY <2>2, <2>4
<1>9. Follows(s, t)
  BY <1>3, <1>4, <1>5, <1>6, FollowsOn
<1>10. Formatted = t
  BY Zenon DEF Formatted, t, s3, s2, s1, s
<1>11. QED
  BY <1>2, <1>6, <1>8, <1>9, <1>10 DEF s
-----------------------------------------------------------------------------
\* What a search for a name finds, and what its directory is.
Looked(s, T, x, y, name) ==
  /\ x \in FoundItems(s, T) /\ y \in FoundItems(s, T)
  /\ x = Invalid => y = Invalid
  /\ x # Invalid => x.type = "dir" /\ x.inode \in DirsOf(s, T)
  /\ x # Invalid /\ y = Invalid => name \in Name /\ Matches(s, x.inode, name) = {}
  /\ y # Invalid => /\ x # Invalid /\ FoundAt(s, x.inode, name) # -1
                    /\ y = ItemAt(s, x.inode, FoundAt(s, x.inode, name))

LEMMA FileIsThrough ==
  ASSUME NEW g \in ThroughFile
  PROVE  g.file
<1>1. PICK u \in FsState, x \in AnyItem : g = Via(u, x)
  BY DEF ThroughFile
<1>2. QED
  BY <1>1 DEF Via

\* A file that is found is in the tree.
LEMMA FileFound ==
  ASSUME NEW s, NEW T, NEW y \in FoundItems(s, T), y.type = "file"
  PROVE  \E q \in T : y = ItemOf(s, q)
<1>1. y # Invalid /\ y # Root
  <2>1. Invalid.type = "invalid" /\ Root.type = "dir"
    BY DEF Invalid, Root, Entry
  <2>2. QED
    BY <2>1
<1>2. \A i, name : y # Entry("dir", i, name)
  BY DEF Entry
<1>3. QED
  BY <1>1, <1>2 DEF FoundItems

LEMMA LookupDir ==
  ASSUME NEW s \in FsState, NEW T, Whole(s, T), Counted(s, T), NEW x \in FoundItems(s, T),
         x.type = "dir", x.inode \in DirsOf(s, T), NEW name \in PathName
  PROVE  \E y : Descend(Got(s, x), name) = Got(s, y) /\ Looked(s, T, x, y, name)
<1> DEFINE i == x.inode
           n == FoundAt(s, i, name)
           y == IF n = -1 THEN Invalid ELSE ItemAt(s, i, n)
<1>1. Descend(Got(s, x), name) = Got(s, y) /\ y \in FoundItems(s, T)
  BY DescendDir
<1> HIDE DEF i
<1>2. i \in DirsOf(s, T) /\ i \in Inode /\ x # Invalid
  BY WholeIs, NotInvalid DEF i
<1>3. n = -1 => name \in Name /\ Matches(s, i, name) = {}
  <2>1. CASE name \in Name
    BY <1>2, <2>1, FoundAtIs
  <2>2. CASE name \in {".", ".."}
    BY <1>2, <2>2, DotSearch
  <2>3. QED
    BY <2>1, <2>2, DotNames
<1>4. n # -1 => ItemAt(s, i, n).type # "invalid"
  <2>1. CASE name \in Name
    <3>1. n # -1 => \E p \in T : ItemOf(s, p) = ItemAt(s, i, n)
      BY <1>2, <2>1, SearchIs
    <3>2. \A p \in T : ItemOf(s, p).type \in {"file", "dir"}
      BY WholeIs
    <3>3. QED
      BY <3>1, <3>2
  <2>2. CASE name \in {".", ".."}
    <3>1. \E j \in DirsOf(s, T) \cup {-1} : ItemAt(s, i, n) = Entry("dir", j, name)
      BY <1>2, <2>2, DotSearch
    <3>2. QED
      BY <3>1 DEF Entry
  <2>3. QED
    BY <2>1, <2>2, DotNames
<1> HIDE DEF n
<1>5. n # -1 => y # Invalid
  BY <1>4, NotInvalid
<1>6. Looked(s, T, x, y, name)
  BY <1>1, <1>2, <1>3, <1>5 DEF Looked, n, i
<1>7. QED
  BY <1>1, <1>6

LEMMA LookupIs ==
  ASSUME NEW s \in FsState, NEW T, Whole(s, T), Counted(s, T),
         NEW path \in Seq(PathName), NEW name \in PathName
  PROVE  \/ diritem_find(s, Append(path, name)).file
         \/ /\ diritem_find(s, Append(path, name)) = Stuck(s)
            /\ \/ diritem_find(s, path) = Stuck(s)
               \/ \E x : diritem_find(s, path) = Got(s, x)
         \/ \E x, y : /\ diritem_find(s, path) = Got(s, x)
                      /\ diritem_find(s, Append(path, name)) = Got(s, y)
                      /\ Looked(s, T, x, y, name)
<1> DEFINE g == diritem_find(s, path)
           h == diritem_find(s, Append(path, name))
<1>1. g \in Ends(s, T)
  BY FindIs
<1>2. h = Descend(g, name)
  BY FindLast
<1> HIDE DEF g, h
<1>3. CASE g \in ThroughFile
  <2>1. h \in ThroughFile
    BY <1>2, <1>3, DescendElse
  <2>2. QED
    BY <2>1, FileIsThrough DEF h
<1>4. CASE g = Stuck(s)
  BY <1>2, <1>4, DescendElse DEF g, h
<1>5. ASSUME NEW x \in FoundItems(s, T), g = Got(s, x)
      PROVE  \/ h.file
             \/ h = Stuck(s)
             \/ \E y : h = Got(s, y) /\ Looked(s, T, x, y, name)
  <2>1. CASE x.type = "file"
    <3>1. h \in ThroughFile
      BY <1>2, <1>5, <2>1, DescendElse
    <3>2. QED
      BY <3>1, FileIsThrough
  <2>2. CASE x = Invalid
    <3>1. h = Got(s, Invalid)
      BY <1>2, <1>5, <2>2, DescendElse
    <3>2. Looked(s, T, x, Invalid, name)
      BY <2>2 DEF Looked
    <3>3. QED
      BY <3>1, <3>2
  <2>3. CASE x.type = "dir" /\ x.inode = -1
    BY <1>2, <1>5, <2>3, DescendElse
  <2>4. CASE x.type = "dir" /\ x.inode \in DirsOf(s, T)
    BY <1>2, <1>5, <2>4, LookupDir
  <2>5. QED
    BY <2>1, <2>2, <2>3, <2>4, FoundIs
<1>6. QED
  BY <1>1, <1>3, <1>4, <1>5 DEF Ends, g, h

\* ls reads blocks that are in use, and so does whoever reads a file.
LEMMA ListIs ==
  ASSUME NEW s \in FsState, NEW T, Whole(s, T), Counted(s, T), NEW path \in Seq(PathName)
  PROVE  diritem_find(s, path).file \/ files_list(s, path) \in {s, Panic(s, "inode")}
<1> DEFINE g == diritem_find(s, path)
<1>1. g \in Ends(s, T)
  BY FindIs
<1>2. files_list(s, path) = IF g.item.type = "dir" THEN diritem_traversal(g.s, g.item.inode)
                            ELSE g.s
  BY DEF files_list
<1> HIDE DEF g
<1>3. CASE g = Stuck(s)
  <2>1. Invalid.type = "invalid"
    BY EntryIs
  <2>2. QED
    BY <1>2, <1>3, <2>1, GotIs
<1>4. ASSUME NEW x \in FoundItems(s, T), g = Got(s, x)
      PROVE  files_list(s, path) \in {s, Panic(s, "inode")}
  <2>1. g.s = s /\ g.item = x
    BY <1>4, GotIs
  <2>2. x.type = "dir" => diritem_traversal(s, x.inode) \in {s, Panic(s, "inode")}
    <3>1. x.type = "dir" => x.inode \in DirsOf(s, T) \cup {-1}
      BY FoundIs
    <3>2. x.inode \in DirsOf(s, T) => ReadAll(s, x.inode, -1) = s
      BY ReadsAll
    <3>3. QED
      BY <3>1, <3>2 DEF diritem_traversal, Inode
  <2>3. QED
    BY <1>2, <2>1, <2>2
<1>5. QED
  BY <1>1, <1>3, <1>4, FileIsThrough DEF Ends, g

LEMMA ReadIs ==
  ASSUME NEW s \in FsState, NEW T, Whole(s, T), NEW q \in T, ItemOf(s, q).type = "file"
  PROVE  files_read(s, ItemOf(s, q).inode) = s
<1> DEFINE i == ItemOf(s, q).inode
           B == {iblock_get(s, i, k) : k \in 0..(s.mem.inode[i].size \div BYTES_SECTOR)}
<1>1. i \in Inode /\ Owned(s, i) \subseteq s.mem.bmap
  BY WholeIs, WholeWorld DEF World, Sound
<1>2. FileSized(s, i)
  BY ConsistentIs DEF Whole
<1> HIDE DEF i
<1>3. s.mem.inode[i].size \in Nat
  BY <1>1, LevelIs
<1>4. s.mem.inode[i].size > 0 => B \subseteq s.mem.bmap
  BY <1>1, <1>2, OwnedIs DEF FileSized
<1> HIDE DEF B
<1>5. s.mem.inode[i].size = 0 \/ ReadBlocks(s, B) = s
  BY <1>3, <1>4 DEF ReadBlocks
<1>6. files_read(s, i) = s
  BY <1>5 DEF files_read, files_get_size, B
<1>7. QED
  BY <1>6 DEF i

LEMMA FileIs ==
  ASSUME NEW s \in FsState, NEW T, Whole(s, T), NEW q \in T, ItemOf(s, q).type = "file"
  PROVE  FileOf(s, T, ItemOf(s, q).inode)
<1> DEFINE i == ItemOf(s, q).inode
<1>1. i \in InodesOf(s, T) /\ i \in Inode \ DirsOf(s, T)
  BY WholeIs
<1>2. InodesOf(s, T) \cup {i} = InodesOf(s, T)
  BY <1>1
<1>3. QED
  BY <1>1, <1>2, WholeWorld DEF FileOf
-----------------------------------------------------------------------------
(***************************************************************************)
(* The inductive invariant: as long as every boot finds a consistent disk, *)
(* the tree is as it should be, and the disk becomes what memory is once   *)
(* the writes of the running call are made, whatever it has until then.    *)
(***************************************************************************)
Why == {"no", "dots", "file"}

Bounds ==
  /\ on \in BOOLEAN /\ torn \in Why \cup {"root", "tree"}
  /\ cuts \in 0..MaxCuts /\ calls \in 0..MaxCalls

Typed == mem \in MemType /\ disk \in DiskType /\ todo \in Seq(Write)

State(m, d, w) == [mem |-> m, disk |-> d, todo |-> w]

Good(s) == FsConsistent(s) /\ SavedIn(s)

Settling(m, d, w) ==
  \E fin \in DiskType : Settles(d, w, fin) /\ Good(State(m, fin, w))

FsInv ==
  /\ Bounds
  /\ torn = "no" =>
       /\ Typed /\ mem.halt \notin {"empty", "bug", "index"}
       /\ ~on => todo = <<>> /\ mem = NoMem
       /\ on /\ mem.halt = "no" => Settling(mem, disk, todo)

LEMMA NowIs == Now = State(mem, disk, todo)
BY DEF Now, State

LEMMA StateType ==
  ASSUME NEW m \in MemType, NEW d \in DiskType, NEW w \in Seq(Write)
  PROVE  /\ State(m, d, w) \in FsState /\ State(m, d, w).mem = m
         /\ State(m, d, w).disk = d /\ State(m, d, w).todo = w
BY DEF State, FsState

LEMMA StateOf ==
  ASSUME NEW s \in FsState
  PROVE  s = State(s.mem, s.disk, s.todo)
BY DEF State, FsState

\* Consistency is a matter of memory and disk.
LEMMA SameConsistent ==
  ASSUME NEW s \in FsState, NEW t \in FsState, s.mem = t.mem, s.disk = t.disk, Good(s)
  PROVE  Good(t)
<1> DEFINE T == AllTree(s)
<1>1. Whole(s, T) /\ Counted(s, T)
  BY TreeIs DEF Good, FsConsistent, Tidy
<1>2. \A i : Alike(s, t, i)
  BY DEF Alike
<1>3. /\ World(s, InodesOf(s, T)) /\ InodesOf(s, T) \subseteq Inode
      /\ \A p \in T : ItemOf(s, p).inode \in Inode
  BY <1>1, WholeWorld, WholeIs
<1>4. World(t, InodesOf(s, T))
  <2> DEFINE I == InodesOf(s, T)
  <2>1. World(s, I) /\ I \in SUBSET I
    BY <1>3
  <2> HIDE DEF I
  <2>2. \A j \in I : Alike(s, t, j) /\ j \in t.mem.imap /\ Owned(s, j) \subseteq t.mem.bmap
    BY <1>2, <2>1 DEF World, Sound
  <2>3. QED
    BY <2>1, <2>2, WorldKept DEF I
<1>5. \A p \in T : ItemOf(s, p).type = "file" => FileSized(t, ItemOf(s, p).inode)
  <2> TAKE p \in T
  <2> HAVE ItemOf(s, p).type = "file"
  <2> DEFINE i == ItemOf(s, p).inode
  <2>1. i \in Inode /\ FileSized(s, i)
    BY <1>1, <1>3, ConsistentIs DEF Whole
  <2> HIDE DEF i, T
  <2>2. Alike(s, t, i)
    BY <1>2
  <2>3. QED
    BY <2>1, <2>2, SameBlocks DEF i
<1> HIDE DEF T
<1>6. FsConsistent(t)
  BY <1>1, <1>2, <1>4, <1>5, SameCounted
<1>7. SavedIn(t)
  BY DEF Good, SavedIn, Unwritten
<1>8. QED
  BY <1>6, <1>7 DEF Good

\* With no write to come, the disk is what it becomes.
LEMMA AllSettled ==
  ASSUME NEW d \in DiskType, NEW fin \in DiskType
  PROVE  Settles(d, <<>>, d) /\ (Settles(d, <<>>, fin) => fin = d)
<1>1. Len(<<>>) = 0 /\ 1..0 = {}
  OBVIOUS
<1>2. Settles(d, <<>>, d)
  BY <1>1 DEF Settles
<1>3. ASSUME Settles(d, <<>>, fin) PROVE fin = d
  <2>1. \A a \in Sector : fin[a] = d[a]
    BY <1>1, <1>3 DEF Settles
  <2>2. QED
    BY <2>1 DEF DiskType
<1>4. QED
  BY <1>2, <1>3

LEMMA TailSettles ==
  ASSUME NEW d \in DiskType, NEW w \in Seq(Write), w # <<>>
  PROVE  LET d1 == [d EXCEPT ![Head(w).at] = Head(w).val]
         IN  /\ d1 \in DiskType /\ Tail(w) \in Seq(Write)
             /\ \A fin : Settles(d, w, fin) => Settles(d1, Tail(w), fin)
<1> DEFINE x == w[1]
           d1 == [d EXCEPT ![x.at] = x.val]
           n == Len(w)
           v == Tail(w)
<1>1. n \in Nat /\ 1 \in 1..n /\ x \in Write /\ Head(w) = x
  OBVIOUS
<1>2. x.at \in Sector /\ x.val \in Content(x.at)
  BY <1>1 DEF Write
<1>3. /\ v \in Seq(Write) /\ Len(v) = n - 1
      /\ \A k \in 1..(n - 1) : v[k] = w[k + 1]
  OBVIOUS
<1> HIDE DEF x, v, n
<1>4. d1 \in DiskType /\ \A a \in Sector : d1[a] = IF a = x.at THEN x.val ELSE d[a]
  BY <1>2 DEF DiskType
<1> HIDE DEF d1
<1>5. ASSUME NEW fin, Settles(d, w, fin), NEW a \in Sector
      PROVE  \/ /\ \A k \in 1..(n - 1) : v[k].at # a
                /\ fin[a] = d1[a]
             \/ \E k \in 1..(n - 1) :
                  /\ v[k].at = a /\ v[k].val = fin[a]
                  /\ \A m \in 1..(n - 1) : m > k => v[m].at # a
  <2>0. \A k \in 1..(n - 1) : k + 1 \in 1..n /\ k + 1 > 1 /\ v[k] = w[k + 1]
    BY <1>1, <1>3
  <2>1. CASE (\A k \in 1..n : w[k].at # a) /\ fin[a] = d[a]
    BY <1>1, <1>4, <2>0, <2>1 DEF x
  <2>2. CASE \E k \in 1..n : /\ w[k].at = a /\ w[k].val = fin[a]
                             /\ \A m \in 1..n : m > k => w[m].at # a
    <3>1. PICK k \in 1..n : /\ w[k].at = a /\ w[k].val = fin[a]
                            /\ \A m \in 1..n : m > k => w[m].at # a
      BY <2>2
    <3>2. CASE k = 1
      <4>1. d1[a] = fin[a]
        BY <1>4, <3>1, <3>2 DEF x
      <4>2. QED
        BY <2>0, <3>1, <3>2, <4>1
    <3>3. CASE k # 1
      <4>1. k - 1 \in 1..(n - 1) /\ (k - 1) + 1 = k
        BY <1>1, <3>3
      <4>2. \A m \in 1..(n - 1) : m > k - 1 => m + 1 > k
        BY <1>1
      <4>3. v[k - 1] = w[k]
        BY <2>0, <4>1
      <4>4. \A m \in 1..(n - 1) : m > k - 1 => v[m].at # a
        BY <2>0, <3>1, <4>2
      <4>5. QED
        BY <3>1, <4>1, <4>3, <4>4
    <3>4. QED
      BY <3>2, <3>3
  <2>3. QED
    BY <1>5, <2>1, <2>2 DEF Settles, n
<1>6. \A fin : Settles(d, w, fin) => Settles(d1, v, fin)
  BY <1>3, <1>5 DEF Settles
<1>7. QED
  BY <1>1, <1>3, <1>4, <1>6 DEF d1, v
-----------------------------------------------------------------------------
LEMMA NowType ==
  ASSUME Typed
  PROVE  Now \in FsState /\ Now.mem = mem /\ Now.disk = disk /\ Now.todo = todo
<1>1. mem \in MemType /\ disk \in DiskType /\ todo \in Seq(Write)
  BY DEF Typed
<1> DEFINE s == State(mem, disk, todo)
<1>2. s \in FsState /\ s.mem = mem /\ s.disk = disk /\ s.todo = todo
  BY <1>1, StateType
<1> HIDE DEF s
<1>3. Now = s
  BY NowIs DEF s
<1>4. QED
  BY <1>2, <1>3

\* A call begins in a consistent state.
LEMMA ReadyIs ==
  ASSUME FsInv, on, todo = <<>>, mem.halt = "no", torn = "no"
  PROVE  /\ Now \in FsState /\ Now.mem = mem /\ Now.disk = disk /\ Now.todo = <<>>
         /\ Good(Now) /\ Whole(Now, AllTree(Now)) /\ Counted(Now, AllTree(Now))
<1>1. Typed /\ Settling(mem, disk, todo)
  BY DEF FsInv
<1>2. PICK fin \in DiskType : Settles(disk, todo, fin) /\ Good(State(mem, fin, todo))
  BY <1>1 DEF Settling
<1>3. fin = disk
  BY <1>1, <1>2, AllSettled DEF Typed
<1>4. /\ Now \in FsState /\ Now.mem = mem /\ Now.disk = disk /\ Now.todo = todo
  BY <1>1, NowType
<1>5. Good(Now)
  BY <1>2, <1>3, NowIs
<1>6. Whole(Now, AllTree(Now)) /\ Counted(Now, AllTree(Now))
  BY <1>4, <1>5, TreeIs DEF Good, FsConsistent, Tidy
<1>7. QED
  BY <1>1, <1>4, <1>5, <1>6

\* A tree that has suffered: only the bounds are left to say.
LEMMA TornBecomes ==
  ASSUME FsInv, Ready, NEW t, NEW why \in Why, Becomes(t, why), torn # "no" \/ why # "no"
  PROVE  FsInv'
<1>1. calls + 1 \in 0..MaxCalls
  <2>1. calls \in 0..MaxCalls /\ MaxCalls \in Nat /\ calls < MaxCalls
    BY CallAssumption DEF FsInv, Bounds, Ready
  <2>2. QED
    BY <2>1
<1>2. /\ on' = on /\ cuts' = cuts /\ calls' = calls + 1
      /\ torn' = IF torn = "no" THEN why ELSE torn
  BY DEF Becomes
<1>3. torn' # "no" /\ torn' \in Why \cup {"root", "tree"}
  BY <1>2 DEF FsInv, Bounds
<1>4. QED
  BY <1>1, <1>2, <1>3 DEF FsInv, Bounds

\* What a call may do to the file system.
Fine(s, t) ==
  /\ t \in FsState /\ Follows(s, t) /\ t.mem.halt \notin {"empty", "bug", "index"}
  /\ t.mem.halt = "no" => Good(t)

LEMMA PanicFine ==
  ASSUME NEW s \in FsState, s.mem.halt = "no", NEW why \in {"no parent", "inode", "format"}
  PROVE  Fine(s, Panic(s, why))
<1>1. why \in Halts \ {"no"} /\ why \notin {"empty", "bug", "index"}
  BY DEF Halts
<1> DEFINE t == Panic(s, why)
<1>2. t \in FsState /\ Follows(s, t) /\ t.mem.halt # "no" /\ t.mem.halt \in {"no", why}
  BY <1>1, PanicIs
<1> HIDE DEF t
<1>3. Fine(s, t)
  BY <1>1, <1>2 DEF Fine
<1>4. QED
  BY <1>3 DEF t

\* A search that fails has come to where no inode is.
LEMMA FailedFine ==
  ASSUME NEW s \in FsState, s.mem.halt = "no", NEW T, NEW g \in Ends(s, T), ~g.file
  PROVE  /\ g.s \in {s, Panic(s, "inode")}
         /\ Failed(g) => Fine(s, g.s)
<1>1. g.s \in {s, Panic(s, "inode")}
  <2>1. g \notin ThroughFile
    BY FileIsThrough
  <2>2. CASE g = Stuck(s)
    BY <2>2, GotIs
  <2>3. ASSUME NEW x, g = Got(s, x) PROVE g.s = s
    BY <2>3, GotIs
  <2>4. QED
    BY <2>1, <2>2, <2>3 DEF Ends
<1>2. Fine(s, Panic(s, "inode"))
  BY PanicFine
<1>3. QED
  BY <1>1, <1>2 DEF Failed

LEMMA FileOnly ==
  ASSUME NEW s, NEW T, NEW g \in Ends(s, T), ~g.file, g.item.type = "file"
  PROVE  \E y \in FoundItems(s, T) : g = Got(s, y)
<1>1. g \notin ThroughFile
  BY FileIsThrough
<1>2. g # Stuck(s)
  <2>1. Stuck(s).item = Invalid /\ Invalid.type = "invalid"
    BY GotIs, EntryIs
  <2>2. QED
    BY <2>1
<1>3. QED
  BY <1>1, <1>2 DEF Ends

LEMMA MarkIs ==
  ASSUME NEW g
  PROVE  Mark(g) \in Why /\ (Mark(g) = "no" => ~g.file)
<1>1. CASE g.file
  <2>1. Mark(g) = "file"
    BY <1>1, Zenon DEF Mark
  <2>2. QED
    BY <2>1 DEF Why
<1>2. CASE ~g.file
  <2>1. Mark(g) = "no"
    BY <1>2, Zenon DEF Mark
  <2>2. QED
    BY <1>2, <2>1 DEF Why
<1>3. QED
  BY <1>1, <1>2

\* A call that does to the file system what the lemmas above say keeps FsInv.
LEMMA BecomesIs ==
  ASSUME FsInv, Ready, torn = "no", NEW t, NEW why \in Why, why = "no" => Fine(Now, t),
         Becomes(t, why)
  PROVE  FsInv'
<1>0. CASE why # "no"
  BY <1>0, TornBecomes
<1>1. CASE why = "no"
  <2>1. /\ on /\ todo = <<>> /\ mem.halt = "no" /\ calls < MaxCalls
        /\ Now.disk = disk /\ Now.todo = <<>> /\ disk \in DiskType
    BY ReadyIs DEF Ready, FsInv, Typed
  <2>0. /\ t \in FsState /\ Follows(Now, t) /\ t.mem.halt \notin {"empty", "bug", "index"}
        /\ t.mem.halt = "no" => Good(t)
    BY <1>1 DEF Fine
  <2>2. /\ t.mem \in MemType /\ t.disk \in DiskType /\ t.todo \in Seq(Write)
        /\ t.mem.halt \in Halts
    BY <2>0, StateIs DEF MemType
  <2>3. /\ mem' = (IF t.mem.halt = "no" THEN t.mem ELSE [NoMem EXCEPT !.halt = t.mem.halt])
        /\ todo' = t.todo /\ calls' = calls + 1 /\ on' = on /\ disk' = disk
        /\ cuts' = cuts /\ torn' = torn
    BY <1>1 DEF Becomes
  <2>4. mem' \in MemType /\ mem'.halt = t.mem.halt /\ (mem'.halt = "no" => mem' = t.mem)
    BY <2>2, <2>3, NoMemIs
  <2>5. Bounds'
    <3>1. calls + 1 \in 0..MaxCalls
      BY <2>1, CallAssumption DEF FsInv, Bounds
    <3>2. QED
      BY <2>3, <3>1 DEF FsInv, Bounds
  <2>6. Typed'
    BY <2>1, <2>2, <2>3, <2>4 DEF Typed
  <2>7. ASSUME mem'.halt = "no" PROVE Settling(mem', disk', todo')
    <3>1. mem' = t.mem /\ Good(t)
      BY <2>0, <2>4, <2>7
    <3>2. Settles(disk, t.todo, t.disk)
      <4>1. Settles(disk, Now.todo, Now.disk)
        BY <2>1, AllSettled
      <4>2. QED
        BY <2>0, <4>1 DEF Follows
    <3>3. Good(State(mem', t.disk, todo'))
      BY <2>0, <2>3, <3>1, StateOf
    <3>4. QED
      BY <2>2, <2>3, <3>2, <3>3 DEF Settling
  <2>8. QED
    BY <2>0, <2>1, <2>3, <2>4, <2>5, <2>6, <2>7 DEF FsInv
<1>2. QED
  BY <1>0, <1>1

LEMMA LooksIs ==
  ASSUME FsInv, Ready, torn = "no", NEW t, NEW why \in Why,
         why = "no" /\ t.mem.halt # "no" => Fine(Now, t), Looks(t, why)
  PROVE  FsInv'
<1>1. CASE t.mem.halt = "no"
  <2>1. UNCHANGED vars
    BY <1>1 DEF Looks
  <2>2. QED
    BY <2>1 DEF vars, FsInv, Bounds, Typed, Settling
<1>2. CASE t.mem.halt # "no"
  <2>1. Becomes(t, why)
    BY <1>2 DEF Looks
  <2>2. QED
    BY <1>2, <2>1, BecomesIs
<1>3. QED
  BY <1>1, <1>2

LEMMA InitKeeps ==
  ASSUME Init
  PROVE  FsInv
<1>1. Bounds
  <2>1. on = FALSE /\ torn = "no" /\ cuts = 0 /\ calls = 0
    BY Zenon DEF Init
  <2>2. MaxCuts \in Nat /\ MaxCalls \in Nat
    BY CallAssumption
  <2>3. cuts \in 0..MaxCuts /\ calls \in 0..MaxCalls
    BY <2>1, <2>2
  <2>4. on \in BOOLEAN /\ torn \in Why \cup {"root", "tree"}
    BY <2>1 DEF Why
  <2>5. QED
    BY <2>3, <2>4, Zenon DEF Bounds
<1>2. disk \in DiskType
  <2>1. NoInode \in InodeType /\ EmptyBlock \in BlockType
    <3>1. EmptyBlock \in [Slot -> EntryType]
      BY EmptyBlockIs
    <3>2. QED
      BY <3>1, NoMemIs DEF BlockType
  <2> DEFINE val(at) ==
       CASE at = Magic -> FALSE
         [] at = MapInodes \/ at[1] = "bmap" -> {}
         [] at[1] = "inode" -> NoInode
         [] at[1] = "block" -> EmptyBlock
  <2>2. disk = [at \in Sector |-> val(at)]
    BY Zenon DEF Init
  <2>3. ASSUME NEW a \in Sector PROVE val(a) \in Content(a)
    <3>1. CASE a = Magic
      <4>1. a # MapInodes /\ a[1] # "bmap" /\ a[1] # "inode" /\ a[1] # "block"
        BY <3>1 DEF Magic, MapInodes
      <4>2. val(a) = FALSE
        BY <3>1, <4>1
      <4>3. Content(a) = BOOLEAN
        BY <3>1, Sectors
      <4>4. QED
        BY <4>2, <4>3, Zenon
    <3>2. CASE a = MapInodes \/ \E n \in MapSector : a = MapFree(n)
      <4>1. /\ a # Magic /\ a[1] # "inode" /\ a[1] # "block"
            /\ a = MapInodes \/ a[1] = "bmap"
        BY <3>2 DEF Magic, MapInodes, MapFree
      <4>2. val(a) = {}
        BY <4>1
      <4>3. {} \in Content(a)
        <5>1. CASE a = MapInodes
          BY <5>1, Sectors
        <5>2. ASSUME NEW n \in MapSector, a = MapFree(n) PROVE {} \in Content(a)
          <6>1. Content(MapFree(n)) = SUBSET MapBits(n)
            BY Sectors
          <6>2. QED
            BY <5>2, <6>1
        <5>3. QED
          BY <3>2, <5>1, <5>2
      <4>4. QED
        BY <4>2, <4>3
    <3>3. CASE \E i \in Inode : a = InodeAt(i)
      <4>1. a # Magic /\ a # MapInodes /\ a[1] = "inode"
        BY <3>3 DEF Magic, MapInodes, InodeAt
      <4>2. val(a) = NoInode
        BY <4>1
      <4>3. Content(a) = InodeType
        BY <3>3, Sectors
      <4>4. QED
        BY <2>1, <4>2, <4>3
    <3>4. CASE \E b \in Block : a = BlockAt(b)
      <4>1. a # Magic /\ a # MapInodes /\ a[1] = "block"
        BY <3>4 DEF Magic, MapInodes, BlockAt
      <4>2. val(a) = EmptyBlock
        BY <4>1
      <4>3. Content(a) = BlockType
        BY <3>4, Sectors
      <4>4. QED
        BY <2>1, <4>2, <4>3
    <3>5. QED
      BY <3>1, <3>2, <3>3, <3>4 DEF Sector, MapSector
  <2> HIDE DEF val
  <2>4. QED
    BY <2>2, <2>3 DEF DiskType
<1>3. mem \in MemType /\ mem.halt = "no" /\ todo = <<>> /\ mem = NoMem /\ on = FALSE
  BY NoMemIs DEF Init, NoMem
<1>4. QED
  BY <1>1, <1>2, <1>3 DEF FsInv, Typed

LEMMA DiskWriteKeeps ==
  ASSUME FsInv, DiskWrite
  PROVE  FsInv'
<1>1. /\ todo # <<>> /\ disk' = [disk EXCEPT ![Head(todo).at] = Head(todo).val]
      /\ todo' = Tail(todo) /\ on' = on /\ mem' = mem /\ cuts' = cuts /\ calls' = calls
      /\ torn' = torn /\ on
  BY DEF DiskWrite
<1>2. Bounds'
  BY <1>1 DEF FsInv, Bounds
<1>3. ASSUME torn = "no"
      PROVE  Typed' /\ (mem.halt = "no" => Settling(mem', disk', todo'))
  <2>1. mem \in MemType /\ disk \in DiskType /\ todo \in Seq(Write)
    BY <1>3 DEF FsInv, Typed
  <2>2. /\ disk' \in DiskType /\ todo' \in Seq(Write)
        /\ \A fin : Settles(disk, todo, fin) => Settles(disk', todo', fin)
    BY <1>1, <2>1, TailSettles
  <2>3. ASSUME mem.halt = "no" PROVE Settling(mem', disk', todo')
    <3>1. PICK fin \in DiskType : Settles(disk, todo, fin) /\ Good(State(mem, fin, todo))
      BY <1>1, <1>3, <2>3 DEF FsInv, Settling
    <3> DEFINE s == State(mem, fin, todo)
               t == State(mem, fin, todo')
    <3>2. /\ s \in FsState /\ s.mem = mem /\ s.disk = fin
          /\ t \in FsState /\ t.mem = mem /\ t.disk = fin
      BY <2>1, <2>2, StateType
    <3> HIDE DEF s, t
    <3>3. Good(t)
      BY <3>1, <3>2, SameConsistent DEF s
    <3>4. QED
      BY <1>1, <2>2, <3>1, <3>3 DEF Settling, t
  <2>4. QED
    BY <1>1, <2>1, <2>2, <2>3 DEF Typed
<1>4. QED
  BY <1>1, <1>2, <1>3 DEF FsInv
-----------------------------------------------------------------------------
LEMMA PowerCutKeeps ==
  ASSUME FsInv, PowerCut
  PROVE  FsInv'
<1>1. /\ cuts < MaxCuts /\ on' = FALSE /\ mem' = NoMem /\ todo' = <<>> /\ cuts' = cuts + 1
      /\ disk' = disk /\ calls' = calls /\ torn' = torn
  BY DEF PowerCut
<1>2. Bounds'
  <2>1. cuts + 1 \in 0..MaxCuts
    <3>1. cuts \in 0..MaxCuts /\ MaxCuts \in Nat
      BY CallAssumption DEF FsInv, Bounds
    <3>2. QED
      BY <1>1, <3>1
  <2>2. QED
    BY <1>1, <2>1 DEF FsInv, Bounds
<1>3. NoMem \in MemType /\ NoMem.halt = "no"
  BY NoMemIs DEF NoMem
<1>4. torn = "no" => Typed'
  BY <1>1, <1>3 DEF FsInv, Typed
<1>5. QED
  BY <1>1, <1>2, <1>3, <1>4 DEF FsInv

LEMMA BootNewKeeps ==
  ASSUME FsInv, BootNew
  PROVE  FsInv'
<1>1. /\ ~on /\ on' = TRUE /\ mem' = Formatted.mem /\ todo' = Formatted.todo
      /\ disk' = disk /\ cuts' = cuts /\ calls' = calls /\ torn' = torn
  BY DEF BootNew
<1>2. Bounds'
  BY <1>1 DEF FsInv, Bounds
<1>3. ASSUME torn = "no"
      PROVE  /\ Typed' /\ mem'.halt \notin {"empty", "bug", "index"}
             /\ mem'.halt = "no" => Settling(mem', disk', todo')
  <2>1. disk \in DiskType /\ todo = <<>>
    BY <1>1, <1>3 DEF FsInv, Typed
  <2> DEFINE s == [Now EXCEPT !.mem = NoMem]
             t == Formatted
  <2>2. /\ s.disk = disk /\ s.todo = todo
        /\ t \in FsState /\ Follows(s, t) /\ t.mem.halt \in {"no", "full"}
        /\ t.mem.halt = "no" => Good(t)
    BY <2>1, FormattedIs DEF Good
  <2> HIDE DEF s, t
  <2>3. mem' = t.mem /\ todo' = t.todo
    BY <1>1 DEF t
  <2>4. t.mem \in MemType /\ t.disk \in DiskType /\ t.todo \in Seq(Write)
    BY <2>2, StateIs
  <2>5. Settles(disk, t.todo, t.disk)
    <3>1. Settles(disk, s.todo, s.disk)
      BY <2>1, <2>2, AllSettled
    <3>2. QED
      BY <2>2, <3>1 DEF Follows
  <2>6. ASSUME mem'.halt = "no" PROVE Settling(mem', disk', todo')
    <3>1. Good(State(t.mem, t.disk, t.todo))
      BY <2>2, <2>3, <2>6, StateOf
    <3>2. QED
      BY <1>1, <2>3, <2>4, <2>5, <3>1 DEF Settling
  <2>7. QED
    BY <1>1, <2>1, <2>2, <2>3, <2>4, <2>6 DEF Typed
<1>4. QED
  BY <1>1, <1>2, <1>3 DEF FsInv

\* The boot looks at the disk itself.
LEMMA BootOldKeeps ==
  ASSUME FsInv, BootOld
  PROVE  FsInv'
<1>1. /\ ~on /\ on' = TRUE /\ mem' = Mounted
      /\ disk' = disk /\ todo' = todo /\ cuts' = cuts /\ calls' = calls
  BY DEF BootOld
<1> DEFINE s == [Now EXCEPT !.mem = Mounted]
<1>2. torn' = CASE torn # "no" -> torn
                [] RootInode \notin Mounted.imap -> "root"
                [] ~FsConsistent(s) -> "tree"
                [] OTHER -> "no"
  BY Zenon DEF BootOld
<1> HIDE DEF s
<1>3. torn \in Why \cup {"root", "tree"} /\ "no" \in Why
  BY DEF FsInv, Bounds, Why
<1>4. /\ torn' \in Why \cup {"root", "tree"}
      /\ torn' = "no" => torn = "no" /\ FsConsistent(s)
  BY <1>2, <1>3, Zenon
<1>5. Bounds'
  BY <1>1, <1>4 DEF FsInv, Bounds
<1>6. ASSUME torn' = "no"
      PROVE  /\ Typed' /\ mem'.halt = "no" /\ Settling(mem', disk', todo')
  <2>1. torn = "no" /\ FsConsistent(s) /\ disk \in DiskType /\ todo = <<>>
    BY <1>1, <1>4, <1>6 DEF FsInv, Typed
  <2>2. Mounted \in MemType /\ Mounted.halt = "no"
    BY <2>1, MountedIs
  <2>3. s = State(Mounted, disk, todo)
    BY DEF s, State, Now
  <2>4. Settles(disk, todo, disk)
    BY <2>1, AllSettled
  <2>5. SavedIn(State(Mounted, disk, todo))
    <3> DEFINE u == State(Mounted, disk, todo)
    <3>1. u.mem = Mounted /\ u.disk = disk
      BY DEF State
    <3> HIDE DEF u
    <3>2. /\ Mounted.imap = disk[MapInodes] /\ Mounted.bmap = MapOn(disk)
          /\ \A i \in Mounted.imap : Mounted.inode[i] = disk[InodeAt(i)]
      BY <2>1, MountedIs
    <3>3. QED
      BY <3>1, <3>2 DEF SavedIn, u
  <2>6. Good(State(Mounted, disk, todo))
    BY <2>1, <2>3, <2>5 DEF Good
  <2>7. QED
    BY <1>1, <2>1, <2>2, <2>4, <2>6 DEF Typed, Settling
<1>7. QED
  BY <1>1, <1>5, <1>6 DEF FsInv
-----------------------------------------------------------------------------
LEMMA CreateKeeps ==
  ASSUME FsInv, torn = "no", NEW type \in {"file", "dir"}, NEW dir \in Dirs, NEW name \in PathName,
         CallCreate(type, dir, name)
  PROVE  FsInv'
<1> DEFINE s == Now
           T == AllTree(Now)
           self == Found(Append(dir, name))
           parent == Found(dir)
<1>0. dir \in Seq(PathName)
  BY CallAssumption
<1>1. Ready
  BY DEF CallCreate
<1>2. s \in FsState /\ s.mem.halt = "no" /\ Whole(s, T) /\ Counted(s, T) /\ SavedIn(s)
  BY <1>1, ReadyIs DEF Ready, Good
<1>3. self = diritem_find(s, Append(dir, name)) /\ parent = diritem_find(s, dir)
  BY DEF Found
<1>4. PICK t : /\ Becomes(t, Mark(self))
               /\ \/ Failed(self) /\ t = self.s
                  \/ ~Failed(self) /\ t = Panic(s, "no parent")
                  \/ /\ ~Failed(self) /\ self.item = Invalid /\ parent.item # Invalid
                     /\ t = files_create(s, type, parent.item.inode, name)
  BY DEF CallCreate
<1>5. Append(dir, name) \in Seq(PathName)
  BY <1>0
<1> HIDE DEF s, T, self, parent
<1>6. self \in Ends(s, T)
  BY <1>2, <1>3, <1>5, FindIs
<1>7. ASSUME ~self.file PROVE Fine(s, t)
  <2>1. CASE Failed(self) /\ t = self.s
    BY <1>2, <1>6, <1>7, <2>1, FailedFine
  <2>2. CASE t = Panic(s, "no parent")
    BY <1>2, <2>2, PanicFine
  <2>3. CASE /\ ~Failed(self) /\ self.item = Invalid /\ parent.item # Invalid
             /\ t = files_create(s, type, parent.item.inode, name)
    <3>1. self # Stuck(s)
      <4>1. Panic(s, "inode").mem.halt # "no"
        BY <1>2, PanicIs DEF Halts
      <4>2. Stuck(s).s = Panic(s, "inode")
        BY GotIs
      <4>3. Failed(Stuck(s))
        BY <4>1, <4>2 DEF Failed
      <4>4. QED
        BY <2>3, <4>3
    <3>2. PICK x, y : parent = Got(s, x) /\ self = Got(s, y) /\ Looked(s, T, x, y, name)
      BY <1>0, <1>2, <1>3, <1>7, <3>1, LookupIs
    <3>3. parent.item = x /\ self.item = y
      BY <3>2, GotIs
    <3> DEFINE p == x.inode
    <3>4. p \in DirsOf(s, T) /\ name \in Name /\ Matches(s, p, name) = {}
      BY <2>3, <3>2, <3>3 DEF Looked
    <3>5. t = files_create(s, type, p, name)
      BY <2>3, <3>3
    <3> HIDE DEF p
    <3>6. /\ t \in FsState /\ Follows(s, t) /\ t.mem.halt \in {"no", "full"}
          /\ t.mem.halt = "no" => Good(t)
      BY <1>2, <3>4, <3>5, FilesCreateIs DEF Good
    <3>7. QED
      BY <3>6 DEF Fine
  <2>4. QED
    BY <1>4, <2>1, <2>2, <2>3
<1>8. QED
  BY <1>1, <1>4, <1>7, MarkIs, BecomesIs DEF s

LEMMA RemoveKeeps ==
  ASSUME FsInv, torn = "no", NEW dir \in Dirs, NEW name \in PathName, CallRemove(dir, name)
  PROVE  FsInv'
<1> DEFINE s == Now
           T == AllTree(Now)
           self == Found(Append(dir, name))
           parent == Found(dir)
           why == IF name \in Dots THEN "dots" ELSE Mark(self)
<1>0. dir \in Seq(PathName)
  BY CallAssumption
<1>1. Ready
  BY DEF CallRemove
<1>2. s \in FsState /\ s.mem.halt = "no" /\ Whole(s, T) /\ Counted(s, T) /\ SavedIn(s)
  BY <1>1, ReadyIs DEF Ready, Good
<1>3. self = diritem_find(s, Append(dir, name)) /\ parent = diritem_find(s, dir)
  BY DEF Found
<1>4. \/ Failed(parent) /\ Becomes(parent.s, Mark(parent))
      \/ Failed(self) /\ Becomes(self.s, Mark(self))
      \/ /\ ~Failed(self) /\ self.item # Invalid
         /\ Becomes(diritem_remove(s, parent.item.inode, self.item), why)
  BY DEF CallRemove
<1>5. Append(dir, name) \in Seq(PathName)
  BY <1>0
<1> HIDE DEF s, T, self, parent
<1>6. self \in Ends(s, T) /\ parent \in Ends(s, T)
  BY <1>0, <1>2, <1>3, <1>5, FindIs
<1>7. ASSUME NEW g \in Ends(s, T), Failed(g), Becomes(g.s, Mark(g)) PROVE FsInv'
  <2>1. ~g.file => Fine(s, g.s)
    BY <1>2, <1>7, FailedFine
  <2>2. QED
    BY <1>1, <1>7, <2>1, MarkIs, BecomesIs DEF s
<1>8. CASE /\ ~Failed(self) /\ self.item # Invalid
           /\ Becomes(diritem_remove(s, parent.item.inode, self.item), why)
  <2> DEFINE t == diritem_remove(s, parent.item.inode, self.item)
  <2>1. Becomes(t, why) /\ why \in Why
    BY <1>8, MarkIs DEF Why
  <2>2. ASSUME why = "no" PROVE Fine(s, t)
    <3>1. name \in Name /\ ~self.file
      <4>1. name \notin Dots /\ Mark(self) = "no"
        BY <2>2
      <4>2. QED
        BY <4>1, MarkIs DEF PathName
    <3>2. self # Stuck(s)
      <4>1. Stuck(s).item = Invalid
        BY GotIs
      <4>2. QED
        BY <1>8, <4>1
    <3>3. PICK x, y : parent = Got(s, x) /\ self = Got(s, y) /\ Looked(s, T, x, y, name)
      BY <1>0, <1>2, <1>3, <3>1, <3>2, LookupIs
    <3>4. parent.item = x /\ self.item = y
      BY <3>3, GotIs
    <3> DEFINE p == x.inode
    <3>5. /\ p \in DirsOf(s, T) /\ FoundAt(s, p, name) # -1
          /\ y = ItemAt(s, p, FoundAt(s, p, name))
      BY <1>8, <3>3, <3>4 DEF Looked
    <3>6. t = diritem_remove(s, p, y)
      BY <3>4
    <3> HIDE DEF p, t
    <3>7. /\ t \in FsState /\ Follows(s, t) /\ t.mem.halt = "no" /\ Good(t)
      BY <1>2, <3>1, <3>5, <3>6, RemoveIs DEF Good
    <3>8. QED
      BY <3>7 DEF Fine
  <2> HIDE DEF t, why
  <2>3. QED
    BY <1>1, <2>1, <2>2, BecomesIs DEF s
<1>9. QED
  BY <1>4, <1>6, <1>7, <1>8

LEMMA WriteKeeps ==
  ASSUME FsInv, torn = "no", NEW dir \in Dirs, NEW name \in PathName, NEW size \in Size,
         CallWrite(dir, name, size)
  PROVE  FsInv'
<1> DEFINE s == Now
           T == AllTree(Now)
           self == Found(Append(dir, name))
<1>0. dir \in Seq(PathName) /\ size \in Nat
  BY CallAssumption
<1>1. Ready /\ Fits(size)
  BY DEF CallWrite
<1>2. s \in FsState /\ s.mem.halt = "no" /\ Whole(s, T) /\ Counted(s, T) /\ SavedIn(s)
  BY <1>1, ReadyIs DEF Ready, Good
<1>3. self = diritem_find(s, Append(dir, name)) /\ Append(dir, name) \in Seq(PathName)
  BY <1>0 DEF Found
<1>4. PICK t : /\ Becomes(t, Mark(self))
               /\ \/ Failed(self) /\ t = self.s
                  \/ t = Panic(s, "format")
                  \/ /\ ~Failed(self) /\ self.item.type = "file"
                     /\ t = files_write(s, self.item.inode, size)
  BY DEF CallWrite
<1> HIDE DEF s, T, self
<1>5. self \in Ends(s, T)
  BY <1>2, <1>3, FindIs
<1>6. ASSUME ~self.file PROVE Fine(s, t)
  <2>1. CASE Failed(self) /\ t = self.s
    BY <1>2, <1>5, <1>6, <2>1, FailedFine
  <2>2. CASE t = Panic(s, "format")
    BY <1>2, <2>2, PanicFine
  <2>3. CASE /\ ~Failed(self) /\ self.item.type = "file"
             /\ t = files_write(s, self.item.inode, size)
    <3>1. PICK y \in FoundItems(s, T) : self = Got(s, y)
      BY <1>5, <1>6, <2>3, FileOnly
    <3>2. self.item = y
      BY <3>1, GotIs
    <3> DEFINE i == y.inode
    <3>3. PICK q \in T : y = ItemOf(s, q)
      BY <2>3, <3>2, FileFound
    <3>4. FileOf(s, T, i)
      BY <1>2, <2>3, <3>2, <3>3, FileIs
    <3>5. i \in Inode
      BY <3>4 DEF FileOf
    <3>6. t = files_write(s, i, size)
      BY <2>3, <3>2
    <3> HIDE DEF i
    <3>7. /\ t \in FsState /\ Follows(s, t) /\ t.mem.halt \in {s.mem.halt, "full"}
          /\ t.mem.halt = "no" => FsConsistent(t) /\ Stored(s, t, i)
      BY <1>0, <1>1, <1>2, <3>4, <3>5, <3>6, FilesWriteIs
    <3>8. t.mem.halt = "no" => Good(t)
      BY <1>2, <3>7, StoredSaved DEF Good
    <3>9. QED
      BY <1>2, <3>7, <3>8 DEF Fine
  <2>4. QED
    BY <1>4, <2>1, <2>2, <2>3
<1>7. QED
  BY <1>1, <1>4, <1>6, MarkIs, BecomesIs DEF s

LEMMA LoadKeeps ==
  ASSUME FsInv, torn = "no", NEW name \in Name, NEW size \in Size, CallLoad(name, size)
  PROVE  FsInv'
<1> DEFINE s == Now
           T == AllTree(Now)
           dir == DIR_LOADER
           self == Found(Append(dir, name))
           parent == Found(dir)
           i == FreeInode(s)
           s1 == files_create(s, "file", parent.item.inode, name)
           opened == IF s1.mem.halt = "no" THEN diritem_find(s1, Append(dir, name))
                     ELSE [self EXCEPT !.s = s1]
           s2 == opened.s
           t == files_write(s2, i, size)
           why == IF self.file THEN "file" ELSE Mark(opened)
<1>0. dir \in Seq(PathName) /\ size \in Nat /\ name \in PathName
      /\ Append(dir, name) \in Seq(PathName)
  <2>1. DIR_LOADER \in Seq(Name) /\ Name \subseteq PathName
    BY CallAssumption DEF PathName
  <2>2. DIR_LOADER \in Seq(PathName) /\ name \in PathName
    BY <2>1
  <2>3. QED
    BY <2>2, CallAssumption
<1>1. Ready /\ Fits(size)
  BY DEF CallLoad
<1>2. s \in FsState /\ s.mem.halt = "no" /\ Whole(s, T) /\ Counted(s, T) /\ SavedIn(s)
  BY <1>1, ReadyIs DEF Ready, Good
<1>3. self = diritem_find(s, Append(dir, name)) /\ parent = diritem_find(s, dir)
  BY DEF Found
<1>4. ~Failed(self) /\ self.item = Invalid /\ parent.item.type = "dir" /\ Becomes(t, why)
  BY DEF CallLoad
<1>5. why \in Why /\ (why = "no" => ~self.file /\ ~opened.file)
  <2> HIDE DEF opened, self
  <2>1. CASE self.file
    <3>1. why = "file"
      BY <2>1, Zenon
    <3>2. QED
      BY <3>1 DEF Why
  <2>2. CASE ~self.file
    <3>1. why = Mark(opened)
      BY <2>2, Zenon
    <3>2. QED
      BY <2>2, <3>1, MarkIs
  <2>3. QED
    BY <2>1, <2>2
<1> HIDE DEF s, T, self, parent, dir, i, s1, why
<1>6. ASSUME ~self.file, ~opened.file PROVE Fine(s, t)
  <2>1. self # Stuck(s)
    <3>1. Panic(s, "inode").mem.halt # "no" /\ Stuck(s).s = Panic(s, "inode")
      BY <1>2, PanicIs, GotIs DEF Halts
    <3>2. Failed(Stuck(s))
      BY <3>1 DEF Failed
    <3>3. QED
      BY <1>4, <3>2
  <2>2. PICK x, y : parent = Got(s, x) /\ self = Got(s, y) /\ Looked(s, T, x, y, name)
    BY <1>0, <1>2, <1>3, <1>6, <2>1, LookupIs
  <2>3. parent.item = x /\ self.item = y
    BY <2>2, GotIs
  <2> DEFINE p == x.inode
  <2>4. p \in DirsOf(s, T) /\ Matches(s, p, name) = {}
    <3>1. x # Invalid
      BY <1>4, <2>3, NotInvalid
    <3>2. QED
      BY <1>4, <2>2, <2>3, <3>1 DEF Looked
  <2>5. s1 = files_create(s, "file", p, name)
    BY <2>3 DEF s1
  <2> HIDE DEF p
  <2>6. /\ s1 \in FsState /\ Follows(s, s1) /\ s1.mem.halt \in {"no", "full"}
        /\ i \in Inode
        /\ s1.mem.halt = "no" => Good(s1) /\ FileOf(s1, AllTree(s1), i)
    BY <1>2, <2>4, <2>5, FilesCreateIs DEF Good, i
  <2>7. s1.mem.halt = "no" =>
          /\ Whole(s1, AllTree(s1)) /\ Counted(s1, AllTree(s1))
          /\ FileOf(s1, AllTree(s1), i) /\ SavedIn(s1)
    BY <2>6, TreeIs DEF Good, FsConsistent, Tidy
  <2>8. s2 = s1 \/ (s1.mem.halt = "no" /\ s2 = Panic(s1, "inode"))
    <3>1. CASE s1.mem.halt = "no"
      <4>1. opened = diritem_find(s1, Append(dir, name))
        BY <3>1
      <4> HIDE DEF opened
      <4>2. opened \in Ends(s1, AllTree(s1))
        BY <1>0, <2>6, <2>7, <3>1, <4>1, FindIs
      <4>3. opened.s \in {s1, Panic(s1, "inode")}
        BY <1>6, <2>6, <3>1, <4>2, FailedFine
      <4>4. QED
        BY <3>1, <4>3
    <3>2. CASE s1.mem.halt # "no"
      <4>1. opened = [self EXCEPT !.s = s1]
        BY <3>2
      <4> HIDE DEF opened, s2
      <4>2. \A z : [Got(s, y) EXCEPT !.s = z].s = z
        BY DEF Got
      <4>3. opened.s = s1
        BY <2>2, <4>1, <4>2
      <4>4. QED
        BY <4>3 DEF s2
    <3>3. QED
      BY <3>1, <3>2
  <2> HIDE DEF opened, s2
  <2>9. CASE s2 = s1
    <3>1. /\ t \in FsState /\ Follows(s1, t) /\ t.mem.halt \in {s1.mem.halt, "full"}
          /\ s1.mem.halt # "no" => t.mem.halt # "no"
          /\ t.mem.halt = "no" => FsConsistent(t) /\ Stored(s1, t, i)
      BY <1>0, <1>1, <2>6, <2>7, <2>9, FilesWriteIs
    <3> HIDE DEF t
    <3>2. Follows(s, t) /\ t.mem.halt \notin {"empty", "bug", "index"}
      BY <2>6, <3>1, FollowsOn
    <3>3. t.mem.halt = "no" => Good(t)
      BY <2>6, <2>7, <3>1, StoredSaved DEF Good
    <3>4. QED
      BY <3>1, <3>2, <3>3 DEF Fine
  <2>10. CASE s1.mem.halt = "no" /\ s2 = Panic(s1, "inode")
    <3>1. s2 \in FsState /\ Follows(s1, s2) /\ s2.mem.halt = "inode"
      BY <2>6, <2>10, PanicIs DEF Halts
    <3>2. /\ t \in FsState /\ Follows(s2, t) /\ t.mem.halt \in {"inode", "full"}
      BY <1>0, <1>1, <2>6, <3>1, FilesWriteIs
    <3> HIDE DEF t
    <3>3. Follows(s, t)
      BY <2>6, <3>1, <3>2, FollowsOn
    <3>4. QED
      BY <3>2, <3>3 DEF Fine
  <2>11. QED
    BY <2>8, <2>9, <2>10
<1> HIDE DEF t, opened
<1>7. QED
  BY <1>1, <1>4, <1>5, <1>6, BecomesIs DEF s

LEMMA ListKeeps ==
  ASSUME FsInv, torn = "no", NEW dir \in Dirs, CallList(dir)
  PROVE  FsInv'
<1> DEFINE s == Now
           T == AllTree(Now)
           t == files_list(Now, dir)
           g == Found(dir)
<1>1. Ready /\ dir \in Seq(PathName) /\ Looks(t, Mark(g))
  BY CallAssumption DEF CallList
<1>2. s \in FsState /\ s.mem.halt = "no" /\ Whole(s, T) /\ Counted(s, T)
  BY <1>1, ReadyIs DEF Ready
<1>3. g = diritem_find(s, dir) /\ t = files_list(s, dir)
  BY DEF Found
<1> HIDE DEF s, T, t, g
<1>4. ~g.file => t \in {s, Panic(s, "inode")}
  BY <1>1, <1>2, <1>3, ListIs
<1>5. Fine(s, Panic(s, "inode"))
  BY <1>2, PanicFine
<1>6. ~g.file /\ t.mem.halt # "no" => Fine(s, t)
  BY <1>2, <1>4, <1>5
<1>7. QED
  BY <1>1, <1>6, MarkIs, LooksIs DEF s

LEMMA ReadKeeps ==
  ASSUME FsInv, torn = "no", NEW dir \in Dirs, NEW name \in PathName, CallRead(dir, name)
  PROVE  FsInv'
<1> DEFINE s == Now
           T == AllTree(Now)
           self == Found(Append(dir, name))
<1>1. Ready /\ dir \in Seq(PathName)
  BY CallAssumption DEF CallRead
<1>2. s \in FsState /\ s.mem.halt = "no" /\ Whole(s, T) /\ Counted(s, T) /\ SavedIn(s)
  BY <1>1, ReadyIs DEF Ready, Good
<1>3. self = diritem_find(s, Append(dir, name)) /\ Append(dir, name) \in Seq(PathName)
  BY <1>1 DEF Found
<1>4. PICK t : /\ Looks(t, Mark(self))
               /\ \/ t = self.s
                  \/ t = Panic(s, "format")
                  \/ self.item.type = "file" /\ t = files_read(s, self.item.inode)
  BY DEF CallRead
<1> HIDE DEF s, T, self
<1>5. self \in Ends(s, T)
  BY <1>2, <1>3, FindIs
<1>6. ASSUME ~self.file, t.mem.halt # "no" PROVE Fine(s, t)
  <2>1. CASE t = self.s
    BY <1>2, <1>5, <1>6, <2>1, FailedFine DEF Failed
  <2>2. CASE t = Panic(s, "format")
    BY <1>2, <2>2, PanicFine
  <2>3. CASE self.item.type = "file" /\ t = files_read(s, self.item.inode)
    <3>1. PICK y \in FoundItems(s, T) : self = Got(s, y)
      BY <1>5, <1>6, <2>3, FileOnly
    <3>2. self.item = y
      BY <3>1, GotIs
    <3>3. PICK q \in T : y = ItemOf(s, q)
      BY <2>3, <3>2, FileFound
    <3>4. files_read(s, y.inode) = s
      BY <1>2, <2>3, <3>2, <3>3, ReadIs
    <3>5. QED
      BY <1>2, <1>6, <2>3, <3>2, <3>4
  <2>4. QED
    BY <1>4, <2>1, <2>2, <2>3
<1>7. QED
  BY <1>1, <1>4, <1>6, MarkIs, LooksIs DEF s

\* Once the tree has suffered, only the bounds are left to say.
LEMMA TornKeeps ==
  ASSUME FsInv, torn # "no", Call
  PROVE  FsInv'
<1>1. ASSUME NEW t, NEW why \in Why, Ready, Becomes(t, why) PROVE FsInv'
  BY <1>1, TornBecomes
<1>2. ASSUME UNCHANGED vars PROVE FsInv'
  <2>1. on' = on /\ cuts' = cuts /\ torn' = torn /\ calls' = calls
    BY <1>2 DEF vars
  <2>2. QED
    BY <2>1 DEF FsInv, Bounds
<1>3. ASSUME NEW t, NEW why \in Why, Ready, Looks(t, why) PROVE FsInv'
  BY <1>1, <1>2, <1>3 DEF Looks
<1>4. \A g : Mark(g) \in Why
  BY MarkIs
<1>5. ASSUME NEW dir, NEW name, NEW type, CallCreate(type, dir, name) PROVE FsInv'
  <2>1. Ready /\ \E t, g : Becomes(t, Mark(g))
    BY <1>5 DEF CallCreate
  <2>2. QED
    BY <1>1, <1>4, <2>1
<1>6. ASSUME NEW dir, NEW name, CallRemove(dir, name) PROVE FsInv'
  <2>1. Ready /\ \E t, g : Becomes(t, Mark(g))
                           \/ Becomes(t, IF name \in Dots THEN "dots" ELSE Mark(g))
    BY <1>6 DEF CallRemove
  <2>2. \A g : (IF name \in Dots THEN "dots" ELSE Mark(g)) \in Why
    BY <1>4 DEF Why
  <2>3. QED
    BY <1>1, <1>4, <2>1, <2>2
<1>7. ASSUME NEW dir, NEW name, NEW size, CallWrite(dir, name, size) PROVE FsInv'
  <2>1. Ready /\ \E t, g : Becomes(t, Mark(g))
    BY <1>7 DEF CallWrite
  <2>2. QED
    BY <1>1, <1>4, <2>1
<1>8. ASSUME NEW name, NEW size, CallLoad(name, size) PROVE FsInv'
  <2>1. Ready /\ \E t, g, h : Becomes(t, IF g.file THEN "file" ELSE Mark(h))
    BY <1>8 DEF CallLoad
  <2>2. \A g, h : (IF g.file THEN "file" ELSE Mark(h)) \in Why
    BY <1>4 DEF Why
  <2>3. QED
    BY <1>1, <2>1, <2>2
<1>9. ASSUME NEW dir, CallList(dir) PROVE FsInv'
  <2>1. Ready /\ \E t, g : Looks(t, Mark(g))
    BY <1>9 DEF CallList
  <2>2. QED
    BY <1>3, <1>4, <2>1
<1>10. ASSUME NEW dir, NEW name, CallRead(dir, name) PROVE FsInv'
  <2>1. Ready /\ \E t, g : Looks(t, Mark(g))
    BY <1>10 DEF CallRead
  <2>2. QED
    BY <1>3, <1>4, <2>1
<1>11. QED
  BY <1>5, <1>6, <1>7, <1>8, <1>9, <1>10 DEF Call

LEMMA CallKeeps ==
  ASSUME FsInv, Call
  PROVE  FsInv'
<1>1. CASE torn # "no"
  BY <1>1, TornKeeps
<1>2. CASE torn = "no"
  <2>1. ASSUME NEW dir \in Dirs, NEW name \in PathName, NEW type \in {"file", "dir"},
               CallCreate(type, dir, name)
        PROVE  FsInv'
    BY <1>2, <2>1, CreateKeeps
  <2>2. ASSUME NEW dir \in Dirs, NEW name \in PathName, CallRemove(dir, name) PROVE FsInv'
    BY <1>2, <2>2, RemoveKeeps
  <2>3. ASSUME NEW dir \in Dirs, NEW name \in PathName, NEW size \in Size,
               CallWrite(dir, name, size)
        PROVE  FsInv'
    BY <1>2, <2>3, WriteKeeps
  <2>4. ASSUME NEW name \in Name, NEW size \in Size, CallLoad(name, size) PROVE FsInv'
    BY <1>2, <2>4, LoadKeeps
  <2>5. ASSUME NEW dir \in Dirs, NEW name \in PathName, CallRead(dir, name) PROVE FsInv'
    BY <1>2, <2>5, ReadKeeps
  <2>6. ASSUME NEW dir \in Dirs, CallList(dir) PROVE FsInv'
    BY <1>2, <2>6, ListKeeps
  <2>7. QED
    BY <2>1, <2>2, <2>3, <2>4, <2>5, <2>6 DEF Call
<1>3. QED
  BY <1>1, <1>2

(***************************************************************************)
(* FsInv is an invariant, until a path goes through a file, "." or ".." is *)
(* removed, or a boot finds a tree that is not whole: in whatever order    *)
(* files.c is called, with paths up and down the tree, and however far the *)
(* disk has got with a call's writes, the disk still to come agrees with   *)
(* the inodes that memory holds, and with the map as far as it is sent.    *)
(***************************************************************************)
THEOREM FsInvHolds == Spec => []FsInv
<1>1. Init => FsInv
  BY InitKeeps
<1>2. FsInv /\ [Next]_vars => FsInv'
  <2> SUFFICES ASSUME FsInv, [Next]_vars PROVE FsInv'
    OBVIOUS
  <2>1. CASE UNCHANGED vars
    BY <2>1 DEF vars, FsInv, Bounds, Typed, Settling
  <2>2. CASE BootNew
    BY <2>2, BootNewKeeps
  <2>3. CASE BootOld
    BY <2>3, BootOldKeeps
  <2>4. CASE DiskWrite
    BY <2>4, DiskWriteKeeps
  <2>5. CASE PowerCut
    BY <2>5, PowerCutKeeps
  <2>6. CASE Call
    BY <2>6, CallKeeps
  <2>7. QED
    BY <2>1, <2>2, <2>3, <2>4, <2>5, <2>6 DEF Next
<1>3. QED
  BY <1>1, <1>2, PTL DEF Spec

(***************************************************************************)
(* Every state that the code can reach is well typed: sizes, block numbers *)
(* and the contents of sectors stay in range in whatever order the calls   *)
(* of files.c come, for any number of inodes and blocks.                   *)
(***************************************************************************)
THEOREM FsTypes == Spec => []FsTypeOK
<1>1. FsInv => FsTypeOK
  <2> SUFFICES ASSUME FsInv PROVE FsTypeOK
    OBVIOUS
  <2>1. ASSUME torn = "no"
        PROVE  /\ mem \in MemType
               /\ DOMAIN disk = Sector /\ \A at \in Sector : disk[at] \in Content(at)
               /\ \A n \in DOMAIN todo :
                    todo[n].at \in Sector /\ todo[n].val \in Content(todo[n].at)
    <3>1. mem \in MemType /\ disk \in DiskType /\ todo \in Seq(Write)
      BY <2>1 DEF FsInv, Typed
    <3>2. ASSUME NEW n \in DOMAIN todo
          PROVE  todo[n].at \in Sector /\ todo[n].val \in Content(todo[n].at)
      <4>1. todo[n] \in Write
        BY <3>1
      <4>2. QED
        BY <4>1 DEF Write
    <3>3. QED
      BY <3>1, <3>2 DEF DiskType
  <2>2. on \in BOOLEAN /\ torn \in {"no", "root", "tree", "dots", "file"}
        /\ cuts \in 0..MaxCuts /\ calls \in 0..MaxCalls
    BY DEF FsInv, Bounds, Why
  <2>3. QED
    BY <2>1, <2>2 DEF FsTypeOK
<1>2. QED
  BY <1>1, FsInvHolds, PTL

(***************************************************************************)
(* Between calls the tree owns its inodes and blocks alone, and all of     *)
(* them are in use: for any number of inodes, blocks, names and calls, and *)
(* whatever of a call's writes a power cut has lost (files_create,         *)
(* files_remove, files_write of files.c).  What ends this is in torn: a    *)
(* boot from a disk where it is not so, a path through a file, and a       *)
(* removal of "." or "..".                                                 *)
(***************************************************************************)
THEOREM TreeOwns == Spec => []TreeOwnsBlocks
<1>1. FsInv => TreeOwnsBlocks
  BY ReadyIs DEF TreeOwnsBlocks, AtRest, Good
<1>2. QED
  BY <1>1, FsInvHolds, PTL

(***************************************************************************)
(* So free_rw_disk never refuses a block that the map has as free (the     *)
(* panic at free.c:80), diritem_remove_sub never comes to an item that is  *)
(* neither a file nor a directory (the panic at dir.c:152), and            *)
(* iblock_set is never asked for the last block (that at inodes.c:129).    *)
(***************************************************************************)
THEOREM NeverBadBlock == Spec => []NoBadBlock
<1>1. FsInv => NoBadBlock
  BY DEF FsInv, NoBadBlock
<1>2. QED
  BY <1>1, FsInvHolds, PTL

(***************************************************************************)
(* Between calls the disk has the inodes and the map of the inodes that    *)
(* memory has, and lacks of the sectors of the block map that the device   *)
(* is sent only the blocks of files that nobody has written: files_create, *)
(* files_remove and files_write of files.c save all else that they change  *)
(* before they return.                                                     *)
(***************************************************************************)
THEOREM DiskSaved == Spec => []Saved
<1>1. FsInv => Saved
  <2> SUFFICES ASSUME FsInv, AtRest, torn = "no"
               PROVE  /\ disk[MapInodes] = mem.imap
                      /\ \A i \in mem.imap : disk[InodeAt(i)] = mem.inode[i]
                      /\ DiskMap \cap Sent \subseteq mem.bmap
                      /\ (mem.bmap \cap Sent) \ DiskMap \subseteq
                           {mem.inode[i].iblocks[0] : i \in {j \in mem.imap : mem.inode[j].size = 0}}
    BY DEF Saved
  <2>1. SavedIn(Now) /\ Now.mem = mem /\ Now.disk = disk
    BY ReadyIs DEF AtRest, Good
  <2>2. DiskMap = MapOn(disk)
    BY DEF DiskMap, MapOn, MapSector
  <2>3. QED
    BY <2>1, <2>2 DEF SavedIn, Unwritten
<1>2. QED
  BY <1>1, FsInvHolds, PTL
=============================================================================
