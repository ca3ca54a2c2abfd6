----------------------------- MODULE HeldProofs ------------------------------
(***************************************************************************)
(* More proofs about Heap: what the program holds.  As long as no area has *)
(* been dropped from its chain, the chunks and the pages it has been given *)
(* and has not freed are apart, and as long as no bucket has lost a page   *)
(* either, dyn_free finds them again, for any sizes and any order of       *)
(* calls.  The frames in use are those of its pages, each once, and exit   *)
(* gives them back.  Areas and nodes are made of chunks that are in use    *)
(* once each, and not free.                                                *)
(*                                                                         *)
(* The order of the module: what Owned says and what follows from it;      *)
(* what each function of FmtList and VSpace does to it; then dyn_alloc and *)
(* dyn_free; then the actions of Heap.  The same again for the frames,     *)
(* from Exact on, and for the metadata, from Out on.                       *)
(***************************************************************************)
EXTENDS HeapProofs

\* Where the nodes of the areas are.
Spots(areas) == {<<n.va, n.len>> : n \in NodesOf(areas)}

\* A page of metadata that has been given out.
Taken(m, page) == page \in KernPage /\ page - KERN_METADATA \in m.virmm.set

BucketPages(m) == UNION {PagesOf(m, b) : b \in Bucket}

\* What a program holds: chunks and ranges of pages.
Chunks(hold) == {h \in hold : "ptr" \in DOMAIN h}
Ranges(hold) == {h \in hold : "va" \in DOMAIN h}

\* The pages that chunks are in, of a bucket or held.
ChunkPages(m, hold) == BucketPages(m) \cup {h.ptr[1] : h \in Chunks(hold)}

\* The kernel's lists keep to their own pages, and all pages of them and of
\* those in use elsewhere have been given out.
MetaApart(m, inUse) ==
  /\ \A l \in Metadata : \A page \in PagesOf(m, l) : Taken(m, page) /\ page \notin inUse
  /\ \A k, l \in Metadata : k # l => PagesOf(m, k) \cap PagesOf(m, l) = {}
  /\ \A page \in inUse : page >= KERN_METADATA => Taken(m, page)

\* A page is in one place of one bucket, and first if it is of the program's
\* space.
BucketsApart(m) ==
  \A b \in Bucket : \A k \in DOMAIN m.lists[b] :
    /\ IsInjective(m.lists[b][k].free)
    /\ k = 1 <=> m.lists[b][k].va < KERN_METADATA
    /\ \A c \in Bucket : \A j \in DOMAIN m.lists[c] :
         m.lists[c][j].va = m.lists[b][k].va => c = b /\ j = k

\* The first page of a bucket is never all free between calls.
HeadUsed(m, b) == m.lists[b] # <<>> => Len(m.lists[b][1].free) < CAPACITY

NotFree(m, ptr) ==
  \A b \in Bucket : \A k \in DOMAIN m.lists[b] :
    m.lists[b][k].va = ptr[1] => ptr[2] \notin Range(m.lists[b][k].free)

(***************************************************************************)
(* The program's chunks and pages, the buckets and the metadata keep out   *)
(* of each other's way.                                                    *)
(***************************************************************************)
Owned(s, hold) ==
  /\ MetaApart(s.mem, ChunkPages(s.mem, hold))
  /\ \A page \in ChunkPages(s.mem, hold) :
       page < KERN_METADATA => <<page, 1>> \in Spots(s.chain)
  /\ BucketsApart(s.mem)
  /\ \A h \in Chunks(hold) : NotFree(s.mem, h.ptr)
  /\ \A h \in Ranges(hold) :
       <<h.va, h.len>> \in Spots(s.chain) /\ h.va \notin ChunkPages(s.mem, hold)
  /\ \A h \in hold : ~h.twin
  /\ s.harm = {} => \A h \in Chunks(hold) : h.ptr[1] \in BucketPages(s.mem)
-----------------------------------------------------------------------------
\* The kernel's lists are not the program's.
LEMMA ListsAre ==
  /\ \A b \in Bucket : b \in List /\ b \notin Metadata
  /\ \A l \in Metadata : l \in List /\ l \notin Bucket
  /\ "vspace" \in Metadata /\ "node" \in Metadata /\ "vaddr" \in Metadata
BY FmtAssumption DEF List, Metadata

\* The pages of a list, by position.
LEMMA PagesAre ==
  ASSUME NEW m \in MemType, NEW l \in List
  PROVE  PagesOf(m, l) = {m.lists[l][k].va : k \in 1..Len(m.lists[l])}
BY ListType DEF PagesOf

\* They are the same if only what is free in them has changed.
LEMMA SamePages ==
  ASSUME NEW m \in MemType, NEW new \in MemType, NEW l \in List,
         Len(new.lists[l]) = Len(m.lists[l]),
         \A k \in 1..Len(m.lists[l]) : new.lists[l][k].va = m.lists[l][k].va
  PROVE  PagesOf(new, l) = PagesOf(m, l)
<1>1. /\ PagesOf(m, l) = {m.lists[l][k].va : k \in 1..Len(m.lists[l])}
      /\ PagesOf(new, l) = {new.lists[l][k].va : k \in 1..Len(new.lists[l])}
  BY PagesAre
<1>2. QED
  BY <1>1

\* A page that has been given out is one of the metadata's.
LEMMA TakenIs ==
  ASSUME NEW m, NEW page, Taken(m, page)
  PROVE  page \in Nat /\ page >= KERN_METADATA /\ KERN_METADATA \in Nat
BY Sizes DEF Taken, KernPage

\* The next free page of metadata that a list may need.
LEMMA RoomPages ==
  ASSUME NEW m \in MemType, NEW l \in List, WithRoom(m, l).halt = "no"
  PROVE  LET m1 == WithRoom(m, l)
             n  == Len(m.lists[l])
         IN  /\ m.halt = "no" /\ m1 \in MemType
             /\ \A other \in List : other # l => m1.lists[other] = m.lists[other]
             /\ \/ m1 = m
                \/ \E page \in KernPage :
                     /\ TookKern(m, m1, page) /\ Len(m1.lists[l]) = n + 1
                     /\ \A k \in 1..n : m1.lists[l][k] = m.lists[l][k]
                     /\ m1.lists[l][n + 1] = fmtlist_init(page)
                     /\ PagesOf(m1, l) = PagesOf(m, l) \cup {page}
                     /\ Open(m, l) = {}
<1> DEFINE m1   == WithRoom(m, l)
           page == NewKernPage(m)
           more == fmtlist_init(page)
           n    == Len(m.lists[l])
<1>1. /\ m1 \in MemType
      /\ Open(m, l) # {} => m1 = m
      /\ Open(m, l) = {} =>
           /\ m1.lists = [m.lists EXCEPT ![l] = Append(m.lists[l], more)]
           /\ page \in Addr
           /\ m1.halt = "no" => m.halt = "no" /\ TookKern(m, m1, page)
  BY RoomIs
<1>2. m1.halt = "no"
  OBVIOUS
<1>3. more.va = page
  BY Zenon DEF fmtlist_init
<1> HIDE DEF m1, page, more
<1>4. CASE Open(m, l) # {}
  BY <1>1, <1>2, <1>4 DEF m1
<1>5. CASE Open(m, l) = {}
  <2>1. m.lists \in [List -> Seq(PageType)] /\ m.lists[l] \in Seq(PageType) /\ n \in Nat
    BY ListType
  <2>2. m1.lists[l] = Append(m.lists[l], more)
        /\ \A other \in List : other # l => m1.lists[other] = m.lists[other]
    BY <1>1, <1>5, <2>1
  <2> DEFINE list == m.lists[l]
  <2>3. /\ Len(Append(list, more)) = n + 1 /\ Append(list, more)[n + 1] = more
        /\ \A k \in 1..n : Append(list, more)[k] = list[k]
    <3> HIDE DEF list
    <3>1. list \in Seq(PageType) /\ n = Len(list)
      BY <2>1 DEF list
    <3> HIDE DEF n
    <3>2. QED
      BY <3>1
  <2>4. page \in KernPage /\ TookKern(m, m1, page) /\ m.halt = "no"
    BY <1>1, <1>2, <1>5 DEF TookKern
  <2>5. /\ Len(m1.lists[l]) = n + 1 /\ m1.lists[l][n + 1] = more
        /\ \A k \in 1..n : m1.lists[l][k] = m.lists[l][k]
    BY <2>2, <2>3
  <2>6. PagesOf(m1, l) = PagesOf(m, l) \cup {page}
    <3>1. /\ PagesOf(m, l) = {m.lists[l][k].va : k \in 1..n}
          /\ PagesOf(m1, l) = {m1.lists[l][k].va : k \in 1..(n + 1)}
      BY <1>1, <2>5, PagesAre
    <3>2. \A k : k \in 1..(n + 1) <=> k \in 1..n \/ k = n + 1
      BY <2>1
    <3>3. n + 1 \notin 1..n
      BY <2>1
    <3> HIDE DEF n
    <3>4. QED
      BY <1>3, <2>5, <3>1, <3>2, <3>3
  <2>7. QED
    BY <1>1, <1>5, <2>2, <2>4, <2>5, <2>6 DEF m1, more
<1>6. QED
  BY <1>4, <1>5

\* A chunk is taken from a page that stays where it is.
LEMMA TakePages ==
  ASSUME NEW m \in MemType, NEW l \in List
  PROVE  LET m1   == WithRoom(m, l)
             new  == fmtlist_alloc(m, l)
         IN  /\ new \in MemType /\ new.halt = m1.halt /\ new.virmm = m1.virmm
             /\ \A other \in List : other # l => new.lists[other] = m1.lists[other]
             /\ Len(new.lists[l]) = Len(m1.lists[l]) /\ PagesOf(new, l) = PagesOf(m1, l)
             /\ \A j \in 1..Len(m1.lists[l]) : new.lists[l][j].va = m1.lists[l][j].va
             /\ \E k \in 1..Len(m1.lists[l]) :
                  /\ m1.lists[l][k].free # <<>>
                  /\ new.lists[l][k].free = Tail(m1.lists[l][k].free)
                  /\ NextChunk(m, l) = <<m1.lists[l][k].va, Head(m1.lists[l][k].free)>>
                  /\ \A j \in 1..Len(m1.lists[l]) : j # k => new.lists[l][j] = m1.lists[l][j]
                  /\ k # 1 => m1.lists[l][1].free = <<>>
<1> DEFINE m1   == WithRoom(m, l)
           k    == Min(Open(m1, l))
           page == m1.lists[l][k]
           less == [page EXCEPT !.free = Tail(page.free)]
           new  == fmtlist_alloc(m, l)
<1>1. /\ new \in MemType /\ NextChunk(m, l) = <<page.va, Head(page.free)>>
      /\ new.lists = [m1.lists EXCEPT ![l] = [m1.lists[l] EXCEPT ![k] = less]]
      /\ new.halt = m1.halt /\ new.virmm = m1.virmm
  BY AllocChunkIs
<1>2. m1 \in MemType /\ k \in 1..Len(m1.lists[l]) /\ page.free # <<>>
  BY RoomIs
<1> HIDE DEF new, m1
<1>3. /\ m1.lists \in [List -> Seq(PageType)] /\ m1.lists[l] \in Seq(PageType)
      /\ Len(m1.lists[l]) \in Nat /\ DOMAIN m1.lists[l] = 1..Len(m1.lists[l])
      /\ \A j \in 1..Len(m1.lists[l]) : m1.lists[l][j] \in PageType
  BY <1>2, ListType
<1>4. k # 1 => m1.lists[l][1].free = <<>>
  <2> DEFINE open == Open(m1, l)
  <2>1. open \in SUBSET Nat /\ k \in Nat /\ 1 \in 1..Len(m1.lists[l])
    BY <1>2, <1>3 DEF Open
  <2>2. SUFFICES ASSUME 1 \in open PROVE k = 1
    BY <1>3, <2>1 DEF Open
  <2>3. k \in open /\ \A j \in open : k <= j
    <3> HIDE DEF k, open
    <3>1. open # {}
      BY <2>2
    <3>2. \E n \in open : \A j \in open : n <= j
      BY <2>1, <3>1, Least, Zenon
    <3>3. k = Min(open)
      BY Zenon DEF k, open
    <3>4. QED
      BY <3>2, <3>3, Zenon DEF Min
  <2> HIDE DEF k
  <2>4. k >= 1 /\ k <= 1
    BY <1>2, <2>2, <2>3
  <2>5. QED
    BY <2>1, <2>4
<1> HIDE DEF k, page
<1>5. page \in PageType
  BY <1>2, <1>3 DEF page
<1>6. less.va = page.va /\ less.free = Tail(page.free)
  BY <1>5 DEF PageType
<1> HIDE DEF less
<1> DEFINE old  == m1.lists[l]
           list == [old EXCEPT ![k] = less]
<1>7. new.lists[l] = list /\ \A other \in List : other # l => new.lists[other] = m1.lists[other]
  BY <1>1, <1>3
<1>8. /\ list[k] = less /\ Len(list) = Len(old)
      /\ \A j \in 1..Len(old) : j # k => list[j] = old[j]
  <2> HIDE DEF old
  <2>1. old \in Seq(PageType) /\ k \in 1..Len(old)
    BY <1>2, <1>3 DEF old
  <2>2. QED
    BY <2>1
<1> HIDE DEF list
<1>9. \A j \in 1..Len(old) : list[j].va = old[j].va
  BY <1>6, <1>8 DEF page
<1>10. PagesOf(new, l) = PagesOf(m1, l)
  <2>1. /\ Len(new.lists[l]) = Len(m1.lists[l])
        /\ \A j \in 1..Len(m1.lists[l]) : new.lists[l][j].va = m1.lists[l][j].va
    BY <1>7, <1>8, <1>9
  <2> HIDE DEF old
  <2>2. QED
    BY <1>1, <1>2, <2>1, SamePages
<1>11. QED
  BY <1>1, <1>2, <1>4, <1>6, <1>7, <1>8, <1>9, <1>10 DEF new, m1, page
-----------------------------------------------------------------------------
\* What is not about buckets does not depend on frames and page tables.
LEMMA MetaSame ==
  ASSUME NEW m, NEW new, new.lists = m.lists, new.virmm.set = m.virmm.set, NEW inUse, MetaApart(m, inUse)
  PROVE  MetaApart(new, inUse)
<1>1. \A l : PagesOf(new, l) = PagesOf(m, l)
  BY DEF PagesOf
<1>2. \A page : Taken(new, page) <=> Taken(m, page)
  BY DEF Taken
<1>3. QED
  BY <1>1, <1>2 DEF MetaApart

\* A page that is given out was not, and is in no list of the kernel and not
\* in use.
LEMMA TookApart ==
  ASSUME NEW m, NEW new, NEW inUse, MetaApart(m, inUse), NEW page, TookKern(m, new, page)
  PROVE  /\ page \notin inUse /\ Taken(new, page) /\ page >= KERN_METADATA
         /\ \A p : Taken(m, p) => Taken(new, p) /\ p # page
<1>1. page \in KernPage /\ KERN_METADATA \in Nat /\ SIZE_BITMAP_VIRMM \in Nat
  BY Sizes DEF TookKern
<1>2. page >= KERN_METADATA /\ ~Taken(m, page) /\ Taken(new, page)
  BY <1>1 DEF TookKern, Taken, KernPage
<1>3. \A p : Taken(m, p) => Taken(new, p) /\ p # page
  BY <1>2 DEF TookKern, Taken
<1>4. QED
  BY <1>2, <1>3 DEF MetaApart

\* The kernel takes a chunk of metadata.
LEMMA MetaAlloc ==
  ASSUME NEW m \in MemType, NEW l \in Metadata, NEW inUse, MetaApart(m, inUse),
         fmtlist_alloc(m, l).halt = "no"
  PROVE  LET new == fmtlist_alloc(m, l)
         IN  /\ MetaApart(new, inUse) /\ m.halt = "no"
             /\ \A b \in Bucket : new.lists[b] = m.lists[b]
<1> DEFINE m1  == WithRoom(m, l)
           new == fmtlist_alloc(m, l)
<1>1. l \in List /\ \A b \in Bucket : b \in List /\ b # l
  BY ListsAre
<1>2. /\ new.halt = m1.halt /\ new.virmm = m1.virmm
      /\ \A other \in List : other # l => new.lists[other] = m1.lists[other]
      /\ PagesOf(new, l) = PagesOf(m1, l)
  BY <1>1, TakePages
<1>3. m1.halt = "no"
  BY <1>2
<1>4. /\ m.halt = "no"
      /\ \A other \in List : other # l => m1.lists[other] = m.lists[other]
      /\ \/ m1 = m
         \/ \E page \in KernPage :
              TookKern(m, m1, page) /\ PagesOf(m1, l) = PagesOf(m, l) \cup {page}
  BY <1>1, <1>3, RoomPages
<1> HIDE DEF m1, new
<1>5. MetaApart(m1, inUse)
  <2>1. CASE m1 = m
    BY <2>1
  <2>2. ASSUME NEW page \in KernPage, TookKern(m, m1, page), PagesOf(m1, l) = PagesOf(m, l) \cup {page}
        PROVE  MetaApart(m1, inUse)
    <3>1. /\ page \notin inUse /\ Taken(m1, page)
          /\ \A p : Taken(m, p) => Taken(m1, p) /\ p # page
          /\ \A k \in Metadata : k # l => PagesOf(m1, k) = PagesOf(m, k)
      <4>1. \A k \in Metadata : k # l => PagesOf(m1, k) = PagesOf(m, k)
        BY <1>4, ListsAre DEF PagesOf
      <4>2. /\ page \notin inUse /\ Taken(m1, page)
            /\ \A p : Taken(m, p) => Taken(m1, p) /\ p # page
        BY <2>2, TookApart
      <4>3. QED
        BY <4>1, <4>2
    <3>2. ASSUME NEW k \in Metadata, NEW p \in PagesOf(m1, k) PROVE Taken(m1, p) /\ p \notin inUse
      <4>1. p \in PagesOf(m, k) \/ p = page
        BY <2>2, <3>1
      <4>2. CASE p \in PagesOf(m, k)
        <5>1. Taken(m, p) /\ p \notin inUse
          BY <4>2 DEF MetaApart
        <5>2. QED
          BY <3>1, <5>1
      <4>3. QED
        BY <3>1, <4>1, <4>2
    <3>3. \A k \in Metadata : k # l => page \notin PagesOf(m, k)
      BY <3>1 DEF MetaApart
    <3>4. ASSUME NEW j \in Metadata, NEW k \in Metadata, j # k
          PROVE  PagesOf(m1, j) \cap PagesOf(m1, k) = {}
      <4>1. PagesOf(m, j) \cap PagesOf(m, k) = {}
        BY <3>4 DEF MetaApart
      <4>2. QED
        BY <2>2, <3>1, <3>3, <3>4, <4>1
    <3>5. QED
      BY <3>1, <3>2, <3>4 DEF MetaApart
  <2>3. QED
    BY <1>4, <2>1, <2>2
<1>6. \A k \in Metadata : PagesOf(new, k) = PagesOf(m1, k)
  BY <1>2, ListsAre DEF PagesOf
<1>7. \A p : Taken(new, p) <=> Taken(m1, p)
  BY <1>2 DEF Taken
<1>8. MetaApart(new, inUse)
  BY <1>5, <1>6, <1>7 DEF MetaApart
<1>9. QED
  BY <1>1, <1>2, <1>4, <1>8 DEF new

\* A chunk is not taken after a panic.
LEMMA HaltedBefore ==
  ASSUME NEW m \in MemType, NEW l \in List, fmtlist_alloc(m, l).halt = "no"
  PROVE  m.halt = "no"
<1>1. fmtlist_alloc(m, l).halt = WithRoom(m, l).halt
  BY TakePages
<1>2. QED
  BY <1>1, RoomPages

\* The kernel gives a chunk of metadata back, and perhaps its page.
LEMMA MetaRelease ==
  ASSUME NEW m \in MemType, NEW l \in Metadata, NEW inUse, MetaApart(m, inUse), NEW chunk \in ChunkType
  PROVE  LET new == fmtlist_release(m, l, chunk)
         IN  /\ MetaApart(new, inUse) /\ new.halt = m.halt
             /\ \A b \in Bucket : new.lists[b] = m.lists[b]
<1> DEFINE k    == PlaceOf(m, l, chunk[1])
           page == m.lists[l][k]
           back == [page EXCEPT !.free = <<chunk[2]>> \o page.free]
           old  == m.lists[l]
           list == [old EXCEPT ![k] = back]
           new  == fmtlist_release(m, l, chunk)
<1>1. l \in List /\ \A b \in Bucket : b \in List /\ b # l
  BY ListsAre
<1>2. new.halt = m.halt /\ new \in MemType
  BY <1>1, ReleaseChunkIs, ZenonT(30)
<1>3. CASE chunk[1] \notin PagesOf(m, l)
  <2>1. new = m
    BY <1>1, <1>3, ReleaseChunkIs
  <2> HIDE DEF new
  <2>2. QED
    BY <2>1 DEF new
<1>4. CASE chunk[1] \in PagesOf(m, l)
  <2>a. /\ k \in 1..Len(m.lists[l]) /\ page.va = chunk[1] /\ list \in Seq(PageType)
        /\ back.va = page.va /\ back.free = <<chunk[2]>> \o page.free
        /\ \E rest \in Seq(PageType) :
             /\ new.lists = [m.lists EXCEPT ![l] = rest]
             /\ \/ rest = list /\ new.virmm = m.virmm
                   /\ (Len(back.free) = CAPACITY => chunk[1] < KERN_METADATA /\ ~(k > 1))
                \/ /\ Len(back.free) = CAPACITY /\ chunk[1] >= KERN_METADATA
                   /\ rest = <<>> /\ new.virmm.set = m.virmm.set \ {chunk[1] - KERN_METADATA}
                \/ /\ Len(back.free) = CAPACITY /\ ~(chunk[1] >= KERN_METADATA) /\ k > 1
                   /\ rest = RemoveAt(list, k) /\ new.virmm = m.virmm
    BY <1>1, <1>4, ReleaseChunkIs, ZenonT(30)
  <2>2. Taken(m, chunk[1]) /\ chunk[1] \notin inUse
    BY <1>4 DEF MetaApart
  <2>3. chunk[1] >= KERN_METADATA /\ chunk[1] \in Int /\ KERN_METADATA \in Int
    BY <2>2, TakenIs
  <2> HIDE DEF new, k, page, back, list
  <2>1. /\ k \in 1..Len(old) /\ back.va = old[k].va
        /\ \E rest \in Seq(PageType) :
             /\ new.lists = [m.lists EXCEPT ![l] = rest]
             /\ \/ rest = list /\ new.virmm = m.virmm
                \/ rest = <<>> /\ new.virmm.set = m.virmm.set \ {chunk[1] - KERN_METADATA}
    BY <2>a, <2>3 DEF page
  <2>4. m.lists \in [List -> Seq(PageType)] /\ m.lists[l] \in Seq(PageType)
    BY <1>1, ListType
  <2>5. CASE new.lists = [m.lists EXCEPT ![l] = list] /\ new.virmm = m.virmm
    <3>1. /\ new.lists[l] = list
          /\ \A other \in List : other # l => new.lists[other] = m.lists[other]
      BY <1>1, <2>4, <2>5
    <3>2. Len(list) = Len(old) /\ \A j \in 1..Len(old) : list[j].va = old[j].va
      <4>1. old \in Seq(PageType) /\ k \in 1..Len(old) /\ back.va = old[k].va
        BY <2>1, <2>4
      <4> HIDE DEF old
      <4>2. Len(list) = Len(old) /\ \A j \in 1..Len(old) : list[j] = IF j = k THEN back ELSE old[j]
        BY <4>1 DEF list
      <4>3. QED
        BY <4>1, <4>2
    <3>3. PagesOf(new, l) = PagesOf(m, l)
      BY <1>1, <1>2, <3>1, <3>2, SamePages
    <3>4. ASSUME NEW j \in Metadata PROVE PagesOf(new, j) = PagesOf(m, j)
      <4>1. CASE j = l
        BY <3>3, <4>1
      <4>2. CASE j # l
        <5>1. new.lists[j] = m.lists[j]
          BY <3>1, <4>2, ListsAre
        <5>2. QED
          BY <5>1 DEF PagesOf
      <4>3. QED
        BY <4>1, <4>2
    <3>5. \A p : Taken(new, p) <=> Taken(m, p)
      BY <2>5 DEF Taken
    <3>6. MetaApart(new, inUse)
      BY <3>4, <3>5 DEF MetaApart
    <3>7. QED
      BY <1>1, <1>2, <3>1, <3>6 DEF new
  <2>6. CASE /\ new.lists = [m.lists EXCEPT ![l] = <<>>]
             /\ new.virmm.set = m.virmm.set \ {chunk[1] - KERN_METADATA}
    <3>1. /\ new.lists[l] = <<>>
          /\ \A other \in List : other # l => new.lists[other] = m.lists[other]
      BY <1>1, <2>4, <2>6
    <3>2. PagesOf(new, l) = {}
      BY <3>1 DEF PagesOf
    <3>3. \A j \in Metadata : j # l => PagesOf(new, j) = PagesOf(m, j)
      BY <3>1, ListsAre DEF PagesOf
    <3>4. ASSUME NEW p, Taken(m, p), p # chunk[1] PROVE Taken(new, p)
      <4>1. p \in Int
        BY <3>4, TakenIs
      <4>2. \A a, b \in Int : a # b => a - KERN_METADATA # b - KERN_METADATA
        BY <2>3
      <4>3. p - KERN_METADATA # chunk[1] - KERN_METADATA
        BY <2>3, <3>4, <4>1, <4>2, Zenon
      <4>4. QED
        BY <2>6, <3>4, <4>3 DEF Taken
    <3>5. ASSUME NEW j \in Metadata, NEW p \in PagesOf(new, j) PROVE Taken(new, p) /\ p \notin inUse
      <4>1. j # l /\ p \in PagesOf(m, j)
        BY <3>2, <3>3, <3>5
      <4>2. p # chunk[1] /\ Taken(m, p) /\ p \notin inUse
        BY <1>4, <4>1 DEF MetaApart
      <4>3. QED
        BY <3>4, <4>2
    <3>6. \A p \in inUse : p >= KERN_METADATA => Taken(new, p)
      BY <2>2, <3>4 DEF MetaApart
    <3>7. ASSUME NEW i \in Metadata, NEW j \in Metadata, i # j
          PROVE  PagesOf(new, i) \cap PagesOf(new, j) = {}
      BY <3>2, <3>3, <3>7 DEF MetaApart
    <3>8. MetaApart(new, inUse)
      BY <3>5, <3>6, <3>7 DEF MetaApart
    <3>9. QED
      BY <1>1, <1>2, <3>1, <3>8 DEF new
  <2>7. QED
    BY <2>1, <2>5, <2>6
<1>5. QED
  BY <1>3, <1>4
-----------------------------------------------------------------------------
\* Two nodes of areas in order are the same or do not overlap.
LEMMA SpotsIs ==
  ASSUME NEW areas \in Seq(AreaType), InOrder(areas), NEW x \in Spots(areas), NEW y \in Spots(areas)
  PROVE  /\ x = <<x[1], x[2]>> /\ x[1] \in Nat /\ x[2] \in Nat \ {0} /\ x[1] + x[2] <= MAX_END
         /\ x = y \/ x[1] + x[2] <= y[1] \/ y[1] + y[2] <= x[1]
<1>1. PICK n \in NodesOf(areas) : x = <<n.va, n.len>>
  BY DEF Spots
<1>2. PICK p \in NodesOf(areas) : y = <<p.va, p.len>>
  BY DEF Spots
<1>3. /\ n.va \in Nat /\ n.len \in Nat \ {0}
      /\ \E k \in 1..Len(areas) : \E i \in 1..Len(areas[k].list) :
           n = areas[k].list[i] /\ InArea(areas[k], n)
  BY NodeIn
<1>4. /\ p.va \in Nat /\ p.len \in Nat \ {0}
      /\ \E k \in 1..Len(areas) : \E i \in 1..Len(areas[k].list) :
           p = areas[k].list[i] /\ InArea(areas[k], p)
  BY NodeIn
<1>5. PICK k \in 1..Len(areas) : \E i \in 1..Len(areas[k].list) :
                                   n = areas[k].list[i] /\ InArea(areas[k], n)
  BY <1>3
<1>6. PICK i \in 1..Len(areas[k].list) : n = areas[k].list[i] /\ InArea(areas[k], n)
  BY <1>5
<1>7. PICK h \in 1..Len(areas) : \E j \in 1..Len(areas[h].list) :
                                   p = areas[h].list[j] /\ InArea(areas[h], p)
  BY <1>4
<1>8. PICK j \in 1..Len(areas[h].list) : p = areas[h].list[j] /\ InArea(areas[h], p)
  BY <1>7
<1>9. areas[k] \in AreaType /\ areas[h] \in AreaType /\ AreaOk(areas[k]) /\ AreaOk(areas[h])
  BY DEF InOrder
<1>10. /\ areas[k].begin \in Nat /\ areas[k].end \in Nat /\ areas[k].end < MAX_END /\ MAX_END \in Nat
       /\ areas[h].begin \in Nat /\ areas[h].end \in Nat /\ Len(areas[k].list) \in Nat
       /\ \A f, g \in 1..Len(areas[k].list) : f < g =>
            areas[k].list[g].va + areas[k].list[g].len <= areas[k].list[f].va
  BY <1>9, ListIs
<1>11. /\ areas[k].begin <= n.va /\ n.va + n.len <= areas[k].end
       /\ areas[h].begin <= p.va /\ p.va + p.len <= areas[h].end
  BY <1>6, <1>8 DEF InArea
<1>12. (k < h => areas[k].end <= areas[h].begin) /\ (h < k => areas[h].end <= areas[k].begin)
  BY AreasApart
<1> DEFINE kb == areas[k].begin
           ke == areas[k].end
           hb == areas[h].begin
           he == areas[h].end
           nv == n.va
           nl == n.len
           pv == p.va
           pl == p.len
<1>13. /\ kb \in Nat /\ ke \in Nat /\ hb \in Nat /\ he \in Nat /\ nv \in Nat /\ nl \in Nat \ {0}
       /\ pv \in Nat /\ pl \in Nat \ {0} /\ ke < MAX_END /\ MAX_END \in Nat
       /\ kb <= nv /\ nv + nl <= ke /\ hb <= pv /\ pv + pl <= he
       /\ (k < h => ke <= hb) /\ (h < k => he <= kb)
  BY <1>3, <1>4, <1>10, <1>11, <1>12
<1> HIDE DEF kb, ke, hb, he
<1>14. n = p \/ nv + nl <= pv \/ pv + pl <= nv
  <2>1. CASE k = h
    <3>1. i = j \/ i < j \/ j < i
      BY <1>10, <2>1
    <3>2. QED
      BY <1>6, <1>8, <1>10, <2>1, <3>1
  <2>2. CASE k # h
    <3> HIDE DEF nv, nl, pv, pl
    <3>1. k < h \/ h < k
      BY <2>2
    <3>2. QED
      BY <1>13, <3>1
  <2>3. QED
    BY <2>1, <2>2
<1>15. nv + nl <= MAX_END
  <2> HIDE DEF nv, nl, pv, pl
  <2>1. QED
    BY <1>13
<1>16. x[1] = nv /\ x[2] = nl /\ y[1] = pv /\ y[2] = pl /\ x = <<nv, nl>> /\ y = <<pv, pl>>
  BY <1>1, <1>2
<1>17. n = p => x = y
  BY <1>1, <1>2
<1> HIDE DEF nv, nl, pv, pl
<1>18. QED
  BY <1>13, <1>14, <1>15, <1>16, <1>17

\* VirAlloc adds one node, and keeps to its own metadata.
LEMMA VirAllocOwns ==
  ASSUME NEW s, Sound(s), NEW amount \in Amount, NEW inUse, MetaApart(s.mem, inUse),
         VirAlloc(s, amount).mem.halt = "no", Whole(VirAlloc(s, amount))
  PROVE  LET new == VirAlloc(s, amount)
             va  == AllocVa(s.chain, break_, amount)
         IN  /\ MetaApart(new.mem, inUse) /\ \A b \in Bucket : new.mem.lists[b] = s.mem.lists[b]
             /\ s.mem.halt = "no" /\ Whole(s) /\ s.harm \subseteq new.harm
             /\ Spots(new.chain) = Spots(s.chain) \cup {<<va, amount>>}
             /\ va \in Nat /\ va < KERN_METADATA
             /\ \A len : <<va, len>> \notin Spots(s.chain)
<1> DEFINE new  == VirAlloc(s, amount)
           va   == AllocVa(s.chain, break_, amount)
           meta == NodeMeta(s, amount)
           area == NextChunk(s.mem, "vspace")
           node == Node(va, amount, meta)
<1>1. s \in StateType /\ s.mem \in MemType /\ s.chain \in Seq(AreaType) /\ (Whole(s) => InOrder(s.chain))
  BY StateIs DEF Sound
<1>2. ~NoSpace(s.chain, break_, amount, MAX_END)
  BY <1>1, VirAllocIs, StateIs
<1>3. /\ new.mem = VirAllocMem(s, amount) /\ meta \in MetaType /\ area \in ChunkType
      /\ new.chain = vir_alloc_pages(s.chain, break_, amount, meta, area)
      /\ new.harm = s.harm \cup (IF DropsRest(s.chain, break_, amount) THEN {"dropped"} ELSE {})
  BY <1>1, <1>2, VirAllocIs
<1>4. new.mem.halt = "no" /\ Whole(new)
  OBVIOUS
<1> HIDE DEF new, meta, area
<1>5. Whole(s) /\ ~DropsRest(s.chain, break_, amount) /\ s.harm \subseteq new.harm
  BY <1>3, <1>4 DEF Whole
<1>6. /\ NodesOf(new.chain) = NodesOf(s.chain) \cup {node}
      /\ \A n \in NodesOf(s.chain) : n.va + n.len <= va \/ va + amount <= n.va
      /\ va + amount < MAX_END
  BY <1>1, <1>2, <1>3, <1>5, AllocKeeps
<1>7. va \in Nat /\ amount \in Nat \ {0}
  BY <1>1, VaIs, AddrIs, AmountIs
<1>8. node.va = va /\ node.len = amount
  BY DEF Node
<1> HIDE DEF va, node
<1>9. va < KERN_METADATA
  BY <1>6, <1>7, Sizes, AddrIs
<1>10. Spots(new.chain) = Spots(s.chain) \cup {<<va, amount>>}
  BY <1>6, <1>8 DEF Spots
<1>11. ASSUME NEW len, <<va, len>> \in Spots(s.chain) PROVE FALSE
  <2>1. PICK n \in NodesOf(s.chain) : n.va = va
    BY <1>11 DEF Spots
  <2>2. n.len \in Nat \ {0}
    BY <1>1, <1>5, NodeIn
  <2>3. n.va + n.len <= va \/ va + amount <= n.va
    BY <1>6
  <2>4. QED
    BY <1>7, <2>1, <2>2, <2>3
<1>12. /\ MetaApart(new.mem, inUse) /\ s.mem.halt = "no"
       /\ \A b \in Bucket : new.mem.lists[b] = s.mem.lists[b]
  <2> DEFINE m1 == IF GapFor(s.chain, break_, amount) = 0 THEN vspace_alloc(s.mem) ELSE s.mem
             m2 == node_alloc(m1)
             m3 == vaddr_alloc(m2)
  <2>1. new.mem = m3 /\ m3.halt = "no"
    BY <1>3, <1>4, Zenon DEF VirAllocMem
  <2>2. m1 \in MemType
    BY <1>1, ListsAre, AllocChunkIs DEF vspace_alloc
  <2>3. (m1.halt = "no" => s.mem.halt = "no") /\ (m1.halt = "no" => MetaApart(m1, inUse))
        /\ (m1.halt = "no" => \A b \in Bucket : m1.lists[b] = s.mem.lists[b])
    BY <1>1, ListsAre, MetaAlloc DEF vspace_alloc
  <2> HIDE DEF m1
  <2>4. m2 \in MemType
    BY <2>2, ListsAre, AllocChunkIs DEF node_alloc
  <2>5. ASSUME m1.halt = "no", m2.halt = "no"
        PROVE  MetaApart(m2, inUse) /\ \A b \in Bucket : m2.lists[b] = m1.lists[b]
    BY <2>2, <2>3, <2>5, ListsAre, MetaAlloc DEF node_alloc
  <2>6. m2.halt = "no" => m1.halt = "no"
    BY <2>2, ListsAre, HaltedBefore DEF node_alloc
  <2> HIDE DEF m2
  <2>7. m3.halt = "no" => m2.halt = "no"
    BY <2>4, ListsAre, HaltedBefore DEF vaddr_alloc
  <2>8. MetaApart(m3, inUse) /\ \A b \in Bucket : m3.lists[b] = m2.lists[b]
    BY <2>1, <2>4, <2>5, <2>6, <2>7, ListsAre, MetaAlloc DEF vaddr_alloc
  <2>9. QED
    BY <2>1, <2>3, <2>5, <2>6, <2>7, <2>8
<1>13. QED
  BY <1>5, <1>7, <1>9, <1>10, <1>11, <1>12 DEF new, va

\* VirRelease takes one node away, and keeps to its own metadata.
LEMMA VirReleaseOwns ==
  ASSUME NEW s, Sound(s), NEW va, NEW junk \in Addr, NEW inUse, MetaApart(s.mem, inUse),
         VirRelease(s, va, junk).mem.halt = "no", Whole(VirRelease(s, va, junk))
  PROVE  LET new == VirRelease(s, va, junk)
         IN  /\ MetaApart(new.mem, inUse) /\ \A b \in Bucket : new.mem.lists[b] = s.mem.lists[b]
             /\ s.mem.halt = "no" /\ Whole(s) /\ s.harm \subseteq new.harm
             /\ \A at, len : <<at, len>> \in Spots(s.chain) /\ at # va => <<at, len>> \in Spots(new.chain)
<1> DEFINE new  == VirRelease(s, va, junk)
           node == NodeOf(s.chain, va)
           area == NextChunk(s.mem, "vspace")
           gone == s.chain[AreaOf(s.chain, va)].meta
<1>1. s \in StateType /\ s.mem \in MemType /\ s.chain \in Seq(AreaType) /\ (Whole(s) => InOrder(s.chain))
  BY StateIs DEF Sound
<1>2. CanRelease(s.chain, va)
  BY <1>1, VirReleaseIs, StateIs
<1>3. /\ new.mem = VirReleaseMem(s, va) /\ area \in ChunkType /\ node \in NodeType /\ gone \in ChunkType
      /\ new.chain = vir_release_pages(s.chain, va, junk, area)
      /\ new.harm = s.harm \cup (IF ReadsNull(s.chain, va) THEN {"junk"} ELSE {})
  BY <1>1, <1>2, VirReleaseIs
<1>4. new.mem.halt = "no" /\ Whole(new)
  OBVIOUS
<1>5. node.va = va
  BY <1>1, <1>2, FoundIs
<1> HIDE DEF new, node, area, gone
<1>6. Whole(s) /\ ~ReadsNull(s.chain, va) /\ s.harm \subseteq new.harm
  BY <1>3, <1>4 DEF Whole
<1>7. NodesOf(new.chain) = NodesOf(s.chain) \ {node}
  BY <1>1, <1>2, <1>3, <1>6, ReleaseKeeps DEF node
<1>8. ASSUME NEW at, NEW len, <<at, len>> \in Spots(s.chain), at # va
      PROVE  <<at, len>> \in Spots(new.chain)
  <2>1. PICK n \in NodesOf(s.chain) : n.va = at /\ n.len = len
    BY <1>8 DEF Spots
  <2>2. n \in NodesOf(new.chain)
    BY <1>5, <1>7, <1>8, <2>1
  <2>3. QED
    BY <2>1, <2>2 DEF Spots
<1>9. /\ MetaApart(new.mem, inUse) /\ s.mem.halt = "no"
      /\ \A b \in Bucket : new.mem.lists[b] = s.mem.lists[b]
  <2> DEFINE m1 == IF Splits(s.chain, va) THEN vspace_alloc(s.mem) ELSE s.mem
             m2 == phy_release_vpages(m1, PagesAt(node.va, node.len))
             m3 == IF Empties(s.chain, va) THEN vspace_release(m2, gone) ELSE m2
             m4 == ReleaseMeta(m3, node)
  <2>1. new.mem = m4 /\ m4.halt = "no"
    BY <1>3, <1>4, Zenon DEF VirReleaseMem, VirReleaseRest, node, gone
  <2>3. m1 \in MemType
    BY <1>1, ListsAre, AllocChunkIs DEF vspace_alloc
  <2>4. (m1.halt = "no" => s.mem.halt = "no") /\ (m1.halt = "no" => MetaApart(m1, inUse))
        /\ (m1.halt = "no" => \A b \in Bucket : m1.lists[b] = s.mem.lists[b])
    BY <1>1, ListsAre, MetaAlloc DEF vspace_alloc
  <2> HIDE DEF m1
  <2>5. /\ m2 \in MemType /\ m2.halt = m1.halt /\ m2.lists = m1.lists /\ m2.virmm = m1.virmm
    BY <2>3, FreeFramesIs
  <2> HIDE DEF m2
  <2>6. ASSUME m1.halt = "no" PROVE MetaApart(m2, inUse)
    <3>1. MetaApart(m1, inUse) /\ m2.lists = m1.lists /\ m2.virmm.set = m1.virmm.set
      BY <2>4, <2>5, <2>6
    <3>2. \A l : PagesOf(m2, l) = PagesOf(m1, l)
      BY <3>1 DEF PagesOf
    <3>3. \A page : Taken(m2, page) <=> Taken(m1, page)
      BY <3>1 DEF Taken
    <3>4. QED
      BY <3>1, <3>2, <3>3 DEF MetaApart
  <2>7. m3 \in MemType /\ m3.halt = m2.halt
    BY <1>3, <2>5, ListsAre, ReleaseHalt DEF vspace_release
  <2>8. m1.halt = "no" => MetaApart(m3, inUse) /\ \A b \in Bucket : m3.lists[b] = m2.lists[b]
    BY <1>3, <2>5, <2>6, ListsAre, MetaRelease DEF vspace_release
  <2> HIDE DEF m3
  <2>9. /\ m4.halt = m3.halt
        /\ node.meta.node \in ChunkType /\ node.meta.vaddr \in ChunkType
        /\ \/ m4 = fmtlist_release(m3, "node", node.meta.node)
           \/ m4 = fmtlist_release(m3, "vaddr", node.meta.vaddr)
    BY <1>3, <2>7, ReleaseMetaIs
  <2>10. MetaApart(m4, inUse) /\ \A b \in Bucket : m4.lists[b] = m3.lists[b]
    <3>1. MetaApart(m3, inUse) /\ "node" \in Metadata /\ "vaddr" \in Metadata
      BY <2>1, <2>5, <2>7, <2>8, <2>9, ListsAre
    <3> HIDE DEF m4
    <3>2. QED
      BY <2>7, <2>9, <3>1, MetaRelease
  <2> HIDE DEF m4
  <2>11. QED
    BY <2>1, <2>4, <2>5, <2>7, <2>8, <2>9, <2>10
<1>10. QED
  BY <1>6, <1>8, <1>9 DEF new
-----------------------------------------------------------------------------
\* A page of a bucket is in the chunk pages, and so is that of a chunk.
LEMMA InUse ==
  ASSUME NEW m \in MemType, NEW hold
  PROVE  /\ \A b \in Bucket : \A k \in 1..Len(m.lists[b]) :
              m.lists[b][k].va \in BucketPages(m) /\ m.lists[b][k].va \in ChunkPages(m, hold)
         /\ \A b \in Bucket : \A page \in PagesOf(m, b) : page \in BucketPages(m)
         /\ \A h \in Chunks(hold) : h.ptr[1] \in ChunkPages(m, hold)
<1>1. ASSUME NEW b \in Bucket, NEW k \in 1..Len(m.lists[b])
      PROVE  m.lists[b][k].va \in PagesOf(m, b)
  <2>1. b \in List
    BY ListsAre
  <2>2. PagesOf(m, b) = {m.lists[b][i].va : i \in 1..Len(m.lists[b])}
    BY <2>1, PagesAre
  <2>3. QED
    BY <2>2
<1>2. \A b \in Bucket : \A page \in PagesOf(m, b) : page \in BucketPages(m)
  BY DEF BucketPages
<1>3. QED
  BY <1>1, <1>2 DEF ChunkPages

\* What BucketsApart says of one page, in numbers.
LEMMA BucketsAre ==
  ASSUME NEW m \in MemType, BucketsApart(m), NEW b \in Bucket, NEW k \in 1..Len(m.lists[b])
  PROVE  /\ m.lists[b][k] \in PageType /\ m.lists[b][k].va \in Nat
         /\ m.lists[b][k].free \in Seq(1..CAPACITY) /\ IsInjective(m.lists[b][k].free)
         /\ k = 1 <=> m.lists[b][k].va < KERN_METADATA
         /\ \A c \in Bucket : \A j \in 1..Len(m.lists[c]) :
              m.lists[c][j].va = m.lists[b][k].va => c = b /\ j = k
<1>1. \A c \in Bucket : c \in List
  BY ListsAre
<1>2. \A c \in Bucket : DOMAIN m.lists[c] = 1..Len(m.lists[c])
  BY <1>1, ListType
<1>3. /\ m.lists[b][k] \in PageType /\ m.lists[b][k].va \in Addr
      /\ m.lists[b][k].free \in Seq(1..CAPACITY)
  BY <1>1, ListType
<1>4. m.lists[b][k].va \in Nat
  BY <1>3, AddrIs
<1>5. QED
  BY <1>2, <1>3, <1>4 DEF BucketsApart

\* And of what it takes to say so.
LEMMA BucketsAgain ==
  ASSUME NEW m \in MemType,
         \A b \in Bucket : \A k \in 1..Len(m.lists[b]) :
           /\ IsInjective(m.lists[b][k].free)
           /\ k = 1 <=> m.lists[b][k].va < KERN_METADATA
           /\ \A c \in Bucket : \A j \in 1..Len(m.lists[c]) :
                m.lists[c][j].va = m.lists[b][k].va => c = b /\ j = k
  PROVE  BucketsApart(m)
<1>1. \A c \in Bucket : c \in List
  BY ListsAre
<1>2. \A c \in Bucket : DOMAIN m.lists[c] = 1..Len(m.lists[c])
  BY <1>1, ListType
<1>3. QED
  BY <1>2, SMTT(30) DEF BucketsApart

\* A page of metadata that is all free is.
LEMMA InitFree ==
  ASSUME NEW page
  PROVE  /\ fmtlist_init(page).va = page
         /\ IsInjective(fmtlist_init(page).free)
BY DEF fmtlist_init, IsInjective

\* A bucket that has pages is given room, if need be by one more of the kernel's.
GivenRoom(s, t, b) ==
  /\ s.mem \in MemType /\ s.chain \in Seq(AreaType) /\ InOrder(s.chain) /\ s.mem.lists[b] # <<>>
  /\ t.mem = WithRoom(s.mem, b) /\ t.chain = s.chain /\ t.harm = s.harm

\* The page is nobody else's.
LEMMA RoomOwned ==
  ASSUME NEW s, NEW t, NEW hold, NEW b \in Bucket, GivenRoom(s, t, b), Owned(s, hold),
         t.mem.halt = "no"
  PROVE  /\ Owned(t, hold) /\ s.mem.halt = "no"
         /\ \A c \in Bucket : c # b => t.mem.lists[c] = s.mem.lists[c]
<1> DEFINE m  == s.mem
           m1 == t.mem
           n  == Len(m.lists[b])
           inUse == ChunkPages(m, hold)
<1>0. /\ m \in MemType /\ s.chain \in Seq(AreaType) /\ InOrder(s.chain) /\ m.lists[b] # <<>>
      /\ m1 = WithRoom(m, b) /\ t.chain = s.chain /\ t.harm = s.harm
  BY DEF GivenRoom
<1>1. b \in List /\ \A c \in Bucket : c \in List
  BY ListsAre
<1>2. /\ m.halt = "no" /\ m1 \in MemType
      /\ \A other \in List : other # b => m1.lists[other] = m.lists[other]
      /\ \/ m1 = m
         \/ \E page \in KernPage :
              /\ TookKern(m, m1, page) /\ Len(m1.lists[b]) = n + 1
              /\ \A k \in 1..n : m1.lists[b][k] = m.lists[b][k]
              /\ m1.lists[b][n + 1] = fmtlist_init(page)
              /\ PagesOf(m1, b) = PagesOf(m, b) \cup {page}
  <2>1. m1 = WithRoom(m, b) /\ WithRoom(m, b).halt = "no"
    BY <1>0, Zenon
  <2> DEFINE room == WithRoom(m, b)
  <2>2. /\ m.halt = "no" /\ room \in MemType
        /\ \A other \in List : other # b => room.lists[other] = m.lists[other]
        /\ \/ room = m
           \/ \E page \in KernPage :
                /\ TookKern(m, room, page) /\ Len(room.lists[b]) = n + 1
                /\ \A k \in 1..n : room.lists[b][k] = m.lists[b][k]
                /\ room.lists[b][n + 1] = fmtlist_init(page)
                /\ PagesOf(room, b) = PagesOf(m, b) \cup {page}
    BY <1>0, <1>1, <2>1, RoomPages
  <2>3. room = m1
    BY <1>0, <2>1
  <2> HIDE DEF room, m1
  <2>4. QED
    BY <1>0, <2>2, <2>3
<1>3. CASE m1 = m
  BY <1>0, <1>1, <1>2, <1>3 DEF Owned
<1>4. ASSUME NEW page \in KernPage, TookKern(m, m1, page), Len(m1.lists[b]) = n + 1,
             \A k \in 1..n : m1.lists[b][k] = m.lists[b][k],
             m1.lists[b][n + 1] = fmtlist_init(page), PagesOf(m1, b) = PagesOf(m, b) \cup {page}
      PROVE  Owned(t, hold)
  <2> DEFINE more == inUse \cup {page}
  <2>1. MetaApart(m, inUse)
    BY <1>0 DEF Owned
  <2>2. /\ page \notin inUse /\ Taken(m1, page) /\ page >= KERN_METADATA
        /\ \A p : Taken(m, p) => Taken(m1, p) /\ p # page
    BY <1>0, <1>4, <2>1, TookApart
  <2>3. \A l \in List : l # b => PagesOf(m1, l) = PagesOf(m, l)
    BY <1>0, <1>2, ZenonT(30) DEF PagesOf
  <2>4. BucketPages(m1) = BucketPages(m) \cup {page}
    BY <1>0, <1>1, <1>4, <2>3 DEF BucketPages
  <2>5. ChunkPages(m1, hold) = more
    BY <1>0, <2>4 DEF ChunkPages
  <2>6. MetaApart(m1, more)
    <3>1. ASSUME NEW l \in Metadata PROVE PagesOf(m1, l) = PagesOf(m, l)
      BY <1>0, <2>3, ListsAre
    <3>2. QED
      BY <1>0, <2>1, <2>2, <3>1 DEF MetaApart
  <2>7. page \in Nat /\ KERN_METADATA \in Nat /\ ~(page < KERN_METADATA)
    BY <1>0, <2>2, TakenIs
  <2>8. \A p \in more : p < KERN_METADATA => <<p, 1>> \in Spots(t.chain)
    BY <1>0, <2>7 DEF Owned
  <2>9. n \in Nat /\ n # 0
    <3>1. m.lists[b] \in Seq(PageType) /\ m.lists[b] # <<>>
      BY <1>0, <1>1, ListType
    <3>2. QED
      BY <1>0, <3>1
  <2>10. BucketsApart(m)
    BY <1>0 DEF Owned
  <2>11. ASSUME NEW c \in Bucket, NEW k \in 1..Len(m1.lists[c])
         PROVE  \/ c = b /\ k = n + 1 /\ m1.lists[c][k] = fmtlist_init(page)
                \/ k \in 1..Len(m.lists[c]) /\ m1.lists[c][k] = m.lists[c][k]
    <3>1. CASE c # b
      BY <1>0, <1>1, <1>2, <3>1
    <3>2. CASE c = b
      <4>1. k \in 1..n \/ k = n + 1
        BY <1>0, <1>4, <2>9, <3>2
      <4>2. QED
        BY <1>0, <1>4, <3>2, <4>1
    <3>3. QED
      BY <1>0, <3>1, <3>2
  <2> HIDE DEF n
  <2>12. ASSUME NEW c \in Bucket, NEW k \in 1..Len(m.lists[c]) PROVE m.lists[c][k].va # page
    BY <1>0, <2>2, InUse
  <2>13. BucketsApart(m1)
    <3>1. ASSUME NEW c \in Bucket, NEW k \in 1..Len(m1.lists[c])
          PROVE  /\ IsInjective(m1.lists[c][k].free)
                 /\ k = 1 <=> m1.lists[c][k].va < KERN_METADATA
      <4>1. CASE c = b /\ k = n + 1 /\ m1.lists[c][k] = fmtlist_init(page)
        BY <1>0, <2>7, <2>9, <4>1, InitFree
      <4>2. CASE k \in 1..Len(m.lists[c]) /\ m1.lists[c][k] = m.lists[c][k]
        BY <1>0, <2>10, <4>2, BucketsAre
      <4>3. QED
        BY <1>0, <2>11, <4>1, <4>2
    <3>2. ASSUME NEW c \in Bucket, NEW k \in 1..Len(m1.lists[c]),
                 NEW d \in Bucket, NEW j \in 1..Len(m1.lists[d]),
                 m1.lists[d][j].va = m1.lists[c][k].va
          PROVE  d = c /\ j = k
      <4>1. CASE c = b /\ k = n + 1 /\ m1.lists[c][k] = fmtlist_init(page)
        <5>1. m1.lists[d][j].va = page
          BY <1>0, <3>2, <4>1, InitFree
        <5>2. ~(j \in 1..Len(m.lists[d]) /\ m1.lists[d][j] = m.lists[d][j])
          BY <1>0, <2>12, <5>1
        <5>3. QED
          BY <1>0, <2>11, <4>1, <5>2
      <4>2. CASE d = b /\ j = n + 1 /\ m1.lists[d][j] = fmtlist_init(page)
        <5>1. m1.lists[c][k].va = page
          BY <1>0, <3>2, <4>2, InitFree
        <5>2. ~(k \in 1..Len(m.lists[c]) /\ m1.lists[c][k] = m.lists[c][k])
          BY <1>0, <2>12, <5>1
        <5>3. QED
          BY <1>0, <2>11, <4>2, <5>2
      <4>3. CASE /\ k \in 1..Len(m.lists[c]) /\ m1.lists[c][k] = m.lists[c][k]
                 /\ j \in 1..Len(m.lists[d]) /\ m1.lists[d][j] = m.lists[d][j]
        <5>1. m.lists[d][j].va = m.lists[c][k].va
          BY <1>0, <3>2, <4>3
        <5>2. \A e \in Bucket : \A i \in 1..Len(m.lists[e]) :
                m.lists[e][i].va = m.lists[c][k].va => e = c /\ i = k
          BY <1>0, <2>10, <4>3, BucketsAre, ZenonT(30)
        <5>3. QED
          BY <1>0, <4>3, <5>1, <5>2
      <4>4. QED
        BY <1>0, <2>11, <4>1, <4>2, <4>3
    <3>3. QED
      BY <1>0, <1>2, <3>1, <3>2, BucketsAgain, SMTT(30)
  <2>14. ASSUME NEW h \in Chunks(hold) PROVE NotFree(m1, h.ptr)
    <3>1. NotFree(m, h.ptr) /\ h.ptr[1] # page
      BY <1>0, <2>2, InUse DEF Owned
    <3>2. \A c \in Bucket : DOMAIN m.lists[c] = 1..Len(m.lists[c]) /\ DOMAIN m1.lists[c] = 1..Len(m1.lists[c])
      BY <1>0, <1>1, <1>2, ListType
    <3>3. ASSUME NEW c \in Bucket, NEW k \in 1..Len(m1.lists[c]), m1.lists[c][k].va = h.ptr[1]
          PROVE  h.ptr[2] \notin Range(m1.lists[c][k].free)
      <4>1. k \in 1..Len(m.lists[c]) /\ m1.lists[c][k] = m.lists[c][k]
        BY <1>0, <2>11, <3>1, <3>3, InitFree
      <4>2. QED
        BY <1>0, <3>1, <3>2, <3>3, <4>1 DEF NotFree
    <3>4. QED
      BY <1>0, <3>2, <3>3 DEF NotFree
  <2>15. ASSUME NEW h \in Ranges(hold)
         PROVE  <<h.va, h.len>> \in Spots(t.chain) /\ h.va \notin more
    <3>1. <<h.va, h.len>> \in Spots(s.chain) /\ h.va \notin inUse
      BY <1>0 DEF Owned
    <3> DEFINE x == <<h.va, h.len>>
    <3>2. x[1] \in Nat /\ x[2] \in Nat \ {0} /\ x[1] + x[2] <= MAX_END
      BY <1>0, <3>1, SpotsIs
    <3>3. h.va \in Nat /\ h.len \in Nat \ {0} /\ h.va + h.len <= MAX_END
      BY <1>0, <3>2
    <3>4. MAX_END \in Nat /\ MAX_END <= KERN_METADATA
      BY Sizes, AddrIs
    <3>5. h.va # page
      BY <1>0, <2>2, <2>7, <3>3, <3>4
    <3>6. QED
      BY <1>0, <3>1, <3>5
  <2>16. (\A h \in hold : ~h.twin)
         /\ (t.harm = {} => \A h \in Chunks(hold) : h.ptr[1] \in BucketPages(m1))
    BY <1>0, <2>4 DEF Owned
  <2>17. QED
    BY <1>0, <2>5, <2>6, <2>8, <2>13, <2>14, <2>15, <2>16 DEF Owned
<1>5. QED
  BY <1>0, <1>1, <1>2, <1>3, <1>4
-----------------------------------------------------------------------------
\* The first free chunk of page k of a bucket is taken.
TookChunk(m, new, b, k, ptr) ==
  /\ k \in 1..Len(m.lists[b]) /\ m.lists[b][k].free # <<>>
  /\ new.virmm = m.virmm
  /\ \A other \in List : other # b => new.lists[other] = m.lists[other]
  /\ Len(new.lists[b]) = Len(m.lists[b])
  /\ \A j \in 1..Len(m.lists[b]) :
       /\ new.lists[b][j].va = m.lists[b][j].va
       /\ new.lists[b][j].free = IF j = k THEN Tail(m.lists[b][j].free) ELSE m.lists[b][j].free
  /\ ptr = <<m.lists[b][k].va, Head(m.lists[b][k].free)>>
  /\ k # 1 => m.lists[b][1].free = <<>>

\* The first of a list that is injective is not in the rest.
LEMMA TailIs ==
  ASSUME NEW S, NEW q \in Seq(S), q # <<>>, IsInjective(q)
  PROVE  /\ Tail(q) \in Seq(S) /\ IsInjective(Tail(q)) /\ Len(Tail(q)) = Len(q) - 1
         /\ Head(q) \notin Range(Tail(q)) /\ Head(q) \in Range(q)
         /\ Range(Tail(q)) \subseteq Range(q)
<1>1. /\ Tail(q) \in Seq(S) /\ Len(q) \in Nat \ {0} /\ Len(Tail(q)) = Len(q) - 1
      /\ \A i \in 1..(Len(q) - 1) : Tail(q)[i] = q[i + 1]
      /\ Head(q) = q[1] /\ DOMAIN q = 1..Len(q) /\ DOMAIN Tail(q) = 1..(Len(q) - 1)
  OBVIOUS
<1>2. \A i \in 1..(Len(q) - 1) : i + 1 \in 1..Len(q) /\ i + 1 # 1 /\ i \in Nat
  BY <1>1
<1>3. IsInjective(Tail(q))
  <2>1. ASSUME NEW i \in 1..(Len(q) - 1), NEW j \in 1..(Len(q) - 1), Tail(q)[i] = Tail(q)[j]
        PROVE  i = j
    <3>1. q[i + 1] = q[j + 1]
      BY <1>1, <2>1
    <3>2. i + 1 = j + 1
      BY <1>1, <1>2, <3>1 DEF IsInjective
    <3>3. QED
      BY <1>2, <3>2
  <2>2. QED
    BY <1>1, <2>1 DEF IsInjective
<1>4. Head(q) \notin Range(Tail(q))
  <2>1. ASSUME NEW i \in 1..(Len(q) - 1), Tail(q)[i] = q[1] PROVE FALSE
    <3>1. q[i + 1] = q[1]
      BY <1>1, <2>1
    <3>2. 1 \in 1..Len(q)
      BY <1>1
    <3>3. QED
      BY <1>1, <1>2, <3>1, <3>2 DEF IsInjective
  <2>2. QED
    BY <1>1, <2>1 DEF Range
<1>5. Head(q) \in Range(q)
  <2>1. 1 \in 1..Len(q)
    BY <1>1
  <2>2. QED
    BY <1>1, <2>1 DEF Range
<1>6. Range(Tail(q)) \subseteq Range(q)
  BY <1>1, <1>2 DEF Range
<1>7. QED
  BY <1>1, <1>3, <1>4, <1>5, <1>6

\* A chunk is taken, and the program holds it.
LEMMA TakeOwned ==
  ASSUME NEW s, NEW t, NEW hold, NEW b \in Bucket, NEW k, NEW ptr \in ChunkType, NEW h,
         s.mem \in MemType, t.mem \in MemType, t.chain = s.chain, t.harm = s.harm,
         Owned(s, hold), TookChunk(s.mem, t.mem, b, k, ptr),
         h = [ptr |-> ptr, twin |-> [ptr |-> ptr, twin |-> FALSE] \in hold]
  PROVE  Owned(t, hold \cup {h}) /\ HeadUsed(t.mem, b)
<1> DEFINE m    == s.mem
           new  == t.mem
           inUse == ChunkPages(m, hold)
           all  == hold \cup {h}
           free == m.lists[b][k].free
<1>1. b \in List /\ \A c \in Bucket : c \in List
  BY ListsAre
<1>2. /\ k \in 1..Len(m.lists[b]) /\ free # <<>> /\ new.virmm = m.virmm
      /\ \A other \in List : other # b => new.lists[other] = m.lists[other]
      /\ Len(new.lists[b]) = Len(m.lists[b])
      /\ \A j \in 1..Len(m.lists[b]) :
           /\ new.lists[b][j].va = m.lists[b][j].va
           /\ new.lists[b][j].free = IF j = k THEN Tail(m.lists[b][j].free) ELSE m.lists[b][j].free
      /\ ptr = <<m.lists[b][k].va, Head(free)>>
      /\ k # 1 => m.lists[b][1].free = <<>>
  BY DEF TookChunk
<1>3. BucketsApart(m)
  BY DEF Owned
<1>4. free \in Seq(1..CAPACITY) /\ IsInjective(free)
  BY <1>2, <1>3, BucketsAre
<1>5. /\ Tail(free) \in Seq(1..CAPACITY) /\ IsInjective(Tail(free)) /\ Len(Tail(free)) = Len(free) - 1
      /\ Head(free) \notin Range(Tail(free)) /\ Head(free) \in Range(free)
      /\ Range(Tail(free)) \subseteq Range(free)
  BY <1>2, <1>4, TailIs
<1>6. h.ptr = ptr /\ "ptr" \in DOMAIN h /\ "va" \notin DOMAIN h
      /\ h.twin = ([ptr |-> ptr, twin |-> FALSE] \in hold)
  OBVIOUS
<1>7. Chunks(all) = Chunks(hold) \cup {h} /\ Ranges(all) = Ranges(hold)
  BY <1>6 DEF Chunks, Ranges
<1>8. ptr[1] = m.lists[b][k].va /\ ptr[2] = Head(free) /\ ptr[1] \in BucketPages(m)
      /\ ptr[1] \in inUse
  BY <1>2, InUse
<1>9. \A l \in List : PagesOf(new, l) = PagesOf(m, l)
  <2>1. PagesOf(new, b) = PagesOf(m, b)
    BY <1>1, <1>2, SamePages
  <2>2. \A l \in List : l # b => PagesOf(new, l) = PagesOf(m, l)
    <3>1. \A l \in List : l # b => new.lists[l] = m.lists[l]
      BY <1>2
    <3>2. QED
      BY <3>1, ZenonT(30) DEF PagesOf
  <2>3. QED
    BY <2>1, <2>2
<1>10. BucketPages(new) = BucketPages(m)
  BY <1>1, <1>9 DEF BucketPages
<1>11. ChunkPages(new, all) = inUse
  BY <1>6, <1>7, <1>8, <1>10, ZenonT(30) DEF ChunkPages
<1>12. MetaApart(new, inUse)
  <2>1. MetaApart(m, inUse)
    BY DEF Owned
  <2>2. \A l \in Metadata : PagesOf(new, l) = PagesOf(m, l)
    BY <1>9, ListsAre
  <2>3. \A p : Taken(new, p) <=> Taken(m, p)
    BY <1>2 DEF Taken
  <2>4. QED
    BY <2>1, <2>2, <2>3 DEF MetaApart
<1>13. ASSUME NEW c \in Bucket, NEW j \in 1..Len(new.lists[c])
       PROVE  /\ j \in 1..Len(m.lists[c]) /\ new.lists[c][j].va = m.lists[c][j].va
              /\ \/ new.lists[c][j].free = m.lists[c][j].free
                 \/ c = b /\ j = k /\ new.lists[c][j].free = Tail(free)
  BY <1>1, <1>2
<1> HIDE DEF free
<1>14. BucketsApart(new)
  <2>1. ASSUME NEW c \in Bucket, NEW j \in 1..Len(new.lists[c])
        PROVE  /\ IsInjective(new.lists[c][j].free)
               /\ j = 1 <=> new.lists[c][j].va < KERN_METADATA
    <3>1. j \in 1..Len(m.lists[c]) /\ new.lists[c][j].va = m.lists[c][j].va
      BY <1>13
    <3>2. IsInjective(m.lists[c][j].free) /\ (j = 1 <=> m.lists[c][j].va < KERN_METADATA)
      BY <1>3, <3>1, BucketsAre
    <3>3. QED
      BY <1>5, <1>13, <3>1, <3>2
  <2>2. ASSUME NEW c \in Bucket, NEW j \in 1..Len(new.lists[c]),
               NEW d \in Bucket, NEW i \in 1..Len(new.lists[d]),
               new.lists[d][i].va = new.lists[c][j].va
        PROVE  d = c /\ i = j
    <3>1. /\ j \in 1..Len(m.lists[c]) /\ i \in 1..Len(m.lists[d])
          /\ m.lists[d][i].va = m.lists[c][j].va
      BY <1>13, <2>2
    <3>2. \A e \in Bucket : \A l \in 1..Len(m.lists[e]) :
            m.lists[e][l].va = m.lists[c][j].va => e = c /\ l = j
      BY <1>3, <3>1, BucketsAre
    <3>3. QED
      BY <3>1, <3>2
  <2>3. QED
    BY <2>1, <2>2, BucketsAgain
<1>15. \A c \in Bucket : DOMAIN m.lists[c] = 1..Len(m.lists[c]) /\ DOMAIN new.lists[c] = 1..Len(new.lists[c])
  BY <1>1, ListType
<1>16. ASSUME NEW g \in Chunks(all) PROVE NotFree(new, g.ptr)
  <2>1. ASSUME NEW c \in Bucket, NEW j \in 1..Len(new.lists[c]), new.lists[c][j].va = g.ptr[1]
        PROVE  g.ptr[2] \notin Range(new.lists[c][j].free)
    <3>1. j \in 1..Len(m.lists[c]) /\ m.lists[c][j].va = g.ptr[1]
      BY <1>13, <2>1
    <3>2. CASE g \in Chunks(hold)
      <4>1. g.ptr[2] \notin Range(m.lists[c][j].free)
        BY <1>15, <3>1, <3>2 DEF Owned, NotFree
      <4>2. Range(new.lists[c][j].free) \subseteq Range(m.lists[c][j].free)
        BY <1>5, <1>13 DEF free
      <4>3. QED
        BY <4>1, <4>2
    <3>3. CASE g = h
      <4>1. m.lists[c][j].va = m.lists[b][k].va
        BY <1>6, <1>8, <3>1, <3>3
      <4>2. c = b /\ j = k
        BY <1>2, <1>3, <3>1, <4>1, BucketsAre
      <4>3. new.lists[c][j].free = Tail(free)
        BY <1>2, <4>2 DEF free
      <4>4. QED
        BY <1>5, <1>6, <1>8, <3>3, <4>3
    <3>4. QED
      BY <1>7, <3>2, <3>3
  <2>2. QED
    BY <1>15, <2>1 DEF NotFree
<1>17. ASSUME NEW g \in all PROVE ~g.twin
  <2>1. CASE g \in hold
    BY <2>1 DEF Owned
  <2>2. CASE g = h
    <3> DEFINE first == [ptr |-> ptr, twin |-> FALSE]
    <3>1. SUFFICES ASSUME first \in hold PROVE FALSE
      BY <1>6, <2>2
    <3>2. first.ptr = ptr /\ first \in Chunks(hold)
      BY <3>1 DEF Chunks
    <3>3. NotFree(m, ptr)
      BY <3>2 DEF Owned
    <3>4. QED
      BY <1>2, <1>5, <1>8, <1>15, <3>3 DEF NotFree, free
  <2>3. QED
    BY <2>1, <2>2
<1>18. \A h1 \in Ranges(all) : <<h1.va, h1.len>> \in Spots(t.chain) /\ h1.va \notin inUse
  BY <1>7 DEF Owned
<1>19. t.harm = {} => \A g \in Chunks(all) : g.ptr[1] \in BucketPages(new)
  BY <1>6, <1>7, <1>8, <1>10 DEF Owned
<1>20. \A p \in inUse : p < KERN_METADATA => <<p, 1>> \in Spots(t.chain)
  BY DEF Owned
<1>21. Owned(t, all)
  BY <1>11, <1>12, <1>14, <1>16, <1>17, <1>18, <1>19, <1>20 DEF Owned
<1>22. HeadUsed(new, b)
  <2>1. 1 \in 1..Len(m.lists[b]) /\ CAPACITY \in Nat \ {0}
    BY <1>1, <1>2, ListType, Sizes
  <2>2. CASE k = 1
    <3>1. Len(free) \in Nat /\ Len(free) <= CAPACITY
      BY <1>4, <2>1, FitsIs
    <3>2. new.lists[b][1].free = Tail(free)
      BY <1>2, <2>2 DEF free
    <3>3. Len(Tail(free)) < CAPACITY
      BY <1>5, <2>1, <3>1
    <3>4. QED
      BY <3>2, <3>3 DEF HeadUsed
  <2>3. CASE k # 1
    <3>1. new.lists[b][1].free = <<>>
      BY <1>2, <2>1, <2>3
    <3>2. Len(new.lists[b][1].free) = 0
      BY <3>1
    <3>3. QED
      BY <2>1, <3>2 DEF HeadUsed
  <2>4. QED
    BY <2>2, <2>3
<1>23. QED
  BY <1>21, <1>22
-----------------------------------------------------------------------------
\* A bucket without a page gets one of the program's space.
LEMMA FirstPageOwned ==
  ASSUME NEW s, Sound(s), NEW hold, NEW b \in Bucket, Owned(s, hold), s.mem.lists[b] = <<>>,
         NEW t, t = FirstPage(s, b), t.mem.halt = "no", Whole(t)
  PROVE  /\ Owned(t, hold) /\ Whole(s) /\ s.mem.halt = "no" /\ t.mem.lists[b] # <<>>
         /\ \A c \in Bucket : c # b => t.mem.lists[c] = s.mem.lists[c]
<1> DEFINE s0   == [s EXCEPT !.mem = phy_alloc_page(@)]
           s1   == VirAlloc(s0, 1)
           va   == AllocVa(s.chain, break_, 1)
           m    == s.mem
           m1   == FirstMem(s)
           new  == t.mem
           page == fmtlist_init(va)
           inUse == ChunkPages(m, hold)
           more == inUse \cup {va}
<1>1. b \in List /\ b \notin Metadata /\ \A c \in Bucket : c \in List /\ c \notin Metadata
  BY ListsAre
<1>2. /\ Sound(s0) /\ s0.mem = phy_alloc_page(m) /\ s0.chain = s.chain /\ s0.harm = s.harm
      /\ Sound(s1) /\ Sound(FirstPage(s, b)) /\ va \in Addr
      /\ FirstPage(s, b).chain = s1.chain /\ FirstPage(s, b).harm = s1.harm
      /\ m1 \in MemType /\ m1.lists = s1.mem.lists
      /\ m1.virmm = s1.mem.virmm /\ (m1.halt = "no" => s1.mem.halt = "no")
      /\ <<page>> \in Seq(PageType)
      /\ FirstPage(s, b).mem = [m1 EXCEPT !.lists[b] = <<page>>]
  BY FirstPageIs
<1>3. m \in MemType /\ s0.mem \in MemType /\ new \in MemType
  BY <1>2, StateIs DEF Sound
<1>4. m1.lists \in [List -> Seq(PageType)]
  BY <1>2 DEF MemType
<1> DEFINE list == <<page>>
<1>5. page.va = va /\ IsInjective(page.free)
  BY InitFree
<1> HIDE DEF s0, s1, m1, page, va
<1>6. list \in Seq(PageType) /\ Len(list) = 1 /\ list[1] = page /\ list # <<>>
  BY <1>2
<1> HIDE DEF list
<1>7. /\ new.lists = [m1.lists EXCEPT ![b] = list] /\ new.virmm = m1.virmm /\ new.halt = m1.halt
  BY <1>2, <1>4 DEF MemType, list
<1>8. /\ new.lists[b] = list
      /\ \A l \in List : l # b => new.lists[l] = m1.lists[l]
  BY <1>1, <1>4, <1>7
<1>9. m1.halt = "no" /\ s1.mem.halt = "no" /\ Whole(s1) /\ t.chain = s1.chain /\ t.harm = s1.harm
  BY <1>2, <1>7 DEF Whole
<1>10. s0.mem.lists = m.lists /\ s0.mem.virmm = m.virmm /\ (s0.mem.halt = "no" => m.halt = "no")
  BY <1>2, <1>3, FrameIs
<1>11. MetaApart(s0.mem, inUse)
  <2>1. MetaApart(m, inUse)
    BY DEF Owned
  <2>2. \A l : PagesOf(s0.mem, l) = PagesOf(m, l)
    BY <1>10 DEF PagesOf
  <2>3. \A p : Taken(s0.mem, p) <=> Taken(m, p)
    BY <1>10 DEF Taken
  <2>4. QED
    BY <2>1, <2>2, <2>3 DEF MetaApart
<1>12. /\ MetaApart(s1.mem, inUse) /\ \A c \in Bucket : s1.mem.lists[c] = s0.mem.lists[c]
       /\ s0.mem.halt = "no" /\ Whole(s0) /\ s0.harm \subseteq s1.harm
       /\ Spots(s1.chain) = Spots(s0.chain) \cup {<<va, 1>>}
       /\ va \in Nat /\ va < KERN_METADATA
       /\ \A len : <<va, len>> \notin Spots(s0.chain)
  <2>1. VirAlloc(s0, 1).mem.halt = "no" /\ Whole(VirAlloc(s0, 1)) /\ 1 \in Amount
    BY <1>9, Sizes DEF s1
  <2>2. va = AllocVa(s0.chain, break_, 1)
    BY <1>2 DEF va
  <2> DEFINE at == AllocVa(s0.chain, break_, 1)
             r  == VirAlloc(s0, 1)
  <2>3. /\ MetaApart(r.mem, inUse) /\ \A c \in Bucket : r.mem.lists[c] = s0.mem.lists[c]
        /\ s0.mem.halt = "no" /\ Whole(s0) /\ s0.harm \subseteq r.harm
        /\ Spots(r.chain) = Spots(s0.chain) \cup {<<at, 1>>}
        /\ at \in Nat /\ at < KERN_METADATA
        /\ \A len : <<at, len>> \notin Spots(s0.chain)
    BY <1>2, <1>11, <2>1, VirAllocOwns
  <2>4. r = s1 /\ at = va
    BY <2>2, Zenon DEF s1
  <2> HIDE DEF at, r
  <2>5. QED
    BY <2>3, <2>4
<1>13. Whole(s) /\ m.halt = "no" /\ s.harm \subseteq t.harm
  BY <1>2, <1>9, <1>10, <1>12 DEF Whole
<1>14. \A c \in Bucket : c # b => new.lists[c] = m.lists[c]
  BY <1>1, <1>2, <1>8, <1>10, <1>12
<1>15. \A p \in inUse : p # va
  BY <1>2, <1>12 DEF Owned
<1>16. BucketPages(new) = BucketPages(m) \cup {va}
  <2>1. PagesOf(new, b) = {va}
    <3>1. PagesOf(new, b) = {new.lists[b][k].va : k \in 1..Len(new.lists[b])}
      BY <1>1, <1>3, PagesAre
    <3>2. QED
      BY <1>5, <1>6, <1>8, <3>1
  <2>2. PagesOf(m, b) = {}
    BY DEF PagesOf
  <2>3. \A c \in Bucket : c # b => PagesOf(new, c) = PagesOf(m, c)
    BY <1>14 DEF PagesOf
  <2>4. QED
    BY <2>1, <2>2, <2>3 DEF BucketPages
<1>17. ChunkPages(new, hold) = more
  BY <1>16 DEF ChunkPages
<1>18. KERN_METADATA \in Nat /\ ~(va >= KERN_METADATA)
  BY <1>12, Sizes
<1>19. MetaApart(new, more)
  <2>1. \A l \in Metadata : PagesOf(new, l) = PagesOf(s1.mem, l)
    <3>1. \A l \in Metadata : new.lists[l] = s1.mem.lists[l]
      BY <1>1, <1>2, <1>8, ListsAre
    <3>2. QED
      BY <3>1 DEF PagesOf
  <2>2. \A p : Taken(new, p) <=> Taken(s1.mem, p)
    BY <1>2, <1>7 DEF Taken
  <2>3. \A p : Taken(new, p) => p # va
    BY <1>18, TakenIs
  <2>4. QED
    BY <1>12, <1>18, <2>1, <2>2, <2>3 DEF MetaApart
<1>20. \A p \in more : p < KERN_METADATA => <<p, 1>> \in Spots(t.chain)
  BY <1>2, <1>9, <1>12 DEF Owned
<1>21. ASSUME NEW c \in Bucket, NEW k \in 1..Len(new.lists[c])
       PROVE  \/ c = b /\ k = 1 /\ new.lists[c][k] = page
              \/ /\ c # b /\ k \in 1..Len(m.lists[c]) /\ new.lists[c][k] = m.lists[c][k]
                 /\ m.lists[c][k].va # va
  <2>1. CASE c = b
    <3>1. k \in 1..1 /\ new.lists[c] = list
      BY <1>6, <1>8, <2>1
    <3>2. k = 1
      BY <3>1
    <3>3. QED
      BY <1>6, <2>1, <3>1, <3>2
  <2>2. CASE c # b
    <3>1. k \in 1..Len(m.lists[c]) /\ new.lists[c][k] = m.lists[c][k]
      BY <1>14, <2>2
    <3>2. QED
      BY <1>3, <1>15, <2>2, <3>1, InUse
  <2>3. QED
    BY <2>1, <2>2
<1>22. BucketsApart(m)
  BY DEF Owned
<1>23. \A c \in Bucket : DOMAIN m.lists[c] = 1..Len(m.lists[c]) /\ DOMAIN new.lists[c] = 1..Len(new.lists[c])
  BY <1>1, <1>3, ListType
<1>24. BucketsApart(new)
  <2>1. ASSUME NEW c \in Bucket, NEW k \in 1..Len(new.lists[c])
        PROVE  /\ IsInjective(new.lists[c][k].free)
               /\ k = 1 <=> new.lists[c][k].va < KERN_METADATA
    <3>1. CASE c = b /\ k = 1 /\ new.lists[c][k] = page
      BY <1>5, <1>12, <3>1
    <3>2. CASE k \in 1..Len(m.lists[c]) /\ new.lists[c][k] = m.lists[c][k]
      BY <1>3, <1>22, <3>2, BucketsAre
    <3>3. QED
      BY <1>21, <3>1, <3>2
  <2>2. ASSUME NEW c \in Bucket, NEW k \in 1..Len(new.lists[c]),
               NEW d \in Bucket, NEW j \in 1..Len(new.lists[d]),
               new.lists[d][j].va = new.lists[c][k].va
        PROVE  d = c /\ j = k
    <3>1. CASE c = b
      <4>1. new.lists[c][k].va = va /\ k = 1
        BY <1>5, <1>21, <3>1
      <4>2. d = b /\ j = 1
        <5>1. new.lists[d][j].va = va
          BY <2>2, <4>1
        <5>2. ~(new.lists[d][j] = m.lists[d][j] /\ m.lists[d][j].va # va)
          BY <5>1
        <5>3. QED
          BY <1>21, <5>2
      <4>3. QED
        BY <3>1, <4>1, <4>2
    <3>2. CASE d = b
      <4>1. new.lists[d][j].va = va /\ j = 1
        BY <1>5, <1>21, <3>2
      <4>2. c = b /\ k = 1
        <5>1. new.lists[c][k].va = va
          BY <2>2, <4>1
        <5>2. ~(new.lists[c][k] = m.lists[c][k] /\ m.lists[c][k].va # va)
          BY <5>1
        <5>3. QED
          BY <1>21, <5>2
      <4>3. QED
        BY <3>2, <4>1, <4>2
    <3>3. CASE c # b /\ d # b
      <4>1. /\ k \in 1..Len(m.lists[c]) /\ j \in 1..Len(m.lists[d])
            /\ m.lists[d][j].va = m.lists[c][k].va
        BY <1>21, <2>2, <3>3
      <4>2. \A e \in Bucket : \A i \in 1..Len(m.lists[e]) :
              m.lists[e][i].va = m.lists[c][k].va => e = c /\ i = k
        BY <1>3, <1>22, <4>1, BucketsAre, ZenonT(30)
      <4>3. QED
        BY <4>1, <4>2
    <3>4. QED
      BY <3>1, <3>2, <3>3
  <2>3. new \in MemType
    BY <1>3
  <2> HIDE DEF new
  <2>4. QED
    BY <2>1, <2>2, <2>3, BucketsAgain
<1>25. ASSUME NEW h \in Chunks(hold) PROVE NotFree(new, h.ptr)
  <2>1. NotFree(m, h.ptr) /\ h.ptr[1] # va
    BY <1>3, <1>15, InUse DEF Owned
  <2>2. ASSUME NEW c \in Bucket, NEW k \in 1..Len(new.lists[c]), new.lists[c][k].va = h.ptr[1]
        PROVE  h.ptr[2] \notin Range(new.lists[c][k].free)
    <3>1. k \in 1..Len(m.lists[c]) /\ new.lists[c][k] = m.lists[c][k]
      BY <1>5, <1>21, <2>1, <2>2
    <3>2. QED
      BY <1>23, <2>1, <2>2, <3>1 DEF NotFree
  <2>3. QED
    BY <1>23, <2>2 DEF NotFree
<1>26. \A h \in Ranges(hold) : <<h.va, h.len>> \in Spots(t.chain) /\ h.va \notin more
  BY <1>2, <1>9, <1>12 DEF Owned
<1>27. (\A h \in hold : ~h.twin)
       /\ (t.harm = {} => \A h \in Chunks(hold) : h.ptr[1] \in BucketPages(new))
  BY <1>13, <1>16 DEF Owned
<1>28. Owned(t, hold)
  BY <1>17, <1>19, <1>20, <1>24, <1>25, <1>26, <1>27 DEF Owned
<1>29. QED
  BY <1>6, <1>8, <1>13, <1>14, <1>28

\* Pages of the program's space are taken, and the program holds them.
GivenPages(s, t, len, hold, h) ==
  LET va == AllocVa(s.chain, break_, len)
  IN  /\ t = AllocPages(s, len)
      /\ h = [va |-> va, len |-> len, twin |-> [va |-> va, len |-> len, twin |-> FALSE] \in hold]

\* They are nobody else's.
LEMMA PagesOwned ==
  ASSUME NEW s, Sound(s), NEW hold, NEW len \in Amount, Owned(s, hold),
         NEW t, NEW h, GivenPages(s, t, len, hold, h), t.mem.halt = "no", Whole(t)
  PROVE  /\ Owned(t, hold \cup {h}) /\ Whole(s) /\ s.mem.halt = "no"
         /\ \A c \in Bucket : t.mem.lists[c] = s.mem.lists[c]
<1> DEFINE va   == AllocVa(s.chain, break_, len)
           s1   == VirAlloc(s, len)
           m    == s.mem
           new  == t.mem
           inUse == ChunkPages(m, hold)
           all  == hold \cup {h}
<1>0. t = AllocPages(s, len)
  BY DEF GivenPages
<1>1. /\ Sound(t) /\ Sound(s1) /\ t.chain = s1.chain /\ t.harm = s1.harm
      /\ new \in MemType /\ new.lists = s1.mem.lists /\ new.virmm = s1.mem.virmm
      /\ new.halt = "no" => s1.mem.halt = "no"
  BY <1>0, AllocPagesSound
<1>2. VirAlloc(s, len).mem.halt = "no" /\ Whole(VirAlloc(s, len)) /\ MetaApart(m, inUse)
  BY <1>1 DEF Whole, Owned
<1>3. /\ MetaApart(s1.mem, inUse) /\ \A c \in Bucket : s1.mem.lists[c] = m.lists[c]
      /\ m.halt = "no" /\ Whole(s) /\ s.harm \subseteq s1.harm
      /\ Spots(s1.chain) = Spots(s.chain) \cup {<<va, len>>}
      /\ va \in Nat /\ va < KERN_METADATA
      /\ \A n : <<va, n>> \notin Spots(s.chain)
  BY <1>2, VirAllocOwns
<1> DEFINE first == [va |-> va, len |-> len, twin |-> FALSE]
<1>a. h = [va |-> va, len |-> len, twin |-> first \in hold]
  BY DEF GivenPages
<1> HIDE DEF s1, va
<1>4. \A c \in Bucket : new.lists[c] = m.lists[c]
  BY <1>1, <1>3
<1>5. h.va = va /\ h.len = len /\ "va" \in DOMAIN h /\ "ptr" \notin DOMAIN h
      /\ h.twin = (first \in hold)
  BY <1>a
<1>6. Chunks(all) = Chunks(hold) /\ Ranges(all) = Ranges(hold) \cup {h}
  BY <1>5 DEF Chunks, Ranges
<1>7. \A c \in Bucket : PagesOf(new, c) = PagesOf(m, c)
  BY <1>4 DEF PagesOf
<1>8. BucketPages(new) = BucketPages(m)
  BY <1>7 DEF BucketPages
<1>9. ChunkPages(new, all) = inUse
  BY <1>6, <1>8 DEF ChunkPages
<1>10. MetaApart(new, inUse)
  <2>1. \A l : PagesOf(new, l) = PagesOf(s1.mem, l)
    BY <1>1 DEF PagesOf
  <2>2. \A p : Taken(new, p) <=> Taken(s1.mem, p)
    BY <1>1 DEF Taken
  <2>3. QED
    BY <1>3, <2>1, <2>2 DEF MetaApart
<1>11. \A p \in inUse : p # va /\ (p < KERN_METADATA => <<p, 1>> \in Spots(t.chain))
  BY <1>1, <1>3 DEF Owned
<1>12. BucketsApart(new)
  BY <1>4 DEF Owned, BucketsApart
<1>13. \A g \in Chunks(all) : NotFree(new, g.ptr)
  BY <1>4, <1>6 DEF Owned, NotFree
<1>14. \A g \in Ranges(all) : <<g.va, g.len>> \in Spots(t.chain) /\ g.va \notin inUse
  BY <1>1, <1>3, <1>5, <1>6, <1>11 DEF Owned
<1>15. ASSUME NEW g \in all PROVE ~g.twin
  <2>1. CASE g \in hold
    BY <2>1 DEF Owned
  <2>2. CASE g = h
    <3>1. SUFFICES ASSUME first \in hold PROVE FALSE
      BY <1>5, <2>2
    <3>2. first.va = va /\ first.len = len /\ first \in Ranges(hold)
      BY <3>1 DEF Ranges
    <3> HIDE DEF first
    <3>3. <<va, len>> \in Spots(s.chain)
      BY <3>2 DEF Owned
    <3>4. QED
      BY <1>3, <3>3
  <2>3. QED
    BY <2>1, <2>2
<1>16. t.harm = {} => \A g \in Chunks(all) : g.ptr[1] \in BucketPages(new)
  BY <1>1, <1>3, <1>6, <1>8 DEF Owned
<1>17. Owned(t, all)
  BY <1>9, <1>10, <1>11, <1>12, <1>13, <1>14, <1>15, <1>16 DEF Owned
<1>18. QED
  BY <1>3, <1>4, <1>17
-----------------------------------------------------------------------------
\* What is asked of the metadata is asked of fewer pages in use.
LEMMA FewerApart ==
  ASSUME NEW m, NEW inUse, MetaApart(m, inUse), NEW less \in SUBSET inUse
  PROVE  MetaApart(m, less)
BY DEF MetaApart

\* What is asked of what the program holds is asked of less.
LEMMA FewerOwned ==
  ASSUME NEW s, NEW hold, Owned(s, hold), NEW less \in SUBSET hold
  PROVE  Owned(s, less)
<1>1. Chunks(less) \subseteq Chunks(hold) /\ Ranges(less) \subseteq Ranges(hold)
  BY DEF Chunks, Ranges
<1>2. ChunkPages(s.mem, less) \subseteq ChunkPages(s.mem, hold)
  BY <1>1 DEF ChunkPages
<1>3. MetaApart(s.mem, ChunkPages(s.mem, less))
  BY <1>2, FewerApart DEF Owned
<1>4. QED
  BY <1>1, <1>2, <1>3 DEF Owned

\* Pages in which there is no chunk are given back.
LEMMA ReleasedOwned ==
  ASSUME NEW s, Sound(s), NEW hold, Owned(s, hold), NEW va, NEW junk \in Addr,
         va \notin ChunkPages(s.mem, hold), va \notin {g.va : g \in Ranges(hold)},
         NEW t, t = VirRelease(s, va, junk), t.mem.halt = "no", Whole(t)
  PROVE  /\ Owned(t, hold) /\ Whole(s) /\ s.mem.halt = "no"
         /\ \A c \in Bucket : t.mem.lists[c] = s.mem.lists[c]
<1> DEFINE m    == s.mem
           new  == t.mem
           inUse == ChunkPages(m, hold)
           r    == VirRelease(s, va, junk)
<1>1. r.mem.halt = "no" /\ Whole(r) /\ MetaApart(m, inUse)
  BY DEF Owned
<1>2. /\ MetaApart(r.mem, inUse) /\ \A c \in Bucket : r.mem.lists[c] = m.lists[c]
      /\ m.halt = "no" /\ Whole(s) /\ s.harm \subseteq r.harm
      /\ \A at, len : <<at, len>> \in Spots(s.chain) /\ at # va => <<at, len>> \in Spots(r.chain)
  BY <1>1, VirReleaseOwns
<1>3. r = t
  OBVIOUS
<1> HIDE DEF r
<1>4. \A c \in Bucket : PagesOf(new, c) = PagesOf(m, c)
  BY <1>2, <1>3 DEF PagesOf
<1>5. BucketPages(new) = BucketPages(m)
  BY <1>4 DEF BucketPages
<1>6. ChunkPages(new, hold) = inUse
  BY <1>5 DEF ChunkPages
<1>7. \A p \in inUse : p < KERN_METADATA => <<p, 1>> \in Spots(t.chain)
  BY <1>2, <1>3 DEF Owned
<1>8. BucketsApart(new)
  BY <1>2, <1>3, SMTT(30) DEF Owned, BucketsApart
<1>9. \A g \in Chunks(hold) : NotFree(new, g.ptr)
  BY <1>2, <1>3 DEF Owned, NotFree
<1>10. \A g \in Ranges(hold) : <<g.va, g.len>> \in Spots(t.chain) /\ g.va \notin inUse
  BY <1>2, <1>3 DEF Owned
<1>11. (\A g \in hold : ~g.twin)
       /\ (t.harm = {} => \A g \in Chunks(hold) : g.ptr[1] \in BucketPages(new))
  BY <1>2, <1>3, <1>5 DEF Owned
<1>12. Owned(t, hold)
  BY <1>2, <1>3, <1>6, <1>7, <1>8, <1>9, <1>10, <1>11 DEF Owned
<1>13. QED
  BY <1>2, <1>3, <1>12

\* A number put in front of a list that does not have it.
LEMMA FrontOnce ==
  ASSUME NEW S, NEW q \in Seq(S), IsInjective(q), NEW x \in S, x \notin Range(q)
  PROVE  IsInjective(<<x>> \o q)
<1> DEFINE more == <<x>> \o q
<1>1. /\ more \in Seq(S) /\ Len(more) = Len(q) + 1 /\ more[1] = x
      /\ \A i \in 2..(Len(q) + 1) : more[i] = q[i - 1]
  BY FrontIs
<1>2. Len(q) \in Nat /\ DOMAIN q = 1..Len(q)
  OBVIOUS
<1> HIDE DEF more
<1>3. DOMAIN more = 1..(Len(q) + 1)
  BY <1>1
<1>4. ASSUME NEW i \in 2..(Len(q) + 1) PROVE more[i] = q[i - 1] /\ i - 1 \in DOMAIN q /\ more[i] # x
  <2>1. more[i] = q[i - 1] /\ i - 1 \in DOMAIN q
    BY <1>1, <1>2
  <2>2. QED
    BY <2>1 DEF Range
<1>5. ASSUME NEW i \in 1..(Len(q) + 1), NEW j \in 1..(Len(q) + 1), more[i] = more[j] PROVE i = j
  <2>1. (i = 1 \/ i \in 2..(Len(q) + 1)) /\ (j = 1 \/ j \in 2..(Len(q) + 1))
    BY <1>2
  <2>2. CASE i = 1 \/ j = 1
    BY <1>1, <1>4, <1>5, <2>1, <2>2
  <2>3. CASE i \in 2..(Len(q) + 1) /\ j \in 2..(Len(q) + 1)
    <3>1. q[i - 1] = q[j - 1] /\ i - 1 \in DOMAIN q /\ j - 1 \in DOMAIN q
      BY <1>4, <1>5, <2>3
    <3>2. i - 1 = j - 1
      BY <3>1 DEF IsInjective
    <3>3. QED
      BY <1>2, <2>3, <3>2
  <2>4. QED
    BY <2>1, <2>2, <2>3
<1>6. QED
  BY <1>3, <1>5 DEF IsInjective, more

\* A chunk held is not another that is held.
LEMMA HeldOnce ==
  ASSUME NEW s, NEW hold \in SUBSET HeldType, Owned(s, hold),
         NEW g \in Chunks(hold), NEW h \in Chunks(hold), g.ptr = h.ptr
  PROVE  g = h
<1>1. ~g.twin /\ ~h.twin
  BY DEF Owned, Chunks
<1>2. g \in [ptr : ChunkType, twin : BOOLEAN] /\ h \in [ptr : ChunkType, twin : BOOLEAN]
  <2>1. \A r \in [va : Addr, len : Amount, twin : BOOLEAN] : "ptr" \notin DOMAIN r
    OBVIOUS
  <2>2. QED
    BY <2>1 DEF Chunks, HeldType
<1>3. g.twin = FALSE /\ h.twin = FALSE
  BY <1>1, <1>2
<1>4. g = [ptr |-> g.ptr, twin |-> g.twin] /\ h = [ptr |-> h.ptr, twin |-> h.twin]
  BY <1>2
<1>5. QED
  BY <1>3, <1>4
-----------------------------------------------------------------------------
\* A chunk that is held is a chunk.
LEMMA HeldChunk ==
  ASSUME NEW hold \in SUBSET HeldType, NEW h \in Chunks(hold)
  PROVE  /\ h.ptr \in ChunkType /\ h.ptr[1] \in Addr /\ h.ptr[2] \in 1..CAPACITY
         /\ h.ptr = <<h.ptr[1], h.ptr[2]>>
<1>1. \A r \in [va : Addr, len : Amount, twin : BOOLEAN] : "ptr" \notin DOMAIN r
  OBVIOUS
<1>2. h.ptr \in ChunkType
  BY <1>1 DEF Chunks, HeldType
<1>3. QED
  BY <1>2 DEF ChunkType

\* The free chunks of page k of a bucket when one of it is given back.
BackFree(m, b, k, ptr) == <<ptr[2]>> \o m.lists[b][k].free

HeldOk(s, hold) == hold \in SUBSET HeldType /\ s.mem \in MemType /\ Owned(s, hold)

AtPage(m, b, k, ptr) == k \in 1..Len(m.lists[b]) /\ m.lists[b][k].va = ptr[1]

\* If the chunk was held they are distinct, and all free if no other is held.
LEMMA FullPage ==
  ASSUME NEW s, NEW hold, HeldOk(s, hold), NEW h \in Chunks(hold), NEW b \in Bucket, NEW k,
         AtPage(s.mem, b, k, h.ptr)
  PROVE  /\ IsInjective(BackFree(s.mem, b, k, h.ptr))
         /\ Range(BackFree(s.mem, b, k, h.ptr)) = Range(s.mem.lists[b][k].free) \cup {h.ptr[2]}
         /\ Len(BackFree(s.mem, b, k, h.ptr)) = CAPACITY =>
              \A g \in Chunks(hold) : g.ptr[1] = h.ptr[1] => g = h
<1> DEFINE free == s.mem.lists[b][k].free
           x    == h.ptr[2]
           back == <<x>> \o free
<1>1. /\ BucketsApart(s.mem) /\ NotFree(s.mem, h.ptr) /\ Owned(s, hold)
      /\ k \in 1..Len(s.mem.lists[b]) /\ s.mem.lists[b][k].va = h.ptr[1]
      /\ hold \in SUBSET HeldType /\ s.mem \in MemType
  BY DEF Owned, HeldOk, AtPage
<1>2. free \in Seq(1..CAPACITY) /\ IsInjective(free)
  BY <1>1, BucketsAre
<1>3. b \in List
  BY ListsAre
<1>4. k \in DOMAIN s.mem.lists[b]
  BY <1>1, <1>3, ListType
<1>5. x \in 1..CAPACITY /\ x \notin Range(free)
  BY <1>1, <1>4, HeldChunk DEF NotFree
<1> HIDE DEF free, x
<1>6. back \in Seq(1..CAPACITY) /\ Range(back) = Range(free) \cup {x} /\ IsInjective(back)
  <2> DEFINE S == 1..CAPACITY
  <2>a. free \in Seq(S) /\ x \in S
    BY <1>2, <1>5
  <2> HIDE DEF S
  <2>b. <<x>> \o free \in Seq(S) /\ Range(<<x>> \o free) = Range(free) \cup {x}
    BY <2>a, FrontIs
  <2>1. back \in Seq(1..CAPACITY) /\ Range(back) = Range(free) \cup {x}
    BY <2>b DEF S
  <2>2. IsInjective(back)
    BY <1>2, <1>5, FrontOnce
  <2>3. QED
    BY <2>1, <2>2
<1> HIDE DEF back
<1>7. ASSUME Len(back) = CAPACITY, NEW g \in Chunks(hold), g.ptr[1] = h.ptr[1] PROVE g = h
  <2>1. CAPACITY \in Nat
    BY Sizes
  <2>2. Range(back) = 1..CAPACITY
    BY <1>6, <1>7, <2>1, FitsIs
  <2>3. g.ptr[2] \in 1..CAPACITY /\ g.ptr = <<g.ptr[1], g.ptr[2]>> /\ h.ptr = <<h.ptr[1], h.ptr[2]>>
    BY <1>1, HeldChunk
  <2>4. g.ptr[2] \notin Range(free)
    BY <1>1, <1>4, <1>7 DEF Owned, NotFree, free
  <2>5. g.ptr[2] = h.ptr[2]
    BY <1>6, <2>2, <2>3, <2>4 DEF x
  <2>6. g.ptr = h.ptr
    BY <1>7, <2>3, <2>5
  <2>7. QED
    BY <1>1, <2>6, HeldOnce
<1>8. QED
  BY <1>6, <1>7 DEF free, back, x, BackFree

\* A chunk is given back to page k of a bucket.
GaveChunk(m, new, b, k, ptr) ==
  /\ k \in 1..Len(m.lists[b]) /\ m.lists[b][k].va = ptr[1]
  /\ new.virmm = m.virmm
  /\ \A other \in List : other # b => new.lists[other] = m.lists[other]
  /\ Len(new.lists[b]) = Len(m.lists[b])
  /\ \A j \in 1..Len(m.lists[b]) :
       /\ new.lists[b][j].va = m.lists[b][j].va
       /\ new.lists[b][j].free = IF j = k THEN <<ptr[2]>> \o m.lists[b][j].free
                                 ELSE m.lists[b][j].free

\* A chunk is given back, and the program holds it no more.
LEMMA GaveOwned ==
  ASSUME NEW s, NEW t, NEW hold \in SUBSET HeldType, NEW b \in Bucket, NEW k, NEW h \in Chunks(hold),
         s.mem \in MemType, t.mem \in MemType, t.chain = s.chain, t.harm = s.harm,
         Owned(s, hold), GaveChunk(s.mem, t.mem, b, k, h.ptr)
  PROVE  Owned(t, hold \ {h})
<1> DEFINE m    == s.mem
           new  == t.mem
           less == hold \ {h}
           free == m.lists[b][k].free
           back == <<h.ptr[2]>> \o free
<1>1. b \in List /\ \A c \in Bucket : c \in List
  BY ListsAre
<1>2. /\ k \in 1..Len(m.lists[b]) /\ m.lists[b][k].va = h.ptr[1] /\ new.virmm = m.virmm
      /\ \A other \in List : other # b => new.lists[other] = m.lists[other]
      /\ Len(new.lists[b]) = Len(m.lists[b])
      /\ \A j \in 1..Len(m.lists[b]) :
           /\ new.lists[b][j].va = m.lists[b][j].va
           /\ new.lists[b][j].free = IF j = k THEN <<h.ptr[2]>> \o m.lists[b][j].free
                                     ELSE m.lists[b][j].free
  BY DEF GaveChunk
<1>3. Owned(s, less)
  BY FewerOwned
<1>4. BucketsApart(m)
  BY DEF Owned
<1>5. IsInjective(back) /\ Range(back) = Range(free) \cup {h.ptr[2]}
  <2>1. AtPage(s.mem, b, k, h.ptr) /\ HeldOk(s, hold)
    BY <1>2 DEF AtPage, HeldOk
  <2>2. back = BackFree(m, b, k, h.ptr)
    BY DEF BackFree
  <2>3. free = s.mem.lists[b][k].free
    OBVIOUS
  <2> HIDE DEF back, free
  <2>4. /\ IsInjective(BackFree(s.mem, b, k, h.ptr))
        /\ Range(BackFree(s.mem, b, k, h.ptr)) = Range(s.mem.lists[b][k].free) \cup {h.ptr[2]}
    BY <2>1, FullPage
  <2>5. QED
    BY <2>2, <2>3, <2>4
<1>6. \A l \in List : PagesOf(new, l) = PagesOf(m, l)
  <2>1. PagesOf(new, b) = PagesOf(m, b)
    BY <1>1, <1>2, SamePages
  <2>2. \A l \in List : l # b => PagesOf(new, l) = PagesOf(m, l)
    BY <1>2 DEF PagesOf
  <2>3. QED
    BY <2>1, <2>2
<1>7. BucketPages(new) = BucketPages(m)
  BY <1>1, <1>6 DEF BucketPages
<1>8. ChunkPages(new, less) = ChunkPages(m, less)
  BY <1>7 DEF ChunkPages
<1>9. MetaApart(new, ChunkPages(m, less))
  <2>1. MetaApart(m, ChunkPages(m, less))
    BY <1>3 DEF Owned
  <2>2. \A l \in Metadata : PagesOf(new, l) = PagesOf(m, l)
    BY <1>6, ListsAre
  <2>3. \A p : Taken(new, p) <=> Taken(m, p)
    BY <1>2 DEF Taken
  <2>4. QED
    BY <2>1, <2>2, <2>3 DEF MetaApart
<1>10. ASSUME NEW c \in Bucket, NEW j \in 1..Len(new.lists[c])
       PROVE  /\ j \in 1..Len(m.lists[c]) /\ new.lists[c][j].va = m.lists[c][j].va
              /\ \/ new.lists[c][j].free = m.lists[c][j].free
                 \/ c = b /\ j = k /\ new.lists[c][j].free = back
  BY <1>1, <1>2
<1> HIDE DEF back, free
<1>11. BucketsApart(new)
  <2>1. ASSUME NEW c \in Bucket, NEW j \in 1..Len(new.lists[c])
        PROVE  /\ IsInjective(new.lists[c][j].free)
               /\ j = 1 <=> new.lists[c][j].va < KERN_METADATA
    <3>1. j \in 1..Len(m.lists[c]) /\ new.lists[c][j].va = m.lists[c][j].va
      BY <1>10
    <3>2. IsInjective(m.lists[c][j].free) /\ (j = 1 <=> m.lists[c][j].va < KERN_METADATA)
      BY <1>4, <3>1, BucketsAre
    <3>3. QED
      BY <1>5, <1>10, <3>1, <3>2
  <2>2. ASSUME NEW c \in Bucket, NEW j \in 1..Len(new.lists[c]),
               NEW d \in Bucket, NEW i \in 1..Len(new.lists[d]),
               new.lists[d][i].va = new.lists[c][j].va
        PROVE  d = c /\ i = j
    <3>1. /\ j \in 1..Len(m.lists[c]) /\ i \in 1..Len(m.lists[d])
          /\ m.lists[d][i].va = m.lists[c][j].va
      BY <1>10, <2>2
    <3>2. \A e \in Bucket : \A l \in 1..Len(m.lists[e]) :
            m.lists[e][l].va = m.lists[c][j].va => e = c /\ l = j
      BY <1>4, <3>1, BucketsAre
    <3>3. QED
      BY <3>1, <3>2
  <2>3. new \in MemType
    OBVIOUS
  <2> HIDE DEF new
  <2>4. QED
    BY <2>1, <2>2, <2>3, BucketsAgain
<1>12. \A c \in Bucket : DOMAIN m.lists[c] = 1..Len(m.lists[c]) /\ DOMAIN new.lists[c] = 1..Len(new.lists[c])
  BY <1>1, ListType
<1>13. ASSUME NEW g \in Chunks(less) PROVE NotFree(new, g.ptr)
  <2>1. g \in Chunks(hold) /\ g # h /\ NotFree(m, g.ptr)
    BY <1>3 DEF Chunks, Owned
  <2>2. ASSUME NEW c \in Bucket, NEW j \in 1..Len(new.lists[c]), new.lists[c][j].va = g.ptr[1]
        PROVE  g.ptr[2] \notin Range(new.lists[c][j].free)
    <3>1. j \in 1..Len(m.lists[c]) /\ m.lists[c][j].va = g.ptr[1]
      BY <1>10, <2>2
    <3>2. g.ptr[2] \notin Range(m.lists[c][j].free)
      BY <1>12, <2>1, <3>1 DEF NotFree
    <3>3. CASE new.lists[c][j].free = m.lists[c][j].free
      BY <3>2, <3>3
    <3>4. CASE c = b /\ j = k /\ new.lists[c][j].free = back
      <4>1. g.ptr[2] \notin Range(free) /\ g.ptr[1] = h.ptr[1]
        BY <1>2, <3>1, <3>2, <3>4 DEF free
      <4>2. g.ptr = <<g.ptr[1], g.ptr[2]>> /\ h.ptr = <<h.ptr[1], h.ptr[2]>>
        BY <2>1, HeldChunk
      <4>3. g.ptr # h.ptr
        BY <2>1, HeldOnce
      <4>4. g.ptr[2] # h.ptr[2]
        BY <4>1, <4>2, <4>3
      <4>5. QED
        BY <1>5, <3>4, <4>1, <4>4
    <3>5. QED
      BY <1>10, <3>3, <3>4
  <2>3. QED
    BY <1>12, <2>2 DEF NotFree
<1>14. \A p \in ChunkPages(m, less) : p < KERN_METADATA => <<p, 1>> \in Spots(t.chain)
  BY <1>3 DEF Owned
<1>15. \A g \in Ranges(less) : <<g.va, g.len>> \in Spots(t.chain) /\ g.va \notin ChunkPages(m, less)
  BY <1>3 DEF Owned
<1>16. (\A g \in less : ~g.twin)
       /\ (t.harm = {} => \A g \in Chunks(less) : g.ptr[1] \in BucketPages(new))
  BY <1>3, <1>7 DEF Owned
<1>17. QED
  BY <1>8, <1>9, <1>11, <1>13, <1>14, <1>15, <1>16 DEF Owned
-----------------------------------------------------------------------------
\* The bucket has no page left; page, if it is metadata, is given back.
Emptied(s, t, b, page) ==
  /\ t.chain = s.chain /\ t.harm = s.harm \cup Loses(s, b)
  /\ t.mem.lists[b] = <<>>
  /\ \A other \in List : other # b => t.mem.lists[other] = s.mem.lists[other]
  /\ \A p : Taken(s.mem, p) /\ p # page => Taken(t.mem, p)

\* That is so when its page is all free: no chunk that is held is in it.
LEMMA EmptiedOwned ==
  ASSUME NEW s, NEW t, NEW hold, HeldOk(s, hold), t.mem \in MemType, NEW h \in Chunks(hold),
         NEW b \in Bucket, NEW k, AtPage(s.mem, b, k, h.ptr), Emptied(s, t, b, h.ptr[1]),
         Len(BackFree(s.mem, b, k, h.ptr)) = CAPACITY
  PROVE  Owned(t, hold \ {h}) /\ h.ptr[1] \notin ChunkPages(t.mem, hold \ {h})
<1> DEFINE m    == s.mem
           new  == t.mem
           less == hold \ {h}
           page == h.ptr[1]
           inUse == ChunkPages(m, hold)
           left == ChunkPages(new, less)
<1>1. b \in List /\ b \notin Metadata /\ \A c \in Bucket : c \in List
  BY ListsAre
<1>2. /\ hold \in SUBSET HeldType /\ m \in MemType /\ Owned(s, hold) /\ Owned(s, less)
      /\ k \in 1..Len(m.lists[b]) /\ m.lists[b][k].va = page
  BY FewerOwned DEF HeldOk, AtPage
<1>3. /\ t.chain = s.chain /\ t.harm = s.harm \cup Loses(s, b) /\ new.lists[b] = <<>>
      /\ \A other \in List : other # b => new.lists[other] = m.lists[other]
      /\ \A p : Taken(m, p) /\ p # page => Taken(new, p)
  BY DEF Emptied
<1>4. Chunks(less) = Chunks(hold) \ {h} /\ Ranges(less) \subseteq Ranges(hold)
  BY DEF Chunks, Ranges
<1>5. \A g \in Chunks(hold) : g.ptr[1] = page => g = h
  BY FullPage
<1>6. \A g \in Chunks(less) : g.ptr[1] # page
  BY <1>4, <1>5
<1>7. PagesOf(new, b) = {} /\ \A l \in List : l # b => PagesOf(new, l) = PagesOf(m, l)
  BY <1>3 DEF PagesOf
<1>8. BucketsApart(m)
  BY <1>2 DEF Owned
<1>9. ASSUME NEW c \in Bucket, c # b PROVE page \notin PagesOf(m, c)
  <2>1. SUFFICES ASSUME page \in PagesOf(m, c) PROVE FALSE
    OBVIOUS
  <2>2. PICK j \in 1..Len(m.lists[c]) : m.lists[c][j].va = page
    BY <1>1, <1>2, <2>1, PagesAre
  <2>3. \A d \in Bucket : \A i \in 1..Len(m.lists[d]) :
          m.lists[d][i].va = m.lists[b][k].va => d = b /\ i = k
    BY <1>2, <1>8, BucketsAre
  <2>4. QED
    BY <1>2, <1>9, <2>2, <2>3
<1>10. BucketPages(new) \subseteq BucketPages(m) /\ page \notin BucketPages(new)
  BY <1>1, <1>7, <1>9 DEF BucketPages
<1>11. left \subseteq inUse /\ page \notin left
  BY <1>4, <1>6, <1>10 DEF ChunkPages
<1>12. page \in inUse
  BY <1>2, InUse
<1>13. MetaApart(new, left)
  <2>1. MetaApart(m, inUse)
    BY <1>2 DEF Owned
  <2>2. ASSUME NEW l \in Metadata PROVE PagesOf(new, l) = PagesOf(m, l)
    BY <1>1, <1>7, ListsAre
  <2>3. ASSUME NEW l \in Metadata, NEW p \in PagesOf(new, l) PROVE Taken(new, p) /\ p \notin left
    <3>1. Taken(m, p) /\ p \notin inUse
      BY <2>1, <2>2, <2>3 DEF MetaApart
    <3>2. QED
      BY <1>3, <1>11, <1>12, <3>1
  <2>4. \A p \in left : p >= KERN_METADATA => Taken(new, p)
    BY <1>3, <1>11, <2>1 DEF MetaApart
  <2>5. \A i, l \in Metadata : i # l => PagesOf(new, i) \cap PagesOf(new, l) = {}
    BY <2>1, <2>2 DEF MetaApart
  <2>6. QED
    BY <2>3, <2>4, <2>5 DEF MetaApart
<1>14. \A c \in Bucket : DOMAIN m.lists[c] = 1..Len(m.lists[c]) /\ DOMAIN new.lists[c] = 1..Len(new.lists[c])
  BY <1>1, <1>2, ListType
<1>15. ASSUME NEW c \in Bucket, NEW j \in 1..Len(new.lists[c]) PROVE c # b /\ new.lists[c] = m.lists[c]
  <2>1. c # b
    <3>1. SUFFICES ASSUME c = b PROVE FALSE
      OBVIOUS
    <3>2. Len(new.lists[c]) = 0
      BY <1>3, <3>1
    <3>3. j \in 1..0
      BY <1>15, <3>2
    <3>4. QED
      BY <3>3
  <2>2. QED
    BY <1>1, <1>3, <2>1
<1>16. BucketsApart(new)
  <2>1. ASSUME NEW c \in Bucket, NEW j \in 1..Len(new.lists[c])
        PROVE  /\ IsInjective(new.lists[c][j].free)
               /\ j = 1 <=> new.lists[c][j].va < KERN_METADATA
    <3>1. new.lists[c] = m.lists[c] /\ j \in 1..Len(m.lists[c])
      BY <1>15
    <3>2. QED
      BY <1>2, <1>8, <3>1, BucketsAre
  <2>2. ASSUME NEW c \in Bucket, NEW j \in 1..Len(new.lists[c]),
               NEW d \in Bucket, NEW i \in 1..Len(new.lists[d]),
               new.lists[d][i].va = new.lists[c][j].va
        PROVE  d = c /\ i = j
    <3>1. new.lists[c] = m.lists[c] /\ new.lists[d] = m.lists[d] /\ j \in 1..Len(m.lists[c])
      BY <1>15
    <3>2. \A e \in Bucket : \A l \in 1..Len(m.lists[e]) :
            m.lists[e][l].va = m.lists[c][j].va => e = c /\ l = j
      BY <1>2, <1>8, <3>1, BucketsAre
    <3>3. QED
      BY <2>2, <3>1, <3>2
  <2>3. new \in MemType
    OBVIOUS
  <2> HIDE DEF new
  <2>4. QED
    BY <2>1, <2>2, <2>3, BucketsAgain
<1>17. ASSUME NEW g \in Chunks(less) PROVE NotFree(new, g.ptr)
  <2>1. NotFree(m, g.ptr)
    BY <1>2 DEF Owned
  <2>2. QED
    BY <1>14, <1>15, <2>1 DEF NotFree
<1>18. \A p \in left : p < KERN_METADATA => <<p, 1>> \in Spots(t.chain)
  BY <1>2, <1>3, <1>11 DEF Owned
<1>19. \A g \in Ranges(less) : <<g.va, g.len>> \in Spots(t.chain) /\ g.va \notin left
  BY <1>2, <1>3, <1>4, <1>11 DEF Owned
<1>20. \A g \in less : ~g.twin
  BY <1>2 DEF Owned
<1>21. ASSUME t.harm = {}, NEW g \in Chunks(less) PROVE g.ptr[1] \in BucketPages(new)
  <2>1. s.harm = {} /\ ~(Len(m.lists[b]) > 1)
    BY <1>3, <1>21 DEF Loses
  <2>2. g.ptr[1] \in BucketPages(m)
    BY <1>2, <2>1 DEF Owned
  <2>3. PICK c \in Bucket : g.ptr[1] \in PagesOf(m, c)
    BY <2>2 DEF BucketPages
  <2>4. c # b
    <3>1. SUFFICES ASSUME c = b PROVE FALSE
      OBVIOUS
    <3>2. PICK j \in 1..Len(m.lists[b]) : g.ptr[1] = m.lists[b][j].va
      BY <1>1, <1>2, <2>3, <3>1, PagesAre
    <3>3. Len(m.lists[b]) \in Nat
      BY <1>1, <1>2, ListType
    <3>4. j = k
      BY <1>2, <2>1, <3>3
    <3>5. QED
      BY <1>2, <1>6, <3>2, <3>4
  <2>5. QED
    BY <1>1, <1>7, <2>3, <2>4 DEF BucketPages
<1>22. Owned(t, less)
  BY <1>13, <1>16, <1>17, <1>18, <1>19, <1>20, <1>21 DEF Owned
<1>23. QED
  BY <1>11, <1>22
-----------------------------------------------------------------------------
\* A page of metadata, not the first of the bucket, is all free and given back,
\* and the list is gone.
DroppedList(m, new, b, k, ptr) ==
  /\ AtPage(m, b, k, ptr) /\ Len(BackFree(m, b, k, ptr)) = CAPACITY
  /\ new.lists[b] = <<>> /\ k # 1
  /\ \A other \in List : other # b => new.lists[other] = m.lists[other]
  /\ \A p : Taken(m, p) /\ p # ptr[1] => Taken(new, p)

\* What becomes of a bucket when a chunk of it is released.
LEMMA ReleaseCases ==
  ASSUME NEW m \in MemType, NEW b \in Bucket, BucketsApart(m), NEW ptr \in ChunkType,
         ptr[1] \in PagesOf(m, b)
  PROVE  /\ fmtlist_release(m, b, ptr) \in MemType /\ fmtlist_release(m, b, ptr).halt = m.halt
         /\ \E k : \/ GaveChunk(m, fmtlist_release(m, b, ptr), b, k, ptr)
                   \/ DroppedList(m, fmtlist_release(m, b, ptr), b, k, ptr)
<1> DEFINE k    == PlaceOf(m, b, ptr[1])
           page == m.lists[b][k]
           back == [page EXCEPT !.free = <<ptr[2]>> \o page.free]
           old  == m.lists[b]
           list == [old EXCEPT ![k] = back]
           new  == fmtlist_release(m, b, ptr)
<1>1. b \in List /\ \A c \in Bucket : c \in List
  BY ListsAre
<1>2. new.halt = m.halt /\ new \in MemType
  BY <1>1, ReleaseHalt
<1>3. /\ k \in 1..Len(m.lists[b]) /\ page.va = ptr[1] /\ list \in Seq(PageType)
      /\ back.va = page.va /\ back.free = <<ptr[2]>> \o page.free
      /\ \E rest \in Seq(PageType) :
           /\ new.lists = [m.lists EXCEPT ![b] = rest]
           /\ \/ rest = list /\ new.virmm = m.virmm
                 /\ (Len(back.free) = CAPACITY => ptr[1] < KERN_METADATA /\ ~(k > 1))
              \/ /\ Len(back.free) = CAPACITY /\ ptr[1] >= KERN_METADATA
                 /\ rest = <<>> /\ new.virmm.set = m.virmm.set \ {ptr[1] - KERN_METADATA}
              \/ /\ Len(back.free) = CAPACITY /\ ~(ptr[1] >= KERN_METADATA) /\ k > 1
                 /\ rest = RemoveAt(list, k) /\ new.virmm = m.virmm
  BY <1>1, ReleaseChunkIs, ZenonT(30)
<1>4. back.free = BackFree(m, b, k, ptr) /\ AtPage(m, b, k, ptr)
  BY <1>3 DEF BackFree, AtPage
<1> HIDE DEF new, k, page, back, list
<1>5. /\ m.lists \in [List -> Seq(PageType)] /\ old \in Seq(PageType)
      /\ ptr[1] \in Nat /\ KERN_METADATA \in Nat /\ Len(old) \in Nat
  BY <1>1, ListType, Sizes, AddrIs DEF ChunkType
<1>6. k = 1 <=> ptr[1] < KERN_METADATA
  BY <1>3, BucketsAre DEF page
<1>7. PICK rest \in Seq(PageType) :
           /\ new.lists = [m.lists EXCEPT ![b] = rest]
           /\ \/ rest = list /\ new.virmm = m.virmm
              \/ /\ Len(back.free) = CAPACITY /\ rest = <<>> /\ ptr[1] >= KERN_METADATA
                 /\ new.virmm.set = m.virmm.set \ {ptr[1] - KERN_METADATA}
              \/ ~(ptr[1] >= KERN_METADATA) /\ k > 1
  BY <1>3
<1>8. /\ new.lists[b] = rest
      /\ \A other \in List : other # b => new.lists[other] = m.lists[other]
  BY <1>1, <1>5, <1>7
<1>9. ~(~(ptr[1] >= KERN_METADATA) /\ k > 1)
  <2>1. k \in Int
    BY <1>3, <1>5
  <2>2. QED
    BY <1>5, <1>6, <2>1
<1>10. CASE rest = list /\ new.virmm = m.virmm
  <2>1. Len(list) = Len(old) /\ \A j \in 1..Len(old) : list[j] = IF j = k THEN back ELSE old[j]
    <3> HIDE DEF old
    <3>1. old \in Seq(PageType) /\ k \in 1..Len(old)
      BY <1>3, <1>5 DEF old
    <3>2. QED
      BY <3>1 DEF list
  <2>2. /\ back.va = old[k].va /\ back.free = <<ptr[2]>> \o old[k].free
    BY <1>3 DEF page
  <2>3. \A j \in 1..Len(old) :
          /\ list[j].va = old[j].va
          /\ list[j].free = IF j = k THEN <<ptr[2]>> \o old[j].free ELSE old[j].free
    BY <2>1, <2>2
  <2>4. /\ k \in 1..Len(old) /\ old[k].va = ptr[1]
    BY <1>3 DEF page
  <2>5. GaveChunk(m, new, b, k, ptr)
    BY <1>8, <1>10, <2>1, <2>3, <2>4 DEF GaveChunk
  <2>6. QED
    BY <1>2, <2>5 DEF new
<1>11. CASE /\ Len(back.free) = CAPACITY /\ rest = <<>> /\ ptr[1] >= KERN_METADATA
            /\ new.virmm.set = m.virmm.set \ {ptr[1] - KERN_METADATA}
  <2>1. ASSUME NEW p, Taken(m, p), p # ptr[1] PROVE Taken(new, p)
    <3>1. p \in Nat
      BY <2>1, TakenIs
    <3>2. \A i, j \in Nat : i # j => i - KERN_METADATA # j - KERN_METADATA
      BY <1>5
    <3>3. p - KERN_METADATA # ptr[1] - KERN_METADATA
      BY <1>5, <2>1, <3>1, <3>2, Zenon
    <3>4. QED
      BY <1>11, <2>1, <3>3 DEF Taken
  <2>2. k # 1
    BY <1>5, <1>6, <1>11
  <2>3. DroppedList(m, new, b, k, ptr)
    BY <1>4, <1>8, <1>11, <2>1, <2>2 DEF DroppedList
  <2>4. QED
    BY <1>2, <2>3 DEF new
<1>12. QED
  BY <1>7, <1>9, <1>10, <1>11

\* Memory in which a list is made empty.
Without(m, l) == [m EXCEPT !.lists[l] = <<>>]

\* The rest is what it was.
LEMMA WithoutIs ==
  ASSUME NEW m \in MemType, NEW l \in List
  PROVE  /\ Without(m, l).lists[l] = <<>>
         /\ Without(m, l).virmm = m.virmm /\ Without(m, l).halt = m.halt
         /\ \A other \in List : other # l => Without(m, l).lists[other] = m.lists[other]
<1> DEFINE new == Without(m, l)
<1>1. m.lists \in [List -> Seq(PageType)]
  BY ListType
<1>2. new.lists = [m.lists EXCEPT ![l] = <<>>] /\ new.virmm = m.virmm /\ new.halt = m.halt
  BY <1>1 DEF MemType, Without
<1>3. QED
  BY <1>1, <1>2

\* A chunk is freed, and with it perhaps its page.
LEMMA FreeOwned ==
  ASSUME NEW s, Sound(s), NEW hold \in SUBSET HeldType, Owned(s, hold), NEW h \in Chunks(hold),
         NEW b \in Bucket, h.ptr[1] \in PagesOf(s.mem, b), HeadUsed(s.mem, b),
         NEW junk \in Addr, NEW equal \in BOOLEAN,
         NEW t, t = FreeChunk(s, b, h.ptr, junk, equal), t.mem.halt = "no", Whole(t)
  PROVE  /\ Owned(t, hold \ {h}) /\ Whole(s) /\ s.mem.halt = "no" /\ HeadUsed(t.mem, b)
         /\ \A c \in Bucket : c # b => t.mem.lists[c] = s.mem.lists[c]
<1> DEFINE ptr  == h.ptr
           m    == fmtlist_release(s.mem, b, ptr)
           s1   == [s EXCEPT !.mem = m]
           lost == Lost(s, b, ptr)
           list == m.lists[b]
           less == hold \ {h}
<1>1. b \in List /\ \A c \in Bucket : c \in List
  BY ListsAre
<1>2. ptr \in ChunkType /\ s.mem \in MemType /\ BucketsApart(s.mem) /\ HeldOk(s, hold)
  BY HeldChunk, StateIs DEF Sound, Owned, HeldOk
<1>3. /\ m \in MemType /\ Sound(s1) /\ s1.mem = m /\ s1.chain = s.chain /\ s1.harm = s.harm
      /\ Sound(lost) /\ lost.chain = s.chain /\ lost.harm = s.harm \cup Loses(s, b)
      /\ lost.mem = [m EXCEPT !.lists[b] = <<>>]
      /\ list = <<>> /\ equal => t = Fail(lost, "bug")
      /\ list = <<>> /\ ~equal => t = lost
      /\ list # <<>> /\ Len(Head(list).free) = CAPACITY => t = VirRelease(lost, ptr[1], junk)
      /\ list # <<>> /\ Len(Head(list).free) # CAPACITY => t = s1
  BY <1>2, FreeChunkSound
<1>4. m.halt = s.mem.halt /\ \E k : GaveChunk(s.mem, m, b, k, ptr) \/ DroppedList(s.mem, m, b, k, ptr)
  BY <1>2, ReleaseCases
<1> HIDE DEF m, s1, lost
<1>5. lost.mem \in MemType
  BY <1>3, StateIs DEF Sound
<1>6. /\ lost.mem.lists[b] = <<>> /\ lost.mem.virmm = m.virmm /\ lost.mem.halt = m.halt
      /\ \A other \in List : other # b => lost.mem.lists[other] = m.lists[other]
  <2>1. lost.mem = Without(m, b)
    BY <1>3 DEF Without
  <2>2. m \in MemType
    BY <1>3
  <2>3. QED
    BY <1>1, <2>1, <2>2, WithoutIs
<1>7. ASSUME NEW k, GaveChunk(s.mem, m, b, k, ptr)
      PROVE  /\ Owned(t, less) /\ Whole(s) /\ s.mem.halt = "no" /\ HeadUsed(t.mem, b)
             /\ \A c \in Bucket : c # b => t.mem.lists[c] = s.mem.lists[c]
  <2>1. Owned(s1, less)
    BY <1>2, <1>3, <1>7, GaveOwned
  <2>2. /\ k \in 1..Len(s.mem.lists[b]) /\ s.mem.lists[b][k].va = ptr[1] /\ m.virmm = s.mem.virmm
        /\ \A other \in List : other # b => m.lists[other] = s.mem.lists[other]
        /\ Len(list) = Len(s.mem.lists[b])
        /\ \A j \in 1..Len(s.mem.lists[b]) :
             list[j].free = IF j = k THEN BackFree(s.mem, b, k, ptr) ELSE s.mem.lists[b][j].free
    BY <1>7 DEF GaveChunk, BackFree
  <2>3. /\ list # <<>> /\ Head(list) = list[1] /\ 1 \in 1..Len(s.mem.lists[b])
        /\ s.mem.lists[b] # <<>>
    <3>1. list \in Seq(PageType) /\ s.mem.lists[b] \in Seq(PageType)
      BY <1>1, <1>2, <1>3, ListType
    <3>2. Len(s.mem.lists[b]) \in Nat /\ Len(s.mem.lists[b]) # 0
      BY <2>2, <3>1
    <3> DEFINE old == s.mem.lists[b]
    <3>3. Len(list) = Len(old)
      BY <2>2
    <3> HIDE DEF list, old
    <3>4. list # <<>> /\ old # <<>> /\ Head(list) = list[1] /\ 1 \in 1..Len(old)
      BY <3>1, <3>2, <3>3 DEF old
    <3>5. QED
      BY <3>4 DEF old, list
  <2>4. CASE Len(list[1].free) # CAPACITY
    <3>1. t = s1
      BY <1>3, <2>3, <2>4
    <3>2. Len(list[1].free) < CAPACITY
      <4>1. list[1].free \in Seq(1..CAPACITY) /\ BucketsApart(m)
        BY <1>1, <1>3, <2>1, <2>2, <2>3, ListType DEF Owned
      <4>2. IsInjective(list[1].free)
        BY <1>3, <2>2, <2>3, <4>1, BucketsAre
      <4>3. CAPACITY \in Nat
        BY Sizes
      <4>4. Len(list[1].free) <= CAPACITY /\ Len(list[1].free) \in Nat
        BY <4>1, <4>2, <4>3, FitsIs
      <4>5. QED
        BY <2>4, <4>3, <4>4
    <3>3. QED
      BY <1>1, <1>3, <1>4, <2>1, <2>2, <3>1, <3>2 DEF HeadUsed, Whole
  <2>5. CASE Len(list[1].free) = CAPACITY
    <3>1. t = VirRelease(lost, ptr[1], junk)
      BY <1>3, <2>3, <2>5
    <3>2. Len(s.mem.lists[b][1].free) < CAPACITY /\ CAPACITY \in Nat
      BY <2>3, Sizes DEF HeadUsed
    <3>3. k = 1
      BY <2>2, <2>3, <2>5, <3>2
    <3>4. Len(BackFree(s.mem, b, k, ptr)) = CAPACITY /\ AtPage(s.mem, b, k, ptr)
      BY <2>2, <2>3, <2>5, <3>3 DEF AtPage
    <3>5. Emptied(s, lost, b, ptr[1])
      <4>1. \A p : Taken(s.mem, p) => Taken(lost.mem, p)
        BY <1>6, <2>2 DEF Taken
      <4>2. QED
        BY <1>3, <1>6, <2>2, <4>1 DEF Emptied
    <3>6. Owned(lost, less) /\ ptr[1] \notin ChunkPages(lost.mem, less)
      BY <1>2, <1>5, <3>4, <3>5, EmptiedOwned
    <3>7. ptr[1] \notin {g.va : g \in Ranges(less)}
      <4>1. ptr[1] \in ChunkPages(s.mem, hold) /\ Ranges(less) \subseteq Ranges(hold)
        BY DEF ChunkPages, Ranges
      <4>2. QED
        BY <4>1 DEF Owned
    <3> DEFINE va == ptr[1]
    <3>8. /\ va \notin ChunkPages(lost.mem, less) /\ va \notin {g.va : g \in Ranges(less)}
          /\ t = VirRelease(lost, va, junk)
      BY <3>1, <3>6, <3>7
    <3> HIDE DEF va
    <3>9. /\ Owned(t, less) /\ Whole(lost) /\ lost.mem.halt = "no"
          /\ \A c \in Bucket : t.mem.lists[c] = lost.mem.lists[c]
      BY <1>3, <3>6, <3>8, ReleasedOwned
    <3>10. QED
      BY <1>1, <1>3, <1>4, <1>6, <2>2, <3>9 DEF HeadUsed, Whole
  <2>6. QED
    BY <2>4, <2>5
<1>8. ASSUME NEW k, DroppedList(s.mem, m, b, k, ptr)
      PROVE  /\ Owned(t, less) /\ Whole(s) /\ s.mem.halt = "no" /\ HeadUsed(t.mem, b)
             /\ \A c \in Bucket : c # b => t.mem.lists[c] = s.mem.lists[c]
  <2>1. /\ AtPage(s.mem, b, k, ptr) /\ Len(BackFree(s.mem, b, k, ptr)) = CAPACITY
        /\ list = <<>>
        /\ \A other \in List : other # b => m.lists[other] = s.mem.lists[other]
        /\ \A p : Taken(s.mem, p) /\ p # ptr[1] => Taken(m, p)
    BY <1>8 DEF DroppedList
  <2>2. t = lost
    <3>1. Fail(lost, "bug").mem.halt # "no"
      BY <1>3, FailSound
    <3>2. QED
      BY <1>3, <2>1, <3>1
  <2>3. Emptied(s, lost, b, ptr[1])
    <3>1. \A p : Taken(m, p) => Taken(lost.mem, p)
      BY <1>6 DEF Taken
    <3>2. QED
      BY <1>3, <1>6, <2>1, <3>1 DEF Emptied
  <2>4. Owned(lost, less)
    BY <1>2, <1>5, <2>1, <2>3, EmptiedOwned
  <2>5. QED
    BY <1>1, <1>3, <1>4, <1>6, <2>1, <2>2, <2>4 DEF HeadUsed, Whole
<1>9. QED
  BY <1>4, <1>7, <1>8
-----------------------------------------------------------------------------
\* No area that has been dropped, and no page that has been lost, comes back:
\* not when areas are given out,
LEMMA VirAllocHarm ==
  ASSUME NEW s, Sound(s), NEW amount \in Amount
  PROVE  s.harm \subseteq VirAlloc(s, amount).harm
<1>1. s \in StateType
  BY DEF Sound
<1>2. CASE NoSpace(s.chain, break_, amount, MAX_END)
  BY <1>1, <1>2, VirAllocIs, StateIs
<1>3. CASE ~NoSpace(s.chain, break_, amount, MAX_END)
  BY <1>1, <1>3, VirAllocIs
<1>4. QED
  BY <1>2, <1>3

\* nor when they are taken back,
LEMMA VirReleaseHarm ==
  ASSUME NEW s, Sound(s), NEW va, NEW junk \in Addr
  PROVE  s.harm \subseteq VirRelease(s, va, junk).harm
<1>1. s \in StateType
  BY DEF Sound
<1>2. CASE ~CanRelease(s.chain, va)
  BY <1>1, <1>2, VirReleaseIs, StateIs
<1>3. CASE CanRelease(s.chain, va)
  BY <1>1, <1>3, VirReleaseIs
<1>4. QED
  BY <1>2, <1>3

\* nor with a first page of a bucket.
LEMMA WithPageHarm ==
  ASSUME NEW s, Sound(s), NEW b \in Bucket
  PROVE  s.harm \subseteq WithPage(s, b).harm
<1>1. CASE s.mem.lists[b] # <<>>
  BY <1>1 DEF WithPage
<1>2. CASE s.mem.lists[b] = <<>>
  <2> DEFINE s0 == [s EXCEPT !.mem = phy_alloc_page(@)]
  <2>1. Sound(s0) /\ s0.harm = s.harm /\ FirstPage(s, b).harm = VirAlloc(s0, 1).harm
    BY FirstPageIs
  <2>2. WithPage(s, b) = FirstPage(s, b)
    BY <1>2 DEF WithPage
  <2> HIDE DEF s0
  <2>3. s0.harm \subseteq VirAlloc(s0, 1).harm
    BY <2>1, Sizes, VirAllocHarm
  <2>4. QED
    BY <2>1, <2>2, <2>3
<1>3. QED
  BY <1>1, <1>2

\* The heads of all buckets.
HeadsUsed(m) == \A b \in Bucket : HeadUsed(m, b)

\* dyn_alloc of a chunk: what was apart stays apart, with one chunk more.
LEMMA AllocChunkOwned ==
  ASSUME NEW s, Sound(s), NEW hold, Whole(s) => Owned(s, hold) /\ HeadsUsed(s.mem), NEW b \in Bucket,
         NEW t, t = AllocChunk(s, b), t.mem.halt = "no", Whole(t), NEW ptr,
         ptr = NextChunk(WithPage(s, b).mem, b), NEW h,
         h = [ptr |-> ptr, twin |-> [ptr |-> ptr, twin |-> FALSE] \in hold]
  PROVE  Owned(t, hold \cup {h}) /\ HeadsUsed(t.mem)
<1> DEFINE s1  == WithPage(s, b)
           m1  == s1.mem
           m2  == WithRoom(m1, b)
           new == t.mem
<1>1. b \in List /\ \A c \in Bucket : c \in List
  BY ListsAre
<1>2. Sound(s1) /\ Sound(t) /\ ptr \in ChunkType
      /\ new = fmtlist_alloc(m1, b) /\ t.chain = s1.chain /\ t.harm = s1.harm
  BY AllocChunkSound
<1>3. m1 \in MemType /\ s1.chain \in Seq(AreaType) /\ (Whole(s1) => InOrder(s1.chain)) /\ new \in MemType
  BY <1>2, StateIs DEF Sound
<1>4. s.harm \subseteq s1.harm
  BY WithPageHarm
<1>5. Whole(s) /\ Whole(s1) /\ Owned(s, hold) /\ HeadsUsed(s.mem)
  BY <1>2, <1>4 DEF Whole
<1>6. fmtlist_alloc(m1, b).halt = "no"
  BY <1>2
<1>7. ptr = NextChunk(m1, b)
  OBVIOUS
<1> HIDE DEF s1
<1> DEFINE n2 == fmtlist_alloc(m1, b)
<1>8. /\ n2 \in MemType /\ n2.halt = m2.halt /\ n2.virmm = m2.virmm
      /\ \A other \in List : other # b => n2.lists[other] = m2.lists[other]
      /\ Len(n2.lists[b]) = Len(m2.lists[b])
      /\ \A j \in 1..Len(m2.lists[b]) : n2.lists[b][j].va = m2.lists[b][j].va
      /\ \E k \in 1..Len(m2.lists[b]) :
           /\ m2.lists[b][k].free # <<>>
           /\ n2.lists[b][k].free = Tail(m2.lists[b][k].free)
           /\ NextChunk(m1, b) = <<m2.lists[b][k].va, Head(m2.lists[b][k].free)>>
           /\ \A j \in 1..Len(m2.lists[b]) : j # k => n2.lists[b][j] = m2.lists[b][j]
           /\ k # 1 => m2.lists[b][1].free = <<>>
  BY <1>1, <1>3, TakePages
<1>9. n2 = new
  BY <1>2
<1>10. m2.halt = "no" /\ m1.halt = "no"
  <2>1. m2.halt = "no"
    BY <1>6, <1>8
  <2>2. QED
    BY <1>1, <1>3, <1>6, <2>1, HaltedBefore
<1> HIDE DEF n2
<1>11. /\ Owned(s1, hold) /\ m1.lists[b] # <<>>
       /\ \A c \in Bucket : c # b => m1.lists[c] = s.mem.lists[c]
  <2>1. CASE s.mem.lists[b] # <<>>
    <3>1. s1 = s
      BY <2>1 DEF WithPage, s1
    <3>2. QED
      BY <1>5, <2>1, <3>1
  <2>2. CASE s.mem.lists[b] = <<>>
    <3>1. s1 = FirstPage(s, b)
      BY <2>2 DEF WithPage, s1
    <3>2. QED
      BY <1>5, <1>10, <2>2, <3>1, FirstPageOwned
  <2>3. QED
    BY <2>1, <2>2
<1> DEFINE s2 == [mem |-> m2, chain |-> s1.chain, harm |-> s1.harm]
<1>12. s2.mem = m2 /\ s2.chain = s1.chain /\ s2.harm = s1.harm
  OBVIOUS
<1>13. m2 \in MemType
  BY <1>1, <1>3, RoomIs
<1> HIDE DEF m2, s2
<1>14. Owned(s2, hold) /\ \A c \in Bucket : c # b => m2.lists[c] = m1.lists[c]
  <2>1. s2.mem = WithRoom(s1.mem, b) /\ s2.mem.halt = "no"
    BY <1>10, <1>12 DEF m2
  <2>2. /\ s1.mem \in MemType /\ s1.chain \in Seq(AreaType) /\ InOrder(s1.chain)
        /\ Owned(s1, hold) /\ s1.mem.lists[b] # <<>>
        /\ s2.chain = s1.chain /\ s2.harm = s1.harm
    BY <1>3, <1>5, <1>11, <1>12
  <2>3. GivenRoom(s1, s2, b) /\ Owned(s1, hold)
    BY <2>1, <2>2 DEF GivenRoom
  <2>4. Owned(s2, hold) /\ \A c \in Bucket : c # b => s2.mem.lists[c] = s1.mem.lists[c]
    BY <2>1, <2>3, RoomOwned
  <2>5. QED
    BY <1>12, <2>4
<1>15. PICK k \in 1..Len(m2.lists[b]) : TookChunk(m2, new, b, k, ptr)
  BY <1>7, <1>8, <1>9 DEF TookChunk
<1>16. Owned(t, hold \cup {h}) /\ HeadUsed(new, b)
  <2>1. TookChunk(s2.mem, t.mem, b, k, ptr) /\ t.chain = s2.chain /\ t.harm = s2.harm /\ s2.mem \in MemType
    BY <1>2, <1>12, <1>13, <1>15
  <2>2. QED
    BY <1>2, <1>3, <1>14, <2>1, TakeOwned
<1>17. ASSUME NEW c \in Bucket, c # b PROVE HeadUsed(new, c)
  <2>1. new.lists[c] = s.mem.lists[c]
    BY <1>1, <1>8, <1>9, <1>11, <1>14, <1>17
  <2>2. QED
    BY <1>5, <2>1 DEF HeadsUsed, HeadUsed
<1>18. QED
  BY <1>16, <1>17 DEF HeadsUsed

\* dyn_alloc of pages: what was apart stays apart, with a range more.
LEMMA AllocPagesOwned ==
  ASSUME NEW s, Sound(s), NEW hold, Whole(s) => Owned(s, hold) /\ HeadsUsed(s.mem), NEW len \in Amount,
         NEW t, NEW h, GivenPages(s, t, len, hold, h), t.mem.halt = "no", Whole(t)
  PROVE  Owned(t, hold \cup {h}) /\ HeadsUsed(t.mem)
<1>1. AllocPages(s, len).harm = VirAlloc(s, len).harm /\ t = AllocPages(s, len)
  BY AllocPagesSound DEF GivenPages
<1>2. s.harm \subseteq t.harm
  BY <1>1, VirAllocHarm
<1>3. Whole(s) /\ Owned(s, hold) /\ HeadsUsed(s.mem)
  BY <1>2 DEF Whole
<1>4. Owned(t, hold \cup {h}) /\ \A c \in Bucket : t.mem.lists[c] = s.mem.lists[c]
  BY <1>3, PagesOwned
<1>5. QED
  BY <1>3, <1>4 DEF HeadsUsed, HeadUsed
-----------------------------------------------------------------------------
\* Nothing that has been dropped comes back with a chunk that is freed.
LEMMA FreeChunkHarm ==
  ASSUME NEW s, Sound(s), NEW b \in Bucket, NEW ptr \in ChunkType, NEW junk \in Addr,
         NEW equal \in BOOLEAN
  PROVE  s.harm \subseteq FreeChunk(s, b, ptr, junk, equal).harm
<1> DEFINE m    == fmtlist_release(s.mem, b, ptr)
           s1   == [s EXCEPT !.mem = m]
           lost == Lost(s, b, ptr)
           list == m.lists[b]
           new  == FreeChunk(s, b, ptr, junk, equal)
<1>1. /\ m \in MemType /\ Sound(s1) /\ Sound(new)
      /\ s1.mem = m /\ s1.chain = s.chain /\ s1.harm = s.harm
      /\ Sound(lost) /\ lost.chain = s.chain /\ lost.harm = s.harm \cup Loses(s, b)
      /\ lost.mem = [m EXCEPT !.lists[b] = <<>>]
      /\ list = <<>> /\ equal => new = Fail(lost, "bug")
      /\ list = <<>> /\ ~equal => new = lost
      /\ list # <<>> /\ Len(Head(list).free) = CAPACITY => new = VirRelease(lost, ptr[1], junk)
      /\ list # <<>> /\ Len(Head(list).free) # CAPACITY => new = s1
  BY FreeChunkSound
<1> HIDE DEF m, s1, lost, list, new
<1>2. Fail(lost, "bug").harm = lost.harm
  BY <1>1, StateIs DEF Sound
<1>3. lost.harm \subseteq VirRelease(lost, ptr[1], junk).harm
  BY <1>1, VirReleaseHarm
<1>4. QED
  BY <1>1, <1>2, <1>3 DEF new

\* What the program has: it is owned, if no area has been dropped.
Kept(s, hold) == Whole(s) => Owned(s, hold) /\ HeadsUsed(s.mem)

\* dyn_free of a chunk: what is left of what was apart stays apart.
LEMMA FreeChunkOwned ==
  ASSUME NEW s, Sound(s), NEW hold \in SUBSET HeldType, Kept(s, hold), NEW h \in Chunks(hold),
         NEW b \in Bucket, h.ptr[1] \in PagesOf(s.mem, b), NEW junk \in Addr,
         NEW equal \in BOOLEAN,
         NEW t, t = FreeChunk(s, b, h.ptr, junk, equal), t.mem.halt = "no"
  PROVE  Kept(t, hold \ {h})
<1> SUFFICES ASSUME Whole(t) PROVE Owned(t, hold \ {h}) /\ HeadsUsed(t.mem)
  BY DEF Kept
<1>1. h.ptr \in ChunkType
  BY HeldChunk
<1>2. s.harm \subseteq t.harm
  BY <1>1, FreeChunkHarm
<1>3. Owned(s, hold) /\ HeadsUsed(s.mem) /\ HeadUsed(s.mem, b)
  BY <1>2 DEF Kept, Whole, HeadsUsed
<1>4. /\ Owned(t, hold \ {h}) /\ HeadUsed(t.mem, b)
      /\ \A c \in Bucket : c # b => t.mem.lists[c] = s.mem.lists[c]
  BY <1>3, FreeOwned
<1>5. QED
  BY <1>3, <1>4 DEF HeadsUsed, HeadUsed

\* Ranges that a program holds do not begin at the same page.
LEMMA RangeOnce ==
  ASSUME NEW s, Sound(s), Whole(s), NEW hold \in SUBSET HeldType, Owned(s, hold),
         NEW g \in Ranges(hold), NEW h \in Ranges(hold)
  PROVE  /\ g.va \in Addr /\ g.len \in Amount
         /\ \/ g = h
            \/ g.va + g.len <= h.va
            \/ h.va + h.len <= g.va
<1>1. ~g.twin /\ ~h.twin /\ <<g.va, g.len>> \in Spots(s.chain) /\ <<h.va, h.len>> \in Spots(s.chain)
  BY DEF Owned, Ranges
<1>2. g \in [va : Addr, len : Amount, twin : BOOLEAN] /\ h \in [va : Addr, len : Amount, twin : BOOLEAN]
  <2>1. \A r \in [ptr : ChunkType, twin : BOOLEAN] : "va" \notin DOMAIN r
    OBVIOUS
  <2>2. QED
    BY <2>1 DEF Ranges, HeldType
<1>3. /\ g = [va |-> g.va, len |-> g.len, twin |-> g.twin] /\ g.twin = FALSE
      /\ h = [va |-> h.va, len |-> h.len, twin |-> h.twin] /\ h.twin = FALSE
  BY <1>1, <1>2
<1>4. s.chain \in Seq(AreaType) /\ InOrder(s.chain)
  BY StateIs DEF Sound
<1> DEFINE x == <<g.va, g.len>>
           y == <<h.va, h.len>>
<1>5. x = y \/ x[1] + x[2] <= y[1] \/ y[1] + y[2] <= x[1]
  <2> HIDE DEF x, y
  <2>1. x \in Spots(s.chain) /\ y \in Spots(s.chain)
    BY <1>1 DEF x, y
  <2>2. QED
    BY <1>4, <2>1, SpotsIs
<1>6. CASE x = y
  <2>1. g.va = h.va /\ g.len = h.len
    BY <1>6
  <2>2. g = h
    BY <1>3, <2>1
  <2>3. QED
    BY <1>2, <2>2
<1>7. QED
  BY <1>2, <1>5, <1>6

\* dyn_free of pages: they are taken back from the areas, and nothing else is.
LEMMA FreePagesOwned ==
  ASSUME NEW s, Sound(s), NEW hold \in SUBSET HeldType, Kept(s, hold), NEW h \in Ranges(hold),
         NEW junk \in Addr, NEW t, t = VirRelease(s, h.va, junk), t.mem.halt = "no"
  PROVE  Kept(t, hold \ {h})
<1> SUFFICES ASSUME Whole(t) PROVE Owned(t, hold \ {h}) /\ HeadsUsed(t.mem)
  BY DEF Kept
<1> DEFINE less == hold \ {h}
<1>1. s.harm \subseteq t.harm
  BY VirReleaseHarm
<1>2. Whole(s) /\ Owned(s, hold) /\ HeadsUsed(s.mem)
  BY <1>1 DEF Kept, Whole
<1>3. Owned(s, less) /\ less \in SUBSET hold
  BY <1>2, FewerOwned
<1>4. h.va \notin ChunkPages(s.mem, less)
  <2>1. h.va \notin ChunkPages(s.mem, hold)
    BY <1>2 DEF Owned
  <2>2. QED
    BY <2>1 DEF ChunkPages, Chunks
<1>5. ASSUME NEW g \in Ranges(less) PROVE g.va # h.va
  <2>1. g \in Ranges(hold) /\ g # h
    BY <1>5 DEF Ranges
  <2>2. /\ g.va \in Addr /\ g.len \in Amount /\ h.va \in Addr /\ h.len \in Amount
        /\ g.va + g.len <= h.va \/ h.va + h.len <= g.va
    BY <1>2, <2>1, RangeOnce
  <2>3. QED
    BY <2>2, AddrIs, AmountIs
<1>6. h.va \notin {g.va : g \in Ranges(less)}
  BY <1>5
<1> HIDE DEF less
<1>7. Owned(t, less) /\ \A c \in Bucket : t.mem.lists[c] = s.mem.lists[c]
  BY <1>3, <1>4, <1>6, ReleasedOwned
<1>8. QED
  BY <1>2, <1>7 DEF HeadsUsed, HeadUsed, less
-----------------------------------------------------------------------------
\* Pages of the address space are counted without wrapping.
LEMMA PagesAtIs ==
  ASSUME NEW va \in Addr, NEW len \in Amount, va + len <= MAX_END, NEW p \in PagesAt(va, len)
  PROVE  p \in Nat /\ va <= p /\ p < va + len /\ p < KERN_METADATA
<1>1. PICK n \in 0..(len - 1) : p = Wrap(va + n)
  BY DEF PagesAt
<1>2. va \in Nat /\ len \in Nat /\ n \in Nat /\ n < len /\ MAX_END \in Nat /\ KERN_METADATA \in Nat
  BY AddrIs, AmountIs, Sizes
<1>3. va + n \in Nat /\ va + n < MAX_END /\ MAX_END < PAGES
  BY <1>2, Sizes, AddrIs
<1>4. va + n \in Addr
  BY <1>3, Sizes, AddrIs
<1>5. p = va + n
  BY <1>1, <1>4, WrapIs, AddrIs
<1>6. QED
  BY <1>2, <1>3, <1>5, Sizes

\* A chunk is not in a range of pages.
LEMMA ChunkNotInRange ==
  ASSUME NEW s, Sound(s), Whole(s), NEW hold \in SUBSET HeldType, Owned(s, hold),
         NEW g \in Chunks(hold), NEW h \in Ranges(hold)
  PROVE  g.ptr[1] \notin PagesAt(h.va, h.len)
<1> DEFINE page == g.ptr[1]
           x == <<h.va, h.len>>
           y == <<page, 1>>
<1>1. /\ x \in Spots(s.chain) /\ h.va \notin ChunkPages(s.mem, hold)
      /\ page \in ChunkPages(s.mem, hold)
      /\ page < KERN_METADATA => y \in Spots(s.chain)
  BY DEF Owned, ChunkPages
<1>2. s.chain \in Seq(AreaType) /\ InOrder(s.chain)
  BY StateIs DEF Sound
<1>3. h.va \in Addr /\ h.len \in Amount
  BY RangeOnce
<1>4. h.va + h.len <= MAX_END
  <2>1. x[1] + x[2] <= MAX_END
    <3> HIDE DEF x
    <3>1. QED
      BY <1>1, <1>2, SpotsIs
  <2>2. QED
    BY <2>1
<1>5. SUFFICES ASSUME page \in PagesAt(h.va, h.len) PROVE FALSE
  OBVIOUS
<1>6. page \in Nat /\ h.va <= page /\ page < h.va + h.len /\ page < KERN_METADATA
  <2> HIDE DEF page
  <2>1. QED
    BY <1>3, <1>4, <1>5, PagesAtIs
<1>7. x = y \/ x[1] + x[2] <= y[1] \/ y[1] + y[2] <= x[1]
  <2>1. x \in Spots(s.chain) /\ y \in Spots(s.chain)
    BY <1>1, <1>6
  <2> HIDE DEF x, y
  <2>2. QED
    BY <1>2, <2>1, SpotsIs
<1>8. h.va # page
  BY <1>1
<1> HIDE DEF page
<1>9. QED
  BY <1>3, <1>6, <1>7, <1>8, AddrIs, AmountIs

\* What is owned is apart.
LEMMA OwnedApart ==
  ASSUME NEW s, Sound(s), Whole(s), NEW hold \in SUBSET HeldType, Owned(s, hold),
         NEW g \in hold, NEW h \in hold, g # h
  PROVE  CellsOf(g) \cap CellsOf(h) = {}
<1>1. ASSUME NEW r \in hold
      PROVE  \/ r \in Chunks(hold) /\ r \notin Ranges(hold) /\ CellsOf(r) = {r.ptr}
             \/ /\ r \in Ranges(hold) /\ r \notin Chunks(hold)
                /\ CellsOf(r) = PagesAt(r.va, r.len) \X (0..CAPACITY)
  <2>1. \A q \in [va : Addr, len : Amount, twin : BOOLEAN] : "ptr" \notin DOMAIN q /\ "va" \in DOMAIN q
    OBVIOUS
  <2>2. \A q \in [ptr : ChunkType, twin : BOOLEAN] : "va" \notin DOMAIN q /\ "ptr" \in DOMAIN q
    OBVIOUS
  <2>3. QED
    BY <2>1, <2>2 DEF HeldType, Chunks, Ranges, CellsOf
<1>2. ASSUME NEW a \in Chunks(hold), NEW r \in Ranges(hold), a \in hold, r \in hold
      PROVE  CellsOf(a) \cap CellsOf(r) = {}
  <2>1. a.ptr[1] \notin PagesAt(r.va, r.len)
    BY <1>2, ChunkNotInRange
  <2>2. CellsOf(a) = {a.ptr} /\ CellsOf(r) = PagesAt(r.va, r.len) \X (0..CAPACITY)
    BY <1>1, <1>2
  <2>3. QED
    BY <2>1, <2>2
<1>3. CASE g \in Chunks(hold) /\ h \in Chunks(hold)
  <2>1. g.ptr # h.ptr
    BY <1>3, HeldOnce
  <2>2. QED
    BY <1>1, <1>3, <2>1
<1>4. CASE g \in Ranges(hold) /\ h \in Ranges(hold)
  <2>1. /\ g.va \in Addr /\ g.len \in Amount /\ h.va \in Addr /\ h.len \in Amount
        /\ g.va + g.len <= h.va \/ h.va + h.len <= g.va
    BY <1>4, RangeOnce
  <2>2. \A r \in Ranges(hold) : r.va + r.len <= MAX_END
    <3> TAKE r \in Ranges(hold)
    <3> DEFINE x == <<r.va, r.len>>
    <3>1. x \in Spots(s.chain) /\ s.chain \in Seq(AreaType) /\ InOrder(s.chain)
      BY StateIs DEF Sound, Owned
    <3>2. x[1] + x[2] <= MAX_END
      <4> HIDE DEF x
      <4>1. QED
        BY <3>1, SpotsIs
    <3>3. QED
      BY <3>2
  <2>3. ASSUME NEW p \in PagesAt(g.va, g.len), p \in PagesAt(h.va, h.len) PROVE FALSE
    <3>1. p \in Nat /\ g.va <= p /\ p < g.va + g.len
      BY <1>4, <2>1, <2>2, PagesAtIs
    <3>2. p \in Nat /\ h.va <= p /\ p < h.va + h.len
      BY <1>4, <2>1, <2>2, <2>3, PagesAtIs
    <3>3. QED
      BY <2>1, <3>1, <3>2, AddrIs, AmountIs
  <2>4. CellsOf(g) = PagesAt(g.va, g.len) \X (0..CAPACITY) /\ CellsOf(h) = PagesAt(h.va, h.len) \X (0..CAPACITY)
    BY <1>1, <1>4
  <2>5. QED
    BY <2>3, <2>4
<1>5. QED
  BY <1>1, <1>2, <1>3, <1>4
-----------------------------------------------------------------------------
(***************************************************************************)
(* The inductive invariant: a program that runs owns what it holds, as     *)
(* long as no area has been dropped, and after its end it holds nothing.   *)
(***************************************************************************)
HeldInv ==
  /\ HeapInv
  /\ Running => Kept(Now, held)
  /\ ~Running => held = {}

\* What is kept in a state is kept when the state is the next one.
LEMMA NextKept ==
  ASSUME NEW s, s.mem = mem', s.chain = chain', s.harm = harm', Kept(s, held')
  PROVE  Kept(Now, held)'
<1>1. Whole(Now)' <=> Whole(s)
  BY DEF Whole, Now
<1>2. Owned(s, held') => Owned(Now, held)'
  BY DEF Now, Owned
<1>3. HeadsUsed(s.mem) => HeadsUsed(Now.mem)'
  BY DEF Now, HeadsUsed, HeadUsed
<1>4. QED
  BY <1>1, <1>2, <1>3 DEF Kept

\* A call keeps it that keeps what the program has.
LEMMA BecomesHeld ==
  ASSUME HeapInv, Ready, NEW s, Sound(s), NEW hold \in SUBSET HeldType, Becomes(s, hold),
         s.mem.halt = "no" => Kept(s, hold)
  PROVE  HeldInv'
<1>1. HeapInv'
  BY BecomesKeeps
<1>2. phase' = "runs" /\ harm' = s.harm
  BY DEF Becomes, Ready
<1>3. CASE s.mem.halt = "no"
  <2>1. mem' = s.mem /\ chain' = s.chain /\ held' = hold
    BY <1>3 DEF Becomes
  <2>2. Kept(s, held')
    BY <1>3, <2>1
  <2>3. Kept(Now, held)'
    BY <1>2, <2>1, <2>2, NextKept
  <2>4. Running'
    BY <1>2, <1>3, <2>1 DEF Running
  <2>5. QED
    BY <1>1, <2>3, <2>4 DEF HeldInv
<1>4. CASE s.mem.halt # "no"
  <2>1. mem' = [init_memory EXCEPT !.halt = s.mem.halt] /\ held' = {}
    BY <1>4 DEF Becomes
  <2>2. mem'.halt = s.mem.halt
    BY <2>1, FreshIs DEF MemType
  <2>3. ~Running'
    BY <1>4, <2>2 DEF Running
  <2>4. QED
    BY <1>1, <2>1, <2>3 DEF HeldInv
<1>5. QED
  BY <1>3, <1>4

\* It holds when exec has loaded the program.
LEMMA HeldStarts == Init => HeldInv
<1> SUFFICES ASSUME Init PROVE HeldInv
  OBVIOUS
<1>1. HeapInv /\ held = {} /\ mem \in MemType
  BY HeapStarts, NowIs DEF HeapInv, Init
<1>2. \A l \in List : mem.lists[l] = <<>>
  <2>1. mem.lists = init_memory.lists
    <3>1. PICK m \in {init_memory, Forked} : mem = Loaded(m)
      BY DEF Init
    <3>2. QED
      BY <3>1, LoadedIs
  <2>2. init_memory.lists = [l \in List |-> <<>>]
    BY DEF init_memory
  <2>3. QED
    BY <2>1, <2>2
<1>3. \A l \in List : DOMAIN mem.lists[l] = {} /\ PagesOf(mem, l) = {}
  BY <1>2 DEF PagesOf
<1>4. Chunks(held) = {} /\ Ranges(held) = {}
  BY <1>1 DEF Chunks, Ranges
<1>5. ChunkPages(mem, held) = {} /\ BucketPages(mem) = {}
  BY <1>3, <1>4, ListsAre DEF ChunkPages, BucketPages
<1>6. MetaApart(mem, {})
  BY <1>3, ListsAre DEF MetaApart
<1>7. BucketsApart(mem)
  BY <1>3, ListsAre DEF BucketsApart
<1>8. HeadsUsed(mem)
  BY <1>2, ListsAre DEF HeadsUsed, HeadUsed
<1>9. Owned(Now, held)
  BY <1>1, <1>4, <1>5, <1>6, <1>7, NowIs DEF Owned
<1>10. QED
  BY <1>1, <1>8, <1>9, NowIs DEF HeldInv, Kept

\* Every call keeps it, and exit does.
LEMMA HeldKeeps == HeldInv /\ [Next]_vars => HeldInv'
<1> SUFFICES ASSUME HeldInv, [Next]_vars PROVE HeldInv'
  OBVIOUS
<1>1. HeapInv /\ Sound(Now) /\ held \in SUBSET HeldType
  BY DEF HeldInv, HeapInv
<1>2. Ready => Kept(Now, held)
  BY DEF HeldInv, Ready, Running
<1>3. ASSUME NEW b \in Bucket, CallAllocChunk(b) PROVE HeldInv'
  <2> DEFINE ptr == NextChunk(WithPage(Now, b).mem, b)
             h   == Chunk(ptr)
             s   == AllocChunk(Now, b)
  <2>1. Ready /\ Becomes(s, held \cup {h})
    BY <1>3 DEF CallAllocChunk
  <2>2. Sound(s) /\ ptr \in ChunkType
    BY <1>1, AllocChunkSound
  <2>3. h = [ptr |-> ptr, twin |-> [ptr |-> ptr, twin |-> FALSE] \in held]
    BY Zenon DEF Chunk
  <2>4. Whole(Now) => Owned(Now, held) /\ HeadsUsed(Now.mem)
    BY <1>2, <2>1 DEF Kept
  <2> HIDE DEF h
  <2>5. s.mem.halt = "no" /\ Whole(s) => Owned(s, held \cup {h}) /\ HeadsUsed(s.mem)
    BY <1>1, <2>3, <2>4, AllocChunkOwned
  <2> HIDE DEF s, ptr
  <2>6. held \cup {h} \in SUBSET HeldType
    BY <1>1, <2>2, HoldIs DEF h
  <2>7. s.mem.halt = "no" => Kept(s, held \cup {h})
    BY <2>5 DEF Kept
  <2>8. QED
    BY <1>1, <2>1, <2>2, <2>6, <2>7, BecomesHeld
<1>4. ASSUME NEW len \in Large, CallAllocPages(len) PROVE HeldInv'
  <2> DEFINE va == AllocVa(chain, break_, len)
             h  == Pages(va, len)
             s  == AllocPages(Now, len)
  <2>1. Ready /\ Becomes(s, held \cup {h})
    BY <1>4 DEF CallAllocPages
  <2>2. len \in Amount
    BY Sizes
  <2>3. Sound(s) /\ va \in Addr
    BY <1>1, <2>2, AllocPagesSound, NowIs
  <2>4. GivenPages(Now, s, len, held, h)
    <3>1. h = [va |-> va, len |-> len, twin |-> [va |-> va, len |-> len, twin |-> FALSE] \in held]
      BY Zenon DEF Pages
    <3>2. Now.chain = chain
      BY NowIs
    <3> HIDE DEF h
    <3>3. QED
      BY <3>1, <3>2 DEF GivenPages
  <2>5. Whole(Now) => Owned(Now, held) /\ HeadsUsed(Now.mem)
    BY <1>2, <2>1 DEF Kept
  <2>6. held \cup {h} \in SUBSET HeldType
    BY <1>1, <2>2, <2>3, HoldIs
  <2> HIDE DEF s, va, h
  <2>7. s.mem.halt = "no" => Kept(s, held \cup {h})
    BY <1>1, <2>2, <2>4, <2>5, AllocPagesOwned DEF Kept
  <2>8. QED
    BY <1>1, <2>1, <2>3, <2>6, <2>7, BecomesHeld
<1>5. ASSUME NEW h \in held, CallFreeChunk(h) PROVE HeldInv'
  <2>1. Ready /\ h \in Chunks(held)
    BY <1>5 DEF CallFreeChunk, Chunks
  <2>2. h.ptr \in ChunkType
    BY <1>1, <2>1, HeldChunk
  <2>3. ASSUME NEW b \in Holders(Now, h.ptr), NEW junk \in Junk, NEW equal \in BOOLEAN,
               Becomes(FreeChunk(Now, b, h.ptr, junk, equal), held \ {h})
        PROVE  HeldInv'
    <3> DEFINE s == FreeChunk(Now, b, h.ptr, junk, equal)
    <3>1. b \in Bucket /\ h.ptr[1] \in PagesOf(Now.mem, b) /\ junk \in Addr
      BY Sizes DEF Holders
    <3>2. Sound(s)
      BY <1>1, <2>2, <3>1, FreeChunkSound
    <3>3. Kept(Now, held)
      BY <1>2, <2>1
    <3> HIDE DEF s
    <3>4. s = FreeChunk(Now, b, h.ptr, junk, equal)
      BY DEF s
    <3>5. s.mem.halt = "no" => Kept(s, held \ {h})
      BY <1>1, <2>1, <3>1, <3>3, <3>4, FreeChunkOwned
    <3>6. QED
      BY <1>1, <2>1, <2>3, <3>2, <3>4, <3>5, BecomesHeld
  <2>4. CASE Becomes(Fail(Now, "bug"), {})
    <3> DEFINE s == Fail(Now, "bug")
    <3>1. Sound(s) /\ s.mem.halt # "no"
      BY <1>1, FailSound
    <3> HIDE DEF s
    <3>2. QED
      BY <1>1, <2>1, <2>4, <3>1, BecomesHeld DEF s
  <2>5. QED
    BY <1>5, <2>3, <2>4 DEF CallFreeChunk
<1>6. ASSUME NEW h \in held, CallFreePages(h) PROVE HeldInv'
  <2>1. PICK junk \in Junk : Becomes(VirRelease(Now, h.va, junk), held \ {h})
    BY <1>6 DEF CallFreePages
  <2>2. Ready /\ h \in Ranges(held) /\ junk \in Addr
    BY <1>6, Sizes DEF CallFreePages, Ranges
  <2> DEFINE s == VirRelease(Now, h.va, junk)
  <2>3. Sound(s)
    BY <1>1, <2>2, VirReleaseSound
  <2> HIDE DEF s
  <2>4. Kept(Now, held) /\ s = VirRelease(Now, h.va, junk)
    BY <1>2, <2>2 DEF s
  <2>5. s.mem.halt = "no" => Kept(s, held \ {h})
    BY <1>1, <2>2, <2>4, FreePagesOwned
  <2>6. QED
    BY <1>1, <2>1, <2>2, <2>3, <2>4, <2>5, BecomesHeld
<1>7. CASE Exit
  <2>1. HeapInv'
    BY <1>1, HeapKeeps
  <2>2. ~Running' /\ held' = {}
    BY <1>7 DEF Exit, Running
  <2>3. QED
    BY <2>1, <2>2 DEF HeldInv
<1>8. CASE UNCHANGED vars
  <2>1. HeapInv'
    BY <1>1, HeapKeeps
  <2>2. /\ mem' = mem /\ chain' = chain /\ harm' = harm /\ held' = held /\ phase' = phase
    BY <1>8 DEF vars
  <2>3. Now.mem = mem' /\ Now.chain = chain' /\ Now.harm = harm'
    BY <2>2, NowIs
  <2> DEFINE s == Now
  <2>4. s.mem = mem' /\ s.chain = chain' /\ s.harm = harm' /\ (Running => Kept(s, held'))
    BY <2>2, <2>3 DEF HeldInv
  <2> HIDE DEF s
  <2>5. Running => Kept(Now, held)'
    BY <2>4, NextKept
  <2>6. Running' <=> Running
    BY <2>2 DEF Running
  <2>7. QED
    BY <2>1, <2>2, <2>5, <2>6 DEF HeldInv
<1>9. QED
  BY <1>3, <1>4, <1>5, <1>6, <1>7, <1>8 DEF Next

\* So it is an invariant.
THEOREM HeldInvHolds == Spec => []HeldInv
<1>1. Init => HeldInv
  BY HeldStarts
<1>2. HeldInv /\ [Next]_vars => HeldInv'
  BY HeldKeeps
<1>3. QED
  BY <1>1, <1>2, PTL DEF Spec

(***************************************************************************)
(* What dyn_alloc has given the program and it has not freed does not      *)
(* overlap, whatever it asks for and frees and in whatever order, as long  *)
(* as no area has been dropped from the chain.                             *)
(***************************************************************************)
THEOREM HeldStaysApart == Spec => []HeldApart
<1>1. HeldInv => HeldApart
  <2> SUFFICES ASSUME HeldInv, ChainKept PROVE Apart
    BY DEF HeldApart
  <2>1. CASE ~Running
    BY <2>1 DEF HeldInv, Apart
  <2>2. CASE Running
    <3>1. Whole(Now) /\ Owned(Now, held) /\ Sound(Now) /\ held \in SUBSET HeldType
      BY <2>2, NowIs DEF HeldInv, HeapInv, Kept, Whole, ChainKept
    <3>2. QED
      BY <3>1, OwnedApart DEF Apart
  <2>3. QED
    BY <2>1, <2>2
<1>2. QED
  BY <1>1, HeldInvHolds, PTL
-----------------------------------------------------------------------------
\* Memory may run out, but an operation on it refuses nothing that was right.
Obeys(m, new) == new.halt = "bug" => m.halt = "bug"

\* phy_alloc_page and vir_alloc_kern do not.
LEMMA FrameObeys ==
  ASSUME NEW m \in MemType
  PROVE  Obeys(m, phy_alloc_page(m)) /\ Obeys(m, vir_alloc_kern(m)) /\ Obeys(m, Halt(m, "full"))
<1>1. Obeys(m, Halt(m, "full"))
  BY DEF Obeys, Halt, MemType
<1>2. Obeys(m, phy_alloc_page(m))
  <2> DEFINE map == bitmap_set(Scanned(m.frames), FirstFree(m.frames))
  <2>1. phy_alloc_page(m) = Halt(m, "full") \/ phy_alloc_page(m) = [m EXCEPT !.frames = map]
    BY Zenon DEF phy_alloc_page
  <2> HIDE DEF map
  <2>2. [m EXCEPT !.frames = map].halt = m.halt
    BY DEF MemType
  <2>3. CASE phy_alloc_page(m) = Halt(m, "full")
    BY <1>1, <2>3
  <2>4. CASE phy_alloc_page(m) = [m EXCEPT !.frames = map]
    BY <2>2, <2>4 DEF Obeys
  <2>5. QED
    BY <2>1, <2>3, <2>4
<1>3. Obeys(m, vir_alloc_kern(m))
  <2> DEFINE map == bitmap_set(Scanned(m.virmm), FirstFree(m.virmm))
  <2>1. vir_alloc_kern(m) = Halt(m, "full") \/ vir_alloc_kern(m) = [m EXCEPT !.virmm = map]
    BY Zenon DEF vir_alloc_kern
  <2> HIDE DEF map
  <2>2. [m EXCEPT !.virmm = map].halt = m.halt
    BY DEF MemType
  <2>3. CASE vir_alloc_kern(m) = Halt(m, "full")
    BY <1>1, <2>3
  <2>4. CASE vir_alloc_kern(m) = [m EXCEPT !.virmm = map]
    BY <2>2, <2>4 DEF Obeys
  <2>5. QED
    BY <2>1, <2>3, <2>4
<1>4. QED
  BY <1>1, <1>2, <1>3

\* set_mapping does not, and neither does the mapping of a new page.
LEMMA MappingObeys ==
  ASSUME NEW m \in MemType, NEW page, NEW frame
  PROVE  Obeys(m, set_mapping(m, page, frame))
<1> DEFINE old == phy_alloc_page(m)
           tables == Mapped(old.pde, Table(page), NewFrame(m))
           m1 == IF Table(page) \in DOMAIN m.pde THEN m
                 ELSE [old EXCEPT !.pde = Mapped(@, Table(page), NewFrame(m))]
<1>1. set_mapping(m, page, frame) = [m1 EXCEPT !.pte = Mapped(@, page, frame)]
  BY Zenon DEF set_mapping
<1>2. old \in MemType /\ Obeys(m, old)
  BY FrameIs, FrameObeys
<1> HIDE DEF old
<1>3. \A x : [old EXCEPT !.pde = x].halt = old.halt /\ "pte" \in DOMAIN [old EXCEPT !.pde = x]
             /\ DOMAIN [old EXCEPT !.pde = x] = DOMAIN old
  BY <1>2 DEF MemType
<1>4. m1 = m \/ m1 = [old EXCEPT !.pde = tables]
  BY <1>2 DEF MemType
<1> HIDE DEF tables
<1>5. (m1.halt = m.halt \/ m1.halt = old.halt) /\ "halt" \in DOMAIN m1
  BY <1>2, <1>3, <1>4 DEF MemType
<1> HIDE DEF m1
<1>6. [m1 EXCEPT !.pte = Mapped(@, page, frame)].halt = m1.halt
  BY <1>5
<1>7. QED
  BY <1>1, <1>2, <1>5, <1>6 DEF Obeys

\* A list that grows, and a chunk that is taken from it.
LEMMA TakeObeys ==
  ASSUME NEW m \in MemType, NEW l \in List
  PROVE  Obeys(m, fmtlist_alloc(m, l))
<1> DEFINE page  == NewKernPage(m)
           frame == NewFrame(m)
           m0 == phy_alloc_page(m)
           m1 == vir_alloc_kern(m0)
           m2 == set_mapping(m1, page, frame)
<1>1. fmtlist_alloc(m, l).halt = WithRoom(m, l).halt
  BY TakePages
<1>2. CASE Open(m, l) # {}
  BY <1>1, <1>2 DEF WithRoom, Obeys
<1>3. CASE Open(m, l) = {}
  <2>1. WithRoom(m, l) = [m2 EXCEPT !.lists[l] = Append(@, fmtlist_init(page))]
    BY <1>3, Zenon DEF WithRoom, Grown
  <2>2. m0 \in MemType /\ Obeys(m, m0) /\ frame \in Frame
    BY FrameIs, FrameObeys
  <2>3. page \in Nat
    BY KernIs, AddrIs
  <2> HIDE DEF m0, page, frame
  <2>4. m1 \in MemType /\ Obeys(m0, m1)
    BY <2>2, KernIs, FrameObeys
  <2> HIDE DEF m1
  <2>5. m2 \in MemType /\ Obeys(m1, m2)
    BY <2>2, <2>3, <2>4, MappingIs, MappingObeys
  <2> HIDE DEF m2
  <2>6. [m2 EXCEPT !.lists[l] = Append(@, fmtlist_init(page))].halt = m2.halt
    BY <2>5 DEF MemType
  <2>7. QED
    BY <1>1, <2>1, <2>2, <2>4, <2>5, <2>6 DEF Obeys
<1>4. QED
  BY <1>2, <1>3

\* So are pages that are mapped one after the other.
LEMMA MapPagesObeys ==
  ASSUME NEW m \in MemType, NEW va \in Nat, NEW len \in Nat
  PROVE  Obeys(m, MapPages(m, va, len))
<1> DEFINE f == CHOOSE f : f = [n \in 0..len |-> IF n = 0 THEN m
                                                 ELSE MapNew(f[n - 1], Wrap(va + n - 1))]
<1>1. f = [n \in 0..len |-> IF n = 0 THEN m ELSE MapNew(f[n - 1], Wrap(va + n - 1))]
  BY MappingExists, Zenon
<1>2. MapPages(m, va, len) = f[len]
  BY Zenon DEF MapPages
<1> HIDE DEF f
<1>3. \A n \in 0..len : f[n] = IF n = 0 THEN m ELSE MapNew(f[n - 1], Wrap(va + n - 1))
  BY <1>1, Zenon
<1> DEFINE P == {n \in 0..len : f[n] \in MemType /\ Obeys(m, f[n])}
<1>4. 0 \in P /\ \A n \in 1..len : n - 1 \in P => n \in P
  <2>1. 0 \in 0..len
    OBVIOUS
  <2>2. f[0] = m
    BY <1>3, <2>1
  <2>3. ASSUME NEW n \in 1..len, n - 1 \in P PROVE n \in P
    <3> DEFINE old  == f[n - 1]
               page == Wrap(va + n - 1)
               m1   == phy_alloc_page(old)
    <3>1. n \in 0..len /\ n # 0 /\ va + n - 1 \in Int
      OBVIOUS
    <3>2. page \in Nat
      BY <3>1, WrapIs, AddrIs
    <3>3. old \in MemType /\ Obeys(m, old)
      BY <2>3
    <3>4. f[n] = MapNew(old, page)
      BY <1>3, <3>1
    <3> HIDE DEF old, page
    <3>5. MapNew(old, page) = set_mapping(m1, page, NewFrame(old))
      BY Zenon DEF MapNew
    <3>6. m1 \in MemType /\ Obeys(old, m1) /\ MapNew(old, page) \in MemType
      BY <3>2, <3>3, FrameIs, FrameObeys, MapNewIs
    <3> HIDE DEF m1
    <3>7. Obeys(m1, MapNew(old, page))
      BY <3>5, <3>6, MappingObeys
    <3>8. QED
      BY <3>1, <3>3, <3>4, <3>6, <3>7 DEF Obeys
  <2>4. QED
    BY <2>1, <2>2, <2>3 DEF Obeys
<1>5. len \in P
  <2> HIDE DEF P
  <2>1. 0..len \subseteq P
    BY <1>4, UpTo, Zenon
  <2>2. QED
    BY <2>1
<1>6. QED
  BY <1>2, <1>5

\* vir_alloc_pages runs out of space or of memory, and refuses nothing else.
LEMMA VirAllocObeys ==
  ASSUME NEW s, Sound(s), NEW amount \in Amount
  PROVE  Obeys(s.mem, VirAlloc(s, amount).mem)
<1> DEFINE new == VirAlloc(s, amount)
<1>1. s \in StateType /\ s.mem \in MemType
  BY StateIs DEF Sound
<1>2. CASE NoSpace(s.chain, break_, amount, MAX_END)
  <2>1. new.mem = Halt(s.mem, "space")
    BY <1>1, <1>2, VirAllocIs, StateIs
  <2>2. Obeys(s.mem, Halt(s.mem, "space"))
    BY <1>1 DEF Obeys, Halt, MemType
  <2>3. QED
    BY <2>1, <2>2
<1>3. CASE ~NoSpace(s.chain, break_, amount, MAX_END)
  <2> DEFINE m1 == IF GapFor(s.chain, break_, amount) = 0 THEN vspace_alloc(s.mem) ELSE s.mem
             m2 == node_alloc(m1)
             m3 == vaddr_alloc(m2)
  <2>1. new.mem = VirAllocMem(s, amount)
    BY <1>1, <1>3, VirAllocIs
  <2>2. VirAllocMem(s, amount) = m3
    BY Zenon DEF VirAllocMem
  <2>3. m1 \in MemType /\ Obeys(s.mem, m1)
    BY <1>1, ListsAre, AllocChunkIs, TakeObeys DEF vspace_alloc, Obeys
  <2> HIDE DEF m1
  <2>4. m2 \in MemType /\ Obeys(m1, m2)
    BY <2>3, ListsAre, AllocChunkIs, TakeObeys DEF node_alloc
  <2> HIDE DEF m2
  <2>5. Obeys(m2, m3)
    BY <2>4, ListsAre, TakeObeys DEF vaddr_alloc
  <2>6. QED
    BY <2>1, <2>2, <2>3, <2>4, <2>5 DEF Obeys
<1>4. QED
  BY <1>2, <1>3

\* vir_release_pages refuses only what it does not find.
LEMMA VirReleaseObeys ==
  ASSUME NEW s, Sound(s), NEW va, CanRelease(s.chain, va), NEW junk \in Addr
  PROVE  Obeys(s.mem, VirRelease(s, va, junk).mem)
<1> DEFINE node == NodeOf(s.chain, va)
           m1 == IF Splits(s.chain, va) THEN vspace_alloc(s.mem) ELSE s.mem
           m2 == phy_release_vpages(m1, PagesAt(node.va, node.len))
           areaMeta == s.chain[AreaOf(s.chain, va)].meta
           m3 == IF Empties(s.chain, va) THEN vspace_release(m2, areaMeta) ELSE m2
           m4 == ReleaseMeta(m3, node)
<1>1. s \in StateType /\ s.mem \in MemType
  BY StateIs DEF Sound
<1>2. VirRelease(s, va, junk).mem = VirReleaseMem(s, va) /\ node \in NodeType /\ areaMeta \in ChunkType
  BY <1>1, VirReleaseIs
<1>3. VirReleaseMem(s, va) = m4
  BY Zenon DEF VirReleaseMem, VirReleaseRest
<1> HIDE DEF node, areaMeta
<1>5. m1 \in MemType /\ Obeys(s.mem, m1)
  BY <1>1, ListsAre, AllocChunkIs, TakeObeys DEF vspace_alloc, Obeys
<1> HIDE DEF m1
<1>6. m2 \in MemType /\ m2.halt = m1.halt
  BY <1>5, FreeFramesIs
<1> HIDE DEF m2
<1>7. m3 \in MemType /\ m3.halt = m2.halt
  BY <1>2, <1>6, ListsAre, ReleaseHalt DEF vspace_release
<1> HIDE DEF m3
<1>8. m4.halt = m3.halt
  BY <1>2, <1>7, ReleaseMetaIs
<1>9. QED
  BY <1>2, <1>3, <1>5, <1>6, <1>7, <1>8 DEF Obeys
-----------------------------------------------------------------------------
\* dyn_alloc runs out of memory or space, and refuses nothing else: a chunk,
LEMMA AllocChunkObeys ==
  ASSUME NEW s, Sound(s), NEW b \in Bucket
  PROVE  Obeys(s.mem, AllocChunk(s, b).mem)
<1> DEFINE s1 == WithPage(s, b)
<1>1. Sound(s1) /\ AllocChunk(s, b).mem = fmtlist_alloc(s1.mem, b) /\ b \in List
  BY AllocChunkSound, ListsAre
<1>2. Obeys(s.mem, s1.mem)
  <2>1. CASE s.mem.lists[b] # <<>>
    BY <2>1 DEF WithPage, Obeys
  <2>2. CASE s.mem.lists[b] = <<>>
    <3> DEFINE s0  == [s EXCEPT !.mem = phy_alloc_page(@)]
               s2  == VirAlloc(s0, 1)
               va  == AllocVa(s.chain, break_, 1)
               new == FirstPage(s, b)
               list == <<fmtlist_init(va)>>
    <3>1. s1 = new
      BY <2>2 DEF WithPage
    <3>2. /\ Sound(s0) /\ s0.mem = phy_alloc_page(s.mem) /\ s0.chain = s.chain /\ s0.harm = s.harm
          /\ Sound(s2) /\ Sound(new) /\ va \in Addr
          /\ FirstMem(s) \in MemType /\ list \in Seq(PageType)
          /\ new.mem = [FirstMem(s) EXCEPT !.lists[b] = list]
      BY FirstPageIs
    <3>3. FirstMem(s) = set_mapping(s2.mem, va, NewFrame(s.mem))
      BY Zenon DEF FirstMem
    <3>4. s.mem \in MemType
      BY StateIs DEF Sound
    <3>5. Obeys(s.mem, s0.mem)
      BY <3>2, <3>4, FrameObeys
    <3> HIDE DEF s0
    <3>6. Obeys(s0.mem, s2.mem)
      BY <3>2, Sizes, VirAllocObeys
    <3> HIDE DEF s2
    <3>7. s2.mem \in MemType
      BY <3>2, StateIs DEF Sound
    <3>8. Obeys(s2.mem, FirstMem(s))
      BY <3>3, <3>7, MappingObeys
    <3> DEFINE m == FirstMem(s)
    <3> HIDE DEF m, list, new
    <3>9. [m EXCEPT !.lists[b] = list].halt = m.halt
      BY <1>1, <3>2, ListChanged DEF m
    <3>10. new.mem.halt = FirstMem(s).halt
      BY <3>2, <3>9 DEF m
    <3>11. QED
      BY <3>1, <3>5, <3>6, <3>8, <3>10 DEF Obeys
  <2>3. QED
    BY <2>1, <2>2
<1> HIDE DEF s1
<1>3. s1.mem \in MemType
  BY <1>1, StateIs DEF Sound
<1>4. Obeys(s1.mem, fmtlist_alloc(s1.mem, b))
  BY <1>1, <1>3, TakeObeys
<1>5. QED
  BY <1>1, <1>2, <1>4 DEF Obeys

\* or pages.
LEMMA AllocPagesObeys ==
  ASSUME NEW s, Sound(s), NEW len \in Amount
  PROVE  Obeys(s.mem, AllocPages(s, len).mem)
<1> DEFINE s1 == VirAlloc(s, len)
           va == AllocVa(s.chain, break_, len)
<1>1. Sound(s1) /\ va \in Addr /\ Obeys(s.mem, s1.mem)
  BY AllocPagesSound, VirAllocObeys
<1>2. AllocPages(s, len) = [s1 EXCEPT !.mem = MapPages(@, va, len)]
  BY Zenon DEF AllocPages
<1>3. va \in Nat /\ len \in Nat
  BY <1>1, AddrIs, AmountIs
<1> HIDE DEF s1, va
<1>4. s1.mem \in MemType /\ s1 \in StateType
  BY <1>1, StateIs DEF Sound
<1>5. AllocPages(s, len).mem = MapPages(s1.mem, va, len)
  BY <1>2, <1>4 DEF StateType
<1>6. Obeys(s1.mem, MapPages(s1.mem, va, len))
  BY <1>3, <1>4, MapPagesObeys
<1>7. QED
  BY <1>1, <1>5, <1>6 DEF Obeys

\* A node of a chain that is in order is found by where it begins.
LEMMA FoundAgain ==
  ASSUME NEW areas \in Seq(AreaType), InOrder(areas), NEW va, NEW len, <<va, len>> \in Spots(areas)
  PROVE  CanRelease(areas, va)
<1>1. PICK n \in NodesOf(areas) : n.va = va /\ n.len = len
  BY DEF Spots
<1>2. n.va \in Nat /\ n.len \in Nat \ {0}
  BY NodeIn
<1>3. PICK k \in 1..Len(areas) : \E i \in 1..Len(areas[k].list) :
                                   n = areas[k].list[i] /\ InArea(areas[k], n)
  BY NodeIn
<1>4. PICK i \in 1..Len(areas[k].list) : n = areas[k].list[i] /\ InArea(areas[k], n)
  BY <1>3
<1>5. \A j \in 1..Len(areas) : /\ areas[j].begin \in Nat /\ areas[j].end \in Nat
                               /\ areas[j].list \in Seq(NodeType)
  <2> TAKE j \in 1..Len(areas)
  <2>1. areas[j] \in AreaType
    OBVIOUS
  <2>2. QED
    BY <2>1, AddrIs DEF AreaType
<1>6. areas[k].begin <= va /\ va < areas[k].end
  BY <1>1, <1>2, <1>4, <1>5 DEF InArea
<1>7. DOMAIN areas = 1..Len(areas) /\ DOMAIN areas[k].list = 1..Len(areas[k].list)
  BY <1>5
<1>8. k \in AreasWith(areas, va)
  BY <1>6, <1>7 DEF AreasWith
<1>9. AreaOf(areas, va) \in AreasWith(areas, va)
  <2>1. AreasWith(areas, va) \in SUBSET Nat
    BY <1>7 DEF AreasWith
  <2>2. QED
    BY <1>8, <2>1, MinIs DEF AreaOf
<1>10. AreaOf(areas, va) = k
  <2> DEFINE j == AreaOf(areas, va)
  <2>1. j \in 1..Len(areas) /\ areas[j].begin <= va /\ va < areas[j].end
    BY <1>7, <1>9 DEF AreasWith
  <2>2. /\ j < k => areas[j].end <= areas[k].begin
        /\ k < j => areas[k].end <= areas[j].begin
    BY <2>1, AreasApart
  <2> HIDE DEF j
  <2>3. ~(j < k) /\ ~(k < j)
    BY <1>1, <1>2, <1>5, <1>6, <2>1, <2>2
  <2>4. j \in Int /\ k \in Int
    BY <2>1
  <2>5. QED
    BY <2>3, <2>4 DEF j
<1>11. i \in NodesAt(areas, AreaOf(areas, va), va)
  BY <1>1, <1>4, <1>7, <1>10 DEF NodesAt
<1>12. QED
  BY <1>8, <1>11 DEF CanRelease

\* What FreeChunk leaves, by what is left of the bucket: t; lost is the state when the chain_
\* of the bucket has been made null.
FreeLeaves(s, t, m, b, ptr, junk, equal, lost) ==
  /\ m \in MemType /\ Sound(lost) /\ lost.chain = s.chain
  /\ lost.harm = s.harm \cup Loses(s, b) /\ lost.mem = Without(m, b)
  /\ m.lists[b] = <<>> /\ equal => t = Fail(lost, "bug")
  /\ m.lists[b] = <<>> /\ ~equal => t = lost
  /\ m.lists[b] # <<>> /\ Len(Head(m.lists[b]).free) = CAPACITY => t = VirRelease(lost, ptr[1], junk)
  /\ m.lists[b] # <<>> /\ Len(Head(m.lists[b]).free) # CAPACITY => t.mem = m

\* FreeChunk ends in one of these four ways.
LEMMA FreeChunkCases ==
  ASSUME NEW s, Sound(s), NEW b \in Bucket, NEW ptr \in ChunkType, NEW junk \in Addr,
         NEW equal \in BOOLEAN, NEW t, t = FreeChunk(s, b, ptr, junk, equal),
         NEW m, m = fmtlist_release(s.mem, b, ptr)
  PROVE  \E st : FreeLeaves(s, t, m, b, ptr, junk, equal, st)
<1> DEFINE m1   == fmtlist_release(s.mem, b, ptr)
           s1   == [s EXCEPT !.mem = m1]
           lost == Lost(s, b, ptr)
           list == m1.lists[b]
           new  == FreeChunk(s, b, ptr, junk, equal)
<1>1. /\ m1 \in MemType /\ Sound(s1) /\ Sound(new)
      /\ s1.mem = m1 /\ s1.chain = s.chain /\ s1.harm = s.harm
      /\ Sound(lost) /\ lost.chain = s.chain /\ lost.harm = s.harm \cup Loses(s, b)
      /\ lost.mem = [m1 EXCEPT !.lists[b] = <<>>]
      /\ list = <<>> /\ equal => new = Fail(lost, "bug")
      /\ list = <<>> /\ ~equal => new = lost
      /\ list # <<>> /\ Len(Head(list).free) = CAPACITY => new = VirRelease(lost, ptr[1], junk)
      /\ list # <<>> /\ Len(Head(list).free) # CAPACITY => new = s1
  BY FreeChunkSound, SMTT(60)
<1>2. t = new /\ m = m1
  OBVIOUS
<1> HIDE DEF m1, s1, lost, new
<1>3. lost.mem = Without(m, b)
  BY <1>1, <1>2 DEF Without
<1>4. FreeLeaves(s, t, m, b, ptr, junk, equal, lost)
  BY <1>1, <1>2, <1>3, Zenon DEF FreeLeaves
<1>5. QED
  BY <1>4, Zenon

\* A chunk that is freed is found, if no bucket loses a page by it.
LEMMA FreeChunkFound ==
  ASSUME NEW s, Sound(s), NEW hold \in SUBSET HeldType, Kept(s, hold), NEW h \in Chunks(hold),
         NEW b \in Bucket, h.ptr[1] \in PagesOf(s.mem, b), NEW junk \in Addr,
         NEW equal \in BOOLEAN, s.mem.halt = "no",
         NEW t, t = FreeChunk(s, b, h.ptr, junk, equal), t.harm = {}
  PROVE  t.mem.halt # "bug"
<1> DEFINE ptr  == h.ptr
           m    == fmtlist_release(s.mem, b, ptr)
           list == m.lists[b]
           old  == s.mem.lists[b]
<1>1. ptr \in ChunkType /\ s.mem \in MemType /\ b \in List
  BY HeldChunk, StateIs, ListsAre DEF Sound
<1>2. s.harm = {}
  BY <1>1, FreeChunkHarm
<1>3. Whole(s) /\ Owned(s, hold) /\ HeadUsed(s.mem, b) /\ BucketsApart(s.mem)
  BY <1>2 DEF Kept, Whole, HeadsUsed, Owned
<1>4. s.chain \in Seq(AreaType) /\ InOrder(s.chain)
  BY <1>3, StateIs DEF Sound
<1> HIDE DEF m
<1>4a. m = fmtlist_release(s.mem, b, ptr)
  BY DEF m
<1>4b. \E st : FreeLeaves(s, t, m, b, ptr, junk, equal, st)
  BY <1>1, <1>4a, FreeChunkCases
<1>4c. PICK lost : FreeLeaves(s, t, m, b, ptr, junk, equal, lost)
  BY <1>4b
<1>5. /\ m \in MemType /\ Sound(lost) /\ lost.chain = s.chain /\ lost.harm = s.harm \cup Loses(s, b)
      /\ lost.mem = Without(m, b)
      /\ list = <<>> /\ equal => t = Fail(lost, "bug")
      /\ list = <<>> /\ ~equal => t = lost
      /\ list # <<>> /\ Len(Head(list).free) = CAPACITY => t = VirRelease(lost, ptr[1], junk)
      /\ list # <<>> /\ Len(Head(list).free) # CAPACITY => t.mem = m
  BY <1>4c DEF FreeLeaves
<1>6. m.halt = s.mem.halt /\ \E k : GaveChunk(s.mem, m, b, k, ptr) \/ DroppedList(s.mem, m, b, k, ptr)
  BY <1>1, <1>3, ReleaseCases DEF m
<1>7. lost.mem.halt = m.halt
  BY <1>1, <1>5, WithoutIs
<1>8. old \in Seq(PageType) /\ list \in Seq(PageType) /\ Len(old) \in Nat
  BY <1>1, <1>5, ListType
<1>9. ASSUME NEW k, DroppedList(s.mem, m, b, k, ptr) PROVE t.mem.halt # "bug"
  <2>1. list = <<>> /\ k # 1 /\ k \in 1..Len(old)
    BY <1>9 DEF DroppedList, AtPage
  <2>2. Len(old) > 1
    BY <1>8, <2>1
  <2>3. "lost" \in lost.harm
    BY <1>5, <2>2 DEF Loses
  <2>4. Fail(lost, "bug").harm = lost.harm
    BY <1>5, StateIs DEF Sound
  <2>5. QED
    BY <1>5, <2>1, <2>3, <2>4
<1>10. ASSUME NEW k, GaveChunk(s.mem, m, b, k, ptr) PROVE t.mem.halt # "bug"
  <2>1. /\ k \in 1..Len(old) /\ old[k].va = ptr[1] /\ Len(list) = Len(old)
        /\ \A j \in 1..Len(old) : j # k => list[j].free = old[j].free
    BY <1>10 DEF GaveChunk
  <2>2. list # <<>> /\ old # <<>> /\ Head(list) = list[1] /\ 1 \in 1..Len(old)
    <3>1. Len(old) # 0
      BY <1>8, <2>1
    <3> HIDE DEF list, old
    <3>2. QED
      BY <1>8, <2>1, <3>1
  <2>3. CASE Len(list[1].free) # CAPACITY
    BY <1>5, <1>6, <2>2, <2>3
  <2>4. CASE Len(list[1].free) = CAPACITY
    <3>1. t = VirRelease(lost, ptr[1], junk)
      BY <1>5, <2>2, <2>4
    <3>2. Len(old[1].free) < CAPACITY /\ CAPACITY \in Nat
      BY <1>3, <2>2, Sizes DEF HeadUsed
    <3>3. k = 1
      BY <2>1, <2>2, <2>4, <3>2, SMTT(60)
    <3>4. ptr[1] < KERN_METADATA
      BY <1>1, <1>3, <2>1, <3>3, BucketsAre
    <3>5. ptr[1] \in ChunkPages(s.mem, hold)
      BY DEF ChunkPages
    <3>6. <<ptr[1], 1>> \in Spots(s.chain)
      BY <1>3, <3>4, <3>5 DEF Owned
    <3>7. CanRelease(lost.chain, ptr[1])
      BY <1>4, <1>5, <3>6, FoundAgain
    <3>8. Obeys(lost.mem, t.mem)
      BY <1>5, <3>1, <3>7, VirReleaseObeys
    <3>9. QED
      BY <1>6, <1>7, <3>8 DEF Obeys
  <2>5. QED
    BY <2>3, <2>4
<1>11. QED
  BY <1>6, <1>9, <1>10

\* So are pages.
LEMMA FreePagesFound ==
  ASSUME NEW s, Sound(s), NEW hold \in SUBSET HeldType, Kept(s, hold), NEW h \in Ranges(hold),
         NEW junk \in Addr, s.mem.halt = "no", NEW t, t = VirRelease(s, h.va, junk), t.harm = {}
  PROVE  t.mem.halt # "bug"
<1>1. s.harm = {}
  BY VirReleaseHarm
<1>2. Owned(s, hold) /\ s.chain \in Seq(AreaType) /\ InOrder(s.chain)
  BY <1>1, StateIs DEF Kept, Whole, Sound
<1>3. <<h.va, h.len>> \in Spots(s.chain)
  BY <1>2 DEF Owned
<1>4. CanRelease(s.chain, h.va)
  BY <1>2, <1>3, FoundAgain
<1>5. Obeys(s.mem, t.mem)
  BY <1>4, VirReleaseObeys
<1>6. QED
  BY <1>5 DEF Obeys
-----------------------------------------------------------------------------
\* A call refuses nothing if what it ends in does not.
LEMMA BecomesFound ==
  ASSUME NEW s, Sound(s), NEW hold, Becomes(s, hold), s.harm = {} => s.mem.halt # "bug"
  PROVE  FreesFound'
<1>1. harm' = s.harm
  BY DEF Becomes
<1>2. s.mem.halt = "no" => mem' = s.mem
  BY DEF Becomes
<1>3. s.mem.halt # "no" => mem'.halt = s.mem.halt
  <2>1. s.mem.halt # "no" => mem' = [init_memory EXCEPT !.halt = s.mem.halt]
    BY DEF Becomes
  <2>2. QED
    BY <2>1, FreshIs DEF MemType
<1>4. QED
  BY <1>1, <1>2, <1>3 DEF FreesFound

\* No step refuses what the program owns.
LEMMA FoundKeeps == HeldInv /\ FreesFound /\ [Next]_vars => FreesFound'
<1> SUFFICES ASSUME HeldInv, FreesFound, [Next]_vars PROVE FreesFound'
  OBVIOUS
<1>1. HeapInv /\ Sound(Now) /\ held \in SUBSET HeldType
  BY DEF HeldInv, HeapInv
<1>2. Ready => Kept(Now, held) /\ Now.mem.halt = "no"
  BY NowIs DEF HeldInv, Ready, Running
<1>3. ASSUME NEW b \in Bucket, CallAllocChunk(b) PROVE FreesFound'
  <2> DEFINE ptr  == NextChunk(WithPage(Now, b).mem, b)
             s    == AllocChunk(Now, b)
             hold == held \cup {Chunk(ptr)}
  <2>1. Ready /\ Becomes(s, hold)
    BY <1>3 DEF CallAllocChunk
  <2>2. Sound(s) /\ Obeys(Now.mem, s.mem)
    BY <1>1, AllocChunkSound, AllocChunkObeys
  <2> HIDE DEF s, hold
  <2>3. s.mem.halt # "bug"
    BY <1>2, <2>1, <2>2 DEF Obeys
  <2>4. QED
    BY <2>1, <2>2, <2>3, BecomesFound
<1>4. ASSUME NEW len \in Large, CallAllocPages(len) PROVE FreesFound'
  <2> DEFINE va == AllocVa(chain, break_, len)
             s  == AllocPages(Now, len)
             hold == held \cup {Pages(va, len)}
  <2>1. Ready /\ Becomes(s, hold)
    BY <1>4 DEF CallAllocPages
  <2>2. Sound(s) /\ Obeys(Now.mem, s.mem)
    BY <1>1, Sizes, AllocPagesSound, AllocPagesObeys
  <2> HIDE DEF s, hold
  <2>3. s.mem.halt # "bug"
    BY <1>2, <2>1, <2>2 DEF Obeys
  <2>4. QED
    BY <2>1, <2>2, <2>3, BecomesFound
<1>5. ASSUME NEW h \in held, CallFreeChunk(h) PROVE FreesFound'
  <2>1. Ready /\ h \in Chunks(held)
    BY <1>5 DEF CallFreeChunk, Chunks
  <2>2. h.ptr \in ChunkType
    BY <1>1, <2>1, HeldChunk
  <2>3. ASSUME NEW b \in Holders(Now, h.ptr), NEW junk \in Junk, NEW equal \in BOOLEAN,
               Becomes(FreeChunk(Now, b, h.ptr, junk, equal), held \ {h})
        PROVE  FreesFound'
    <3> DEFINE s == FreeChunk(Now, b, h.ptr, junk, equal)
    <3>1. b \in Bucket /\ h.ptr[1] \in PagesOf(Now.mem, b) /\ junk \in Addr
      BY Sizes DEF Holders
    <3>2. Sound(s)
      BY <1>1, <2>2, <3>1, FreeChunkSound
    <3>3. Kept(Now, held) /\ Now.mem.halt = "no"
      BY <1>2, <2>1
    <3> HIDE DEF s
    <3>4. s = FreeChunk(Now, b, h.ptr, junk, equal)
      BY DEF s
    <3>5. s.harm = {} => s.mem.halt # "bug"
      BY <1>1, <2>1, <3>1, <3>3, <3>4, FreeChunkFound
    <3>6. QED
      BY <2>3, <3>2, <3>4, <3>5, BecomesFound
  <2>4. ASSUME Holders(Now, h.ptr) = {}, Becomes(Fail(Now, "bug"), {}) PROVE FreesFound'
    <3>1. harm' = harm
      <4>1. Fail(Now, "bug").harm = Now.harm
        BY <1>1, StateIs DEF Sound
      <4>2. QED
        BY <2>4, <4>1, NowIs DEF Becomes
    <3>2. harm # {}
      <4>1. SUFFICES ASSUME harm = {} PROVE FALSE
        OBVIOUS
      <4>2. Owned(Now, held) /\ Now.harm = {}
        BY <1>2, <2>1, <4>1, NowIs DEF Kept, Whole
      <4>3. h.ptr[1] \in BucketPages(Now.mem)
        BY <2>1, <4>2 DEF Owned
      <4>4. QED
        BY <2>4, <4>3 DEF BucketPages, Holders
    <3>3. QED
      BY <3>1, <3>2 DEF FreesFound
  <2>5. QED
    BY <1>5, <2>3, <2>4 DEF CallFreeChunk
<1>6. ASSUME NEW h \in held, CallFreePages(h) PROVE FreesFound'
  <2>1. PICK junk \in Junk : Becomes(VirRelease(Now, h.va, junk), held \ {h})
    BY <1>6 DEF CallFreePages
  <2>2. Ready /\ h \in Ranges(held) /\ junk \in Addr
    BY <1>6, Sizes DEF CallFreePages, Ranges
  <2> DEFINE s == VirRelease(Now, h.va, junk)
  <2>3. Sound(s)
    BY <1>1, <2>2, VirReleaseSound
  <2> HIDE DEF s
  <2>4. Kept(Now, held) /\ Now.mem.halt = "no" /\ s = VirRelease(Now, h.va, junk)
    BY <1>2, <2>2 DEF s
  <2>5. s.harm = {} => s.mem.halt # "bug"
    BY <1>1, <2>2, <2>4, FreePagesFound
  <2>6. QED
    BY <2>1, <2>3, <2>4, <2>5, BecomesFound
<1>7. CASE Exit
  <2> DEFINE m1 == thread_buckmngr_clear(mem)
             m2 == release_vspace(m1, chain)
  <2>1. mem \in MemType /\ chain \in Seq(AreaType) /\ mem.halt = "no"
    BY <1>1, <1>7, NowIs DEF Exit, Ready
  <2>2. m1 \in MemType /\ m1.halt = mem.halt
    BY <2>1, ClearIs
  <2>3. mem' = ReleaseTables(m2)
    BY <1>7 DEF Exit
  <2> HIDE DEF m1
  <2>4. m2 \in MemType /\ m2.halt = m1.halt
    BY <2>1, <2>2, ReleaseVspaceIs
  <2> HIDE DEF m2
  <2>5. mem'.halt = m2.halt
    BY <2>3, <2>4, ClearIs
  <2>6. QED
    BY <2>1, <2>2, <2>4, <2>5 DEF FreesFound
<1>8. CASE UNCHANGED vars
  BY <1>8 DEF vars, FreesFound
<1>9. QED
  BY <1>3, <1>4, <1>5, <1>6, <1>7, <1>8 DEF Next

\* Loading a program may run out of memory, no more.
LEMMA FoundStarts == Init => FreesFound
<1> SUFFICES ASSUME Init PROVE mem.halt # "bug"
  BY DEF FreesFound
<1>1. \A m \in MemType : Obeys(m, phy_alloc_page(m))
  BY FrameObeys
<1>2. ASSUME NEW m \in MemType, NEW t \in Nat \cup {Abandoned}
      PROVE  Obeys(m, [phy_alloc_page(m) EXCEPT !.pde = Mapped(@, t, NewFrame(m))])
  <2> DEFINE m0 == phy_alloc_page(m)
             new == [m0 EXCEPT !.pde = Mapped(@, t, NewFrame(m))]
  <2>1. m0 \in MemType /\ Obeys(m, m0)
    BY <1>1, FrameIs
  <2>2. new.halt = m0.halt
    <3> HIDE DEF m0
    <3>1. QED
      BY <2>1 DEF MemType
  <2>3. QED
    BY <2>1, <2>2 DEF Obeys
<1>3. init_memory \in MemType /\ init_memory.halt = "no"
  BY FreshIs DEF init_memory
<1>4. PICK m \in {init_memory, Forked} : mem = Loaded(m)
  BY DEF Init
<1>5. m \in MemType /\ m.halt # "bug"
  <2>1. Forked \in MemType /\ Obeys(init_memory, Forked)
    BY <1>2, <1>3, TableIs DEF Forked
  <2>2. QED
    BY <1>3, <1>4, <2>1 DEF Obeys
<1> DEFINE m1 == [phy_alloc_page(m) EXCEPT !.pde = Mapped(@, 0, NewFrame(m))]
<1>6. 0 \in Nat /\ break_ \in Nat
  BY Sizes, AddrIs
<1>7. m1 \in MemType /\ Obeys(m, m1)
  BY <1>2, <1>5, <1>6, TableIs
<1>8. mem = MapPages(m1, 0, break_)
  BY <1>4, Zenon DEF Loaded
<1> HIDE DEF m1
<1>9. Obeys(m1, MapPages(m1, 0, break_))
  BY <1>6, <1>7, MapPagesObeys
<1>10. QED
  BY <1>5, <1>7, <1>8, <1>9 DEF Obeys

(***************************************************************************)
(* The program's frees are not refused: for any sizes and any order of     *)
(* calls, what it holds is found again by dyn_free as long as the chain is *)
(* whole and no bucket has lost a page.                                    *)
(***************************************************************************)
THEOREM FreesAreFound == Spec => []FreesFound
<1>1. Init => FreesFound
  BY FoundStarts
<1>2. HeldInv /\ FreesFound /\ [Next]_vars => FreesFound'
  BY FoundKeeps
<1>3. QED
  BY <1>1, <1>2, HeldInvHolds, PTL DEF Spec
-----------------------------------------------------------------------------
\* What the page directory names, and the pages of metadata that are mapped.
TablesOf(m) == {m.pde[t] : t \in DOMAIN m.pde}

MetaMapped(m) == {page \in DOMAIN m.pte : page >= KERN_METADATA}

(***************************************************************************)
(* The frames in use are those of the live pages, of the page tables and   *)
(* spare ones, and each is the frame of one of these only.                 *)
(***************************************************************************)
Exact(m, live, spare) ==
  /\ live \subseteq DOMAIN m.pte
  /\ m.frames.set = {m.pte[page] : page \in live} \cup TablesOf(m) \cup spare
  /\ \A p, q \in live : m.pte[p] = m.pte[q] => p = q
  /\ \A p \in live : m.pte[p] \notin TablesOf(m) /\ m.pte[p] \notin spare
  /\ \A t, u \in DOMAIN m.pde : m.pde[t] = m.pde[u] => t = u
  /\ TablesOf(m) \cap spare = {}

\* No page of metadata has been taken twice: the scan is still in its first round.
FirstRound(m) ==
  /\ MetaMapped(m) = {KERN_METADATA + n : n \in 0..(m.virmm.prev - 1)}
  /\ m.virmm.set \subseteq 0..(m.virmm.prev - 1)

\* phy_alloc_page has a frame to spare.
LEMMA FrameTaken ==
  ASSUME NEW m \in MemType, phy_alloc_page(m).halt = "no"
  PROVE  LET new == phy_alloc_page(m)
         IN  /\ new.pte = m.pte /\ new.pde = m.pde /\ new.virmm = m.virmm
             /\ NewFrame(m) \in Frame /\ NewFrame(m) \notin m.frames.set
             /\ new.frames.set = m.frames.set \cup {NewFrame(m)}
<1>1. m.frames \in Bits(FRAMES) /\ FRAMES \in Nat \ {0}
  BY Sizes DEF MemType
<1>2. ~Exhausted(m.frames)
  <2>1. SUFFICES ASSUME Exhausted(m.frames) PROVE FALSE
    OBVIOUS
  <2>2. phy_alloc_page(m) = Halt(m, "full")
    BY <2>1, Zenon DEF phy_alloc_page
  <2>3. QED
    BY <2>2, HaltIs
<1> DEFINE map == bitmap_set(Scanned(m.frames), FirstFree(m.frames))
<1>3. map \in Bits(FRAMES) /\ FirstFree(m.frames) \in Frame \ m.frames.set
      /\ map.set = m.frames.set \cup {FirstFree(m.frames)}
  BY <1>1, <1>2, BitsIs DEF Frame
<1>4. phy_alloc_page(m) = [m EXCEPT !.frames = map] /\ NewFrame(m) = FirstFree(m.frames)
  BY <1>2, Zenon DEF phy_alloc_page, NewFrame
<1> HIDE DEF map
<1>5. QED
  BY <1>3, <1>4 DEF MemType

\* So the frames stay exact, with one more to spare.
LEMMA TakenExact ==
  ASSUME NEW m \in MemType, phy_alloc_page(m).halt = "no",
         NEW live, NEW spare, Exact(m, live, spare)
  PROVE  /\ Exact(phy_alloc_page(m), live, spare \cup {NewFrame(m)})
         /\ NewFrame(m) \notin spare
<1> DEFINE new   == phy_alloc_page(m)
           frame == NewFrame(m)
<1>1. /\ new.pte = m.pte /\ new.pde = m.pde /\ frame \notin m.frames.set
      /\ new.frames.set = m.frames.set \cup {frame}
  BY FrameTaken
<1> HIDE DEF new, frame
<1>2. TablesOf(new) = TablesOf(m)
  BY <1>1 DEF TablesOf
<1>3. \A page \in live : m.pte[page] # frame
  BY <1>1 DEF Exact
<1>4. frame \notin TablesOf(m) /\ frame \notin spare
  BY <1>1 DEF Exact
<1>5. Exact(new, live, spare \cup {frame})
  BY <1>1, <1>2, <1>3, <1>4 DEF Exact
<1>6. QED
  BY <1>4, <1>5 DEF new, frame

\* A page table that is entered in the directory.
LEMMA TableExact ==
  ASSUME NEW m \in MemType, NEW live, NEW spare, NEW frame, frame \notin spare,
         Exact(m, live, spare \cup {frame}), NEW t, t \notin DOMAIN m.pde,
         NEW new \in MemType, new.pte = m.pte, new.frames = m.frames,
         new.pde = Mapped(m.pde, t, frame)
  PROVE  Exact(new, live, spare)
<1>1. /\ DOMAIN new.pde = DOMAIN m.pde \cup {t} /\ new.pde[t] = frame
      /\ \A k \in DOMAIN m.pde : new.pde[k] = m.pde[k]
  BY DEF Mapped
<1>2. TablesOf(new) = TablesOf(m) \cup {frame}
  BY <1>1 DEF TablesOf
<1>3. \A k, u \in DOMAIN new.pde : new.pde[k] = new.pde[u] => k = u
  <2>1. \A k \in DOMAIN m.pde : m.pde[k] # frame
    BY DEF Exact, TablesOf
  <2>2. \A k, u \in DOMAIN m.pde : m.pde[k] = m.pde[u] => k = u
    BY DEF Exact
  <2>3. QED
    BY <1>1, <2>1, <2>2
<1>4. QED
  BY <1>2, <1>3 DEF Exact

\* A page that is mapped to a spare frame.
LEMMA PageExact ==
  ASSUME NEW m \in MemType, NEW live, NEW spare, NEW frame, frame \notin spare, NEW page,
         page \notin live, Exact(m, live, spare \cup {frame}),
         NEW new \in MemType, new.pde = m.pde, new.frames = m.frames,
         NEW pte, new.pte = pte, pte = Mapped(m.pte, page, frame)
  PROVE  Exact(new, live \cup {page}, spare)
<1>1. /\ DOMAIN new.pte = DOMAIN m.pte \cup {page} /\ new.pte[page] = frame
      /\ \A k \in DOMAIN m.pte : k # page => new.pte[k] = m.pte[k]
  BY DEF Mapped
<1>2. TablesOf(new) = TablesOf(m)
  BY DEF TablesOf
<1>3. live \subseteq DOMAIN m.pte /\ \A p \in live : new.pte[p] = m.pte[p]
  BY <1>1 DEF Exact
<1>4. {new.pte[p] : p \in live \cup {page}} = {m.pte[p] : p \in live} \cup {frame}
  BY <1>1, <1>3
<1>5. new.frames.set = {new.pte[p] : p \in live \cup {page}} \cup TablesOf(new) \cup spare
  BY <1>2, <1>4 DEF Exact
<1>6. \A p \in live : m.pte[p] # frame
  BY DEF Exact
<1>7. \A p, q \in live \cup {page} : new.pte[p] = new.pte[q] => p = q
  BY <1>1, <1>3, <1>6 DEF Exact
<1>8. \A p \in live \cup {page} : new.pte[p] \notin TablesOf(new) /\ new.pte[p] \notin spare
  BY <1>1, <1>2, <1>3 DEF Exact
<1>9. QED
  BY <1>1, <1>2, <1>3, <1>5, <1>7, <1>8 DEF Exact

\* set_mapping does both.
LEMMA MappingExact ==
  ASSUME NEW m \in MemType, NEW live, NEW spare, NEW frame \in Frame, frame \notin spare,
         NEW page \in Nat, page \notin live, Exact(m, live, spare \cup {frame}),
         set_mapping(m, page, frame).halt = "no"
  PROVE  LET new == set_mapping(m, page, frame)
         IN  /\ Exact(new, live \cup {page}, spare)
             /\ DOMAIN new.pte = DOMAIN m.pte \cup {page}
<1> DEFINE m1  == IF Table(page) \in DOMAIN m.pde THEN m
                  ELSE [phy_alloc_page(m) EXCEPT !.pde = Mapped(@, Table(page), NewFrame(m))]
           more == spare \cup {frame}
           new == set_mapping(m, page, frame)
<1>1. new \in MemType
  BY MappingIs
<1>2. new = [m1 EXCEPT !.pte = Mapped(@, page, frame)]
  BY Zenon DEF set_mapping
<1>0. Exact(m, live, more)
  OBVIOUS
<1> HIDE DEF more
<1>3. m1 \in MemType /\ m1.pte = m.pte /\ (m1.halt = "no" => Exact(m1, live, more))
  <2>1. CASE Table(page) \in DOMAIN m.pde
    BY <1>0, <2>1
  <2>2. CASE Table(page) \notin DOMAIN m.pde
    <3> DEFINE old == phy_alloc_page(m)
               map == Mapped(old.pde, Table(page), NewFrame(m))
    <3>1. old \in MemType /\ NewFrame(m) \in Frame
      BY FrameIs
    <3>2. old.halt = "no" =>
            /\ Exact(old, live, more \cup {NewFrame(m)}) /\ NewFrame(m) \notin more
            /\ old.pde = m.pde
      BY <1>0, TakenExact, FrameTaken
    <3>3. old.pte = m.pte
      BY FrameTaken, HaltIs DEF phy_alloc_page, Halt, MemType
    <3> HIDE DEF old
    <3>4. Table(page) \in Nat
      BY Sizes DEF Table
    <3>5. map \in TableType
      BY <3>1, <3>4, MappedIs DEF MemType
    <3>6. m1 = [old EXCEPT !.pde = map]
      BY <2>2 DEF old
    <3> DEFINE next == [old EXCEPT !.pde = map]
    <3>7. /\ next \in MemType /\ next.pte = old.pte /\ next.frames = old.frames
          /\ next.halt = old.halt /\ next.pde = map
      BY <3>1, <3>5 DEF MemType
    <3> HIDE DEF next
    <3>8. next.halt = "no" => Exact(next, live, more)
      BY <2>2, <3>1, <3>2, <3>7, TableExact
    <3>9. m1 = next
      BY <3>6 DEF next
    <3>10. QED
      BY <3>3, <3>7, <3>8, <3>9
  <2>3. QED
    BY <2>1, <2>2
<1> HIDE DEF m1, new
<1>4. new.pte = Mapped(m1.pte, page, frame) /\ new.pde = m1.pde /\ new.frames = m1.frames
      /\ new.halt = m1.halt
  BY <1>2, <1>3 DEF MemType
<1>5. new.halt = "no"
  BY DEF new
<1>6. Exact(new, live \cup {page}, spare)
  <2>1. /\ m1 \in MemType /\ Exact(m1, live, more) /\ frame \notin spare /\ page \notin live
        /\ new \in MemType /\ new.pde = m1.pde /\ new.frames = m1.frames
        /\ new.pte = Mapped(m1.pte, page, frame)
    BY <1>1, <1>3, <1>4, <1>5
  <2>2. QED
    BY <2>1, PageExact DEF more
<1>7. DOMAIN new.pte = DOMAIN m.pte \cup {page}
  BY <1>3, <1>4 DEF Mapped
<1>8. QED
  BY <1>6, <1>7 DEF new

(***************************************************************************)
(* The frames in use are those of pages of the program, of the metadata,   *)
(* of the page tables and spare ones.                                      *)
(***************************************************************************)
FramesOk(m, pages, spare) == FirstRound(m) /\ Exact(m, pages \cup MetaMapped(m), spare)

\* Pages of a program: exec has mapped the first.
Program == {pages \in SUBSET (0..(KERN_METADATA - 1)) : 0 \in pages}

\* What the page tables name are frames.
LEMMA PteIs ==
  ASSUME NEW m \in MemType
  PROVE  /\ \A page \in DOMAIN m.pte : page \in Nat /\ m.pte[page] \in Frame
         /\ \A t \in DOMAIN m.pde : t \in Nat \cup {Abandoned} /\ m.pde[t] \in Frame
<1>1. m.pte \in MapType /\ m.pde \in TableType
  BY DEF MemType
<1>2. /\ \A map \in MapType : \A k \in DOMAIN map : k \in Nat /\ map[k] \in Frame
      /\ \A map \in TableType :
           \A k \in DOMAIN map : k \in Nat \cup {Abandoned} /\ map[k] \in Frame
  BY DEF MapType, TableType
<1>3. QED
  BY <1>1, <1>2

(***************************************************************************)
(* There are not more frames than pages of metadata: a scan that needs one *)
(* more frame has not come to the end of the metadata.                     *)
(***************************************************************************)
LEMMA RoundGoesOn ==
  ASSUME FRAMES <= SIZE_BITMAP_VIRMM, NEW m \in MemType, NEW pages \in Program, NEW spare,
         FramesOk(m, pages, spare), NEW frame \in Frame, frame \notin m.frames.set
  PROVE  m.virmm.prev \in Nat /\ m.virmm.prev + 1 < SIZE_BITMAP_VIRMM
<1> DEFINE prev == m.virmm.prev
           live == pages \cup MetaMapped(m)
           S    == 0..(prev + 1)
           f    == [n \in S |-> IF n < prev THEN m.pte[KERN_METADATA + n]
                                ELSE IF n = prev THEN m.pte[0] ELSE frame]
<1>1. /\ prev \in Nat /\ FRAMES \in Nat \ {0} /\ SIZE_BITMAP_VIRMM \in Nat \ {0}
      /\ KERN_METADATA \in Nat \ {0}
  BY Sizes DEF MemType, Bits
<1>2. /\ live \subseteq DOMAIN m.pte
      /\ \A p, q \in live : m.pte[p] = m.pte[q] => p = q
      /\ \A p \in live : m.pte[p] \in m.frames.set
  BY DEF FramesOk, Exact
<1>3. 0 \in live /\ \A n \in 0..(prev - 1) : KERN_METADATA + n \in live
  BY DEF FramesOk, FirstRound, Program
<1>4. \A p \in live : m.pte[p] \in Frame /\ m.pte[p] # frame
  BY <1>2, PteIs
<1> HIDE DEF prev, live
<1>5. f \in [S -> Frame]
  BY <1>1, <1>3, <1>4
<1>6. ASSUME NEW x \in S, NEW y \in S, x # y, f[x] = f[y] PROVE FALSE
  <2> DEFINE page(n) == IF n = prev THEN 0 ELSE KERN_METADATA + n
  <2>1. \A n \in 0..prev : page(n) \in live /\ f[n] = m.pte[page(n)]
    BY <1>1, <1>3
  <2>2. \A i, j \in 0..prev : page(i) = page(j) => i = j
    BY <1>1
  <2>3. f[prev + 1] = frame
    BY <1>1
  <2> HIDE DEF f, page
  <2>4. \A n \in 0..prev : f[n] # frame
    BY <1>4, <2>1
  <2>5. \A i, j \in 0..prev : f[i] = f[j] => i = j
    BY <1>2, <2>1, <2>2
  <2>6. \A n \in S : n \in 0..prev \/ n = prev + 1
    BY <1>1
  <2>7. QED
    BY <1>6, <2>3, <2>4, <2>5, <2>6
<1>7. /\ IsFiniteSet(S) /\ Cardinality(S) = prev + 2
      /\ IsFiniteSet(Frame) /\ Cardinality(Frame) = FRAMES
  <2>1. 0 \in Int /\ prev + 1 \in Int /\ FRAMES - 1 \in Int
    BY <1>1
  <2>2. /\ IsFiniteSet(0..(prev + 1)) /\ IsFiniteSet(0..(FRAMES - 1))
        /\ Cardinality(0..(prev + 1)) = IF 0 > prev + 1 THEN 0 ELSE (prev + 1) - 0 + 1
        /\ Cardinality(0..(FRAMES - 1)) = IF 0 > FRAMES - 1 THEN 0 ELSE (FRAMES - 1) - 0 + 1
    BY <2>1, FS_Interval, Zenon
  <2>3. QED
    BY <1>1, <2>2 DEF Frame
<1> HIDE DEF S, f
<1>8. ~(Cardinality(Frame) < Cardinality(S))
  BY <1>5, <1>6, <1>7, FS_PigeonHole
<1>9. QED
  BY <1>1, <1>7, <1>8 DEF prev

\* In the first round the scan finds the page behind those that it has found.
LEMMA NextOfRound ==
  ASSUME NEW m \in MemType, FirstRound(m), m.virmm.prev \in Nat,
         m.virmm.prev + 1 < SIZE_BITMAP_VIRMM
  PROVE  LET new == vir_alloc_kern(m)
             n   == m.virmm.prev
         IN  /\ NewKernPage(m) = KERN_METADATA + n
             /\ new.frames = m.frames /\ new.pte = m.pte /\ new.pde = m.pde /\ new.halt = m.halt
             /\ new.virmm.set = m.virmm.set \cup {n} /\ new.virmm.prev = n + 1
<1> DEFINE map == m.virmm
           n   == m.virmm.prev
           S   == SIZE_BITMAP_VIRMM
           bit == FirstFree(m.virmm)
<1>1. map \in Bits(S) /\ S \in Nat \ {0} /\ KERN_METADATA \in Nat
  BY Sizes DEF MemType
<1>2. map.bits = S /\ map.set \subseteq 0..(n - 1) /\ n \in Nat /\ n + 1 < S /\ n \in 0..(S - 1)
  BY <1>1 DEF Bits, FirstRound
<1>3. n \notin map.set
  BY <1>2
<1>4. ~Exhausted(map)
  BY <1>2, <1>3, Zenon DEF Exhausted
<1>5. /\ bit \in (0..(S - 1)) \ map.set
      /\ \A other \in (0..(S - 1)) \ map.set : (bit - n) % S <= (other - n) % S
  <2>1. ~(0..(S - 1) \subseteq map.set)
    BY <1>2, <1>3
  <2>2. bit = bitmap_scan_empty(S, map.set, n)
    BY <1>2, Zenon DEF FirstFree
  <2>3. QED
    BY <1>1, <1>2, <2>1, <2>2, ScanFindsNearest
<1> HIDE DEF map, n, bit, S
<1>6. bit = n
  <2>1. (n - n) % S = 0
    BY <1>1, <1>2
  <2>2. (bit - n) % S <= 0
    BY <1>2, <1>3, <1>5, <2>1
  <2>3. bit - n \in Int /\ bit \in 0..(S - 1)
    BY <1>2, <1>5
  <2>4. bit - n >= 0 => (bit - n) % S = bit - n
    BY <1>1, <1>2, <2>3
  <2>5. bit - n < 0 => (bit - n) % S = bit - n + S
    BY <1>1, <1>2, <2>3
  <2>6. QED
    BY <1>1, <1>2, <2>2, <2>3, <2>4, <2>5
<1>7. (n + 1) % S = n + 1
  BY <1>1, <1>2
<1>8. /\ vir_alloc_kern(m) = [m EXCEPT !.virmm = bitmap_set(Scanned(@), FirstFree(@))]
      /\ NewKernPage(m) = KERN_METADATA + n
  BY <1>4, <1>6, Zenon DEF vir_alloc_kern, NewKernPage, map, bit
<1> DEFINE next == bitmap_set(Scanned(map), bit)
<1>9. next \in Bits(S) /\ next.set = map.set \cup {n}
  BY <1>1, <1>4, <1>6, BitsIs DEF bit, map
<1>10. next.prev = n + 1
  <2>1. Scanned(map) = [map EXCEPT !.prev = n + 1]
    BY <1>2, <1>6, <1>7, Zenon DEF Scanned, bit, map
  <2>2. [map EXCEPT !.prev = n + 1].prev = n + 1
    BY <1>1 DEF Bits
  <2>3. bitmap_set([map EXCEPT !.prev = n + 1], bit).prev = n + 1
    BY <1>1 DEF Bits, bitmap_set
  <2>4. QED
    BY <2>1, <2>3
<1>11. vir_alloc_kern(m) = [m EXCEPT !.virmm = next]
  BY <1>8, Zenon DEF next, map, bit
<1> HIDE DEF next
<1>12. QED
  BY <1>8, <1>9, <1>10, <1>11 DEF MemType, map, n
-----------------------------------------------------------------------------
\* The lists of chunks are of no account.
LEMMA FramesSame ==
  ASSUME NEW m, NEW new, SameFrames(m, new), NEW pages, NEW spare, FramesOk(m, pages, spare)
  PROVE  FramesOk(new, pages, spare)
<1>1. TablesOf(new) = TablesOf(m) /\ MetaMapped(new) = MetaMapped(m)
  BY DEF SameFrames, TablesOf, MetaMapped
<1>2. QED
  BY <1>1 DEF SameFrames, FramesOk, FirstRound, Exact

\* A list that changes is nothing else.
LEMMA ListsSame ==
  ASSUME NEW m \in MemType, NEW lists
  PROVE  SameFrames(m, [m EXCEPT !.lists = lists])
BY DEF SameFrames, MemType

\* A list of the kernel grows by a page that has a frame of its own.
LEMMA GrownFrames ==
  ASSUME FRAMES <= SIZE_BITMAP_VIRMM, NEW m \in MemType, NEW pages \in Program, NEW spare,
         FramesOk(m, pages, spare), NEW l \in List, Grown(m, l).halt = "no"
  PROVE  FramesOk(Grown(m, l), pages, spare)
<1> DEFINE page  == NewKernPage(m)
           frame == NewFrame(m)
           m0 == phy_alloc_page(m)
           m1 == vir_alloc_kern(m0)
           m2 == set_mapping(m1, page, frame)
           n  == m.virmm.prev
           live == pages \cup MetaMapped(m)
<1>1. Grown(m, l) = [m2 EXCEPT !.lists[l] = Append(@, fmtlist_init(page))]
  BY Zenon DEF Grown
<1>2. m0 \in MemType /\ frame \in Frame
  BY FrameIs
<1>3. m1 \in MemType /\ (m1.halt = "no" => m0.halt = "no") /\ page \in Addr
  <2> HIDE DEF m0
  <2>1. m1 \in MemType /\ (m1.halt = "no" => m0.halt = "no")
    BY <1>2, KernIs
  <2>2. page \in Addr
    BY KernIs
  <2>3. QED
    BY <2>1, <2>2
<1>4. m2 \in MemType /\ (m2.halt = "no" => m1.halt = "no") /\ m2.virmm = m1.virmm
  <2> HIDE DEF m1, page, frame
  <2>1. QED
    BY <1>2, <1>3, AddrIs, MappingIs
<1>5. m2.halt = "no" /\ m1.halt = "no" /\ m0.halt = "no"
  <2>1. m2.halt = "no"
    <3> HIDE DEF m2
    <3>1. QED
      BY <1>1, <1>4 DEF MemType
  <2>2. QED
    BY <1>3, <1>4, <2>1
<1>6. /\ m0.pte = m.pte /\ m0.pde = m.pde /\ m0.virmm = m.virmm /\ frame \notin m.frames.set
  BY <1>5, FrameTaken
<1>7. Exact(m0, live, spare \cup {frame}) /\ frame \notin spare
  BY <1>5, TakenExact DEF FramesOk
<1>8. n \in Nat /\ n + 1 < SIZE_BITMAP_VIRMM
  BY <1>2, <1>6, RoundGoesOn
<1>9. FirstRound(m0)
  BY <1>6 DEF FramesOk, FirstRound, MetaMapped
<1>10. NewKernPage(m0) = page
  BY <1>6 DEF NewKernPage
<1> HIDE DEF page, frame, m0
<1>11. /\ page = KERN_METADATA + n
       /\ m1.frames = m0.frames /\ m1.pte = m0.pte /\ m1.pde = m0.pde
       /\ m1.virmm.set = m0.virmm.set \cup {n} /\ m1.virmm.prev = n + 1
  BY <1>2, <1>6, <1>8, <1>9, <1>10, NextOfRound
<1> HIDE DEF m1
<1>12. Exact(m1, live, spare \cup {frame})
  BY <1>7, <1>11 DEF Exact, TablesOf
<1>13. MetaMapped(m) = {KERN_METADATA + k : k \in 0..(n - 1)} /\ m.virmm.set \subseteq 0..(n - 1)
  BY DEF FramesOk, FirstRound
<1>14. KERN_METADATA \in Nat /\ page \in Nat /\ page >= KERN_METADATA
  BY <1>8, <1>11, Sizes
<1>15. page \notin live
  <2>1. page \notin pages
    BY <1>14 DEF Program
  <2>2. page \notin MetaMapped(m)
    BY <1>8, <1>11, <1>13, <1>14
  <2>3. QED
    BY <2>1, <2>2
<1>16. Exact(m2, live \cup {page}, spare) /\ DOMAIN m2.pte = DOMAIN m.pte \cup {page}
  <2> HIDE DEF live
  <2>1. set_mapping(m1, page, frame).halt = "no"
    BY <1>5
  <2>2. /\ m1 \in MemType /\ frame \in Frame /\ frame \notin spare /\ page \in Nat
        /\ page \notin live /\ Exact(m1, live, spare \cup {frame})
    BY <1>2, <1>3, <1>7, <1>12, <1>14, <1>15
  <2>3. /\ Exact(set_mapping(m1, page, frame), live \cup {page}, spare)
        /\ DOMAIN set_mapping(m1, page, frame).pte = DOMAIN m1.pte \cup {page}
    BY <2>1, <2>2, MappingExact
  <2>4. m1.pte = m.pte
    BY <1>6, <1>11
  <2>5. QED
    BY <2>3, <2>4
<1> HIDE DEF m2
<1>17. MetaMapped(m2) = MetaMapped(m) \cup {page}
  BY <1>14, <1>16 DEF MetaMapped
<1>18. FirstRound(m2)
  <2>1. MetaMapped(m2) = {KERN_METADATA + k : k \in 0..n}
    BY <1>8, <1>11, <1>13, <1>17
  <2>2. m2.virmm.prev = n + 1 /\ m2.virmm.set \subseteq 0..n
    BY <1>4, <1>6, <1>8, <1>11, <1>13
  <2>3. (n + 1) - 1 = n
    BY <1>8
  <2>4. QED
    BY <2>1, <2>2, <2>3 DEF FirstRound
<1>19. FramesOk(m2, pages, spare)
  <2>1. live \cup {page} = pages \cup MetaMapped(m2)
    BY <1>17
  <2>2. QED
    BY <1>16, <1>18, <2>1 DEF FramesOk
<1>20. \E lists : Grown(m, l) = [m2 EXCEPT !.lists = lists]
  BY <1>1
<1>21. QED
  BY <1>4, <1>19, <1>20, ListsSame, FramesSame

\* So it is when a chunk is taken.
LEMMA AllocFrames ==
  ASSUME FRAMES <= SIZE_BITMAP_VIRMM, NEW m \in MemType, NEW pages \in Program, NEW spare,
         FramesOk(m, pages, spare), NEW l \in List, fmtlist_alloc(m, l).halt = "no"
  PROVE  FramesOk(fmtlist_alloc(m, l), pages, spare)
<1> DEFINE m1 == WithRoom(m, l)
           k  == Min(Open(m1, l))
<1>1. m1 \in MemType
  BY RoomIs
<1>2. m1.halt = "no"
  BY AllocChunkIs
<1>3. fmtlist_alloc(m, l) = [m1 EXCEPT !.lists[l][k].free = Tail(@)]
  BY Zenon DEF fmtlist_alloc
<1>4. FramesOk(m1, pages, spare)
  <2>1. CASE Open(m, l) = {}
    BY <1>2, <2>1, GrownFrames DEF WithRoom
  <2>2. CASE Open(m, l) # {}
    BY <2>2 DEF WithRoom
  <2>3. QED
    BY <2>1, <2>2
<1> HIDE DEF m1, k
<1>5. \E lists : fmtlist_alloc(m, l) = [m1 EXCEPT !.lists = lists]
  BY <1>3
<1>6. QED
  BY <1>1, <1>4, <1>5, ListsSame, FramesSame
-----------------------------------------------------------------------------
\* A frame that is taken is one more to spare.
LEMMA TakenFrames ==
  ASSUME NEW m \in MemType, phy_alloc_page(m).halt = "no",
         NEW pages, NEW spare, FramesOk(m, pages, spare)
  PROVE  /\ FramesOk(phy_alloc_page(m), pages, spare \cup {NewFrame(m)})
         /\ NewFrame(m) \notin spare
<1> DEFINE new == phy_alloc_page(m)
<1>1. new.pte = m.pte /\ new.virmm = m.virmm
  BY FrameTaken
<1>2. /\ Exact(new, pages \cup MetaMapped(m), spare \cup {NewFrame(m)})
      /\ NewFrame(m) \notin spare
  BY TakenExact DEF FramesOk
<1> HIDE DEF new
<1>3. MetaMapped(new) = MetaMapped(m)
  BY <1>1 DEF MetaMapped
<1>4. FirstRound(new)
  BY <1>1, <1>3 DEF FramesOk, FirstRound
<1>5. QED
  BY <1>2, <1>3, <1>4 DEF FramesOk, new

\* A page of the program that is mapped to it has it.
LEMMA MappedFrames ==
  ASSUME NEW m \in MemType, NEW pages, NEW spare, NEW frame \in Frame, frame \notin spare,
         FramesOk(m, pages, spare \cup {frame}),
         NEW page \in 0..(KERN_METADATA - 1), page \notin pages,
         set_mapping(m, page, frame).halt = "no"
  PROVE  FramesOk(set_mapping(m, page, frame), pages \cup {page}, spare)
<1> DEFINE new  == set_mapping(m, page, frame)
           live == pages \cup MetaMapped(m)
<1>1. page \in Nat /\ KERN_METADATA \in Nat /\ ~(page >= KERN_METADATA)
  BY Sizes
<1>2. page \notin live
  BY <1>1 DEF MetaMapped
<1>3. Exact(m, live, spare \cup {frame}) /\ FirstRound(m)
  BY DEF FramesOk
<1> HIDE DEF live
<1>4. Exact(new, live \cup {page}, spare) /\ DOMAIN new.pte = DOMAIN m.pte \cup {page}
  BY <1>1, <1>2, <1>3, MappingExact
<1>5. new.virmm = m.virmm
  BY <1>1, MappingIs
<1> HIDE DEF new
<1>6. MetaMapped(new) = MetaMapped(m)
  BY <1>1, <1>4 DEF MetaMapped
<1>7. FirstRound(new)
  BY <1>3, <1>5, <1>6 DEF FirstRound
<1>8. live \cup {page} = (pages \cup {page}) \cup MetaMapped(new)
  BY <1>6 DEF live
<1>9. QED
  BY <1>4, <1>7, <1>8 DEF FramesOk, new

\* phy_release_vpages takes their frames from pages of the program.
LEMMA FreedFrames ==
  ASSUME NEW m \in MemType, NEW pages \in SUBSET (0..(KERN_METADATA - 1)), NEW spare,
         FramesOk(m, pages, spare), NEW gone \in SUBSET pages
  PROVE  FramesOk(phy_release_vpages(m, gone), pages \ gone, spare)
<1> DEFINE new  == phy_release_vpages(m, gone)
           live == pages \cup MetaMapped(m)
           left == live \ gone
           out  == {m.pte[page] : page \in gone}
<1>1. /\ new.frames.set = m.frames.set \ out
      /\ new.pte = m.pte /\ new.pde = m.pde /\ new.virmm = m.virmm
  <2>1. new = [m EXCEPT !.frames.set = @ \ out]
    BY Zenon DEF phy_release_vpages
  <2> HIDE DEF out, new
  <2>2. QED
    BY <2>1 DEF MemType, Bits
<1>2. MetaMapped(new) = MetaMapped(m) /\ TablesOf(new) = TablesOf(m)
  BY <1>1 DEF MetaMapped, TablesOf
<1>3. Exact(m, live, spare) /\ FirstRound(m)
  BY DEF FramesOk
<1>4. gone \subseteq live /\ left = (pages \ gone) \cup MetaMapped(m)
  <2>1. KERN_METADATA \in Nat /\ \A page \in gone : page \in Nat /\ ~(page >= KERN_METADATA)
    BY Sizes
  <2>2. \A page \in gone : page \notin MetaMapped(m)
    BY <2>1 DEF MetaMapped
  <2>3. QED
    BY <2>2
<1> HIDE DEF live, new
<1>5. /\ live \subseteq DOMAIN m.pte
      /\ m.frames.set = {m.pte[page] : page \in live} \cup TablesOf(m) \cup spare
      /\ \A p, q \in live : m.pte[p] = m.pte[q] => p = q
      /\ \A p \in live : m.pte[p] \notin TablesOf(m) /\ m.pte[p] \notin spare
      /\ TablesOf(m) \cap spare = {}
      /\ \A t, u \in DOMAIN m.pde : m.pde[t] = m.pde[u] => t = u
  BY <1>3 DEF Exact
<1>6. new.frames.set = {m.pte[page] : page \in left} \cup TablesOf(m) \cup spare
  <2>1. {m.pte[page] : page \in live} \ out = {m.pte[page] : page \in left}
    BY <1>4, <1>5
  <2>2. TablesOf(m) \cap out = {} /\ spare \cap out = {}
    BY <1>4, <1>5
  <2> HIDE DEF out, left
  <2>3. QED
    BY <1>1, <1>5, <2>1, <2>2
<1>7. left \subseteq live
  OBVIOUS
<1> HIDE DEF left, out
<1>8. Exact(new, left, spare)
  BY <1>1, <1>2, <1>5, <1>6, <1>7 DEF Exact
<1>9. FirstRound(new)
  BY <1>1, <1>2, <1>3 DEF FirstRound
<1>10. QED
  BY <1>2, <1>4, <1>8, <1>9 DEF FramesOk, new

\* A range below the end of the address space does not wrap.
LEMMA SpanIs ==
  ASSUME NEW va \in Addr, NEW len \in Nat, va + len <= MAX_END
  PROVE  /\ PagesAt(va, len) = va..(va + len - 1)
         /\ PagesAt(va, len) \subseteq 0..(KERN_METADATA - 1)
         /\ \A n \in 0..len : PagesAt(va, n) = va..(va + n - 1)
<1>1. va \in Nat /\ MAX_END \in Nat /\ MAX_END < PAGES /\ MAX_END <= KERN_METADATA
      /\ KERN_METADATA \in Nat /\ PAGES \in Nat
  BY AddrIs, Sizes
<1>2. ASSUME NEW n \in 0..len PROVE PagesAt(va, n) = va..(va + n - 1)
  <2>1. \A k \in 0..(n - 1) : Wrap(va + k) = va + k
    <3> TAKE k \in 0..(n - 1)
    <3>1. va + k \in Nat /\ va + k < PAGES
      BY <1>1
    <3>2. QED
      BY <3>1, AddrIs, WrapIs
  <2>2. PagesAt(va, n) = {va + k : k \in 0..(n - 1)}
    BY <2>1 DEF PagesAt
  <2>3. \A p \in va..(va + n - 1) : p - va \in 0..(n - 1) /\ p = va + (p - va)
    BY <1>1
  <2>4. \A k \in 0..(n - 1) : va + k \in va..(va + n - 1)
    BY <1>1
  <2>5. QED
    BY <2>2, <2>3, <2>4
<1>3. len \in 0..len
  OBVIOUS
<1>4. PagesAt(va, len) = va..(va + len - 1)
  BY <1>2, <1>3
<1>5. va..(va + len - 1) \subseteq 0..(KERN_METADATA - 1)
  BY <1>1
<1>6. QED
  BY <1>2, <1>4, <1>5

\* One page more of the program.
LEMMA NewFrames ==
  ASSUME NEW m \in MemType, NEW pages, NEW spare, FramesOk(m, pages, spare),
         NEW page \in 0..(KERN_METADATA - 1), page \notin pages, MapNew(m, page).halt = "no"
  PROVE  FramesOk(MapNew(m, page), pages \cup {page}, spare)
<1> DEFINE m1    == phy_alloc_page(m)
           frame == NewFrame(m)
<1>1. MapNew(m, page) = set_mapping(m1, page, frame)
  BY Zenon DEF MapNew
<1>2. m1 \in MemType /\ frame \in Frame
  BY FrameIs
<1>3. m1.halt = "no"
  <2> HIDE DEF m1, frame
  <2>1. page \in Nat
    BY Sizes
  <2>2. QED
    BY <1>1, <1>2, <2>1, MappingIs
<1>4. FramesOk(m1, pages, spare \cup {frame}) /\ frame \notin spare
  BY <1>3, TakenFrames
<1> HIDE DEF m1, frame
<1>5. set_mapping(m1, page, frame).halt = "no"
  BY <1>1
<1>6. FramesOk(set_mapping(m1, page, frame), pages \cup {page}, spare)
  BY <1>2, <1>4, <1>5, MappedFrames
<1>7. QED
  BY <1>1, <1>6

\* Pages in a row, none of which is there.
LEMMA RowFrames ==
  ASSUME NEW m \in MemType, NEW pages, NEW spare, FramesOk(m, pages, spare),
         NEW va \in Addr, NEW len \in Nat, va + len <= MAX_END,
         PagesAt(va, len) \cap pages = {}, MapPages(m, va, len).halt = "no"
  PROVE  FramesOk(MapPages(m, va, len), pages \cup PagesAt(va, len), spare)
<1> DEFINE Fine(x, n) == x \in MemType /\ (x.halt = "no" =>
                           FramesOk(x, pages \cup (va..(va + n - 1)), spare))
           f == CHOOSE f : f = [n \in 0..len |-> IF n = 0 THEN m
                                                 ELSE MapNew(f[n - 1], Wrap(va + n - 1))]
<1>1. va \in Nat /\ KERN_METADATA \in Nat /\ va + len <= KERN_METADATA /\ MAX_END \in Nat
      /\ MAX_END < PAGES /\ PAGES \in Nat
  BY AddrIs, Sizes
<1>2. PagesAt(va, len) = va..(va + len - 1)
  BY SpanIs
<1>3. f = [n \in 0..len |-> IF n = 0 THEN m ELSE MapNew(f[n - 1], Wrap(va + n - 1))]
  BY <1>1, MappingExists, Zenon
<1>4. MapPages(m, va, len) = f[len]
  BY Zenon DEF MapPages
<1> HIDE DEF f
<1>5. \A n \in 0..len : f[n] = IF n = 0 THEN m ELSE MapNew(f[n - 1], Wrap(va + n - 1))
  BY <1>3, Zenon
<1> DEFINE P == {n \in 0..len : Fine(f[n], n)}
<1>6. 0 \in P
  <2>1. 0 \in 0..len
    OBVIOUS
  <2>2. f[0] = m
    BY <1>5, <2>1
  <2>3. pages \cup (va..(va + 0 - 1)) = pages
    BY <1>1
  <2>4. QED
    BY <2>1, <2>2, <2>3
<1>7. ASSUME NEW n \in 1..len, n - 1 \in P PROVE n \in P
  <2> DEFINE old  == f[n - 1]
             page == va + n - 1
             had  == pages \cup (va..(va + (n - 1) - 1))
  <2>1. n \in 0..len /\ n # 0 /\ page \in Nat /\ page < PAGES
        /\ page \in 0..(KERN_METADATA - 1) /\ page \in va..(va + len - 1)
    BY <1>1
  <2>2. Wrap(va + n - 1) = page
    BY <2>1, AddrIs, WrapIs
  <2>3. f[n] = MapNew(old, page)
    BY <1>5, <2>1, <2>2
  <2>4. old \in MemType /\ (old.halt = "no" => FramesOk(old, had, spare))
    BY <1>7
  <2>5. page \notin had /\ had \cup {page} = pages \cup (va..(va + n - 1))
    <3>1. page \notin pages
      BY <1>2, <2>1
    <3>2. page \notin va..(va + (n - 1) - 1)
      BY <1>1
    <3>3. (va..(va + (n - 1) - 1)) \cup {page} = va..(va + n - 1)
      BY <1>1
    <3> HIDE DEF page
    <3>4. QED
      BY <3>1, <3>2, <3>3
  <2> HIDE DEF old, page, had
  <2>6. MapNew(old, page) \in MemType /\ (MapNew(old, page).halt = "no" => old.halt = "no")
    BY <2>1, <2>4, MapNewIs
  <2>7. MapNew(old, page).halt = "no" => FramesOk(MapNew(old, page), had \cup {page}, spare)
    BY <2>1, <2>4, <2>5, <2>6, NewFrames
  <2>8. Fine(f[n], n)
    BY <2>3, <2>5, <2>6, <2>7
  <2>9. QED
    BY <2>1, <2>8
<1>8. len \in P
  <2> HIDE DEF P
  <2>1. 0..len \subseteq P
    BY <1>6, <1>7, UpTo, Zenon
  <2>2. QED
    BY <2>1
<1>9. QED
  BY <1>2, <1>4, <1>8

\* vir_alloc_pages takes no frame for the program.
LEMMA VirAllocFrames ==
  ASSUME FRAMES <= SIZE_BITMAP_VIRMM, NEW s, s.mem \in MemType, NEW pages \in Program, NEW spare,
         s.mem.halt = "no" => FramesOk(s.mem, pages, spare),
         NEW amount, VirAllocMem(s, amount).halt = "no"
  PROVE  FramesOk(VirAllocMem(s, amount), pages, spare)
<1> DEFINE m1 == IF GapFor(s.chain, break_, amount) = 0 THEN vspace_alloc(s.mem) ELSE s.mem
           m2 == node_alloc(m1)
           m3 == vaddr_alloc(m2)
<1>1. VirAllocMem(s, amount) = m3
  BY Zenon DEF VirAllocMem
<1>2. "vspace" \in List /\ "node" \in List /\ "vaddr" \in List
  BY DEF List, Metadata
<1>3. m1 \in MemType /\ (m1.halt = "no" => FramesOk(m1, pages, spare))
  BY <1>2, AllocChunkIs, AllocFrames, HaltedBefore DEF vspace_alloc
<1> HIDE DEF m1
<1>4. /\ m2 \in MemType
      /\ m2.halt = "no" => m1.halt = "no" /\ FramesOk(m2, pages, spare)
  BY <1>2, <1>3, AllocChunkIs, AllocFrames, HaltedBefore DEF node_alloc
<1> HIDE DEF m2
<1>5. m3.halt = "no" => FramesOk(m3, pages, spare)
  BY <1>2, <1>4, AllocFrames, HaltedBefore DEF vaddr_alloc
<1>6. QED
  BY <1>1, <1>5

\* vir_release_pages gives the frames of its pages back.
LEMMA VirReleaseFrames ==
  ASSUME FRAMES <= SIZE_BITMAP_VIRMM, NEW s \in StateType, NEW pages \in Program, NEW spare,
         s.mem.halt = "no" => FramesOk(s.mem, pages, spare), NEW va, CanRelease(s.chain, va),
         NEW gone \in SUBSET pages, gone = PagesAt(NodeOf(s.chain, va).va, NodeOf(s.chain, va).len),
         VirReleaseMem(s, va).halt = "no"
  PROVE  FramesOk(VirReleaseMem(s, va), pages \ gone, spare)
<1> DEFINE node == NodeOf(s.chain, va)
           m1 == IF Splits(s.chain, va) THEN vspace_alloc(s.mem) ELSE s.mem
           m2 == phy_release_vpages(m1, gone)
           areaMeta == s.chain[AreaOf(s.chain, va)].meta
           m3 == IF Empties(s.chain, va) THEN vspace_release(m2, areaMeta) ELSE m2
           m4 == ReleaseMeta(m3, node)
<1>1. VirReleaseMem(s, va) = m4
  BY Zenon DEF VirReleaseMem, VirReleaseRest
<1>2. "vspace" \in List /\ "node" \in List /\ "vaddr" \in List
  BY DEF List, Metadata
<1>3. s.mem \in MemType /\ areaMeta \in ChunkType /\ node \in NodeType
  <2>1. s.mem \in MemType /\ s.chain \in Seq(AreaType)
    BY DEF StateType
  <2>2. node \in NodeType /\ areaMeta \in ChunkType
    BY <2>1, FoundIs DEF AreaType
  <2>3. QED
    BY <2>1, <2>2 DEF NodeType
<1>4. m1 \in MemType /\ (m1.halt = "no" => FramesOk(m1, pages, spare))
  BY <1>2, <1>3, AllocChunkIs, AllocFrames, HaltedBefore DEF vspace_alloc
<1> HIDE DEF m1, node, areaMeta
<1>5. /\ m2 \in MemType /\ m2.halt = m1.halt
      /\ m2.halt = "no" => FramesOk(m2, pages \ gone, spare)
  <2>1. pages \in SUBSET (0..(KERN_METADATA - 1))
    BY DEF Program
  <2>2. QED
    BY <1>4, <2>1, FreeFramesIs, FreedFrames
<1> HIDE DEF m2
<1>6. /\ m3 \in MemType /\ m3.halt = m2.halt
      /\ m3.halt = "no" => FramesOk(m3, pages \ gone, spare)
  <2>1. CASE Empties(s.chain, va)
    <3>1. m3 = fmtlist_release(m2, "vspace", areaMeta)
      BY <2>1 DEF vspace_release
    <3> HIDE DEF m3
    <3>2. m3 \in MemType /\ m3.halt = m2.halt /\ SameFrames(m2, m3)
      BY <1>2, <1>3, <1>5, <3>1, ReleaseHalt, ReleaseFrames
    <3>3. QED
      BY <1>5, <3>2, FramesSame
  <2>2. CASE ~Empties(s.chain, va)
    BY <1>5, <2>2
  <2>3. QED
    BY <2>1, <2>2
<1> HIDE DEF m3
<1>7. m4.halt = m3.halt /\ SameFrames(m3, m4)
  <2>1. /\ m4.halt = m3.halt /\ node.meta.node \in ChunkType /\ node.meta.vaddr \in ChunkType
        /\ \/ m4 = fmtlist_release(m3, "node", node.meta.node)
           \/ m4 = fmtlist_release(m3, "vaddr", node.meta.vaddr)
    BY <1>3, <1>6, ReleaseMetaIs
  <2> HIDE DEF m4
  <2>2. QED
    BY <1>2, <1>6, <2>1, ReleaseFrames
<1> HIDE DEF m4
<1>8. QED
  BY <1>1, <1>6, <1>7, FramesSame
-----------------------------------------------------------------------------
\* The pages of a program: what exec has mapped, and those of its areas.
ProgramPages(areas) ==
  0..(break_ - 1) \cup UNION {PagesAt(n.va, n.len) : n \in NodesOf(areas)}

\* The pages of a node, between the program and the end of its address space.
LEMMA NodePagesIs ==
  ASSUME NEW areas \in Seq(AreaType), InOrder(areas), NEW n \in NodesOf(areas)
  PROVE  /\ n \in NodeType /\ n.va \in Nat /\ n.len \in Nat \ {0} /\ break_ <= n.va
         /\ n.va + n.len <= MAX_END /\ PagesAt(n.va, n.len) = n.va..(n.va + n.len - 1)
         /\ PagesAt(n.va, n.len) \subseteq 0..(KERN_METADATA - 1)
<1>1. n \in NodeType /\ n.va \in Nat /\ n.len \in Nat \ {0}
  BY NodeIn
<1>2. PICK k \in 1..Len(areas) : InArea(areas[k], n)
  BY NodeIn
<1>3. areas[k] \in AreaType /\ AreaOk(areas[k])
  BY DEF InOrder
<1>4. /\ break_ <= areas[k].begin /\ areas[k].end < MAX_END
      /\ areas[k].begin \in Nat /\ areas[k].end \in Nat /\ MAX_END \in Nat /\ break_ \in Nat
  BY <1>3, ListIs
<1>5. break_ <= n.va /\ n.va + n.len <= MAX_END
  BY <1>1, <1>2, <1>4 DEF InArea
<1>6. n.va \in Addr
  BY <1>1 DEF NodeType
<1>7. QED
  BY <1>1, <1>5, <1>6, SpanIs

\* Page 0 is one of them, and a page of metadata is not.
LEMMA PagesIn ==
  ASSUME NEW areas \in Seq(AreaType), InOrder(areas)
  PROVE  ProgramPages(areas) \in Program
<1>1. 0 \in 0..(break_ - 1) /\ 0..(break_ - 1) \subseteq 0..(KERN_METADATA - 1)
  BY Sizes, AddrIs
<1>2. \A n \in NodesOf(areas) : PagesAt(n.va, n.len) \subseteq 0..(KERN_METADATA - 1)
  BY NodePagesIs
<1>3. QED
  BY <1>1, <1>2 DEF ProgramPages, Program

\* vir_alloc_pages adds pages that were not there.
LEMMA PagesAdded ==
  ASSUME NEW areas \in Seq(AreaType), InOrder(areas), NEW amount \in Amount,
         NEW nodeMeta \in MetaType, NEW areaMeta \in ChunkType,
         ~NoSpace(areas, break_, amount, MAX_END), ~DropsRest(areas, break_, amount),
         NEW va, va = AllocVa(areas, break_, amount),
         NEW new, new = vir_alloc_pages(areas, break_, amount, nodeMeta, areaMeta)
  PROVE  /\ va \in Addr /\ va + amount <= MAX_END
         /\ ProgramPages(new) = ProgramPages(areas) \cup PagesAt(va, amount)
         /\ PagesAt(va, amount) \cap ProgramPages(areas) = {}
<1> DEFINE node == Node(va, amount, nodeMeta)
<1>1. /\ NodesOf(new) = NodesOf(areas) \cup {node}
      /\ \A n \in NodesOf(areas) : n.va + n.len <= va \/ va + amount <= n.va
      /\ va + amount < MAX_END
  BY AllocKeeps
<1>2. break_ <= va /\ va \in Addr
  BY GapHolds
<1>3. va \in Nat /\ break_ \in Nat /\ amount \in Nat /\ MAX_END \in Nat
  BY <1>2, AddrIs, Sizes, AmountIs
<1>4. PagesAt(va, amount) = va..(va + amount - 1)
  BY <1>1, <1>2, <1>3, SpanIs
<1>5. \A p \in PagesAt(va, amount) : p \notin 0..(break_ - 1)
  BY <1>2, <1>3, <1>4
<1>6. ASSUME NEW n \in NodesOf(areas), NEW p \in PagesAt(va, amount), p \in PagesAt(n.va, n.len)
      PROVE  FALSE
  <2>1. n.va \in Nat /\ n.len \in Nat /\ p \in n.va..(n.va + n.len - 1)
    BY <1>6, NodePagesIs
  <2>2. n.va + n.len <= va \/ va + amount <= n.va
    BY <1>1, <1>6
  <2>3. p \in va..(va + amount - 1)
    BY <1>4, <1>6
  <2> DEFINE from == n.va
             many == n.len
  <2>4. from \in Nat /\ many \in Nat /\ (from + many <= va \/ va + amount <= from)
        /\ p \in from..(from + many - 1)
    BY <2>1, <2>2
  <2> HIDE DEF from, many
  <2>5. QED
    BY <1>3, <2>3, <2>4
<1>7. node.va = va /\ node.len = amount
  BY DEF Node
<1> HIDE DEF node
<1>8. ProgramPages(new) = ProgramPages(areas) \cup PagesAt(va, amount)
  BY <1>1, <1>7 DEF ProgramPages
<1>9. PagesAt(va, amount) \cap ProgramPages(areas) = {}
  BY <1>5, <1>6 DEF ProgramPages
<1>10. QED
  BY <1>1, <1>2, <1>3, <1>8, <1>9

\* vir_release_pages takes the pages of the node, and no others.
LEMMA PagesRemoved ==
  ASSUME NEW areas \in Seq(AreaType), InOrder(areas), NEW va, CanRelease(areas, va),
         ~ReadsNull(areas, va), NEW junk \in Addr, NEW areaMeta \in ChunkType,
         NEW gone, gone = PagesAt(NodeOf(areas, va).va, NodeOf(areas, va).len),
         NEW new, new = vir_release_pages(areas, va, junk, areaMeta)
  PROVE  /\ gone \subseteq ProgramPages(areas)
         /\ ProgramPages(new) = ProgramPages(areas) \ gone
<1> DEFINE node == NodeOf(areas, va)
<1>1. NodesOf(new) = NodesOf(areas) \ {node}
  BY ReleaseKeeps
<1>2. node \in NodesOf(areas)
  <2>1. PICK k \in 1..Len(areas) : \E i \in 1..Len(areas[k].list) : node = areas[k].list[i]
    BY FoundIs
  <2>2. QED
    BY <2>1, NodeOnce
<1> HIDE DEF node
<1>3. gone = PagesAt(node.va, node.len)
  BY DEF node
<1>4. /\ node.va \in Nat /\ node.len \in Nat /\ break_ <= node.va
      /\ gone = node.va..(node.va + node.len - 1)
  BY <1>2, <1>3, NodePagesIs
<1>5. \A p \in gone : p \notin 0..(break_ - 1)
  BY <1>4, Sizes, AddrIs
<1>6. ASSUME NEW n \in NodesOf(areas), n # node, NEW p \in gone, p \in PagesAt(n.va, n.len)
      PROVE  FALSE
  <2>1. n.va \in Nat /\ n.len \in Nat /\ p \in n.va..(n.va + n.len - 1)
    BY <1>6, NodePagesIs
  <2>2. n.va + n.len <= node.va \/ node.va + node.len <= n.va
    BY <1>2, <1>6, NodesApart
  <2>3. QED
    BY <1>4, <1>6, <2>1, <2>2
<1>7. gone \subseteq ProgramPages(areas)
  BY <1>2, <1>3 DEF ProgramPages
<1>8. ProgramPages(new) = ProgramPages(areas) \ gone
  BY <1>1, <1>2, <1>3, <1>5, <1>6 DEF ProgramPages
<1>9. QED
  BY <1>7, <1>8
-----------------------------------------------------------------------------
\* As long as the chain is whole, the frames in use are those of the program.
FramesKept(s, spare) ==
  Whole(s) /\ s.mem.halt = "no" => FramesOk(s.mem, ProgramPages(s.chain), spare)

\* VirAlloc finds pages that are not there yet.
LEMMA VirAllocKept ==
  ASSUME FRAMES <= SIZE_BITMAP_VIRMM, NEW s, Sound(s), NEW amount \in Amount, NEW spare,
         FramesKept(s, spare), NEW new, new = VirAlloc(s, amount), Whole(new), new.mem.halt = "no",
         NEW va, va = AllocVa(s.chain, break_, amount)
  PROVE  /\ ProgramPages(s.chain) \in Program /\ FramesOk(new.mem, ProgramPages(s.chain), spare)
         /\ ProgramPages(new.chain) = ProgramPages(s.chain) \cup PagesAt(va, amount)
         /\ PagesAt(va, amount) \cap ProgramPages(s.chain) = {}
         /\ va \in Addr /\ va + amount <= MAX_END
<1>1. s \in StateType /\ s.mem \in MemType /\ s.chain \in Seq(AreaType)
  BY StateIs DEF Sound
<1>2. ~NoSpace(s.chain, break_, amount, MAX_END)
  BY <1>1, VirAllocIs, StateIs
<1>3. /\ new.mem = VirAllocMem(s, amount) /\ NodeMeta(s, amount) \in MetaType
      /\ new.chain = vir_alloc_pages(s.chain, break_, amount, NodeMeta(s, amount),
                                     NextChunk(s.mem, "vspace"))
      /\ NextChunk(s.mem, "vspace") \in ChunkType
      /\ new.harm = s.harm \cup (IF DropsRest(s.chain, break_, amount) THEN {"dropped"} ELSE {})
  BY <1>1, <1>2, VirAllocIs
<1>4. Whole(s) /\ ~DropsRest(s.chain, break_, amount)
  BY <1>3 DEF Whole
<1>5. InOrder(s.chain)
  BY <1>4 DEF Sound
<1>6. ProgramPages(s.chain) \in Program
  BY <1>1, <1>5, PagesIn
<1>7. FramesOk(new.mem, ProgramPages(s.chain), spare)
  BY <1>1, <1>3, <1>4, <1>6, VirAllocFrames DEF FramesKept
<1>8. /\ va \in Addr /\ va + amount <= MAX_END
      /\ ProgramPages(new.chain) = ProgramPages(s.chain) \cup PagesAt(va, amount)
      /\ PagesAt(va, amount) \cap ProgramPages(s.chain) = {}
  BY <1>1, <1>2, <1>3, <1>4, <1>5, PagesAdded
<1>9. QED
  BY <1>6, <1>7, <1>8

\* dyn_alloc of pages maps all of them.
LEMMA AllocPagesKept ==
  ASSUME FRAMES <= SIZE_BITMAP_VIRMM, NEW s, Sound(s), NEW len \in Amount, FramesKept(s, {})
  PROVE  FramesKept(AllocPages(s, len), {})
<1> DEFINE s1  == VirAlloc(s, len)
           va  == AllocVa(s.chain, break_, len)
           new == AllocPages(s, len)
           P   == ProgramPages(s.chain)
<1>1. /\ Sound(s1) /\ new.chain = s1.chain /\ new.harm = s1.harm
      /\ new.mem.halt = "no" => s1.mem.halt = "no"
  BY AllocPagesSound
<1>2. s1 \in StateType /\ s1.mem \in MemType
  <2> HIDE DEF s1
  <2>1. QED
    BY <1>1, StateIs DEF Sound
<1>3. new.mem = MapPages(s1.mem, va, len)
  <2>1. new = [s1 EXCEPT !.mem = MapPages(@, va, len)]
    BY Zenon DEF AllocPages
  <2> HIDE DEF new, s1, va
  <2>2. QED
    BY <1>2, <2>1 DEF StateType
<1>4. SUFFICES ASSUME Whole(new), new.mem.halt = "no"
               PROVE  FramesOk(new.mem, ProgramPages(new.chain), {})
  BY DEF FramesKept
<1>5. Whole(s1) /\ s1.mem.halt = "no"
  BY <1>1, <1>4 DEF Whole
<1>6. /\ FramesOk(s1.mem, P, {}) /\ ProgramPages(s1.chain) = P \cup PagesAt(va, len)
      /\ PagesAt(va, len) \cap P = {} /\ va \in Addr /\ va + len <= MAX_END
  BY <1>5, VirAllocKept
<1>7. len \in Nat
  BY AmountIs
<1> HIDE DEF s1, va, new, P
<1>8. FramesOk(MapPages(s1.mem, va, len), P \cup PagesAt(va, len), {})
  BY <1>2, <1>3, <1>4, <1>6, <1>7, RowFrames
<1>9. QED
  BY <1>1, <1>3, <1>6, <1>8

\* dyn_alloc gives a bucket its first page, whose frame it has taken before.
LEMMA FirstPageKept ==
  ASSUME FRAMES <= SIZE_BITMAP_VIRMM, NEW s, Sound(s), NEW b \in Bucket, FramesKept(s, {})
  PROVE  FramesKept(FirstPage(s, b), {})
<1> DEFINE m0    == phy_alloc_page(s.mem)
           frame == NewFrame(s.mem)
           s0    == [s EXCEPT !.mem = phy_alloc_page(@)]
           s1    == VirAlloc(s0, 1)
           va    == AllocVa(s.chain, break_, 1)
           m1    == set_mapping(s1.mem, va, frame)
           new   == FirstPage(s, b)
           P     == ProgramPages(s.chain)
<1>1. /\ Sound(s0) /\ s0.mem = m0 /\ s0.chain = s.chain /\ s0.harm = s.harm
      /\ Sound(s1) /\ new.chain = s1.chain /\ new.harm = s1.harm
      /\ FirstMem(s) \in MemType /\ (FirstMem(s).halt = "no" => s1.mem.halt = "no")
      /\ new.mem = [FirstMem(s) EXCEPT !.lists[b] = <<fmtlist_init(va)>>]
  BY FirstPageIs
<1>2. FirstMem(s) = m1
  BY Zenon DEF FirstMem
<1>3. s.mem \in MemType /\ frame \in Frame /\ (m0.halt = "no" => s.mem.halt = "no")
  BY StateIs, FrameIs DEF Sound
<1>4. s1.mem \in MemType
  <2> HIDE DEF s1
  <2>1. QED
    BY <1>1, StateIs DEF Sound
<1>5. SUFFICES ASSUME Whole(new), new.mem.halt = "no"
               PROVE  FramesOk(new.mem, ProgramPages(new.chain), {})
  BY DEF FramesKept
<1> HIDE DEF new
<1>6. m1.halt = "no" /\ SameFrames(m1, new.mem)
  <2> HIDE DEF m1, va
  <2>1. new.mem = [m1 EXCEPT !.lists[b] = <<fmtlist_init(va)>>] /\ m1 \in MemType
    BY <1>1, <1>2
  <2>2. QED
    BY <1>5, <2>1 DEF MemType, SameFrames
<1>7. FramesKept(s0, {frame}) /\ frame \notin {}
  <2>1. ASSUME Whole(s0), s0.mem.halt = "no" PROVE FramesOk(m0, P, {frame})
    <3>1. Whole(s) /\ s.mem.halt = "no" /\ m0.halt = "no"
      BY <1>1, <1>3, <2>1 DEF Whole
    <3>2. FramesOk(s.mem, P, {})
      BY <3>1 DEF FramesKept
    <3>3. FramesOk(m0, P, {} \cup {frame})
      BY <1>3, <3>1, <3>2, TakenFrames
    <3>4. {} \cup {frame} = {frame}
      OBVIOUS
    <3>5. QED
      BY <3>3, <3>4
  <2> HIDE DEF s0, m0, frame
  <2>2. QED
    BY <1>1, <2>1 DEF FramesKept
<1>8. Whole(s1) /\ s1.mem.halt = "no"
  BY <1>1, <1>2, <1>5, <1>6 DEF Whole
<1> HIDE DEF s0
<1>9. /\ FramesOk(s1.mem, P, {frame}) /\ ProgramPages(s1.chain) = P \cup PagesAt(va, 1)
      /\ PagesAt(va, 1) \cap P = {} /\ va \in Addr /\ va + 1 <= MAX_END
  <2> HIDE DEF frame
  <2>1. 1 \in Amount
    BY Sizes
  <2>2. QED
    BY <1>1, <1>7, <1>8, <2>1, VirAllocKept
<1> HIDE DEF s1, va, frame
<1>10. PagesAt(va, 1) = {va} /\ va \in 0..(KERN_METADATA - 1)
  <2>1. va \in Nat /\ 1 \in Nat
    BY <1>9, AddrIs
  <2>2. PagesAt(va, 1) = va..(va + 1 - 1) /\ PagesAt(va, 1) \subseteq 0..(KERN_METADATA - 1)
    BY <1>9, <2>1, SpanIs
  <2>3. QED
    BY <2>1, <2>2
<1>11. FramesOk(m1, P \cup {va}, {})
  <2>1. FramesOk(s1.mem, P, {} \cup {frame})
    <3>1. {} \cup {frame} = {frame}
      OBVIOUS
    <3>2. QED
      BY <1>9, <3>1
  <2>2. va \notin P
    BY <1>9, <1>10
  <2> HIDE DEF P
  <2>3. QED
    BY <1>3, <1>4, <1>6, <1>7, <1>10, <2>1, <2>2, MappedFrames
<1> HIDE DEF m1, P
<1>12. ProgramPages(new.chain) = P \cup {va}
  BY <1>1, <1>9, <1>10
<1>13. FramesOk(new.mem, P \cup {va}, {})
  BY <1>6, <1>11, FramesSame
<1>14. QED
  BY <1>12, <1>13

\* dyn_alloc of a chunk.
LEMMA AllocChunkKept ==
  ASSUME FRAMES <= SIZE_BITMAP_VIRMM, NEW s, Sound(s), NEW b \in Bucket, FramesKept(s, {})
  PROVE  FramesKept(AllocChunk(s, b), {})
<1> DEFINE s1  == WithPage(s, b)
           new == AllocChunk(s, b)
<1>1. /\ Sound(s1) /\ new.mem = fmtlist_alloc(s1.mem, b)
      /\ new.chain = s1.chain /\ new.harm = s1.harm
  BY AllocChunkSound
<1>2. FramesKept(s1, {})
  BY FirstPageKept DEF WithPage
<1> HIDE DEF s1, new
<1>3. ASSUME Whole(new), new.mem.halt = "no" PROVE FramesOk(new.mem, ProgramPages(new.chain), {})
  <2>1. s1.mem \in MemType /\ s1.chain \in Seq(AreaType) /\ b \in List
    BY <1>1, StateIs DEF Sound, List
  <2>2. Whole(s1)
    BY <1>1, <1>3 DEF Whole
  <2>3. ProgramPages(s1.chain) \in Program
    BY <1>1, <2>1, <2>2, PagesIn DEF Sound
  <2>4. s1.mem.halt = "no"
    BY <1>1, <1>3, <2>1, HaltedBefore
  <2>5. FramesOk(s1.mem, ProgramPages(s1.chain), {})
    BY <1>2, <2>2, <2>4 DEF FramesKept
  <2>6. QED
    BY <1>1, <1>3, <2>1, <2>3, <2>5, AllocFrames
<1>4. QED
  BY <1>3 DEF FramesKept, new
-----------------------------------------------------------------------------
\* A state with the frames of another keeps them, if it is no more whole than that.
LEMMA SameKept ==
  ASSUME NEW s, NEW spare, FramesKept(s, spare), NEW new, new.chain = s.chain,
         s.harm \subseteq new.harm, new.mem.halt = "no" => s.mem.halt = "no",
         SameFrames(s.mem, new.mem)
  PROVE  FramesKept(new, spare)
<1> SUFFICES ASSUME Whole(new), new.mem.halt = "no"
             PROVE  FramesOk(new.mem, ProgramPages(new.chain), spare)
  BY DEF FramesKept
<1>1. Whole(s) /\ s.mem.halt = "no"
  BY DEF Whole
<1>2. FramesOk(s.mem, ProgramPages(s.chain), spare)
  BY <1>1 DEF FramesKept
<1>3. QED
  BY <1>2, FramesSame

\* vir_release_pages gives back the frames of the node, and no others.
LEMMA VirReleaseKept ==
  ASSUME FRAMES <= SIZE_BITMAP_VIRMM, NEW s, Sound(s), FramesKept(s, {}), NEW va, NEW junk \in Addr
  PROVE  FramesKept(VirRelease(s, va, junk), {})
<1> DEFINE new  == VirRelease(s, va, junk)
           gone == PagesAt(NodeOf(s.chain, va).va, NodeOf(s.chain, va).len)
<1>1. s \in StateType /\ s.mem \in MemType /\ s.chain \in Seq(AreaType)
  BY StateIs DEF Sound
<1>2. CASE ~CanRelease(s.chain, va)
  <2>1. new.mem.halt # "no"
    BY <1>1, <1>2, VirReleaseIs, StateIs
  <2>2. QED
    BY <2>1 DEF FramesKept
<1>3. CASE CanRelease(s.chain, va)
  <2>1. /\ new.mem = VirReleaseMem(s, va)
        /\ new.chain = vir_release_pages(s.chain, va, junk, NextChunk(s.mem, "vspace"))
        /\ NextChunk(s.mem, "vspace") \in ChunkType
        /\ new.harm = s.harm \cup (IF ReadsNull(s.chain, va) THEN {"junk"} ELSE {})
    BY <1>1, <1>3, VirReleaseIs
  <2> HIDE DEF new, gone
  <2>2. ASSUME Whole(new), new.mem.halt = "no"
        PROVE  FramesOk(new.mem, ProgramPages(new.chain), {})
    <3>1. Whole(s) /\ ~ReadsNull(s.chain, va)
      BY <2>1, <2>2 DEF Whole
    <3>2. InOrder(s.chain)
      BY <3>1 DEF Sound
    <3>3. ProgramPages(s.chain) \in Program
      BY <1>1, <3>2, PagesIn
    <3>4. gone = PagesAt(NodeOf(s.chain, va).va, NodeOf(s.chain, va).len)
      BY DEF gone
    <3>5. /\ gone \subseteq ProgramPages(s.chain)
          /\ ProgramPages(new.chain) = ProgramPages(s.chain) \ gone
      BY <1>1, <1>3, <2>1, <3>1, <3>2, <3>4, PagesRemoved
    <3>6. s.mem.halt = "no" => FramesOk(s.mem, ProgramPages(s.chain), {})
      BY <3>1 DEF FramesKept
    <3>7. FramesOk(VirReleaseMem(s, va), ProgramPages(s.chain) \ gone, {})
      BY <1>1, <1>3, <2>1, <2>2, <3>3, <3>4, <3>5, <3>6, VirReleaseFrames
    <3>8. QED
      BY <2>1, <3>5, <3>7
  <2>3. QED
    BY <2>2 DEF FramesKept, new
<1>4. QED
  BY <1>2, <1>3

\* dyn_free of a chunk.
LEMMA FreeChunkKept ==
  ASSUME FRAMES <= SIZE_BITMAP_VIRMM, NEW s, Sound(s), FramesKept(s, {}), NEW b \in Bucket,
         NEW ptr \in ChunkType, NEW junk \in Addr, NEW equal \in BOOLEAN
  PROVE  FramesKept(FreeChunk(s, b, ptr, junk, equal), {})
<1> DEFINE m    == fmtlist_release(s.mem, b, ptr)
           s1   == [s EXCEPT !.mem = m]
           lost == Lost(s, b, ptr)
           list == m.lists[b]
           new  == FreeChunk(s, b, ptr, junk, equal)
<1>1. /\ m \in MemType /\ Sound(s1) /\ Sound(new)
      /\ s1.mem = m /\ s1.chain = s.chain /\ s1.harm = s.harm
      /\ Sound(lost) /\ lost.chain = s.chain /\ lost.harm = s.harm \cup Loses(s, b)
      /\ lost.mem = [m EXCEPT !.lists[b] = <<>>]
      /\ list = <<>> /\ equal => new = Fail(lost, "bug")
      /\ list = <<>> /\ ~equal => new = lost
      /\ list # <<>> /\ Len(Head(list).free) = CAPACITY => new = VirRelease(lost, ptr[1], junk)
      /\ list # <<>> /\ Len(Head(list).free) # CAPACITY => new = s1
  BY FreeChunkSound, SMTT(60)
<1>2. s.mem \in MemType /\ b \in List /\ lost \in StateType
  <2> HIDE DEF lost
  <2>1. QED
    BY <1>1, StateIs, ListsAre DEF Sound
<1>3. SameFrames(s.mem, m) /\ m.halt = s.mem.halt
  BY <1>2, ReleaseFrames, ReleaseHalt
<1> HIDE DEF m, lost, s1, new
<1>4. FramesKept(s1, {})
  BY <1>1, <1>3, SameKept
<1>5. SameFrames(m, lost.mem) /\ lost.mem.halt = m.halt
  BY <1>1 DEF SameFrames, MemType
<1>6. FramesKept(lost, {})
  <2>1. s1.harm \subseteq lost.harm /\ lost.chain = s1.chain
    BY <1>1
  <2>2. QED
    BY <1>1, <1>4, <1>5, <2>1, SameKept
<1>7. CASE list = <<>> /\ equal
  <2>1. new = Fail(lost, "bug")
    BY <1>1, <1>7
  <2>2. new.mem.halt # "no"
    BY <1>2, <2>1, StateIs
  <2>3. QED
    BY <2>2 DEF FramesKept, new
<1>8. CASE list = <<>> /\ ~equal
  BY <1>1, <1>6, <1>8 DEF new
<1>9. CASE list # <<>> /\ Len(Head(list).free) = CAPACITY
  <2>1. FramesKept(VirRelease(lost, ptr[1], junk), {})
    BY <1>1, <1>6, VirReleaseKept
  <2>2. QED
    BY <1>1, <1>9, <2>1 DEF new
<1>10. CASE list # <<>> /\ Len(Head(list).free) # CAPACITY
  BY <1>1, <1>4, <1>10 DEF new
<1>11. QED
  BY <1>7, <1>8, <1>9, <1>10
-----------------------------------------------------------------------------
(***************************************************************************)
(* The inductive invariant of the frames: in use are those of the pages of *)
(* the program and of the metadata, each once, and of the page tables.     *)
(***************************************************************************)
FramesInv ==
  /\ ExitFreesAll
  /\ phase = "runs" => FramesKept(Now, {})

\* A call keeps the frames if what it ends in does.
LEMMA BecomesKept ==
  ASSUME NEW s, FramesKept(s, {}), NEW hold, Becomes(s, hold), phase = "runs"
  PROVE  FramesInv'
<1>1. phase' = "runs" /\ harm' = s.harm
  BY DEF Becomes
<1>2. ExitFreesAll'
  BY <1>1 DEF ExitFreesAll
<1>3. FramesKept(Now, {})'
  <2>1. CASE s.mem.halt = "no"
    <3>1. mem' = s.mem /\ chain' = s.chain
      BY <2>1 DEF Becomes
    <3>2. QED
      BY <1>1, <3>1 DEF FramesKept, Whole, Now
  <2>2. CASE s.mem.halt # "no"
    <3>1. mem' = [init_memory EXCEPT !.halt = s.mem.halt]
      BY <2>2 DEF Becomes
    <3>2. mem'.halt # "no"
      BY <2>2, <3>1, FreshIs DEF MemType
    <3>3. QED
      BY <3>2 DEF FramesKept, Now
  <2>3. QED
    BY <2>1, <2>2
<1>4. QED
  BY <1>2, <1>3 DEF FramesInv

\* What exit has left is the kernel's.
LEMMA ExitKept ==
  ASSUME HeapInv, FramesInv, Exit
  PROVE  FramesInv'
<1> DEFINE m1 == thread_buckmngr_clear(mem)
           m2 == release_vspace(m1, chain)
           new == ReleaseTables(m2)
<1>1. /\ phase = "runs" /\ mem.halt = "no" /\ mem' = new /\ phase' = "gone"
      /\ ChainKept' = ChainKept /\ ("stale" \notin harm' => ~Stale(mem, new))
  BY Zenon DEF Exit, Ready, ChainKept
<1>2. mem \in MemType /\ chain \in Seq(AreaType)
  BY NowIs DEF HeapInv
<1>3. m1 \in MemType /\ FewerFrames(mem, m1, {})
  BY <1>2, ClearIs DEF thread_buckmngr_clear, FewerFrames, MemType
<1> HIDE DEF m1
<1>4. m2 \in MemType /\ FewerFrames(m1, m2, PagesOfAreas(chain))
  BY <1>2, <1>3, ReleaseVspaceIs
<1> HIDE DEF m2
<1>5. /\ m2.pte = mem.pte /\ m2.pde = mem.pde /\ m2.frames.set \subseteq mem.frames.set
      /\ mem.frames.set \ {mem.pte[page] : page \in PagesOfAreas(chain)} \subseteq m2.frames.set
  BY <1>3, <1>4 DEF FewerFrames
<1> DEFINE pages == UserPages(m2)
           roots == UserTables(m2)
           out   == {m2.pte[page] : page \in pages} \cup {m2.pde[t] : t \in roots}
<1>6. /\ new.frames.set = m2.frames.set \ out
      /\ new.pte = Restrict(m2.pte, DOMAIN m2.pte \ pages)
      /\ new.pde = Restrict(m2.pde, DOMAIN m2.pde \ roots)
  <2>1. new = [m2 EXCEPT !.frames.set = @ \ out,
                         !.pte = Restrict(@, DOMAIN @ \ pages),
                         !.pde = Restrict(@, DOMAIN @ \ roots)]
    BY Zenon DEF ReleaseTables
  <2> HIDE DEF out, pages, roots, new
  <2>2. QED
    BY <1>4, <2>1 DEF MemType, Bits
<1>7. /\ DOMAIN new.pte = DOMAIN m2.pte \ pages /\ \A p \in DOMAIN new.pte : new.pte[p] = m2.pte[p]
      /\ DOMAIN new.pde = DOMAIN m2.pde \ roots /\ \A t \in DOMAIN new.pde : new.pde[t] = m2.pde[t]
  <2> HIDE DEF out, pages, roots, new
  <2>1. QED
    BY <1>6 DEF Restrict
<1> HIDE DEF new
<1>8. ASSUME ChainKept PROVE new.frames.set \subseteq {new.pte[p] : p \in DOMAIN new.pte} \cup TablesOf(new)
  <2>1. FramesOk(mem, ProgramPages(chain), {})
    BY <1>1, <1>8, NowIs DEF FramesInv, FramesKept, Whole, ChainKept
  <2> DEFINE live == ProgramPages(chain) \cup MetaMapped(mem)
  <2>2. live \subseteq DOMAIN mem.pte
        /\ mem.frames.set = {mem.pte[page] : page \in live} \cup TablesOf(mem)
    BY <2>1 DEF FramesOk, Exact
  <2> HIDE DEF live
  <2>3. ASSUME NEW p \in DOMAIN m2.pte, m2.pte[p] \notin out PROVE p \in DOMAIN new.pte
    <3>1. p \notin pages
      BY <2>3
    <3> HIDE DEF pages, roots, out
    <3>2. QED
      BY <1>7, <3>1
  <2>4. ASSUME NEW t \in DOMAIN m2.pde, m2.pde[t] \notin out PROVE t \in DOMAIN new.pde
    <3>1. t \notin roots
      BY <2>4
    <3> HIDE DEF pages, roots, out
    <3>2. QED
      BY <1>7, <3>1
  <2> HIDE DEF pages, roots, out
  <2>5. SUFFICES ASSUME NEW f \in new.frames.set
                 PROVE  f \in {new.pte[p] : p \in DOMAIN new.pte} \cup TablesOf(new)
    OBVIOUS
  <2>6. f \in mem.frames.set /\ f \notin out
    BY <1>5, <1>6
  <2>7. CASE \E p \in live : f = mem.pte[p]
    <3>1. PICK p \in live : f = mem.pte[p]
      BY <2>7
    <3>2. p \in DOMAIN new.pte /\ new.pte[p] = f
      BY <1>5, <1>7, <2>2, <2>3, <2>6, <3>1
    <3>3. QED
      BY <3>2
  <2>8. CASE f \in TablesOf(mem)
    <3>1. PICK t \in DOMAIN mem.pde : f = mem.pde[t]
      BY <2>8 DEF TablesOf
    <3>2. t \in DOMAIN new.pde /\ new.pde[t] = f
      BY <1>5, <1>7, <2>4, <2>6, <3>1
    <3>3. QED
      BY <3>2 DEF TablesOf
  <2>9. QED
    BY <2>2, <2>6, <2>7, <2>8
<1>9. ASSUME ChainKept, ~Stale(mem, new), NEW f \in KernelFrames(new)
      PROVE  f \in new.frames.set
  <2>1. FramesOk(mem, ProgramPages(chain), {})
    BY <1>1, <1>9, NowIs DEF FramesInv, FramesKept, Whole, ChainKept
  <2> DEFINE live == ProgramPages(chain) \cup MetaMapped(mem)
  <2>2. Exact(mem, live, {})
    BY <2>1 DEF FramesOk
  <2>3. PagesOfAreas(chain) \subseteq UserPages(mem)
    <3>1. ProgramPages(chain) \in Program
      <4>1. Whole(Now)
        BY <1>9 DEF Whole, ChainKept, Now
      <4>2. InOrder(chain)
        BY <4>1, NowIs DEF HeapInv, Sound
      <4>3. QED
        BY <1>2, <4>2, PagesIn
    <3>2. ProgramPages(chain) \subseteq 0..(KERN_METADATA - 1) /\ KERN_METADATA \in Nat
      BY <3>1, Sizes DEF Program
    <3>3. ProgramPages(chain) \subseteq DOMAIN mem.pte
      BY <2>2 DEF Exact
    <3>4. PagesOfAreas(chain) \subseteq ProgramPages(chain)
      BY DEF PagesOfAreas, ProgramPages
    <3>5. QED
      BY <3>2, <3>3, <3>4 DEF UserPages
  <2>4. /\ f \notin {mem.pte[page] : page \in UserPages(mem)}
        /\ UserPages(m2) = UserPages(mem)
    <3> HIDE DEF pages, roots, out
    <3>1. QED
      BY <1>5, <1>9 DEF Stale, UserPages
  <2>5. f \in mem.frames.set /\ f \notin {mem.pde[t] : t \in roots}
    <3>1. ASSUME NEW p \in DOMAIN new.pte, f = new.pte[p]
          PROVE  f \in mem.frames.set /\ f \notin {mem.pde[t] : t \in roots}
      <4>1. p \in DOMAIN mem.pte /\ p \notin UserPages(mem) /\ f = mem.pte[p]
        BY <1>5, <1>7, <2>4, <3>1
      <4>2. p \in live
        BY <1>2, <4>1, PteIs, Sizes DEF UserPages, MetaMapped
      <4>3. f \in mem.frames.set /\ f \notin TablesOf(mem)
        BY <2>2, <4>1, <4>2 DEF Exact
      <4>4. roots \subseteq DOMAIN mem.pde
        BY <1>5 DEF UserTables
      <4> HIDE DEF roots
      <4>5. QED
        BY <4>3, <4>4 DEF TablesOf
    <3>2. ASSUME NEW t \in DOMAIN new.pde, f = new.pde[t]
          PROVE  f \in mem.frames.set /\ f \notin {mem.pde[u] : u \in roots}
      <4>1. t \in DOMAIN mem.pde /\ t \notin roots /\ f = mem.pde[t]
        BY <1>5, <1>7, <3>2
      <4>2. roots \subseteq DOMAIN mem.pde
        BY <1>5 DEF UserTables
      <4> HIDE DEF roots
      <4>3. f \in mem.frames.set
        BY <2>2, <4>1 DEF Exact, TablesOf
      <4>4. \A u \in roots : mem.pde[u] # f
        BY <2>2, <4>1, <4>2 DEF Exact
      <4>5. QED
        BY <4>3, <4>4
    <3> HIDE DEF roots
    <3>3. QED
      BY <1>9, <3>1, <3>2 DEF KernelFrames
  <2>6. f \in m2.frames.set
    BY <1>5, <2>3, <2>4, <2>5
  <2>7. f \notin out
    <3> HIDE DEF roots
    <3>1. QED
      BY <1>5, <2>4, <2>5
  <2> HIDE DEF out, roots, pages
  <2>8. QED
    BY <1>6, <2>6, <2>7
<1>10. ExitFreesAll'
  <2>1. ASSUME ChainKept PROVE new.frames.set \subseteq KernelFrames(new)
    BY <1>8, <2>1 DEF KernelFrames, TablesOf
  <2>2. ASSUME ChainKept, ~Stale(mem, new) PROVE KernelFrames(new) \subseteq new.frames.set
    BY <1>9, <2>2
  <2>3. ExitFreesAll' = (ChainKept' /\ phase' = "gone" =>
          /\ mem'.frames.set \subseteq KernelFrames(mem')
          /\ "stale" \notin harm' => mem'.frames.set = KernelFrames(mem'))
    BY DEF ExitFreesAll, KernelFrames
  <2> HIDE DEF new
  <2>4. mem' = new /\ ChainKept' = ChainKept /\ ("stale" \notin harm' => ~Stale(mem, new))
    BY <1>1
  <2>5. CASE ~ChainKept
    BY <2>3, <2>4, <2>5
  <2>6. CASE ChainKept /\ Stale(mem, new)
    BY <2>1, <2>3, <2>4, <2>6
  <2>7. CASE ChainKept /\ ~Stale(mem, new)
    <3>1. new.frames.set = KernelFrames(new)
      BY <2>1, <2>2, <2>7
    <3>2. QED
      BY <2>3, <2>4, <3>1
  <2>8. QED
    BY <2>5, <2>6, <2>7
<1>11. QED
  BY <1>1, <1>10 DEF FramesInv

\* No frame is in use at the start.
LEMMA MemoryStart == FramesOk(init_memory, {}, {}) /\ DOMAIN init_memory.pde = {}
<1>6. /\ init_memory.pte = NoMap /\ init_memory.pde = NoMap /\ init_memory.frames.set = {}
      /\ init_memory.virmm.set = {} /\ init_memory.virmm.prev = 0
  BY DEF init_memory, bitmap_init
<1>7. DOMAIN NoMap = {}
  BY DEF NoMap
<1>8. MetaMapped(init_memory) = {} /\ TablesOf(init_memory) = {}
  BY <1>6, <1>7 DEF MetaMapped, TablesOf
<1>2. {KERN_METADATA + n : n \in 0..(0 - 1)} = {}
  OBVIOUS
<1>3. FirstRound(init_memory)
  BY <1>6, <1>8, <1>2 DEF FirstRound
<1>4. Exact(init_memory, {}, {})
  BY <1>6, <1>7, <1>8 DEF Exact
<1>5. QED
  BY <1>6, <1>7, <1>8, <1>3, <1>4 DEF FramesOk

\* Memory with one more page table.
WithTable(m, t) == [phy_alloc_page(m) EXCEPT !.pde = Mapped(@, t, NewFrame(m))]

\* A page table has a frame of its own.
LEMMA TableFrames ==
  ASSUME NEW m \in MemType, NEW t \in Nat \cup {Abandoned}, NEW new,
         new = WithTable(m, t), new.halt = "no"
  PROVE  /\ m.halt = "no" /\ DOMAIN new.pde = DOMAIN m.pde \cup {t}
         /\ (t \notin DOMAIN m.pde /\ FramesOk(m, {}, {}) => FramesOk(new, {}, {}))
<1> DEFINE m0    == phy_alloc_page(m)
           frame == NewFrame(m)
<1>1. m0 \in MemType /\ frame \in Frame /\ Obeys(m, m0)
  BY FrameIs, FrameObeys
<1>2. new \in MemType
  BY TableIs DEF WithTable
<1>3. /\ new.halt = m0.halt /\ new.pte = m0.pte /\ new.frames = m0.frames
      /\ new.virmm = m0.virmm /\ new.pde = Mapped(m0.pde, t, frame)
  <2> HIDE DEF m0, frame
  <2>1. new = [m0 EXCEPT !.pde = Mapped(@, t, frame)]
    BY DEF m0, frame, WithTable
  <2>2. QED
    BY <1>1, <2>1 DEF MemType
<1>4. m0.pde = m.pde
  BY <1>3, FrameTaken
<1>5. m.halt = "no"
  BY <1>3, FrameIs
<1>6. ASSUME t \notin DOMAIN m.pde, FramesOk(m, {}, {}) PROVE FramesOk(new, {}, {})
  <2>1. FramesOk(m0, {}, {} \cup {frame})
    BY <1>3, <1>6, TakenFrames
  <2> HIDE DEF m0, frame
  <2>2. Exact(m0, {} \cup MetaMapped(m0), {} \cup {frame}) /\ FirstRound(m0)
    BY <2>1 DEF FramesOk
  <2>3. Exact(new, {} \cup MetaMapped(m0), {})
    BY <1>1, <1>2, <1>3, <1>4, <1>6, <2>2, TableExact
  <2>4. MetaMapped(new) = MetaMapped(m0)
    BY <1>3 DEF MetaMapped
  <2>5. FirstRound(new)
    BY <1>3, <2>2, <2>4 DEF FirstRound
  <2>6. QED
    BY <2>3, <2>4, <2>5 DEF FramesOk
<1>7. DOMAIN new.pde = DOMAIN m.pde \cup {t}
  BY <1>3, <1>4 DEF Mapped
<1>8. QED
  BY <1>5, <1>6, <1>7

\* exec starts with the frames of the program and of its page tables.
LEMMA FramesStart == Init => FramesInv
<1> SUFFICES ASSUME Init PROVE FramesKept(Now, {})
  BY DEF Init, ExitFreesAll, FramesInv
<1>1. PICK m \in {init_memory, Forked} : mem = Loaded(m)
  BY DEF Init
<1> DEFINE m1  == [phy_alloc_page(m) EXCEPT !.pde = Mapped(@, 0, NewFrame(m))]
           new == MapPages(m1, 0, break_)
<1>2. init_memory \in MemType /\ m \in MemType
  BY FreshIs, TableIs DEF Forked
<1>3. mem = new
  BY <1>1, Zenon DEF Loaded
<1>4. SUFFICES ASSUME new.halt = "no" PROVE FramesOk(new, ProgramPages(<<>>), {})
  <2>1. chain = <<>>
    BY DEF Init
  <2> HIDE DEF new
  <2>2. QED
    BY <1>3, <2>1, NowIs DEF FramesKept
<1>5. 0 \in Nat /\ break_ \in Nat
  BY Sizes, AddrIs
<1>6. m1 \in MemType
  BY <1>2, <1>5, TableIs
<1>7. m1.halt = "no"
  <2> HIDE DEF m1
  <2>1. QED
    BY <1>4, <1>5, <1>6, MapPagesIs
<1>8. FramesOk(m, {}, {}) /\ DOMAIN m.pde \subseteq {Abandoned}
  <2>1. FramesOk(init_memory, {}, {}) /\ DOMAIN init_memory.pde = {}
    BY MemoryStart
  <2>2. CASE m = init_memory
    BY <2>1, <2>2
  <2>3. CASE m = Forked
    <3>1. Forked.halt = "no"
      <4> HIDE DEF m1
      <4>1. m.halt = "no"
        <5>1. 0 \in Nat \cup {Abandoned}
          OBVIOUS
        <5>2. QED
          BY <1>2, <1>7, <5>1, TableFrames DEF m1, WithTable
      <4>2. QED
        BY <2>3, <4>1
    <3>2. Abandoned \notin DOMAIN init_memory.pde
      BY <2>1
    <3>3. /\ FramesOk(Forked, {}, {})
          /\ DOMAIN Forked.pde = DOMAIN init_memory.pde \cup {Abandoned}
      <4>1. Abandoned \in Nat \cup {Abandoned}
        OBVIOUS
      <4> DEFINE m0 == init_memory
      <4>2. Forked = WithTable(m0, Abandoned)
        BY DEF Forked, WithTable
      <4>3. m0 \in MemType /\ FramesOk(m0, {}, {}) /\ Abandoned \notin DOMAIN m0.pde
        BY <1>2, <2>1, <3>2
      <4> HIDE DEF m0
      <4>4. FramesOk(Forked, {}, {}) /\ DOMAIN Forked.pde = DOMAIN m0.pde \cup {Abandoned}
        BY <3>1, <4>1, <4>2, <4>3, TableFrames
      <4>5. QED
        BY <4>4 DEF m0
    <3>4. QED
      BY <2>1, <2>3, <3>3
  <2>4. QED
    BY <2>2, <2>3
<1>9. FramesOk(m1, {}, {})
  <2>1. 0 \notin DOMAIN m.pde
    BY <1>8 DEF Abandoned
  <2>2. 0 \in Nat \cup {Abandoned}
    OBVIOUS
  <2>3. m1 = WithTable(m, 0)
    BY DEF WithTable
  <2> HIDE DEF m1
  <2>4. QED
    BY <1>2, <1>7, <1>8, <2>1, <2>2, <2>3, TableFrames
<1> HIDE DEF m1
<1>11. 0 \in Addr /\ break_ \in Nat /\ 0 + break_ <= MAX_END
  BY Sizes, AddrIs
<1>12. FramesOk(new, {} \cup PagesAt(0, break_), {})
  BY <1>4, <1>6, <1>9, <1>11, RowFrames DEF new
<1>13. PagesAt(0, break_) = 0..(break_ - 1)
  <2>1. PagesAt(0, break_) = 0..(0 + break_ - 1)
    BY <1>11, SpanIs
  <2>2. QED
    BY <1>11, <2>1
<1>14. ProgramPages(<<>>) = 0..(break_ - 1)
  <2>1. NodesOf(<<>>) = {}
    BY DEF NodesOf
  <2>2. QED
    BY <2>1 DEF ProgramPages
<1>15. QED
  BY <1>12, <1>13, <1>14

\* Every step keeps the frames.
LEMMA FramesKeep ==
  ASSUME FRAMES <= SIZE_BITMAP_VIRMM
  PROVE  HeapInv /\ FramesInv /\ [Next]_vars => FramesInv'
<1> SUFFICES ASSUME HeapInv, FramesInv, [Next]_vars PROVE FramesInv'
  OBVIOUS
<1>1. Sound(Now) /\ held \in SUBSET HeldType
  BY DEF HeapInv
<1>2. Ready => phase = "runs" /\ FramesKept(Now, {})
  BY DEF Ready, FramesInv
<1>3. ASSUME NEW b \in Bucket, CallAllocChunk(b) PROVE FramesInv'
  <2> DEFINE s    == AllocChunk(Now, b)
             hold == held \cup {Chunk(NextChunk(WithPage(Now, b).mem, b))}
  <2>1. Ready /\ Becomes(s, hold)
    BY <1>3 DEF CallAllocChunk
  <2>2. FramesKept(s, {})
    BY <1>1, <1>2, <2>1, AllocChunkKept
  <2> HIDE DEF s, hold
  <2>3. QED
    BY <1>2, <2>1, <2>2, BecomesKept
<1>4. ASSUME NEW len \in Large, CallAllocPages(len) PROVE FramesInv'
  <2> DEFINE s    == AllocPages(Now, len)
             hold == held \cup {Pages(AllocVa(chain, break_, len), len)}
  <2>1. Ready /\ Becomes(s, hold)
    BY <1>4 DEF CallAllocPages
  <2>2. len \in Amount
    BY Sizes
  <2>3. FramesKept(s, {})
    BY <1>1, <1>2, <2>1, <2>2, AllocPagesKept
  <2> HIDE DEF s, hold
  <2>4. QED
    BY <1>2, <2>1, <2>3, BecomesKept
<1>5. ASSUME NEW h \in held, CallFreeChunk(h) PROVE FramesInv'
  <2>1. Ready /\ h \in Chunks(held)
    BY <1>5 DEF CallFreeChunk, Chunks
  <2>2. h.ptr \in ChunkType
    BY <1>1, <2>1, HeldChunk
  <2>3. ASSUME NEW b \in Holders(Now, h.ptr), NEW junk \in Junk, NEW equal \in BOOLEAN,
               Becomes(FreeChunk(Now, b, h.ptr, junk, equal), held \ {h})
        PROVE  FramesInv'
    <3> DEFINE s    == FreeChunk(Now, b, h.ptr, junk, equal)
               hold == held \ {h}
    <3>1. b \in Bucket /\ junk \in Addr
      BY Sizes DEF Holders
    <3>2. FramesKept(s, {})
      BY <1>1, <1>2, <2>1, <2>2, <3>1, FreeChunkKept
    <3> HIDE DEF s, hold
    <3>3. Becomes(s, hold)
      BY <2>3 DEF s, hold
    <3>4. QED
      BY <1>2, <2>1, <3>2, <3>3, BecomesKept
  <2>4. ASSUME Becomes(Fail(Now, "bug"), {}) PROVE FramesInv'
    <3>1. Fail(Now, "bug").mem.halt # "no"
      BY <1>1, StateIs DEF Sound
    <3>2. FramesKept(Fail(Now, "bug"), {})
      BY <3>1 DEF FramesKept
    <3>3. QED
      BY <1>2, <2>1, <2>4, <3>2, BecomesKept
  <2>5. QED
    BY <1>5, <2>3, <2>4 DEF CallFreeChunk
<1>6. ASSUME NEW h \in held, CallFreePages(h) PROVE FramesInv'
  <2>1. PICK junk \in Junk : Becomes(VirRelease(Now, h.va, junk), held \ {h})
    BY <1>6 DEF CallFreePages
  <2>2. Ready /\ junk \in Addr
    BY <1>6, Sizes DEF CallFreePages
  <2> DEFINE s    == VirRelease(Now, h.va, junk)
             hold == held \ {h}
  <2>3. FramesKept(s, {})
    BY <1>1, <1>2, <2>2, VirReleaseKept
  <2> HIDE DEF s, hold
  <2>4. Becomes(s, hold)
    BY <2>1 DEF s, hold
  <2>5. QED
    BY <1>2, <2>2, <2>3, <2>4, BecomesKept
<1>7. CASE Exit
  BY <1>7, ExitKept
<1>8. CASE UNCHANGED vars
  <2>1. Now' = Now /\ phase' = phase
    BY <1>8 DEF vars, Now
  <2>2. FramesKept(Now, {})' <=> FramesKept(Now, {})
    BY <2>1 DEF FramesKept, Whole
  <2>3. ExitFreesAll'
    BY <1>8 DEF vars, FramesInv, ExitFreesAll, ChainKept, Tables
  <2>4. QED
    BY <2>1, <2>2, <2>3 DEF FramesInv
<1>9. QED
  BY <1>3, <1>4, <1>5, <1>6, <1>7, <1>8 DEF Next

\* The frames of a program that runs.
LEMMA ExactFrames == HeapInv /\ FramesInv => FramesExact
<1> SUFFICES ASSUME HeapInv, FramesInv, ChainKept, Running
             PROVE  /\ LivePages \subseteq DOMAIN mem.pte
                    /\ mem.frames.set = {mem.pte[page] : page \in LivePages} \cup Tables
                    /\ \A p, q \in LivePages : mem.pte[p] = mem.pte[q] => p = q
                    /\ \A p \in LivePages : mem.pte[p] \notin Tables
  BY DEF FramesExact
<1>1. FramesOk(mem, ProgramPages(chain), {})
  BY NowIs DEF FramesInv, FramesKept, Whole, ChainKept, Running
<1>2. Range(Nodes(chain)) = NodesOf(chain)
  BY NowIs, AllNodes DEF HeapInv
<1>3. LivePages = ProgramPages(chain) \cup MetaMapped(mem)
  BY <1>2 DEF LivePages, NodePages, ProgramPages, MetaMapped
<1>4. Tables = TablesOf(mem)
  BY DEF Tables, TablesOf
<1>5. Exact(mem, LivePages, {})
  BY <1>1, <1>3 DEF FramesOk
<1>6. QED
  BY <1>4, <1>5 DEF Exact

(***************************************************************************)
(* While the program runs and its chain is whole, the frames in use are    *)
(* those of its pages, of the metadata and of the page tables, each given  *)
(* to one of them only, if there are not more frames than pages of         *)
(* metadata: else the scan of the metadata comes round, and the frame of a *)
(* metadata page that was released before is lost.                         *)
(***************************************************************************)
THEOREM FramesStayExact ==
  ASSUME FRAMES <= SIZE_BITMAP_VIRMM
  PROVE  Spec => []FramesExact
<1>1. Init => FramesInv
  BY FramesStart
<1>2. HeapInv /\ FramesInv /\ [Next]_vars => FramesInv'
  BY FramesKeep
<1>3. HeapInv /\ FramesInv => FramesExact
  BY ExactFrames
<1>4. QED
  BY <1>1, <1>2, <1>3, HeapInvHolds, PTL DEF Spec

(***************************************************************************)
(* exit leaves in use the frames of the kernel and of the table that exec  *)
(* has abandoned, and no other, whatever the program has not freed and     *)
(* whatever its buckets have lost; and all of these, unless an entry that  *)
(* a released page has left in a table names one of them.                  *)
(***************************************************************************)
THEOREM ExitFreesFrames ==
  ASSUME FRAMES <= SIZE_BITMAP_VIRMM
  PROVE  Spec => []ExitFreesAll
<1>1. Init => FramesInv
  BY FramesStart
<1>2. HeapInv /\ FramesInv /\ [Next]_vars => FramesInv'
  BY FramesKeep
<1>3. FramesInv => ExitFreesAll
  BY DEF FramesInv
<1>4. QED
  BY <1>1, <1>2, <1>3, HeapInvHolds, PTL DEF Spec
-----------------------------------------------------------------------------
\* Chunk c of a list l of the kernel is in use: its page is given out, and if a list of the
\* kernel has the page it is l, where c is not free.
Out(m, l, c) ==
  /\ Taken(m, c[1]) /\ c[1] \notin BucketPages(m)
  /\ \A i \in Metadata : \A k \in 1..Len(m.lists[i]) :
       m.lists[i][k].va = c[1] => i = l /\ c[2] \notin Range(m.lists[i][k].free)

\* The lists of the kernel, and the chunks of them that are in use.
MetaHeld(m, used) ==
  /\ \A l \in Metadata : \A k \in 1..Len(m.lists[l]) :
       /\ IsInjective(m.lists[l][k].free)
       /\ \A j \in 1..Len(m.lists[l]) : m.lists[l][j].va = m.lists[l][k].va => j = k
  /\ \A l \in Metadata : \A c \in ChunkType : <<l, c>> \in used => Out(m, l, c)
  /\ \A i, l \in Metadata : \A c, d \in ChunkType :
       <<i, c>> \in used /\ <<l, d>> \in used /\ c[1] = d[1] => i = l

\* Pages in use, other than those of the buckets, stay so.
KeepsOthers(m, new) ==
  /\ \A l \in Metadata : new.lists[l] = m.lists[l]
  /\ \A p : Taken(m, p) /\ p \notin BucketPages(m) => Taken(new, p) /\ p \notin BucketPages(new)

\* What buckets do with their pages does not matter to the kernel's lists.
LEMMA OthersHeld ==
  ASSUME NEW m, NEW new, NEW used, MetaHeld(m, used), KeepsOthers(m, new)
  PROVE  MetaHeld(new, used)
<1>1. ASSUME NEW l \in Metadata, NEW c \in ChunkType, Out(m, l, c) PROVE Out(new, l, c)
  BY <1>1 DEF Out, KeepsOthers
<1>2. \A l \in Metadata : new.lists[l] = m.lists[l]
  BY DEF KeepsOthers
<1>3. QED
  BY <1>1, <1>2 DEF MetaHeld

\* A chunk that is in use no more is not missed.
LEMMA FewerHeld ==
  ASSUME NEW m, NEW used, MetaHeld(m, used), NEW less \in SUBSET used
  PROVE  MetaHeld(m, less)
BY DEF MetaHeld

\* A bucket's pages, when no list of a bucket is changed.
LEMMA BucketsSame ==
  ASSUME NEW m, NEW new, \A b \in Bucket : new.lists[b] = m.lists[b]
  PROVE  BucketPages(new) = BucketPages(m)
<1>1. \A b \in Bucket : PagesOf(new, b) = PagesOf(m, b)
  BY DEF PagesOf
<1>2. QED
  BY <1>1 DEF BucketPages

\* A list of the kernel gets one more page of metadata.
LEMMA RoomHeld ==
  ASSUME NEW m \in MemType, NEW l \in Metadata, NEW used, MetaHeld(m, used),
         MetaApart(m, BucketPages(m)), NEW m1, m1 = WithRoom(m, l), m1.halt = "no"
  PROVE  MetaHeld(m1, used) /\ MetaApart(m1, BucketPages(m1)) /\ m1 \in MemType
<1>1. l \in List /\ \A b \in Bucket : b \in List /\ b # l
  BY ListsAre
<1> DEFINE n == Len(m.lists[l])
<1>2. /\ m1 \in MemType
      /\ \A other \in List : other # l => m1.lists[other] = m.lists[other]
      /\ \/ m1 = m
         \/ \E page \in KernPage :
              /\ TookKern(m, m1, page) /\ Len(m1.lists[l]) = n + 1
              /\ \A k \in 1..n : m1.lists[l][k] = m.lists[l][k]
              /\ m1.lists[l][n + 1] = fmtlist_init(page)
              /\ PagesOf(m1, l) = PagesOf(m, l) \cup {page}
  BY <1>1, RoomPages
<1>3. BucketPages(m1) = BucketPages(m)
  BY <1>1, <1>2, BucketsSame
<1>4. CASE m1 = m
  BY <1>2, <1>4
<1>5. ASSUME NEW page \in KernPage, TookKern(m, m1, page), Len(m1.lists[l]) = n + 1,
             \A k \in 1..n : m1.lists[l][k] = m.lists[l][k],
             m1.lists[l][n + 1] = fmtlist_init(page),
             PagesOf(m1, l) = PagesOf(m, l) \cup {page}
      PROVE  MetaHeld(m1, used) /\ MetaApart(m1, BucketPages(m1))
  <2>1. /\ page \notin BucketPages(m) /\ Taken(m1, page)
        /\ \A p : Taken(m, p) => Taken(m1, p) /\ p # page
    BY <1>5, TookApart
  <2>2. n \in Nat /\ fmtlist_init(page).va = page /\ IsInjective(fmtlist_init(page).free)
    BY <1>1, ListType, InitFree
  <2>3. \A k : k \in 1..(n + 1) <=> k \in 1..n \/ k = n + 1
    BY <2>2
  <2>4. \A i \in Metadata : i \in List
    BY ListsAre
  <2>5. ASSUME NEW i \in Metadata, NEW k \in 1..Len(m1.lists[i])
        PROVE  \/ k \in 1..Len(m.lists[i]) /\ m1.lists[i][k] = m.lists[i][k]
                  /\ m1.lists[i][k].va # page
               \/ i = l /\ k = n + 1 /\ m1.lists[i][k] = fmtlist_init(page)
    <3>1. CASE k \in 1..Len(m.lists[i]) /\ m1.lists[i][k] = m.lists[i][k]
      <4>1. m.lists[i][k].va \in PagesOf(m, i)
        BY <2>4, <3>1, PagesAre
      <4>2. Taken(m, m.lists[i][k].va)
        BY <4>1 DEF MetaApart
      <4>3. QED
        BY <2>1, <3>1, <4>2
    <3> HIDE DEF n
    <3>2. CASE i # l
      BY <1>2, <2>4, <3>1, <3>2
    <3>3. CASE i = l
      BY <1>5, <2>3, <3>1, <3>3 DEF n
    <3>4. QED
      BY <3>2, <3>3
  <2>6. MetaApart(m1, BucketPages(m1))
    <3>1. \A i \in Metadata : i # l => PagesOf(m1, i) = PagesOf(m, i)
      BY <1>2, <2>4 DEF PagesOf
    <3>2. \A i \in Metadata : page \notin PagesOf(m, i)
      BY <2>1 DEF MetaApart
    <3>3. \A i \in Metadata : \A p \in PagesOf(m1, i) : p \in PagesOf(m, i) \/ (p = page /\ i = l)
      BY <1>5, <3>1
    <3>4. \A i \in Metadata : \A p \in PagesOf(m1, i) : Taken(m1, p) /\ p \notin BucketPages(m)
      BY <2>1, <3>3 DEF MetaApart
    <3>5. ASSUME NEW i \in Metadata, NEW j \in Metadata, i # j
          PROVE  PagesOf(m1, i) \cap PagesOf(m1, j) = {}
      <4>1. PagesOf(m, i) \cap PagesOf(m, j) = {}
        BY <3>5 DEF MetaApart
      <4>2. QED
        BY <3>2, <3>3, <3>5, <4>1
    <3>6. \A p \in BucketPages(m) : p >= KERN_METADATA => Taken(m1, p)
      BY <2>1 DEF MetaApart
    <3>7. QED
      BY <1>3, <3>4, <3>5, <3>6 DEF MetaApart
  <2>7. ASSUME NEW i \in Metadata, NEW k \in 1..Len(m1.lists[i])
        PROVE  /\ IsInjective(m1.lists[i][k].free)
               /\ \A j \in 1..Len(m1.lists[i]) : m1.lists[i][j].va = m1.lists[i][k].va => j = k
    <3>1. IsInjective(m1.lists[i][k].free)
      BY <2>2, <2>5 DEF MetaHeld
    <3>2. ASSUME NEW j \in 1..Len(m1.lists[i]), m1.lists[i][j].va = m1.lists[i][k].va PROVE j = k
      <4>1. CASE k \in 1..Len(m.lists[i]) /\ m1.lists[i][k] = m.lists[i][k] /\ m1.lists[i][k].va # page
        <5>1. j \in 1..Len(m.lists[i]) /\ m1.lists[i][j] = m.lists[i][j]
          BY <2>2, <2>5, <3>2, <4>1
        <5>2. QED
          BY <3>2, <4>1, <5>1 DEF MetaHeld
      <4>2. CASE i = l /\ k = n + 1 /\ m1.lists[i][k] = fmtlist_init(page)
        <5>1. m1.lists[i][j].va = page
          BY <2>2, <3>2, <4>2
        <5>2. QED
          BY <2>5, <4>2, <5>1
      <4>3. QED
        BY <2>5, <4>1, <4>2
    <3>3. QED
      BY <3>1, <3>2
  <2>8. ASSUME NEW i \in Metadata, NEW c \in ChunkType, Out(m, i, c) PROVE Out(m1, i, c)
    <3>1. Taken(m1, c[1]) /\ c[1] # page /\ c[1] \notin BucketPages(m1)
      BY <1>3, <2>1, <2>8 DEF Out
    <3>2. ASSUME NEW j \in Metadata, NEW k \in 1..Len(m1.lists[j]), m1.lists[j][k].va = c[1]
          PROVE  j = i /\ c[2] \notin Range(m1.lists[j][k].free)
      <4>1. k \in 1..Len(m.lists[j]) /\ m1.lists[j][k] = m.lists[j][k]
        BY <2>2, <2>5, <3>1, <3>2
      <4>2. QED
        BY <2>8, <3>2, <4>1 DEF Out
    <3>3. QED
      BY <3>1, <3>2 DEF Out
  <2>9. MetaHeld(m1, used)
    BY <2>7, <2>8 DEF MetaHeld
  <2>10. QED
    BY <2>6, <2>9
<1>6. QED
  BY <1>2, <1>4, <1>5

\* The kernel takes a chunk of its own, which was not in use.
LEMMA TakeHeld ==
  ASSUME NEW m \in MemType, NEW l \in Metadata, NEW used, MetaHeld(m, used),
         MetaApart(m, BucketPages(m)), NEW new, NEW k, NEW c \in ChunkType,
         TookChunk(m, new, l, k, c)
  PROVE  MetaHeld(new, used \cup {<<l, c>>}) /\ <<l, c>> \notin used
<1>1. l \in List /\ (\A b \in Bucket : b \in List /\ b # l) /\ (\A i \in Metadata : i \in List)
  BY ListsAre
<1>2. /\ k \in 1..Len(m.lists[l]) /\ m.lists[l][k].free # <<>>
      /\ new.virmm = m.virmm
      /\ \A other \in List : other # l => new.lists[other] = m.lists[other]
      /\ Len(new.lists[l]) = Len(m.lists[l])
      /\ \A j \in 1..Len(m.lists[l]) :
           /\ new.lists[l][j].va = m.lists[l][j].va
           /\ new.lists[l][j].free = IF j = k THEN Tail(m.lists[l][j].free) ELSE m.lists[l][j].free
      /\ c = <<m.lists[l][k].va, Head(m.lists[l][k].free)>>
  BY DEF TookChunk
<1> DEFINE free == m.lists[l][k].free
<1>3. free \in Seq(1..CAPACITY) /\ IsInjective(free)
  BY <1>1, <1>2, ListType DEF MetaHeld
<1>4. /\ IsInjective(Tail(free)) /\ Head(free) \notin Range(Tail(free)) /\ Head(free) \in Range(free)
      /\ Range(Tail(free)) \subseteq Range(free)
  BY <1>2, <1>3, TailIs
<1>5. c[1] = m.lists[l][k].va /\ c[2] = Head(free)
  BY <1>2
<1>6. new.lists[l][k].free = Tail(free)
  BY <1>2
<1> HIDE DEF free
<1>7. BucketPages(new) = BucketPages(m) /\ \A p : Taken(new, p) <=> Taken(m, p)
  <2>1. \A b \in Bucket : new.lists[b] = m.lists[b]
    BY <1>1, <1>2
  <2>2. QED
    BY <1>2, <2>1, BucketsSame DEF Taken
<1>8. ASSUME NEW i \in Metadata, NEW j \in 1..Len(new.lists[i])
      PROVE  /\ j \in 1..Len(m.lists[i]) /\ new.lists[i][j].va = m.lists[i][j].va
             /\ \/ new.lists[i][j].free = m.lists[i][j].free
                \/ i = l /\ j = k
             /\ Range(new.lists[i][j].free) \subseteq Range(m.lists[i][j].free)
             /\ IsInjective(new.lists[i][j].free)
  <2>1. CASE i = l
    <3>1. j \in 1..Len(m.lists[i]) /\ new.lists[i][j].va = m.lists[i][j].va
      BY <1>2, <2>1
    <3>2. CASE j = k
      BY <1>4, <1>6, <2>1, <3>1, <3>2 DEF free
    <3>3. CASE j # k
      <4>1. new.lists[i][j].free = m.lists[i][j].free
        BY <1>2, <2>1, <3>1, <3>3
      <4>2. QED
        BY <3>1, <4>1 DEF MetaHeld
    <3>4. QED
      BY <3>2, <3>3
  <2>2. CASE i # l
    BY <1>1, <1>2, <2>2 DEF MetaHeld
  <2>3. QED
    BY <2>1, <2>2
<1>9. ASSUME NEW i \in Metadata, NEW d \in ChunkType, Out(m, i, d) PROVE Out(new, i, d)
  <2>1. Taken(new, d[1]) /\ d[1] \notin BucketPages(new)
    BY <1>7, <1>9 DEF Out
  <2>2. ASSUME NEW h \in Metadata, NEW j \in 1..Len(new.lists[h]), new.lists[h][j].va = d[1]
        PROVE  h = i /\ d[2] \notin Range(new.lists[h][j].free)
    <3>1. /\ j \in 1..Len(m.lists[h]) /\ m.lists[h][j].va = d[1]
          /\ Range(new.lists[h][j].free) \subseteq Range(m.lists[h][j].free)
      BY <1>8, <2>2
    <3>2. h = i /\ d[2] \notin Range(m.lists[h][j].free)
      BY <1>9, <3>1 DEF Out
    <3>3. QED
      BY <3>1, <3>2
  <2>3. QED
    BY <2>1, <2>2 DEF Out
<1>10. m.lists[l][k].va \in PagesOf(m, l) /\ \A i \in Metadata : \A j \in 1..Len(m.lists[i]) :
         m.lists[i][j].va \in PagesOf(m, i)
  BY <1>1, <1>2, PagesAre
<1>11. Out(new, l, c)
  <2>1. Taken(new, c[1]) /\ c[1] \notin BucketPages(new)
    BY <1>5, <1>7, <1>10 DEF MetaApart
  <2>2. ASSUME NEW i \in Metadata, NEW j \in 1..Len(new.lists[i]), new.lists[i][j].va = c[1]
        PROVE  i = l /\ c[2] \notin Range(new.lists[i][j].free)
    <3>1. j \in 1..Len(m.lists[i]) /\ m.lists[i][j].va = m.lists[l][k].va
      BY <1>5, <1>8, <2>2
    <3>2. i = l
      BY <1>10, <3>1 DEF MetaApart
    <3>3. j = k
      BY <1>2, <3>1, <3>2 DEF MetaHeld
    <3>4. QED
      BY <1>4, <1>5, <1>6, <3>2, <3>3
  <2>3. QED
    BY <2>1, <2>2 DEF Out
<1>12. \A d \in ChunkType : \A i \in Metadata : Out(m, i, d) /\ d[1] = c[1] => i = l
  BY <1>2, <1>5 DEF Out
<1>13. ~Out(m, l, c)
  BY <1>2, <1>4, <1>5 DEF Out, free
<1>14. <<l, c>> \notin used
  BY <1>13 DEF MetaHeld
<1> DEFINE more == used \cup {<<l, c>>}
<1>15. \A i \in Metadata : \A d \in ChunkType : <<i, d>> \in more => <<i, d>> \in used \/ (i = l /\ d = c)
  OBVIOUS
<1> HIDE DEF more
<1>16. \A i \in Metadata : \A d \in ChunkType : <<i, d>> \in more => Out(new, i, d)
  BY <1>9, <1>11, <1>15 DEF MetaHeld
<1>17. \A i, j \in Metadata : \A d, e \in ChunkType :
         <<i, d>> \in more /\ <<j, e>> \in more /\ d[1] = e[1] => i = j
  BY <1>12, <1>15 DEF MetaHeld
<1>18. \A i \in Metadata : \A j \in 1..Len(new.lists[i]) :
         /\ IsInjective(new.lists[i][j].free)
         /\ \A h \in 1..Len(new.lists[i]) : new.lists[i][h].va = new.lists[i][j].va => h = j
  BY <1>8 DEF MetaHeld
<1>19. MetaHeld(new, more)
  BY <1>16, <1>17, <1>18 DEF MetaHeld
<1>20. QED
  BY <1>14, <1>19 DEF more

\* fmtlist_alloc of a list of the kernel.
LEMMA AllocHeld ==
  ASSUME NEW m \in MemType, NEW l \in Metadata, NEW used, MetaHeld(m, used),
         MetaApart(m, BucketPages(m)), NEW new, new = fmtlist_alloc(m, l), new.halt = "no",
         NEW c, c = NextChunk(m, l)
  PROVE  /\ MetaHeld(new, used \cup {<<l, c>>}) /\ <<l, c>> \notin used
         /\ MetaApart(new, BucketPages(new)) /\ new \in MemType /\ c \in ChunkType
<1> DEFINE m1  == WithRoom(m, l)
           new1 == fmtlist_alloc(m, l)
<1>1. l \in List /\ c \in ChunkType
  BY ListsAre, AllocChunkIs
<1>2. /\ new1 \in MemType /\ new1.halt = m1.halt /\ new1.virmm = m1.virmm
      /\ \A other \in List : other # l => new1.lists[other] = m1.lists[other]
      /\ Len(new1.lists[l]) = Len(m1.lists[l])
      /\ \A j \in 1..Len(m1.lists[l]) : new1.lists[l][j].va = m1.lists[l][j].va
      /\ \E k \in 1..Len(m1.lists[l]) :
           /\ m1.lists[l][k].free # <<>>
           /\ new1.lists[l][k].free = Tail(m1.lists[l][k].free)
           /\ NextChunk(m, l) = <<m1.lists[l][k].va, Head(m1.lists[l][k].free)>>
           /\ \A j \in 1..Len(m1.lists[l]) : j # k => new1.lists[l][j] = m1.lists[l][j]
           /\ k # 1 => m1.lists[l][1].free = <<>>
  BY <1>1, TakePages
<1>3. new = new1
  OBVIOUS
<1> HIDE DEF new1
<1>4. \E k : TookChunk(m1, new, l, k, c)
  BY <1>2, <1>3 DEF TookChunk
<1>5. m1.halt = "no"
  BY <1>2, <1>3
<1> HIDE DEF m1
<1>6. MetaHeld(m1, used) /\ MetaApart(m1, BucketPages(m1)) /\ m1 \in MemType
  BY <1>5, RoomHeld DEF m1
<1>7. MetaHeld(new, used \cup {<<l, c>>}) /\ <<l, c>> \notin used
  BY <1>1, <1>4, <1>6, TakeHeld
<1>8. MetaApart(new, BucketPages(new))
  <2>1. MetaApart(new1, BucketPages(m)) /\ \A b \in Bucket : new1.lists[b] = m.lists[b]
    BY <1>3, MetaAlloc DEF new1
  <2>2. QED
    BY <1>3, <2>1, BucketsSame
<1>9. QED
  BY <1>1, <1>2, <1>3, <1>7, <1>8

\* fmtlist_release of a list of the kernel: the chunk, or its page with the whole list.
LEMMA GivenCases ==
  ASSUME NEW m \in MemType, NEW l \in List, NEW c \in ChunkType, c[1] >= KERN_METADATA,
         NEW new, new = fmtlist_release(m, l, c)
  PROVE  /\ new \in MemType
         /\ \/ new = m /\ c[1] \notin PagesOf(m, l)
            \/ \E k : GaveChunk(m, new, l, k, c)
            \/ \E k : /\ AtPage(m, l, k, c) /\ Len(BackFree(m, l, k, c)) = CAPACITY
                      /\ new.lists[l] = <<>>
                      /\ \A other \in List : other # l => new.lists[other] = m.lists[other]
                      /\ \A p : Taken(m, p) /\ p # c[1] => Taken(new, p)
<1> DEFINE k    == PlaceOf(m, l, c[1])
           page == m.lists[l][k]
           back == [page EXCEPT !.free = <<c[2]>> \o page.free]
           old  == m.lists[l]
           list == [old EXCEPT ![k] = back]
           new1 == fmtlist_release(m, l, c)
<1>1. new1 \in MemType /\ (c[1] \notin PagesOf(m, l) => new1 = m)
  BY ReleaseChunkIs, ZenonT(30)
<1>2. CASE c[1] \notin PagesOf(m, l)
  <2> HIDE DEF new1
  <2>1. QED
    BY <1>1, <1>2 DEF new1
<1>3. CASE c[1] \in PagesOf(m, l)
  <2>1. /\ k \in 1..Len(m.lists[l]) /\ page.va = c[1] /\ list \in Seq(PageType)
        /\ back.va = page.va /\ back.free = <<c[2]>> \o page.free
        /\ \E rest \in Seq(PageType) :
             /\ new1.lists = [m.lists EXCEPT ![l] = rest]
             /\ \/ rest = list /\ new1.virmm = m.virmm
                   /\ (Len(back.free) = CAPACITY => c[1] < KERN_METADATA /\ ~(k > 1))
                \/ /\ Len(back.free) = CAPACITY /\ c[1] >= KERN_METADATA
                   /\ rest = <<>> /\ new1.virmm.set = m.virmm.set \ {c[1] - KERN_METADATA}
                \/ /\ Len(back.free) = CAPACITY /\ ~(c[1] >= KERN_METADATA) /\ k > 1
                   /\ rest = RemoveAt(list, k) /\ new1.virmm = m.virmm
    BY <1>3, ReleaseChunkIs, ZenonT(30)
  <2>2. back.free = BackFree(m, l, k, c) /\ AtPage(m, l, k, c)
    BY <2>1 DEF BackFree, AtPage
  <2> HIDE DEF new1, k, page, back, list
  <2>3. /\ m.lists \in [List -> Seq(PageType)] /\ old \in Seq(PageType)
        /\ c[1] \in Nat /\ KERN_METADATA \in Nat /\ Len(old) \in Nat
    BY ListType, Sizes, AddrIs DEF ChunkType
  <2>4. PICK rest \in Seq(PageType) :
             /\ new1.lists = [m.lists EXCEPT ![l] = rest]
             /\ \/ rest = list /\ new1.virmm = m.virmm
                \/ /\ Len(back.free) = CAPACITY /\ rest = <<>>
                   /\ new1.virmm.set = m.virmm.set \ {c[1] - KERN_METADATA}
    BY <2>1
  <2>5. /\ new1.lists[l] = rest
        /\ \A other \in List : other # l => new1.lists[other] = m.lists[other]
    BY <2>3, <2>4
  <2>6. CASE rest = list /\ new1.virmm = m.virmm
    <3>1. Len(list) = Len(old) /\ \A j \in 1..Len(old) : list[j] = IF j = k THEN back ELSE old[j]
      <4> HIDE DEF old
      <4>1. old \in Seq(PageType) /\ k \in 1..Len(old)
        BY <2>1, <2>3 DEF old
      <4>2. QED
        BY <4>1 DEF list
    <3>2. back.va = old[k].va /\ back.free = <<c[2]>> \o old[k].free
      BY <2>1 DEF page
    <3>3. \A j \in 1..Len(old) :
            /\ list[j].va = old[j].va
            /\ list[j].free = IF j = k THEN <<c[2]>> \o old[j].free ELSE old[j].free
      BY <3>1, <3>2
    <3>4. k \in 1..Len(old) /\ old[k].va = c[1]
      BY <2>1 DEF page
    <3>5. GaveChunk(m, new1, l, k, c)
      BY <2>5, <2>6, <3>1, <3>3, <3>4 DEF GaveChunk
    <3>6. QED
      BY <1>1, <3>5 DEF new1
  <2>7. CASE /\ Len(back.free) = CAPACITY /\ rest = <<>>
             /\ new1.virmm.set = m.virmm.set \ {c[1] - KERN_METADATA}
    <3>1. ASSUME NEW p, Taken(m, p), p # c[1] PROVE Taken(new1, p)
      <4>1. p \in Nat
        BY <3>1, TakenIs
      <4>2. \A i, j \in Nat : i # j => i - KERN_METADATA # j - KERN_METADATA
        BY <2>3
      <4>3. p - KERN_METADATA # c[1] - KERN_METADATA
        BY <2>3, <3>1, <4>1, <4>2, Zenon
      <4>4. QED
        BY <2>7, <3>1, <4>3 DEF Taken
    <3>2. QED
      BY <1>1, <2>2, <2>5, <2>7, <3>1 DEF new1
  <2>8. QED
    BY <2>4, <2>6, <2>7
<1>4. QED
  BY <1>2, <1>3

\* A chunk in use goes back to its page.
LEMMA GaveHeld ==
  ASSUME NEW m \in MemType, NEW l \in Metadata, NEW used, MetaHeld(m, used),
         NEW c \in ChunkType, <<l, c>> \in used, NEW new, NEW k, GaveChunk(m, new, l, k, c)
  PROVE  MetaHeld(new, used \ {<<l, c>>})
<1>1. l \in List /\ (\A b \in Bucket : b \in List /\ b # l) /\ (\A i \in Metadata : i \in List)
  BY ListsAre
<1>2. /\ k \in 1..Len(m.lists[l]) /\ m.lists[l][k].va = c[1]
      /\ new.virmm = m.virmm
      /\ \A other \in List : other # l => new.lists[other] = m.lists[other]
      /\ Len(new.lists[l]) = Len(m.lists[l])
      /\ \A j \in 1..Len(m.lists[l]) :
           /\ new.lists[l][j].va = m.lists[l][j].va
           /\ new.lists[l][j].free = IF j = k THEN <<c[2]>> \o m.lists[l][j].free
                                     ELSE m.lists[l][j].free
  BY DEF GaveChunk
<1>3. Out(m, l, c)
  BY DEF MetaHeld
<1> DEFINE free == m.lists[l][k].free
           x    == c[2]
           back == <<x>> \o free
<1>4. free \in Seq(1..CAPACITY) /\ IsInjective(free)
  BY <1>1, <1>2, ListType DEF MetaHeld
<1>5. x \in 1..CAPACITY /\ x \notin Range(free)
  BY <1>2, <1>3 DEF Out, ChunkType
<1>6. new.lists[l][k].free = back
  BY <1>2
<1> HIDE DEF free, x
<1>7. Range(back) = Range(free) \cup {x} /\ IsInjective(back)
  <2> DEFINE S == 1..CAPACITY
  <2>1. free \in Seq(S) /\ x \in S
    BY <1>4, <1>5
  <2> HIDE DEF S
  <2>2. Range(back) = Range(free) \cup {x}
    BY <2>1, FrontIs
  <2>3. IsInjective(back)
    BY <1>4, <1>5, <2>1, FrontOnce
  <2>4. QED
    BY <2>2, <2>3
<1> HIDE DEF back
<1>8. BucketPages(new) = BucketPages(m) /\ \A p : Taken(new, p) <=> Taken(m, p)
  <2>1. \A b \in Bucket : new.lists[b] = m.lists[b]
    BY <1>1, <1>2
  <2>2. QED
    BY <1>2, <2>1, BucketsSame DEF Taken
<1>9. ASSUME NEW i \in Metadata, NEW j \in 1..Len(new.lists[i])
      PROVE  /\ j \in 1..Len(m.lists[i]) /\ new.lists[i][j].va = m.lists[i][j].va
             /\ \/ new.lists[i][j].free = m.lists[i][j].free
                \/ i = l /\ j = k /\ new.lists[i][j].free = back
             /\ IsInjective(new.lists[i][j].free)
  <2>1. CASE i = l
    <3>1. j \in 1..Len(m.lists[i]) /\ new.lists[i][j].va = m.lists[i][j].va
      BY <1>2, <2>1
    <3>2. CASE j = k
      BY <1>6, <1>7, <2>1, <3>1, <3>2
    <3>3. CASE j # k
      <4>1. new.lists[i][j].free = m.lists[i][j].free
        BY <1>2, <2>1, <3>1, <3>3
      <4>2. QED
        BY <3>1, <4>1 DEF MetaHeld
    <3>4. QED
      BY <3>2, <3>3
  <2>2. CASE i # l
    BY <1>1, <1>2, <2>2 DEF MetaHeld
  <2>3. QED
    BY <2>1, <2>2
<1>10. \A d \in ChunkType : d = <<d[1], d[2]>>
  BY DEF ChunkType
<1> DEFINE less == used \ {<<l, c>>}
<1>11. ASSUME NEW i \in Metadata, NEW d \in ChunkType, <<i, d>> \in less PROVE Out(new, i, d)
  <2>1. Out(m, i, d) /\ (i # l \/ d # c)
    BY <1>11 DEF MetaHeld
  <2>2. Taken(new, d[1]) /\ d[1] \notin BucketPages(new)
    BY <1>8, <2>1 DEF Out
  <2>3. ASSUME NEW h \in Metadata, NEW j \in 1..Len(new.lists[h]), new.lists[h][j].va = d[1]
        PROVE  h = i /\ d[2] \notin Range(new.lists[h][j].free)
    <3>1. j \in 1..Len(m.lists[h]) /\ m.lists[h][j].va = d[1]
      BY <1>9, <2>3
    <3>2. h = i /\ d[2] \notin Range(m.lists[h][j].free)
      BY <2>1, <3>1 DEF Out
    <3>3. CASE new.lists[h][j].free = m.lists[h][j].free
      BY <3>2, <3>3
    <3>4. CASE h = l /\ j = k /\ new.lists[h][j].free = back
      <4>1. d[1] = c[1] /\ d # c
        BY <1>2, <2>1, <3>1, <3>2, <3>4
      <4>2. d[2] # c[2]
        BY <1>10, <4>1
      <4>3. QED
        BY <1>7, <3>2, <3>4, <4>2 DEF free, x
    <3>5. QED
      BY <1>9, <3>3, <3>4
  <2>4. QED
    BY <2>2, <2>3 DEF Out
<1>12. \A i, j \in Metadata : \A d, e \in ChunkType :
         <<i, d>> \in less /\ <<j, e>> \in less /\ d[1] = e[1] => i = j
  BY DEF MetaHeld
<1>13. \A i \in Metadata : \A j \in 1..Len(new.lists[i]) :
         /\ IsInjective(new.lists[i][j].free)
         /\ \A h \in 1..Len(new.lists[i]) : new.lists[i][h].va = new.lists[i][j].va => h = j
  BY <1>9 DEF MetaHeld
<1> HIDE DEF less
<1>14. MetaHeld(new, less)
  BY <1>11, <1>12, <1>13 DEF MetaHeld
<1>15. QED
  BY <1>14 DEF less

\* A list is dropped when a page of it is all free: no other chunk of the page is in use.
LEMMA EmptiedHeld ==
  ASSUME NEW m \in MemType, NEW l \in Metadata, NEW used, MetaHeld(m, used),
         NEW c \in ChunkType, <<l, c>> \in used, NEW new, NEW k, AtPage(m, l, k, c),
         Len(BackFree(m, l, k, c)) = CAPACITY, new.lists[l] = <<>>,
         \A other \in List : other # l => new.lists[other] = m.lists[other],
         \A p : Taken(m, p) /\ p # c[1] => Taken(new, p)
  PROVE  MetaHeld(new, used \ {<<l, c>>})
<1>1. l \in List /\ (\A b \in Bucket : b \in List /\ b # l) /\ (\A i \in Metadata : i \in List)
  BY ListsAre
<1>2. k \in 1..Len(m.lists[l]) /\ m.lists[l][k].va = c[1]
  BY DEF AtPage
<1>3. Out(m, l, c)
  BY DEF MetaHeld
<1> DEFINE free == m.lists[l][k].free
           x    == c[2]
           back == <<x>> \o free
<1>4. free \in Seq(1..CAPACITY) /\ IsInjective(free) /\ Len(back) = CAPACITY
  BY <1>1, <1>2, ListType DEF MetaHeld, BackFree
<1>5. x \in 1..CAPACITY /\ x \notin Range(free)
  BY <1>2, <1>3 DEF Out, ChunkType
<1> HIDE DEF free, x
<1>6. back \in Seq(1..CAPACITY) /\ Range(back) = Range(free) \cup {x} /\ IsInjective(back)
  <2> DEFINE S == 1..CAPACITY
  <2>1. free \in Seq(S) /\ x \in S
    BY <1>4, <1>5
  <2> HIDE DEF S
  <2>2. back \in Seq(S) /\ Range(back) = Range(free) \cup {x}
    BY <2>1, FrontIs
  <2>3. IsInjective(back)
    BY <1>4, <1>5, <2>1, FrontOnce
  <2>4. QED
    BY <2>2, <2>3 DEF S
<1> HIDE DEF back
<1>7. Range(free) \cup {x} = 1..CAPACITY
  <2>1. CAPACITY \in Nat
    BY Sizes
  <2>2. QED
    BY <1>4, <1>6, <2>1, FitsIs
<1>8. BucketPages(new) = BucketPages(m)
  BY <1>1, BucketsSame
<1>9. \A i \in Metadata : \A j \in 1..Len(new.lists[i]) :
        i # l /\ j \in 1..Len(m.lists[i]) /\ new.lists[i][j] = m.lists[i][j]
  <2>1. Len(new.lists[l]) = 0
    OBVIOUS
  <2>2. ASSUME NEW i \in Metadata, NEW j \in 1..Len(new.lists[i]) PROVE i # l
    BY <2>1, <2>2
  <2>3. QED
    BY <1>1, <2>2
<1> DEFINE less == used \ {<<l, c>>}
<1>10. ASSUME NEW i \in Metadata, NEW d \in ChunkType, <<i, d>> \in less PROVE Out(new, i, d)
  <2>1. Out(m, i, d) /\ (i # l \/ d # c)
    BY <1>10 DEF MetaHeld
  <2>2. d[1] # c[1]
    <3>1. SUFFICES ASSUME d[1] = c[1] PROVE FALSE
      OBVIOUS
    <3>2. i = l /\ d[2] \notin Range(free)
      BY <1>2, <2>1, <3>1 DEF Out, free
    <3>3. d[2] \in 1..CAPACITY /\ d = <<d[1], d[2]>> /\ c = <<c[1], c[2]>>
      BY DEF ChunkType
    <3>4. d[2] = c[2]
      BY <1>7, <3>2, <3>3 DEF x
    <3>5. QED
      BY <2>1, <3>1, <3>2, <3>3, <3>4
  <2>3. Taken(new, d[1]) /\ d[1] \notin BucketPages(new)
    BY <1>8, <2>1, <2>2 DEF Out
  <2>4. ASSUME NEW h \in Metadata, NEW j \in 1..Len(new.lists[h]), new.lists[h][j].va = d[1]
        PROVE  h = i /\ d[2] \notin Range(new.lists[h][j].free)
    <3>1. j \in 1..Len(m.lists[h]) /\ new.lists[h][j] = m.lists[h][j]
      BY <1>9
    <3>2. m.lists[h][j].va = d[1]
      BY <2>4, <3>1
    <3>3. QED
      BY <2>1, <3>1, <3>2 DEF Out
  <2>5. QED
    BY <2>3, <2>4 DEF Out
<1>11. \A i, j \in Metadata : \A d, e \in ChunkType :
         <<i, d>> \in less /\ <<j, e>> \in less /\ d[1] = e[1] => i = j
  BY DEF MetaHeld
<1>12. ASSUME NEW i \in Metadata, NEW j \in 1..Len(new.lists[i])
       PROVE  /\ IsInjective(new.lists[i][j].free)
              /\ \A h \in 1..Len(new.lists[i]) : new.lists[i][h].va = new.lists[i][j].va => h = j
  <2>1. j \in 1..Len(m.lists[i]) /\ new.lists[i][j] = m.lists[i][j]
    BY <1>9
  <2>2. IsInjective(m.lists[i][j].free)
    BY <2>1 DEF MetaHeld
  <2>3. ASSUME NEW h \in 1..Len(new.lists[i]), new.lists[i][h].va = new.lists[i][j].va PROVE h = j
    <3>1. h \in 1..Len(m.lists[i]) /\ m.lists[i][h].va = m.lists[i][j].va
      BY <1>9, <2>1, <2>3
    <3>2. QED
      BY <2>1, <3>1 DEF MetaHeld
  <2>4. QED
    BY <2>1, <2>2, <2>3
<1> HIDE DEF less
<1>13. MetaHeld(new, less)
  BY <1>10, <1>11, <1>12 DEF MetaHeld
<1>14. QED
  BY <1>13 DEF less

\* fmtlist_release of a chunk of the kernel's own.
LEMMA ReleaseHeld ==
  ASSUME NEW m \in MemType, NEW l \in Metadata, NEW used, MetaHeld(m, used),
         MetaApart(m, BucketPages(m)), NEW c \in ChunkType, <<l, c>> \in used,
         NEW new, new = fmtlist_release(m, l, c)
  PROVE  /\ MetaHeld(new, used \ {<<l, c>>}) /\ MetaApart(new, BucketPages(new))
         /\ new \in MemType /\ new.halt = m.halt
<1>1. l \in List /\ c[1] >= KERN_METADATA
  BY ListsAre, TakenIs DEF MetaHeld, Out
<1>2. MetaApart(new, BucketPages(new)) /\ new.halt = m.halt
  <2>1. /\ MetaApart(new, BucketPages(m)) /\ new.halt = m.halt
        /\ \A b \in Bucket : new.lists[b] = m.lists[b]
    BY MetaRelease
  <2>2. QED
    BY <2>1, BucketsSame
<1>3. /\ new \in MemType
      /\ \/ new = m /\ c[1] \notin PagesOf(m, l)
         \/ \E k : GaveChunk(m, new, l, k, c)
         \/ \E k : /\ AtPage(m, l, k, c) /\ Len(BackFree(m, l, k, c)) = CAPACITY
                   /\ new.lists[l] = <<>>
                   /\ \A other \in List : other # l => new.lists[other] = m.lists[other]
                   /\ \A p : Taken(m, p) /\ p # c[1] => Taken(new, p)
  BY <1>1, GivenCases
<1>4. MetaHeld(new, used \ {<<l, c>>})
  <2>1. CASE new = m
    BY <2>1, FewerHeld
  <2>2. ASSUME NEW k, GaveChunk(m, new, l, k, c) PROVE MetaHeld(new, used \ {<<l, c>>})
    BY <2>2, GaveHeld
  <2>3. ASSUME NEW k, AtPage(m, l, k, c), Len(BackFree(m, l, k, c)) = CAPACITY,
               new.lists[l] = <<>>,
               \A other \in List : other # l => new.lists[other] = m.lists[other],
               \A p : Taken(m, p) /\ p # c[1] => Taken(new, p)
        PROVE  MetaHeld(new, used \ {<<l, c>>})
    BY <2>3, EmptiedHeld
  <2>4. QED
    BY <1>3, <2>1, <2>2, <2>3
<1>5. QED
  BY <1>2, <1>3, <1>4

-----------------------------------------------------------------------------
\* The metadata that areas and their nodes are made of.
Used(areas) ==
  {<<"vspace", areas[k].meta>> : k \in 1..Len(areas)}
    \cup {<<"node", n.meta.node>> : n \in NodesOf(areas)}
    \cup {<<"vaddr", n.meta.vaddr>> : n \in NodesOf(areas)}

\* No two areas and no two nodes are made of the same.
OwnMeta(areas) ==
  /\ \A j, k \in 1..Len(areas) : areas[j].meta = areas[k].meta => j = k
  /\ \A n, p \in NodesOf(areas) : n.meta.node = p.meta.node => n = p
  /\ \A n, p \in NodesOf(areas) : n.meta.vaddr = p.meta.vaddr => n = p

MetaKept(s) ==
  Whole(s) /\ s.mem.halt = "no" => MetaHeld(s.mem, Used(s.chain)) /\ OwnMeta(s.chain)

\* Areas with one more node, the first of which has a new area if there was none.
LEMMA MetaAdded ==
  ASSUME NEW areas \in Seq(AreaType), OwnMeta(areas), NEW new \in Seq(AreaType), NEW node,
         NodesOf(new) = NodesOf(areas) \cup {node}, NEW more, Used(areas) \subseteq more,
         <<"node", node.meta.node>> \notin Used(areas) /\ <<"node", node.meta.node>> \in more,
         <<"vaddr", node.meta.vaddr>> \notin Used(areas) /\ <<"vaddr", node.meta.vaddr>> \in more,
         \/ Len(new) = Len(areas) /\ \A j \in 1..Len(areas) : new[j].meta = areas[j].meta
         \/ Len(new) = 1 /\ <<"vspace", new[1].meta>> \in more
  PROVE  Used(new) \subseteq more /\ OwnMeta(new)
<1>1. \A n \in NodesOf(areas) : /\ n.meta.node # node.meta.node /\ <<"node", n.meta.node>> \in more
                                /\ n.meta.vaddr # node.meta.vaddr /\ <<"vaddr", n.meta.vaddr>> \in more
  BY DEF Used
<1>2. \A n \in NodesOf(new) : n \in NodesOf(areas) \/ n = node
  OBVIOUS
<1>3. \A n \in NodesOf(new) : <<"node", n.meta.node>> \in more /\ <<"vaddr", n.meta.vaddr>> \in more
  BY <1>1, <1>2
<1>4. \A n, p \in NodesOf(new) : /\ n.meta.node = p.meta.node => n = p
                                 /\ n.meta.vaddr = p.meta.vaddr => n = p
  BY <1>1, <1>2 DEF OwnMeta
<1>5. /\ \A j \in 1..Len(new) : <<"vspace", new[j].meta>> \in more
      /\ \A j, k \in 1..Len(new) : new[j].meta = new[k].meta => j = k
  <2>1. CASE Len(new) = Len(areas) /\ \A j \in 1..Len(areas) : new[j].meta = areas[j].meta
    <3>1. \A j \in 1..Len(areas) : <<"vspace", areas[j].meta>> \in more
      BY DEF Used
    <3>2. QED
      BY <2>1, <3>1 DEF OwnMeta
  <2>2. CASE Len(new) = 1 /\ <<"vspace", new[1].meta>> \in more
    <3>1. \A j \in 1..Len(new) : j = 1
      BY <2>2
    <3>2. QED
      BY <2>2, <3>1
  <2>3. QED
    BY <2>1, <2>2
<1>6. Used(new) \subseteq more
  BY <1>3, <1>5 DEF Used
<1>7. QED
  BY <1>4, <1>5, <1>6 DEF OwnMeta

\* vir_alloc_pages leaves the areas their metadata, or makes the only one of its own.
LEMMA AllocMetas ==
  ASSUME NEW areas \in Seq(AreaType), NEW amount \in Amount,
         NEW nodeMeta \in MetaType, NEW areaMeta \in ChunkType,
         NEW new, new = vir_alloc_pages(areas, break_, amount, nodeMeta, areaMeta)
  PROVE  \/ Len(new) = Len(areas) /\ \A j \in 1..Len(areas) : new[j].meta = areas[j].meta
         \/ GapFor(areas, break_, amount) = 0 /\ Len(new) = 1 /\ new[1].meta = areaMeta
<1> DEFINE k     == GapFor(areas, break_, amount)
           va    == AllocVa(areas, break_, amount)
           node  == Node(va, amount, nodeMeta)
           fresh == vir_alloc_pages(areas, break_, amount, nodeMeta, areaMeta)
<1>1. k \in 0..Len(areas) /\ (k = 0 => fresh = <<Area(va, Wrap(va + amount), <<node>>, areaMeta)>>)
  BY AllocIs
<1>2. k > 0 => /\ Len(fresh) = Len(areas)
               /\ Extended(fresh[k], areas[k], node, Wrap(areas[k].end + amount))
               /\ \A j \in 1..Len(areas) : j # k => fresh[j] = areas[j]
  BY AllocIs
<1>3. new = fresh
  OBVIOUS
<1> HIDE DEF k, va, node, fresh
<1>4. CASE k = 0
  BY <1>1, <1>3, <1>4 DEF Area, k
<1>5. CASE k > 0
  <2>1. \A j \in 1..Len(areas) : fresh[j].meta = areas[j].meta
    BY <1>2, <1>5 DEF Extended
  <2>2. QED
    BY <1>2, <1>3, <1>5, <2>1
<1>6. QED
  BY <1>1, <1>4, <1>5

\* vir_alloc_pages makes the new node and area of metadata that was not in use.
LEMMA VirAllocMeta ==
  ASSUME NEW s, Sound(s), NEW amount \in Amount, MetaKept(s),
         MetaApart(s.mem, BucketPages(s.mem)), NEW new, new = VirAlloc(s, amount),
         Whole(new), new.mem.halt = "no"
  PROVE  /\ MetaHeld(new.mem, Used(new.chain)) /\ OwnMeta(new.chain)
         /\ MetaApart(new.mem, BucketPages(new.mem))
<1> DEFINE va   == AllocVa(s.chain, break_, amount)
           meta == NodeMeta(s, amount)
           area == NextChunk(s.mem, "vspace")
           node == Node(va, amount, meta)
           k    == GapFor(s.chain, break_, amount)
           m1   == IF k = 0 THEN vspace_alloc(s.mem) ELSE s.mem
           m2   == node_alloc(m1)
           m3   == vaddr_alloc(m2)
           old  == Used(s.chain)
           U1   == IF k = 0 THEN old \cup {<<"vspace", area>>} ELSE old
           U2   == U1 \cup {<<"node", meta.node>>}
           U3   == U2 \cup {<<"vaddr", meta.vaddr>>}
<1>1. s \in StateType /\ s.mem \in MemType /\ s.chain \in Seq(AreaType) /\ (Whole(s) => InOrder(s.chain))
  BY StateIs DEF Sound
<1>2. ~NoSpace(s.chain, break_, amount, MAX_END)
  BY <1>1, VirAllocIs, StateIs
<1>3. /\ new.mem = VirAllocMem(s, amount) /\ meta \in MetaType /\ area \in ChunkType
      /\ new.chain = vir_alloc_pages(s.chain, break_, amount, meta, area)
      /\ new.harm = s.harm \cup (IF DropsRest(s.chain, break_, amount) THEN {"dropped"} ELSE {})
  BY <1>1, <1>2, VirAllocIs
<1>4. /\ s.mem.halt = "no" /\ Whole(s) /\ MetaApart(new.mem, BucketPages(new.mem))
  <2>1. /\ MetaApart(new.mem, BucketPages(s.mem)) /\ s.mem.halt = "no" /\ Whole(s)
        /\ \A b \in Bucket : new.mem.lists[b] = s.mem.lists[b]
    BY VirAllocOwns
  <2>2. QED
    BY <2>1, BucketsSame
<1>5. ~DropsRest(s.chain, break_, amount)
  BY <1>3 DEF Whole
<1>6. MetaHeld(s.mem, old) /\ OwnMeta(s.chain)
  BY <1>4 DEF MetaKept
<1>7. new.mem = m3 /\ meta.node = NextChunk(m1, "node") /\ meta.vaddr = NextChunk(m2, "vaddr")
  <2>1. new.mem = m3
    BY <1>3, Zenon DEF VirAllocMem
  <2>2. meta = [node |-> NextChunk(m1, "node"), vaddr |-> NextChunk(m2, "vaddr")]
    BY Zenon DEF NodeMeta
  <2> HIDE DEF m1, m2, meta
  <2>3. QED
    BY <2>1, <2>2
<1>8. node.meta = meta
  BY DEF Node
<1>9. NodesOf(new.chain) = NodesOf(s.chain) \cup {node} /\ new.chain \in Seq(AreaType)
  <2> HIDE DEF meta, area
  <2>1. NodesOf(new.chain) = NodesOf(s.chain) \cup {node}
    BY <1>1, <1>2, <1>3, <1>4, <1>5, AllocKeeps
  <2>2. new.chain \in Seq(AreaType)
    BY VirAllocSound, StateIs DEF Sound
  <2>3. QED
    BY <2>1, <2>2
<1>10. \/ Len(new.chain) = Len(s.chain) /\ \A j \in 1..Len(s.chain) : new.chain[j].meta = s.chain[j].meta
       \/ k = 0 /\ Len(new.chain) = 1 /\ new.chain[1].meta = area
  BY <1>1, <1>3, AllocMetas
<1>11. "vspace" \in Metadata /\ "node" \in Metadata /\ "vaddr" \in Metadata
       /\ "vspace" \in List /\ "node" \in List /\ "vaddr" \in List
  BY ListsAre
<1> HIDE DEF va, meta, area, node, k, old
<1>12. m1 \in MemType
  BY <1>1, <1>11, AllocChunkIs DEF vspace_alloc
<1>13. m3.halt = "no" /\ (m2.halt = "no" => m1.halt = "no") /\ (m3.halt = "no" => m2.halt = "no")
  <2> HIDE DEF m1
  <2>1. m2 \in MemType /\ (m2.halt = "no" => m1.halt = "no")
    BY <1>11, <1>12, AllocChunkIs, HaltedBefore DEF node_alloc
  <2> HIDE DEF m2
  <2>2. m3.halt = "no" => m2.halt = "no"
    BY <1>11, <2>1, HaltedBefore DEF vaddr_alloc
  <2> HIDE DEF m3
  <2>3. QED
    BY <1>7, <2>1, <2>2
<1>14. MetaHeld(m1, U1) /\ MetaApart(m1, BucketPages(m1))
  <2>1. CASE k = 0
    <3>1. m1 = fmtlist_alloc(s.mem, "vspace") /\ U1 = old \cup {<<"vspace", area>>}
      BY <2>1 DEF vspace_alloc
    <3>2. m1.halt = "no"
      BY <1>13
    <3> HIDE DEF m1, U1
    <3>3. MetaHeld(m1, old \cup {<<"vspace", area>>}) /\ MetaApart(m1, BucketPages(m1))
      BY <1>1, <1>6, <1>11, <3>1, <3>2, AllocHeld DEF area
    <3>4. QED
      BY <3>1, <3>3
  <2>2. CASE k # 0
    BY <1>6, <2>2
  <2>3. QED
    BY <2>1, <2>2
<1> HIDE DEF m1, U1
<1>15. /\ MetaHeld(m2, U2) /\ MetaApart(m2, BucketPages(m2)) /\ m2 \in MemType
       /\ <<"node", meta.node>> \notin U1
  <2>1. m2 = fmtlist_alloc(m1, "node") /\ m2.halt = "no"
    BY <1>13 DEF node_alloc
  <2> HIDE DEF m2
  <2>2. QED
    BY <1>7, <1>11, <1>12, <1>14, <2>1, AllocHeld
<1> HIDE DEF m2, U2
<1>16. MetaHeld(m3, U3) /\ <<"vaddr", meta.vaddr>> \notin U2
  <2>1. m3 = fmtlist_alloc(m2, "vaddr") /\ m3.halt = "no"
    BY <1>13 DEF vaddr_alloc
  <2> HIDE DEF m3
  <2>2. QED
    BY <1>7, <1>11, <1>15, <2>1, AllocHeld
<1>17. old \subseteq U1 /\ U1 \subseteq U2 /\ U2 \subseteq U3
       /\ <<"node", meta.node>> \in U3 /\ <<"vaddr", meta.vaddr>> \in U3
       /\ (k = 0 => <<"vspace", area>> \in U3)
  BY DEF U1, U2, U3
<1> HIDE DEF U3, m3
<1>18. Used(new.chain) \subseteq U3 /\ OwnMeta(new.chain)
  <2>1. /\ <<"node", node.meta.node>> \notin Used(s.chain) /\ <<"node", node.meta.node>> \in U3
        /\ <<"vaddr", node.meta.vaddr>> \notin Used(s.chain) /\ <<"vaddr", node.meta.vaddr>> \in U3
        /\ Used(s.chain) \subseteq U3
    BY <1>8, <1>15, <1>16, <1>17 DEF old
  <2>2. \/ Len(new.chain) = Len(s.chain) /\ \A j \in 1..Len(s.chain) : new.chain[j].meta = s.chain[j].meta
        \/ Len(new.chain) = 1 /\ <<"vspace", new.chain[1].meta>> \in U3
    BY <1>10, <1>17
  <2>3. QED
    BY <1>1, <1>6, <1>9, <2>1, <2>2, MetaAdded
<1>19. MetaHeld(new.mem, Used(new.chain))
  BY <1>7, <1>16, <1>18, FewerHeld
<1>20. QED
  BY <1>4, <1>18, <1>19

\* The metadata of areas, one by one.
MetaOnce(areas) == \A j, k \in 1..Len(areas) : areas[j].meta = areas[k].meta => j = k

\* The area that is unlinked is missed, a split makes one of metadata that was not in use.
LEMMA UnlinkMetas ==
  ASSUME NEW areas \in Seq(AreaType), MetaOnce(areas), NEW k \in 1..Len(areas), NEW junk \in Addr,
         NEW new, new = Unlink(areas, k, junk)
  PROVE  /\ MetaOnce(new)
         /\ \A j \in 1..Len(new) : \E h \in 1..Len(areas) : h # k /\ new[j].meta = areas[h].meta
<1> DEFINE n == Len(areas)
<1>1. n \in Nat
  OBVIOUS
<1>2. /\ Len(new) = n - 1
      /\ \A j \in 1..(n - 1) : From(j, k) \in 1..n /\ new[j].meta = areas[From(j, k)].meta
  BY UnlinkIs
<1> HIDE DEF n
<1>3. \A i, j \in 1..(n - 1) : From(j, k) # k /\ (From(i, k) = From(j, k) => i = j)
  BY <1>1 DEF From, n
<1>4. MetaOnce(new)
  BY <1>2, <1>3 DEF MetaOnce, n
<1>5. QED
  BY <1>2, <1>3, <1>4 DEF n

\* The number of the area that is behind the one at place k, when it is split, in place j.
Back(j, k) == IF j < k THEN j ELSE j - 1

LEMMA BackIs ==
  ASSUME NEW n \in Nat, NEW k \in 1..n, NEW j \in 1..(n + 1), NEW h \in 1..(n + 1), j # k
  PROVE  Back(j, k) \in 1..n /\ (h # k /\ Back(h, k) = Back(j, k) => h = j)
BY DEF Back

\* The areas of a split and what they are made of.
LEMMA SplitMade ==
  ASSUME NEW areas \in Seq(AreaType), NEW k \in 1..Len(areas),
         NEW i \in 2..(Len(areas[k].list) - 1), NEW areaMeta \in ChunkType
  PROVE  LET new == Split(areas, k, i, areaMeta)
         IN  /\ Len(new) = Len(areas) + 1
             /\ \A j \in 1..(Len(areas) + 1) :
                  new[j].meta = IF j = k THEN areaMeta ELSE areas[Back(j, k)].meta
<1> DEFINE new   == Split(areas, k, i, areaMeta)
           list  == areas[k].list
           node  == list[i]
           lower == SubSeq(list, i + 1, Len(list))
           a     == Area(Last(lower).va, node.va, lower, areaMeta)
           b     == Area(Wrap(node.va + node.len), areas[k].end, SubSeq(list, 1, i - 1), areas[k].meta)
           n     == Len(areas)
<1>1. /\ new \in Seq(AreaType) /\ Len(new) = n + 1
      /\ \A j \in 1..(n + 1) : new[j] = IF j < k THEN areas[j] ELSE IF j = k THEN a
                                        ELSE IF j = k + 1 THEN b ELSE areas[j - 1]
  BY SplitIs
<1>2. a.meta = areaMeta /\ b.meta = areas[k].meta
  BY DEF Area
<1>3. n \in Nat /\ k \in 1..n
  OBVIOUS
<1> HIDE DEF new, n, a, b
<1>4. \A j \in 1..(n + 1) : new[j].meta = IF j = k THEN areaMeta ELSE areas[Back(j, k)].meta
  <2> SUFFICES ASSUME NEW j \in 1..(n + 1)
               PROVE  new[j].meta = IF j = k THEN areaMeta ELSE areas[Back(j, k)].meta
    OBVIOUS
  <2>1. /\ j < k => new[j] = areas[j] /\ Back(j, k) = j
        /\ j = k => new[j] = a
        /\ j = k + 1 => new[j] = b /\ Back(j, k) = k
        /\ j > k + 1 => new[j] = areas[j - 1] /\ Back(j, k) = j - 1
    BY <1>1, <1>3 DEF Back
  <2>2. j < k \/ j = k \/ j = k + 1 \/ j > k + 1
    BY <1>3
  <2>3. j < k \/ j = k + 1 \/ j > k + 1 => j # k
    BY <1>3
  <2>4. QED
    BY <1>2, <2>1, <2>2, <2>3, Zenon
<1>5. QED
  BY <1>1, <1>4 DEF new, n

LEMMA SplitMetas ==
  ASSUME NEW areas \in Seq(AreaType), MetaOnce(areas), NEW k \in 1..Len(areas),
         NEW i \in 2..(Len(areas[k].list) - 1), NEW areaMeta \in ChunkType,
         \A h \in 1..Len(areas) : areas[h].meta # areaMeta,
         NEW new, new = Split(areas, k, i, areaMeta)
  PROVE  /\ MetaOnce(new)
         /\ \A j \in 1..Len(new) :
              new[j].meta = areaMeta \/ \E h \in 1..Len(areas) : new[j].meta = areas[h].meta
<1> DEFINE n == Len(areas)
<1>1. n \in Nat
  OBVIOUS
<1>2. Len(new) = n + 1
  BY SplitMade
<1>4. \A j \in 1..(n + 1) : new[j].meta = IF j = k THEN areaMeta ELSE areas[Back(j, k)].meta
  BY SplitMade
<1> HIDE DEF n
<1>5. \A j, h \in 1..(n + 1) :
        j # k => Back(j, k) \in 1..n /\ (h # k /\ Back(h, k) = Back(j, k) => h = j)
  <2>1. k \in 1..n
    BY DEF n
  <2>2. QED
    BY <1>1, <2>1, BackIs, Zenon
<1>6. MetaOnce(new)
  <2>1. SUFFICES ASSUME NEW j \in 1..(n + 1), NEW h \in 1..(n + 1), new[j].meta = new[h].meta
                 PROVE  j = h
    BY <1>2 DEF MetaOnce
  <2>2. \A g \in 1..(n + 1) : g # k => Back(g, k) \in 1..Len(areas) /\ new[g].meta # areaMeta
    <3>1. ASSUME NEW g \in 1..(n + 1), g # k
          PROVE  Back(g, k) \in 1..n /\ new[g].meta = areas[Back(g, k)].meta
      BY <1>4, <1>5, <3>1, Zenon
    <3>2. \A g \in 1..n : areas[g].meta # areaMeta
      BY DEF n
    <3>3. n = Len(areas)
      BY DEF n
    <3>4. QED
      BY <3>1, <3>2, <3>3, Zenon
  <2>3. CASE j # k /\ h # k
    <3>1. areas[Back(j, k)].meta = areas[Back(h, k)].meta
      BY <1>4, <2>1, <2>3
    <3>2. Back(j, k) = Back(h, k)
      BY <2>2, <2>3, <3>1 DEF MetaOnce
    <3>3. QED
      BY <1>5, <2>3, <3>2
  <2>4. CASE j = k \/ h = k
    BY <1>4, <2>1, <2>2, <2>4
  <2>5. QED
    BY <2>3, <2>4
<1>7. QED
  BY <1>2, <1>4, <1>5, <1>6 DEF n

\* vir_release_pages, as far as metadata goes.
LEMMA ReleaseMetas ==
  ASSUME NEW areas \in Seq(AreaType), MetaOnce(areas), NEW va, CanRelease(areas, va),
         NEW junk \in Addr, NEW areaMeta \in ChunkType,
         Splits(areas, va) => \A h \in 1..Len(areas) : areas[h].meta # areaMeta,
         NEW new, new = vir_release_pages(areas, va, junk, areaMeta)
  PROVE  /\ MetaOnce(new)
         /\ Empties(areas, va) => ~Splits(areas, va)
         /\ \A j \in 1..Len(new) :
              \/ Splits(areas, va) /\ new[j].meta = areaMeta
              \/ \E h \in 1..Len(areas) :
                   /\ new[j].meta = areas[h].meta
                   /\ Empties(areas, va) => h # AreaOf(areas, va)
<1> DEFINE k == AreaOf(areas, va)
           i == IndexOf(areas, va)
<1>1. /\ k \in 1..Len(areas) /\ i \in 1..Len(areas[k].list)
  BY FoundIs
<1>2. ASSUME Empties(areas, va) PROVE ~Splits(areas, va)
  <2>1. Len(areas[k].list) = 1
    BY <1>2, Zenon DEF Empties
  <2>2. Splits(areas, va) => i \in 2..(Len(areas[k].list) - 1)
    BY Zenon DEF Splits
  <2> HIDE DEF k, i
  <2>3. QED
    BY <2>1, <2>2
<1>3. CASE Empties(areas, va)
  <2>1. new = Unlink(areas, k, junk)
    BY <1>3, Zenon DEF vir_release_pages
  <2> HIDE DEF k, i
  <2>2. MetaOnce(new) /\ \A j \in 1..Len(new) : \E h \in 1..Len(areas) : h # k /\ new[j].meta = areas[h].meta
    BY <1>1, <2>1, UnlinkMetas
  <2>3. QED
    BY <1>2, <1>3, <2>2 DEF k
<1>4. CASE ~Empties(areas, va) /\ Splits(areas, va)
  <2>1. new = Split(areas, k, i, areaMeta)
    BY <1>4, Zenon DEF vir_release_pages
  <2>2. i \in 2..(Len(areas[k].list) - 1)
    BY <1>4, Zenon DEF Splits
  <2> HIDE DEF k, i
  <2>3. /\ MetaOnce(new)
        /\ \A j \in 1..Len(new) :
             new[j].meta = areaMeta \/ \E h \in 1..Len(areas) : new[j].meta = areas[h].meta
    BY <1>1, <1>4, <2>1, <2>2, SplitMetas
  <2>4. QED
    BY <1>4, <2>3
<1>5. CASE ~Empties(areas, va) /\ ~Splits(areas, va)
  <2> DEFINE fresh == vir_release_pages(areas, va, junk, areaMeta)
  <2>1. /\ Len(fresh) = Len(areas) /\ \A j \in 1..Len(areas) : j # k => fresh[j] = areas[j]
        /\ fresh[k].meta = areas[k].meta
    BY <1>5, TrimIs
  <2>2. new = fresh
    OBVIOUS
  <2> HIDE DEF fresh, k, i
  <2>3. Len(new) = Len(areas) /\ \A j \in 1..Len(areas) : new[j].meta = areas[j].meta
    BY <1>1, <2>1, <2>2
  <2>4. MetaOnce(new)
    BY <2>3 DEF MetaOnce
  <2>5. QED
    BY <1>5, <2>3, <2>4
<1>6. QED
  BY <1>3, <1>4, <1>5

\* vir_release_pages releases the metadata of what it takes from the chain.
LEMMA VirReleaseMeta ==
  ASSUME NEW s, Sound(s), NEW va, NEW junk \in Addr, MetaKept(s),
         MetaApart(s.mem, BucketPages(s.mem)), NEW new, new = VirRelease(s, va, junk),
         Whole(new), new.mem.halt = "no"
  PROVE  MetaHeld(new.mem, Used(new.chain)) /\ OwnMeta(new.chain)
<1> DEFINE node == NodeOf(s.chain, va)
           area == NextChunk(s.mem, "vspace")
           gone == s.chain[AreaOf(s.chain, va)].meta
           m1   == IF Splits(s.chain, va) THEN vspace_alloc(s.mem) ELSE s.mem
           m2   == phy_release_vpages(m1, PagesAt(node.va, node.len))
           m3   == IF Empties(s.chain, va) THEN vspace_release(m2, gone) ELSE m2
           m4   == ReleaseMeta(m3, node)
           old  == Used(s.chain)
           U1   == IF Splits(s.chain, va) THEN old \cup {<<"vspace", area>>} ELSE old
           U3   == IF Empties(s.chain, va) THEN U1 \ {<<"vspace", gone>>} ELSE U1
           U4   == U3 \ {<<"node", node.meta.node>>, <<"vaddr", node.meta.vaddr>>}
<1>1. s \in StateType /\ s.mem \in MemType /\ s.chain \in Seq(AreaType) /\ (Whole(s) => InOrder(s.chain))
  BY StateIs DEF Sound
<1>2. CanRelease(s.chain, va)
  BY <1>1, VirReleaseIs, StateIs
<1>3. /\ new.mem = VirReleaseMem(s, va) /\ area \in ChunkType /\ node \in NodeType /\ gone \in ChunkType
      /\ new.chain = vir_release_pages(s.chain, va, junk, area)
      /\ new.harm = s.harm \cup (IF ReadsNull(s.chain, va) THEN {"junk"} ELSE {})
  BY <1>1, <1>2, VirReleaseIs
<1>4. s.mem.halt = "no" /\ Whole(s)
  BY VirReleaseOwns
<1>5. ~ReadsNull(s.chain, va)
  BY <1>3 DEF Whole
<1>6. MetaHeld(s.mem, old) /\ OwnMeta(s.chain) /\ MetaOnce(s.chain)
  BY <1>4 DEF MetaKept, OwnMeta, MetaOnce
<1>7. new.mem = m4
  BY <1>3, Zenon DEF VirReleaseMem, VirReleaseRest
<1>8. /\ AreaOf(s.chain, va) \in 1..Len(s.chain) /\ node \in NodesOf(s.chain)
  <2>1. /\ AreaOf(s.chain, va) \in 1..Len(s.chain)
        /\ IndexOf(s.chain, va) \in 1..Len(s.chain[AreaOf(s.chain, va)].list)
        /\ node = s.chain[AreaOf(s.chain, va)].list[IndexOf(s.chain, va)]
    BY <1>1, <1>2, FoundIs
  <2> HIDE DEF node
  <2>2. QED
    BY <1>1, <1>4, <2>1, NodeOnce
<1>9. /\ <<"vspace", gone>> \in old /\ <<"node", node.meta.node>> \in old
      /\ <<"vaddr", node.meta.vaddr>> \in old
  BY <1>8 DEF Used
<1>10. NodesOf(new.chain) = NodesOf(s.chain) \ {node} /\ (Empties(s.chain, va) => ~Splits(s.chain, va))
  <2>1. NodesOf(new.chain) = NodesOf(s.chain) \ {node}
    <3> HIDE DEF area, node
    <3>1. QED
      BY <1>1, <1>2, <1>3, <1>4, <1>5, ReleaseKeeps DEF node
  <2>2. ASSUME Empties(s.chain, va) PROVE ~Splits(s.chain, va)
    <3>1. Len(s.chain[AreaOf(s.chain, va)].list) = 1
      BY <2>2, Zenon DEF Empties
    <3>2. Splits(s.chain, va) =>
            IndexOf(s.chain, va) \in 2..(Len(s.chain[AreaOf(s.chain, va)].list) - 1)
      BY Zenon DEF Splits
    <3>3. QED
      BY <3>1, <3>2
  <2>3. QED
    BY <2>1, <2>2
<1>11. /\ "vspace" \in Metadata /\ "node" \in Metadata /\ "vaddr" \in Metadata
       /\ "vspace" \in List /\ "node" \in List
  BY ListsAre
<1>12. node \in NodeType /\ node.meta.node \in ChunkType /\ node.meta.vaddr \in ChunkType
  BY <1>3 DEF NodeType
<1> HIDE DEF area, node, gone, old
<1>13. m1 \in MemType
  BY <1>1, <1>11, AllocChunkIs DEF vspace_alloc
<1>14. m1.halt = "no"
  <2> HIDE DEF m1
  <2>1. m2 \in MemType /\ m2.halt = m1.halt
    BY <1>13, FreeFramesIs
  <2> HIDE DEF m2
  <2>2. m3 \in MemType /\ m3.halt = m2.halt
    BY <1>3, <1>11, <2>1, ReleaseHalt DEF vspace_release
  <2> HIDE DEF m3
  <2>3. m4.halt = m3.halt
    BY <1>12, <2>2, ReleaseMetaIs
  <2> HIDE DEF m4
  <2>4. QED
    BY <1>7, <2>1, <2>2, <2>3
<1>15. /\ MetaHeld(m1, U1) /\ MetaApart(m1, BucketPages(m1))
       /\ Splits(s.chain, va) => <<"vspace", area>> \notin old
  <2>1. CASE Splits(s.chain, va)
    <3>1. m1 = fmtlist_alloc(s.mem, "vspace") /\ U1 = old \cup {<<"vspace", area>>}
      BY <2>1 DEF vspace_alloc
    <3> HIDE DEF m1, U1
    <3>2. /\ MetaHeld(m1, old \cup {<<"vspace", area>>}) /\ MetaApart(m1, BucketPages(m1))
          /\ <<"vspace", area>> \notin old
      BY <1>1, <1>6, <1>11, <1>14, <3>1, AllocHeld DEF area
    <3>3. QED
      BY <3>1, <3>2
  <2>2. CASE ~Splits(s.chain, va)
    BY <1>6, <2>2
  <2>3. QED
    BY <2>1, <2>2
<1>16. /\ <<"vspace", gone>> \in U1 /\ <<"node", node.meta.node>> \in U1
       /\ <<"vaddr", node.meta.vaddr>> \in U1
  BY <1>9
<1> HIDE DEF m1
<1>17. m2 \in MemType /\ MetaHeld(m2, U1) /\ MetaApart(m2, BucketPages(m2))
  <2>1. /\ m2 \in MemType /\ m2.halt = m1.halt /\ m2.lists = m1.lists /\ m2.virmm = m1.virmm
    BY <1>13, FreeFramesIs
  <2> HIDE DEF m2, U1
  <2>2. BucketPages(m2) = BucketPages(m1)
    BY <2>1, BucketsSame
  <2>3. MetaApart(m2, BucketPages(m2))
    BY <1>15, <2>1, <2>2, MetaSame
  <2>4. KeepsOthers(m1, m2)
    BY <2>1, <2>2 DEF KeepsOthers, Taken
  <2>5. QED
    BY <1>15, <2>1, <2>3, <2>4, OthersHeld
<1> HIDE DEF m2, U1
<1>18. m3 \in MemType /\ MetaHeld(m3, U3) /\ MetaApart(m3, BucketPages(m3))
  <2>1. CASE Empties(s.chain, va)
    <3>1. m3 = fmtlist_release(m2, "vspace", gone) /\ U3 = U1 \ {<<"vspace", gone>>}
      BY <2>1 DEF vspace_release
    <3> HIDE DEF m3, U3
    <3>2. /\ MetaHeld(m3, U1 \ {<<"vspace", gone>>}) /\ MetaApart(m3, BucketPages(m3))
          /\ m3 \in MemType
      BY <1>3, <1>11, <1>16, <1>17, <3>1, ReleaseHeld
    <3>3. QED
      BY <3>1, <3>2
  <2>2. CASE ~Empties(s.chain, va)
    BY <1>17, <2>2
  <2>3. QED
    BY <2>1, <2>2
<1>19. <<"node", node.meta.node>> \in U3 /\ <<"vaddr", node.meta.vaddr>> \in U3
  BY <1>16
<1> HIDE DEF m3
<1>20. MetaHeld(m4, U4)
  <2>1. \/ m4 = fmtlist_release(m3, "node", node.meta.node)
        \/ m4 = fmtlist_release(m3, "vaddr", node.meta.vaddr)
    BY <1>12, <1>18, ReleaseMetaIs
  <2> HIDE DEF m4, U3
  <2>2. \/ MetaHeld(m4, U3 \ {<<"node", node.meta.node>>})
        \/ MetaHeld(m4, U3 \ {<<"vaddr", node.meta.vaddr>>})
    BY <1>11, <1>12, <1>18, <1>19, <2>1, ReleaseHeld
  <2>3. /\ U4 \in SUBSET (U3 \ {<<"node", node.meta.node>>})
        /\ U4 \in SUBSET (U3 \ {<<"vaddr", node.meta.vaddr>>})
    OBVIOUS
  <2> HIDE DEF U4
  <2>4. QED
    BY <2>2, <2>3, FewerHeld
<1> HIDE DEF m4
<1>21. OwnMeta(new.chain) /\ Used(new.chain) \subseteq U4
  <2>1. Splits(s.chain, va) => \A h \in 1..Len(s.chain) : s.chain[h].meta # area
    BY <1>15 DEF old, Used
  <2>2. /\ MetaOnce(new.chain)
        /\ \A j \in 1..Len(new.chain) :
             \/ Splits(s.chain, va) /\ new.chain[j].meta = area
             \/ \E h \in 1..Len(s.chain) :
                  /\ new.chain[j].meta = s.chain[h].meta
                  /\ Empties(s.chain, va) => h # AreaOf(s.chain, va)
    BY <1>1, <1>2, <1>3, <1>6, <2>1, ReleaseMetas
  <2>3. OwnMeta(new.chain)
    BY <1>6, <1>10, <2>2 DEF OwnMeta, MetaOnce
  <2>4. ASSUME NEW j \in 1..Len(new.chain) PROVE <<"vspace", new.chain[j].meta>> \in U4
    <3>1. CASE Splits(s.chain, va) /\ new.chain[j].meta = area
      BY <1>10, <3>1 DEF U1
    <3>2. ASSUME NEW h \in 1..Len(s.chain), new.chain[j].meta = s.chain[h].meta,
                 Empties(s.chain, va) => h # AreaOf(s.chain, va)
          PROVE  <<"vspace", new.chain[j].meta>> \in U4
      <4>1. <<"vspace", s.chain[h].meta>> \in old
        BY DEF old, Used
      <4>2. Empties(s.chain, va) => s.chain[h].meta # gone
        BY <1>6, <1>8, <3>2 DEF MetaOnce, gone
      <4>3. QED
        BY <3>2, <4>1, <4>2 DEF U1
    <3>3. QED
      BY <2>2, <3>1, <3>2
  <2>5. ASSUME NEW n \in NodesOf(new.chain)
        PROVE  <<"node", n.meta.node>> \in U4 /\ <<"vaddr", n.meta.vaddr>> \in U4
    <3>1. n \in NodesOf(s.chain) /\ n # node
      BY <1>10
    <3>2. n.meta.node # node.meta.node /\ n.meta.vaddr # node.meta.vaddr
      BY <1>6, <1>8, <3>1 DEF OwnMeta
    <3>3. <<"node", n.meta.node>> \in old /\ <<"vaddr", n.meta.vaddr>> \in old
      BY <3>1 DEF old, Used
    <3>4. QED
      BY <3>2, <3>3 DEF U1
  <2> HIDE DEF U4
  <2>6. Used(new.chain) \subseteq U4
    BY <2>4, <2>5 DEF Used
  <2>7. QED
    BY <2>3, <2>6
<1> HIDE DEF U4
<1>22. MetaHeld(new.mem, Used(new.chain))
  BY <1>7, <1>20, <1>21, FewerHeld
<1>23. QED
  BY <1>21, <1>22

-----------------------------------------------------------------------------
\* dyn_alloc of pages: none of them is a metadata page.
LEMMA AllocPagesMeta ==
  ASSUME NEW s, Sound(s), MetaKept(s), Whole(s) => MetaApart(s.mem, BucketPages(s.mem)),
         NEW len \in Amount
  PROVE  MetaKept(AllocPages(s, len))
<1> DEFINE s1  == VirAlloc(s, len)
           new == AllocPages(s, len)
<1>1. /\ new.chain = s1.chain /\ new.harm = s1.harm
      /\ new.mem.lists = s1.mem.lists /\ new.mem.virmm = s1.mem.virmm
      /\ new.mem.halt = "no" => s1.mem.halt = "no"
  BY AllocPagesSound
<1>2. s.harm \subseteq s1.harm
  BY VirAllocHarm
<1> HIDE DEF new
<1>3. SUFFICES ASSUME Whole(new), new.mem.halt = "no"
               PROVE  MetaHeld(new.mem, Used(new.chain)) /\ OwnMeta(new.chain)
  BY DEF MetaKept, new
<1>4. Whole(s1) /\ Whole(s) /\ s1.mem.halt = "no"
  BY <1>1, <1>2, <1>3 DEF Whole
<1>5. MetaHeld(s1.mem, Used(s1.chain)) /\ OwnMeta(s1.chain)
  BY <1>4, VirAllocMeta
<1> HIDE DEF s1
<1>6. KeepsOthers(s1.mem, new.mem)
  <2>1. BucketPages(new.mem) = BucketPages(s1.mem)
    BY <1>1, BucketsSame
  <2>2. QED
    BY <1>1, <2>1 DEF KeepsOthers, Taken
<1>7. QED
  BY <1>1, <1>5, <1>6, OthersHeld

\* The first page of a bucket is not of the metadata either.
LEMMA FirstPageMeta ==
  ASSUME NEW s, Sound(s), MetaKept(s), Whole(s) => MetaApart(s.mem, BucketPages(s.mem)),
         NEW b \in Bucket
  PROVE  MetaKept(FirstPage(s, b))
<1> DEFINE m0  == phy_alloc_page(s.mem)
           s0  == [s EXCEPT !.mem = phy_alloc_page(@)]
           s1  == VirAlloc(s0, 1)
           va  == AllocVa(s.chain, break_, 1)
           new == FirstPage(s, b)
<1>1. /\ Sound(s0) /\ s0.mem = m0 /\ s0.chain = s.chain /\ s0.harm = s.harm
      /\ Sound(s1) /\ Sound(new) /\ new.chain = s1.chain /\ new.harm = s1.harm
      /\ FirstMem(s) \in MemType /\ FirstMem(s).lists = s1.mem.lists
      /\ FirstMem(s).virmm = s1.mem.virmm /\ (FirstMem(s).halt = "no" => s1.mem.halt = "no")
      /\ <<fmtlist_init(va)>> \in Seq(PageType)
      /\ new.mem = [FirstMem(s) EXCEPT !.lists[b] = <<fmtlist_init(va)>>]
  BY FirstPageIs
<1>2. /\ s.mem \in MemType /\ m0.lists = s.mem.lists /\ m0.virmm = s.mem.virmm
      /\ m0.halt = "no" => s.mem.halt = "no"
  BY StateIs, FrameIs DEF Sound
<1>3. b \in List /\ (\A l \in Metadata : l \in List /\ l # b) /\ (\A c \in Bucket : c \in List)
  BY ListsAre
<1> DEFINE page == fmtlist_init(va)
<1> HIDE DEF new, m0
<1>4. 1 \in Amount
  BY Sizes
<1>5. s0.harm \subseteq s1.harm
  BY <1>1, <1>4, VirAllocHarm
<1>6. SUFFICES ASSUME Whole(new), new.mem.halt = "no"
               PROVE  MetaHeld(new.mem, Used(new.chain)) /\ OwnMeta(new.chain)
  BY DEF MetaKept, new
<1>7. Whole(s1) /\ Whole(s0) /\ Whole(s)
  BY <1>1, <1>5, <1>6 DEF Whole
<1>8. page.va = va
  BY InitFree
<1> HIDE DEF s1, s0, page
<1>9. /\ new.mem.virmm = s1.mem.virmm /\ s1.mem.halt = "no" /\ new.mem.lists[b] = <<page>>
      /\ \A other \in List : other # b => new.mem.lists[other] = s1.mem.lists[other]
  <2> DEFINE m1 == FirstMem(s)
             list == <<page>>
             m2 == [m1 EXCEPT !.lists[b] = list]
  <2>1. m1 \in MemType /\ list \in Seq(PageType) /\ new.mem = m2
    BY <1>1 DEF page
  <2> HIDE DEF m1, list
  <2>2. /\ m2.lists[b] = list /\ \A other \in List : other # b => m2.lists[other] = m1.lists[other]
        /\ m2.halt = m1.halt /\ m2.virmm = m1.virmm
    BY <1>3, <2>1, ListChanged
  <2> HIDE DEF m2
  <2>3. QED
    BY <1>1, <1>6, <2>1, <2>2 DEF m1, list
<1>10. BucketPages(s0.mem) = BucketPages(s.mem) /\ MetaApart(s0.mem, BucketPages(s0.mem))
  <2>1. BucketPages(s0.mem) = BucketPages(s.mem)
    BY <1>1, <1>2, BucketsSame
  <2>2. QED
    BY <1>1, <1>2, <1>7, <2>1, MetaSame
<1>11. MetaKept(s0)
  <2>1. ASSUME s0.mem.halt = "no" PROVE MetaHeld(s0.mem, Used(s0.chain)) /\ OwnMeta(s0.chain)
    <3>1. MetaHeld(s.mem, Used(s.chain)) /\ OwnMeta(s.chain)
      BY <1>1, <1>2, <1>7, <2>1 DEF MetaKept
    <3>2. KeepsOthers(s.mem, s0.mem)
      BY <1>1, <1>2, <1>10 DEF KeepsOthers, Taken
    <3>3. QED
      BY <1>1, <3>1, <3>2, OthersHeld
  <2>2. QED
    BY <2>1 DEF MetaKept
<1>12. MetaHeld(s1.mem, Used(s1.chain)) /\ OwnMeta(s1.chain)
  BY <1>1, <1>4, <1>7, <1>9, <1>10, <1>11, VirAllocMeta DEF s1
<1>13. va < KERN_METADATA /\ va \in Nat
  <2>1. AllocVa(s0.chain, break_, 1) = va
    BY <1>1
  <2> HIDE DEF va
  <2>2. QED
    BY <1>1, <1>4, <1>7, <1>9, <1>10, <2>1, VirAllocOwns DEF s1
<1>14. KeepsOthers(s1.mem, new.mem)
  <2>1. \A l \in Metadata : new.mem.lists[l] = s1.mem.lists[l]
    BY <1>3, <1>9
  <2>2. \A c \in Bucket : c # b => PagesOf(new.mem, c) = PagesOf(s1.mem, c)
    BY <1>3, <1>9 DEF PagesOf
  <2>3. PagesOf(new.mem, b) = {va}
    <3>a. new.mem \in MemType
      BY <1>1, StateIs DEF Sound
    <3>1. PagesOf(new.mem, b) = {new.mem.lists[b][k].va : k \in 1..Len(new.mem.lists[b])}
      BY <1>3, <3>a, PagesAre
    <3> HIDE DEF va
    <3>2. Len(<<page>>) = 1 /\ <<page>>[1] = page
      OBVIOUS
    <3>3. \A k : k \in 1..1 <=> k = 1
      OBVIOUS
    <3>4. QED
      BY <1>8, <1>9, <3>1, <3>2, <3>3
  <2> HIDE DEF va
  <2>4. ASSUME NEW p, Taken(s1.mem, p), p \notin BucketPages(s1.mem)
        PROVE  Taken(new.mem, p) /\ p \notin BucketPages(new.mem)
    <3>1. p # va
      BY <1>13, <2>4, TakenIs
    <3>2. Taken(new.mem, p)
      BY <1>9, <2>4 DEF Taken
    <3>3. QED
      BY <2>2, <2>3, <2>4, <3>1, <3>2 DEF BucketPages
  <2>5. QED
    BY <2>1, <2>4 DEF KeepsOthers
<1>15. QED
  BY <1>1, <1>12, <1>14, OthersHeld

\* A bucket that is given a page of metadata is given a new one.
LEMMA BucketTakes ==
  ASSUME NEW m \in MemType, NEW b \in Bucket, NEW new, new = fmtlist_alloc(m, b), new.halt = "no"
  PROVE  KeepsOthers(m, new) /\ m.halt = "no"
<1> DEFINE m1 == WithRoom(m, b)
           n2 == fmtlist_alloc(m, b)
<1>1. b \in List /\ (\A l \in Metadata : l \in List /\ l # b) /\ (\A c \in Bucket : c \in List)
  BY ListsAre
<1>2. /\ n2.halt = m1.halt /\ n2.virmm = m1.virmm /\ PagesOf(n2, b) = PagesOf(m1, b)
      /\ \A other \in List : other # b => n2.lists[other] = m1.lists[other]
  BY <1>1, TakePages
<1>3. n2 = new
  OBVIOUS
<1> HIDE DEF n2
<1> DEFINE n == Len(m.lists[b])
<1>4. m1.halt = "no"
  BY <1>2, <1>3
<1>5. /\ m.halt = "no" /\ \A other \in List : other # b => m1.lists[other] = m.lists[other]
      /\ \/ m1 = m
         \/ \E page \in KernPage : TookKern(m, m1, page) /\ PagesOf(m1, b) = PagesOf(m, b) \cup {page}
  <2>1. /\ m.halt = "no" /\ \A other \in List : other # b => m1.lists[other] = m.lists[other]
        /\ \/ m1 = m
           \/ \E page \in KernPage :
                /\ TookKern(m, m1, page) /\ Len(m1.lists[b]) = n + 1
                /\ \A k \in 1..n : m1.lists[b][k] = m.lists[b][k]
                /\ m1.lists[b][n + 1] = fmtlist_init(page)
                /\ PagesOf(m1, b) = PagesOf(m, b) \cup {page}
                /\ Open(m, b) = {}
    BY <1>1, <1>4, RoomPages
  <2> HIDE DEF m1, n
  <2>2. QED
    BY <2>1
<1> HIDE DEF m1, n
<1>6. \A l \in Metadata : new.lists[l] = m.lists[l]
  BY <1>1, <1>2, <1>3, <1>5
<1>7. \A c \in Bucket : c # b => PagesOf(new, c) = PagesOf(m, c)
  BY <1>1, <1>2, <1>3, <1>5 DEF PagesOf
<1>8. ASSUME NEW p, Taken(m, p), p \notin BucketPages(m) PROVE Taken(new, p) /\ p \notin BucketPages(new)
  <2>1. CASE m1 = m
    BY <1>2, <1>3, <1>7, <1>8, <2>1 DEF BucketPages, Taken
  <2>2. ASSUME NEW page \in KernPage, TookKern(m, m1, page), PagesOf(m1, b) = PagesOf(m, b) \cup {page}
        PROVE  Taken(new, p) /\ p \notin BucketPages(new)
    <3>1. p # page /\ Taken(new, p)
      BY <1>2, <1>3, <1>8, <2>2 DEF TookKern, Taken
    <3>2. QED
      BY <1>2, <1>3, <1>7, <1>8, <2>2, <3>1 DEF BucketPages
  <2>3. QED
    BY <1>5, <2>1, <2>2
<1>9. QED
  BY <1>5, <1>6, <1>8 DEF KeepsOthers

\* dyn_alloc of a chunk.
LEMMA AllocChunkMeta ==
  ASSUME NEW s, Sound(s), MetaKept(s), Whole(s) => MetaApart(s.mem, BucketPages(s.mem)),
         NEW b \in Bucket
  PROVE  MetaKept(AllocChunk(s, b))
<1> DEFINE s1  == WithPage(s, b)
           new == AllocChunk(s, b)
<1>1. /\ Sound(s1) /\ new.mem = fmtlist_alloc(s1.mem, b)
      /\ new.chain = s1.chain /\ new.harm = s1.harm
  BY AllocChunkSound
<1>2. MetaKept(s1)
  <2>1. CASE s.mem.lists[b] # <<>>
    BY <2>1 DEF WithPage
  <2>2. CASE s.mem.lists[b] = <<>>
    BY <2>2, FirstPageMeta DEF WithPage
  <2>3. QED
    BY <2>1, <2>2
<1> HIDE DEF s1, new
<1>3. SUFFICES ASSUME Whole(new), new.mem.halt = "no"
               PROVE  MetaHeld(new.mem, Used(new.chain)) /\ OwnMeta(new.chain)
  BY DEF MetaKept, new
<1>4. s1.mem \in MemType
  BY <1>1, StateIs DEF Sound
<1>5. KeepsOthers(s1.mem, new.mem) /\ s1.mem.halt = "no"
  BY <1>1, <1>3, <1>4, BucketTakes
<1>6. MetaHeld(s1.mem, Used(s1.chain)) /\ OwnMeta(s1.chain)
  BY <1>1, <1>2, <1>3, <1>5 DEF MetaKept, Whole
<1>7. QED
  BY <1>1, <1>5, <1>6, OthersHeld

\* A bucket that loses a chunk or all its pages leaves the kernel's lists alone.
LEMMA BucketGives ==
  ASSUME NEW m \in MemType, NEW b \in Bucket, BucketsApart(m), NEW ptr \in ChunkType,
         ptr[1] \in PagesOf(m, b), NEW new, new = fmtlist_release(m, b, ptr),
         NEW lost, lost = Without(new, b)
  PROVE  /\ new.halt = m.halt /\ lost.halt = m.halt
         /\ KeepsOthers(m, new) /\ KeepsOthers(m, lost)
         /\ new.lists[b] # <<>> /\ MetaApart(m, BucketPages(m)) => MetaApart(lost, BucketPages(lost))
<1>1. b \in List /\ (\A l \in Metadata : l \in List /\ l # b) /\ (\A c \in Bucket : c \in List)
  BY ListsAre
<1>2. new \in MemType /\ new.halt = m.halt
      /\ \E k : GaveChunk(m, new, b, k, ptr) \/ DroppedList(m, new, b, k, ptr)
  BY ReleaseCases
<1>3. /\ lost.lists[b] = <<>> /\ lost.virmm = new.virmm /\ lost.halt = new.halt
      /\ \A other \in List : other # b => lost.lists[other] = new.lists[other]
  BY <1>1, <1>2, WithoutIs
<1>4. PagesOf(lost, b) = {}
  BY <1>3 DEF PagesOf
<1>5. ptr[1] \in BucketPages(m)
  BY DEF BucketPages
<1>6. /\ \A other \in List : other # b => new.lists[other] = m.lists[other]
      /\ PagesOf(new, b) \subseteq PagesOf(m, b)
      /\ \A p : Taken(m, p) /\ p # ptr[1] => Taken(new, p)
      /\ new.lists[b] # <<>> => \A p : Taken(m, p) => Taken(new, p)
  <2>1. ASSUME NEW k, GaveChunk(m, new, b, k, ptr)
        PROVE  /\ \A other \in List : other # b => new.lists[other] = m.lists[other]
               /\ PagesOf(new, b) = PagesOf(m, b) /\ \A p : Taken(m, p) => Taken(new, p)
    <3>1. /\ Len(new.lists[b]) = Len(m.lists[b]) /\ new.virmm = m.virmm
          /\ \A j \in 1..Len(m.lists[b]) : new.lists[b][j].va = m.lists[b][j].va
          /\ \A other \in List : other # b => new.lists[other] = m.lists[other]
      BY <2>1 DEF GaveChunk
    <3>2. PagesOf(new, b) = PagesOf(m, b)
      BY <1>1, <1>2, <3>1, SamePages
    <3>3. QED
      BY <3>1, <3>2 DEF Taken
  <2>2. ASSUME NEW k, DroppedList(m, new, b, k, ptr)
        PROVE  /\ \A other \in List : other # b => new.lists[other] = m.lists[other]
               /\ new.lists[b] = <<>> /\ \A p : Taken(m, p) /\ p # ptr[1] => Taken(new, p)
    BY <2>2 DEF DroppedList
  <2>3. new.lists[b] = <<>> => PagesOf(new, b) = {}
    BY DEF PagesOf
  <2>4. QED
    BY <1>2, <2>1, <2>2, <2>3
<1>7. \A c \in Bucket : c # b => PagesOf(new, c) = PagesOf(m, c) /\ PagesOf(lost, c) = PagesOf(m, c)
  BY <1>1, <1>3, <1>6 DEF PagesOf
<1>8. BucketPages(new) \subseteq BucketPages(m) /\ BucketPages(lost) \subseteq BucketPages(m)
  BY <1>4, <1>6, <1>7 DEF BucketPages
<1>9. \A p : Taken(new, p) <=> Taken(lost, p)
  BY <1>3 DEF Taken
<1>10. \A p : Taken(m, p) /\ p \notin BucketPages(m) => Taken(new, p)
  BY <1>5, <1>6
<1>11. KeepsOthers(m, new) /\ KeepsOthers(m, lost)
  BY <1>1, <1>3, <1>6, <1>8, <1>9, <1>10 DEF KeepsOthers
<1>12. ASSUME new.lists[b] # <<>>, MetaApart(m, BucketPages(m)) PROVE MetaApart(lost, BucketPages(lost))
  <2>1. \A l \in Metadata : PagesOf(lost, l) = PagesOf(m, l)
    BY <1>11 DEF KeepsOthers, PagesOf
  <2>2. \A p : Taken(m, p) => Taken(lost, p)
    BY <1>6, <1>9, <1>12
  <2>3. QED
    BY <1>8, <1>12, <2>1, <2>2 DEF MetaApart
<1>13. QED
  BY <1>2, <1>3, <1>11, <1>12

\* dyn_free of a chunk.
LEMMA FreeChunkMeta ==
  ASSUME NEW s, Sound(s), MetaKept(s),
         Whole(s) => MetaApart(s.mem, BucketPages(s.mem)) /\ BucketsApart(s.mem),
         NEW b \in Bucket, NEW ptr \in ChunkType, ptr[1] \in PagesOf(s.mem, b),
         NEW junk \in Addr, NEW equal \in BOOLEAN
  PROVE  MetaKept(FreeChunk(s, b, ptr, junk, equal))
<1> DEFINE m    == fmtlist_release(s.mem, b, ptr)
           s1   == [s EXCEPT !.mem = m]
           lost == Lost(s, b, ptr)
           list == m.lists[b]
           new  == FreeChunk(s, b, ptr, junk, equal)
<1>1. /\ m \in MemType /\ Sound(s1) /\ Sound(new)
      /\ s1.mem = m /\ s1.chain = s.chain /\ s1.harm = s.harm
      /\ Sound(lost) /\ lost.chain = s.chain /\ lost.harm = s.harm \cup Loses(s, b)
      /\ lost.mem = [m EXCEPT !.lists[b] = <<>>]
      /\ list = <<>> /\ equal => new = Fail(lost, "bug")
      /\ list = <<>> /\ ~equal => new = lost
      /\ list # <<>> /\ Len(Head(list).free) = CAPACITY => new = VirRelease(lost, ptr[1], junk)
      /\ list # <<>> /\ Len(Head(list).free) # CAPACITY => new = s1
  BY FreeChunkSound, SMTT(60)
<1>2. s.mem \in MemType /\ lost \in StateType /\ s.harm \subseteq new.harm
  <2> HIDE DEF lost
  <2>1. s.harm \subseteq new.harm
    BY FreeChunkHarm
  <2> HIDE DEF new
  <2>2. QED
    BY <1>1, <2>1, StateIs DEF Sound
<1>3. lost.mem = Without(m, b)
  BY <1>1 DEF Without
<1> HIDE DEF lost, s1, new
<1>4. SUFFICES ASSUME Whole(new), new.mem.halt = "no"
               PROVE  MetaHeld(new.mem, Used(new.chain)) /\ OwnMeta(new.chain)
  BY DEF MetaKept, new
<1>5. Whole(s) /\ MetaApart(s.mem, BucketPages(s.mem)) /\ BucketsApart(s.mem)
  BY <1>2, <1>4 DEF Whole
<1>6. /\ m.halt = s.mem.halt /\ lost.mem.halt = s.mem.halt
      /\ KeepsOthers(s.mem, m) /\ KeepsOthers(s.mem, lost.mem)
      /\ list # <<>> => MetaApart(lost.mem, BucketPages(lost.mem))
  <2> DEFINE gone == Without(m, b)
  <2>1. /\ m.halt = s.mem.halt /\ gone.halt = s.mem.halt
        /\ KeepsOthers(s.mem, m) /\ KeepsOthers(s.mem, gone)
        /\ list # <<>> /\ MetaApart(s.mem, BucketPages(s.mem)) => MetaApart(gone, BucketPages(gone))
    BY <1>2, <1>5, BucketGives
  <2> HIDE DEF m, gone
  <2>2. gone = lost.mem
    BY <1>3 DEF gone
  <2>3. QED
    BY <1>5, <2>1, <2>2
<1> HIDE DEF m
<1>7. Whole(lost)
  <2>1. Loses(s, b) \cap {"dropped", "junk"} = {}
    BY DEF Loses
  <2>2. QED
    BY <1>1, <1>5, <2>1 DEF Whole
<1>8. MetaKept(s1) /\ MetaKept(lost)
  <2>1. s.mem.halt = "no" => MetaHeld(s.mem, Used(s.chain)) /\ OwnMeta(s.chain)
    BY <1>5 DEF MetaKept
  <2>2. s.mem.halt = "no" => MetaHeld(m, Used(s.chain)) /\ MetaHeld(lost.mem, Used(s.chain))
    BY <1>6, <2>1, OthersHeld
  <2>3. QED
    BY <1>1, <1>6, <2>1, <2>2 DEF MetaKept
<1>9. CASE list = <<>> /\ equal
  <2>1. Fail(lost, "bug").mem.halt # "no"
    BY <1>2, StateIs
  <2>2. QED
    BY <1>1, <1>4, <1>9, <2>1
<1>10. CASE list = <<>> /\ ~equal
  BY <1>1, <1>4, <1>8, <1>10 DEF MetaKept
<1>11. CASE list # <<>> /\ Len(Head(list).free) = CAPACITY
  <2> DEFINE va == ptr[1]
  <2>1. new = VirRelease(lost, va, junk)
    BY <1>1, <1>11
  <2>2. MetaApart(lost.mem, BucketPages(lost.mem))
    BY <1>6, <1>11
  <2> HIDE DEF va
  <2>3. QED
    BY <1>1, <1>4, <1>8, <2>1, <2>2, VirReleaseMeta
<1>12. CASE list # <<>> /\ Len(Head(list).free) # CAPACITY
  BY <1>1, <1>4, <1>8, <1>12 DEF MetaKept
<1>13. QED
  BY <1>9, <1>10, <1>11, <1>12

\* dyn_free of pages.
LEMMA FreePagesMeta ==
  ASSUME NEW s, Sound(s), MetaKept(s), Whole(s) => MetaApart(s.mem, BucketPages(s.mem)),
         NEW va, NEW junk \in Addr
  PROVE  MetaKept(VirRelease(s, va, junk))
<1> DEFINE new == VirRelease(s, va, junk)
<1>1. s.harm \subseteq new.harm
  BY VirReleaseHarm
<1>2. SUFFICES ASSUME Whole(new), new.mem.halt = "no"
               PROVE  MetaHeld(new.mem, Used(new.chain)) /\ OwnMeta(new.chain)
  BY DEF MetaKept
<1>3. Whole(s)
  BY <1>1, <1>2 DEF Whole
<1>4. QED
  BY <1>2, <1>3, VirReleaseMeta

-----------------------------------------------------------------------------
(***************************************************************************)
(* The inductive invariant of the metadata, beside HeldInv: what areas and *)
(* nodes are made of is in use, each once.                                 *)
(***************************************************************************)
MetaInv == phase = "runs" => MetaKept(Now)

\* A call keeps it if what it ends in does.
LEMMA BecomesMeta ==
  ASSUME NEW s, MetaKept(s), NEW hold, Becomes(s, hold), phase = "runs"
  PROVE  MetaInv'
<1>1. phase' = "runs" /\ harm' = s.harm
  BY DEF Becomes
<1>2. CASE s.mem.halt = "no"
  <2>1. mem' = s.mem /\ chain' = s.chain
    BY <1>2 DEF Becomes
  <2>2. MetaKept(Now)'
    BY <1>1, <2>1 DEF MetaKept, Whole, Now
  <2>3. QED
    BY <2>2 DEF MetaInv
<1>3. CASE s.mem.halt # "no"
  <2>1. mem' = [init_memory EXCEPT !.halt = s.mem.halt]
    BY <1>3 DEF Becomes
  <2>2. mem'.halt # "no"
    BY <1>3, <2>1, FreshIs DEF MemType
  <2>3. QED
    BY <2>2 DEF MetaInv, MetaKept, Now
<1>4. QED
  BY <1>2, <1>3

\* There are neither areas nor metadata when exec has loaded the program.
LEMMA MetaStarts == Init => MetaInv
<1> SUFFICES ASSUME Init PROVE MetaHeld(mem, Used(chain)) /\ OwnMeta(chain)
  BY NowIs DEF MetaInv, MetaKept
<1>1. \A l \in Metadata : mem.lists[l] = <<>>
  <2>1. mem.lists = init_memory.lists
    <3>1. PICK m \in {init_memory, Forked} : mem = Loaded(m)
      BY DEF Init
    <3>2. QED
      BY <3>1, LoadedIs
  <2>2. init_memory.lists = [l \in List |-> <<>>]
    BY DEF init_memory
  <2>3. QED
    BY <2>1, <2>2, ListsAre
<1>2. \A l \in Metadata : Len(mem.lists[l]) = 0
  BY <1>1
<1>3. chain = <<>> /\ Len(chain) = 0
  BY DEF Init
<1>4. NodesOf(chain) = {}
  BY <1>3 DEF NodesOf
<1>5. Used(chain) = {}
  BY <1>3, <1>4 DEF Used
<1>6. MetaHeld(mem, {})
  BY <1>2 DEF MetaHeld
<1>7. OwnMeta(chain)
  BY <1>3, <1>4 DEF OwnMeta
<1>8. QED
  BY <1>5, <1>6, <1>7

\* Every call keeps it, and exit does.
LEMMA MetaKeeps == HeldInv /\ MetaInv /\ [Next]_vars => MetaInv'
<1> SUFFICES ASSUME HeldInv, MetaInv, [Next]_vars PROVE MetaInv'
  OBVIOUS
<1>1. HeapInv /\ Sound(Now) /\ held \in SUBSET HeldType
  BY DEF HeldInv, HeapInv
<1>2. Ready => phase = "runs" /\ MetaKept(Now)
  BY DEF Ready, MetaInv
<1>3. ASSUME Ready, Whole(Now)
      PROVE  MetaApart(Now.mem, BucketPages(Now.mem)) /\ BucketsApart(Now.mem)
  <2>1. Owned(Now, held)
    BY <1>3 DEF HeldInv, Ready, Running, Kept
  <2>2. MetaApart(Now.mem, ChunkPages(Now.mem, held)) /\ BucketsApart(Now.mem)
    BY <2>1 DEF Owned
  <2>3. BucketPages(Now.mem) \in SUBSET ChunkPages(Now.mem, held)
    BY DEF ChunkPages
  <2>4. QED
    BY <2>2, <2>3, FewerApart
<1>4. ASSUME NEW b \in Bucket, CallAllocChunk(b) PROVE MetaInv'
  <2> DEFINE s    == AllocChunk(Now, b)
             hold == held \cup {Chunk(NextChunk(WithPage(Now, b).mem, b))}
  <2>1. Ready /\ Becomes(s, hold)
    BY <1>4 DEF CallAllocChunk
  <2>2. MetaKept(s)
    BY <1>1, <1>2, <1>3, <2>1, AllocChunkMeta
  <2> HIDE DEF s, hold
  <2>3. QED
    BY <1>2, <2>1, <2>2, BecomesMeta
<1>5. ASSUME NEW len \in Large, CallAllocPages(len) PROVE MetaInv'
  <2> DEFINE s    == AllocPages(Now, len)
             hold == held \cup {Pages(AllocVa(chain, break_, len), len)}
  <2>1. Ready /\ Becomes(s, hold)
    BY <1>5 DEF CallAllocPages
  <2>2. len \in Amount
    BY Sizes
  <2>3. MetaKept(s)
    BY <1>1, <1>2, <1>3, <2>1, <2>2, AllocPagesMeta
  <2> HIDE DEF s, hold
  <2>4. QED
    BY <1>2, <2>1, <2>3, BecomesMeta
<1>6. ASSUME NEW h \in held, CallFreeChunk(h) PROVE MetaInv'
  <2>1. Ready /\ h \in Chunks(held)
    BY <1>6 DEF CallFreeChunk, Chunks
  <2>2. h.ptr \in ChunkType
    BY <1>1, <2>1, HeldChunk
  <2>3. ASSUME NEW b \in Holders(Now, h.ptr), NEW junk \in Junk, NEW equal \in BOOLEAN,
               Becomes(FreeChunk(Now, b, h.ptr, junk, equal), held \ {h})
        PROVE  MetaInv'
    <3> DEFINE s    == FreeChunk(Now, b, h.ptr, junk, equal)
               hold == held \ {h}
    <3>1. b \in Bucket /\ h.ptr[1] \in PagesOf(Now.mem, b) /\ junk \in Addr
      BY Sizes DEF Holders
    <3>2. MetaKept(s)
      BY <1>1, <1>2, <1>3, <2>1, <2>2, <3>1, FreeChunkMeta
    <3> HIDE DEF s, hold
    <3>3. Becomes(s, hold)
      BY <2>3 DEF s, hold
    <3>4. QED
      BY <1>2, <2>1, <3>2, <3>3, BecomesMeta
  <2>4. ASSUME Becomes(Fail(Now, "bug"), {}) PROVE MetaInv'
    <3>1. Fail(Now, "bug").mem.halt # "no"
      BY <1>1, FailSound
    <3>2. MetaKept(Fail(Now, "bug"))
      BY <3>1 DEF MetaKept
    <3>3. QED
      BY <1>2, <2>1, <2>4, <3>2, BecomesMeta
  <2>5. QED
    BY <1>6, <2>3, <2>4 DEF CallFreeChunk
<1>7. ASSUME NEW h \in held, CallFreePages(h) PROVE MetaInv'
  <2>1. PICK junk \in Junk : Becomes(VirRelease(Now, h.va, junk), held \ {h})
    BY <1>7 DEF CallFreePages
  <2>2. Ready /\ junk \in Addr
    BY <1>7, Sizes DEF CallFreePages
  <2> DEFINE s    == VirRelease(Now, h.va, junk)
             hold == held \ {h}
  <2>3. MetaKept(s)
    BY <1>1, <1>2, <1>3, <2>2, FreePagesMeta
  <2> HIDE DEF s, hold
  <2>4. Becomes(s, hold)
    BY <2>1 DEF s, hold
  <2>5. QED
    BY <1>2, <2>2, <2>3, <2>4, BecomesMeta
<1>8. CASE Exit
  <2>1. phase' = "gone"
    BY <1>8 DEF Exit
  <2>2. QED
    BY <2>1 DEF MetaInv
<1>9. CASE UNCHANGED vars
  <2>1. Now' = Now /\ phase' = phase
    BY <1>9 DEF vars, Now
  <2>2. MetaKept(Now)' <=> MetaKept(Now)
    BY <2>1 DEF MetaKept, Whole
  <2>3. QED
    BY <2>1, <2>2 DEF MetaInv
<1>10. QED
  BY <1>4, <1>5, <1>6, <1>7, <1>8, <1>9 DEF Next

\* What is in use of a list is none of its free chunks, and its page is given out.
LEMMA OutIs ==
  ASSUME mem \in MemType, NEW l \in Metadata, NEW c \in ChunkType, Out(mem, l, c)
  PROVE  c \notin FreeIn(l) /\ Backed(c[1])
<1>1. DOMAIN mem.lists[l] = 1..Len(mem.lists[l])
  BY ListsAre, ListType
<1>2. c = <<c[1], c[2]>>
  BY DEF ChunkType
<1>3. SUFFICES c \notin FreeIn(l)
  BY DEF Out, Taken, Backed
<1>4. SUFFICES ASSUME c \in FreeIn(l) PROVE FALSE
  OBVIOUS
<1>5. \E page \in Range(mem.lists[l]) : \E n \in Range(page.free) : c = <<page.va, n>>
  BY <1>4 DEF FreeIn
<1>6. \E k \in 1..Len(mem.lists[l]) :
        \E n \in Range(mem.lists[l][k].free) : c = <<mem.lists[l][k].va, n>>
  BY <1>1, <1>5 DEF Range
<1>7. QED
  BY <1>2, <1>6 DEF Out

\* The metadata in use, each with its list.
LEMMA InUseIs ==
  ASSUME chain \in Seq(AreaType), NEW m \in MetaInUse
  PROVE  m \in Used(chain) /\ \E l \in Metadata, c \in ChunkType : m = <<l, c>>
<1>1. Range(Nodes(chain)) = NodesOf(chain) /\ DOMAIN chain = 1..Len(chain)
  BY AllNodes
<1>2. \A k \in 1..Len(chain) : chain[k].meta \in ChunkType
  BY NodesIs DEF AreaType
<1>3. \A n \in NodesOf(chain) : n.meta.node \in ChunkType /\ n.meta.vaddr \in ChunkType
  <2>1. \A k \in 1..Len(chain) : \A n \in Range(chain[k].list) : n \in NodeType
    BY NodesIs, RangeEquality
  <2>2. \A n \in NodesOf(chain) : n \in NodeType
    BY <2>1, NodesIs
  <2>3. QED
    BY <2>2 DEF NodeType
<1>4. CASE m \in {<<"vspace", chain[k].meta>> : k \in DOMAIN chain}
  BY <1>1, <1>2, <1>4, ListsAre DEF Used
<1>5. ASSUME NEW n \in NodesOf(chain), NEW l \in {"node", "vaddr"}, m = <<l, n.meta[l]>>
      PROVE  m \in Used(chain) /\ \E i \in Metadata, c \in ChunkType : m = <<i, c>>
  BY <1>3, <1>5, ListsAre DEF Used
<1>6. QED
  BY <1>1, <1>4, <1>5 DEF MetaInUse

\* Nodes that are made of the same are in the same place.
LEMMA MadeOnce ==
  ASSUME chain \in Seq(AreaType), InOrder(chain), OwnMeta(chain),
         NEW k \in DOMAIN chain, NEW j \in DOMAIN chain,
         NEW i \in DOMAIN chain[k].list, NEW n \in DOMAIN chain[j].list, NEW l \in {"node", "vaddr"},
         chain[k].list[i].meta[l] = chain[j].list[n].meta[l]
  PROVE  k = j /\ i = n
<1> DEFINE node == chain[k].list[i]
           other == chain[j].list[n]
<1>1. /\ DOMAIN chain = 1..Len(chain) /\ DOMAIN chain[k].list = 1..Len(chain[k].list)
      /\ DOMAIN chain[j].list = 1..Len(chain[j].list)
  <2>1. DOMAIN chain = 1..Len(chain)
    OBVIOUS
  <2>2. chain[k].list \in Seq(NodeType) /\ chain[j].list \in Seq(NodeType)
    BY <2>1, NodesIs
  <2>3. QED
    BY <2>1, <2>2
<1>2. /\ node \in NodesOf(chain) /\ IsInjective(chain[k].list)
      /\ \A h \in 1..Len(chain) : h # k => node \notin Range(chain[h].list)
  BY <1>1, NodeOnce
<1>3. other \in NodesOf(chain) /\ other \in Range(chain[j].list)
  BY <1>1, NodeOnce DEF Range
<1>4. node = other
  BY <1>2, <1>3 DEF OwnMeta
<1>5. k = j
  <2> HIDE DEF node, other
  <2>1. QED
    BY <1>1, <1>2, <1>3, <1>4
<1>6. QED
  BY <1>2, <1>4, <1>5 DEF IsInjective

\* The chunks of the program and of the kernel.
LEMMA OwnedChunks == HeldInv /\ MetaInv /\ ChainKept => ChunksOwned
<1> SUFFICES ASSUME HeldInv, MetaInv, ChainKept, Running
             PROVE  /\ \A m \in MetaInUse : m[2] \notin FreeIn(m[1]) /\ Backed(m[2][1])
                    /\ \A m, n \in MetaInUse : m[2] = n[2] => m = n
                    /\ \A k, j \in DOMAIN chain :
                         /\ chain[k].meta = chain[j].meta => k = j
                         /\ \A i \in DOMAIN chain[k].list, n \in DOMAIN chain[j].list,
                               l \in {"node", "vaddr"} :
                              chain[k].list[i].meta[l] = chain[j].list[n].meta[l] => k = j /\ i = n
                    /\ \A h \in held : "ptr" \in DOMAIN h =>
                         Backed(h.ptr[1]) /\ \A b \in Bucket : h.ptr \notin FreeIn(b)
  BY DEF ChunksOwned
<1>1. /\ mem \in MemType /\ chain \in Seq(AreaType) /\ InOrder(chain) /\ held \in SUBSET HeldType
      /\ Whole(Now) /\ phase = "runs" /\ mem.halt = "no" /\ DOMAIN chain = 1..Len(chain)
  BY NowIs DEF HeldInv, HeapInv, Whole, ChainKept, Running
<1>2. MetaHeld(mem, Used(chain)) /\ OwnMeta(chain)
  BY <1>1, NowIs DEF MetaInv, MetaKept
<1>3. MetaApart(mem, ChunkPages(mem, held)) /\ \A h \in Chunks(held) : NotFree(mem, h.ptr)
  BY <1>1, NowIs DEF HeldInv, Kept, Owned
<1>4. ASSUME NEW m \in MetaInUse PROVE m[2] \notin FreeIn(m[1]) /\ Backed(m[2][1])
  <2>1. PICK l \in Metadata, c \in ChunkType : m = <<l, c>> /\ m \in Used(chain)
    BY <1>1, InUseIs
  <2>2. Out(mem, l, c)
    BY <1>2, <2>1 DEF MetaHeld
  <2>3. QED
    BY <1>1, <2>1, <2>2, OutIs
<1>5. ASSUME NEW m \in MetaInUse, NEW n \in MetaInUse, m[2] = n[2] PROVE m = n
  <2>1. PICK l \in Metadata, c \in ChunkType : m = <<l, c>> /\ m \in Used(chain)
    BY <1>1, InUseIs
  <2>2. PICK i \in Metadata, d \in ChunkType : n = <<i, d>> /\ n \in Used(chain)
    BY <1>1, InUseIs
  <2>3. c = d
    BY <1>5, <2>1, <2>2
  <2>4. l = i
    BY <1>2, <2>1, <2>2, <2>3 DEF MetaHeld
  <2>5. QED
    BY <2>1, <2>2, <2>3, <2>4
<1>6. \A k, j \in DOMAIN chain : chain[k].meta = chain[j].meta => k = j
  BY <1>1, <1>2 DEF OwnMeta
<1>7. ASSUME NEW k \in DOMAIN chain, NEW j \in DOMAIN chain, NEW i \in DOMAIN chain[k].list,
             NEW n \in DOMAIN chain[j].list, NEW l \in {"node", "vaddr"},
             chain[k].list[i].meta[l] = chain[j].list[n].meta[l]
      PROVE  k = j /\ i = n
  BY <1>1, <1>2, <1>7, MadeOnce
<1>8. ASSUME NEW h \in held, "ptr" \in DOMAIN h
      PROVE  Backed(h.ptr[1]) /\ \A b \in Bucket : h.ptr \notin FreeIn(b)
  <2>1. h \in Chunks(held)
    BY <1>8 DEF Chunks
  <2>2. h.ptr = <<h.ptr[1], h.ptr[2]>>
    BY <1>1, <2>1, HeldChunk
  <2>3. Backed(h.ptr[1])
    <3>1. h.ptr[1] \in ChunkPages(mem, held)
      BY <1>1, <2>1, InUse
    <3>2. QED
      BY <1>3, <3>1 DEF MetaApart, Backed, Taken
  <2>4. ASSUME NEW b \in Bucket, h.ptr \in FreeIn(b) PROVE FALSE
    <3>1. \E page \in Range(mem.lists[b]) : \E n \in Range(page.free) : h.ptr = <<page.va, n>>
      BY <2>4 DEF FreeIn
    <3>2. \E k \in DOMAIN mem.lists[b] :
            \E n \in Range(mem.lists[b][k].free) : h.ptr = <<mem.lists[b][k].va, n>>
      BY <3>1 DEF Range
    <3>3. QED
      BY <1>3, <2>1, <2>2, <3>2 DEF NotFree
  <2>5. QED
    BY <2>3, <2>4
<1>9. QED
  BY <1>4, <1>5, <1>6, <1>7, <1>8

(***************************************************************************)
(* As long as no area has been dropped from the chain, what areas, nodes   *)
(* and held chunks are made of is not free, is made use of once, and lies  *)
(* in pages of metadata that have not been given back, whichever pages are *)
(* given back when the last chunk of them is released.                     *)
(***************************************************************************)
THEOREM ChunksStayOwned == Spec => [](ChainKept => ChunksOwned)
<1>1. Init => MetaInv
  BY MetaStarts
<1>2. HeldInv /\ MetaInv /\ [Next]_vars => MetaInv'
  BY MetaKeeps
<1>3. HeldInv /\ MetaInv => (ChainKept => ChunksOwned)
  BY OwnedChunks
<1>4. QED
  BY <1>1, <1>2, <1>3, HeldInvHolds, PTL DEF Spec
=============================================================================
