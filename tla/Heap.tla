-------------------------------- MODULE Heap ---------------------------------
(***************************************************************************)
(* The heap of one program, from exec to exit, and what it takes from the  *)
(* kernel: dyn/dynamic.c over mem/ and hoo/thread_bucket.c.                *)
(*                                                                         *)
(* A chunk of a bucket's size comes from a page of that bucket, any other  *)
(* size is pages of its own.  The first page of a bucket is in the         *)
(* program's address space, the others are metadata pages of the kernel.   *)
(* The program frees what it holds, once.                                  *)
(***************************************************************************)
EXTENDS FmtList, VSpace

CONSTANTS break_,    \* the page behind the program's own
          MAX_END,   \* the page behind the last of its address space
          Large,     \* sizes, in pages, of what no bucket holds
          Junk,      \* what may be read at the null pointer
          MaxCalls   \* bound: calls of the program

ASSUME HeapAssumption ==
  /\ break_ \in Nat \ {0} /\ MAX_END \in Nat /\ break_ < MAX_END
  /\ MAX_END <= KERN_METADATA /\ KERN_METADATA + SIZE_BITMAP_VIRMM <= PAGES
  /\ Junk \subseteq 0..(PAGES - 1) /\ MaxCalls \in Nat
  \* A size larger than what lies above the space would wrap (vm.c:63).
  /\ Large \subseteq 1..(PAGES - MAX_END)

VARIABLES mem,       \* frames, metadata, page tables and lists; see FmtList
          chain,     \* the areas behind vmngr_; see VSpace
          harm,      \* what has gone wrong for good: areas "dropped" from the
                     \* chain, a "junk" end, a bucket that "lost" its pages,
                     \* a "stale" entry that cost the kernel a frame
          held,      \* what the program has: first page and length, or chunk
          phase,     \* of the program: "runs" or "gone"
          calls      \* calls so far

vars == <<mem, chain, harm, held, phase, calls>>

Now == [mem |-> mem, chain |-> chain, harm |-> harm]

Fail(s, why) == [s EXCEPT !.mem = Halt(@, why)]

PagesAt(va, len) == {Wrap(va + n) : n \in 0..(len - 1)}

-----------------------------------------------------------------------------
\* vir_alloc_pages in the program's space, with its metadata.
VirAlloc(s, amount) ==
  LET fresh == GapFor(s.chain, break_, amount) = 0
      m1 == IF fresh THEN vspace_alloc(s.mem) ELSE s.mem
      m2 == node_alloc(m1)
      nodeMeta == [node |-> NextChunk(m1, "node"), vaddr |-> NextChunk(m2, "vaddr")]
      areaMeta == NextChunk(s.mem, "vspace")
  IN  IF NoSpace(s.chain, break_, amount, MAX_END) THEN Fail(s, "space")
      ELSE [mem   |-> vaddr_alloc(m2),
            chain |-> vir_alloc_pages(s.chain, break_, amount, nodeMeta, areaMeta),
            harm  |-> s.harm \cup (IF DropsRest(s.chain, break_, amount)
                                   THEN {"dropped"} ELSE {})]

(***************************************************************************)
(* vir_release_pages with its frames and metadata.  node_release clears    *)
(* the node, so that vaddr_release is given null and the vaddr_t stays in  *)
(* use: unless the page of the node is one that its list has forgotten.    *)
(* Then the node is left as it is, and its vaddr_t is released.            *)
(***************************************************************************)
Forgotten(m, node) == node.meta.node[1] \notin PagesOf(m, "node")

ReleaseMeta(m, node) ==
  IF Forgotten(m, node) THEN vaddr_release(m, node.meta.vaddr)
  ELSE node_release(m, node.meta.node)

VirRelease(s, va, junk) ==
  LET node == NodeOf(s.chain, va)
      m1 == IF Splits(s.chain, va) THEN vspace_alloc(s.mem) ELSE s.mem
      m2 == phy_release_vpages(m1, PagesAt(node.va, node.len))
      m3 == IF Empties(s.chain, va)
            THEN vspace_release(m2, s.chain[AreaOf(s.chain, va)].meta)
            ELSE m2
  IN  IF ~CanRelease(s.chain, va) THEN Fail(s, "bug")
      ELSE [mem   |-> ReleaseMeta(m3, node),
            chain |-> vir_release_pages(s.chain, va, junk, NextChunk(s.mem, "vspace")),
            harm  |-> s.harm \cup (IF ReadsNull(s.chain, va) THEN {"junk"} ELSE {})]
-----------------------------------------------------------------------------
\* dyn_alloc: a bucket without a page is given one of the program's space.
FirstPage(s, b) ==
  LET va == AllocVa(s.chain, break_, 1)
      s1 == VirAlloc([s EXCEPT !.mem = phy_alloc_page(@)], 1)
      m1 == set_mapping(s1.mem, va, NewFrame(s.mem))
  IN  [s1 EXCEPT !.mem = [m1 EXCEPT !.lists[b] = <<fmtlist_init(va)>>]]

WithPage(s, b) == IF s.mem.lists[b] = <<>> THEN FirstPage(s, b) ELSE s

AllocChunk(s, b) == [WithPage(s, b) EXCEPT !.mem = fmtlist_alloc(@, b)]

MapNew(m, page) == set_mapping(phy_alloc_page(m), page, NewFrame(m))

MapPages(m, va, len) ==
  LET map[n \in 0..len] == IF n = 0 THEN m ELSE MapNew(map[n - 1], Wrap(va + n - 1))
  IN  map[len]

AllocPages(s, len) ==
  [VirAlloc(s, len) EXCEPT !.mem = MapPages(@, AllocVa(s.chain, break_, len), len)]

Holders(s, ptr) == {b \in Bucket : ptr[1] \in PagesOf(s.mem, b)}

\* The pages of the bucket that it knows no more when its chain_ is null.
Loses(s, b) == IF Len(s.mem.lists[b]) > 1 THEN {"lost"} ELSE {}

\* dyn_free of a chunk of bucket b.  The page that is all free is looked for
\* at the head of the bucket; if there is none, at the null pointer.
FreeChunk(s, b, ptr, junk, equal) ==
  LET s1   == [s EXCEPT !.mem = fmtlist_release(@, b, ptr)]
      list == s1.mem.lists[b]
      lost == [s1 EXCEPT !.mem.lists[b] = <<>>, !.harm = @ \cup Loses(s, b)]
  IN  IF list = <<>> THEN IF equal THEN Fail(lost, "bug") ELSE lost
      ELSE IF Len(Head(list).free) = CAPACITY THEN VirRelease(lost, ptr[1], junk)
      ELSE s1
-----------------------------------------------------------------------------
\* No entry of the page directory: where the frame of a table is that no entry
\* names any more.
Abandoned == -1

UserPages(m)  == {page \in DOMAIN m.pte : page < KERN_METADATA}
UserTables(m) == {t \in DOMAIN m.pde : t # Abandoned /\ t * PG_STRUCT_SIZE < KERN_METADATA}

\* A task that fork has given a table, as a program's child has; hoo's has none.
Forked == [phy_alloc_page(init_memory) EXCEPT !.pde = Mapped(@, Abandoned, NewFrame(init_memory))]

\* exec: a new table, whose frame goes over that of an older one in the page
\* directory, then the frames of the program.
Loaded(m0) ==
  LET m == [phy_alloc_page(m0) EXCEPT !.pde = Mapped(@, 0, NewFrame(m0))]
  IN  MapPages(m, 0, break_)

Nodes(areas) == FlattenSeq([k \in DOMAIN areas |-> areas[k].list])

ReleaseNode(m, node) ==
  node_release(vaddr_release(phy_release_vpages(m, PagesAt(node.va, node.len)),
                             node.meta.vaddr), node.meta.node)

\* release_vspace: the areas themselves are kept, their lists not being empty.
release_vspace(m, areas) ==
  LET nodes == Nodes(areas)
      rest[n \in 0..Len(nodes)] == IF n = 0 THEN m ELSE ReleaseNode(rest[n - 1], nodes[n])
  IN  rest[Len(nodes)]

\* A slip: the page tables themselves are kept.
ReleaseTables_KeepsTables(m) ==
  [m EXCEPT !.frames.set = @ \ {m.pte[page] : page \in UserPages(m)},
            !.pte = Restrict(@, DOMAIN @ \ UserPages(m)),
            !.pde = Restrict(@, DOMAIN @ \ UserTables(m))]

\* exit, after it: whatever the page tables name, and the tables.
ReleaseTables(m) ==
  [m EXCEPT !.frames.set = @ \ ({m.pte[page] : page \in UserPages(m)} \cup
                                {m.pde[t] : t \in UserTables(m)}),
            !.pte = Restrict(@, DOMAIN @ \ UserPages(m)),
            !.pde = Restrict(@, DOMAIN @ \ UserTables(m))]

thread_buckmngr_clear(m) ==
  [m EXCEPT !.lists = [l \in List |-> IF l \in Bucket THEN <<>> ELSE m.lists[l]]]
-----------------------------------------------------------------------------
Init ==
  /\ \E m \in {init_memory, Forked} : mem = Loaded(m)
  /\ chain = <<>> /\ harm = {} /\ held = {}
  /\ phase = "runs" /\ calls = 0

\* The chunks of a page that a holder has the use of.
CellsOf(h) ==
  IF "ptr" \in DOMAIN h THEN {h.ptr}
  ELSE PagesAt(h.va, h.len) \X (0..CAPACITY)

Apart == \A g, h \in held : g # h => CellsOf(g) \cap CellsOf(h) = {}

\* What is given out twice is held twice.
Chunk(ptr) == [ptr |-> ptr, twin |-> [ptr |-> ptr, twin |-> FALSE] \in held]
Pages(va, len) ==
  [va |-> va, len |-> len, twin |-> [va |-> va, len |-> len, twin |-> FALSE] \in held]

\* Bound: the program is followed until two of its allocations overlap.
Ready == phase = "runs" /\ mem.halt = "no" /\ calls < MaxCalls /\ Apart

\* A call ends in s, and the program has hold.  After a panic nothing is read.
Becomes(s, hold) ==
  /\ mem' = IF s.mem.halt = "no" THEN s.mem ELSE [init_memory EXCEPT !.halt = s.mem.halt]
  /\ chain' = IF s.mem.halt = "no" THEN s.chain ELSE <<>>
  /\ harm' = s.harm
  /\ held' = IF s.mem.halt = "no" THEN hold ELSE {}
  /\ calls' = calls + 1
  /\ UNCHANGED phase

CallAllocChunk(b) ==
  /\ Ready
  /\ LET ptr == NextChunk(WithPage(Now, b).mem, b)
     IN  Becomes(AllocChunk(Now, b), held \cup {Chunk(ptr)})

CallAllocPages(len) ==
  /\ Ready
  /\ LET va == AllocVa(chain, break_, len)
     IN  Becomes(AllocPages(Now, len), held \cup {Pages(va, len)})

CallFreeChunk(h) ==
  /\ Ready
  /\ "ptr" \in DOMAIN h
  /\ \/ \E b \in Holders(Now, h.ptr), junk \in Junk, equal \in BOOLEAN :
          Becomes(FreeChunk(Now, b, h.ptr, junk, equal), held \ {h})
     \/ /\ Holders(Now, h.ptr) = {}
        /\ Becomes(Fail(Now, "bug"), {})

CallFreePages(h) ==
  /\ Ready
  /\ "va" \in DOMAIN h
  /\ \E junk \in Junk : Becomes(VirRelease(Now, h.va, junk), held \ {h})

KernelFrames(m) == {m.pte[page] : page \in DOMAIN m.pte} \cup {m.pde[t] : t \in DOMAIN m.pde}

\* A page that was released is still mapped: exit releases its frame once more,
\* which by now may be one of the kernel's.
Stale(before, after) ==
  {before.pte[page] : page \in UserPages(before)} \cap KernelFrames(after) # {}

Exit ==
  /\ Ready
  /\ mem' = ReleaseTables(release_vspace(thread_buckmngr_clear(mem), chain))
  /\ harm' = harm \cup (IF Stale(mem, mem') THEN {"stale"} ELSE {})
  /\ phase' = "gone" /\ chain' = <<>> /\ held' = {}
  /\ UNCHANGED calls

Next ==
  \/ \E b \in Bucket : CallAllocChunk(b)
  \/ \E len \in Large : CallAllocPages(len)
  \/ \E h \in held : CallFreeChunk(h) \/ CallFreePages(h)
  \/ Exit

Spec == Init /\ [][Next]_vars
-----------------------------------------------------------------------------
PageList == Seq([va : Nat, free : Seq(1..CAPACITY)])

(***************************************************************************)
(* The type invariant: bitmaps, page tables, lists and areas are in range. *)
(***************************************************************************)
HeapTypeOK ==
  /\ mem.frames.set \subseteq Frame /\ mem.frames.prev \in Frame
  /\ mem.virmm.set \subseteq 0..(SIZE_BITMAP_VIRMM - 1)
  /\ \A page \in DOMAIN mem.pte : page \in Nat /\ mem.pte[page] \in Frame
  /\ \A t \in DOMAIN mem.pde : t \in Nat \cup {Abandoned} /\ mem.pde[t] \in Frame
  /\ DOMAIN mem.lists = List /\ \A l \in List : mem.lists[l] \in PageList
  /\ mem.halt \in {"no", "full", "space", "bug"}
  /\ \A k \in DOMAIN chain : chain[k].begin \in Nat /\ chain[k].end \in Nat
  /\ harm \subseteq {"dropped", "junk", "lost", "stale"}
  /\ phase \in {"runs", "gone"} /\ calls \in 0..MaxCalls

Running == phase = "runs" /\ mem.halt = "no"

\* No area has been dropped from the chain, and no end read at null.
ChainKept == harm \cap {"dropped", "junk"} = {}

InArea(area, node) == area.begin <= node.va /\ node.va + node.len <= area.end

Descends(list) ==
  \A i, j \in DOMAIN list : i < j => list[j].va + list[j].len <= list[i].va

(***************************************************************************)
(* vir_alloc_pages and vir_release_pages keep the areas apart and in       *)
(* order, whatever is released from them first, last or in between: each   *)
(* has its nodes inside, highest first, and ends before the next one.      *)
(***************************************************************************)
AreasInOrder ==
  ChainKept /\ Running =>
    /\ \A k \in DOMAIN chain :
         /\ chain[k].list # <<>> /\ break_ <= chain[k].begin
         /\ \A i \in DOMAIN chain[k].list : InArea(chain[k], chain[k].list[i])
         /\ Descends(chain[k].list)
    /\ \A k \in 1..(Len(chain) - 1) : chain[k].end <= chain[k + 1].begin

(***************************************************************************)
(* What dyn_alloc has given the program and it has not freed does not      *)
(* overlap, as long as the chain has kept its areas.                       *)
(***************************************************************************)
HeldApart == ChainKept => Apart

(***************************************************************************)
(* vm.c:38 says so of every page that vir_alloc_pages returns.             *)
(***************************************************************************)
PagesWereFree == Apart

(***************************************************************************)
(* The program's frees are not refused: as long as the chain is whole and  *)
(* no bucket has lost a page, every chunk and every page is found again.   *)
(***************************************************************************)
FreesFound == harm = {} => mem.halt # "bug"

\* Metadata in use: that of the areas and nodes in the chain.
MetaInUse ==
  {<<"vspace", chain[k].meta>> : k \in DOMAIN chain}
    \cup UNION {{<<l, node.meta[l]>> : l \in {"node", "vaddr"}} :
                  node \in Range(Nodes(chain))}

FreeIn(l) ==
  UNION {{<<page.va, n>> : n \in Range(page.free)} : page \in Range(mem.lists[l])}

Backed(page) == page >= KERN_METADATA => page - KERN_METADATA \in mem.virmm.set

(***************************************************************************)
(* A chunk in use is not on a free list and its page is not given back:    *)
(* the program's chunks and the kernel's own, whose page goes back only    *)
(* when the last one is released.                                          *)
(***************************************************************************)
ChunksOwned ==
  Running =>
    /\ \A m \in MetaInUse : m[2] \notin FreeIn(m[1]) /\ Backed(m[2][1])
    /\ \A m, n \in MetaInUse : m[2] = n[2] => m = n
    /\ \A k, j \in DOMAIN chain :
         /\ chain[k].meta = chain[j].meta => k = j
         /\ \A i \in DOMAIN chain[k].list, n \in DOMAIN chain[j].list, l \in {"node", "vaddr"} :
              chain[k].list[i].meta[l] = chain[j].list[n].meta[l] => k = j /\ i = n
    /\ ChainKept /\ Apart => \A h \in held : "ptr" \in DOMAIN h =>
         Backed(h.ptr[1]) /\ \A b \in Bucket : h.ptr \notin FreeIn(b)

NodePages == UNION {PagesAt(node.va, node.len) : node \in Range(Nodes(chain))}

LivePages == 0..(break_ - 1) \cup NodePages
             \cup {page \in DOMAIN mem.pte : page >= KERN_METADATA}

Tables == {mem.pde[t] : t \in DOMAIN mem.pde}

(***************************************************************************)
(* While the program runs, the frames in use are those of its pages, of    *)
(* the metadata and of the page tables, each the frame of one page: none   *)
(* is given twice, and none is lost, but that of the table that exec       *)
(* abandons.                                                               *)
(***************************************************************************)
FramesExact ==
  ChainKept /\ Running =>
    /\ LivePages \subseteq DOMAIN mem.pte
    /\ mem.frames.set = {mem.pte[page] : page \in LivePages} \cup Tables
    /\ \A p, q \in LivePages : mem.pte[p] = mem.pte[q] => p = q
    /\ \A p \in LivePages : mem.pte[p] \notin Tables

(***************************************************************************)
(* exit leaves in use the frames of the kernel's metadata and its tables,  *)
(* and the one that exec abandons: no other, even if buckets have lost     *)
(* their pages, and all of them, unless an entry of a released page has    *)
(* cost the kernel a frame.                                                *)
(***************************************************************************)
ExitFreesAll ==
  ChainKept /\ phase = "gone" =>
    /\ mem.frames.set \subseteq KernelFrames(mem)
    /\ "stale" \notin harm => mem.frames.set = KernelFrames(mem)
=============================================================================
