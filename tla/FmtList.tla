------------------------------- MODULE FmtList --------------------------------
(***************************************************************************)
(* Frames, the kernel's metadata pages and the lists of chunks carved from *)
(* them: mem/pm.c, vm_kern.c, format_list.c and metadata.c.                *)
(*                                                                         *)
(* A function is an operator on the state m of the memory: the bitmaps of  *)
(* frames and of metadata pages, pte and pde (what the page tables and the *)
(* directory name), lists (each list's pages in order) and halt, which     *)
(* says why the kernel has panicked.  A chunk is <<page, n>>.              *)
(***************************************************************************)
EXTENDS Bitmap, Sequences, SequencesExt, FiniteSetsExt

CONSTANTS FRAMES,            \* frames of memory
          KERN_METADATA,     \* first page of the metadata
          SIZE_BITMAP_VIRMM, \* pages of metadata
          PG_STRUCT_SIZE,    \* pages that a page table maps
          CAPACITY,          \* chunks of a page
          Bucket             \* sizes of chunks that a program may ask for

Metadata == {"vspace", "node", "vaddr"}
List == Metadata \cup Bucket

ASSUME FmtAssumption ==
  /\ FRAMES \in Nat \ {0} /\ KERN_METADATA \in Nat \ {0}
  /\ SIZE_BITMAP_VIRMM \in Nat \ {0} /\ PG_STRUCT_SIZE \in Nat \ {0}
  /\ CAPACITY \in Nat \ {0, 1} /\ Metadata \cap Bucket = {}

Frame    == 0..(FRAMES - 1)
KernPage == KERN_METADATA..(KERN_METADATA + SIZE_BITMAP_VIRMM - 1)

NoMap == [page \in {} |-> 0]

init_memory ==
  [frames |-> bitmap_init(FRAMES), virmm |-> bitmap_init(SIZE_BITMAP_VIRMM),
   pte |-> NoMap, pde |-> NoMap, lists |-> [l \in List |-> <<>>], halt |-> "no"]

Halt(m, why) == IF m.halt = "no" THEN [m EXCEPT !.halt = why] ELSE m

Mapped(map, key, value) == [k \in DOMAIN map \cup {key} |-> IF k = key THEN value ELSE map[k]]
-----------------------------------------------------------------------------
\* A slip: the frame is found and not marked.
phy_alloc_page_NoSet(m) ==
  IF Exhausted(m.frames) THEN Halt(m, "full") ELSE [m EXCEPT !.frames = Scanned(@)]

phy_alloc_page(m) ==
  IF Exhausted(m.frames) THEN Halt(m, "full")
  ELSE [m EXCEPT !.frames = bitmap_set(Scanned(@), FirstFree(@))]

\* The frame that phy_alloc_page gives; the page that vir_alloc_kern gives.
NewFrame(m) == IF Exhausted(m.frames) THEN 0 ELSE FirstFree(m.frames)

NewKernPage(m) == KERN_METADATA + (IF Exhausted(m.virmm) THEN 0 ELSE FirstFree(m.virmm))

vir_alloc_kern(m) ==
  IF Exhausted(m.virmm) THEN Halt(m, "full")
  ELSE [m EXCEPT !.virmm = bitmap_set(Scanned(@), FirstFree(@))]

\* The frame behind the page stays allocated.
vir_release_kern(m, page) == [m EXCEPT !.virmm = bitmap_clear(@, page - KERN_METADATA)]

\* phy_release_vpage, page by page.  The pages stay mapped.
phy_release_vpages(m, pages) ==
  [m EXCEPT !.frames.set = @ \ {m.pte[page] : page \in pages}]

Table(page) == page \div PG_STRUCT_SIZE

\* The page table, if there is none yet, takes a frame of its own.
set_mapping(m, page, frame) ==
  LET m1 == IF Table(page) \in DOMAIN m.pde THEN m
            ELSE [phy_alloc_page(m) EXCEPT !.pde = Mapped(@, Table(page), NewFrame(m))]
  IN  [m1 EXCEPT !.pte = Mapped(@, page, frame)]
-----------------------------------------------------------------------------
fmtlist_init(page) == [va |-> page, free |-> [n \in 1..CAPACITY |-> n]]

Open(m, l) == {k \in DOMAIN m.lists[l] : m.lists[l][k].free # <<>>}

\* A list that is used up is given one more page of metadata.
Grown(m, l) ==
  LET m1 == vir_alloc_kern(phy_alloc_page(m))
  IN  [set_mapping(m1, NewKernPage(m), NewFrame(m)) EXCEPT
         !.lists[l] = Append(@, fmtlist_init(NewKernPage(m)))]

WithRoom(m, l) == IF Open(m, l) = {} THEN Grown(m, l) ELSE m

NextChunk(m, l) ==
  LET m1   == WithRoom(m, l)
      page == m1.lists[l][Min(Open(m1, l))]
  IN  <<page.va, Head(page.free)>>

fmtlist_alloc(m, l) ==
  LET m1 == WithRoom(m, l)
  IN  [m1 EXCEPT !.lists[l][Min(Open(m1, l))].free = Tail(@)]

PagesOf(m, l) == {m.lists[l][k].va : k \in DOMAIN m.lists[l]}

PlaceOf(m, l, page) == Min({k \in DOMAIN m.lists[l] : m.lists[l][k].va = page})

\* A slip: a page is thought free while one chunk of it is out.
fmtlist_release_Early(m, l, chunk) ==
  LET k    == PlaceOf(m, l, chunk[1])
      m1   == [m EXCEPT !.lists[l][k].free = <<chunk[2]>> \o @]
      full == Len(m1.lists[l][k].free) >= CAPACITY - 1
  IN  IF chunk[1] \notin PagesOf(m, l) THEN m
      ELSE IF ~full THEN m1
      ELSE IF chunk[1] >= KERN_METADATA
      THEN [vir_release_kern(m1, chunk[1]) EXCEPT !.lists[l] = <<>>]
      ELSE IF k > 1 THEN [m1 EXCEPT !.lists[l] = RemoveAt(@, k)]
      ELSE m1

\* A chunk of no page of the list changes nothing.  A metadata page that is
\* all free takes the whole list with it.
fmtlist_release(m, l, chunk) ==
  LET k    == PlaceOf(m, l, chunk[1])
      m1   == [m EXCEPT !.lists[l][k].free = <<chunk[2]>> \o @]
      full == Len(m1.lists[l][k].free) = CAPACITY
  IN  IF chunk[1] \notin PagesOf(m, l) THEN m
      ELSE IF ~full THEN m1
      ELSE IF chunk[1] >= KERN_METADATA
      THEN [vir_release_kern(m1, chunk[1]) EXCEPT !.lists[l] = <<>>]
      ELSE IF k > 1 THEN [m1 EXCEPT !.lists[l] = RemoveAt(@, k)]
      ELSE m1
-----------------------------------------------------------------------------
\* metadata.c: the three lists of the kernel.
vspace_alloc(m) == fmtlist_alloc(m, "vspace")
node_alloc(m)   == fmtlist_alloc(m, "node")
vaddr_alloc(m)  == fmtlist_alloc(m, "vaddr")

vspace_release(m, vs)   == fmtlist_release(m, "vspace", vs)
node_release(m, node)   == fmtlist_release(m, "node", node)
vaddr_release(m, vaddr) == fmtlist_release(m, "vaddr", vaddr)
=============================================================================
