------------------------------- MODULE VSpace --------------------------------
(***************************************************************************)
(* mem/vm.c and mem/vspace.c: the areas of an address space.               *)
(*                                                                         *)
(* A chain is the sequence of areas behind the head vmngr_ of a PCB, which *)
(* has no node of its own.  An area has its nodes, highest address first,  *)
(* as list_insert at position 1 leaves them.  Addresses count pages.  meta *)
(* is the metadata that a node (node_t, vaddr_t) or an area is made of.    *)
(***************************************************************************)
EXTENDS Integers, Sequences, SequencesExt, FiniteSetsExt

PAGES == 1048576                  \* pages of 32 bits of address

Wrap(page) == page % PAGES        \* Addresses are unsigned.

Node(va, len, meta) == [va |-> va, len |-> len, meta |-> meta]
Area(begin, end, list, meta) ==
  [begin |-> begin, end |-> end, list |-> list, meta |-> meta]

\* The end of the area before gap k + 1; the first gap is behind the head.
LastEnd(chain, k, begin) == IF k = 0 THEN begin ELSE chain[k].end

\* Unsigned: an area that begins before the last end seems far away.
HasGap(chain, k, begin, amount) ==
  \/ k = Len(chain)
  \/ Wrap(chain[k + 1].begin - LastEnd(chain, k, begin)) >= amount

\* Where the walk of vir_alloc_pages stops.
GapFor(chain, begin, amount) ==
  Min({k \in 0..Len(chain) : HasGap(chain, k, begin, amount)})

AllocVa(chain, begin, amount) == LastEnd(chain, GapFor(chain, begin, amount), begin)

NoSpace(chain, begin, amount, MAX_END) ==
  /\ GapFor(chain, begin, amount) = Len(chain)
  /\ Wrap(AllocVa(chain, begin, amount) + amount) >= MAX_END

\* A slip: the area grows by one page, whatever is asked.
vir_alloc_pages_One(chain, begin, amount, nodeMeta, areaMeta) ==
  LET k    == GapFor(chain, begin, amount)
      va   == AllocVa(chain, begin, amount)
      node == Node(va, amount, nodeMeta)
  IN  IF k = 0 THEN <<Area(va, Wrap(va + 1), <<node>>, areaMeta)>>
      ELSE [chain EXCEPT ![k].list = <<node>> \o @, ![k].end = Wrap(@ + 1)]

\* The area that is found grows; behind the head there is none, and the new
\* one is made the only one of the chain.
vir_alloc_pages(chain, begin, amount, nodeMeta, areaMeta) ==
  LET k    == GapFor(chain, begin, amount)
      va   == AllocVa(chain, begin, amount)
      node == Node(va, amount, nodeMeta)
  IN  IF k = 0 THEN <<Area(va, Wrap(va + amount), <<node>>, areaMeta)>>
      ELSE [chain EXCEPT ![k].list = <<node>> \o @, ![k].end = Wrap(@ + amount)]

\* Areas are forgotten when the first gap is before them.
DropsRest(chain, begin, amount) == GapFor(chain, begin, amount) = 0 /\ chain # <<>>
-----------------------------------------------------------------------------
\* Areas whose range has va, and the nodes of area k that begin there.
AreasWith(chain, va) == {k \in DOMAIN chain : chain[k].begin <= va /\ va < chain[k].end}

NodesAt(chain, k, va) == {i \in DOMAIN chain[k].list : chain[k].list[i].va = va}

AreaOf(chain, va) == Min(AreasWith(chain, va))
IndexOf(chain, va) == Min(NodesAt(chain, AreaOf(chain, va), va))
NodeOf(chain, va) == chain[AreaOf(chain, va)].list[IndexOf(chain, va)]

\* Otherwise a panic: no area, or list_find behind the end of its list.
CanRelease(chain, va) ==
  AreasWith(chain, va) # {} /\ NodesAt(chain, AreaOf(chain, va), va) # {}

Empties(chain, va) == Len(chain[AreaOf(chain, va)].list) = 1

Splits(chain, va) ==
  LET size == Len(chain[AreaOf(chain, va)].list)
  IN  IndexOf(chain, va) \in 2..(size - 1)

\* An area that was the last of the chain has no next one: vspace_append then
\* reads the new end of the area before it at the null pointer.
ReadsNull(chain, va) ==
  Empties(chain, va) /\ AreaOf(chain, va) = Len(chain) /\ Len(chain) > 1

\* vspace_append(prev_vs, worker_vs->next_).
Unlink(chain, k, junk) ==
  LET end == IF k = Len(chain) THEN junk ELSE chain[k + 1].begin
  IN  RemoveAt(IF k = 1 THEN chain ELSE [chain EXCEPT ![k - 1].end = end], k)

\* A slip: the node behind the released one is taken by neither area.
Split_Skips(chain, k, i, areaMeta) ==
  LET area  == chain[k]
      node  == area.list[i]
      lower == SubSeq(area.list, i + 1, Len(area.list))
  IN  SubSeq(chain, 1, k - 1)
      \o <<Area(Last(lower).va, node.va, Tail(lower), areaMeta),
           Area(Wrap(node.va + node.len), area.end, SubSeq(area.list, 1, i - 1), area.meta)>>
      \o SubSeq(chain, k + 1, Len(chain))

\* LCT_MIDDLE: the lower nodes get an area of their own, before this one.
Split(chain, k, i, areaMeta) ==
  LET area  == chain[k]
      node  == area.list[i]
      lower == SubSeq(area.list, i + 1, Len(area.list))
  IN  SubSeq(chain, 1, k - 1)
      \o <<Area(Last(lower).va, node.va, lower, areaMeta),
           Area(Wrap(node.va + node.len), area.end, SubSeq(area.list, 1, i - 1), area.meta)>>
      \o SubSeq(chain, k + 1, Len(chain))

\* A slip: begin and end are changed the wrong way round.
vir_release_pages_Swapped(chain, va, junk, areaMeta) ==
  LET k    == AreaOf(chain, va)
      i    == IndexOf(chain, va)
      len  == NodeOf(chain, va).len
      list == RemoveAt(chain[k].list, i)
  IN  IF Empties(chain, va) THEN Unlink(chain, k, junk)
      ELSE IF Splits(chain, va) THEN Split(chain, k, i, areaMeta)
      ELSE IF i = 1 THEN [chain EXCEPT ![k].list = list, ![k].begin = Wrap(@ + len)]
      ELSE [chain EXCEPT ![k].list = list, ![k].end = Wrap(@ - len)]

vir_release_pages(chain, va, junk, areaMeta) ==
  LET k    == AreaOf(chain, va)
      i    == IndexOf(chain, va)
      len  == NodeOf(chain, va).len
      list == RemoveAt(chain[k].list, i)
  IN  IF Empties(chain, va) THEN Unlink(chain, k, junk)
      ELSE IF Splits(chain, va) THEN Split(chain, k, i, areaMeta)
      ELSE IF i = 1 THEN [chain EXCEPT ![k].list = list, ![k].end = Wrap(@ - len)]
      ELSE [chain EXCEPT ![k].list = list, ![k].begin = Wrap(@ + len)]
=============================================================================
