----------------------------- MODULE HeapProofs ------------------------------
(***************************************************************************)
(* The proofs about Heap: for any sizes of the memory, the metadata, the   *)
(* page tables and the requests, every part of it keeps its type and the   *)
(* areas of the program stay in order.                                     *)
(***************************************************************************)
EXTENDS Heap, DataLemmas, TLAPS

Addr == 0..(PAGES - 1)

\* Pages that may be asked for.
Amount == 1..(PAGES - MAX_END)

ChunkType == Addr \X (1..CAPACITY)

NodeType == [va : Addr, len : Amount, meta : [node : ChunkType, vaddr : ChunkType]]

AreaType == [begin : Addr, end : Addr, list : Seq(NodeType), meta : ChunkType]

(***************************************************************************)
(* An area on its own, and a chain of areas, in order.                     *)
(***************************************************************************)
AreaOk(area) ==
  /\ area.list # <<>> /\ break_ <= area.begin /\ area.end < MAX_END
  /\ \A i \in DOMAIN area.list : InArea(area, area.list[i])
  /\ Descends(area.list)

InOrder(areas) ==
  /\ \A k \in DOMAIN areas : AreaOk(areas[k])
  /\ \A k \in 1..(Len(areas) - 1) : areas[k].end <= areas[k + 1].begin
-----------------------------------------------------------------------------
\* What the assumptions say of the constants.
LEMMA Sizes ==
  /\ PAGES \in Nat \ {0} /\ break_ \in Addr \ {0} /\ MAX_END \in Addr
  /\ KERN_METADATA \in Nat \ {0} /\ KERN_METADATA + SIZE_BITMAP_VIRMM <= PAGES
  /\ SIZE_BITMAP_VIRMM \in Nat \ {0} /\ FRAMES \in Nat \ {0} /\ PG_STRUCT_SIZE \in Nat \ {0}
  /\ CAPACITY \in Nat \ {0, 1} /\ 1 \in 1..CAPACITY
  /\ break_ < MAX_END /\ MAX_END <= KERN_METADATA
  /\ Large \subseteq Amount /\ 1 \in Amount /\ Junk \subseteq Addr /\ MaxCalls \in Nat
<1>1. PAGES \in Nat \ {0}
  BY SMT DEF PAGES
<1>2. QED
  BY <1>1, HeapAssumption, FmtAssumption DEF Addr, Amount

\* Addresses are numbers.
LEMMA AddrIs ==
  /\ \A a \in Addr : a \in Nat /\ a \in Int /\ a < PAGES
  /\ \A a \in Nat : a < PAGES => a \in Addr
BY Sizes DEF Addr

\* What may be asked for is not 0, and wraps from no end that is in the space.
LEMMA AmountIs ==
  \A n \in Amount : n \in Nat \ {0} /\ \A a \in Addr : a < MAX_END => a + n \in Nat /\ a + n <= PAGES - 1
BY Sizes, AddrIs DEF Amount

\* An address is wrapped into the address space, and kept if it is in it.
LEMMA WrapIs ==
  ASSUME NEW page \in Int
  PROVE  Wrap(page) \in Addr /\ (page \in Addr => Wrap(page) = page)
                             /\ (page \in Nat => Wrap(page) <= page)
BY Sizes DEF Wrap, Addr

\* Min of a set of natural numbers is one of them, and none is less.
LEMMA MinIs ==
  ASSUME NEW S \in SUBSET Nat, S # {}
  PROVE  Min(S) \in S /\ \A n \in S : Min(S) <= n
<1>1. \E m \in S : \A n \in S : m <= n
  BY Least, Zenon
<1>2. QED
  BY <1>1, Zenon DEF Min
-----------------------------------------------------------------------------
\* In a chain in order an area is not empty, and any later one lies behind.
LEMMA AreasApart ==
  ASSUME NEW areas \in Seq(AreaType), InOrder(areas)
  PROVE  /\ \A k \in 1..Len(areas) : areas[k].begin < areas[k].end
         /\ \A j, k \in 1..Len(areas) : j < k => areas[j].end <= areas[k].begin
<1> DEFINE n == Len(areas)
<1>1. n \in Nat /\ DOMAIN areas = 1..n /\ \A k \in 1..n : areas[k] \in AreaType
  OBVIOUS
<1>2. ASSUME NEW k \in 1..n PROVE areas[k].begin < areas[k].end
  <2> DEFINE area == areas[k]
  <2>1. /\ area.list \in Seq(NodeType) /\ area.list # <<>>
        /\ \A i \in DOMAIN area.list : InArea(area, area.list[i])
        /\ area.begin \in Addr /\ area.end \in Addr
    BY <1>1 DEF InOrder, AreaOk, AreaType
  <2>2. 1 \in DOMAIN area.list /\ area.list[1] \in NodeType
    BY <2>1
  <2>3. InArea(area, area.list[1]) /\ area.list[1].va \in Nat /\ area.list[1].len \in Nat \ {0}
    BY <2>1, <2>2, AddrIs, AmountIs DEF NodeType
  <2> HIDE DEF area
  <2>4. area.begin < area.end
    BY <2>1, <2>3 DEF InArea, Addr
  <2>5. QED
    BY <2>4 DEF area
<1>10. \A l \in 1..n : areas[l].begin \in Int /\ areas[l].end \in Int
  <2> TAKE l \in 1..n
  <2>1. areas[l].begin \in Addr /\ areas[l].end \in Addr
    <3>1. areas[l] \in AreaType
      BY <1>1
    <3>2. QED
      BY <3>1 DEF AreaType
  <2>2. QED
    BY <2>1, AddrIs
<1>3. SUFFICES ASSUME NEW j \in 1..n, NEW k \in 1..n, j < k, ~(areas[j].end <= areas[k].begin)
               PROVE  FALSE
  BY <1>2
<1> DEFINE Bad == {i \in 1..n : j < i /\ ~(areas[j].end <= areas[i].begin)}
<1>4. Bad \in SUBSET Nat /\ Bad # {}
  BY <1>1, <1>3
<1>5. PICK i \in Bad : \A l \in Bad : i <= l
  BY <1>4, Least, Zenon
<1>6. i - 1 \in 1..(n - 1) /\ (i - 1) + 1 = i /\ i \in 1..n /\ j < i /\ i - 1 \notin Bad
  BY <1>1, <1>5
<1>7. areas[i - 1].end <= areas[i].begin
  BY <1>6 DEF InOrder
<1>8. areas[j].end <= areas[i - 1].begin \/ i - 1 = j
  BY <1>1, <1>6
<1>9. areas[i - 1].begin < areas[i - 1].end
  BY <1>1, <1>2, <1>6
<1>11. i - 1 \in 1..n
  BY <1>1, <1>6
<1> HIDE DEF n
<1>12. /\ areas[j].end \in Int /\ areas[i].begin \in Int
       /\ areas[i - 1].begin \in Int /\ areas[i - 1].end \in Int
  BY <1>6, <1>10, <1>11
<1>13. areas[j].end <= areas[i].begin
  BY <1>7, <1>8, <1>9, <1>12, SMTT(30)
<1>14. QED
  BY <1>5, <1>13

\* Where vir_alloc_pages stops there is a gap.
LEMMA GapIs ==
  ASSUME NEW areas \in Seq(AreaType), NEW amount
  PROVE  LET k == GapFor(areas, break_, amount)
         IN  k \in 0..Len(areas) /\ HasGap(areas, k, break_, amount)
<1> DEFINE S == {k \in 0..Len(areas) : HasGap(areas, k, break_, amount)}
<1>1. Len(areas) \in Nat
  OBVIOUS
<1>2. S \in SUBSET Nat /\ Len(areas) \in S
  BY <1>1 DEF HasGap
<1>3. Min(S) \in S
  BY <1>2, MinIs
<1>4. QED
  BY <1>3 DEF GapFor
-----------------------------------------------------------------------------
MetaType == [node : ChunkType, vaddr : ChunkType]

\* All nodes of the areas.
NodesOf(areas) == UNION {Range(areas[k].list) : k \in DOMAIN areas}

\* An area with one more node, in front of the others.
Extended(new, area, node, end) ==
  /\ new.begin = area.begin /\ new.end = end /\ new.meta = area.meta
  /\ new.list = <<node>> \o area.list

\* vir_alloc_pages, told area by area.
LEMMA AllocIs ==
  ASSUME NEW areas \in Seq(AreaType), NEW amount \in Amount,
         NEW nodeMeta \in MetaType, NEW areaMeta \in ChunkType
  PROVE  LET k     == GapFor(areas, break_, amount)
             va    == AllocVa(areas, break_, amount)
             node  == Node(va, amount, nodeMeta)
             fresh == vir_alloc_pages(areas, break_, amount, nodeMeta, areaMeta)
         IN  /\ k \in 0..Len(areas) /\ va \in Addr /\ node \in NodeType
             /\ va = LastEnd(areas, k, break_)
             /\ fresh \in Seq(AreaType)
             /\ k = 0 => fresh = <<Area(va, Wrap(va + amount), <<node>>, areaMeta)>>
             /\ k > 0 => /\ Len(fresh) = Len(areas)
                         /\ Extended(fresh[k], areas[k], node, Wrap(areas[k].end + amount))
                         /\ \A j \in 1..Len(areas) : j # k => fresh[j] = areas[j]
<1> DEFINE k     == GapFor(areas, break_, amount)
           va    == AllocVa(areas, break_, amount)
           node  == Node(va, amount, nodeMeta)
           fresh == vir_alloc_pages(areas, break_, amount, nodeMeta, areaMeta)
<1>1. k \in 0..Len(areas) /\ va = LastEnd(areas, k, break_)
  BY GapIs DEF AllocVa
<1>2. Len(areas) \in Nat /\ \A j \in 1..Len(areas) : areas[j] \in AreaType
  OBVIOUS
<1>3. k # 0 => k \in 1..Len(areas)
  BY <1>1, <1>2
<1>4. va \in Addr
  <2>1. CASE k = 0
    BY <1>1, <2>1, Sizes DEF LastEnd
  <2>2. CASE k # 0
    <3>1. areas[k] \in AreaType
      BY <1>2, <1>3, <2>2
    <3>2. areas[k].end \in Addr
      BY <3>1 DEF AreaType
    <3>3. QED
      BY <1>1, <2>2, <3>2 DEF LastEnd
  <2>3. QED
    BY <2>1, <2>2
<1>5. node \in NodeType
  BY <1>4 DEF Node, NodeType, MetaType
<1> HIDE DEF k, va, node
<1>6. Wrap(va + amount) \in Addr
  <2>1. va + amount \in Int
    BY <1>4, AddrIs, AmountIs
  <2>2. QED
    BY <2>1, WrapIs
<1>7. CASE k = 0
  <2>1. fresh = <<Area(va, Wrap(va + amount), <<node>>, areaMeta)>>
    BY <1>7, Zenon DEF vir_alloc_pages, k, va, node
  <2>2. Area(va, Wrap(va + amount), <<node>>, areaMeta) \in AreaType
    BY <1>4, <1>5, <1>6 DEF Area, AreaType
  <2>3. fresh \in Seq(AreaType)
    BY <2>1, <2>2
  <2>4. QED
    BY <1>1, <1>4, <1>5, <1>7, <2>1, <2>3 DEF k, va, node
<1>8. CASE k # 0
  <2> DEFINE area == areas[k]
             grown == [area EXCEPT !.list = <<node>> \o @, !.end = Wrap(@ + amount)]
  <2>1. fresh = [areas EXCEPT ![k].list = <<node>> \o @, ![k].end = Wrap(@ + amount)]
    BY <1>8, Zenon DEF vir_alloc_pages, k, va, node
  <2>2. area \in AreaType
    BY <1>2, <1>3, <1>8
  <2>3. /\ area.list \in Seq(NodeType) /\ area.begin \in Addr /\ area.end \in Addr
        /\ area.meta \in ChunkType
    BY <2>2 DEF AreaType
  <2>4. Wrap(area.end + amount) \in Addr
    <3>1. area.end + amount \in Int
      BY <2>3, AddrIs, AmountIs
    <3>2. QED
      BY <3>1, WrapIs
  <2>5. <<node>> \o area.list \in Seq(NodeType)
    BY <1>5, <2>3
  <2>6. grown \in AreaType /\ Extended(grown, area, node, Wrap(area.end + amount))
    BY <2>2, <2>4, <2>5 DEF AreaType, Extended
  <2>7. fresh = [areas EXCEPT ![k] = grown]
    BY <1>2, <1>3, <1>8, <2>1
  <2> HIDE DEF grown, fresh
  <2>8. /\ fresh \in Seq(AreaType) /\ Len(fresh) = Len(areas) /\ fresh[k] = grown
        /\ \A j \in 1..Len(areas) : j # k => fresh[j] = areas[j]
    BY <1>2, <1>3, <1>8, <2>6, <2>7, ExceptSeq
  <2>9. QED
    BY <1>1, <1>4, <1>5, <1>8, <2>6, <2>8 DEF k, va, node, grown, fresh
<1>9. QED
  BY <1>7, <1>8

\* A node in front of a list, by position.
LEMMA FrontIs ==
  ASSUME NEW S, NEW list \in Seq(S), NEW x \in S
  PROVE  /\ <<x>> \o list \in Seq(S) /\ Len(<<x>> \o list) = Len(list) + 1
         /\ (<<x>> \o list)[1] = x
         /\ \A i \in 2..(Len(list) + 1) : (<<x>> \o list)[i] = list[i - 1]
         /\ Range(<<x>> \o list) = Range(list) \cup {x}
<1> DEFINE long == <<x>> \o list
<1>1. <<x>> \in Seq(S) /\ Len(<<x>>) = 1 /\ <<x>>[1] = x /\ Len(list) \in Nat
  OBVIOUS
<1>2. /\ long \in Seq(S) /\ Len(long) = 1 + Len(list)
      /\ \A i \in 1..(1 + Len(list)) : long[i] = IF i <= 1 THEN <<x>>[i] ELSE list[i - 1]
  BY <1>1, ConcatProperties
<1>3. long[1] = x /\ \A i \in 2..(Len(list) + 1) : long[i] = list[i - 1]
  BY <1>1, <1>2
<1> HIDE DEF long
<1>4. Range(long) \subseteq Range(list) \cup {x}
  <2> SUFFICES ASSUME NEW i \in 1..(Len(list) + 1), i # 1 PROVE long[i] \in Range(list)
    BY <1>1, <1>2, <1>3, RangeIs
  <2>1. i \in 2..(Len(list) + 1) /\ i - 1 \in 1..Len(list)
    BY <1>1
  <2>2. QED
    BY <1>3, <2>1, RangeIs
<1>5. Range(list) \cup {x} \subseteq Range(long)
  <2>1. x \in Range(long)
    BY <1>1, <1>2, <1>3, RangeIs
  <2>2. ASSUME NEW i \in 1..Len(list) PROVE list[i] \in Range(long)
    <3>1. i + 1 \in 2..(Len(list) + 1) /\ (i + 1) - 1 = i /\ i + 1 \in 1..(1 + Len(list))
      BY <1>1
    <3>2. long[i + 1] = list[i]
      BY <1>3, <3>1
    <3>3. long[i + 1] \in Range(long)
      BY <1>2, <3>1, RangeIs
    <3>4. QED
      BY <3>2, <3>3
  <2>3. QED
    BY <2>1, <2>2, RangeIs
<1>6. QED
  BY <1>1, <1>2, <1>3, <1>4, <1>5 DEF long

\* An end within the address space is where the arithmetic puts it.
LEMMA EndIs ==
  ASSUME NEW va \in Addr, NEW amount \in Nat, NEW limit \in Addr, va + amount <= limit
  PROVE  Wrap(va + amount) = va + amount
<1>1. va + amount \in Nat /\ limit \in Nat /\ limit < PAGES /\ PAGES \in Nat
  BY AddrIs, Sizes
<1>2. va + amount \in Addr
  BY <1>1, AddrIs
<1>3. QED
  BY <1>1, <1>2, WrapIs

(***************************************************************************)
(* The gap that is found holds what is asked: the new end does not wrap,   *)
(* and lies before the next area and the end of the address space.         *)
(***************************************************************************)
LEMMA GapHolds ==
  ASSUME NEW areas \in Seq(AreaType), InOrder(areas), NEW amount \in Amount,
         ~NoSpace(areas, break_, amount, MAX_END)
  PROVE  LET k  == GapFor(areas, break_, amount)
             va == AllocVa(areas, break_, amount)
         IN  /\ Wrap(va + amount) = va + amount /\ va + amount < MAX_END
             /\ k < Len(areas) => va + amount <= areas[k + 1].begin
             /\ break_ <= va /\ va \in Addr
<1> DEFINE k  == GapFor(areas, break_, amount)
           va == AllocVa(areas, break_, amount)
<1>1. k \in 0..Len(areas) /\ HasGap(areas, k, break_, amount) /\ va = LastEnd(areas, k, break_)
  BY GapIs DEF AllocVa
<1>2. Len(areas) \in Nat /\ amount \in Nat
  BY AmountIs
<1> HIDE DEF k
<1>3. va \in Addr /\ break_ <= va /\ va < MAX_END
  <2>1. CASE k = 0
    <3>1. va = break_
      BY <1>1, <2>1 DEF LastEnd
    <3>2. break_ \in Addr /\ break_ \in Nat /\ break_ < MAX_END
      BY Sizes, AddrIs
    <3>3. QED
      BY <3>1, <3>2
  <2>2. CASE k # 0
    <3>1. k \in 1..Len(areas)
      BY <1>1, <1>2, <2>2
    <3>2. areas[k] \in AreaType /\ AreaOk(areas[k]) /\ areas[k].begin < areas[k].end
      BY <3>1, AreasApart DEF InOrder
    <3>3. /\ areas[k].end \in Addr /\ areas[k].begin \in Addr
          /\ break_ <= areas[k].begin /\ areas[k].end < MAX_END
      BY <3>2 DEF AreaType, AreaOk
    <3>4. va = areas[k].end
      BY <1>1, <2>2 DEF LastEnd
    <3>5. /\ break_ \in Int /\ areas[k].begin \in Int /\ areas[k].end \in Int
      BY <3>3, AddrIs, Sizes
    <3>6. QED
      BY <3>2, <3>3, <3>4, <3>5
  <2>3. QED
    BY <2>1, <2>2
<1>4. va \in Nat /\ MAX_END \in Nat /\ PAGES \in Nat
  BY <1>3, AddrIs, Sizes
<1> HIDE DEF va
<1>5. va + amount \in Addr
  <2>1. va + amount \in Nat /\ va + amount <= PAGES - 1
    BY <1>3, AmountIs
  <2>2. QED
    BY <1>4, <2>1, AddrIs
<1>6. Wrap(va + amount) = va + amount
  BY <1>2, <1>4, <1>5, WrapIs
<1>7. ASSUME k < Len(areas) PROVE va + amount <= areas[k + 1].begin
  <2>1. k + 1 \in 1..Len(areas)
    BY <1>1, <1>2, <1>7
  <2>2. areas[k + 1] \in AreaType /\ AreaOk(areas[k + 1])
    BY <2>1 DEF InOrder
  <2>3. areas[k + 1].begin \in Addr /\ break_ <= areas[k + 1].begin
    BY <2>2 DEF AreaType, AreaOk
  <2>4. areas[k + 1].begin \in Nat
    BY <2>3, AddrIs
  <2>5. va <= areas[k + 1].begin
    <3>1. CASE k = 0
      BY <1>1, <2>3, <3>1 DEF LastEnd
    <3>2. CASE k # 0
      <4>1. k \in 1..(Len(areas) - 1)
        BY <1>1, <1>2, <1>7, <3>2
      <4>2. QED
        BY <1>1, <3>2, <4>1 DEF LastEnd, InOrder
    <3>3. QED
      BY <3>1, <3>2
  <2>6. Wrap(areas[k + 1].begin - va) >= amount
    <3>1. k # Len(areas)
      BY <1>2, <1>1, <1>7
    <3>2. QED
      BY <1>1, <3>1, Zenon DEF HasGap
  <2>7. areas[k + 1].begin - va \in Nat
    BY <1>4, <2>4, <2>5
  <2>8. /\ Wrap(areas[k + 1].begin - va) <= areas[k + 1].begin - va
        /\ Wrap(areas[k + 1].begin - va) \in Addr
    BY <2>7, WrapIs
  <2>9. Wrap(areas[k + 1].begin - va) \in Int
    BY <2>8, AddrIs
  <2>10. QED
    BY <1>2, <1>4, <2>4, <2>6, <2>8, <2>9
<1>8. va + amount < MAX_END
  <2>1. CASE k < Len(areas)
    <3>1. k + 1 \in 1..Len(areas)
      BY <1>1, <1>2, <2>1
    <3>2. areas[k + 1] \in AreaType /\ AreaOk(areas[k + 1]) /\ areas[k + 1].begin < areas[k + 1].end
      BY <3>1, AreasApart, SMTT(30) DEF InOrder
    <3>3. /\ areas[k + 1].end \in Addr /\ areas[k + 1].begin \in Addr
          /\ areas[k + 1].end < MAX_END
      BY <3>2 DEF AreaType, AreaOk
    <3>4. areas[k + 1].end \in Nat /\ areas[k + 1].begin \in Nat
      BY <3>3, AddrIs
    <3>5. QED
      BY <1>2, <1>4, <1>7, <2>1, <3>2, <3>3, <3>4
  <2>2. CASE ~(k < Len(areas))
    <3>1. k = Len(areas)
      BY <1>1, <1>2, <2>2
    <3>2. ~(Wrap(va + amount) >= MAX_END)
      BY <3>1, Zenon DEF NoSpace, k, va
    <3>3. QED
      BY <1>2, <1>4, <1>6, <3>2
  <2>3. QED
    BY <2>1, <2>2
<1>9. QED
  BY <1>3, <1>6, <1>7, <1>8 DEF k, va

\* A node of a chain in order lies in one of its areas.
LEMMA NodeIn ==
  ASSUME NEW areas \in Seq(AreaType), InOrder(areas), NEW n \in NodesOf(areas)
  PROVE  /\ n \in NodeType /\ n.va \in Nat /\ n.len \in Nat \ {0}
         /\ \E k \in 1..Len(areas) : \E i \in 1..Len(areas[k].list) :
              n = areas[k].list[i] /\ InArea(areas[k], n)
<1>1. Len(areas) \in Nat /\ DOMAIN areas = 1..Len(areas)
  OBVIOUS
<1>2. PICK k \in 1..Len(areas) : n \in Range(areas[k].list)
  BY <1>1 DEF NodesOf
<1>3. areas[k] \in AreaType /\ AreaOk(areas[k])
  BY <1>1, <1>2 DEF InOrder
<1>4. areas[k].list \in Seq(NodeType)
  BY <1>3 DEF AreaType
<1>5. PICK i \in 1..Len(areas[k].list) : n = areas[k].list[i]
  BY <1>2, <1>4, RangeIs
<1>6. n \in NodeType /\ i \in DOMAIN areas[k].list
  BY <1>4, <1>5
<1>7. n.va \in Addr /\ n.len \in Amount
  BY <1>6 DEF NodeType
<1>8. InArea(areas[k], n)
  BY <1>3, <1>5, <1>6 DEF AreaOk
<1>9. QED
  BY <1>2, <1>5, <1>6, <1>7, <1>8, AddrIs, AmountIs

\* An area with one more node behind its end is in order.
LEMMA ExtendedOk ==
  ASSUME NEW area \in AreaType, AreaOk(area), NEW new \in AreaType, NEW node \in NodeType,
         node.va = area.end, node.va + node.len < MAX_END,
         Extended(new, area, node, node.va + node.len)
  PROVE  AreaOk(new) /\ area.end <= new.end /\ new.begin = area.begin
<1>1. /\ area.list \in Seq(NodeType) /\ area.begin \in Nat /\ area.end \in Nat
      /\ area.begin < area.end
  <2>1. area.list \in Seq(NodeType) /\ area.begin \in Addr /\ area.end \in Addr /\ area.list # <<>>
    BY DEF AreaType, AreaOk
  <2>2. area.list[1] \in NodeType /\ 1 \in DOMAIN area.list
    BY <2>1
  <2>3. area.list[1].va \in Nat /\ area.list[1].len \in Nat \ {0} /\ InArea(area, area.list[1])
    BY <2>2, AddrIs, AmountIs DEF NodeType, AreaOk
  <2>4. area.begin \in Nat /\ area.end \in Nat
    BY <2>1, AddrIs
  <2>5. QED
    BY <2>1, <2>3, <2>4 DEF InArea
<1>2. /\ new.begin = area.begin /\ new.end = node.va + node.len
      /\ new.list = <<node>> \o area.list
  BY DEF Extended
<1>3. node.va \in Nat /\ node.len \in Nat \ {0}
  <2>1. node.va \in Addr /\ node.len \in Amount
    BY DEF NodeType
  <2>2. QED
    BY <2>1, AddrIs, AmountIs
<1>4. /\ new.list \in Seq(NodeType) /\ Len(new.list) = Len(area.list) + 1
      /\ new.list[1] = node /\ Len(area.list) \in Nat
      /\ \A i \in 2..(Len(area.list) + 1) : new.list[i] = area.list[i - 1]
  BY <1>1, <1>2, FrontIs
<1>5. \A i \in 1..Len(area.list) :
        /\ area.list[i].va \in Nat /\ area.list[i].len \in Nat
        /\ area.begin <= area.list[i].va /\ area.list[i].va + area.list[i].len <= area.end
  <2> TAKE i \in 1..Len(area.list)
  <2>1. area.list[i] \in NodeType /\ i \in DOMAIN area.list
    BY <1>1
  <2>2. area.list[i].va \in Addr /\ area.list[i].len \in Amount /\ InArea(area, area.list[i])
    BY <2>1 DEF NodeType, AreaOk
  <2>3. QED
    BY <2>2, AddrIs, AmountIs DEF InArea
<1>6. \A i \in 1..Len(new.list) : i = 1 \/ (i \in 2..(Len(area.list) + 1) /\ i - 1 \in 1..Len(area.list))
  BY <1>4
<1>7. \A i \in 1..Len(new.list) : InArea(new, new.list[i])
  <2> TAKE i \in 1..Len(new.list)
  <2>1. CASE i = 1
    BY <1>1, <1>2, <1>3, <1>4, <2>1 DEF InArea
  <2>2. CASE i # 1
    <3>1. i - 1 \in 1..Len(area.list) /\ new.list[i] = area.list[i - 1]
      BY <1>4, <1>6, <2>2
    <3> DEFINE old == area.list[i - 1]
    <3>2. /\ old.va \in Nat /\ old.len \in Nat
          /\ area.begin <= old.va /\ old.va + old.len <= area.end
      BY <1>5, <3>1
    <3> HIDE DEF old
    <3>3. area.begin <= old.va /\ old.va + old.len <= new.end
      BY <1>1, <1>2, <1>3, <3>2
    <3>4. QED
      BY <1>2, <3>1, <3>3 DEF InArea, old
  <2>3. QED
    BY <2>1, <2>2
<1>8. Descends(new.list)
  <2> SUFFICES ASSUME NEW i \in 1..Len(new.list), NEW j \in 1..Len(new.list), i < j
               PROVE  new.list[j].va + new.list[j].len <= new.list[i].va
    <3>1. DOMAIN new.list = 1..Len(new.list)
      BY <1>4
    <3>2. QED
      BY <3>1 DEF Descends
  <2>1. j # 1 /\ j - 1 \in 1..Len(area.list) /\ new.list[j] = area.list[j - 1]
    BY <1>4, <1>6
  <2>2. CASE i = 1
    BY <1>1, <1>4, <1>5, <2>1, <2>2
  <2>3. CASE i # 1
    <3>1. i - 1 \in 1..Len(area.list) /\ new.list[i] = area.list[i - 1] /\ i - 1 < j - 1
      BY <1>4, <1>6, <2>3
    <3>2. Descends(area.list) /\ DOMAIN area.list = 1..Len(area.list)
      BY <1>1 DEF AreaOk
    <3>3. QED
      BY <2>1, <3>1, <3>2 DEF Descends
  <2>4. QED
    BY <2>2, <2>3
<1>9. new.list # <<>> /\ DOMAIN new.list = 1..Len(new.list)
  BY <1>4
<1>10. break_ <= new.begin /\ new.end < MAX_END
  BY <1>2 DEF AreaOk
<1>11. QED
  BY <1>1, <1>2, <1>3, <1>7, <1>8, <1>9, <1>10 DEF AreaOk

(***************************************************************************)
(* Areas that lie apart from a node: those before the gap end there, the   *)
(* others begin behind it.                                                 *)
(***************************************************************************)
LEMMA NodesBeside ==
  ASSUME NEW areas \in Seq(AreaType), InOrder(areas), NEW k \in 0..Len(areas),
         NEW va \in Nat, NEW end \in Nat,
         k > 0 => areas[k].end <= va,
         k < Len(areas) => end <= areas[k + 1].begin
  PROVE  \A n \in NodesOf(areas) : n.va + n.len <= va \/ end <= n.va
<1> SUFFICES ASSUME NEW n \in NodesOf(areas) PROVE n.va + n.len <= va \/ end <= n.va
  OBVIOUS
<1>1. n.va \in Nat /\ n.len \in Nat \ {0}
  BY NodeIn
<1>2. PICK j \in 1..Len(areas) : InArea(areas[j], n)
  BY NodeIn
<1>3. Len(areas) \in Nat /\ \A i \in 1..Len(areas) : areas[i] \in AreaType
  OBVIOUS
<1>4. \A i \in 1..Len(areas) : areas[i].begin \in Nat /\ areas[i].end \in Nat
  <2> TAKE i \in 1..Len(areas)
  <2>1. areas[i].begin \in Addr /\ areas[i].end \in Addr
    BY <1>3 DEF AreaType
  <2>2. QED
    BY <2>1, AddrIs
<1>5. /\ \A i \in 1..Len(areas) : areas[i].begin < areas[i].end
      /\ \A h, i \in 1..Len(areas) : h < i => areas[h].end <= areas[i].begin
  BY AreasApart
<1>6. areas[j].begin <= n.va /\ n.va + n.len <= areas[j].end
  BY <1>2 DEF InArea
<1>7. CASE j <= k
  <2>1. k \in 1..Len(areas) /\ areas[k].end <= va
    BY <1>3, <1>7
  <2>2. areas[j].end <= areas[k].end
    <3>1. CASE j = k
      BY <1>4, <2>1, <3>1
    <3>2. CASE j # k
      <4>1. areas[j].end <= areas[k].begin /\ areas[k].begin < areas[k].end
        BY <1>5, <1>7, <2>1, <3>2
      <4>2. QED
        BY <1>4, <2>1, <4>1
    <3>3. QED
      BY <3>1, <3>2
  <2>3. QED
    BY <1>1, <1>4, <1>6, <2>1, <2>2
<1>8. CASE ~(j <= k)
  <2>1. k < Len(areas) /\ k + 1 \in 1..Len(areas) /\ end <= areas[k + 1].begin
    BY <1>3, <1>8
  <2>2. areas[k + 1].begin <= areas[j].begin
    <3>1. CASE j = k + 1
      BY <1>4, <2>1, <3>1
    <3>2. CASE j # k + 1
      <4>1. areas[k + 1].end <= areas[j].begin /\ areas[k + 1].begin < areas[k + 1].end
        BY <1>5, <1>8, <2>1, <3>2
      <4>2. QED
        BY <1>4, <2>1, <4>1
    <3>3. QED
      BY <3>1, <3>2
  <2>3. QED
    BY <1>1, <1>4, <1>6, <2>1, <2>2, SMTT(30)
<1>9. QED
  BY <1>7, <1>8

(***************************************************************************)
(* vir_alloc_pages, as long as it drops no area: the areas stay in order,  *)
(* and they have one node more, which lies apart from the others.          *)
(***************************************************************************)
LEMMA AllocKeeps ==
  ASSUME NEW areas \in Seq(AreaType), InOrder(areas), NEW amount \in Amount,
         NEW nodeMeta \in MetaType, NEW areaMeta \in ChunkType,
         ~NoSpace(areas, break_, amount, MAX_END), ~DropsRest(areas, break_, amount)
  PROVE  LET va    == AllocVa(areas, break_, amount)
             node  == Node(va, amount, nodeMeta)
             fresh == vir_alloc_pages(areas, break_, amount, nodeMeta, areaMeta)
         IN  /\ InOrder(fresh)
             /\ NodesOf(fresh) = NodesOf(areas) \cup {node}
             /\ \A n \in NodesOf(areas) : n.va + n.len <= va \/ va + amount <= n.va
             /\ va + amount < MAX_END
<1> DEFINE k     == GapFor(areas, break_, amount)
           va    == AllocVa(areas, break_, amount)
           node  == Node(va, amount, nodeMeta)
           end   == Wrap(va + amount)
           fresh == vir_alloc_pages(areas, break_, amount, nodeMeta, areaMeta)
<1>1. /\ k \in 0..Len(areas) /\ va \in Addr /\ node \in NodeType
      /\ va = LastEnd(areas, k, break_) /\ fresh \in Seq(AreaType)
      /\ k = 0 => fresh = <<Area(va, end, <<node>>, areaMeta)>>
  BY AllocIs
<1>2. k > 0 => /\ Len(fresh) = Len(areas)
               /\ Extended(fresh[k], areas[k], node, Wrap(areas[k].end + amount))
               /\ \A j \in 1..Len(areas) : j # k => fresh[j] = areas[j]
  BY AllocIs
<1>3. /\ end = va + amount /\ va + amount < MAX_END /\ break_ <= va
      /\ k < Len(areas) => va + amount <= areas[k + 1].begin
  BY GapHolds
<1>4. node.va = va /\ node.len = amount
  BY DEF Node
<1>5. k = 0 => areas = <<>>
  BY Zenon DEF DropsRest
<1>6. amount \in Nat \ {0} /\ va \in Nat /\ Len(areas) \in Nat
  BY <1>1, AmountIs, AddrIs
<1>7. k > 0 => va = areas[k].end
  BY <1>1, <1>6 DEF LastEnd
<1> HIDE DEF k, va, node, end, fresh
<1>8. \A n \in NodesOf(areas) : n.va + n.len <= va \/ va + amount <= n.va
  <2>1. k > 0 => areas[k].end <= va
    BY <1>6, <1>7
  <2>2. va + amount \in Nat
    BY <1>6
  <2> DEFINE top == va + amount
  <2>3. top \in Nat /\ (k < Len(areas) => top <= areas[k + 1].begin)
    BY <1>3, <2>2
  <2> HIDE DEF top
  <2>4. \A n \in NodesOf(areas) : n.va + n.len <= va \/ top <= n.va
    BY <1>1, <1>6, <2>1, <2>3, NodesBeside
  <2>5. QED
    BY <2>4 DEF top
<1>9. CASE k = 0
  <2>1. /\ Len(fresh) = 1 /\ DOMAIN fresh = {1}
        /\ fresh[1] = Area(va, end, <<node>>, areaMeta)
    BY <1>1, <1>9
  <2>2. /\ fresh[1].begin = va /\ fresh[1].end = end /\ fresh[1].list = <<node>>
    BY <2>1 DEF Area
  <2>3. AreaOk(fresh[1])
    <3>1. <<node>> # <<>> /\ DOMAIN <<node>> = {1} /\ <<node>>[1] = node
      OBVIOUS
    <3>2. InArea(fresh[1], node)
      BY <1>3, <1>4, <1>6, <2>2 DEF InArea
    <3>3. Descends(<<node>>)
      BY <3>1 DEF Descends
    <3>4. QED
      BY <1>3, <2>2, <3>1, <3>2, <3>3 DEF AreaOk
  <2>4. InOrder(fresh)
    BY <2>1, <2>3 DEF InOrder
  <2>5. NodesOf(areas) = {}
    BY <1>5, <1>9 DEF NodesOf
  <2>6. NodesOf(fresh) = {node}
    <3>1. Range(<<node>>) = {node}
      BY DEF Range
    <3>2. QED
      BY <2>1, <2>2, <3>1 DEF NodesOf
  <2>7. QED
    BY <1>3, <1>8, <2>4, <2>5, <2>6 DEF k, va, node, end, fresh
<1>10. CASE k # 0
  <2>1. k \in 1..Len(areas) /\ k > 0
    BY <1>1, <1>6, <1>10
  <2>2. /\ Len(fresh) = Len(areas) /\ DOMAIN fresh = 1..Len(areas)
        /\ Extended(fresh[k], areas[k], node, end)
        /\ \A j \in 1..Len(areas) : j # k => fresh[j] = areas[j]
    <3>1. end = Wrap(areas[k].end + amount)
      BY <1>7, <2>1 DEF end
    <3>2. QED
      BY <1>1, <1>2, <2>1, <3>1
  <2>3. areas[k] \in AreaType /\ fresh[k] \in AreaType /\ AreaOk(areas[k])
    BY <1>1, <2>1, <2>2 DEF InOrder
  <2>4. AreaOk(fresh[k]) /\ areas[k].end <= fresh[k].end /\ fresh[k].begin = areas[k].begin
    <3>1. node.va = areas[k].end
      BY <1>4, <1>7, <2>1
    <3>2. node.va + node.len < MAX_END /\ node.va + node.len = end
      BY <1>3, <1>4
    <3>3. QED
      BY <1>1, <2>2, <2>3, <3>1, <3>2, ExtendedOk
  <2>5. fresh[k].end = end
    BY <2>2 DEF Extended
  <2>6. InOrder(fresh)
    <3>1. ASSUME NEW j \in 1..Len(areas) PROVE AreaOk(fresh[j])
      <4>1. DOMAIN areas = 1..Len(areas)
        OBVIOUS
      <4>2. QED
        BY <2>2, <2>4, <3>1, <4>1 DEF InOrder
    <3>2. ASSUME NEW j \in 1..(Len(areas) - 1) PROVE fresh[j].end <= fresh[j + 1].begin
      <4>1. j \in 1..Len(areas) /\ j + 1 \in 1..Len(areas) /\ j + 1 # j
        BY <1>6
      <4>2. areas[j].end <= areas[j + 1].begin
        BY <3>2 DEF InOrder
      <4>3. CASE j = k
        BY <1>3, <1>6, <2>2, <2>5, <4>1, <4>3
      <4>4. CASE j # k
        <5>1. fresh[j] = areas[j] /\ fresh[j + 1].begin = areas[j + 1].begin
          BY <2>2, <2>4, <4>1, <4>4
        <5>2. QED
          BY <4>2, <5>1
      <4>5. QED
        BY <4>3, <4>4
    <3>3. QED
      BY <2>2, <3>1, <3>2 DEF InOrder
  <2>7. NodesOf(fresh) = NodesOf(areas) \cup {node}
    <3>1. areas[k].list \in Seq(NodeType) /\ fresh[k].list = <<node>> \o areas[k].list
      BY <2>2, <2>3 DEF AreaType, Extended
    <3>2. Range(fresh[k].list) = Range(areas[k].list) \cup {node}
      BY <1>1, <3>1, FrontIs
    <3>3. \A j \in 1..Len(areas) : j # k => Range(fresh[j].list) = Range(areas[j].list)
      BY <2>2
    <3>4. DOMAIN areas = 1..Len(areas)
      OBVIOUS
    <3>5. QED
      BY <2>1, <2>2, <3>2, <3>3, <3>4 DEF NodesOf
  <2>8. QED
    BY <1>3, <1>8, <2>6, <2>7 DEF k, va, node, end, fresh
<1>11. QED
  BY <1>9, <1>10

\* The nodes of one area that descend are distinct.
LEMMA ListApart ==
  ASSUME NEW list \in Seq(NodeType), Descends(list)
  PROVE  /\ IsInjective(list)
         /\ \A i, j \in 1..Len(list) : i # j =>
              \/ list[i].va + list[i].len <= list[j].va
              \/ list[j].va + list[j].len <= list[i].va
         /\ \A i, j \in 1..Len(list) : list[i].va = list[j].va => i = j
<1>1. Len(list) \in Nat /\ DOMAIN list = 1..Len(list)
  OBVIOUS
<1>2. \A i \in 1..Len(list) : list[i].va \in Nat /\ list[i].len \in Nat \ {0}
  <2> TAKE i \in 1..Len(list)
  <2>1. list[i] \in NodeType
    OBVIOUS
  <2>2. list[i].va \in Addr /\ list[i].len \in Amount
    BY <2>1 DEF NodeType
  <2>3. QED
    BY <2>2, AddrIs, AmountIs
<1>3. ASSUME NEW i \in 1..Len(list), NEW j \in 1..Len(list), i # j
      PROVE  \/ list[i].va + list[i].len <= list[j].va
             \/ list[j].va + list[j].len <= list[i].va
  <2>1. i < j \/ j < i
    BY <1>1, <1>3
  <2>2. QED
    BY <1>1, <2>1 DEF Descends
<1>4. ASSUME NEW i \in 1..Len(list), NEW j \in 1..Len(list), list[i].va = list[j].va
      PROVE  i = j
  BY <1>2, <1>3, <1>4
<1>5. IsInjective(list)
  BY <1>4, RangeIs
<1>6. QED
  BY <1>3, <1>4, <1>5

\* The nodes of a chain in order do not overlap.
LEMMA NodesApart ==
  ASSUME NEW areas \in Seq(AreaType), InOrder(areas),
         NEW m \in NodesOf(areas), NEW n \in NodesOf(areas), m # n
  PROVE  m.va + m.len <= n.va \/ n.va + n.len <= m.va
<1>1. /\ m.va \in Nat /\ m.len \in Nat \ {0} /\ n.va \in Nat /\ n.len \in Nat \ {0}
  BY NodeIn
<1>2. PICK j \in 1..Len(areas) : \E i \in 1..Len(areas[j].list) :
                                   m = areas[j].list[i] /\ InArea(areas[j], m)
  BY NodeIn
<1>3. PICK k \in 1..Len(areas) : \E i \in 1..Len(areas[k].list) :
                                   n = areas[k].list[i] /\ InArea(areas[k], n)
  BY NodeIn
<1>4. \A i \in 1..Len(areas) : /\ areas[i].begin \in Nat /\ areas[i].end \in Nat
                               /\ areas[i].list \in Seq(NodeType) /\ Descends(areas[i].list)
  <2> TAKE i \in 1..Len(areas)
  <2>1. areas[i] \in AreaType /\ AreaOk(areas[i])
    <3>1. DOMAIN areas = 1..Len(areas)
      OBVIOUS
    <3>2. QED
      BY <3>1 DEF InOrder
  <2>2. /\ areas[i].begin \in Addr /\ areas[i].end \in Addr
        /\ areas[i].list \in Seq(NodeType) /\ Descends(areas[i].list)
    BY <2>1 DEF AreaType, AreaOk
  <2>3. QED
    BY <2>2, AddrIs
<1>5. CASE j = k
  <2>1. PICK h \in 1..Len(areas[j].list) : m = areas[j].list[h]
    BY <1>2
  <2>2. PICK i \in 1..Len(areas[j].list) : n = areas[j].list[i]
    BY <1>3, <1>5
  <2>3. areas[j].list \in Seq(NodeType) /\ Descends(areas[j].list) /\ h # i
    BY <1>4, <2>1, <2>2
  <2>4. QED
    BY <2>1, <2>2, <2>3, ListApart
<1>6. CASE j # k
  <2>1. areas[j].end <= areas[k].begin \/ areas[k].end <= areas[j].begin
    <3>1. j < k \/ k < j
      BY <1>6
    <3>2. QED
      BY <3>1, AreasApart
  <2>2. /\ areas[j].begin <= m.va /\ m.va + m.len <= areas[j].end
        /\ areas[k].begin <= n.va /\ n.va + n.len <= areas[k].end
    BY <1>2, <1>3 DEF InArea
  <2>3. /\ areas[j].begin \in Nat /\ areas[j].end \in Nat
        /\ areas[k].begin \in Nat /\ areas[k].end \in Nat
    BY <1>4
  <2> DEFINE jb == areas[j].begin
             je == areas[j].end
             kb == areas[k].begin
             ke == areas[k].end
  <2>4. /\ jb \in Nat /\ je \in Nat /\ kb \in Nat /\ ke \in Nat
        /\ je <= kb \/ ke <= jb
        /\ jb <= m.va /\ m.va + m.len <= je /\ kb <= n.va /\ n.va + n.len <= ke
    BY <2>1, <2>2, <2>3
  <2> HIDE DEF jb, je, kb, ke
  <2>5. QED
    BY <1>1, <2>4, SMTT(30)
<1>7. QED
  BY <1>5, <1>6

\* The area and the node that vir_release_pages finds.
LEMMA FoundIs ==
  ASSUME NEW areas \in Seq(AreaType), NEW va, CanRelease(areas, va)
  PROVE  LET k == AreaOf(areas, va)
             i == IndexOf(areas, va)
         IN  /\ k \in 1..Len(areas) /\ areas[k] \in AreaType
             /\ areas[k].list \in Seq(NodeType) /\ i \in 1..Len(areas[k].list)
             /\ NodeOf(areas, va) = areas[k].list[i]
             /\ areas[k].list[i] \in NodeType /\ areas[k].list[i].va = va
             /\ areas[k].begin <= va /\ va < areas[k].end
<1> DEFINE k == AreaOf(areas, va)
           i == IndexOf(areas, va)
<1>1. DOMAIN areas = 1..Len(areas) /\ Len(areas) \in Nat
  OBVIOUS
<1>2. AreasWith(areas, va) \in SUBSET Nat /\ AreasWith(areas, va) # {}
  BY <1>1 DEF CanRelease, AreasWith
<1>3. k \in AreasWith(areas, va)
  BY <1>2, MinIs DEF AreaOf
<1> HIDE DEF k
<1>4. k \in 1..Len(areas) /\ areas[k] \in AreaType /\ areas[k].begin <= va /\ va < areas[k].end
  BY <1>1, <1>3 DEF AreasWith
<1>5. areas[k].list \in Seq(NodeType)
  BY <1>4 DEF AreaType
<1>6. DOMAIN areas[k].list = 1..Len(areas[k].list) /\ Len(areas[k].list) \in Nat
  BY <1>5
<1>7. NodesAt(areas, k, va) \in SUBSET Nat /\ NodesAt(areas, k, va) # {}
  <2>1. NodesAt(areas, k, va) # {}
    BY DEF CanRelease, k
  <2>2. QED
    BY <1>6, <2>1 DEF NodesAt
<1>8. i = Min(NodesAt(areas, k, va)) /\ NodeOf(areas, va) = areas[k].list[i]
  BY DEF IndexOf, NodeOf, k
<1>9. i \in NodesAt(areas, k, va)
  BY <1>7, <1>8, MinIs
<1> HIDE DEF i
<1>10. i \in 1..Len(areas[k].list) /\ areas[k].list[i].va = va
  BY <1>6, <1>9 DEF NodesAt
<1>11. areas[k].list[i] \in NodeType
  BY <1>5, <1>10
<1>12. QED
  BY <1>4, <1>5, <1>8, <1>10, <1>11 DEF k, i

Spliced(seq, k, a, b) == SubSeq(seq, 1, k - 1) \o <<a, b>> \o SubSeq(seq, k + 1, Len(seq))

\* Two elements in the place of one, by position.
LEMMA SplicedIs ==
  ASSUME NEW S, NEW seq \in Seq(S), NEW k \in 1..Len(seq), NEW a \in S, NEW b \in S
  PROVE  LET long == Spliced(seq, k, a, b)
         IN  /\ long \in Seq(S) /\ Len(long) = Len(seq) + 1
             /\ \A j \in 1..(Len(seq) + 1) :
                  long[j] = IF j < k THEN seq[j] ELSE IF j = k THEN a
                            ELSE IF j = k + 1 THEN b ELSE seq[j - 1]
<1> DEFINE front == SubSeq(seq, 1, k - 1)
           rear  == SubSeq(seq, k + 1, Len(seq))
           mid   == front \o <<a, b>>
           long  == mid \o rear
<1>0. Len(seq) \in Nat
  OBVIOUS
<1>1. /\ front \in Seq(S) /\ Len(front) = k - 1
      /\ \A j \in 1..(k - 1) : front[j] = seq[j]
  BY <1>0, SubSeqProperties
<1>2. /\ rear \in Seq(S) /\ Len(rear) = Len(seq) - k
      /\ \A j \in 1..(Len(seq) - k) : rear[j] = seq[j + k]
  BY <1>0, SubSeqProperties
<1>3. <<a, b>> \in Seq(S) /\ Len(<<a, b>>) = 2 /\ <<a, b>>[1] = a /\ <<a, b>>[2] = b
  OBVIOUS
<1> HIDE DEF front, rear
<1>4. /\ mid \in Seq(S) /\ Len(mid) = k + 1 /\ mid[k] = a /\ mid[k + 1] = b
      /\ \A j \in 1..(k - 1) : mid[j] = seq[j]
  <2>1. /\ mid \in Seq(S) /\ Len(mid) = (k - 1) + 2
        /\ \A j \in 1..((k - 1) + 2) : mid[j] = IF j <= k - 1 THEN front[j] ELSE <<a, b>>[j - (k - 1)]
    BY <1>1, <1>3, ConcatProperties
  <2> HIDE DEF mid
  <2>2. /\ k \in 1..((k - 1) + 2) /\ ~(k <= k - 1) /\ k - (k - 1) = 1
        /\ k + 1 \in 1..((k - 1) + 2) /\ ~(k + 1 <= k - 1) /\ (k + 1) - (k - 1) = 2
        /\ (k - 1) + 2 = k + 1
        /\ \A j \in 1..(k - 1) : j \in 1..((k - 1) + 2) /\ j <= k - 1
    BY <1>0
  <2>3. mid[k] = <<a, b>>[1] /\ mid[k + 1] = <<a, b>>[2]
    BY <2>1, <2>2
  <2>4. \A j \in 1..(k - 1) : mid[j] = seq[j]
    BY <1>1, <2>1, <2>2
  <2>5. QED
    BY <1>3, <2>1, <2>2, <2>3, <2>4
<1> HIDE DEF mid
<1>5. /\ long \in Seq(S) /\ Len(long) = (k + 1) + (Len(seq) - k)
      /\ \A j \in 1..((k + 1) + (Len(seq) - k)) :
           long[j] = IF j <= k + 1 THEN mid[j] ELSE rear[j - (k + 1)]
  <2>1. /\ long \in Seq(S) /\ Len(long) = Len(mid) + Len(rear)
        /\ \A j \in 1..(Len(mid) + Len(rear)) :
             long[j] = IF j <= Len(mid) THEN mid[j] ELSE rear[j - Len(mid)]
    BY <1>2, <1>4, ConcatProperties, Zenon
  <2>2. Len(mid) = k + 1 /\ Len(rear) = Len(seq) - k
    BY <1>2, <1>4
  <2>3. QED
    BY <2>1, <2>2, Zenon
<1>6. (k + 1) + (Len(seq) - k) = Len(seq) + 1
  BY <1>0
<1> HIDE DEF long
<1>7. \A j \in 1..(k + 1) : long[j] = mid[j]
  BY <1>0, <1>5, <1>6
<1>8. long[k] = a /\ long[k + 1] = b /\ \A j \in 1..(k - 1) : long[j] = seq[j]
  BY <1>0, <1>4, <1>7
<1>9. ASSUME NEW j \in (k + 2)..(Len(seq) + 1) PROVE long[j] = seq[j - 1]
  <2>1. /\ j \in 1..((k + 1) + (Len(seq) - k)) /\ ~(j <= k + 1)
        /\ j - (k + 1) \in 1..(Len(seq) - k) /\ (j - (k + 1)) + k = j - 1
    BY <1>0
  <2>2. QED
    BY <1>2, <1>5, <2>1
<1>10. long = Spliced(seq, k, a, b)
  BY DEF long, mid, front, rear, Spliced
<1>11. \A j \in 1..(Len(seq) + 1) :
         \/ (j < k /\ j \in 1..(k - 1)) \/ j = k \/ j = k + 1
         \/ j \in (k + 2)..(Len(seq) + 1) /\ ~(j < k) /\ j # k /\ j # k + 1
  BY <1>0
<1>12. \A j \in 1..(Len(seq) + 1) :
         long[j] = IF j < k THEN seq[j] ELSE IF j = k THEN a
                   ELSE IF j = k + 1 THEN b ELSE seq[j - 1]
  BY <1>0, <1>8, <1>9, <1>11
<1>13. QED
  BY <1>5, <1>6, <1>10, <1>12

\* The number of the area that comes to place j when area k is unlinked.
From(j, k) == IF j < k THEN j ELSE j + 1

\* vspace_append(prev_vs, worker_vs->next_), area by area.
LEMMA UnlinkIs ==
  ASSUME NEW areas \in Seq(AreaType), NEW k \in 1..Len(areas), NEW junk \in Addr
  PROVE  LET new == Unlink(areas, k, junk)
             end == IF k = Len(areas) THEN junk ELSE areas[k + 1].begin
         IN  /\ new \in Seq(AreaType) /\ Len(new) = Len(areas) - 1
             /\ \A j \in 1..(Len(areas) - 1) :
                  /\ From(j, k) \in 1..Len(areas)
                  /\ new[j].list = areas[From(j, k)].list
                  /\ new[j].meta = areas[From(j, k)].meta
                  /\ new[j].begin = areas[From(j, k)].begin
                  /\ new[j].end = IF j = k - 1 THEN end ELSE areas[From(j, k)].end
<1> DEFINE new    == Unlink(areas, k, junk)
           end    == IF k = Len(areas) THEN junk ELSE areas[k + 1].begin
           linked == IF k = 1 THEN areas ELSE [areas EXCEPT ![k - 1].end = end]
<1>1. Len(areas) \in Nat /\ \A j \in 1..Len(areas) : areas[j] \in AreaType
  OBVIOUS
<1>2. end \in Addr
  <2>1. CASE k = Len(areas)
    BY <2>1
  <2>2. CASE k # Len(areas)
    <3>1. areas[k + 1] \in AreaType
      BY <1>1, <2>2
    <3>2. QED
      BY <2>2, <3>1 DEF AreaType
  <2>3. QED
    BY <2>1, <2>2
<1>3. new = RemoveAt(linked, k)
  BY Zenon DEF Unlink
<1> HIDE DEF end, new
<1>4. /\ linked \in Seq(AreaType) /\ Len(linked) = Len(areas)
      /\ \A j \in 1..Len(areas) :
           /\ linked[j].list = areas[j].list /\ linked[j].meta = areas[j].meta
           /\ linked[j].begin = areas[j].begin
           /\ linked[j].end = IF j = k - 1 THEN end ELSE areas[j].end
  <2>1. CASE k = 1
    BY <1>1, <2>1
  <2>2. CASE k # 1
    <3> DEFINE prev == [areas[k - 1] EXCEPT !.end = end]
    <3>1. k - 1 \in 1..Len(areas) /\ areas[k - 1] \in AreaType
      BY <1>1, <2>2
    <3>2. /\ prev \in AreaType /\ prev.list = areas[k - 1].list /\ prev.end = end
          /\ prev.begin = areas[k - 1].begin /\ prev.meta = areas[k - 1].meta
      BY <1>2, <3>1 DEF AreaType
    <3>3. linked = [areas EXCEPT ![k - 1] = prev]
      BY <2>2, <3>1
    <3> HIDE DEF prev, linked
    <3>4. /\ linked \in Seq(AreaType) /\ Len(linked) = Len(areas)
          /\ \A j \in 1..Len(areas) : linked[j] = IF j = k - 1 THEN prev ELSE areas[j]
      BY <3>1, <3>2, <3>3, ExceptSeq
    <3>5. QED
      BY <3>1, <3>2, <3>4
  <2>3. QED
    BY <2>1, <2>2
<1> HIDE DEF linked
<1>5. /\ new \in Seq(AreaType) /\ Len(new) = Len(areas) - 1
      /\ \A j \in 1..(Len(areas) - 1) : new[j] = IF j < k THEN linked[j] ELSE linked[j + 1]
  <2>1. k \in 1..Len(linked)
    BY <1>4
  <2>2. /\ RemoveAt(linked, k) \in Seq(AreaType)
        /\ Len(RemoveAt(linked, k)) = Len(linked) - 1
        /\ \A j \in 1..(Len(linked) - 1) :
             RemoveAt(linked, k)[j] = IF j < k THEN linked[j] ELSE linked[j + 1]
    BY <1>4, <2>1, RemoveAtIs
  <2>3. Len(linked) = Len(areas)
    BY <1>4
  <2>4. QED
    BY <1>3, <2>2, <2>3, Zenon
<1>6. ASSUME NEW j \in 1..(Len(areas) - 1)
      PROVE  /\ From(j, k) \in 1..Len(areas) /\ new[j] = linked[From(j, k)]
             /\ From(j, k) = k - 1 <=> j = k - 1
  BY <1>1, <1>5 DEF From
<1>7. ASSUME NEW j \in 1..(Len(areas) - 1)
      PROVE  /\ From(j, k) \in 1..Len(areas)
             /\ new[j].list = areas[From(j, k)].list
             /\ new[j].meta = areas[From(j, k)].meta
             /\ new[j].begin = areas[From(j, k)].begin
             /\ new[j].end = IF j = k - 1 THEN end ELSE areas[From(j, k)].end
  <2> DEFINE h == From(j, k)
  <2>1. h \in 1..Len(areas) /\ new[j] = linked[h] /\ (h = k - 1 <=> j = k - 1)
    BY <1>6
  <2> HIDE DEF h
  <2>2. /\ linked[h].list = areas[h].list /\ linked[h].meta = areas[h].meta
        /\ linked[h].begin = areas[h].begin
        /\ linked[h].end = IF h = k - 1 THEN end ELSE areas[h].end
    BY <1>4, <2>1
  <2>3. QED
    BY <2>1, <2>2 DEF h
<1>8. QED
  BY <1>5, <1>7 DEF new, end

\* The nodes behind a place of a list, and those before it.
LEMMA PartsAre ==
  ASSUME NEW list \in Seq(NodeType), NEW i \in 2..(Len(list) - 1)
  PROVE  LET lower == SubSeq(list, i + 1, Len(list))
             upper == SubSeq(list, 1, i - 1)
         IN  /\ lower \in Seq(NodeType) /\ Len(lower) = Len(list) - i /\ lower # <<>>
             /\ \A j \in 1..(Len(list) - i) : lower[j] = list[j + i]
             /\ upper \in Seq(NodeType) /\ Len(upper) = i - 1 /\ upper # <<>>
             /\ \A j \in 1..(i - 1) : upper[j] = list[j]
             /\ Last(lower) = list[Len(list)]
<1> DEFINE lower == SubSeq(list, i + 1, Len(list))
           upper == SubSeq(list, 1, i - 1)
<1>0. Len(list) \in Nat
  OBVIOUS
<1>1. /\ upper \in Seq(NodeType) /\ Len(upper) = i - 1
      /\ \A j \in 1..(i - 1) : upper[j] = list[j]
  BY <1>0, SubSeqProperties
<1>2. /\ lower \in Seq(NodeType) /\ Len(lower) = Len(list) - i
      /\ \A j \in 1..(Len(list) - i) : lower[j] = list[j + i]
  BY <1>0, SubSeqProperties
<1> HIDE DEF lower, upper
<1>3. Len(lower) # 0 /\ Len(upper) # 0
  BY <1>0, <1>1, <1>2
<1>4. lower # <<>> /\ upper # <<>>
  BY <1>3
<1>5. Last(lower) = list[Len(list)]
  <2>1. Len(list) - i \in 1..(Len(list) - i) /\ (Len(list) - i) + i = Len(list)
    BY <1>0
  <2>2. QED
    BY <1>2, <2>1 DEF Last
<1>6. QED
  BY <1>1, <1>2, <1>4, <1>5 DEF lower, upper

\* LCT_MIDDLE, area by area.
LEMMA SplitIs ==
  ASSUME NEW areas \in Seq(AreaType), NEW k \in 1..Len(areas),
         NEW i \in 2..(Len(areas[k].list) - 1), NEW areaMeta \in ChunkType
  PROVE  LET new   == Split(areas, k, i, areaMeta)
             list  == areas[k].list
             node  == list[i]
             lower == SubSeq(list, i + 1, Len(list))
         IN  /\ new \in Seq(AreaType) /\ Len(new) = Len(areas) + 1
             /\ \A j \in 1..(Len(areas) + 1) :
                  new[j] = IF j < k THEN areas[j]
                           ELSE IF j = k THEN Area(Last(lower).va, node.va, lower, areaMeta)
                           ELSE IF j = k + 1 THEN Area(Wrap(node.va + node.len), areas[k].end,
                                                      SubSeq(list, 1, i - 1), areas[k].meta)
                           ELSE areas[j - 1]
<1> DEFINE new   == Split(areas, k, i, areaMeta)
           list  == areas[k].list
           node  == list[i]
           lower == SubSeq(list, i + 1, Len(list))
           upper == SubSeq(list, 1, i - 1)
           a == Area(Last(lower).va, node.va, lower, areaMeta)
           b == Area(Wrap(node.va + node.len), areas[k].end, upper, areas[k].meta)
<1>1. areas[k] \in AreaType
  OBVIOUS
<1>2. list \in Seq(NodeType) /\ areas[k].end \in Addr /\ areas[k].meta \in ChunkType
  BY <1>1 DEF AreaType
<1>3. new = SubSeq(areas, 1, k - 1) \o <<a, b>> \o SubSeq(areas, k + 1, Len(areas))
  BY Zenon DEF Split
<1> HIDE DEF new, list
<1>4. i \in 2..(Len(list) - 1) /\ Len(list) \in Nat
  BY <1>2 DEF list
<1>5. /\ lower \in Seq(NodeType) /\ upper \in Seq(NodeType)
      /\ Last(lower) = list[Len(list)]
  BY <1>2, <1>4, PartsAre
<1> HIDE DEF lower, upper
<1>6. node \in NodeType /\ Last(lower) \in NodeType
  BY <1>2, <1>4, <1>5
<1>7. node.va \in Addr /\ node.len \in Amount /\ Last(lower).va \in Addr
  BY <1>6 DEF NodeType
<1>8. Wrap(node.va + node.len) \in Addr
  <2>1. node.va + node.len \in Int
    BY <1>7, AddrIs, AmountIs
  <2>2. QED
    BY <2>1, WrapIs
<1>9. a \in AreaType /\ b \in AreaType
  BY <1>2, <1>5, <1>7, <1>8 DEF Area, AreaType
<1> HIDE DEF a, b
<1>10. /\ new \in Seq(AreaType) /\ Len(new) = Len(areas) + 1
       /\ \A j \in 1..(Len(areas) + 1) :
            new[j] = IF j < k THEN areas[j] ELSE IF j = k THEN a
                     ELSE IF j = k + 1 THEN b ELSE areas[j - 1]
  <2> DEFINE long == Spliced(areas, k, a, b)
  <2>1. /\ long \in Seq(AreaType) /\ Len(long) = Len(areas) + 1
        /\ \A j \in 1..(Len(areas) + 1) :
             long[j] = IF j < k THEN areas[j] ELSE IF j = k THEN a
                       ELSE IF j = k + 1 THEN b ELSE areas[j - 1]
    BY <1>9, SplicedIs
  <2>2. new = long
    BY <1>3 DEF Spliced
  <2> HIDE DEF long
  <2>3. QED
    BY <2>1, <2>2
<1>11. QED
  BY <1>10 DEF new, list, a, b, lower, upper

\* A release of the first or the last of several nodes, area by area.
LEMMA TrimIs ==
  ASSUME NEW areas \in Seq(AreaType), NEW va, CanRelease(areas, va), NEW junk \in Addr,
         NEW areaMeta \in ChunkType, ~Empties(areas, va), ~Splits(areas, va)
  PROVE  LET k    == AreaOf(areas, va)
             i    == IndexOf(areas, va)
             area == areas[k]
             len  == area.list[i].len
             new  == vir_release_pages(areas, va, junk, areaMeta)
         IN  /\ new \in Seq(AreaType) /\ Len(new) = Len(areas)
             /\ \A j \in 1..Len(areas) : j # k => new[j] = areas[j]
             /\ new[k].list = RemoveAt(area.list, i) /\ new[k].meta = area.meta
             /\ Len(area.list) > 1 /\ (i = 1 \/ i = Len(area.list))
             /\ i = 1 => new[k].begin = area.begin /\ new[k].end = Wrap(area.end - len)
             /\ i # 1 => new[k].begin = Wrap(area.begin + len) /\ new[k].end = area.end
<1> DEFINE k    == AreaOf(areas, va)
           i    == IndexOf(areas, va)
           area == areas[k]
           len  == NodeOf(areas, va).len
           list == RemoveAt(area.list, i)
           new  == vir_release_pages(areas, va, junk, areaMeta)
           trim == IF i = 1 THEN [area EXCEPT !.list = list, !.end = Wrap(@ - len)]
                   ELSE [area EXCEPT !.list = list, !.begin = Wrap(@ + len)]
<1>1. /\ k \in 1..Len(areas) /\ area \in AreaType /\ area.list \in Seq(NodeType)
      /\ i \in 1..Len(area.list) /\ area.list[i] \in NodeType
      /\ len = area.list[i].len
  BY FoundIs
<1>2. Len(area.list) \in Nat /\ area.begin \in Addr /\ area.end \in Addr
  BY <1>1 DEF AreaType
<1>3. Len(area.list) # 1 /\ ~(i \in 2..(Len(area.list) - 1))
  BY Zenon DEF Empties, Splits
<1>4. new = IF i = 1 THEN [areas EXCEPT ![k].list = list, ![k].end = Wrap(@ - len)]
            ELSE [areas EXCEPT ![k].list = list, ![k].begin = Wrap(@ + len)]
  BY Zenon DEF vir_release_pages
<1> HIDE DEF new, i, k, len
<1>5. Wrap(area.end - len) \in Addr /\ Wrap(area.begin + len) \in Addr
  <2>1. len \in Amount
    BY <1>1 DEF NodeType
  <2>2. area.end - len \in Int /\ area.begin + len \in Int
    BY <1>2, <2>1, AddrIs, AmountIs
  <2>3. QED
    BY <2>2, WrapIs
<1>6. list \in Seq(NodeType)
  BY <1>1, RemoveAtIs
<1> HIDE DEF list
<1>7. /\ trim \in AreaType /\ trim.list = list /\ trim.meta = area.meta
      /\ i = 1 => trim.begin = area.begin /\ trim.end = Wrap(area.end - len)
      /\ i # 1 => trim.begin = Wrap(area.begin + len) /\ trim.end = area.end
  BY <1>1, <1>5, <1>6 DEF AreaType
<1>8. new = [areas EXCEPT ![k] = trim]
  BY <1>1, <1>4
<1> HIDE DEF trim
<1>9. /\ new \in Seq(AreaType) /\ Len(new) = Len(areas) /\ new[k] = trim
      /\ \A j \in 1..Len(areas) : j # k => new[j] = areas[j]
  BY <1>1, <1>7, <1>8, ExceptSeq
<1>10. Len(area.list) > 1 /\ (i = 1 \/ i = Len(area.list))
  <2> DEFINE n == Len(area.list)
  <2>1. n \in Nat /\ i \in 1..n /\ n # 1 /\ ~(i \in 2..(n - 1))
    BY <1>1, <1>2, <1>3
  <2> HIDE DEF n
  <2>2. n > 1 /\ (i = 1 \/ i = n)
    BY <2>1
  <2>3. QED
    BY <2>2 DEF n
<1>11. QED
  BY <1>1, <1>7, <1>9, <1>10 DEF new, i, k, list

\* vir_release_pages returns a chain.
LEMMA ReleaseType ==
  ASSUME NEW areas \in Seq(AreaType), NEW va, CanRelease(areas, va), NEW junk \in Addr,
         NEW areaMeta \in ChunkType
  PROVE  vir_release_pages(areas, va, junk, areaMeta) \in Seq(AreaType)
<1> DEFINE k == AreaOf(areas, va)
           i == IndexOf(areas, va)
<1>1. /\ k \in 1..Len(areas) /\ i \in 1..Len(areas[k].list)
      /\ areas[k].list \in Seq(NodeType)
  BY FoundIs
<1>2. CASE Empties(areas, va)
  <2>1. vir_release_pages(areas, va, junk, areaMeta) = Unlink(areas, k, junk)
    BY <1>2, Zenon DEF vir_release_pages
  <2>2. QED
    BY <1>1, <2>1, UnlinkIs
<1>3. CASE ~Empties(areas, va) /\ Splits(areas, va)
  <2>1. vir_release_pages(areas, va, junk, areaMeta) = Split(areas, k, i, areaMeta)
    BY <1>3, Zenon DEF vir_release_pages
  <2>2. i \in 2..(Len(areas[k].list) - 1)
    BY <1>3, Zenon DEF Splits
  <2>3. QED
    BY <1>1, <2>1, <2>2, SplitIs
<1>4. CASE ~Empties(areas, va) /\ ~Splits(areas, va)
  BY <1>4, TrimIs
<1>5. QED
  BY <1>2, <1>3, <1>4

\* An area whose first node is released, which is its highest.
LEMMA TrimTop ==
  ASSUME NEW area \in AreaType, AreaOk(area), NEW new \in AreaType, Len(area.list) > 1,
         new.list = RemoveAt(area.list, 1), new.begin = area.begin,
         new.end = Wrap(area.end - area.list[1].len)
  PROVE  AreaOk(new) /\ new.begin = area.begin /\ new.end <= area.end
<1> DEFINE list == area.list
           top  == list[1]
           n    == Len(list)
<1>1. /\ list \in Seq(NodeType) /\ area.begin \in Addr /\ area.end \in Addr
      /\ n \in Nat /\ DOMAIN list = 1..n /\ n > 1
  BY DEF AreaType
<1>2. \A j \in 1..n : list[j].va \in Nat /\ list[j].len \in Nat \ {0} /\ InArea(area, list[j])
  <2> TAKE j \in 1..n
  <2>1. list[j] \in NodeType
    BY <1>1
  <2>2. list[j].va \in Addr /\ list[j].len \in Amount /\ InArea(area, list[j])
    BY <1>1, <2>1 DEF NodeType, AreaOk
  <2>3. QED
    BY <2>2, AddrIs, AmountIs
<1>3. \A i, j \in 1..n : i < j => list[j].va + list[j].len <= list[i].va
  BY <1>1 DEF AreaOk, Descends
<1>4. area.begin \in Nat /\ area.end \in Nat
  BY <1>1, AddrIs
<1>5. /\ new.list \in Seq(NodeType) /\ Len(new.list) = n - 1
      /\ \A j \in 1..(n - 1) : new.list[j] = list[j + 1]
  <2>1. 1 \in 1..n
    BY <1>1
  <2>2. /\ RemoveAt(list, 1) \in Seq(NodeType) /\ Len(RemoveAt(list, 1)) = n - 1
        /\ \A j \in 1..(n - 1) : RemoveAt(list, 1)[j] = IF j < 1 THEN list[j] ELSE list[j + 1]
    BY <1>1, <2>1, RemoveAtIs
  <2> HIDE DEF n, list
  <2>3. \A j \in 1..(n - 1) : ~(j < 1)
    BY <1>1
  <2>4. new.list = RemoveAt(list, 1)
    BY DEF list
  <2>5. QED
    BY <2>2, <2>3, <2>4
<1> HIDE DEF n
<1>6. /\ top.va \in Nat /\ top.len \in Nat \ {0}
      /\ area.begin <= top.va /\ top.va + top.len <= area.end
  BY <1>1, <1>2 DEF InArea
<1> HIDE DEF top
<1>7. new.end = area.end - top.len /\ new.end \in Nat
  <2>1. area.end - top.len \in Nat /\ area.end - top.len <= area.end
    BY <1>4, <1>6
  <2>2. area.end - top.len \in Addr
    <3>1. area.end < PAGES
      BY <1>1, AddrIs
    <3>2. area.end - top.len < PAGES
      BY <1>4, <2>1, <3>1, Sizes
    <3>3. QED
      BY <2>1, <3>2, AddrIs
  <2>3. Wrap(area.end - top.len) = area.end - top.len
    BY <2>1, <2>2, WrapIs
  <2>4. QED
    BY <2>1, <2>3 DEF top
<1>8. \A j \in 1..(n - 1) : j + 1 \in 1..n /\ 1 < j + 1 /\ 1 \in 1..n
  BY <1>1
<1>9. \A j \in 1..(n - 1) : InArea(new, new.list[j])
  <2> TAKE j \in 1..(n - 1)
  <2> DEFINE old == list[j + 1]
  <2>1. /\ old.va \in Nat /\ old.len \in Nat /\ InArea(area, old)
        /\ old.va + old.len <= top.va /\ new.list[j] = old
    BY <1>2, <1>3, <1>5, <1>8 DEF top
  <2> HIDE DEF old
  <2>2. old.va + old.len <= new.end
    BY <1>4, <1>6, <1>7, <2>1
  <2>3. QED
    BY <2>1, <2>2 DEF InArea
<1>10. Descends(new.list)
  <2>1. DOMAIN new.list = 1..(n - 1)
    BY <1>5
  <2> SUFFICES ASSUME NEW i \in 1..(n - 1), NEW j \in 1..(n - 1), i < j
               PROVE  new.list[j].va + new.list[j].len <= new.list[i].va
    BY <2>1 DEF Descends
  <2>2. i + 1 \in 1..n /\ j + 1 \in 1..n /\ i + 1 < j + 1
    BY <1>1
  <2>3. QED
    BY <1>3, <1>5, <2>2
<1>11. new.list # <<>> /\ DOMAIN new.list = 1..(n - 1)
  BY <1>1, <1>5
<1>12. new.end < MAX_END /\ new.end <= area.end
  <2>1. area.end < MAX_END /\ MAX_END \in Nat
    BY Sizes, AddrIs DEF AreaOk
  <2>2. QED
    BY <1>4, <1>6, <1>7, <2>1
<1>13. QED
  BY <1>9, <1>10, <1>11, <1>12 DEF AreaOk

\* An area whose last node is released, which is its lowest.
LEMMA TrimBottom ==
  ASSUME NEW area \in AreaType, AreaOk(area), NEW new \in AreaType, NEW n, n = Len(area.list),
         n > 1, new.list = RemoveAt(area.list, n), new.end = area.end,
         new.begin = Wrap(area.begin + area.list[n].len)
  PROVE  AreaOk(new) /\ area.begin <= new.begin /\ new.end = area.end
<1> DEFINE list == area.list
           low  == list[n]
<1>1. /\ list \in Seq(NodeType) /\ area.begin \in Addr /\ area.end \in Addr
      /\ n \in Nat /\ DOMAIN list = 1..n /\ n > 1
  BY DEF AreaType
<1>2. \A j \in 1..n : list[j].va \in Nat /\ list[j].len \in Nat \ {0} /\ InArea(area, list[j])
  <2> TAKE j \in 1..n
  <2>1. list[j] \in NodeType
    BY <1>1
  <2>2. list[j].va \in Addr /\ list[j].len \in Amount /\ InArea(area, list[j])
    BY <1>1, <2>1 DEF NodeType, AreaOk
  <2>3. QED
    BY <2>2, AddrIs, AmountIs
<1>3. \A i, j \in 1..n : i < j => list[j].va + list[j].len <= list[i].va
  BY <1>1 DEF AreaOk, Descends
<1>4. area.begin \in Nat /\ area.end \in Nat
  BY <1>1, AddrIs
<1>5. /\ new.list \in Seq(NodeType) /\ Len(new.list) = n - 1
      /\ \A j \in 1..(n - 1) : new.list[j] = list[j]
  <2>1. n \in 1..n /\ n \in 1..Len(list)
    BY <1>1
  <2>2. /\ RemoveAt(list, n) \in Seq(NodeType) /\ Len(RemoveAt(list, n)) = Len(list) - 1
        /\ \A j \in 1..(Len(list) - 1) : RemoveAt(list, n)[j] = IF j < n THEN list[j] ELSE list[j + 1]
    BY <1>1, <2>1, RemoveAtIs
  <2> HIDE DEF list
  <2>3. \A j \in 1..(n - 1) : j < n
    BY <1>1
  <2>4. new.list = RemoveAt(list, n) /\ Len(list) = n
    BY DEF list
  <2>5. QED
    BY <2>2, <2>3, <2>4
<1>6. /\ low.va \in Nat /\ low.len \in Nat \ {0}
      /\ area.begin <= low.va /\ low.va + low.len <= area.end
  BY <1>1, <1>2 DEF InArea
<1> HIDE DEF low
<1>7. new.begin = area.begin + low.len /\ new.begin \in Nat
  <2>1. area.begin + low.len \in Nat /\ area.begin + low.len <= area.end
    BY <1>4, <1>6
  <2>2. area.begin + low.len \in Addr
    <3>1. area.end < PAGES
      BY <1>1, AddrIs
    <3>2. area.begin + low.len < PAGES
      BY <1>4, <2>1, <3>1, Sizes
    <3>3. QED
      BY <2>1, <3>2, AddrIs
  <2>3. Wrap(area.begin + low.len) = area.begin + low.len
    BY <2>1, <2>2, WrapIs
  <2>4. QED
    BY <2>1, <2>3 DEF low
<1>8. \A j \in 1..(n - 1) : j \in 1..n /\ j < n /\ n \in 1..n
  BY <1>1
<1>9. \A j \in 1..(n - 1) : InArea(new, new.list[j])
  <2> TAKE j \in 1..(n - 1)
  <2> DEFINE old == list[j]
  <2>1. /\ old.va \in Nat /\ old.len \in Nat /\ InArea(area, old)
        /\ low.va + low.len <= old.va /\ new.list[j] = old
    BY <1>2, <1>3, <1>5, <1>8 DEF low
  <2> HIDE DEF old
  <2>2. new.begin <= old.va
    BY <1>4, <1>6, <1>7, <2>1
  <2>3. QED
    BY <2>1, <2>2 DEF InArea
<1>10. Descends(new.list)
  <2>1. DOMAIN new.list = 1..(n - 1)
    BY <1>5
  <2> SUFFICES ASSUME NEW i \in 1..(n - 1), NEW j \in 1..(n - 1), i < j
               PROVE  new.list[j].va + new.list[j].len <= new.list[i].va
    BY <2>1 DEF Descends
  <2>2. i \in 1..n /\ j \in 1..n
    BY <1>1
  <2>3. QED
    BY <1>3, <1>5, <2>2
<1>11. new.list # <<>> /\ DOMAIN new.list = 1..(n - 1)
  BY <1>1, <1>5
<1>12. break_ <= new.begin /\ area.begin <= new.begin
  <2>1. break_ <= area.begin /\ break_ \in Nat
    BY Sizes, AddrIs DEF AreaOk
  <2>2. QED
    BY <1>4, <1>6, <1>7, <2>1
<1>13. QED
  BY <1>9, <1>10, <1>11, <1>12 DEF AreaOk

\* What AreaOk says of the nodes of an area, in numbers.
LEMMA ListIs ==
  ASSUME NEW area \in AreaType, AreaOk(area)
  PROVE  /\ area.list \in Seq(NodeType) /\ Len(area.list) \in Nat \ {0}
         /\ area.begin \in Nat /\ area.end \in Nat /\ area.end < MAX_END /\ MAX_END \in Nat
         /\ break_ \in Nat /\ break_ <= area.begin
         /\ \A j \in 1..Len(area.list) :
              /\ area.list[j].va \in Nat /\ area.list[j].len \in Nat \ {0}
              /\ area.begin <= area.list[j].va
              /\ area.list[j].va + area.list[j].len <= area.end
         /\ \A i, j \in 1..Len(area.list) : i < j =>
              area.list[j].va + area.list[j].len <= area.list[i].va
<1> DEFINE list == area.list
<1>1. /\ list \in Seq(NodeType) /\ area.begin \in Addr /\ area.end \in Addr /\ list # <<>>
  BY DEF AreaType, AreaOk
<1>2. Len(list) \in Nat \ {0} /\ DOMAIN list = 1..Len(list)
  BY <1>1
<1>3. \A j \in 1..Len(list) : list[j].va \in Nat /\ list[j].len \in Nat \ {0} /\ InArea(area, list[j])
  <2> TAKE j \in 1..Len(list)
  <2>1. list[j] \in NodeType
    BY <1>1
  <2>2. list[j].va \in Addr /\ list[j].len \in Amount /\ InArea(area, list[j])
    BY <1>2, <2>1 DEF NodeType, AreaOk
  <2>3. QED
    BY <2>2, AddrIs, AmountIs
<1>4. \A i, j \in 1..Len(list) : i < j => list[j].va + list[j].len <= list[i].va
  BY <1>2 DEF AreaOk, Descends
<1>5. /\ area.begin \in Nat /\ area.end \in Nat /\ area.end < MAX_END /\ MAX_END \in Nat
      /\ break_ \in Nat /\ break_ <= area.begin
  BY <1>1, AddrIs, Sizes DEF AreaOk
<1>6. QED
  BY <1>1, <1>2, <1>3, <1>4, <1>5 DEF InArea

\* The area of the nodes below the one released.
LEMMA LowerOk ==
  ASSUME NEW area \in AreaType, AreaOk(area), NEW i \in 2..(Len(area.list) - 1),
         NEW new \in AreaType, new.list = SubSeq(area.list, i + 1, Len(area.list)),
         new.begin = area.list[Len(area.list)].va, new.end = area.list[i].va
  PROVE  AreaOk(new) /\ area.begin <= new.begin /\ new.end = area.list[i].va
<1> DEFINE list == area.list
           n    == Len(list)
<1>1. /\ list \in Seq(NodeType) /\ n \in Nat \ {0}
      /\ area.begin \in Nat /\ area.end \in Nat /\ area.end < MAX_END /\ MAX_END \in Nat
      /\ break_ \in Nat /\ break_ <= area.begin
      /\ \A j \in 1..n : /\ list[j].va \in Nat /\ list[j].len \in Nat \ {0}
                         /\ area.begin <= list[j].va /\ list[j].va + list[j].len <= area.end
      /\ \A h, j \in 1..n : h < j => list[j].va + list[j].len <= list[h].va
  BY ListIs
<1>2. /\ new.list \in Seq(NodeType) /\ Len(new.list) = n - i /\ new.list # <<>>
      /\ \A j \in 1..(n - i) : new.list[j] = list[j + i]
  BY <1>1, PartsAre
<1>3. new.begin = list[n].va /\ new.end = list[i].va
  OBVIOUS
<1>4. DOMAIN new.list = 1..(n - i) /\ i \in 1..n /\ n \in 1..n /\ i < n /\ i \in Nat
  BY <1>1, <1>2
<1> HIDE DEF n, list
<1>5. \A j \in 1..(n - i) : j + i \in 1..n /\ i < j + i /\ (j + i = n \/ j + i < n)
  BY <1>1, <1>4
<1>6. \A j \in 1..(n - i) : InArea(new, new.list[j])
  <2> TAKE j \in 1..(n - i)
  <2> DEFINE h == j + i
  <2>1. h \in 1..n /\ i < h /\ (h = n \/ h < n) /\ new.list[j] = list[h]
    BY <1>2, <1>5
  <2> HIDE DEF h
  <2>2. list[h].va + list[h].len <= list[i].va
    BY <1>1, <1>4, <2>1
  <2>3. list[n].va <= list[h].va
    <3>1. CASE h = n
      <4>1. list[n].va \in Nat
        BY <1>1, <1>4
      <4>2. QED
        BY <3>1, <4>1
    <3>2. CASE h < n
      <4>1. list[n].va + list[n].len <= list[h].va
        BY <1>1, <1>4, <2>1, <3>2
      <4>2. /\ list[n].va \in Nat /\ list[n].len \in Nat /\ list[h].va \in Nat
        BY <1>1, <1>4, <2>1
      <4>3. QED
        BY <4>1, <4>2, SMTT(30)
    <3>3. QED
      BY <2>1, <3>1, <3>2
  <2>4. QED
    BY <1>3, <2>1, <2>2, <2>3 DEF InArea
<1>7. Descends(new.list)
  <2> SUFFICES ASSUME NEW g \in 1..(n - i), NEW j \in 1..(n - i), g < j
               PROVE  new.list[j].va + new.list[j].len <= new.list[g].va
    BY <1>4 DEF Descends
  <2>1. g + i \in 1..n /\ j + i \in 1..n /\ g + i < j + i
    BY <1>1, <1>4, <1>5
  <2>2. QED
    BY <1>1, <1>2, <2>1
<1>8. /\ area.begin <= new.begin /\ break_ <= new.begin /\ new.end < MAX_END
  <2>1. /\ list[n].va \in Nat /\ area.begin <= list[n].va
        /\ list[i].va \in Nat /\ list[i].len \in Nat /\ list[i].va + list[i].len <= area.end
    BY <1>1, <1>4
  <2>2. /\ area.begin \in Nat /\ area.end \in Nat /\ area.end < MAX_END /\ MAX_END \in Nat
        /\ break_ \in Nat /\ break_ <= area.begin
    BY <1>1
  <2>3. new.begin \in Nat /\ new.end \in Nat
    BY <1>3, <2>1
  <2>4. area.begin <= new.begin /\ new.end <= area.end
    BY <1>3, <2>1, <2>2
  <2>5. QED
    BY <2>2, <2>3, <2>4, SMTT(30)
<1>9. QED
  BY <1>2, <1>3, <1>4, <1>6, <1>7, <1>8 DEF AreaOk, list

\* The area of the nodes above it.
LEMMA UpperOk ==
  ASSUME NEW area \in AreaType, AreaOk(area), NEW i \in 2..(Len(area.list) - 1),
         NEW new \in AreaType, new.list = SubSeq(area.list, 1, i - 1),
         new.begin = Wrap(area.list[i].va + area.list[i].len), new.end = area.end
  PROVE  AreaOk(new) /\ area.list[i].va <= new.begin /\ new.end = area.end
<1> DEFINE list == area.list
           n    == Len(list)
           node == list[i]
<1>1. /\ list \in Seq(NodeType) /\ n \in Nat \ {0}
      /\ area.begin \in Nat /\ area.end \in Nat /\ area.end < MAX_END /\ MAX_END \in Nat
      /\ break_ \in Nat /\ break_ <= area.begin
      /\ \A j \in 1..n : /\ list[j].va \in Nat /\ list[j].len \in Nat \ {0}
                         /\ area.begin <= list[j].va /\ list[j].va + list[j].len <= area.end
      /\ \A h, j \in 1..n : h < j => list[j].va + list[j].len <= list[h].va
  BY ListIs
<1>2. /\ new.list \in Seq(NodeType) /\ Len(new.list) = i - 1 /\ new.list # <<>>
      /\ \A j \in 1..(i - 1) : new.list[j] = list[j]
  <2> DEFINE upper == SubSeq(list, 1, i - 1)
  <2>1. /\ upper \in Seq(NodeType) /\ Len(upper) = i - 1 /\ upper # <<>>
        /\ \A j \in 1..(i - 1) : upper[j] = list[j]
    BY <1>1, PartsAre
  <2>2. new.list = upper
    OBVIOUS
  <2> HIDE DEF upper
  <2>3. QED
    BY <2>1, <2>2
<1>3. new.begin = Wrap(node.va + node.len) /\ new.end = area.end
  OBVIOUS
<1>4. DOMAIN new.list = 1..(i - 1) /\ i \in 1..n /\ \A j \in 1..(i - 1) : j \in 1..n /\ j < i
  BY <1>1, <1>2
<1>5. /\ node.va \in Nat /\ node.len \in Nat \ {0}
      /\ area.begin <= node.va /\ node.va + node.len <= area.end
  BY <1>1, <1>4
<1> HIDE DEF n, list
<1>6. new.begin = node.va + node.len
  <2>1. area.end \in Addr
    BY DEF AreaType
  <2>2. node.va \in Addr
    <3>1. area.end < PAGES /\ PAGES \in Nat
      BY <2>1, AddrIs, Sizes
    <3> HIDE DEF node
    <3>2. node.va < PAGES
      BY <1>1, <1>5, <3>1
    <3>3. QED
      BY <1>5, <3>2, AddrIs
  <2>3. node.len \in Nat
    BY <1>5
  <2>4. Wrap(node.va + node.len) = node.va + node.len
    <3> HIDE DEF node
    <3>1. QED
      BY <1>5, <2>1, <2>2, <2>3, EndIs
  <2>5. QED
    BY <1>3, <2>4
<1>7. \A j \in 1..(i - 1) : InArea(new, new.list[j])
  <2> TAKE j \in 1..(i - 1)
  <2>1. j \in 1..n /\ j < i /\ new.list[j] = list[j]
    BY <1>2, <1>4
  <2>2. node.va + node.len <= list[j].va
    BY <1>1, <1>4, <2>1
  <2>3. QED
    BY <1>1, <1>3, <1>6, <2>1, <2>2 DEF InArea
<1>8. Descends(new.list)
  BY <1>1, <1>2, <1>4 DEF Descends
<1> HIDE DEF node
<1>9. break_ <= new.begin /\ node.va <= new.begin /\ new.end < MAX_END
  BY <1>1, <1>3, <1>5, <1>6
<1>10. QED
  BY <1>2, <1>3, <1>4, <1>7, <1>8, <1>9 DEF AreaOk, node, list

\* Nodes are what is at some place of some area.
LEMMA NodesIs ==
  ASSUME NEW areas \in Seq(AreaType)
  PROVE  /\ NodesOf(areas) = UNION {Range(areas[j].list) : j \in 1..Len(areas)}
         /\ \A j \in 1..Len(areas) : areas[j] \in AreaType /\ areas[j].list \in Seq(NodeType)
<1>1. DOMAIN areas = 1..Len(areas) /\ \A j \in 1..Len(areas) : areas[j] \in AreaType
  OBVIOUS
<1>2. \A j \in 1..Len(areas) : areas[j].list \in Seq(NodeType)
  BY <1>1 DEF AreaType
<1>3. QED
  BY <1>1, <1>2 DEF NodesOf

\* In a chain in order a node is in one place only.
LEMMA NodeOnce ==
  ASSUME NEW areas \in Seq(AreaType), InOrder(areas), NEW k \in 1..Len(areas),
         NEW i \in 1..Len(areas[k].list)
  PROVE  LET node == areas[k].list[i]
         IN  /\ node \in NodesOf(areas)
             /\ \A j \in 1..Len(areas) : j # k => node \notin Range(areas[j].list)
             /\ IsInjective(areas[k].list)
<1> DEFINE node == areas[k].list[i]
<1>1. \A j \in 1..Len(areas) : areas[j] \in AreaType /\ AreaOk(areas[j])
  <2>1. DOMAIN areas = 1..Len(areas)
    OBVIOUS
  <2>2. QED
    BY <2>1 DEF InOrder
<1>2. \A j \in 1..Len(areas) :
        /\ areas[j].list \in Seq(NodeType) /\ areas[j].begin \in Nat /\ areas[j].end \in Nat
        /\ \A h \in 1..Len(areas[j].list) :
             /\ areas[j].list[h].va \in Nat /\ areas[j].list[h].len \in Nat \ {0}
             /\ areas[j].begin <= areas[j].list[h].va
             /\ areas[j].list[h].va + areas[j].list[h].len <= areas[j].end
  BY <1>1, ListIs
<1>3. node \in NodesOf(areas)
  <2>1. node \in Range(areas[k].list)
    BY <1>2, RangeIs
  <2>2. QED
    BY <2>1, NodesIs
<1>4. ASSUME NEW j \in 1..Len(areas), j # k, node \in Range(areas[j].list) PROVE FALSE
  <2>1. PICK h \in 1..Len(areas[j].list) : node = areas[j].list[h]
    <3>1. areas[j].list \in Seq(NodeType)
      BY <1>2
    <3> DEFINE list == areas[j].list
    <3> HIDE DEF node
    <3>2. node \in Range(list) /\ list \in Seq(NodeType)
      BY <1>4, <3>1
    <3> HIDE DEF list
    <3>3. \E h \in 1..Len(list) : node = list[h]
      BY <3>2, RangeIs
    <3>4. QED
      BY <3>3 DEF list
  <2>2. areas[j].end <= areas[k].begin \/ areas[k].end <= areas[j].begin
    <3>1. j < k \/ k < j
      BY <1>4
    <3>2. QED
      BY <3>1, AreasApart
  <2> DEFINE jb == areas[j].begin
             je == areas[j].end
             kb == areas[k].begin
             ke == areas[k].end
  <2>3. /\ jb \in Nat /\ je \in Nat /\ kb \in Nat /\ ke \in Nat /\ (je <= kb \/ ke <= jb)
        /\ node.va \in Nat /\ node.len \in Nat \ {0}
        /\ kb <= node.va /\ node.va + node.len <= ke
    BY <1>2, <2>2
  <2>4. jb <= node.va /\ node.va + node.len <= je
    <3> HIDE DEF node
    <3>1. QED
      BY <1>2, <2>1
  <2> HIDE DEF jb, je, kb, ke, node
  <2>5. QED
    BY <2>3, <2>4, SMTT(30)
<1>5. IsInjective(areas[k].list)
  <2>1. Descends(areas[k].list)
    BY <1>1 DEF AreaOk
  <2>2. QED
    BY <1>2, <2>1, ListApart
<1>6. QED
  BY <1>3, <1>4, <1>5

\* Unlinking keeps the order of the others.
LEMMA FromIs ==
  ASSUME NEW n \in Nat, NEW k \in 1..n
  PROVE  /\ \A j \in 1..(n - 1) : From(j, k) \in 1..n /\ From(j, k) # k
         /\ \A h \in 1..n : h # k => \E j \in 1..(n - 1) : From(j, k) = h
         /\ \A j \in 1..(n - 2) : /\ j \in 1..(n - 1) /\ j + 1 \in 1..(n - 1)
                                  /\ From(j, k) < From(j + 1, k)
                                  /\ j = k - 1 => From(j + 1, k) = k + 1 /\ k # 1
         /\ k # 1 /\ k # n => /\ k - 1 \in 1..n /\ k + 1 \in 1..n /\ k - 1 \in 1..(n - 1)
                              /\ From(k - 1, k) = k - 1 /\ k - 1 < k + 1
         /\ \A j \in 1..(n - 1) : j = k - 1 => k # 1
         /\ (n - 1) - 1 = n - 2
<1>1. ASSUME NEW h \in 1..n, h # k PROVE \E j \in 1..(n - 1) : From(j, k) = h
  <2>1. CASE h < k
    <3>1. h \in 1..(n - 1) /\ From(h, k) = h
      BY <2>1 DEF From
    <3>2. QED
      BY <3>1
  <2>2. CASE ~(h < k)
    <3>1. h - 1 \in 1..(n - 1) /\ From(h - 1, k) = h
      BY <1>1, <2>2 DEF From
    <3>2. QED
      BY <3>1
  <2>3. QED
    BY <2>1, <2>2
<1>2. QED
  BY <1>1 DEF From

\* An area whose only node is released goes, and the one before it gets its
\* range and the gap behind it.
LEMMA UnlinkKeeps ==
  ASSUME NEW areas \in Seq(AreaType), InOrder(areas), NEW k \in 1..Len(areas),
         Len(areas[k].list) = 1, k = Len(areas) => k = 1, NEW junk \in Addr
  PROVE  LET new == Unlink(areas, k, junk)
         IN  InOrder(new) /\ NodesOf(new) = NodesOf(areas) \ {areas[k].list[1]}
<1> DEFINE new  == Unlink(areas, k, junk)
           end  == IF k = Len(areas) THEN junk ELSE areas[k + 1].begin
           node == areas[k].list[1]
           n    == Len(areas)
<1>1. /\ new \in Seq(AreaType) /\ Len(new) = n - 1
      /\ \A j \in 1..(n - 1) :
           /\ From(j, k) \in 1..n
           /\ new[j].list = areas[From(j, k)].list
           /\ new[j].meta = areas[From(j, k)].meta
           /\ new[j].begin = areas[From(j, k)].begin
           /\ new[j].end = IF j = k - 1 THEN end ELSE areas[From(j, k)].end
  BY UnlinkIs
<1>2. n \in Nat /\ k \in 1..n /\ DOMAIN areas = 1..n /\ DOMAIN new = 1..(n - 1)
  BY <1>1
<1>num. /\ \A h \in 1..n : h # k => \E j \in 1..(n - 1) : From(j, k) = h
        /\ \A j \in 1..(n - 1) : From(j, k) \in 1..n /\ From(j, k) # k /\ (j = k - 1 => k # 1)
        /\ \A j \in 1..(n - 2) : /\ j \in 1..(n - 1) /\ j + 1 \in 1..(n - 1)
                                 /\ From(j, k) < From(j + 1, k)
                                 /\ j = k - 1 => From(j + 1, k) = k + 1 /\ k # 1
        /\ k # 1 /\ k # n => /\ k - 1 \in 1..n /\ k + 1 \in 1..n /\ k - 1 \in 1..(n - 1)
                             /\ From(k - 1, k) = k - 1 /\ k - 1 < k + 1
        /\ (n - 1) - 1 = n - 2
  <2> HIDE DEF n, new
  <2>1. QED
    BY <1>2, FromIs
<1>apart. \A h, i \in 1..n : h < i => areas[h].end <= areas[i].begin
  BY AreasApart
<1>once. node \in NodesOf(areas) /\ \A j \in 1..n : j # k => node \notin Range(areas[j].list)
  <2>1. 1 \in 1..Len(areas[k].list)
    OBVIOUS
  <2>2. QED
    BY <2>1, NodeOnce
<1>3. \A j \in 1..n : areas[j] \in AreaType /\ AreaOk(areas[j])
  <2>1. \A j \in 1..n : areas[j] \in AreaType
    BY NodesIs
  <2>2. \A j \in 1..n : AreaOk(areas[j])
    BY <1>2 DEF InOrder
  <2>3. QED
    BY <2>1, <2>2
<1>4. \A j \in 1..n : /\ areas[j].begin \in Nat /\ areas[j].end \in Nat
                      /\ areas[j].list \in Seq(NodeType)
                      /\ areas[j].begin < areas[j].end /\ areas[j].end < MAX_END
  BY <1>3, ListIs, AreasApart
<1>5. MAX_END \in Nat
  BY Sizes, AddrIs
<1>last. k = n => k = 1
  OBVIOUS
<1> HIDE DEF new, n
<1>6. ASSUME NEW j \in 1..(n - 1), j # k - 1 PROVE AreaOk(new[j])
  <2> DEFINE h == From(j, k)
  <2>1. /\ h \in 1..n /\ new[j].list = areas[h].list /\ new[j].begin = areas[h].begin
        /\ new[j].end = areas[h].end
    BY <1>1, <1>6
  <2> HIDE DEF h
  <2>2. AreaOk(areas[h])
    BY <1>3, <2>1
  <2>3. QED
    BY <2>1, <2>2 DEF AreaOk, InArea
<1>7. ASSUME k # 1
      PROVE  /\ k - 1 \in 1..n /\ k + 1 \in 1..n /\ k - 1 \in 1..(n - 1)
             /\ new[k - 1].list = areas[k - 1].list /\ new[k - 1].begin = areas[k - 1].begin
             /\ new[k - 1].end = areas[k + 1].begin
  <2>1. k # n
    BY <1>7, <1>last
  <2>2. k - 1 \in 1..n /\ k + 1 \in 1..n /\ k - 1 \in 1..(n - 1) /\ From(k - 1, k) = k - 1
    BY <1>7, <1>num, <2>1
  <2>3. QED
    BY <1>1, <2>1, <2>2
<1>8. ASSUME k # 1 PROVE AreaOk(new[k - 1])
  <2> DEFINE old == areas[k - 1]
             top == areas[k + 1].begin
  <2>1. /\ old \in AreaType /\ AreaOk(old) /\ old.end \in Nat /\ top \in Nat
        /\ top < MAX_END
    <3>1. k - 1 \in 1..n /\ k + 1 \in 1..n
      BY <1>7, <1>8
    <3>2. old \in AreaType /\ AreaOk(old) /\ old.end \in Nat /\ top \in Nat
      BY <1>3, <1>4, <3>1
    <3> DEFINE end2 == areas[k + 1].end
    <3>3. end2 \in Nat /\ top < end2 /\ end2 < MAX_END
      BY <1>4, <3>1
    <3> HIDE DEF top, end2, old
    <3>4. top < MAX_END
      BY <1>5, <3>2, <3>3
    <3>5. QED
      BY <3>2, <3>4
  <2>2. old.end <= top
    <3>1. k - 1 < k + 1
      BY <1>2
    <3>2. QED
      BY <1>7, <1>8, <1>apart, <3>1
  <2>3. /\ new[k - 1].list = old.list /\ new[k - 1].begin = old.begin
        /\ new[k - 1].end = top
    BY <1>7, <1>8
  <2>4. /\ old.list \in Seq(NodeType)
        /\ \A i \in 1..Len(old.list) : /\ old.list[i].va \in Nat /\ old.list[i].len \in Nat \ {0}
                                       /\ old.begin <= old.list[i].va
                                       /\ old.list[i].va + old.list[i].len <= old.end
    BY <2>1, ListIs
  <2> HIDE DEF old, top
  <2>5. ASSUME NEW i \in 1..Len(old.list) PROVE InArea(new[k - 1], new[k - 1].list[i])
    <3>1. /\ old.list[i].va \in Nat /\ old.list[i].len \in Nat
          /\ old.begin <= old.list[i].va /\ old.list[i].va + old.list[i].len <= old.end
      BY <2>4
    <3>2. old.list[i].va + old.list[i].len <= top
      BY <2>1, <2>2, <3>1
    <3>3. QED
      BY <2>3, <3>1, <3>2 DEF InArea
  <2>6. DOMAIN old.list = 1..Len(old.list)
    BY <2>4
  <2>7. QED
    BY <2>1, <2>3, <2>5, <2>6 DEF AreaOk
<1>9. ASSUME NEW j \in 1..(n - 2) PROVE new[j].end <= new[j + 1].begin
  <2>1. j \in 1..(n - 1) /\ j + 1 \in 1..(n - 1)
    BY <1>num
  <2> DEFINE g == From(j, k)
             h == From(j + 1, k)
  <2>2. g \in 1..n /\ h \in 1..n /\ g < h
    BY <1>num, <2>1
  <2>3. new[j + 1].begin = areas[h].begin
    BY <1>1, <2>1
  <2>4. CASE j = k - 1
    <3>1. h = k + 1 /\ k # 1
      BY <1>num, <2>4
    <3>2. new[j].end = areas[k + 1].begin /\ areas[k + 1].begin \in Nat
      BY <1>4, <1>7, <2>4, <3>1
    <3>3. QED
      BY <2>3, <3>1, <3>2
  <2>5. CASE j # k - 1
    <3>1. new[j].end = areas[g].end
      BY <1>1, <2>1, <2>5
    <3> HIDE DEF g, h
    <3>2. areas[g].end <= areas[h].begin
      BY <2>2, <1>apart
    <3>3. QED
      BY <2>3, <3>1, <3>2
  <2>6. QED
    BY <2>4, <2>5
<1>10. InOrder(new)
  <2>1. \A j \in DOMAIN new : AreaOk(new[j])
    <3> TAKE j \in DOMAIN new
    <3>1. j \in 1..(n - 1)
      BY <1>2
    <3>2. CASE j = k - 1
      <4>1. k # 1
        BY <1>num, <3>1, <3>2
      <4>2. QED
        BY <1>8, <3>2, <4>1
    <3>3. CASE j # k - 1
      BY <1>6, <3>1, <3>3
    <3>4. QED
      BY <3>2, <3>3
  <2>2. Len(new) - 1 = n - 2
    BY <1>1, <1>num
  <2>3. QED
    BY <1>9, <2>1, <2>2 DEF InOrder
<1>11. Range(areas[k].list) = {node}
  <2>1. areas[k].list \in Seq(NodeType)
    BY <1>2, <1>4
  <2>2. Range(areas[k].list) = {areas[k].list[i] : i \in 1..1}
    BY <2>1, RangeIs
  <2>3. QED
    BY <2>2
<1>12. NodesOf(new) = NodesOf(areas) \ {node}
  <2>1. /\ NodesOf(areas) = UNION {Range(areas[j].list) : j \in 1..n}
        /\ NodesOf(new) = UNION {Range(new[j].list) : j \in 1..(n - 1)}
    BY <1>1, NodesIs DEF n
  <2>2. \A j \in 1..(n - 1) : new[j].list = areas[From(j, k)].list
    BY <1>1
  <2> HIDE DEF node
  <2>3. ASSUME NEW x \in NodesOf(new) PROVE x \in NodesOf(areas) \ {node}
    <3>1. PICK j \in 1..(n - 1) : x \in Range(new[j].list)
      BY <2>1
    <3>2. From(j, k) \in 1..n /\ From(j, k) # k /\ x \in Range(areas[From(j, k)].list)
      BY <1>num, <2>2, <3>1
    <3>3. QED
      BY <1>once, <2>1, <3>2
  <2>4. ASSUME NEW x \in NodesOf(areas), x # node PROVE x \in NodesOf(new)
    <3>1. PICK h \in 1..n : x \in Range(areas[h].list)
      BY <2>1
    <3>2. h # k
      BY <1>11, <2>4, <3>1
    <3>3. PICK j \in 1..(n - 1) : From(j, k) = h
      BY <1>num, <3>2
    <3>4. QED
      BY <2>1, <2>2, <3>1, <3>3
  <2>5. QED
    BY <2>3, <2>4
<1>13. QED
  BY <1>10, <1>12 DEF new, node

\* The nodes of a list, when one of them has been taken out of its middle.
LEMMA PartsHold ==
  ASSUME NEW list \in Seq(NodeType), IsInjective(list), NEW i \in 2..(Len(list) - 1)
  PROVE  Range(SubSeq(list, i + 1, Len(list))) \cup Range(SubSeq(list, 1, i - 1))
           = Range(list) \ {list[i]}
<1> DEFINE lower == SubSeq(list, i + 1, Len(list))
           upper == SubSeq(list, 1, i - 1)
           n     == Len(list)
<1>1. /\ lower \in Seq(NodeType) /\ Len(lower) = n - i
      /\ \A j \in 1..(n - i) : lower[j] = list[j + i]
      /\ upper \in Seq(NodeType) /\ Len(upper) = i - 1
      /\ \A j \in 1..(i - 1) : upper[j] = list[j]
  BY PartsAre
<1>2. n \in Nat /\ i \in 1..n /\ \A g, h \in 1..n : list[g] = list[h] => g = h
  BY RangeIs
<1>3. Range(list) = {list[j] : j \in 1..n}
  BY RangeIs
<1> HIDE DEF lower, upper, n
<1>4. Range(lower) = {lower[j] : j \in 1..(n - i)} /\ Range(upper) = {upper[j] : j \in 1..(i - 1)}
  <2>1. Range(lower) = {lower[j] : j \in 1..Len(lower)}
    BY <1>1, RangeIs, ZenonT(30)
  <2>2. Range(upper) = {upper[j] : j \in 1..Len(upper)}
    BY <1>1, RangeIs, Zenon
  <2>3. QED
    BY <1>1, <2>1, <2>2
<1>5. /\ \A j \in 1..(n - i) : j + i \in 1..n /\ j + i # i
      /\ \A j \in 1..(i - 1) : j \in 1..n /\ j # i
      /\ \A j \in 1..n : j # i => \/ j \in 1..(i - 1)
                                  \/ j - i \in 1..(n - i) /\ (j - i) + i = j
  BY <1>2
<1>6. ASSUME NEW x \in Range(lower) \cup Range(upper) PROVE x \in Range(list) \ {list[i]}
  <2>1. CASE x \in Range(lower)
    <3>1. PICK j \in 1..(n - i) : x = list[j + i]
      BY <1>1, <1>4, <2>1
    <3>2. QED
      BY <1>2, <1>3, <1>5, <3>1
  <2>2. CASE x \in Range(upper)
    <3>1. PICK j \in 1..(i - 1) : x = list[j]
      BY <1>1, <1>4, <2>2, ZenonT(30)
    <3>2. QED
      BY <1>2, <1>3, <1>5, <3>1
  <2>3. QED
    BY <1>6, <2>1, <2>2
<1>7. ASSUME NEW x \in Range(list), x # list[i] PROVE x \in Range(lower) \cup Range(upper)
  <2>1. PICK j \in 1..n : x = list[j]
    BY <1>3, <1>7
  <2>2. j # i
    BY <1>7, <2>1
  <2>3. CASE j \in 1..(i - 1)
    BY <1>1, <1>4, <2>1, <2>3
  <2>4. CASE j - i \in 1..(n - i) /\ (j - i) + i = j
    BY <1>1, <1>4, <2>1, <2>4
  <2>5. QED
    BY <1>5, <2>2, <2>3, <2>4
<1>8. QED
  BY <1>6, <1>7 DEF lower, upper, n

\* An area is split at a node that is neither its first nor its last.
LEMMA SplitKeeps ==
  ASSUME NEW areas \in Seq(AreaType), InOrder(areas), NEW k \in 1..Len(areas),
         NEW i \in 2..(Len(areas[k].list) - 1), NEW areaMeta \in ChunkType
  PROVE  LET new == Split(areas, k, i, areaMeta)
         IN  InOrder(new) /\ NodesOf(new) = NodesOf(areas) \ {areas[k].list[i]}
<1> DEFINE new   == Split(areas, k, i, areaMeta)
           area  == areas[k]
           list  == area.list
           node  == list[i]
           lower == SubSeq(list, i + 1, Len(list))
           upper == SubSeq(list, 1, i - 1)
           a == Area(Last(lower).va, node.va, lower, areaMeta)
           b == Area(Wrap(node.va + node.len), area.end, upper, area.meta)
           n == Len(areas)
<1>1. /\ new \in Seq(AreaType) /\ Len(new) = n + 1
      /\ \A j \in 1..(n + 1) : new[j] = IF j < k THEN areas[j] ELSE IF j = k THEN a
                                        ELSE IF j = k + 1 THEN b ELSE areas[j - 1]
  BY SplitIs
<1>2. n \in Nat /\ k \in 1..n /\ DOMAIN areas = 1..n /\ DOMAIN new = 1..(n + 1)
  BY <1>1
<1>3. /\ \A j \in 1..n : AreaOk(areas[j])
      /\ \A h, j \in 1..n : h < j => areas[h].end <= areas[j].begin
  BY <1>2, AreasApart DEF InOrder
<1>4. \A j \in 1..n : areas[j] \in AreaType
  BY NodesIs
<1>5. /\ list \in Seq(NodeType) /\ Last(lower) = list[Len(list)] /\ i \in 1..Len(list)
  <2>1. list \in Seq(NodeType)
    BY NodesIs
  <2>2. Len(list) \in Nat
    BY <2>1
  <2>3. QED
    BY <2>1, <2>2, PartsAre
<1>6. /\ node \in NodesOf(areas) /\ IsInjective(list)
      /\ \A j \in 1..n : j # k => node \notin Range(areas[j].list)
  BY <1>5, NodeOnce
<1>7. Range(lower) \cup Range(upper) = Range(list) \ {node}
  BY <1>5, <1>6, PartsHold
<1> HIDE DEF new, n, a, b
<1>8. new[k] = a /\ new[k + 1] = b /\ a \in AreaType /\ b \in AreaType
  <2>1. k \in 1..(n + 1) /\ k + 1 \in 1..(n + 1) /\ ~(k < k) /\ ~(k + 1 < k) /\ k + 1 # k
    BY <1>2
  <2>2. new[k] = a /\ new[k + 1] = b
    BY <1>1, <2>1
  <2>3. new[k] \in AreaType /\ new[k + 1] \in AreaType
    BY <1>1, <2>1
  <2>4. QED
    BY <2>2, <2>3
<1>9. /\ a.list = lower /\ a.end = node.va /\ a.begin = list[Len(list)].va
      /\ b.list = upper /\ b.end = area.end /\ b.begin = Wrap(node.va + node.len)
  BY <1>5 DEF a, b, Area
<1>10. AreaOk(a) /\ area.begin <= a.begin /\ a.end = node.va
  <2>1. area \in AreaType /\ AreaOk(area) /\ i \in 2..(Len(area.list) - 1)
    BY <1>2, <1>3, <1>4
  <2> HIDE DEF area
  <2>2. QED
    BY <1>8, <1>9, <2>1, LowerOk
<1>11. AreaOk(b) /\ node.va <= b.begin /\ b.end = area.end
  <2>1. area \in AreaType /\ AreaOk(area) /\ i \in 2..(Len(area.list) - 1)
    BY <1>2, <1>3, <1>4
  <2> HIDE DEF area
  <2>2. QED
    BY <1>8, <1>9, <2>1, UpperOk
<1> HIDE DEF node, lower, upper, list, area
<1>12. \A j \in 1..(n + 1) :
         \/ j < k /\ j \in 1..n /\ j # k /\ new[j] = areas[j]
         \/ j = k \/ j = k + 1
         \/ k + 1 < j /\ j - 1 \in 1..n /\ k < j - 1 /\ j - 1 # k /\ new[j] = areas[j - 1]
  <2> TAKE j \in 1..(n + 1)
  <2>1. \/ j < k /\ j \in 1..n /\ j # k
        \/ j = k \/ j = k + 1
        \/ k + 1 < j /\ j - 1 \in 1..n /\ k < j - 1 /\ j - 1 # k /\ ~(j < k) /\ j # k /\ j # k + 1
    BY <1>2
  <2>2. QED
    BY <1>1, <2>1
<1>13. ASSUME NEW j \in 1..(n + 1) PROVE AreaOk(new[j])
  BY <1>3, <1>8, <1>10, <1>11, <1>12
<1>14. ASSUME NEW j \in 1..n PROVE new[j].end <= new[j + 1].begin
  <2>1. j \in 1..(n + 1) /\ j + 1 \in 1..(n + 1)
    BY <1>2
  <2>2. CASE j + 1 < k
    <3>1. new[j] = areas[j] /\ new[j + 1] = areas[j + 1] /\ j < j + 1 /\ j + 1 \in 1..n
      BY <1>1, <1>2, <2>1, <2>2
    <3>2. QED
      BY <1>3, <3>1
  <2>3. CASE j + 1 = k
    <3>1. new[j] = areas[j] /\ new[j + 1] = a /\ j < k
      BY <1>1, <1>2, <1>8, <2>1, <2>3
    <3>2. areas[j].end <= area.begin
      BY <1>2, <1>3, <3>1 DEF area
    <3>3. areas[j].end \in Nat /\ area.begin \in Nat /\ a.begin \in Nat
      <4>1. areas[j].end \in Addr /\ area.begin \in Addr /\ a.begin \in Addr
        BY <1>2, <1>4, <1>8 DEF AreaType, area
      <4>2. QED
        BY <4>1, AddrIs
    <3>4. QED
      BY <1>10, <3>1, <3>2, <3>3
  <2>4. CASE j = k
    BY <1>8, <1>10, <1>11, <2>4
  <2>5. CASE k < j
    <3> DEFINE h == j - 1
    <3>1. h \in 1..n /\ j \in 1..n /\ h < j /\ k <= h
      BY <1>2, <2>5
    <3>2. new[j + 1] = areas[j]
      <4>1. ~(j + 1 < k) /\ j + 1 # k /\ j + 1 # k + 1 /\ (j + 1) - 1 = j
        BY <1>2, <2>5
      <4>2. QED
        BY <1>1, <2>1, <4>1
    <3>3. new[j].end = areas[h].end
      <4>1. CASE j = k + 1
        <5>1. h = k
          BY <1>2, <4>1
        <5>2. QED
          BY <1>8, <1>11, <4>1, <5>1 DEF area
      <4>2. CASE j # k + 1
        <5>1. ~(j < k) /\ j # k
          BY <1>2, <2>5
        <5>2. QED
          BY <1>1, <2>1, <4>2, <5>1
      <4>3. QED
        BY <4>1, <4>2
    <3> HIDE DEF h
    <3>4. QED
      BY <1>3, <3>1, <3>2, <3>3
  <2>6. QED
    BY <1>2, <2>2, <2>3, <2>4, <2>5
<1>15. InOrder(new)
  <2>1. Len(new) - 1 = n
    BY <1>1, <1>2
  <2>2. QED
    BY <1>2, <1>13, <1>14, <2>1 DEF InOrder
<1>16. NodesOf(new) = NodesOf(areas) \ {node}
  <2>1. /\ NodesOf(areas) = UNION {Range(areas[j].list) : j \in 1..n}
        /\ NodesOf(new) = UNION {Range(new[j].list) : j \in 1..(n + 1)}
    BY <1>1, NodesIs DEF n
  <2>2. Range(areas[k].list) = Range(lower) \cup Range(upper) \cup {node}
    <3>1. node \in Range(list)
      BY <1>5, RangeIs DEF node
    <3>2. QED
      BY <1>7, <3>1 DEF list, area
  <2>3. node \notin Range(lower) \cup Range(upper)
    BY <1>7
  <2>4. ASSUME NEW x \in NodesOf(new) PROVE x \in NodesOf(areas) \ {node}
    <3>1. PICK j \in 1..(n + 1) : x \in Range(new[j].list)
      BY <2>1
    <3>2. CASE j < k /\ j \in 1..n /\ j # k /\ new[j] = areas[j]
      BY <1>6, <2>1, <3>1, <3>2
    <3>3. CASE j = k \/ j = k + 1
      <4>1. x \in Range(lower) \cup Range(upper)
        BY <1>8, <1>9, <3>1, <3>3
      <4>2. QED
        BY <1>2, <2>1, <2>2, <2>3, <4>1
    <3>4. CASE j - 1 \in 1..n /\ j - 1 # k /\ new[j] = areas[j - 1]
      BY <1>6, <2>1, <3>1, <3>4
    <3>5. QED
      BY <1>12, <3>2, <3>3, <3>4
  <2>5. ASSUME NEW x \in NodesOf(areas), x # node PROVE x \in NodesOf(new)
    <3>1. PICK h \in 1..n : x \in Range(areas[h].list)
      BY <2>1
    <3>2. CASE h = k
      <4>1. x \in Range(a.list) \cup Range(b.list)
        BY <1>9, <2>2, <2>5, <3>1, <3>2
      <4>2. k \in 1..(n + 1) /\ k + 1 \in 1..(n + 1)
        BY <1>2
      <4>3. QED
        BY <1>8, <2>1, <4>1, <4>2
    <3>3. CASE h < k
      <4>1. h \in 1..(n + 1) /\ new[h] = areas[h]
        BY <1>1, <1>2, <3>3
      <4>2. QED
        BY <2>1, <3>1, <4>1
    <3>4. CASE k < h
      <4> DEFINE j == h + 1
      <4>1. j \in 1..(n + 1) /\ ~(j < k) /\ j # k /\ j # k + 1 /\ j - 1 = h
        BY <1>2, <3>4
      <4>2. new[j] = areas[j - 1]
        BY <1>1, <4>1
      <4>3. QED
        BY <2>1, <3>1, <4>1, <4>2
    <3>5. QED
      BY <1>2, <3>2, <3>3, <3>4
  <2>6. QED
    BY <2>4, <2>5
<1>17. QED
  BY <1>15, <1>16 DEF new, node, list, area

\* The first or the last of several nodes is released.
LEMMA TrimKeeps ==
  ASSUME NEW areas \in Seq(AreaType), InOrder(areas), NEW va, CanRelease(areas, va),
         NEW junk \in Addr, NEW areaMeta \in ChunkType,
         ~Empties(areas, va), ~Splits(areas, va)
  PROVE  LET new == vir_release_pages(areas, va, junk, areaMeta)
         IN  InOrder(new) /\ NodesOf(new) = NodesOf(areas) \ {NodeOf(areas, va)}
<1> DEFINE k    == AreaOf(areas, va)
           i    == IndexOf(areas, va)
           area == areas[k]
           new  == vir_release_pages(areas, va, junk, areaMeta)
           trim == new[k]
           n    == Len(areas)
<1>1. /\ new \in Seq(AreaType) /\ Len(new) = n
      /\ \A j \in 1..n : j # k => new[j] = areas[j]
      /\ trim.list = RemoveAt(area.list, i)
      /\ Len(area.list) > 1 /\ (i = 1 \/ i = Len(area.list))
      /\ i = 1 => trim.begin = area.begin /\ trim.end = Wrap(area.end - area.list[i].len)
      /\ i # 1 => trim.begin = Wrap(area.begin + area.list[i].len) /\ trim.end = area.end
  BY TrimIs
<1>2. /\ k \in 1..n /\ i \in 1..Len(area.list) /\ NodeOf(areas, va) = area.list[i]
      /\ area.list \in Seq(NodeType)
  BY FoundIs
<1>3. n \in Nat /\ DOMAIN areas = 1..n /\ DOMAIN new = 1..n
  BY <1>1
<1>4. /\ \A j \in 1..n : AreaOk(areas[j])
      /\ \A h, j \in 1..n : h < j => areas[h].end <= areas[j].begin
  BY <1>3, AreasApart DEF InOrder
<1>5. \A j \in 1..n : areas[j] \in AreaType
  BY NodesIs
<1> HIDE DEF k
<1>6. /\ area.list[i] \in NodesOf(areas) /\ IsInjective(area.list)
      /\ \A j \in 1..n : j # k => area.list[i] \notin Range(areas[j].list)
  BY <1>2, NodeOnce
<1> HIDE DEF i, new, n
<1>7. area \in AreaType /\ AreaOk(area) /\ trim \in AreaType
  BY <1>1, <1>2, <1>4, <1>5
<1>8. AreaOk(trim) /\ area.begin <= trim.begin /\ trim.end <= area.end
  <2>1. area.begin \in Nat /\ area.end \in Nat
    BY <1>7, ListIs
  <2> HIDE DEF area, trim
  <2>2. CASE i = 1
    <3>1. AreaOk(trim) /\ trim.begin = area.begin /\ trim.end <= area.end
      BY <1>1, <1>7, <2>2, TrimTop
    <3>2. QED
      BY <2>1, <3>1
  <2>3. CASE i # 1
    <3>1. i = Len(area.list) /\ i > 1
      BY <1>1, <2>3
    <3>2. AreaOk(trim) /\ area.begin <= trim.begin /\ trim.end = area.end
      BY <1>1, <1>7, <2>3, <3>1, TrimBottom
    <3>3. QED
      BY <2>1, <3>2
  <2>4. QED
    BY <2>2, <2>3
<1>9. \A j \in 1..n : /\ areas[j].begin \in Nat /\ areas[j].end \in Nat
                      /\ new[j].begin \in Nat /\ new[j].end \in Nat
  <2> TAKE j \in 1..n
  <2>1. areas[j] \in AreaType /\ new[j] \in AreaType
    BY <1>1, <1>5
  <2>2. /\ areas[j].begin \in Addr /\ areas[j].end \in Addr
        /\ new[j].begin \in Addr /\ new[j].end \in Addr
    BY <2>1 DEF AreaType
  <2>3. QED
    BY <2>2, AddrIs
<1>10. \A j \in 1..n : /\ AreaOk(new[j]) /\ areas[j].begin <= new[j].begin
                       /\ new[j].end <= areas[j].end
  <2> TAKE j \in 1..n
  <2>1. CASE j = k
    BY <1>8, <2>1
  <2>2. CASE j # k
    <3>1. new[j] = areas[j] /\ areas[j].begin \in Nat /\ areas[j].end \in Nat
      BY <1>1, <1>9, <2>2
    <3>2. QED
      BY <1>4, <3>1
  <2>3. QED
    BY <2>1, <2>2
<1>11. InOrder(new)
  <2>1. ASSUME NEW j \in 1..(n - 1) PROVE new[j].end <= new[j + 1].begin
    <3> DEFINE h == j + 1
    <3>1. j \in 1..n /\ h \in 1..n /\ j < h
      BY <1>3
    <3> HIDE DEF h
    <3> DEFINE e0 == areas[j].end
               e1 == new[j].end
               b0 == areas[h].begin
               b1 == new[h].begin
    <3>2. /\ e0 \in Nat /\ e1 \in Nat /\ b0 \in Nat /\ b1 \in Nat
          /\ e1 <= e0 /\ e0 <= b0 /\ b0 <= b1
      BY <1>4, <1>9, <1>10, <3>1
    <3> HIDE DEF e0, e1, b0, b1
    <3>3. e1 <= b1
      BY <3>2
    <3>4. QED
      BY <3>3 DEF e1, b1, h
  <2>2. QED
    BY <1>1, <1>3, <1>10, <2>1 DEF InOrder
<1>12. Range(trim.list) = Range(area.list) \ {area.list[i]}
  BY <1>1, <1>2, <1>6, RemovePlace
<1>13. NodesOf(new) = NodesOf(areas) \ {area.list[i]}
  <2>1. /\ NodesOf(areas) = UNION {Range(areas[j].list) : j \in 1..n}
        /\ NodesOf(new) = UNION {Range(new[j].list) : j \in 1..n}
    BY <1>1, NodesIs DEF n
  <2>2. \A j \in 1..n : Range(new[j].list) = Range(areas[j].list) \ {area.list[i]}
    <3> TAKE j \in 1..n
    <3>1. CASE j = k
      BY <1>12, <3>1
    <3>2. CASE j # k
      BY <1>1, <1>6, <3>2
    <3>3. QED
      BY <3>1, <3>2
  <2> HIDE DEF area
  <2>3. NodesOf(new) \subseteq NodesOf(areas) \ {area.list[i]}
    BY <2>1, <2>2
  <2>4. NodesOf(areas) \ {area.list[i]} \subseteq NodesOf(new)
    BY <2>1, <2>2
  <2>5. QED
    BY <2>3, <2>4
<1>14. QED
  BY <1>2, <1>11, <1>13 DEF new, k, i

(***************************************************************************)
(* vir_release_pages, as long as no end is read at the null pointer: the   *)
(* areas stay in order, and they have all nodes but the released one.      *)
(***************************************************************************)
LEMMA ReleaseKeeps ==
  ASSUME NEW areas \in Seq(AreaType), InOrder(areas), NEW va, CanRelease(areas, va),
         ~ReadsNull(areas, va), NEW junk \in Addr, NEW areaMeta \in ChunkType
  PROVE  LET new == vir_release_pages(areas, va, junk, areaMeta)
         IN  InOrder(new) /\ NodesOf(new) = NodesOf(areas) \ {NodeOf(areas, va)}
<1> DEFINE k == AreaOf(areas, va)
           i == IndexOf(areas, va)
<1>1. /\ k \in 1..Len(areas) /\ i \in 1..Len(areas[k].list)
      /\ NodeOf(areas, va) = areas[k].list[i]
  BY FoundIs
<1>2. CASE Empties(areas, va)
  <2>1. vir_release_pages(areas, va, junk, areaMeta) = Unlink(areas, k, junk)
    BY <1>2, Zenon DEF vir_release_pages
  <2>2. Len(areas[k].list) = 1
    BY <1>2, Zenon DEF Empties
  <2>3. i = 1
    BY <1>1, <2>2
  <2>4. k = Len(areas) => ~(Len(areas) > 1)
    BY <1>2, Zenon DEF ReadsNull
  <2>5. Len(areas) \in Nat
    OBVIOUS
  <2> HIDE DEF k, i
  <2>6. k = Len(areas) => k = 1
    BY <1>1, <2>4, <2>5
  <2>7. QED
    BY <1>1, <2>1, <2>2, <2>3, <2>6, UnlinkKeeps
<1>3. CASE ~Empties(areas, va) /\ Splits(areas, va)
  <2>1. vir_release_pages(areas, va, junk, areaMeta) = Split(areas, k, i, areaMeta)
    BY <1>3, Zenon DEF vir_release_pages
  <2>2. i \in 2..(Len(areas[k].list) - 1)
    BY <1>3, Zenon DEF Splits
  <2>3. QED
    BY <1>1, <2>1, <2>2, SplitKeeps
<1>4. CASE ~Empties(areas, va) /\ ~Splits(areas, va)
  BY <1>4, TrimKeeps
<1>5. QED
  BY <1>2, <1>3, <1>4
-----------------------------------------------------------------------------
Bits(n) == [bits : {n}, set : SUBSET (0..(n - 1)), prev : 0..(n - 1)]

MapType == UNION {[pages -> Frame] : pages \in SUBSET Nat}

\* What the page directory names, and the table that exec has abandoned.
TableType == UNION {[tables -> Frame] : tables \in SUBSET (Nat \cup {Abandoned})}

PageType == [va : Addr, free : Seq(1..CAPACITY)]

MemType ==
  [frames : Bits(FRAMES), virmm : Bits(SIZE_BITMAP_VIRMM), pte : MapType, pde : TableType,
   lists : [List -> Seq(PageType)], halt : {"no", "full", "space", "bug"}]

\* What a scan finds in a bitmap, and the bitmap when it has been set.
LEMMA BitsIs ==
  ASSUME NEW n \in Nat \ {0}, NEW map \in Bits(n)
  PROVE  /\ ~Exhausted(map) =>
              /\ FirstFree(map) \in (0..(n - 1)) \ map.set
              /\ bitmap_set(Scanned(map), FirstFree(map)) \in Bits(n)
              /\ bitmap_set(Scanned(map), FirstFree(map)).set = map.set \cup {FirstFree(map)}
         /\ \A bit : /\ bitmap_clear(map, bit) \in Bits(n)
                     /\ bitmap_clear(map, bit).set = map.set \ {bit}
         /\ bitmap_init(n) \in Bits(n)
<1>1. map.bits = n /\ map.set \in SUBSET (0..(n - 1)) /\ map.prev \in 0..(n - 1)
  BY DEF Bits
<1>2. ASSUME ~Exhausted(map)
      PROVE  /\ FirstFree(map) \in (0..(n - 1)) \ map.set
             /\ bitmap_set(Scanned(map), FirstFree(map)) \in Bits(n)
             /\ bitmap_set(Scanned(map), FirstFree(map)).set = map.set \cup {FirstFree(map)}
  <2> DEFINE bit == FirstFree(map)
  <2>1. ~(0..(n - 1) \subseteq map.set)
    BY <1>1, <1>2, Zenon DEF Exhausted
  <2>2. bitmap_scan_empty(n, map.set, map.prev) \in (0..(n - 1)) \ map.set
    BY <1>1, <2>1, ScanFindsNearest
  <2>3. bit \in (0..(n - 1)) \ map.set
    BY <1>1, <2>2, Zenon DEF FirstFree
  <2> HIDE DEF bit
  <2>4. (bit + 1) % n \in 0..(n - 1)
    BY <2>3
  <2>5. [map EXCEPT !.prev = (bit + 1) % n] \in Bits(n)
    BY <2>4 DEF Bits
  <2>6. Scanned(map) = [map EXCEPT !.prev = (bit + 1) % n]
    BY <1>1, Zenon DEF Scanned, bit
  <2> DEFINE next == [map EXCEPT !.prev = (bit + 1) % n]
  <2>7. next \in Bits(n) /\ next.set = map.set
    BY <2>5 DEF Bits
  <2> HIDE DEF next
  <2>8. bitmap_set(next, bit) \in Bits(n) /\ bitmap_set(next, bit).set = map.set \cup {bit}
    BY <2>3, <2>7 DEF bitmap_set, Bits
  <2>9. QED
    BY <2>3, <2>6, <2>8 DEF bit, next
<1>3. \A bit : bitmap_clear(map, bit) \in Bits(n) /\ bitmap_clear(map, bit).set = map.set \ {bit}
  BY DEF bitmap_clear, Bits
<1>4. bitmap_init(n) \in Bits(n)
  BY DEF bitmap_init, Bits
<1>5. QED
  BY <1>2, <1>3, <1>4

\* A map with one more entry.
LEMMA MappedIs ==
  ASSUME NEW map, NEW key, NEW value \in Frame
  PROVE  /\ map \in MapType /\ key \in Nat => Mapped(map, key, value) \in MapType
         /\ map \in TableType /\ key \in Nat \cup {Abandoned} =>
              Mapped(map, key, value) \in TableType
<1>1. ASSUME NEW keys, NEW S \in SUBSET keys, map \in [S -> Frame], key \in keys
      PROVE  /\ Mapped(map, key, value) \in [S \cup {key} -> Frame]
             /\ S \cup {key} \in SUBSET keys
  BY <1>1 DEF Mapped
<1>2. ASSUME map \in MapType, key \in Nat PROVE Mapped(map, key, value) \in MapType
  <2>1. PICK S \in SUBSET Nat : map \in [S -> Frame]
    BY <1>2, Zenon DEF MapType
  <2>2. Mapped(map, key, value) \in [S \cup {key} -> Frame] /\ S \cup {key} \in SUBSET Nat
    BY <1>1, <1>2, <2>1
  <2>3. QED
    BY <2>2 DEF MapType
<1>3. ASSUME map \in TableType, key \in Nat \cup {Abandoned}
      PROVE  Mapped(map, key, value) \in TableType
  <2>1. PICK S \in SUBSET (Nat \cup {Abandoned}) : map \in [S -> Frame]
    BY <1>3, Zenon DEF TableType
  <2>2. /\ Mapped(map, key, value) \in [S \cup {key} -> Frame]
        /\ S \cup {key} \in SUBSET (Nat \cup {Abandoned})
    BY <1>1, <1>3, <2>1
  <2>3. QED
    BY <2>2 DEF TableType
<1>4. QED
  BY <1>2, <1>3

\* A panic changes nothing else, and is never taken back.
LEMMA HaltIs ==
  ASSUME NEW m \in MemType, NEW why \in {"full", "space", "bug"}
  PROVE  /\ Halt(m, why) \in MemType /\ Halt(m, why).halt # "no"
         /\ Halt(m, why).lists = m.lists /\ Halt(m, why).virmm = m.virmm
BY DEF Halt, MemType

\* phy_alloc_page takes a frame.
LEMMA FrameIs ==
  ASSUME NEW m \in MemType
  PROVE  LET new == phy_alloc_page(m)
         IN  /\ new \in MemType /\ NewFrame(m) \in Frame
             /\ new.lists = m.lists /\ new.virmm = m.virmm
             /\ new.halt = "no" => m.halt = "no"
<1>1. m.frames \in Bits(FRAMES) /\ FRAMES \in Nat \ {0}
  BY Sizes DEF MemType
<1>2. CASE Exhausted(m.frames)
  <2>1. phy_alloc_page(m) = Halt(m, "full") /\ NewFrame(m) = 0
    BY <1>2, Zenon DEF phy_alloc_page, NewFrame
  <2>2. 0 \in Frame
    BY <1>1 DEF Frame
  <2>3. QED
    BY <2>1, <2>2, HaltIs
<1>3. CASE ~Exhausted(m.frames)
  <2> DEFINE map == bitmap_set(Scanned(m.frames), FirstFree(m.frames))
  <2>1. map \in Bits(FRAMES) /\ FirstFree(m.frames) \in Frame
    BY <1>1, <1>3, BitsIs DEF Frame
  <2>2. phy_alloc_page(m) = [m EXCEPT !.frames = map] /\ NewFrame(m) = FirstFree(m.frames)
    BY <1>3, Zenon DEF phy_alloc_page, NewFrame
  <2> HIDE DEF map
  <2>3. QED
    BY <2>1, <2>2 DEF MemType
<1>4. QED
  BY <1>2, <1>3

\* vir_alloc_kern takes a page of metadata.
LEMMA KernIs ==
  ASSUME NEW m \in MemType
  PROVE  LET new == vir_alloc_kern(m)
         IN  /\ new \in MemType /\ NewKernPage(m) \in KernPage /\ NewKernPage(m) \in Addr
             /\ new.lists = m.lists
             /\ new.halt = "no" =>
                  /\ m.halt = "no" /\ NewKernPage(m) - KERN_METADATA \notin m.virmm.set
                  /\ new.virmm.set = m.virmm.set \cup {NewKernPage(m) - KERN_METADATA}
<1> DEFINE S == SIZE_BITMAP_VIRMM
<1>1. m.virmm \in Bits(S) /\ S \in Nat \ {0} /\ m.halt \in {"no", "full", "space", "bug"}
  BY Sizes DEF MemType
<1>2. KERN_METADATA \in Nat /\ KERN_METADATA + S <= PAGES /\ PAGES \in Nat
  BY Sizes
<1>3. ASSUME NEW bit \in 0..(S - 1)
      PROVE  KERN_METADATA + bit \in KernPage /\ KERN_METADATA + bit \in Addr
  BY <1>1, <1>2 DEF KernPage, Addr
<1>4. CASE Exhausted(m.virmm)
  <2>1. vir_alloc_kern(m) = Halt(m, "full") /\ NewKernPage(m) = KERN_METADATA + 0
    BY <1>4, Zenon DEF vir_alloc_kern, NewKernPage
  <2>2. 0 \in 0..(S - 1)
    BY <1>1
  <2>3. QED
    BY <1>3, <2>1, <2>2, HaltIs
<1>5. CASE ~Exhausted(m.virmm)
  <2> DEFINE bit == FirstFree(m.virmm)
             map == bitmap_set(Scanned(m.virmm), FirstFree(m.virmm))
  <2>1. map \in Bits(S) /\ bit \in (0..(S - 1)) \ m.virmm.set /\ map.set = m.virmm.set \cup {bit}
    BY <1>1, <1>5, BitsIs
  <2>2. vir_alloc_kern(m) = [m EXCEPT !.virmm = map] /\ NewKernPage(m) = KERN_METADATA + bit
    BY <1>5, Zenon DEF vir_alloc_kern, NewKernPage
  <2> HIDE DEF map, bit
  <2>3. /\ [m EXCEPT !.virmm = map] \in MemType /\ [m EXCEPT !.virmm = map].lists = m.lists
        /\ [m EXCEPT !.virmm = map].virmm = map /\ [m EXCEPT !.virmm = map].halt = m.halt
    BY <2>1 DEF MemType
  <2>4. (KERN_METADATA + bit) - KERN_METADATA = bit
    BY <1>2, <2>1
  <2>5. QED
    BY <1>3, <2>1, <2>2, <2>3, <2>4
<1>6. QED
  BY <1>4, <1>5

\* set_mapping maps a page, and takes a frame for its table if there is none.
LEMMA MappingIs ==
  ASSUME NEW m \in MemType, NEW page \in Nat, NEW frame \in Frame
  PROVE  LET new == set_mapping(m, page, frame)
         IN  /\ new \in MemType /\ new.lists = m.lists /\ new.virmm = m.virmm
             /\ new.halt = "no" => m.halt = "no"
<1> DEFINE m1 == IF Table(page) \in DOMAIN m.pde THEN m
                 ELSE [phy_alloc_page(m) EXCEPT !.pde = Mapped(@, Table(page), NewFrame(m))]
<1>1. Table(page) \in Nat
  BY Sizes DEF Table
<1>2. /\ m1 \in MemType /\ m1.lists = m.lists /\ m1.virmm = m.virmm
      /\ m1.halt = "no" => m.halt = "no"
  <2>1. CASE Table(page) \in DOMAIN m.pde
    BY <2>1
  <2>2. CASE Table(page) \notin DOMAIN m.pde
    <3> DEFINE old == phy_alloc_page(m)
               map == Mapped(old.pde, Table(page), NewFrame(m))
    <3>1. /\ old \in MemType /\ NewFrame(m) \in Frame /\ old.lists = m.lists
          /\ old.virmm = m.virmm /\ (old.halt = "no" => m.halt = "no")
      BY FrameIs
    <3> HIDE DEF old
    <3>2. map \in TableType
      <4>1. old.pde \in TableType
        BY <3>1 DEF MemType
      <4>2. QED
        BY <1>1, <3>1, <4>1, MappedIs
    <3>3. m1 = [old EXCEPT !.pde = map]
      BY <2>2 DEF old
    <3> HIDE DEF map, m1
    <3>4. QED
      BY <3>1, <3>2, <3>3 DEF MemType
  <2>3. QED
    BY <2>1, <2>2
<1>3. set_mapping(m, page, frame) = [m1 EXCEPT !.pte = Mapped(@, page, frame)]
  BY Zenon DEF set_mapping
<1> HIDE DEF m1
<1> DEFINE map == Mapped(m1.pte, page, frame)
<1>4. map \in MapType
  <2>1. m1.pte \in MapType
    BY <1>2 DEF MemType
  <2>2. QED
    BY <2>1, MappedIs
<1> HIDE DEF map
<1>5. set_mapping(m, page, frame) = [m1 EXCEPT !.pte = map]
  BY <1>3 DEF map
<1>6. QED
  BY <1>2, <1>4, <1>5 DEF MemType
-----------------------------------------------------------------------------
\* A page that is carved into chunks has all of them free.
LEMMA InitIs ==
  ASSUME NEW page \in Addr
  PROVE  /\ fmtlist_init(page) \in PageType /\ fmtlist_init(page).va = page
         /\ fmtlist_init(page).free # <<>>
         /\ Len(fmtlist_init(page).free) = CAPACITY
         /\ \A n \in 1..CAPACITY : fmtlist_init(page).free[n] = n
<1> DEFINE free == [n \in 1..CAPACITY |-> n]
<1>1. CAPACITY \in Nat \ {0}
  BY Sizes
<1>2. free \in Seq(1..CAPACITY) /\ Len(free) = CAPACITY /\ \A n \in 1..CAPACITY : free[n] = n
  BY <1>1
<1>3. free # <<>>
  BY <1>1, <1>2
<1>4. fmtlist_init(page) = [va |-> page, free |-> free]
  BY Zenon DEF fmtlist_init
<1> HIDE DEF free
<1>5. QED
  BY <1>2, <1>3, <1>4 DEF PageType

\* A list of the memory.
LEMMA ListType ==
  ASSUME NEW m \in MemType, NEW l \in List
  PROVE  /\ m.lists \in [List -> Seq(PageType)] /\ m.lists[l] \in Seq(PageType)
         /\ Len(m.lists[l]) \in Nat /\ DOMAIN m.lists[l] = 1..Len(m.lists[l])
         /\ \A k \in 1..Len(m.lists[l]) :
              /\ m.lists[l][k] \in PageType /\ m.lists[l][k].va \in Addr
              /\ m.lists[l][k].free \in Seq(1..CAPACITY)
<1>1. m.lists \in [List -> Seq(PageType)] /\ m.lists[l] \in Seq(PageType)
  BY DEF MemType
<1> DEFINE list == m.lists[l]
<1> HIDE DEF list
<1>2. list \in Seq(PageType)
  BY <1>1 DEF list
<1>3. /\ Len(list) \in Nat /\ DOMAIN list = 1..Len(list)
      /\ \A k \in 1..Len(list) : list[k] \in PageType
  BY <1>2
<1>4. \A k \in 1..Len(list) : list[k].va \in Addr /\ list[k].free \in Seq(1..CAPACITY)
  BY <1>3 DEF PageType
<1>5. QED
  BY <1>1, <1>3, <1>4 DEF list

\* A list that is changed to another list of pages.
LEMMA ListChanged ==
  ASSUME NEW m \in MemType, NEW l \in List, NEW list \in Seq(PageType)
  PROVE  LET new == [m EXCEPT !.lists[l] = list]
         IN  /\ new \in MemType /\ new.lists = [m.lists EXCEPT ![l] = list]
             /\ new.lists[l] = list /\ \A other \in List : other # l => new.lists[other] = m.lists[other]
             /\ new.halt = m.halt /\ new.virmm = m.virmm
<1> DEFINE lists == [m.lists EXCEPT ![l] = list]
<1>1. m.lists \in [List -> Seq(PageType)]
  BY DEF MemType
<1>2. /\ lists \in [List -> Seq(PageType)] /\ lists[l] = list
      /\ \A other \in List : other # l => lists[other] = m.lists[other]
  BY <1>1
<1>3. [m EXCEPT !.lists[l] = list] = [m EXCEPT !.lists = lists]
  BY DEF MemType
<1> HIDE DEF lists
<1>4. [m EXCEPT !.lists = lists] \in MemType /\ [m EXCEPT !.lists = lists].lists = lists
  BY <1>2 DEF MemType
<1>5. [m EXCEPT !.lists = lists].halt = m.halt /\ [m EXCEPT !.lists = lists].virmm = m.virmm
  BY DEF MemType
<1>6. QED
  BY <1>2, <1>3, <1>4, <1>5 DEF lists

\* What has happened to the metadata pages when page has been taken.
TookKern(m, new, page) ==
  /\ page \in KernPage /\ page - KERN_METADATA \notin m.virmm.set
  /\ new.virmm.set = m.virmm.set \cup {page - KERN_METADATA}

\* A list that is used up gets one more page, of the kernel's metadata.
LEMMA GrownIs ==
  ASSUME NEW m \in MemType, NEW l \in List
  PROVE  LET new  == Grown(m, l)
             page == NewKernPage(m)
         IN  /\ new \in MemType /\ page \in Addr /\ page \in KernPage
             /\ new.lists = [m.lists EXCEPT ![l] = Append(m.lists[l], fmtlist_init(page))]
             /\ new.halt = "no" => m.halt = "no" /\ TookKern(m, new, page)
<1> DEFINE page  == NewKernPage(m)
           frame == NewFrame(m)
           m0 == phy_alloc_page(m)
           m1 == vir_alloc_kern(m0)
           m2 == set_mapping(m1, page, frame)
           list == Append(m.lists[l], fmtlist_init(page))
<1>1. /\ m0 \in MemType /\ frame \in Frame /\ m0.lists = m.lists /\ m0.virmm = m.virmm
      /\ m0.halt = "no" => m.halt = "no"
  BY FrameIs
<1>2. NewKernPage(m0) = page
  BY <1>1 DEF NewKernPage
<1> HIDE DEF m0, page, frame
<1>3. /\ m1 \in MemType /\ page \in KernPage /\ page \in Addr /\ m1.lists = m0.lists
      /\ m1.halt = "no" => m0.halt = "no" /\ TookKern(m0, m1, page)
  BY <1>1, <1>2, KernIs DEF TookKern
<1> HIDE DEF m1
<1>4. /\ m2 \in MemType /\ m2.lists = m1.lists /\ m2.virmm = m1.virmm
      /\ m2.halt = "no" => m1.halt = "no"
  BY <1>1, <1>3, AddrIs, MappingIs
<1>5. list \in Seq(PageType)
  BY <1>3, ListType, InitIs
<1>6. Grown(m, l) = [m2 EXCEPT !.lists[l] = Append(@, fmtlist_init(page))]
  BY Zenon DEF Grown, m2, m1, m0, page, frame
<1> HIDE DEF m2
<1>7. [m2 EXCEPT !.lists[l] = Append(@, fmtlist_init(page))] = [m2 EXCEPT !.lists[l] = list]
  BY <1>1, <1>3, <1>4
<1> DEFINE new == [m2 EXCEPT !.lists[l] = list]
<1> HIDE DEF list
<1>8. /\ new \in MemType /\ new.lists = [m.lists EXCEPT ![l] = list]
      /\ new.halt = m2.halt /\ new.virmm = m2.virmm
  BY <1>1, <1>3, <1>4, <1>5, ListChanged
<1>9. Grown(m, l) = new
  BY <1>6, <1>7
<1> HIDE DEF new
<1>10. new.halt = "no" => m.halt = "no" /\ TookKern(m, new, page)
  BY <1>1, <1>3, <1>4, <1>8 DEF TookKern
<1>11. QED
  BY <1>3, <1>8, <1>9, <1>10 DEF page, list

\* A list with room, and its first page with a free chunk.
LEMMA RoomIs ==
  ASSUME NEW m \in MemType, NEW l \in List
  PROVE  LET m1 == WithRoom(m, l)
             k  == Min(Open(m1, l))
         IN  /\ m1 \in MemType
             /\ k \in 1..Len(m1.lists[l]) /\ m1.lists[l][k].free # <<>>
             /\ Open(m, l) # {} => m1 = m
             /\ Open(m, l) = {} =>
                  /\ m1.lists = [m.lists EXCEPT ![l] = Append(m.lists[l], fmtlist_init(NewKernPage(m)))]
                  /\ k = Len(m.lists[l]) + 1 /\ NewKernPage(m) \in Addr
                  /\ m1.halt = "no" => m.halt = "no" /\ TookKern(m, m1, NewKernPage(m))
<1> DEFINE m1 == WithRoom(m, l)
           k  == Min(Open(m1, l))
           page == fmtlist_init(NewKernPage(m))
<1>1. CASE Open(m, l) # {}
  <2>1. m1 = m
    BY <1>1, Zenon DEF WithRoom
  <2>2. Open(m, l) \in SUBSET Nat
    BY ListType DEF Open
  <2>3. k \in Open(m, l)
    BY <1>1, <2>1, <2>2, MinIs
  <2>4. QED
    BY <1>1, <2>1, <2>3, ListType DEF Open
<1>2. CASE Open(m, l) = {}
  <2>1. m1 = Grown(m, l)
    BY <1>2, Zenon DEF WithRoom
  <2>2. /\ m1 \in MemType /\ NewKernPage(m) \in Addr
        /\ m1.lists = [m.lists EXCEPT ![l] = Append(m.lists[l], page)]
        /\ m1.halt = "no" => m.halt = "no" /\ TookKern(m, m1, NewKernPage(m))
    BY <2>1, GrownIs
  <2> DEFINE list == m.lists[l]
             long == m1.lists[l]
             n    == Len(list) + 1
  <2>3. page \in PageType /\ page.free # <<>>
    BY <2>2, InitIs
  <2>4. /\ list \in Seq(PageType) /\ Len(list) \in Nat /\ m.lists \in [List -> Seq(PageType)]
        /\ DOMAIN list = 1..Len(list)
    BY ListType
  <2> HIDE DEF m1, page
  <2>5. long = Append(list, page)
    BY <2>2, <2>4
  <2> HIDE DEF long, list
  <2>6. /\ DOMAIN long = 1..n /\ Len(long) = n /\ long[n] = page
        /\ \A j \in 1..Len(list) : long[j] = list[j]
    BY <2>3, <2>4, <2>5
  <2>7. Open(m1, l) = {n}
    <3>1. Open(m1, l) = {j \in 1..n : long[j].free # <<>>}
      BY <2>6 DEF Open, long
    <3>2. \A j \in 1..Len(list) : list[j].free = <<>>
      BY <1>2, <2>4 DEF Open, list
    <3>3. \A j \in 1..n : j = n \/ j \in 1..Len(list)
      BY <2>4
    <3>4. n \in 1..n
      BY <2>4
    <3>5. QED
      BY <2>3, <2>6, <3>1, <3>2, <3>3, <3>4
  <2>8. k = n
    <3>1. {n} \in SUBSET Nat /\ {n} # {}
      BY <2>4
    <3>2. Min({n}) \in {n}
      BY <3>1, MinIs
    <3>3. QED
      BY <2>7, <3>2
  <2>9. k \in 1..Len(long) /\ long[k].free # <<>>
    BY <2>3, <2>4, <2>6, <2>8
  <2>10. QED
    BY <1>2, <2>2, <2>8, <2>9 DEF long, list, m1, page
<1>3. QED
  BY <1>1, <1>2

\* A chunk is taken from the first page of the list that has one.
LEMMA AllocChunkIs ==
  ASSUME NEW m \in MemType, NEW l \in List
  PROVE  LET m1   == WithRoom(m, l)
             k    == Min(Open(m1, l))
             page == m1.lists[l][k]
             new  == fmtlist_alloc(m, l)
         IN  /\ new \in MemType /\ NextChunk(m, l) \in ChunkType
             /\ NextChunk(m, l) = <<page.va, Head(page.free)>>
             /\ new.lists = [m1.lists EXCEPT ![l] =
                               [m1.lists[l] EXCEPT ![k] = [page EXCEPT !.free = Tail(page.free)]]]
             /\ new.halt = m1.halt /\ new.virmm = m1.virmm
<1> DEFINE m1   == WithRoom(m, l)
           k    == Min(Open(m1, l))
           page == m1.lists[l][k]
           used == [page EXCEPT !.free = Tail(page.free)]
           list == [m1.lists[l] EXCEPT ![k] = used]
<1>1. m1 \in MemType /\ k \in 1..Len(m1.lists[l]) /\ page.free # <<>>
  BY RoomIs
<1> HIDE DEF m1
<1>2. /\ m1.lists \in [List -> Seq(PageType)] /\ m1.lists[l] \in Seq(PageType)
      /\ page \in PageType /\ page.va \in Addr /\ page.free \in Seq(1..CAPACITY)
  BY <1>1, ListType
<1>3. NextChunk(m, l) = <<page.va, Head(page.free)>>
  BY Zenon DEF NextChunk, m1
<1>4. fmtlist_alloc(m, l) = [m1 EXCEPT !.lists[l][k].free = Tail(@)]
  BY Zenon DEF fmtlist_alloc, m1
<1>5. [m1 EXCEPT !.lists[l][k].free = Tail(@)] = [m1 EXCEPT !.lists[l] = list]
  BY <1>1, <1>2
<1> HIDE DEF k, page
<1>6. Head(page.free) \in 1..CAPACITY /\ Tail(page.free) \in Seq(1..CAPACITY)
  <2> DEFINE free == page.free
  <2>1. free \in Seq(1..CAPACITY) /\ free # <<>>
    BY <1>1, <1>2 DEF page
  <2> HIDE DEF free
  <2>2. Head(free) \in 1..CAPACITY /\ Tail(free) \in Seq(1..CAPACITY)
    BY <2>1, HeadTailProperties
  <2>3. QED
    BY <2>2 DEF free
<1>7. used \in PageType
  BY <1>2, <1>6 DEF PageType
<1> HIDE DEF used
<1>8. list \in Seq(PageType)
  <2>1. k \in 1..Len(m1.lists[l])
    BY <1>1
  <2> DEFINE old == m1.lists[l]
  <2> HIDE DEF old
  <2>2. [old EXCEPT ![k] = used] \in Seq(PageType)
    BY <1>2, <1>7, <2>1, ExceptSeq DEF old
  <2>3. QED
    BY <2>2 DEF old
<1> HIDE DEF list
<1> DEFINE new == [m1 EXCEPT !.lists[l] = list]
<1>9. /\ new \in MemType /\ new.lists = [m1.lists EXCEPT ![l] = list]
      /\ new.halt = m1.halt /\ new.virmm = m1.virmm
  BY <1>1, <1>8, ListChanged
<1>10. fmtlist_alloc(m, l) = new
  BY <1>4, <1>5
<1> HIDE DEF new
<1>11. NextChunk(m, l) \in ChunkType
  BY <1>2, <1>3, <1>6 DEF ChunkType
<1>12. QED
  BY <1>3, <1>9, <1>10, <1>11 DEF list, used, page, k, m1

\* A chunk is given back to its page; the page, or the whole list, may go.
LEMMA ReleaseChunkIs ==
  ASSUME NEW m \in MemType, NEW l \in List, NEW chunk \in ChunkType
  PROVE  LET k    == PlaceOf(m, l, chunk[1])
             page == m.lists[l][k]
             back == [page EXCEPT !.free = <<chunk[2]>> \o page.free]
             list == [m.lists[l] EXCEPT ![k] = back]
             new  == fmtlist_release(m, l, chunk)
         IN  /\ new \in MemType /\ new.halt = m.halt
             /\ chunk[1] \notin PagesOf(m, l) => new = m
             /\ chunk[1] \in PagesOf(m, l) =>
                  /\ k \in 1..Len(m.lists[l]) /\ page.va = chunk[1] /\ list \in Seq(PageType)
                  /\ back.va = page.va /\ back.free = <<chunk[2]>> \o page.free
                  /\ \E rest \in Seq(PageType) :
                       /\ new.lists = [m.lists EXCEPT ![l] = rest]
                       /\ \/ rest = list /\ new.virmm = m.virmm
                             /\ (Len(back.free) = CAPACITY => chunk[1] < KERN_METADATA /\ ~(k > 1))
                          \/ /\ Len(back.free) = CAPACITY /\ chunk[1] >= KERN_METADATA
                             /\ rest = <<>> /\ new.virmm.set = m.virmm.set \ {chunk[1] - KERN_METADATA}
                          \/ /\ Len(back.free) = CAPACITY /\ ~(chunk[1] >= KERN_METADATA) /\ k > 1
                             /\ rest = RemoveAt(list, k) /\ new.virmm = m.virmm
<1> DEFINE k    == PlaceOf(m, l, chunk[1])
           page == m.lists[l][k]
           back == [page EXCEPT !.free = <<chunk[2]>> \o page.free]
           list == [m.lists[l] EXCEPT ![k] = back]
           new  == fmtlist_release(m, l, chunk)
           m1   == [m EXCEPT !.lists[l][k].free = <<chunk[2]>> \o @]
           full == Len(m1.lists[l][k].free) = CAPACITY
<1>1. CASE chunk[1] \notin PagesOf(m, l)
  <2>1. new = m
    BY <1>1, Zenon DEF fmtlist_release
  <2>2. QED
    BY <1>1, <2>1
<1>2. CASE chunk[1] \in PagesOf(m, l)
  <2>1. new = IF ~full THEN m1
              ELSE IF chunk[1] >= KERN_METADATA
              THEN [vir_release_kern(m1, chunk[1]) EXCEPT !.lists[l] = <<>>]
              ELSE IF k > 1 THEN [m1 EXCEPT !.lists[l] = RemoveAt(@, k)]
              ELSE m1
    BY <1>2, Zenon DEF fmtlist_release
  <2> HIDE DEF new
  <2>2. /\ m.lists \in [List -> Seq(PageType)] /\ m.lists[l] \in Seq(PageType)
        /\ DOMAIN m.lists[l] = 1..Len(m.lists[l]) /\ Len(m.lists[l]) \in Nat
    BY ListType
  <2> DEFINE S == {j \in DOMAIN m.lists[l] : m.lists[l][j].va = chunk[1]}
  <2>3. S \in SUBSET Nat /\ S # {}
    BY <1>2, <2>2 DEF PagesOf
  <2>4. k = Min(S)
    BY DEF PlaceOf
  <2>5. k \in S
    BY <2>3, <2>4, MinIs
  <2> HIDE DEF k
  <2>6. k \in 1..Len(m.lists[l]) /\ page.va = chunk[1]
    BY <2>2, <2>5
  <2>7. page \in PageType /\ page.free \in Seq(1..CAPACITY)
    BY <2>6, ListType
  <2>8. m1 = [m EXCEPT !.lists[l] = list]
    BY <2>2, <2>6, <2>7
  <2> HIDE DEF page
  <2>9. chunk[2] \in 1..CAPACITY /\ <<chunk[2]>> \o page.free \in Seq(1..CAPACITY)
    <3>1. chunk[2] \in 1..CAPACITY
      BY DEF ChunkType
    <3>2. QED
      BY <2>7, <3>1
  <2>10. back \in PageType /\ back.va = page.va /\ back.free = <<chunk[2]>> \o page.free
    BY <2>7, <2>9 DEF PageType
  <2> HIDE DEF back
  <2>11. list \in Seq(PageType) /\ list[k] = back
    <3> DEFINE old == m.lists[l]
    <3> HIDE DEF old
    <3>1. [old EXCEPT ![k] = back] \in Seq(PageType) /\ [old EXCEPT ![k] = back][k] = back
      BY <2>2, <2>6, <2>10, ExceptSeq DEF old
    <3>2. QED
      BY <3>1 DEF old
  <2> HIDE DEF list
  <2>12. /\ m1 \in MemType /\ m1.lists = [m.lists EXCEPT ![l] = list] /\ m1.lists[l] = list
         /\ m1.halt = m.halt /\ m1.virmm = m.virmm
    <3> DEFINE m0 == [m EXCEPT !.lists[l] = list]
    <3>1. /\ m0 \in MemType /\ m0.lists = [m.lists EXCEPT ![l] = list] /\ m0.lists[l] = list
          /\ m0.halt = m.halt /\ m0.virmm = m.virmm
      BY <2>11, ListChanged
    <3>2. m1 = m0
      BY <2>8
    <3> HIDE DEF m0, m1
    <3>3. QED
      BY <3>1, <3>2
  <2>13. full <=> Len(back.free) = CAPACITY
    BY <2>11, <2>12
  <2> HIDE DEF m1, full
  <2>14. chunk[1] \in Nat /\ KERN_METADATA \in Nat /\ k \in Nat
    <3>1. chunk[1] \in Addr
      BY DEF ChunkType
    <3>2. QED
      BY <2>2, <2>6, <3>1, AddrIs, Sizes
  <2>15. CASE ~full
    <3>1. new = m1
      BY <2>1, <2>15, Zenon
    <3>2. QED
      BY <1>2, <2>6, <2>10, <2>11, <2>12, <2>13, <2>15, <3>1 DEF list, back, page, k, new
  <2>16. CASE full /\ chunk[1] >= KERN_METADATA
    <3> DEFINE m2 == vir_release_kern(m1, chunk[1])
               bits == bitmap_clear(m1.virmm, chunk[1] - KERN_METADATA)
    <3>1. new = [m2 EXCEPT !.lists[l] = <<>>]
      BY <2>1, <2>16, Zenon
    <3>2. /\ bits \in Bits(SIZE_BITMAP_VIRMM)
          /\ bits.set = m.virmm.set \ {chunk[1] - KERN_METADATA}
      <4>1. m1.virmm \in Bits(SIZE_BITMAP_VIRMM)
        BY <2>12 DEF MemType
      <4>2. SIZE_BITMAP_VIRMM \in Nat \ {0}
        BY Sizes
      <4> DEFINE map == m1.virmm
                 bit == chunk[1] - KERN_METADATA
      <4>3. map \in Bits(SIZE_BITMAP_VIRMM) /\ map = m.virmm
        BY <2>12, <4>1
      <4> HIDE DEF map, bit
      <4>4. /\ bitmap_clear(map, bit) \in Bits(SIZE_BITMAP_VIRMM)
            /\ bitmap_clear(map, bit).set = map.set \ {bit}
        BY <4>2, <4>3, BitsIs
      <4>5. QED
        BY <4>3, <4>4 DEF map, bit
    <3>3. m2 = [m1 EXCEPT !.virmm = bits]
      BY Zenon DEF vir_release_kern
    <3> HIDE DEF bits, m2
    <3>4. m2 \in MemType /\ m2.lists = m1.lists /\ m2.halt = m1.halt /\ m2.virmm = bits
      BY <2>12, <3>2, <3>3 DEF MemType
    <3> DEFINE none == <<>>
    <3>5. none \in Seq(PageType)
      OBVIOUS
    <3>6. /\ new \in MemType /\ new.lists = [m2.lists EXCEPT ![l] = none]
          /\ new.halt = m2.halt /\ new.virmm = m2.virmm
      <4>1. new = [m2 EXCEPT !.lists[l] = none]
        BY <3>1
      <4> HIDE DEF none
      <4>2. QED
        BY <3>4, <3>5, <4>1, ListChanged
    <3>7. [m2.lists EXCEPT ![l] = <<>>] = [m.lists EXCEPT ![l] = <<>>]
      BY <2>2, <2>12, <3>4
    <3>8. new.lists = [m.lists EXCEPT ![l] = <<>>] /\ new.halt = m.halt
          /\ new.virmm.set = m.virmm.set \ {chunk[1] - KERN_METADATA}
      BY <2>12, <3>2, <3>4, <3>6, <3>7
    <3>9. QED
      BY <1>2, <2>6, <2>10, <2>11, <2>13, <2>16, <3>5, <3>6, <3>8 DEF list, back, page, k, new
  <2>17. CASE full /\ ~(chunk[1] >= KERN_METADATA) /\ k > 1
    <3> DEFINE rest == RemoveAt(list, k)
    <3>1. new = [m1 EXCEPT !.lists[l] = RemoveAt(@, k)]
      BY <2>1, <2>17, Zenon
    <3>2. [m1 EXCEPT !.lists[l] = RemoveAt(@, k)] = [m1 EXCEPT !.lists[l] = rest]
      BY <2>12 DEF MemType
    <3>3. rest \in Seq(PageType)
      <4>1. Len(list) = Len(m.lists[l])
        BY <2>2, <2>6 DEF list
      <4>2. k \in 1..Len(list)
        BY <2>6, <4>1
      <4>3. QED
        BY <2>11, <4>2, RemoveAtIs
    <3> HIDE DEF rest
    <3>4. /\ new \in MemType /\ new.lists = [m1.lists EXCEPT ![l] = rest]
          /\ new.halt = m1.halt /\ new.virmm = m1.virmm
      BY <2>12, <3>1, <3>2, <3>3, ListChanged
    <3>5. [m1.lists EXCEPT ![l] = rest] = [m.lists EXCEPT ![l] = rest]
      BY <2>2, <2>12
    <3>6. new.lists = [m.lists EXCEPT ![l] = rest] /\ new.halt = m.halt /\ new.virmm = m.virmm
      BY <2>12, <3>4, <3>5
    <3>7. QED
      BY <1>2, <2>6, <2>10, <2>11, <2>13, <2>17, <3>3, <3>4, <3>6 DEF list, back, page, k, new, rest
  <2>18. CASE full /\ ~(chunk[1] >= KERN_METADATA) /\ ~(k > 1)
    <3>1. new = m1
      BY <2>1, <2>18, Zenon
    <3>2. chunk[1] < KERN_METADATA
      BY <2>14, <2>18
    <3>3. QED
      BY <1>2, <2>6, <2>10, <2>11, <2>12, <2>13, <2>18, <3>1, <3>2 DEF list, back, page, k, new
  <2>19. QED
    BY <2>15, <2>16, <2>17, <2>18
<1>3. QED
  BY <1>1, <1>2

\* No release of a chunk panics.
LEMMA ReleaseHalt ==
  ASSUME NEW m \in MemType, NEW l \in List, NEW chunk \in ChunkType
  PROVE  fmtlist_release(m, l, chunk) \in MemType /\ fmtlist_release(m, l, chunk).halt = m.halt
BY ReleaseChunkIs
-----------------------------------------------------------------------------
StateType == [mem : MemType, chain : Seq(AreaType), harm : SUBSET {"dropped", "junk", "lost", "stale"}]

\* No area of the state has been dropped, and no end been read at null.
Whole(s) == s.harm \cap {"dropped", "junk"} = {}

\* What a call makes of the state, as far as the areas go.
Sound(s) == s \in StateType /\ (Whole(s) => InOrder(s.chain))

\* A state, when its memory or its chain and harm are others.
LEMMA StateIs ==
  ASSUME NEW s \in StateType
  PROVE  /\ s.mem \in MemType /\ s.chain \in Seq(AreaType)
         /\ \A m \in MemType :
              /\ [s EXCEPT !.mem = m] \in StateType /\ [s EXCEPT !.mem = m].mem = m
              /\ [s EXCEPT !.mem = m].chain = s.chain /\ [s EXCEPT !.mem = m].harm = s.harm
         /\ \A why \in {"full", "space", "bug"} :
              /\ Fail(s, why) \in StateType /\ Fail(s, why).chain = s.chain
              /\ Fail(s, why).harm = s.harm /\ Fail(s, why).mem = Halt(s.mem, why)
              /\ Fail(s, why).mem.halt # "no"
<1>1. s.mem \in MemType /\ s.chain \in Seq(AreaType)
  BY DEF StateType
<1>2. \A m \in MemType :
        /\ [s EXCEPT !.mem = m] \in StateType /\ [s EXCEPT !.mem = m].mem = m
        /\ [s EXCEPT !.mem = m].chain = s.chain /\ [s EXCEPT !.mem = m].harm = s.harm
  BY DEF StateType
<1>3. ASSUME NEW why \in {"full", "space", "bug"}
      PROVE  /\ Fail(s, why) \in StateType /\ Fail(s, why).chain = s.chain
             /\ Fail(s, why).harm = s.harm /\ Fail(s, why).mem = Halt(s.mem, why)
             /\ Fail(s, why).mem.halt # "no"
  <2> DEFINE m == Halt(s.mem, why)
  <2>1. m \in MemType /\ m.halt # "no"
    BY <1>1, HaltIs
  <2>2. Fail(s, why) = [s EXCEPT !.mem = m]
    BY Zenon DEF Fail
  <2> HIDE DEF m
  <2>3. QED
    BY <1>2, <2>1, <2>2 DEF m
<1>4. QED
  BY <1>1, <1>2, <1>3

\* Panics keep the areas.
LEMMA FailSound ==
  ASSUME NEW s, Sound(s), NEW why \in {"full", "space", "bug"}
  PROVE  Sound(Fail(s, why)) /\ Fail(s, why).mem.halt # "no"
BY StateIs DEF Sound, Whole

\* So do changes of the memory.
LEMMA MemSound ==
  ASSUME NEW s, Sound(s), NEW m \in MemType
  PROVE  Sound([s EXCEPT !.mem = m]) /\ [s EXCEPT !.mem = m].mem = m
         /\ [s EXCEPT !.mem = m].chain = s.chain /\ [s EXCEPT !.mem = m].harm = s.harm
BY StateIs DEF Sound, Whole

\* The metadata that vir_alloc_pages takes, and what is left then.
VirAllocMem(s, amount) ==
  vaddr_alloc(node_alloc(IF GapFor(s.chain, break_, amount) = 0
                         THEN vspace_alloc(s.mem) ELSE s.mem))

NodeMeta(s, amount) ==
  LET m1 == IF GapFor(s.chain, break_, amount) = 0 THEN vspace_alloc(s.mem) ELSE s.mem
  IN  [node |-> NextChunk(m1, "node"), vaddr |-> NextChunk(node_alloc(m1), "vaddr")]

\* VirAlloc, field by field.
LEMMA VirAllocIs ==
  ASSUME NEW s \in StateType, NEW amount \in Amount
  PROVE  /\ NoSpace(s.chain, break_, amount, MAX_END) => VirAlloc(s, amount) = Fail(s, "space")
         /\ ~NoSpace(s.chain, break_, amount, MAX_END) =>
              LET new == VirAlloc(s, amount)
              IN  /\ new \in StateType /\ new.mem = VirAllocMem(s, amount)
                  /\ NodeMeta(s, amount) \in MetaType
                  /\ new.chain = vir_alloc_pages(s.chain, break_, amount, NodeMeta(s, amount),
                                                 NextChunk(s.mem, "vspace"))
                  /\ NextChunk(s.mem, "vspace") \in ChunkType
                  /\ new.harm = s.harm \cup (IF DropsRest(s.chain, break_, amount)
                                             THEN {"dropped"} ELSE {})
<1> DEFINE m1 == IF GapFor(s.chain, break_, amount) = 0 THEN vspace_alloc(s.mem) ELSE s.mem
           m2 == node_alloc(m1)
           m3 == vaddr_alloc(m2)
           nodeMeta == [node |-> NextChunk(m1, "node"), vaddr |-> NextChunk(m2, "vaddr")]
           areaMeta == NextChunk(s.mem, "vspace")
           areas == vir_alloc_pages(s.chain, break_, amount, nodeMeta, areaMeta)
           harms == s.harm \cup (IF DropsRest(s.chain, break_, amount) THEN {"dropped"} ELSE {})
           new == VirAlloc(s, amount)
<1>1. NoSpace(s.chain, break_, amount, MAX_END) => new = Fail(s, "space")
  BY Zenon DEF VirAlloc
<1>2. ASSUME ~NoSpace(s.chain, break_, amount, MAX_END)
      PROVE  new = [mem |-> m3, chain |-> areas, harm |-> harms]
  BY <1>2, Zenon DEF VirAlloc
<1>3. "vspace" \in List /\ "node" \in List /\ "vaddr" \in List
  BY DEF List, Metadata
<1>4. s.mem \in MemType /\ s.chain \in Seq(AreaType) /\ s.harm \in SUBSET {"dropped", "junk", "lost", "stale"}
  BY DEF StateType
<1>5. m1 \in MemType /\ areaMeta \in ChunkType
  BY <1>3, <1>4, AllocChunkIs DEF vspace_alloc
<1> HIDE DEF m1
<1>6. m2 \in MemType /\ NextChunk(m1, "node") \in ChunkType
  BY <1>3, <1>5, AllocChunkIs DEF node_alloc
<1> HIDE DEF m2
<1>7. m3 \in MemType /\ NextChunk(m2, "vaddr") \in ChunkType
  BY <1>3, <1>6, AllocChunkIs DEF vaddr_alloc
<1>8. nodeMeta \in MetaType
  BY <1>6, <1>7 DEF MetaType
<1>9. m3 = VirAllocMem(s, amount) /\ nodeMeta = NodeMeta(s, amount)
  BY Zenon DEF VirAllocMem, NodeMeta, m2, m1
<1> HIDE DEF nodeMeta, areaMeta, m3
<1>10. areas \in Seq(AreaType)
  BY <1>4, <1>5, <1>8, AllocIs
<1>11. harms \in SUBSET {"dropped", "junk", "lost", "stale"}
  BY <1>4
<1> HIDE DEF areas, harms, new
<1>12. ASSUME ~NoSpace(s.chain, break_, amount, MAX_END)
       PROVE  /\ new \in StateType /\ new.mem = m3 /\ new.chain = areas /\ new.harm = harms
  BY <1>2, <1>7, <1>10, <1>11, <1>12 DEF StateType
<1>13. QED
  BY <1>1, <1>5, <1>8, <1>9, <1>12 DEF areas, areaMeta, harms, new

\* VirAlloc keeps the areas in order.
LEMMA VirAllocSound ==
  ASSUME NEW s, Sound(s), NEW amount \in Amount
  PROVE  Sound(VirAlloc(s, amount))
<1> DEFINE new == VirAlloc(s, amount)
<1>1. s \in StateType /\ s.chain \in Seq(AreaType) /\ (Whole(s) => InOrder(s.chain))
  BY StateIs DEF Sound
<1>2. CASE NoSpace(s.chain, break_, amount, MAX_END)
  BY <1>1, <1>2, VirAllocIs, FailSound
<1>3. CASE ~NoSpace(s.chain, break_, amount, MAX_END)
  <2>1. /\ new \in StateType /\ NodeMeta(s, amount) \in MetaType
        /\ new.chain = vir_alloc_pages(s.chain, break_, amount, NodeMeta(s, amount),
                                       NextChunk(s.mem, "vspace"))
        /\ NextChunk(s.mem, "vspace") \in ChunkType
        /\ new.harm = s.harm \cup (IF DropsRest(s.chain, break_, amount) THEN {"dropped"} ELSE {})
    BY <1>1, <1>3, VirAllocIs
  <2> HIDE DEF new
  <2>2. ASSUME Whole(new) PROVE InOrder(new.chain)
    <3>1. Whole(s) /\ ~DropsRest(s.chain, break_, amount)
      BY <2>1, <2>2 DEF Whole
    <3>2. QED
      BY <1>1, <1>3, <2>1, <3>1, AllocKeeps
  <2>3. QED
    BY <2>1, <2>2 DEF Sound, new
<1>4. QED
  BY <1>2, <1>3

\* phy_release_vpage changes nothing but frames.
LEMMA FreeFramesIs ==
  ASSUME NEW m \in MemType, NEW pages
  PROVE  LET new == phy_release_vpages(m, pages)
         IN  /\ new \in MemType /\ new.lists = m.lists /\ new.virmm = m.virmm
             /\ new.halt = m.halt
<1> DEFINE gone == {m.pte[page] : page \in pages}
           bits == [m.frames EXCEPT !.set = @ \ gone]
<1>1. phy_release_vpages(m, pages) = [m EXCEPT !.frames.set = @ \ gone]
  BY Zenon DEF phy_release_vpages
<1> HIDE DEF gone
<1>2. m.frames \in Bits(FRAMES)
  BY DEF MemType
<1>3. bits \in Bits(FRAMES)
  BY <1>2 DEF Bits
<1>4. [m EXCEPT !.frames.set = @ \ gone] = [m EXCEPT !.frames = bits]
  BY DEF MemType
<1> HIDE DEF bits
<1>5. QED
  BY <1>1, <1>3, <1>4 DEF MemType

\* The memory before vir_release_pages gives the metadata of its node back.
VirReleaseRest(s, va) ==
  LET node == NodeOf(s.chain, va)
      m1 == IF Splits(s.chain, va) THEN vspace_alloc(s.mem) ELSE s.mem
      m2 == phy_release_vpages(m1, PagesAt(node.va, node.len))
  IN  IF Empties(s.chain, va)
      THEN vspace_release(m2, s.chain[AreaOf(s.chain, va)].meta)
      ELSE m2

VirReleaseMem(s, va) == ReleaseMeta(VirReleaseRest(s, va), NodeOf(s.chain, va))

\* The metadata of a node is given back as one chunk of one list.
LEMMA ReleaseMetaIs ==
  ASSUME NEW m \in MemType, NEW node \in NodeType
  PROVE  /\ node.meta.node \in ChunkType /\ node.meta.vaddr \in ChunkType
         /\ ReleaseMeta(m, node) \in MemType /\ ReleaseMeta(m, node).halt = m.halt
         /\ \/ ReleaseMeta(m, node) = fmtlist_release(m, "node", node.meta.node)
            \/ ReleaseMeta(m, node) = fmtlist_release(m, "vaddr", node.meta.vaddr)
<1>1. node.meta.node \in ChunkType /\ node.meta.vaddr \in ChunkType
  BY DEF NodeType, MetaType
<1>2. "node" \in List /\ "vaddr" \in List
  BY DEF List, Metadata
<1>3. /\ fmtlist_release(m, "node", node.meta.node) \in MemType
      /\ fmtlist_release(m, "node", node.meta.node).halt = m.halt
      /\ fmtlist_release(m, "vaddr", node.meta.vaddr) \in MemType
      /\ fmtlist_release(m, "vaddr", node.meta.vaddr).halt = m.halt
  BY <1>1, <1>2, ReleaseHalt
<1>4. \/ ReleaseMeta(m, node) = fmtlist_release(m, "node", node.meta.node)
      \/ ReleaseMeta(m, node) = fmtlist_release(m, "vaddr", node.meta.vaddr)
  BY Zenon DEF ReleaseMeta, node_release, vaddr_release
<1>5. QED
  BY <1>1, <1>3, <1>4

\* VirRelease, field by field.
LEMMA VirReleaseIs ==
  ASSUME NEW s \in StateType, NEW va, NEW junk \in Addr
  PROVE  /\ ~CanRelease(s.chain, va) => VirRelease(s, va, junk) = Fail(s, "bug")
         /\ CanRelease(s.chain, va) =>
              LET new == VirRelease(s, va, junk)
              IN  /\ new \in StateType /\ new.mem = VirReleaseMem(s, va)
                  /\ new.chain = vir_release_pages(s.chain, va, junk, NextChunk(s.mem, "vspace"))
                  /\ NextChunk(s.mem, "vspace") \in ChunkType
                  /\ NodeOf(s.chain, va) \in NodeType
                  /\ s.chain[AreaOf(s.chain, va)].meta \in ChunkType
                  /\ new.harm = s.harm \cup (IF ReadsNull(s.chain, va) THEN {"junk"} ELSE {})
<1> DEFINE node == NodeOf(s.chain, va)
           m1 == IF Splits(s.chain, va) THEN vspace_alloc(s.mem) ELSE s.mem
           m2 == phy_release_vpages(m1, PagesAt(node.va, node.len))
           areaMeta == s.chain[AreaOf(s.chain, va)].meta
           m3 == IF Empties(s.chain, va) THEN vspace_release(m2, areaMeta) ELSE m2
           m4 == ReleaseMeta(m3, node)
           fresh == NextChunk(s.mem, "vspace")
           areas == vir_release_pages(s.chain, va, junk, fresh)
           harms == s.harm \cup (IF ReadsNull(s.chain, va) THEN {"junk"} ELSE {})
           new == VirRelease(s, va, junk)
<1>1. ~CanRelease(s.chain, va) => new = Fail(s, "bug")
  BY Zenon DEF VirRelease
<1>2. ASSUME CanRelease(s.chain, va)
      PROVE  new = [mem |-> m4, chain |-> areas, harm |-> harms]
  BY <1>2, Zenon DEF VirRelease
<1>3. CASE CanRelease(s.chain, va)
  <2>1. "vspace" \in List /\ "node" \in List
    BY DEF List, Metadata
  <2>2. s.mem \in MemType /\ s.chain \in Seq(AreaType) /\ s.harm \in SUBSET {"dropped", "junk", "lost", "stale"}
    BY DEF StateType
  <2>3. node \in NodeType /\ areaMeta \in ChunkType
    BY <1>3, <2>2, FoundIs DEF AreaType
  <2>5. m4 = VirReleaseMem(s, va)
    BY Zenon DEF VirReleaseMem, VirReleaseRest
  <2>6. m1 \in MemType /\ fresh \in ChunkType
    BY <2>1, <2>2, AllocChunkIs DEF vspace_alloc
  <2> HIDE DEF m1, areaMeta, node
  <2>7. m2 \in MemType
    BY <2>6, FreeFramesIs
  <2> HIDE DEF m2
  <2>8. m3 \in MemType
    BY <2>1, <2>3, <2>7, ReleaseChunkIs DEF vspace_release
  <2> HIDE DEF m3
  <2>9. m4 \in MemType
    BY <2>3, <2>8, ReleaseMetaIs
  <2> HIDE DEF m4, fresh
  <2>10. areas \in Seq(AreaType)
    BY <1>3, <2>2, <2>6, ReleaseType
  <2>11. harms \in SUBSET {"dropped", "junk", "lost", "stale"}
    BY <2>2
  <2> HIDE DEF areas, harms, new
  <2>12. new = [mem |-> m4, chain |-> areas, harm |-> harms]
    BY <1>2, <1>3
  <2>13. new \in StateType /\ new.mem = m4 /\ new.chain = areas /\ new.harm = harms
    BY <2>9, <2>10, <2>11, <2>12 DEF StateType
  <2>14. QED
    BY <1>3, <2>3, <2>5, <2>6, <2>13 DEF areas, harms, new, fresh, node, areaMeta
<1>4. QED
  BY <1>1, <1>3

\* VirRelease keeps the areas in order.
LEMMA VirReleaseSound ==
  ASSUME NEW s, Sound(s), NEW va, NEW junk \in Addr
  PROVE  Sound(VirRelease(s, va, junk))
<1> DEFINE new == VirRelease(s, va, junk)
<1>1. s \in StateType /\ s.chain \in Seq(AreaType) /\ (Whole(s) => InOrder(s.chain))
  BY StateIs DEF Sound
<1>2. CASE ~CanRelease(s.chain, va)
  BY <1>1, <1>2, VirReleaseIs, FailSound
<1>3. CASE CanRelease(s.chain, va)
  <2>1. /\ new \in StateType /\ NextChunk(s.mem, "vspace") \in ChunkType
        /\ new.chain = vir_release_pages(s.chain, va, junk, NextChunk(s.mem, "vspace"))
        /\ new.harm = s.harm \cup (IF ReadsNull(s.chain, va) THEN {"junk"} ELSE {})
    BY <1>1, <1>3, VirReleaseIs
  <2> HIDE DEF new
  <2>2. ASSUME Whole(new) PROVE InOrder(new.chain)
    <3>1. Whole(s) /\ ~ReadsNull(s.chain, va)
      BY <2>1, <2>2 DEF Whole
    <3>2. QED
      BY <1>1, <1>3, <2>1, <3>1, ReleaseKeeps
  <2>3. QED
    BY <2>1, <2>2 DEF Sound, new
<1>4. QED
  BY <1>2, <1>3
-----------------------------------------------------------------------------
\* One page more is mapped, to a frame of its own.
LEMMA MapNewIs ==
  ASSUME NEW m \in MemType, NEW page \in Nat
  PROVE  LET new == MapNew(m, page)
         IN  /\ new \in MemType /\ new.lists = m.lists /\ new.virmm = m.virmm
             /\ new.halt = "no" => m.halt = "no"
<1> DEFINE m1 == phy_alloc_page(m)
<1>1. /\ m1 \in MemType /\ NewFrame(m) \in Frame /\ m1.lists = m.lists /\ m1.virmm = m.virmm
      /\ m1.halt = "no" => m.halt = "no"
  BY FrameIs
<1> HIDE DEF m1
<1>2. MapNew(m, page) = set_mapping(m1, page, NewFrame(m))
  BY Zenon DEF MapNew, m1
<1>3. QED
  BY <1>1, <1>2, MappingIs

\* There is a function by which MapPages is defined, for every length.
LEMMA MappingExists ==
  ASSUME NEW m \in MemType, NEW va \in Nat, NEW len \in Nat
  PROVE  \E f : f = [n \in 0..len |-> IF n = 0 THEN m ELSE MapNew(f[n - 1], Wrap(va + n - 1))]
<1> DEFINE step == [n \in Nat |-> [x \in MemType |-> MapNew(x, Wrap(va + n - 1))]]
<1>1. \A n \in Nat : Wrap(va + n - 1) \in Nat
  <2> TAKE n \in Nat
  <2>1. va + n - 1 \in Int
    OBVIOUS
  <2>2. QED
    BY <2>1, WrapIs, AddrIs
<1>2. step \in [Nat -> [MemType -> MemType]]
  BY <1>1, MapNewIs
<1> HIDE DEF step
<1>3. PICK f \in [0..len -> MemType] : Rounds(f, step, m, len)
  BY <1>2, RecursionExists
<1>4. ASSUME NEW n \in 0..len
      PROVE  f[n] = IF n = 0 THEN m ELSE MapNew(f[n - 1], Wrap(va + n - 1))
  <2>1. CASE n = 0
    BY <1>3, <2>1 DEF Rounds
  <2>2. CASE n # 0
    <3>1. n \in Nat /\ f[n - 1] \in MemType
      BY <2>2
    <3>2. step[n][f[n - 1]] = MapNew(f[n - 1], Wrap(va + n - 1))
      BY <3>1 DEF step
    <3>3. QED
      BY <1>3, <2>2, <3>2 DEF Rounds
  <2>3. QED
    BY <2>1, <2>2
<1>5. f = [n \in 0..len |-> IF n = 0 THEN m ELSE MapNew(f[n - 1], Wrap(va + n - 1))]
  <2> DEFINE g == [n \in 0..len |-> IF n = 0 THEN m ELSE MapNew(f[n - 1], Wrap(va + n - 1))]
  <2>1. f = [n \in 0..len |-> f[n]] /\ g = [n \in 0..len |-> g[n]]
    OBVIOUS
  <2>2. \A n \in 0..len : g[n] = IF n = 0 THEN m ELSE MapNew(f[n - 1], Wrap(va + n - 1))
    BY Zenon
  <2> HIDE DEF g
  <2>3. \A n \in 0..len : f[n] = g[n]
    BY <1>4, <2>2
  <2>4. f = g
    BY <2>1, <2>3
  <2>5. QED
    BY <2>4 DEF g
<1>6. QED
  BY <1>5, Zenon

\* So are len pages, one after the other.
LEMMA MapPagesIs ==
  ASSUME NEW m \in MemType, NEW va \in Nat, NEW len \in Nat
  PROVE  LET new == MapPages(m, va, len)
         IN  /\ new \in MemType /\ new.lists = m.lists /\ new.virmm = m.virmm
             /\ new.halt = "no" => m.halt = "no"
<1> DEFINE Fine(x) == /\ x \in MemType /\ x.lists = m.lists /\ x.virmm = m.virmm
                      /\ x.halt = "no" => m.halt = "no"
           f == CHOOSE f : f = [n \in 0..len |-> IF n = 0 THEN m
                                                 ELSE MapNew(f[n - 1], Wrap(va + n - 1))]
<1>1. f = [n \in 0..len |-> IF n = 0 THEN m ELSE MapNew(f[n - 1], Wrap(va + n - 1))]
  BY MappingExists, Zenon
<1>2. MapPages(m, va, len) = f[len]
  BY Zenon DEF MapPages
<1> HIDE DEF f
<1>3. \A n \in 0..len : f[n] = IF n = 0 THEN m ELSE MapNew(f[n - 1], Wrap(va + n - 1))
  BY <1>1, Zenon
<1> DEFINE P == {n \in 0..len : Fine(f[n])}
<1>4. 0 \in P /\ \A n \in 1..len : n - 1 \in P => n \in P
  <2>1. 0 \in 0..len /\ f[0] = m
    <3>1. 0 \in 0..len
      OBVIOUS
    <3>2. QED
      BY <1>3, <3>1
  <2>2. ASSUME NEW n \in 1..len, Fine(f[n - 1]) PROVE n \in P
    <3> DEFINE old  == f[n - 1]
               page == Wrap(va + n - 1)
    <3>1. n \in 0..len /\ n # 0 /\ va + n - 1 \in Int
      OBVIOUS
    <3>2. page \in Nat
      BY <3>1, WrapIs, AddrIs
    <3>3. Fine(old) /\ f[n] = MapNew(old, page)
      BY <1>3, <2>2, <3>1
    <3> HIDE DEF old, page
    <3>4. /\ MapNew(old, page) \in MemType /\ MapNew(old, page).lists = old.lists
          /\ MapNew(old, page).virmm = old.virmm
          /\ MapNew(old, page).halt = "no" => old.halt = "no"
      BY <3>2, <3>3, MapNewIs
    <3>5. QED
      BY <3>1, <3>3, <3>4
  <2>3. QED
    BY <2>1, <2>2
<1>5. len \in P
  <2> HIDE DEF P
  <2>1. 0..len \subseteq P
    BY <1>4, UpTo, Zenon
  <2>2. QED
    BY <2>1
<1>6. QED
  BY <1>2, <1>5
-----------------------------------------------------------------------------
\* Where the gap is that vir_alloc_pages finds.
LEMMA VaIs ==
  ASSUME NEW areas \in Seq(AreaType), NEW amount \in Amount
  PROVE  AllocVa(areas, break_, amount) \in Addr
<1> DEFINE meta == [node |-> <<0, 1>>, vaddr |-> <<0, 1>>]
<1>1. <<0, 1>> \in ChunkType
  BY Sizes DEF ChunkType, Addr
<1>2. meta \in MetaType
  BY <1>1 DEF MetaType
<1> HIDE DEF meta
<1>3. QED
  BY <1>1, <1>2, AllocIs

\* The memory in which a bucket gets its first page, and that page.
FirstMem(s) ==
  set_mapping(VirAlloc([s EXCEPT !.mem = phy_alloc_page(@)], 1).mem,
              AllocVa(s.chain, break_, 1), NewFrame(s.mem))

\* FirstPage, field by field.
LEMMA FirstPageIs ==
  ASSUME NEW s, Sound(s), NEW b \in Bucket
  PROVE  LET s0  == [s EXCEPT !.mem = phy_alloc_page(@)]
             s1  == VirAlloc(s0, 1)
             va  == AllocVa(s.chain, break_, 1)
             new == FirstPage(s, b)
         IN  /\ Sound(s0) /\ s0.mem = phy_alloc_page(s.mem) /\ s0.chain = s.chain /\ s0.harm = s.harm
             /\ Sound(s1) /\ Sound(new) /\ va \in Addr
             /\ new.chain = s1.chain /\ new.harm = s1.harm
             /\ FirstMem(s) \in MemType /\ FirstMem(s).lists = s1.mem.lists
             /\ FirstMem(s).virmm = s1.mem.virmm /\ (FirstMem(s).halt = "no" => s1.mem.halt = "no")
             /\ <<fmtlist_init(va)>> \in Seq(PageType)
             /\ new.mem = [FirstMem(s) EXCEPT !.lists[b] = <<fmtlist_init(va)>>]
<1> DEFINE s0 == [s EXCEPT !.mem = phy_alloc_page(@)]
           s1 == VirAlloc(s0, 1)
           va == AllocVa(s.chain, break_, 1)
           m1 == set_mapping(s1.mem, va, NewFrame(s.mem))
           new == FirstPage(s, b)
           list == <<fmtlist_init(va)>>
           m2 == [m1 EXCEPT !.lists[b] = list]
<1>1. s \in StateType /\ s.mem \in MemType /\ s.chain \in Seq(AreaType)
  BY StateIs DEF Sound
<1>2. 1 \in Amount /\ va \in Addr
  BY <1>1, Sizes, VaIs
<1>3. /\ s0.mem = phy_alloc_page(s.mem) /\ Sound(s0) /\ s0.chain = s.chain /\ s0.harm = s.harm
      /\ NewFrame(s.mem) \in Frame
  <2> DEFINE m0 == phy_alloc_page(s.mem)
  <2>1. m0 \in MemType /\ NewFrame(s.mem) \in Frame
    BY <1>1, FrameIs
  <2>2. s0 = [s EXCEPT !.mem = m0]
    BY DEF StateType
  <2> HIDE DEF m0, s0
  <2>3. QED
    BY <2>1, <2>2, MemSound DEF m0
<1> HIDE DEF s0
<1>4. Sound(s1) /\ s1.mem \in MemType /\ s1 \in StateType
  <2>1. Sound(s1)
    BY <1>2, <1>3, VirAllocSound
  <2> HIDE DEF s1
  <2>2. QED
    BY <2>1, StateIs DEF Sound
<1>5. new = [s1 EXCEPT !.mem = [m1 EXCEPT !.lists[b] = <<fmtlist_init(va)>>]] /\ m1 = FirstMem(s)
  BY Zenon DEF FirstPage, s0, FirstMem
<1> HIDE DEF s1, va
<1>6. /\ m1 \in MemType /\ m1.lists = s1.mem.lists /\ m1.virmm = s1.mem.virmm
      /\ m1.halt = "no" => s1.mem.halt = "no"
  BY <1>2, <1>3, <1>4, AddrIs, MappingIs
<1> HIDE DEF m1
<1>7. list \in Seq(PageType)
  BY <1>2, InitIs
<1>8. m2 \in MemType
  <2>1. b \in List
    BY DEF List
  <2> HIDE DEF list
  <2>2. QED
    BY <1>6, <1>7, <2>1, ListChanged
<1>9. new = [s1 EXCEPT !.mem = m2]
  BY <1>5
<1> HIDE DEF m2, new
<1>10. Sound(new) /\ new.mem = m2 /\ new.chain = s1.chain /\ new.harm = s1.harm
  BY <1>4, <1>8, <1>9, MemSound
<1>11. QED
  BY <1>2, <1>3, <1>4, <1>5, <1>6, <1>7, <1>10 DEF new, m2, m1, va, s1, s0

\* AllocChunk keeps the areas in order, and what it returns is a chunk.
LEMMA AllocChunkSound ==
  ASSUME NEW s, Sound(s), NEW b \in Bucket
  PROVE  /\ Sound(WithPage(s, b)) /\ Sound(AllocChunk(s, b))
         /\ NextChunk(WithPage(s, b).mem, b) \in ChunkType
         /\ AllocChunk(s, b).mem = fmtlist_alloc(WithPage(s, b).mem, b)
         /\ AllocChunk(s, b).chain = WithPage(s, b).chain
         /\ AllocChunk(s, b).harm = WithPage(s, b).harm
<1> DEFINE s1 == WithPage(s, b)
           m  == fmtlist_alloc(s1.mem, b)
<1>1. Sound(s1)
  BY FirstPageIs DEF WithPage
<1>2. AllocChunk(s, b) = [s1 EXCEPT !.mem = fmtlist_alloc(@, b)]
  BY Zenon DEF AllocChunk
<1> HIDE DEF s1
<1>3. s1.mem \in MemType /\ b \in List /\ s1 \in StateType
  BY <1>1, StateIs DEF Sound, List
<1>4. m \in MemType /\ NextChunk(s1.mem, b) \in ChunkType
  BY <1>3, AllocChunkIs
<1>5. [s1 EXCEPT !.mem = fmtlist_alloc(@, b)] = [s1 EXCEPT !.mem = m]
  BY <1>3 DEF StateType
<1> HIDE DEF m
<1>6. QED
  BY <1>1, <1>2, <1>4, <1>5, MemSound DEF m, s1

\* AllocPages keeps the areas in order.
LEMMA AllocPagesSound ==
  ASSUME NEW s, Sound(s), NEW len \in Amount
  PROVE  LET s1  == VirAlloc(s, len)
             va  == AllocVa(s.chain, break_, len)
             new == AllocPages(s, len)
         IN  /\ Sound(new) /\ Sound(s1) /\ va \in Addr
             /\ new.chain = s1.chain /\ new.harm = s1.harm
             /\ new.mem \in MemType
             /\ new.mem.lists = s1.mem.lists /\ new.mem.virmm = s1.mem.virmm
             /\ new.mem.halt = "no" => s1.mem.halt = "no"
<1> DEFINE s1 == VirAlloc(s, len)
           va == AllocVa(s.chain, break_, len)
           m  == MapPages(s1.mem, va, len)
<1>1. s \in StateType /\ s.chain \in Seq(AreaType)
  BY StateIs DEF Sound
<1>2. va \in Addr /\ va \in Nat /\ len \in Nat
  BY <1>1, VaIs, AddrIs, AmountIs
<1>3. Sound(s1)
  BY VirAllocSound
<1>4. AllocPages(s, len) = [s1 EXCEPT !.mem = MapPages(@, va, len)]
  BY Zenon DEF AllocPages
<1> HIDE DEF s1, va
<1>5. s1.mem \in MemType /\ s1 \in StateType
  BY <1>3, StateIs DEF Sound
<1>6. /\ m \in MemType /\ m.lists = s1.mem.lists /\ m.virmm = s1.mem.virmm
      /\ m.halt = "no" => s1.mem.halt = "no"
  BY <1>2, <1>5, MapPagesIs
<1>7. [s1 EXCEPT !.mem = MapPages(@, va, len)] = [s1 EXCEPT !.mem = m]
  BY <1>5 DEF StateType
<1> HIDE DEF m
<1> DEFINE n == [s1 EXCEPT !.mem = m]
<1>8. Sound(n) /\ n.mem = m /\ n.chain = s1.chain /\ n.harm = s1.harm
  BY <1>3, <1>6, MemSound
<1> HIDE DEF n
<1>9. AllocPages(s, len) = n
  BY <1>4, <1>7 DEF n
<1>10. /\ Sound(n) /\ Sound(s1) /\ va \in Addr
       /\ n.chain = s1.chain /\ n.harm = s1.harm
       /\ n.mem \in MemType
       /\ n.mem.lists = s1.mem.lists /\ n.mem.virmm = s1.mem.virmm
       /\ n.mem.halt = "no" => s1.mem.halt = "no"
  BY <1>2, <1>3, <1>6, <1>8
<1>11. QED
  BY <1>9, <1>10 DEF s1, va

\* The state when the chain_ of a bucket has been made null.
Lost(s, b, ptr) ==
  [[s EXCEPT !.mem = fmtlist_release(@, b, ptr)] EXCEPT
     !.mem.lists[b] = <<>>, !.harm = @ \cup Loses(s, b)]

\* FreeChunk, by what is left of the bucket, keeps the areas in order.
LEMMA FreeChunkSound ==
  ASSUME NEW s, Sound(s), NEW b \in Bucket, NEW ptr \in ChunkType, NEW junk \in Addr,
         NEW equal \in BOOLEAN
  PROVE  LET m    == fmtlist_release(s.mem, b, ptr)
             s1   == [s EXCEPT !.mem = m]
             lost == Lost(s, b, ptr)
             list == m.lists[b]
             new  == FreeChunk(s, b, ptr, junk, equal)
         IN  /\ m \in MemType /\ Sound(s1) /\ Sound(new)
             /\ s1.mem = m /\ s1.chain = s.chain /\ s1.harm = s.harm
             /\ Sound(lost) /\ lost.chain = s.chain /\ lost.harm = s.harm \cup Loses(s, b)
             /\ lost.mem = [m EXCEPT !.lists[b] = <<>>]
             /\ list = <<>> /\ equal => new = Fail(lost, "bug")
             /\ list = <<>> /\ ~equal => new = lost
             /\ list # <<>> /\ Len(Head(list).free) = CAPACITY => new = VirRelease(lost, ptr[1], junk)
             /\ list # <<>> /\ Len(Head(list).free) # CAPACITY => new = s1
<1> DEFINE m    == fmtlist_release(s.mem, b, ptr)
           s1   == [s EXCEPT !.mem = m]
           lost == Lost(s, b, ptr)
           list == m.lists[b]
           new  == FreeChunk(s, b, ptr, junk, equal)
           none == <<>>
           m2   == [m EXCEPT !.lists[b] = none]
           s2   == [s1 EXCEPT !.mem = m2]
           harms == s.harm \cup Loses(s, b)
<1>1. s \in StateType /\ s.mem \in MemType /\ b \in List
  BY StateIs DEF Sound, List
<1>2. m \in MemType
  BY <1>1, ReleaseChunkIs
<1> HIDE DEF m
<1>3. Sound(s1) /\ s1.mem = m /\ s1.chain = s.chain /\ s1.harm = s.harm
  BY <1>2, MemSound
<1>4. [s EXCEPT !.mem = fmtlist_release(@, b, ptr)] = s1
  BY <1>1 DEF StateType, m
<1> HIDE DEF s1
<1>5. s1 \in StateType /\ s.harm \in SUBSET {"dropped", "junk", "lost", "stale"}
  BY <1>1, <1>3 DEF Sound, StateType
<1>6. m2 \in MemType
  <2>1. none \in Seq(PageType)
    OBVIOUS
  <2> HIDE DEF none
  <2>2. QED
    BY <1>1, <1>2, <2>1, ListChanged
<1>7. lost = [s2 EXCEPT !.harm = harms]
  <2>1. lost = [s1 EXCEPT !.mem.lists[b] = none, !.harm = @ \cup Loses(s, b)]
    BY <1>4 DEF Lost
  <2> HIDE DEF lost, none
  <2>2. QED
    BY <1>3, <1>5, <2>1 DEF StateType
<1>8. Sound(s2) /\ s2.mem = m2 /\ s2.chain = s.chain /\ s2.harm = s.harm
  <2> HIDE DEF m2
  <2>1. QED
    BY <1>3, <1>6, MemSound
<1>9. /\ Sound(lost) /\ lost.mem = m2 /\ lost.chain = s.chain /\ lost.harm = harms
  <2> HIDE DEF s2, lost, m2
  <2>1. harms \in SUBSET {"dropped", "junk", "lost", "stale"}
    BY <1>5 DEF Loses
  <2>2. s2 \in StateType /\ (Whole(s2) => InOrder(s2.chain)) /\ Loses(s, b) \subseteq {"lost"}
    BY <1>8 DEF Sound, Loses
  <2> HIDE DEF harms
  <2>3. /\ lost \in StateType /\ lost.mem = s2.mem /\ lost.chain = s2.chain /\ lost.harm = harms
    BY <1>7, <2>1, <2>2 DEF StateType
  <2>4. Whole(lost) => Whole(s2)
    BY <1>8, <2>2, <2>3 DEF Whole, harms
  <2>5. QED
    BY <1>8, <2>2, <2>3, <2>4 DEF Sound
<1>10. new = IF list = <<>> THEN IF equal THEN Fail(lost, "bug") ELSE lost
             ELSE IF Len(Head(list).free) = CAPACITY THEN VirRelease(lost, ptr[1], junk)
             ELSE s1
  <2> DEFINE t1    == [s EXCEPT !.mem = fmtlist_release(@, b, ptr)]
             l1    == t1.mem.lists[b]
             lost1 == [t1 EXCEPT !.mem.lists[b] = <<>>, !.harm = @ \cup Loses(s, b)]
  <2>1. new = IF l1 = <<>> THEN IF equal THEN Fail(lost1, "bug") ELSE lost1
              ELSE IF Len(Head(l1).free) = CAPACITY THEN VirRelease(lost1, ptr[1], junk)
              ELSE t1
    BY Zenon DEF FreeChunk
  <2>2. lost1 = lost
    BY Zenon DEF Lost
  <2>3. t1 = s1
    BY <1>4
  <2>4. l1 = list
    BY <1>3, <2>3
  <2> HIDE DEF new, lost, lost1, t1, l1, list
  <2>5. QED
    BY <2>1, <2>2, <2>3, <2>4
<1> HIDE DEF lost, list
<1>11. Sound(new)
  <2>1. Sound(Fail(lost, "bug")) /\ Sound(VirRelease(lost, ptr[1], junk))
    BY <1>9, FailSound, VirReleaseSound
  <2>2. QED
    BY <1>3, <1>9, <1>10, <2>1
<1> HIDE DEF new
<1>12. QED
  BY <1>2, <1>3, <1>9, <1>10, <1>11 DEF s1, m, m2, harms, lost, list, new
-----------------------------------------------------------------------------
\* Memory as it is at the start, or after a panic.
LEMMA FreshIs ==
  /\ init_memory \in MemType
  /\ \A why \in {"no", "full", "space", "bug"} : [init_memory EXCEPT !.halt = why] \in MemType
<1>1. NoMap \in MapType /\ NoMap \in TableType
  <2>1. NoMap \in [{} -> Frame]
    BY DEF NoMap
  <2>2. {} \in SUBSET Nat /\ {} \in SUBSET (Nat \cup {Abandoned})
    OBVIOUS
  <2>3. QED
    BY <2>1, <2>2 DEF MapType, TableType
<1>2. bitmap_init(FRAMES) \in Bits(FRAMES) /\ bitmap_init(SIZE_BITMAP_VIRMM) \in Bits(SIZE_BITMAP_VIRMM)
  BY Sizes DEF bitmap_init, Bits
<1>3. [l \in List |-> <<>>] \in [List -> Seq(PageType)]
  OBVIOUS
<1> DEFINE lists == [l \in List |-> <<>>]
<1> HIDE DEF lists
<1>4. init_memory =
        [frames |-> bitmap_init(FRAMES), virmm |-> bitmap_init(SIZE_BITMAP_VIRMM),
         pte |-> NoMap, pde |-> NoMap, lists |-> lists, halt |-> "no"]
  BY Zenon DEF init_memory, lists
<1>5. init_memory \in MemType
  BY <1>1, <1>2, <1>3, <1>4 DEF MemType, lists
<1>6. QED
  BY <1>5 DEF MemType

\* A table more leaves the lists.
LEMMA TableIs ==
  ASSUME NEW m \in MemType, NEW t \in Nat \cup {Abandoned}
  PROVE  LET new == [phy_alloc_page(m) EXCEPT !.pde = Mapped(@, t, NewFrame(m))]
         IN  new \in MemType /\ new.lists = m.lists
<1> DEFINE m0 == phy_alloc_page(m)
           map == Mapped(m0.pde, t, NewFrame(m))
           m1 == [m0 EXCEPT !.pde = map]
<1>1. m0 \in MemType /\ NewFrame(m) \in Frame /\ m0.lists = m.lists
  BY FrameIs
<1> HIDE DEF m0
<1>3. m0.pde \in TableType
  BY <1>1 DEF MemType
<1>4. map \in TableType
  BY <1>1, <1>3, MappedIs
<1>5. [m0 EXCEPT !.pde = Mapped(@, t, NewFrame(m))] = m1
  BY <1>1 DEF MemType
<1> HIDE DEF map
<1>6. m1 \in MemType /\ m1.lists = m0.lists
  BY <1>1, <1>4 DEF MemType
<1> HIDE DEF m1
<1>7. QED
  BY <1>1, <1>5, <1>6 DEF m0

\* exec leaves a page table and the frames of the program.
LEMMA LoadedIs ==
  ASSUME NEW m \in {init_memory, Forked}
  PROVE  Loaded(m) \in MemType /\ Loaded(m).lists = init_memory.lists
<1>1. m \in MemType /\ m.lists = init_memory.lists
  <2>1. Forked \in MemType /\ Forked.lists = init_memory.lists
    BY FreshIs, TableIs DEF Forked
  <2>2. QED
    BY <2>1, FreshIs
<1> DEFINE m1 == [phy_alloc_page(m) EXCEPT !.pde = Mapped(@, 0, NewFrame(m))]
<1>2. 0 \in Nat /\ break_ \in Nat
  BY Sizes, AddrIs
<1>3. m1 \in MemType /\ m1.lists = m.lists
  BY <1>1, <1>2, TableIs
<1>4. Loaded(m) = MapPages(m1, 0, break_)
  BY Zenon DEF Loaded
<1> HIDE DEF m1
<1>5. MapPages(m1, 0, break_) \in MemType /\ MapPages(m1, 0, break_).lists = m1.lists
  BY <1>2, <1>3, MapPagesIs
<1>6. QED
  BY <1>1, <1>3, <1>4, <1>5
-----------------------------------------------------------------------------
\* The nodes of all areas.
LEMMA AllNodes ==
  ASSUME NEW areas \in Seq(AreaType)
  PROVE  Nodes(areas) \in Seq(NodeType) /\ Range(Nodes(areas)) = NodesOf(areas)
<1> DEFINE lists == [k \in DOMAIN areas |-> areas[k].list]
<1>1. ASSUME NEW k \in 1..Len(areas) PROVE areas[k].list \in Seq(NodeType)
  <2>1. areas[k] \in AreaType
    OBVIOUS
  <2>2. QED
    BY <2>1 DEF AreaType
<1>2. lists \in Seq(Seq(NodeType))
  BY <1>1
<1>3. Nodes(areas) = FlattenSeq(lists)
  BY Zenon DEF Nodes
<1>4. DOMAIN lists = DOMAIN areas /\ \A k \in DOMAIN areas : lists[k] = areas[k].list
  OBVIOUS
<1> HIDE DEF lists
<1>6. DOMAIN lists = 1..Len(lists)
  BY <1>2
<1>7. {Range(areas[k].list) : k \in DOMAIN areas} = {Range(lists[k]) : k \in 1..Len(lists)}
  BY <1>4, <1>6
<1>8. NodesOf(areas) = UNION {Range(lists[k]) : k \in 1..Len(lists)}
  BY <1>7 DEF NodesOf
<1>5. QED
  BY <1>2, <1>3, <1>8, FlattenIs

\* What no frame and no page table is touched by.
SameFrames(m, new) ==
  /\ new.frames = m.frames /\ new.pte = m.pte /\ new.pde = m.pde
  /\ new.virmm.prev = m.virmm.prev /\ new.virmm.set \subseteq m.virmm.set

\* A chunk that is given back gives back no frame.
LEMMA ReleaseFrames ==
  ASSUME NEW m \in MemType, NEW l \in List, NEW chunk \in ChunkType
  PROVE  SameFrames(m, fmtlist_release(m, l, chunk))
<1> DEFINE k    == PlaceOf(m, l, chunk[1])
           m1   == [m EXCEPT !.lists[l][k].free = <<chunk[2]>> \o @]
           full == Len(m1.lists[l][k].free) = CAPACITY
           new  == fmtlist_release(m, l, chunk)
<1>1. \/ new = m
      \/ new = m1
      \/ new = [vir_release_kern(m1, chunk[1]) EXCEPT !.lists[l] = <<>>]
      \/ new = [m1 EXCEPT !.lists[l] = RemoveAt(@, k)]
  BY Zenon DEF fmtlist_release
<1>2. m1.frames = m.frames /\ m1.pte = m.pte /\ m1.pde = m.pde /\ m1.virmm = m.virmm
  BY DEF MemType
<1>3. SameFrames(m, m) /\ SameFrames(m, m1)
  BY <1>2 DEF SameFrames
<1>4. CASE new = [m1 EXCEPT !.lists[l] = RemoveAt(@, k)]
  <2>1. SameFrames(m, [m1 EXCEPT !.lists[l] = RemoveAt(@, k)])
    BY DEF SameFrames, MemType
  <2>2. QED
    BY <1>4, <2>1
<1>5. CASE new = [vir_release_kern(m1, chunk[1]) EXCEPT !.lists[l] = <<>>]
  <2> DEFINE bits == bitmap_clear(m.virmm, chunk[1] - KERN_METADATA)
             m2   == [m1 EXCEPT !.virmm = bits]
  <2>1. vir_release_kern(m1, chunk[1]) = m2
    BY <1>2 DEF vir_release_kern
  <2>2. bits.prev = m.virmm.prev /\ bits.set \subseteq m.virmm.set
    BY DEF bitmap_clear, MemType, Bits
  <2> HIDE DEF bits
  <2>3. SameFrames(m, [m2 EXCEPT !.lists[l] = <<>>])
    BY <2>2 DEF SameFrames, MemType
  <2> HIDE DEF m2, m1
  <2>4. new = [m2 EXCEPT !.lists[l] = <<>>]
    BY <1>5, <2>1
  <2>5. QED
    BY <2>3, <2>4
<1>6. QED
  BY <1>1, <1>3, <1>4, <1>5

\* Frames of the pages are given back, the page tables stay as they are.
FewerFrames(m, new, pages) ==
  /\ new.pte = m.pte /\ new.pde = m.pde /\ new.frames.set \subseteq m.frames.set
  /\ m.frames.set \ {m.pte[page] : page \in pages} \subseteq new.frames.set

\* The release of a node, its frames first.
LEMMA ReleaseNodeIs ==
  ASSUME NEW m \in MemType, NEW node \in NodeType
  PROVE  /\ ReleaseNode(m, node) \in MemType /\ ReleaseNode(m, node).halt = m.halt
         /\ FewerFrames(m, ReleaseNode(m, node), PagesAt(node.va, node.len))
<1>1. node.meta.node \in ChunkType /\ node.meta.vaddr \in ChunkType
  BY DEF NodeType
<1>2. "node" \in List /\ "vaddr" \in List
  BY DEF List, Metadata
<1> DEFINE pages == PagesAt(node.va, node.len)
           m1 == phy_release_vpages(m, pages)
           m2 == vaddr_release(m1, node.meta.vaddr)
           m3 == node_release(m2, node.meta.node)
<1>3. ReleaseNode(m, node) = m3
  BY Zenon DEF ReleaseNode
<1>4. m1 \in MemType /\ m1.halt = m.halt /\ FewerFrames(m, m1, pages)
  <2>1. FewerFrames(m, m1, pages)
    BY DEF phy_release_vpages, FewerFrames, MemType, Bits
  <2>2. QED
    BY <2>1, FreeFramesIs
<1> HIDE DEF m1
<1>5. m2 \in MemType /\ m2.halt = m1.halt /\ SameFrames(m1, m2)
  BY <1>1, <1>2, <1>4, ReleaseHalt, ReleaseFrames DEF vaddr_release
<1> HIDE DEF m2
<1>6. m3 \in MemType /\ m3.halt = m2.halt /\ SameFrames(m2, m3)
  BY <1>1, <1>2, <1>5, ReleaseHalt, ReleaseFrames DEF node_release
<1> HIDE DEF m3
<1>7. FewerFrames(m, m3, pages)
  BY <1>4, <1>5, <1>6 DEF SameFrames, FewerFrames
<1>8. QED
  BY <1>3, <1>4, <1>5, <1>6, <1>7 DEF m3

\* The pages of the areas' nodes.
PagesOfAreas(areas) == UNION {PagesAt(n.va, n.len) : n \in NodesOf(areas)}

\* release_vspace, node by node.
LEMMA ReleaseVspaceIs ==
  ASSUME NEW m \in MemType, NEW areas \in Seq(AreaType)
  PROVE  /\ release_vspace(m, areas) \in MemType /\ release_vspace(m, areas).halt = m.halt
         /\ FewerFrames(m, release_vspace(m, areas), PagesOfAreas(areas))
<1> DEFINE nodes == Nodes(areas)
           last  == Len(nodes)
           next(x, n) == IF n \in 1..last THEN ReleaseNode(x, nodes[n]) ELSE x
           G == [n \in Nat |-> [x \in MemType |-> next(x, n)]]
           gone == PagesOfAreas(areas)
<1>1. nodes \in Seq(NodeType) /\ Range(nodes) = NodesOf(areas)
  BY AllNodes
<1> HIDE DEF nodes
<1>2. last \in Nat /\ \A n \in 1..last : nodes[n] \in NodeType /\ nodes[n] \in NodesOf(areas)
  BY <1>1 DEF Range
<1>a. ASSUME NEW n \in 1..last, NEW x, NEW y, FewerFrames(x, y, PagesAt(nodes[n].va, nodes[n].len))
      PROVE  FewerFrames(x, y, gone)
  <2>1. PagesAt(nodes[n].va, nodes[n].len) \subseteq gone
    BY <1>2 DEF PagesOfAreas
  <2> HIDE DEF gone
  <2>2. QED
    BY <1>a, <2>1 DEF FewerFrames
<1> HIDE DEF gone
<1>3. release_vspace(m, areas) =
        (CHOOSE rest : rest = [n \in 0..last |-> IF n = 0 THEN m
                                                 ELSE ReleaseNode(rest[n - 1], nodes[n])])[last]
  BY Zenon DEF release_vspace, nodes
<1> HIDE DEF last
<1>4. \A x \in MemType : \A n : next(x, n) \in MemType
  BY <1>2, ReleaseNodeIs
<1>5. G \in [Nat -> [MemType -> MemType]]
  <2> HIDE DEF next
  <2>1. QED
    BY <1>4
<1> HIDE DEF G
<1>6. PICK h \in [0..last -> MemType] : Rounds(h, G, m, last)
  BY <1>2, <1>5, RecursionExists
<1>7. ASSUME NEW n \in 0..last
      PROVE  h[n] = IF n = 0 THEN m ELSE ReleaseNode(h[n - 1], nodes[n])
  <2>1. h[n] = IF n = 0 THEN m ELSE G[n][h[n - 1]]
    BY <1>6 DEF Rounds
  <2>2. CASE n = 0
    BY <2>1, <2>2
  <2>3. CASE n # 0
    <3>1. n \in 1..last /\ n \in Nat /\ n - 1 \in 0..last
      BY <1>2, <2>3
    <3>2. h[n - 1] \in MemType
      BY <1>6, <3>1
    <3>3. G[n][h[n - 1]] = next(h[n - 1], n)
      <4> HIDE DEF next
      <4>1. QED
        BY <3>1, <3>2 DEF G
    <3>4. QED
      BY <2>1, <2>3, <3>1, <3>3
  <2>4. QED
    BY <2>2, <2>3
<1>8. h = [n \in 0..last |-> IF n = 0 THEN m ELSE ReleaseNode(h[n - 1], nodes[n])]
  <2> DEFINE g == [n \in 0..last |-> IF n = 0 THEN m ELSE ReleaseNode(h[n - 1], nodes[n])]
  <2>1. h = [n \in 0..last |-> h[n]] /\ g = [n \in 0..last |-> g[n]]
    OBVIOUS
  <2>2. \A n \in 0..last : g[n] = IF n = 0 THEN m ELSE ReleaseNode(h[n - 1], nodes[n])
    BY Zenon
  <2> HIDE DEF g
  <2>3. \A n \in 0..last : h[n] = g[n]
    BY <1>7, <2>2
  <2>4. QED
    BY <2>1, <2>3 DEF g
<1> DEFINE f == CHOOSE f : f = [n \in 0..last |-> IF n = 0 THEN m
                                                  ELSE ReleaseNode(f[n - 1], nodes[n])]
           P == {n \in 0..last : f[n] \in MemType /\ f[n].halt = m.halt
                              /\ FewerFrames(m, f[n], gone)}
<1>9. f = [n \in 0..last |-> IF n = 0 THEN m ELSE ReleaseNode(f[n - 1], nodes[n])]
  BY <1>8, Zenon
<1>10. release_vspace(m, areas) = f[last]
  BY <1>3, Zenon
<1> HIDE DEF f
<1>11. \A n \in 0..last : f[n] = IF n = 0 THEN m ELSE ReleaseNode(f[n - 1], nodes[n])
  BY <1>9, Zenon
<1>12. 0 \in P /\ \A n \in 1..last : n - 1 \in P => n \in P
  <2>1. 0 \in 0..last
    BY <1>2
  <2>2. 0 \in P
    <3>1. FewerFrames(m, m, gone)
      BY DEF FewerFrames
    <3>2. QED
      BY <1>11, <2>1, <3>1
  <2>3. ASSUME NEW n \in 1..last, n - 1 \in P PROVE n \in P
    <3>1. n \in 0..last /\ n # 0 /\ f[n - 1] \in MemType /\ f[n - 1].halt = m.halt
          /\ FewerFrames(m, f[n - 1], gone)
      BY <1>2, <2>3
    <3>2. f[n] = ReleaseNode(f[n - 1], nodes[n])
      BY <1>11, <3>1
    <3>3. f[n] \in MemType /\ f[n].halt = m.halt
          /\ FewerFrames(f[n - 1], f[n], PagesAt(nodes[n].va, nodes[n].len))
      BY <1>2, <3>1, <3>2, ReleaseNodeIs
    <3>6. FewerFrames(f[n - 1], f[n], gone)
      BY <1>a, <3>3
    <3>4. FewerFrames(m, f[n], gone)
      BY <3>1, <3>6 DEF FewerFrames
    <3>5. QED
      BY <3>1, <3>3, <3>4
  <2>4. QED
    BY <2>2, <2>3
<1>13. last \in P
  <2> HIDE DEF P
  <2>1. 0..last \subseteq P
    BY <1>2, <1>12, UpTo, Zenon
  <2>2. last \in 0..last
    BY <1>2
  <2>3. QED
    BY <2>1, <2>2
<1>14. QED
  BY <1>10, <1>13 DEF gone

\* A part of a map.
LEMMA RestrictIs ==
  ASSUME NEW map, NEW gone
  PROVE  /\ map \in MapType => Restrict(map, DOMAIN map \ gone) \in MapType
         /\ map \in TableType => Restrict(map, DOMAIN map \ gone) \in TableType
<1>1. ASSUME NEW keys, NEW S \in SUBSET keys, map \in [S -> Frame]
      PROVE  /\ Restrict(map, DOMAIN map \ gone) \in [S \ gone -> Frame]
             /\ S \ gone \in SUBSET keys
  BY <1>1 DEF Restrict
<1>2. ASSUME map \in MapType PROVE Restrict(map, DOMAIN map \ gone) \in MapType
  <2>1. PICK S \in SUBSET Nat : map \in [S -> Frame]
    BY <1>2, Zenon DEF MapType
  <2>2. Restrict(map, DOMAIN map \ gone) \in [S \ gone -> Frame] /\ S \ gone \in SUBSET Nat
    BY <1>1, <2>1
  <2>3. QED
    BY <2>2 DEF MapType
<1>3. ASSUME map \in TableType PROVE Restrict(map, DOMAIN map \ gone) \in TableType
  <2>1. PICK S \in SUBSET (Nat \cup {Abandoned}) : map \in [S -> Frame]
    BY <1>3, Zenon DEF TableType
  <2>2. /\ Restrict(map, DOMAIN map \ gone) \in [S \ gone -> Frame]
        /\ S \ gone \in SUBSET (Nat \cup {Abandoned})
    BY <1>1, <2>1
  <2>3. QED
    BY <2>2 DEF TableType
<1>4. QED
  BY <1>2, <1>3

\* exit gives back the buckets, then the page tables and what they name.
LEMMA ClearIs ==
  ASSUME NEW m \in MemType
  PROVE  /\ thread_buckmngr_clear(m) \in MemType /\ thread_buckmngr_clear(m).halt = m.halt
         /\ ReleaseTables(m) \in MemType /\ ReleaseTables(m).halt = m.halt
<1>1. thread_buckmngr_clear(m) \in MemType /\ thread_buckmngr_clear(m).halt = m.halt
  <2> DEFINE lists == [l \in List |-> IF l \in Bucket THEN <<>> ELSE m.lists[l]]
  <2>1. m.lists \in [List -> Seq(PageType)]
    BY DEF MemType
  <2>2. lists \in [List -> Seq(PageType)]
    BY <2>1
  <2>3. thread_buckmngr_clear(m) = [m EXCEPT !.lists = lists]
    BY Zenon DEF thread_buckmngr_clear
  <2> HIDE DEF lists
  <2>4. QED
    BY <2>2, <2>3 DEF MemType
<1>2. ReleaseTables(m) \in MemType /\ ReleaseTables(m).halt = m.halt
  <2> DEFINE gone == {m.pte[page] : page \in UserPages(m)} \cup {m.pde[t] : t \in UserTables(m)}
             bits == [m.frames EXCEPT !.set = @ \ gone]
             pages == UserPages(m)
             tables == UserTables(m)
             pte == Restrict(m.pte, DOMAIN m.pte \ pages)
             pde == Restrict(m.pde, DOMAIN m.pde \ tables)
  <2>1. ReleaseTables(m) = [m EXCEPT !.frames.set = @ \ gone,
                                     !.pte = Restrict(@, DOMAIN @ \ pages),
                                     !.pde = Restrict(@, DOMAIN @ \ tables)]
    BY Zenon DEF ReleaseTables
  <2> HIDE DEF gone, pages, tables
  <2>2. m.frames \in Bits(FRAMES) /\ m.pte \in MapType /\ m.pde \in TableType
    BY DEF MemType
  <2>3. bits \in Bits(FRAMES)
    BY <2>2 DEF Bits
  <2>4. pte \in MapType /\ pde \in TableType
    BY <2>2, RestrictIs
  <2>5. ReleaseTables(m) = [m EXCEPT !.frames = bits, !.pte = pte, !.pde = pde]
    BY <2>1 DEF MemType
  <2> HIDE DEF bits, pte, pde
  <2>6. QED
    BY <2>3, <2>4, <2>5 DEF MemType
<1>3. QED
  BY <1>1, <1>2
-----------------------------------------------------------------------------
HeldType == [ptr : ChunkType, twin : BOOLEAN] \cup [va : Addr, len : Amount, twin : BOOLEAN]

(***************************************************************************)
(* The inductive invariant: every part has its type, and as long as none   *)
(* has been dropped, the areas are in order.                               *)
(***************************************************************************)
HeapInv ==
  /\ Sound(Now) /\ held \in SUBSET HeldType
  /\ phase \in {"runs", "gone"} /\ calls \in 0..MaxCalls

\* The state, as a record.
LEMMA NowIs ==
  /\ Now.mem = mem /\ Now.chain = chain /\ Now.harm = harm
  /\ (Sound(Now) <=> /\ mem \in MemType /\ chain \in Seq(AreaType)
                     /\ harm \in SUBSET {"dropped", "junk", "lost", "stale"}
                     /\ (harm \cap {"dropped", "junk"} = {} => InOrder(chain)))
BY DEF Now, Sound, StateType, Whole

\* The next state, as a record.
LEMMA NextIs ==
  Sound(Now)' <=> /\ mem' \in MemType /\ chain' \in Seq(AreaType)
                  /\ harm' \in SUBSET {"dropped", "junk", "lost", "stale"}
                  /\ (harm' \cap {"dropped", "junk"} = {} => InOrder(chain'))
BY DEF Now, Sound, StateType, Whole

\* The chain without an area is in order.
LEMMA NoAreas == <<>> \in Seq(AreaType) /\ InOrder(<<>>)
<1> DEFINE none == <<>>
<1>1. none \in Seq(AreaType) /\ DOMAIN none = {} /\ Len(none) = 0
  OBVIOUS
<1> HIDE DEF none
<1>2. InOrder(none)
  BY <1>1 DEF InOrder
<1>3. QED
  BY <1>1, <1>2 DEF none

\* What a program holds has its type.
LEMMA HoldIs ==
  /\ \A ptr \in ChunkType : Chunk(ptr) \in HeldType
  /\ \A va \in Addr, len \in Amount : Pages(va, len) \in HeldType
BY DEF Chunk, Pages, HeldType

\* A call that ends in a sound state keeps the invariant.
LEMMA BecomesKeeps ==
  ASSUME HeapInv, Ready, NEW s, Sound(s), NEW hold \in SUBSET HeldType, Becomes(s, hold)
  PROVE  HeapInv'
<1>1. calls \in 0..MaxCalls /\ calls < MaxCalls /\ MaxCalls \in Nat
  BY Sizes DEF HeapInv, Ready
<1>2. calls' \in 0..MaxCalls /\ phase' \in {"runs", "gone"}
  BY <1>1 DEF Becomes, HeapInv
<1>3. held' \in SUBSET HeldType
  BY DEF Becomes
<1>4. /\ s.mem \in MemType /\ s.chain \in Seq(AreaType)
      /\ s.harm \in SUBSET {"dropped", "junk", "lost", "stale"}
      /\ (s.harm \cap {"dropped", "junk"} = {} => InOrder(s.chain))
  BY DEF Sound, StateType, Whole
<1>5. s.mem.halt \in {"no", "full", "space", "bug"}
  BY <1>4 DEF MemType
<1>6. mem' \in MemType
  BY <1>4, <1>5, FreshIs DEF Becomes
<1>7. chain' \in Seq(AreaType) /\ (s.harm \cap {"dropped", "junk"} = {} => InOrder(chain'))
  BY <1>4, NoAreas DEF Becomes
<1>8. harm' = s.harm
  BY DEF Becomes
<1>9. Sound(Now)'
  BY <1>4, <1>6, <1>7, <1>8, NextIs
<1>10. QED
  BY <1>2, <1>3, <1>9 DEF HeapInv

\* It holds when exec has loaded the program.
LEMMA HeapStarts == Init => HeapInv
<1> SUFFICES ASSUME Init PROVE HeapInv
  OBVIOUS
<1>1. mem \in MemType /\ chain \in Seq(AreaType) /\ InOrder(chain)
  <2>1. PICK m \in {init_memory, Forked} : mem = Loaded(m)
    BY DEF Init
  <2>2. QED
    BY <2>1, LoadedIs, NoAreas DEF Init
<1>2. harm \in SUBSET {"dropped", "junk", "lost", "stale"} /\ held \in SUBSET HeldType
  BY DEF Init
<1>3. phase \in {"runs", "gone"} /\ calls \in 0..MaxCalls
  BY Sizes DEF Init
<1>4. QED
  BY <1>1, <1>2, <1>3, NowIs DEF HeapInv

\* Every call keeps it, and exit does.
LEMMA HeapKeeps == HeapInv /\ [Next]_vars => HeapInv'
<1> SUFFICES ASSUME HeapInv, [Next]_vars PROVE HeapInv'
  OBVIOUS
<1>1. Sound(Now) /\ held \in SUBSET HeldType
  BY DEF HeapInv
<1>2. ASSUME NEW b \in Bucket, CallAllocChunk(b) PROVE HeapInv'
  <2> DEFINE ptr == NextChunk(WithPage(Now, b).mem, b)
             s   == AllocChunk(Now, b)
  <2>1. Ready /\ Becomes(s, held \cup {Chunk(ptr)})
    BY <1>2 DEF CallAllocChunk
  <2>2. Sound(s) /\ ptr \in ChunkType
    BY <1>1, AllocChunkSound
  <2> HIDE DEF s, ptr
  <2>3. held \cup {Chunk(ptr)} \in SUBSET HeldType
    BY <1>1, <2>2, HoldIs
  <2>4. QED
    BY <2>1, <2>2, <2>3, BecomesKeeps
<1>3. ASSUME NEW len \in Large, CallAllocPages(len) PROVE HeapInv'
  <2> DEFINE va == AllocVa(chain, break_, len)
             s  == AllocPages(Now, len)
  <2>1. Ready /\ Becomes(s, held \cup {Pages(va, len)})
    BY <1>3 DEF CallAllocPages
  <2>2. len \in Amount
    BY Sizes
  <2>3. Sound(s) /\ va \in Addr
    BY <1>1, <2>2, AllocPagesSound, NowIs
  <2> HIDE DEF s, va
  <2>4. held \cup {Pages(va, len)} \in SUBSET HeldType
    BY <1>1, <2>2, <2>3, HoldIs
  <2>5. QED
    BY <2>1, <2>3, <2>4, BecomesKeeps
<1>4. ASSUME NEW h \in held, CallFreeChunk(h) PROVE HeapInv'
  <2>1. Ready /\ "ptr" \in DOMAIN h
    BY <1>4 DEF CallFreeChunk
  <2>2. h.ptr \in ChunkType
    BY <1>1, <2>1 DEF HeldType
  <2>3. CASE \E b \in Holders(Now, h.ptr), junk \in Junk, equal \in BOOLEAN :
               Becomes(FreeChunk(Now, b, h.ptr, junk, equal), held \ {h})
    <3>1. PICK b \in Bucket, junk \in Junk, equal \in BOOLEAN :
                 Becomes(FreeChunk(Now, b, h.ptr, junk, equal), held \ {h})
      BY <2>3 DEF Holders
    <3> DEFINE s == FreeChunk(Now, b, h.ptr, junk, equal)
    <3>2. junk \in Addr
      BY Sizes
    <3>3. Sound(s)
      BY <1>1, <2>2, <3>2, FreeChunkSound
    <3> HIDE DEF s
    <3>4. QED
      BY <1>1, <2>1, <3>1, <3>3, BecomesKeeps DEF s
  <2>4. CASE Becomes(Fail(Now, "bug"), {})
    <3> DEFINE s == Fail(Now, "bug")
    <3>1. Sound(s)
      BY <1>1, FailSound
    <3> HIDE DEF s
    <3>2. QED
      BY <2>1, <2>4, <3>1, BecomesKeeps DEF s
  <2>5. QED
    BY <1>4, <2>3, <2>4 DEF CallFreeChunk
<1>5. ASSUME NEW h \in held, CallFreePages(h) PROVE HeapInv'
  <2>1. PICK junk \in Junk : Becomes(VirRelease(Now, h.va, junk), held \ {h})
    BY <1>5 DEF CallFreePages
  <2> DEFINE s == VirRelease(Now, h.va, junk)
  <2>2. junk \in Addr
    BY Sizes
  <2>3. Sound(s)
    BY <1>1, <2>2, VirReleaseSound
  <2> HIDE DEF s
  <2>4. Ready
    BY <1>5 DEF CallFreePages
  <2>5. QED
    BY <1>1, <2>1, <2>3, <2>4, BecomesKeeps DEF s
<1>6. CASE Exit
  <2>1. mem \in MemType /\ chain \in Seq(AreaType) /\ harm \in SUBSET {"dropped", "junk", "lost", "stale"}
    BY <1>1, NowIs
  <2> DEFINE m1 == thread_buckmngr_clear(mem)
             m2 == release_vspace(m1, chain)
  <2>2. m1 \in MemType
    BY <2>1, ClearIs
  <2>3. mem' = ReleaseTables(m2)
    BY <1>6 DEF Exit
  <2> HIDE DEF m1
  <2>4. m2 \in MemType
    BY <2>1, <2>2, ReleaseVspaceIs
  <2> HIDE DEF m2
  <2>5. mem' \in MemType
    BY <2>3, <2>4, ClearIs
  <2>6. chain' \in Seq(AreaType) /\ InOrder(chain')
    BY <1>6, NoAreas DEF Exit
  <2>7. Sound(Now)'
    <3>1. harm' \in SUBSET {"dropped", "junk", "lost", "stale"}
      BY <1>6, <2>1 DEF Exit
    <3>2. QED
      BY <2>5, <2>6, <3>1, NextIs
  <2>8. QED
    BY <1>6, <2>7 DEF Exit, HeapInv
<1>7. CASE UNCHANGED vars
  BY <1>7 DEF vars, HeapInv, Now
<1>8. QED
  BY <1>2, <1>3, <1>4, <1>5, <1>6, <1>7 DEF Next

\* So it is an invariant.
THEOREM HeapInvHolds == Spec => []HeapInv
<1>1. Init => HeapInv
  BY HeapStarts
<1>2. HeapInv /\ [Next]_vars => HeapInv'
  BY HeapKeeps
<1>3. QED
  BY <1>1, <1>2, PTL DEF Spec

(***************************************************************************)
(* vir_alloc_pages and vir_release_pages keep the areas apart and in       *)
(* order, for any sizes of the space and of the requests.                  *)
(***************************************************************************)
THEOREM AreasStayInOrder == Spec => []AreasInOrder
<1>1. HeapInv => AreasInOrder
  <2> SUFFICES ASSUME HeapInv, ChainKept PROVE
               /\ \A k \in DOMAIN chain :
                    /\ chain[k].list # <<>> /\ break_ <= chain[k].begin
                    /\ \A i \in DOMAIN chain[k].list : InArea(chain[k], chain[k].list[i])
                    /\ Descends(chain[k].list)
               /\ \A k \in 1..(Len(chain) - 1) : chain[k].end <= chain[k + 1].begin
    BY DEF AreasInOrder
  <2>1. InOrder(chain)
    BY NowIs DEF HeapInv, ChainKept
  <2>2. QED
    BY <2>1 DEF InOrder, AreaOk
<1>2. QED
  BY <1>1, HeapInvHolds, PTL

(***************************************************************************)
(* The bitmaps, page tables and lists of chunks have the type that their   *)
(* operations are written for, whatever the program asks for and frees.    *)
(***************************************************************************)
THEOREM HeapTyped == Spec => []HeapTypeOK
<1>1. HeapInv => HeapTypeOK
  <2> SUFFICES ASSUME HeapInv PROVE HeapTypeOK
    OBVIOUS
  <2>1. /\ mem \in MemType /\ chain \in Seq(AreaType)
        /\ harm \in SUBSET {"dropped", "junk", "lost", "stale"}
    BY NowIs DEF HeapInv
  <2>2. mem.frames.set \subseteq Frame /\ mem.frames.prev \in Frame
    BY <2>1 DEF MemType, Bits, Frame
  <2>3. mem.virmm.set \subseteq 0..(SIZE_BITMAP_VIRMM - 1)
    BY <2>1 DEF MemType, Bits
  <2>4. mem.pte \in MapType /\ mem.pde \in TableType
    BY <2>1 DEF MemType
  <2>5. /\ \A map \in MapType : \A k \in DOMAIN map : k \in Nat /\ map[k] \in Frame
        /\ \A map \in TableType :
             \A k \in DOMAIN map : k \in Nat \cup {Abandoned} /\ map[k] \in Frame
    BY DEF MapType, TableType
  <2>6. /\ \A page \in DOMAIN mem.pte : page \in Nat /\ mem.pte[page] \in Frame
        /\ \A t \in DOMAIN mem.pde : t \in Nat \cup {Abandoned} /\ mem.pde[t] \in Frame
    BY <2>4, <2>5
  <2>7. DOMAIN mem.lists = List /\ \A l \in List : mem.lists[l] \in PageList
    <3>1. mem.lists \in [List -> Seq(PageType)]
      BY <2>1 DEF MemType
    <3>2. PageType \subseteq [va : Nat, free : Seq(1..CAPACITY)]
      BY AddrIs DEF PageType
    <3>3. \A list \in Seq(PageType) : list \in PageList
      BY <3>2, SeqMonotonic DEF PageList
    <3>4. QED
      BY <3>1, <3>3
  <2>8. mem.halt \in {"no", "full", "space", "bug"}
    BY <2>1 DEF MemType
  <2>9. \A k \in DOMAIN chain : chain[k].begin \in Nat /\ chain[k].end \in Nat
    <3>1. \A k \in DOMAIN chain : chain[k] \in AreaType
      BY <2>1
    <3>2. QED
      BY <3>1, AddrIs DEF AreaType
  <2>10. QED
    BY <2>1, <2>2, <2>3, <2>6, <2>7, <2>8, <2>9 DEF HeapTypeOK, HeapInv
<1>2. QED
  BY <1>1, HeapInvHolds, PTL
=============================================================================
