------------------------------- MODULE Bitmap --------------------------------
(***************************************************************************)
(* utilities/bitmap.c: a map of bits and the position of the next scan.    *)
(***************************************************************************)
EXTENDS Integers

\* The first clear bit at prev or, round the end of the map, behind it.
bitmap_scan_empty(bits, map, prev) ==
  LET distance(bit) == (bit - prev) % bits
  IN  CHOOSE bit \in (0..(bits - 1)) \ map :
        \A other \in (0..(bits - 1)) \ map : distance(bit) <= distance(other)

\* bitmap_init: nothing is set.
bitmap_init(bits) == [bits |-> bits, set |-> {}, prev |-> 0]

\* The scan of an empty map, or of one with no clear bit, is a panic.
Exhausted(map) == 0..(map.bits - 1) \subseteq map.set

FirstFree(map) == bitmap_scan_empty(map.bits, map.set, map.prev)

\* A slip: the position does not wrap round.
Scanned_NoWrap(map) == [map EXCEPT !.prev = FirstFree(map) + 1]

\* A slip: every scan begins at the same bit.
Scanned_Stays(map) == map

\* The next scan goes on behind the bit that this one found.
Scanned(map) == [map EXCEPT !.prev = (FirstFree(map) + 1) % map.bits]

bitmap_set(map, bit) == [map EXCEPT !.set = @ \cup {bit}]

bitmap_clear(map, bit) == [map EXCEPT !.set = @ \ {bit}]
=============================================================================
