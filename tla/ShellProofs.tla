----------------------------- MODULE ShellProofs -----------------------------
(***************************************************************************)
(* Proofs about Keyboard, for any buffer capacity, keys and readers: the   *)
(* type invariant and the lock of the buffer; and, for one reader, that    *)
(* what is taken is the oldest character.                                  *)
(*                                                                         *)
(* Proofs about Shell: it uses the keyboard path as Keyboard says, so what *)
(* is proved there holds under it; and the command it collects stays       *)
(* within MAX_CMD_LEN characters.                                          *)
(***************************************************************************)
EXTENDS Shell, SequenceTheorems, TLAPS

\* An index that wraps stays an index of the buffer.
LEMMA WrapInSlot ==
  ASSUME NEW i \in Nat
  PROVE  i % capacity_ \in Slot
BY KeyboardAssumption DEF Slot

\* The type invariant holds at boot.
LEMMA KInitType == KInit => KTypeOK
<1>1. 0 \in Slot
  BY KeyboardAssumption DEF Slot
<1>2. QED
  BY <1>1 DEF KInit, KTypeOK, Labels

\* A scan code yields a character.
LEMMA ResultType ==
  ASSUME KTypeOK, NEW k \in Key
  PROVE  result(k) \in Char
BY DEF KTypeOK, result, Char

\* Every key and every step of a reader keeps the types.
LEMMA KNextType == KTypeOK /\ [KNext]_kvars => KTypeOK'
<1> SUFFICES ASSUME KTypeOK, [KNext]_kvars PROVE KTypeOK'
  OBVIOUS
<1> USE DEF KTypeOK
<1>0. head_ \in Nat /\ tail_ \in Nat
  BY DEF Slot
<1>1. CASE ShiftKey
  BY <1>1 DEF ShiftKey, ring
<1>2. CASE CapsLock
  BY <1>2 DEF CapsLock, ring
<1>3. ASSUME NEW k \in Key, CharKey(k) PROVE KTypeOK'
  <2>1. head_' \in Slot
    BY <1>0, <1>3, WrapInSlot DEF CharKey
  <2>2. buff_' \in [Slot -> Char \cup {None}]
    BY <1>3, ResultType DEF CharKey
  <2>3. pc' \in [Reader -> Labels]
    BY <1>3 DEF CharKey, wakeup, Labels
  <2>4. QED
    BY <1>3, <2>1, <2>2, <2>3 DEF CharKey, flags
<1>4. ASSUME NEW t \in Reader, CallGet(t) \/ cclbuff_get(t) PROVE KTypeOK'
  <2>0. USE DEF Step, flags, ring, Labels
  <2>1. CASE CallGet(t)
    BY <2>1 DEF CallGet
  <2>2. CASE Check(t)
    BY <2>2 DEF Check
  <2>3. CASE Wait(t)
    BY <2>3 DEF Wait
  <2>4. CASE Sleep(t) \/ Signal(t)
    BY <2>4 DEF Sleep, Signal
  <2>5. CASE SleepAgain(t) \/ Resume(t)
    BY <2>5 DEF SleepAgain, Resume
  <2>6. CASE Read(t)
    BY <2>6 DEF Read
  <2>7. CASE Advance(t)
    <3>1. tail_' \in Slot
      BY <1>0, <2>7, WrapInSlot DEF Advance
    <3>2. QED
      BY <2>7, <3>1 DEF Advance
  <2>8. QED
    BY <1>4, <2>1, <2>2, <2>3, <2>4, <2>5, <2>6, <2>7 DEF cclbuff_get
<1>5. CASE UNCHANGED kvars
  BY <1>5 DEF kvars, flags, ring
<1>6. QED
  BY <1>1, <1>2, <1>3, <1>4, <1>5 DEF KNext, ps2_intr

(***************************************************************************)
(* The indexes of the buffer stay within it, whatever its capacity, and    *)
(* every field of kb_buff and every reader has its type.                   *)
(***************************************************************************)
THEOREM KTypeCorrect == KSpec => []KTypeOK
BY KInitType, KNextType, PTL DEF KSpec

\* Every step leaves the lock with the reader between its wait and its signal.
LEMMA KNextOwner == KTypeOK /\ SlockOwner /\ [KNext]_kvars => SlockOwner'
<1> SUFFICES ASSUME KTypeOK, SlockOwner, [KNext]_kvars PROVE SlockOwner'
  OBVIOUS
<1> USE KeyboardAssumption DEF SlockOwner, Holding
<1>0. pc \in [Reader -> Labels]
  BY DEF KTypeOK
<1>1. CASE ps2_intr
  BY <1>0, <1>1 DEF ps2_intr, ShiftKey, CapsLock, CharKey, wakeup
<1>2. ASSUME NEW t \in Reader, CallGet(t) \/ cclbuff_get(t) PROVE SlockOwner'
  <2>0. USE DEF Step
  <2>1. CASE Wait(t)
    BY <1>0, <2>1 DEF Wait
  <2>2. CASE Sleep(t) \/ Signal(t)
    BY <1>0, <2>2 DEF Sleep, Signal
  <2>3. CASE CallGet(t) \/ Check(t) \/ SleepAgain(t) \/ Resume(t) \/ Read(t) \/ Advance(t)
    BY <1>0, <2>3 DEF CallGet, Check, SleepAgain, Resume, Read, Advance
  <2>4. QED
    BY <1>2, <2>1, <2>2, <2>3 DEF cclbuff_get
<1>3. CASE UNCHANGED kvars
  BY <1>3 DEF kvars
<1>4. QED
  BY <1>1, <1>2, <1>3 DEF KNext

(***************************************************************************)
(* A reader holds slock_ of the buffer exactly between wait and signal,    *)
(* and no reader sleeps with it, for any number of readers.                *)
(***************************************************************************)
THEOREM KSlockOwner == KSpec => []SlockOwner
<1>1. KInit => SlockOwner
  BY KeyboardAssumption DEF KInit, SlockOwner, Holding
<1>2. QED
  BY <1>1, KTypeCorrect, KNextOwner, PTL DEF KSpec

\* The inductive form: a woken reader, too, finds a character.
OldestInv ==
  /\ KTypeOK
  /\ TakesOldest
  /\ \A t \in Reader : pc[t] = "woken" => ~isempty

\* A key never takes the last slot, so the buffer is not empty behind it.
LEMMA CharKeyOldest ==
  ASSUME OldestInv, NEW k \in Key, CharKey(k)
  PROVE  /\ ~isempty'
         /\ ~isempty => buff_'[tail_'] = buff_[tail_]
BY DEF OldestInv, KTypeOK, CharKey, isempty, isfull

\* With one reader, every step keeps the inductive form.
LEMMA OldestNext ==
  ASSUME NEW r, Reader = {r}
  PROVE  OldestInv /\ [KNext]_kvars => OldestInv'
<1> SUFFICES ASSUME OldestInv, [KNext]_kvars PROVE OldestInv'
  OBVIOUS
<1>0. KTypeOK' /\ pc \in [Reader -> Labels] /\ ch \in [Reader -> Char \cup {None}]
  BY KNextType DEF OldestInv, KTypeOK
<1> USE DEF OldestInv, TakesOldest, Step
<1>1. CASE ShiftKey \/ CapsLock
  BY <1>0, <1>1 DEF ShiftKey, CapsLock, ring, isempty
<1>2. ASSUME NEW k \in Key, CharKey(k) PROVE OldestInv'
  BY <1>0, <1>2, CharKeyOldest DEF CharKey, wakeup
<1>3. ASSUME CallGet(r) \/ cclbuff_get(r) PROVE OldestInv'
  <2>1. CASE Advance(r)
    BY <1>0, <2>1 DEF Advance
  <2>2. CASE Check(r)
    BY <1>0, <2>2 DEF Check, ring, isempty
  <2>3. CASE Read(r)
    BY <1>0, <2>3 DEF Read, ring, isempty
  <2>4. CASE CallGet(r) \/ Wait(r) \/ Sleep(r) \/ SleepAgain(r) \/ Resume(r) \/ Signal(r)
    BY <1>0, <2>4 DEF CallGet, Wait, Sleep, SleepAgain, Resume, Signal, ring, isempty
  <2>5. QED
    BY <1>3, <2>1, <2>2, <2>3, <2>4 DEF cclbuff_get
<1>4. CASE UNCHANGED kvars
  BY <1>0, <1>4 DEF kvars, ring, isempty
<1>5. QED
  BY <1>1, <1>2, <1>3, <1>4 DEF KNext, ps2_intr

(***************************************************************************)
(* One reader always takes the oldest character of the buffer, however the *)
(* keys interleave with its check, its sleep and its read.                 *)
(***************************************************************************)
THEOREM OneReaderTakesOldest ==
  ASSUME NEW r, Reader = {r}
  PROVE  KSpec => []TakesOldest
<1>1. KInit => OldestInv
  BY KInitType DEF KInit, OldestInv, TakesOldest
<1>2. OldestInv /\ [KNext]_kvars => OldestInv'
  BY OldestNext
<1>3. OldestInv => TakesOldest
  BY DEF OldestInv
<1>4. QED
  BY <1>1, <1>2, <1>3, PTL DEF KSpec
-----------------------------------------------------------------------------
\* The remainder of a number below twice the capacity.
LEMMA WrapOnce ==
  ASSUME NEW x \in Nat, x < 2 * capacity_
  PROVE  x % capacity_ = IF x < capacity_ THEN x ELSE x - capacity_
<1>0. capacity_ \in Nat \ {0, 1}
  BY KeyboardAssumption
<1>1. CASE x < capacity_
  BY <1>0, <1>1
<1>2. CASE x >= capacity_
  <2>1. x = 1 * capacity_ + (x - capacity_) /\ x - capacity_ \in 0..(capacity_ - 1)
    BY <1>0, <1>2
  <2>2. QED
    BY <1>0, <1>2, <2>1
<1>3. QED
  BY <1>0, <1>1, <1>2

\* How many slots lie between two indexes, without the remainder.
LEMMA CountIs ==
  ASSUME NEW h \in Slot, NEW q \in Slot
  PROVE  /\ (h + capacity_ - q) % capacity_ = IF h >= q THEN h - q ELSE h + capacity_ - q
         /\ (h + capacity_ - q) % capacity_ \in 0..(capacity_ - 1)
<1>0. capacity_ \in Nat \ {0, 1}
  BY KeyboardAssumption
<1>1. h + capacity_ - q \in Nat /\ h + capacity_ - q < 2 * capacity_
  BY <1>0 DEF Slot
<1>2. QED
  BY <1>0, <1>1, WrapOnce DEF Slot

\* The slot of the i-th character of a buffer whose tail_ is q.
Place(q, i) == (q + i - 1) % capacity_

\* The i-th slot from an index, without the remainder.
LEMMA PlaceIs ==
  ASSUME NEW q \in Slot, NEW i \in 1..capacity_
  PROVE  /\ Place(q, i) = IF q + i - 1 < capacity_ THEN q + i - 1
                          ELSE q + i - 1 - capacity_
         /\ Place(q, i) \in Slot
<1>0. capacity_ \in Nat \ {0, 1}
  BY KeyboardAssumption
<1>1. q + i - 1 \in Nat /\ q + i - 1 < 2 * capacity_
  BY <1>0 DEF Slot
<1>2. QED
  BY <1>0, <1>1, WrapOnce DEF Slot, Place

\* The content of the buffer is a sequence of its length.
LEMMA ContentsIs ==
  ASSUME KTypeOK
  PROVE  /\ Contents \in Seq(Char \cup {None})
         /\ Len(Contents) = Count
         /\ \A i \in 1..Count : Contents[i] = buff_[Place(tail_, i)]
<1>0. capacity_ \in Nat \ {0, 1} /\ Count \in 0..(capacity_ - 1)
  BY KeyboardAssumption, CountIs DEF KTypeOK, Count
<1>1. \A i \in 1..Count : buff_[Place(tail_, i)] \in Char \cup {None}
  <2>1. \A i \in 1..Count : Place(tail_, i) \in Slot
    BY <1>0, PlaceIs DEF KTypeOK, Place
  <2>2. QED
    BY <2>1 DEF KTypeOK
<1>2. Contents = [i \in 1..Count |-> buff_[Place(tail_, i)]]
  BY DEF Contents, Place
<1>3. QED
  BY <1>0, <1>1, <1>2

\* A key appends its character, and there was room.
LEMMA PutStep ==
  ASSUME KTypeOK, KTypeOK', NEW k \in Key, CharKey(k)
  PROVE  Len(Contents) < capacity_ - 1 /\ Contents' = Append(Contents, result(k))
<1>0. /\ capacity_ \in Nat \ {0, 1} /\ head_ \in Slot /\ tail_ \in Slot
      /\ Count \in 0..(capacity_ - 1) /\ Count' \in 0..(capacity_ - 1)
      /\ head_' \in Slot /\ tail_' \in Slot
      /\ head_ + 1 \in Nat /\ head_ + 1 < 2 * capacity_
  <2>1. /\ capacity_ \in Nat \ {0, 1} /\ head_ \in Slot /\ tail_ \in Slot
        /\ head_' \in Slot /\ tail_' \in Slot
    BY KeyboardAssumption DEF KTypeOK
  <2>2. Count \in 0..(capacity_ - 1) /\ Count' \in 0..(capacity_ - 1)
    BY <2>1, CountIs DEF Count
  <2>3. QED
    BY <2>1, <2>2 DEF Slot
<1>1. head_' = IF head_ + 1 < capacity_ THEN head_ + 1 ELSE head_ + 1 - capacity_
  BY <1>0, WrapOnce DEF CharKey
<1>2. head_' # tail_ /\ tail_' = tail_
  BY <1>0, <1>1 DEF CharKey, isfull
<1>3. Count' = Count + 1
  <2>1. Count = IF head_ >= tail_ THEN head_ - tail_ ELSE head_ + capacity_ - tail_
    BY <1>0, CountIs DEF Count
  <2>2. Count' = IF head_' >= tail_' THEN head_' - tail_' ELSE head_' + capacity_ - tail_'
    BY <1>0, CountIs DEF Count
  <2>3. QED
    BY <1>0, <1>1, <1>2, <2>1, <2>2 DEF Slot
<1>4. Place(tail_, Count + 1) = head_
  BY <1>0, <1>3, CountIs, PlaceIs DEF Slot, Count, Place
<1>5. \A i \in 1..Count : Place(tail_, i) # head_
  BY <1>0, CountIs, PlaceIs DEF Slot, Count, Place
<1>6. \A i \in 1..Count : Place(tail_', i) = Place(tail_, i) /\ Place(tail_, i) \in Slot
  BY <1>0, <1>2, PlaceIs DEF Place
<1>7. Place(tail_', Count + 1) = head_
  BY <1>2, <1>3, <1>4 DEF Place
<1>8. buff_' = [buff_ EXCEPT ![head_] = result(k)] /\ buff_ \in [Slot -> Char \cup {None}]
  BY DEF CharKey, KTypeOK
<1>9. /\ Contents' = [i \in 1..(Count + 1) |-> buff_'[Place(tail_', i)]]
      /\ Contents = [i \in 1..Count |-> buff_[Place(tail_, i)]]
  BY <1>3 DEF Contents, Place
<1>10. \A i \in 1..Count : buff_'[Place(tail_', i)] = buff_[Place(tail_, i)]
  BY <1>5, <1>6, <1>8
<1>11. buff_'[Place(tail_', Count + 1)] = result(k)
  BY <1>0, <1>7, <1>8
<1>12. Contents' = Append(Contents, result(k))
  BY <1>0, <1>9, <1>10, <1>11, ContentsIs, ResultType
<1>13. QED
  BY <1>0, <1>3, <1>12, ContentsIs

\* A reader that moves tail_ takes the first character away.
LEMMA GetStep ==
  ASSUME KTypeOK, KTypeOK', ~isempty, NEW t \in Reader, Advance(t)
  PROVE  Contents # <<>> /\ Contents' = Tail(Contents)
<1>0. /\ capacity_ \in Nat \ {0, 1} /\ head_ \in Slot /\ tail_ \in Slot
      /\ Count \in 0..(capacity_ - 1) /\ Count' \in 0..(capacity_ - 1)
      /\ head_' \in Slot /\ tail_' \in Slot
      /\ tail_ + 1 \in Nat /\ tail_ + 1 < 2 * capacity_
  <2>1. /\ capacity_ \in Nat \ {0, 1} /\ head_ \in Slot /\ tail_ \in Slot
        /\ head_' \in Slot /\ tail_' \in Slot
    BY KeyboardAssumption DEF KTypeOK
  <2>2. Count \in 0..(capacity_ - 1) /\ Count' \in 0..(capacity_ - 1)
    BY <2>1, CountIs DEF Count
  <2>3. QED
    BY <2>1, <2>2 DEF Slot
<1>1. tail_' = IF tail_ + 1 < capacity_ THEN tail_ + 1 ELSE tail_ + 1 - capacity_
  BY <1>0, WrapOnce DEF Advance
<1>2. head_' = head_ /\ buff_' = buff_ /\ head_ # tail_
  BY DEF Advance, isempty
<1>3. Count' = Count - 1 /\ Count > 0
  <2>1. Count = IF head_ >= tail_ THEN head_ - tail_ ELSE head_ + capacity_ - tail_
    BY <1>0, CountIs DEF Count
  <2>2. Count' = IF head_' >= tail_' THEN head_' - tail_' ELSE head_' + capacity_ - tail_'
    BY <1>0, CountIs DEF Count
  <2>3. QED
    BY <1>0, <1>1, <1>2, <2>1, <2>2 DEF Slot
<1>4. \A i \in 1..(Count - 1) : Place(tail_', i) = Place(tail_, i + 1)
  <2> SUFFICES ASSUME NEW i \in 1..(Count - 1)
               PROVE  Place(tail_', i) = Place(tail_, i + 1)
    OBVIOUS
  <2>1. i \in 1..capacity_ /\ i + 1 \in 1..capacity_
    BY <1>0, <1>3
  <2>2. Place(tail_', i) = IF tail_' + i - 1 < capacity_ THEN tail_' + i - 1
                           ELSE tail_' + i - 1 - capacity_
    BY <1>0, <2>1, PlaceIs
  <2>3. Place(tail_, i + 1) = IF tail_ + i < capacity_ THEN tail_ + i
                              ELSE tail_ + i - capacity_
    BY <1>0, <2>1, PlaceIs DEF Slot
  <2>4. QED
    BY <1>0, <1>1, <2>1, <2>2, <2>3 DEF Slot
<1>5. Contents' = [i \in 1..(Count - 1) |-> Contents[i + 1]]
  <2>1. Contents' = [i \in 1..(Count - 1) |-> buff_[Place(tail_', i)]]
    BY <1>2, <1>3 DEF Contents, Place
  <2>2. \A i \in 1..(Count - 1) : Contents[i + 1] = buff_[Place(tail_', i)]
    BY <1>0, <1>3, <1>4, ContentsIs
  <2>3. QED
    BY <2>1, <2>2
<1>6. /\ Contents \in Seq(Char \cup {None}) /\ Len(Contents) = Count
      /\ Contents' \in Seq(Char \cup {None}) /\ Len(Contents') = Count - 1
  <2>1. Contents \in Seq(Char \cup {None}) /\ Len(Contents) = Count
    BY ContentsIs
  <2>2. \A i \in 1..(Count - 1) : Contents[i + 1] \in Char \cup {None}
    BY <1>0, <2>1
  <2>3. QED
    BY <1>0, <1>3, <1>5, <2>1, <2>2
<1>7. Contents # <<>>
  BY <1>0, <1>3, <1>6
<1>8. /\ Tail(Contents) \in Seq(Char \cup {None}) /\ Len(Tail(Contents)) = Count - 1
      /\ \A i \in 1..(Count - 1) : Tail(Contents)[i] = Contents[i + 1]
  BY <1>0, <1>6, <1>7
<1>9. QED
  BY <1>0, <1>5, <1>6, <1>7, <1>8, SeqEqual

\* The empty buffer is the empty queue.
LEMMA FifoInit == KInit => Fifo!Init
<1> SUFFICES ASSUME KInit PROVE Contents = <<>>
  BY DEF Fifo!Init
<1>1. KTypeOK
  BY KInitType
<1>2. Count = 0
  BY <1>1, CountIs DEF KTypeOK, KInit, Count
<1>3. QED
  BY <1>1, <1>2, ContentsIs

\* With one reader, every step puts, gets, or leaves the queue as it is.
LEMMA FifoNext ==
  ASSUME NEW r, Reader = {r}
  PROVE  OldestInv /\ [KNext]_kvars => [Fifo!Next]_Contents
<1> SUFFICES ASSUME OldestInv, [KNext]_kvars, ring' # ring PROVE Fifo!Next
  BY DEF Contents, Count, ring
<1>0. KTypeOK /\ KTypeOK'
  BY KNextType DEF OldestInv
<1>1. ASSUME NEW k \in Key, CharKey(k) PROVE Fifo!Next
  <2>1. result(k) \in Char
    BY <1>0, ResultType
  <2>2. QED
    BY <1>0, <1>1, <2>1, PutStep DEF Fifo!Next, Fifo!Put
<1>2. CASE Advance(r)
  <2>1. ~isempty
    BY <1>2 DEF OldestInv, TakesOldest, Advance, Step
  <2>2. QED
    BY <1>0, <1>2, <2>1, GetStep DEF Fifo!Next, Fifo!Get
<1>3. CASE ShiftKey \/ CapsLock
  BY <1>3 DEF ShiftKey, CapsLock
<1>4. CASE \/ CallGet(r) \/ Check(r) \/ Wait(r) \/ Sleep(r) \/ SleepAgain(r)
           \/ Resume(r) \/ Signal(r) \/ Read(r)
  BY <1>4 DEF CallGet, Check, Wait, Sleep, SleepAgain, Resume, Signal, Read
<1>5. CASE UNCHANGED kvars
  BY <1>5 DEF kvars
<1>6. QED
  BY <1>1, <1>2, <1>3, <1>4, <1>5 DEF KNext, ps2_intr, cclbuff_get

(***************************************************************************)
(* With one reader the circular buffer, its interrupt handler and its      *)
(* sleeping consumer implement a bounded FIFO, for any capacity.           *)
(***************************************************************************)
THEOREM OneReaderFifo ==
  ASSUME NEW r, Reader = {r}
  PROVE  KSpec => ImplementsFifo
<1>1. KInit => OldestInv
  BY KInitType DEF KInit, OldestInv, TakesOldest
<1>2. OldestInv /\ [KNext]_kvars => OldestInv'
  BY OldestNext
<1>3. OldestInv /\ [KNext]_kvars => [Fifo!Next]_Contents
  BY FifoNext
<1>4. QED
  BY <1>1, <1>2, <1>3, FifoInit, PTL DEF KSpec, ImplementsFifo, Fifo!Spec
-----------------------------------------------------------------------------
\* Every step of the shell is a step of the keyboard path or leaves it alone.
LEMMA ShellStep == [SNext]_svars => [KNext]_kvars
BY DEF SNext, KNext, svars, main_shell, ReadChar, Insert, Delete, Enter, Ignore,
       ChildEnded

(***************************************************************************)
(* The keyboard path under the shell behaves as Keyboard allows.           *)
(***************************************************************************)
THEOREM ShellUsesKeyboard == SSpec => KSpec
<1>1. SInit => KInit
  BY DEF SInit
<1>2. QED
  BY <1>1, ShellStep, PTL DEF SSpec, KSpec

(***************************************************************************)
(* One shell reads what was typed, in order, through a bounded FIFO.       *)
(***************************************************************************)
THEOREM ShellReadsFifo ==
  ASSUME NEW r, Reader = {r}
  PROVE  SSpec => ImplementsFifo /\ []TakesOldest
BY ShellUsesKeyboard, OneReaderFifo, OneReaderTakesOldest, PTL

\* Every step keeps the types, and the command within its length.
LEMMA ShellType == STypeOK /\ [SNext]_svars => STypeOK'
<1> SUFFICES ASSUME STypeOK, [SNext]_svars PROVE STypeOK'
  OBVIOUS
<1>0. /\ KTypeOK'
      /\ stage \in [Reader -> {"prompt", "read", "wait"}]
      /\ command \in [Reader -> Seq(Printable)]
      /\ \A t \in Reader : Len(command[t]) <= MAX_CMD_LEN
      /\ MAX_CMD_LEN \in Nat
  BY KNextType, ShellStep, ShellAssumption DEF STypeOK
<1>1. CASE UNCHANGED <<stage, command>>
  BY <1>0, <1>1 DEF STypeOK
<1>2. ASSUME NEW t \in Reader, Insert(t) PROVE STypeOK'
  BY <1>0, <1>2 DEF Insert, STypeOK
<1>3. ASSUME NEW t \in Reader, Delete(t) PROVE STypeOK'
  BY <1>0, <1>3 DEF Delete, STypeOK, Front
<1>4. ASSUME NEW t \in Reader, ReadChar(t) \/ Enter(t) \/ Ignore(t) PROVE STypeOK'
  BY <1>0, <1>4 DEF ReadChar, Enter, Ignore, STypeOK
<1>5. ASSUME NEW t \in Reader, ChildEnded(t) PROVE STypeOK'
  BY <1>0, <1>5 DEF ChildEnded, STypeOK
<1>6. QED
  BY <1>1, <1>2, <1>3, <1>4, <1>5 DEF SNext, main_shell, svars

(***************************************************************************)
(* The index of command[] never passes MAX_CMD_LEN, whatever is typed.     *)
(***************************************************************************)
THEOREM ShellTypeCorrect == SSpec => []STypeOK
<1>1. SInit => STypeOK
  BY KInitType, ShellAssumption DEF SInit, STypeOK
<1>2. QED
  BY <1>1, ShellType, PTL DEF SSpec
=============================================================================
