------------------------------ MODULE Keyboard ------------------------------
(***************************************************************************)
(* The keyboard path of hoo: the PS/2 interrupt handler translates a scan  *)
(* code and puts the character into a circular buffer (the producer), a    *)
(* read of the standard input takes it out, and sleeps when there is none  *)
(* (the consumer).                                                         *)
(*                                                                         *)
(* The interrupt handler runs with IF=0 and is one step.  A reader runs    *)
(* with IF=1, so a key may come between any two of its steps; the part of  *)
(* sleep that runs with IF=0 is one step.  The walk of wakeup over the     *)
(* sleeping tasks and the choice of the scheduler are those of Tasks: here *)
(* a wakeup reaches every reader that sleeps on the buffer.                *)
(***************************************************************************)
EXTENDS Naturals, Sequences

CONSTANTS
  Reader,    \* the tasks that read the standard input
  Key,       \* the keys that have a character
  Letter,    \* those that caps lock concerns
  keymap,    \* the two characters of each key
  capacity_, \* slots of the circular buffer
  None

ASSUME KeyboardAssumption ==
  /\ Letter \subseteq Key
  /\ \A k \in Key : DOMAIN keymap[k] = {0, 1}
  /\ capacity_ \in Nat \ {0, 1}
  /\ None \notin Reader

VARIABLES
  gflag_make_shift, gflag_make_caps,
  buff_, head_, tail_, slock_,  \* the fields of kb_buff
  pc,                           \* the next step of each reader
  ch                            \* the local of cclbuff_get of each reader

flags == <<gflag_make_shift, gflag_make_caps>>
ring  == <<buff_, head_, tail_>>
kvars == <<flags, ring, slock_, pc, ch>>

Char == {keymap[k][c] : k \in Key, c \in {0, 1}}
Slot == 0..(capacity_ - 1)

isempty == head_ = tail_
isfull  == (head_ + 1) % capacity_ = tail_

Step(t, from, to) == pc[t] = from /\ pc' = [pc EXCEPT ![t] = to]

\* dyn_alloc does not clear the buffer: its first content is no character.
KInit ==
  /\ gflag_make_shift = FALSE /\ gflag_make_caps = FALSE
  /\ buff_ = [i \in Slot |-> None]
  /\ head_ = 0 /\ tail_ = 0
  /\ slock_ = None
  /\ pc = [t \in Reader |-> "user"]
  /\ ch = [t \in Reader |-> None]
-----------------------------------------------------------------------------
(***************************************************************************)
(* ps2_intr(), by scan code: a shift key, caps lock, a key with a          *)
(* character.  The codes it ignores change nothing.                        *)
(***************************************************************************)
ShiftKey ==
  /\ gflag_make_shift' \in BOOLEAN
  /\ UNCHANGED <<gflag_make_caps, ring, slock_, pc, ch>>

CapsLock ==
  /\ gflag_make_caps' = ~gflag_make_caps
  /\ UNCHANGED <<gflag_make_shift, ring, slock_, pc, ch>>

result(k) ==
  keymap[k][IF gflag_make_shift \/ (k \in Letter /\ gflag_make_caps) THEN 1 ELSE 0]

wakeup == pc' = [t \in Reader |-> IF pc[t] = "asleep" THEN "woken" ELSE pc[t]]

\* A slip: the buffer counts as full only when head_ has come round to tail_.
CharKey_FillsLastSlot(k) ==
  /\ buff_' = [buff_ EXCEPT ![head_] = result(k)]
  /\ head_' = (head_ + 1) % capacity_
  /\ wakeup
  /\ UNCHANGED <<flags, tail_, slock_, ch>>

\* cclbuff_put() refuses the character of a key that finds the buffer full.
CharKey(k) ==
  /\ ~isfull
  /\ buff_' = [buff_ EXCEPT ![head_] = result(k)]
  /\ head_' = (head_ + 1) % capacity_
  /\ wakeup
  /\ UNCHANGED <<flags, tail_, slock_, ch>>

ps2_intr == ShiftKey \/ CapsLock \/ \E k \in Key : CharKey(k)
-----------------------------------------------------------------------------
(***************************************************************************)
(* cclbuff_get(), called by files_read for each character wanted.          *)
(***************************************************************************)
CallGet(t) ==
  /\ Step(t, "user", "check")
  /\ UNCHANGED <<flags, ring, slock_, ch>>

Check(t) ==
  /\ Step(t, "check", IF isempty THEN "wait" ELSE "read")
  /\ UNCHANGED <<flags, ring, slock_, ch>>

Wait(t) ==
  /\ Step(t, "wait", "sleep") \/ Step(t, "rewait", "signal")
  /\ slock_ = None /\ slock_' = t
  /\ UNCHANGED <<flags, ring, ch>>

\* A slip: sleep does not release the lock of the resource.
Sleep_KeepsLock(t) ==
  /\ Step(t, "sleep", "asleep")
  /\ UNCHANGED <<flags, ring, slock_, ch>>

\* sleep() up to switch_to, which releases the lock.
Sleep(t) ==
  /\ Step(t, "sleep", "asleep")
  /\ slock_' = None
  /\ UNCHANGED <<flags, ring, ch>>

\* Resumed, sleep() enables interrupts before it clears sleep_: a tick between
\* the two sends the task to the sleeping list once more.
SleepAgain(t) ==
  /\ Step(t, "woken", "asleep")
  /\ UNCHANGED <<flags, ring, slock_, ch>>

Resume(t) ==
  /\ Step(t, "woken", "rewait")
  /\ UNCHANGED <<flags, ring, slock_, ch>>

Signal(t) ==
  /\ Step(t, "signal", "read")
  /\ slock_' = None
  /\ UNCHANGED <<flags, ring, ch>>

\* A slip: tail_ moves before the character is read.
Read_AfterAdvance(t) ==
  /\ Step(t, "read", "advance")
  /\ ch' = [ch EXCEPT ![t] = buff_[(tail_ + 1) % capacity_]]
  /\ UNCHANGED <<flags, ring, slock_>>

Read(t) ==
  /\ Step(t, "read", "advance")
  /\ ch' = [ch EXCEPT ![t] = buff_[tail_]]
  /\ UNCHANGED <<flags, ring, slock_>>

Advance(t) ==
  /\ Step(t, "advance", "user")
  /\ tail_' = (tail_ + 1) % capacity_
  /\ UNCHANGED <<flags, buff_, head_, slock_, ch>>

cclbuff_get(t) ==
  \/ Check(t) \/ Wait(t) \/ Sleep(t) \/ SleepAgain(t) \/ Resume(t)
  \/ Signal(t) \/ Read(t) \/ Advance(t)

KNext == ps2_intr \/ \E t \in Reader : CallGet(t) \/ cclbuff_get(t)

KSpec == KInit /\ [][KNext]_kvars

(***************************************************************************)
(* The scheduler gives every ready task time, and not every tick comes     *)
(* between the two instructions at the end of sleep.                       *)
(***************************************************************************)
KFairness == \A t \in Reader : WF_kvars(cclbuff_get(t)) /\ SF_kvars(Resume(t))
-----------------------------------------------------------------------------
Labels == {"user", "check", "wait", "sleep", "asleep", "woken", "rewait",
           "signal", "read", "advance"}

\* The labels between wait(&slock_) and its signal.
Holding == {"sleep", "signal"}

(***************************************************************************)
(* The type invariant.                                                     *)
(***************************************************************************)
KTypeOK ==
  /\ gflag_make_shift \in BOOLEAN /\ gflag_make_caps \in BOOLEAN
  /\ buff_ \in [Slot -> Char \cup {None}]
  /\ head_ \in Slot /\ tail_ \in Slot
  /\ slock_ \in Reader \cup {None}
  /\ pc \in [Reader -> Labels]
  /\ ch \in [Reader -> Char \cup {None}]

(***************************************************************************)
(* The lock of the buffer is held exactly by the reader between its wait   *)
(* and its signal; a sleeping reader has released it.                      *)
(***************************************************************************)
SlockOwner == \A t \in Reader : slock_ = t <=> pc[t] \in Holding

\* The characters in the buffer, the oldest first.
Count    == (head_ + capacity_ - tail_) % capacity_
Contents == [i \in 1..Count |-> buff_[(tail_ + i - 1) % capacity_]]

(***************************************************************************)
(* With one reader, what cclbuff_get takes is the oldest character in the  *)
(* buffer: there is one when it comes to read, which it checked long       *)
(* before, and no key overwrites it until tail_ has moved.                 *)
(***************************************************************************)
TakesOldest ==
  \A t \in Reader :
    /\ pc[t] \in {"rewait", "signal", "read", "advance"} => ~isempty
    /\ pc[t] = "advance" => ch[t] = buff_[tail_]

(***************************************************************************)
(* With one reader, the circular buffer with its wrapping indexes and the  *)
(* sleeping consumer is a FIFO that refuses when capacity_ - 1 characters  *)
(* are in it.                                                              *)
(***************************************************************************)
Fifo == INSTANCE BoundedFifo
          WITH queue <- Contents, Value <- Char, Size <- capacity_ - 1

ImplementsFifo == Fifo!Spec

(***************************************************************************)
(* A reader on its way to sleep gets a character if keys keep coming, for  *)
(* the next key makes up for a wakeup that was lost; unless so many came   *)
(* before it slept that the buffer is full, and no key wakes it any more.  *)
(***************************************************************************)
ReaderServed ==
  WF_kvars(\E k \in Key : CharKey(k))
    => \A t \in Reader :
         pc[t] = "wait" ~> (pc[t] = "user" \/ (pc[t] = "asleep" /\ isfull))
=============================================================================
