---------------------------- MODULE AtaIrqProofs ----------------------------
(***************************************************************************)
(* Proofs about AtaIrq for any set of tasks, however their requests        *)
(* overlap: the locks, and that a request is in the queue exactly from     *)
(* queue_push until the interrupt handler has marked it as finished.       *)
(***************************************************************************)
EXTENDS AtaIrq, DataLemmas

\* The device is told of at least one sector.
LEMMA SectorCountRange ==
  ASSUME NEW len \in Nat \ {0}
  PROVE  SectorCount(len) \in Nat \ {0}
<1>1. len - 1 \in Int /\ COUNTS \in Nat \ {0}
  BY AtaAssumption
<1>2. ((len - 1) % COUNTS) \in Nat
  BY <1>1
<1>3. QED
  BY <1>2 DEF SectorCount

\* A request is for at least one sector.
LEMMA RequestLen ==
  ASSUME NEW request \in Request
  PROVE  request.len \in Nat \ {0} /\ request.cmd \in Cmd
<1>1. CASE request \in [cmd : {"ATA_CMD_IO_READ"}, len : {1}, buff : {"kernel", "task"}]
  BY <1>1 DEF Cmd
<1>2. CASE request \in [cmd : {"ATA_CMD_IO_WRITE"}, len : Sectors, buff : {"kernel"}]
  <2>1. request.len \in Sectors /\ request.cmd \in Cmd
    BY <1>2 DEF Cmd
  <2>2. QED
    BY <2>1, AtaAssumption
<1>3. QED
  BY <1>1, <1>2 DEF Request

\* The type invariant holds when the driver changes to IRQ mode.
LEMMA AtaInitType == Init => TypeOK
<1> SUFFICES ASSUME Init PROVE TypeOK
  OBVIOUS
<1>1. /\ finish_ \in [Task -> BOOLEAN] /\ stuck \in BOOLEAN /\ intrq \in BOOLEAN
      /\ astray \in [Task -> BOOLEAN]
  BY DEF Init
<1>2. atabuff \in [Task -> Request]
  BY DEF Init, Request
<1>3. QED
  BY <1>1, <1>2 DEF Init, TypeOK, Labels, Cmd

\* What a device that has done a sector leaves.
LEMMA DoneType ==
  ASSUME TypeOK, SectorDone
  PROVE  /\ written' \in [Task -> Task \cup {None}]
         /\ job' \in [sector : Task \cup {None}, cmd : Cmd, from : Task \cup {None}, left : Nat]
         /\ device' \in {"idle", "busy"} /\ intrq' \in BOOLEAN
         /\ job'.sector \in Task /\ regs \in Task
         /\ device' = "busy" => job'.left > 0
<1>1. /\ job.left \in Nat /\ job.left > 0 /\ job.sector \in Task /\ regs \in Task
      /\ job \in [sector : Task \cup {None}, cmd : Cmd, from : Task \cup {None}, left : Nat]
  BY DEF TypeOK, SectorDone
<1>2. job' = [job EXCEPT !.left = @ - 1] /\ job.left - 1 \in Nat
  BY <1>1 DEF SectorDone
<1>3. /\ job' \in [sector : Task \cup {None}, cmd : Cmd, from : Task \cup {None}, left : Nat]
      /\ job'.left = job.left - 1 /\ job'.sector = job.sector
  BY <1>1, <1>2
<1>4. written' \in [Task -> Task \cup {None}]
  BY <1>1 DEF TypeOK, SectorDone
<1>5. device' \in {"idle", "busy"} /\ (device' = "busy" => job.left # 1) /\ intrq' = TRUE
  BY DEF SectorDone
<1>6. QED
  BY <1>1, <1>3, <1>4, <1>5

\* What insw leaves.
LEMMA InswType ==
  ASSUME TypeOK, NEW done \in Task, NEW cpu, insw(done, cpu)
  PROVE  data' \in [Task -> Task \cup {None}] /\ astray' \in [Task -> BOOLEAN]
<1> DEFINE to == IF atabuff[done].buff = "kernel" THEN done ELSE cpu
<1>1. CASE ~Reads(done)
  BY <1>1 DEF insw, TypeOK
<1>2. CASE Reads(done)
  <2>1. astray' = [astray EXCEPT ![done] = (to # done)]
    BY <1>2 DEF insw
  <2>2. astray' \in [Task -> BOOLEAN]
    BY <2>1, Zenon DEF TypeOK
  <2>3. \/ data' = data
        \/ data' = [data EXCEPT ![to] = job.sector]
    BY <1>2 DEF insw
  <2>4. data \in [Task -> Task \cup {None}] /\ job.sector \in Task \cup {None}
    BY DEF TypeOK
  <2>5. data' \in [Task -> Task \cup {None}]
    BY <2>3, <2>4
  <2>6. QED
    BY <2>2, <2>5
<1>3. QED
  BY <1>1, <1>2

\* The handler finds its types and keeps them.
LEMMA ServeType ==
  ASSUME TypeOK, NEW cpu, ata_irq_intr(cpu)
  PROVE  /\ __queue_ata' \in Seq(Task)
         /\ data' \in [Task -> Task \cup {None}]
         /\ astray' \in [Task -> BOOLEAN]
         /\ finish_' \in [Task -> BOOLEAN]
         /\ pc' \in [Task -> Labels]
<1>2. CASE __slqueue # None \/ __queue_ata = <<>>
  BY <1>2 DEF ata_irq_intr, TypeOK
<1>3. CASE ~(__slqueue # None \/ __queue_ata = <<>>)
  <2>1. Head(__queue_ata) \in Task /\ Tail(__queue_ata) \in Seq(Task)
    BY <1>3 DEF TypeOK
  <2>2. Serve(Head(__queue_ata), cpu)
    BY <1>3 DEF ata_irq_intr
  <2>3. finish_' \in [Task -> BOOLEAN]
    BY <2>1, <2>2 DEF Serve, TypeOK
  <2>4. data' \in [Task -> Task \cup {None}] /\ astray' \in [Task -> BOOLEAN]
    BY <2>1, <2>2, InswType DEF Serve
  <2>5. pc' \in [Task -> Labels]
    BY <2>1, <2>2 DEF Serve, wakeup, Labels, TypeOK
  <2>6. QED
    BY <2>1, <2>2, <2>3, <2>4, <2>5 DEF Serve
<1>4. QED
  BY <1>2, <1>3

\* Every step keeps the types; a busy device knows its sector.
LEMMA AtaNextType == TypeOK /\ [Next]_vars => TypeOK'
<1> SUFFICES ASSUME TypeOK, [Next]_vars PROVE TypeOK'
  OBVIOUS
<1> USE DEF TypeOK
<1>1. ASSUME NEW t \in Task, NEW request \in Request, atabuff_set(t, request)
      PROVE  TypeOK'
  <2>1. atabuff' \in [Task -> Request] /\ astray' \in [Task -> BOOLEAN]
        /\ finish_' \in [Task -> BOOLEAN]
    BY <1>1 DEF atabuff_set
  <2>2. QED
    BY <1>1, <2>1 DEF atabuff_set, Step, locks, disk, Labels
<1>2. ASSUME NEW t \in Task, ata_irq_rw(t) PROVE TypeOK'
  <2>0. USE DEF Step, locks, disk, buffers, Labels
  <2>1. CASE QueueWait(t)
    BY <2>1 DEF QueueWait
  <2>9. CASE QueuePush(t)
    <3>1. __queue_ata' \in Seq(Task)
      BY <2>9 DEF QueuePush
    <3>2. QED
      BY <2>9, <3>1 DEF QueuePush
  <2>2. CASE SetRegisters(t)
    <3>1. CASE device = "busy"
      BY <2>2, <3>1 DEF SetRegisters
    <3>2. CASE device # "busy"
      BY <2>2, <3>2 DEF SetRegisters
    <3>3. QED
      BY <3>1, <3>2
  <2>3. CASE SetCommand(t)
    <3>1. CASE device = "busy"
      BY <2>3, <3>1 DEF SetCommand
    <3>2. CASE device # "busy"
      <4>1. regs \in Task
        BY <2>3 DEF SetCommand
      <4>2. atabuff[t].cmd \in Cmd /\ SectorCount(atabuff[t].len) \in Nat \ {0}
        BY RequestLen, SectorCountRange
      <4>3. job' = [sector |-> regs, cmd |-> atabuff[t].cmd, from |-> None,
                    left |-> SectorCount(atabuff[t].len)]
            /\ device' \in {"busy", "data"} /\ intrq' = FALSE
        BY <2>3, <3>2 DEF SetCommand
      <4> HIDE DEF TypeOK
      <4>4. /\ job' \in [sector : Task \cup {None}, cmd : Cmd, from : Task \cup {None},
                         left : Nat]
            /\ job'.sector \in Task /\ job'.left > 0
        BY <4>1, <4>2, <4>3
      <4>5. /\ pc' \in [Task -> Labels]
            /\ UNCHANGED <<__queue_ata, locks, atabuff, finish_, buffers, regs, stuck>>
        BY <2>3 DEF SetCommand, TypeOK
      <4>6. QED
        BY <4>1, <4>3, <4>4, <4>5 DEF TypeOK
    <3>3. QED
      BY <3>1, <3>2
  <2>4. CASE AtaWait(t) \/ AtaPoll(t)
    BY <2>4 DEF AtaWait, AtaPoll
  <2>5. CASE Outsw(t)
    <3>1. CASE device = "data"
      BY <2>5, <3>1 DEF Outsw
    <3>2. CASE device # "data"
      BY <2>5, <3>2 DEF Outsw
    <3>3. QED
      BY <3>1, <3>2
  <2>6. CASE SlataWait(t) \/ Loop(t) \/ Unlock(t)
    BY <2>6 DEF SlataWait, Loop, Unlock
  <2>7. CASE Sleep(t) \/ SleepAgain(t) \/ Resume(t)
    BY <2>7 DEF Sleep, SleepAgain, Resume
  <2>8. QED
    BY <1>2, <2>1, <2>2, <2>3, <2>4, <2>5, <2>6, <2>7, <2>9 DEF ata_irq_rw
<1>3. ASSUME NEW cpu, ata_irq_intr(cpu) PROVE TypeOK'
  <2>1. regs' = regs /\ stuck' \in BOOLEAN /\ UNCHANGED <<locks, atabuff>> /\ SectorDone
    BY <1>3 DEF ata_irq_intr
  <2>2. pc' \in [Task -> Labels] /\ \A t \in Task : pc'[t] = "command" => regs \in Task
    BY <1>3, <2>1, ServeType, DoneType
  <2>3. QED
    BY <1>3, <2>1, <2>2, ServeType, DoneType DEF locks
<1>6. CASE SectorUnseen
  BY <1>6, DoneType DEF SectorUnseen, locks
<1>4. CASE UNCHANGED vars
  BY <1>4 DEF vars, locks, disk, buffers
<1>5. QED
  BY <1>1, <1>2, <1>3, <1>4, <1>6 DEF Next

(***************************************************************************)
(* The driver's queue, locks and requests and the device keep their types; *)
(* the device never works without a sector, or with none left to do.       *)
(***************************************************************************)
THEOREM AtaTypeCorrect == Spec => []TypeOK
BY AtaInitType, AtaNextType, PTL DEF Spec

\* Every step leaves each lock with the task between its wait and its signal.
LEMMA AtaNextLocks == TypeOK /\ AtaLockOwners /\ [Next]_vars => AtaLockOwners'
<1> SUFFICES ASSUME TypeOK, AtaLockOwners, [Next]_vars PROVE AtaLockOwners'
  OBVIOUS
<1> USE AtaAssumption DEF AtaLockOwners
<1>0. pc \in [Task -> Labels]
  BY DEF TypeOK
<1>1. ASSUME NEW t \in Task, NEW request \in Request, atabuff_set(t, request)
      PROVE  AtaLockOwners'
  BY <1>0, <1>1 DEF atabuff_set, Step, locks
<1>2. ASSUME NEW t \in Task, ata_irq_rw(t) PROVE AtaLockOwners'
  <2>0. USE DEF Step, locks
  <2>1. CASE QueueWait(t)
    BY <1>0, <2>1 DEF QueueWait
  <2>2. CASE QueuePush(t)
    BY <1>0, <2>2 DEF QueuePush
  <2>3. CASE SetRegisters(t) \/ SetCommand(t) \/ AtaPoll(t) \/ AtaWait(t) \/ Outsw(t)
    BY <1>0, <2>3 DEF SetRegisters, SetCommand, AtaPoll, AtaWait, Outsw
  <2>4. CASE SlataWait(t)
    BY <1>0, <2>4 DEF SlataWait
  <2>5. CASE Loop(t) \/ SleepAgain(t) \/ Resume(t)
    BY <1>0, <2>5 DEF Loop, SleepAgain, Resume
  <2>6. CASE Sleep(t) \/ Unlock(t)
    BY <1>0, <2>6 DEF Sleep, Unlock
  <2>7. QED
    BY <1>2, <2>1, <2>2, <2>3, <2>4, <2>5, <2>6 DEF ata_irq_rw
<1>3. ASSUME NEW cpu, ata_irq_intr(cpu) PROVE AtaLockOwners'
  BY <1>0, <1>3 DEF ata_irq_intr, Serve, wakeup, locks
<1>6. CASE SectorUnseen
  BY <1>6 DEF SectorUnseen, locks
<1>4. CASE UNCHANGED vars
  BY <1>4 DEF vars, locks
<1>5. QED
  BY <1>1, <1>2, <1>3, <1>4, <1>6 DEF Next

(***************************************************************************)
(* __slqueue and __slata are each held by the one task that is between its *)
(* wait and its signal: no task sleeps with __slata.                       *)
(***************************************************************************)
THEOREM AtaLocks == Spec => []AtaLockOwners
<1>1. Init => AtaLockOwners
  BY AtaAssumption DEF Init, AtaLockOwners
<1>2. QED
  BY <1>1, AtaTypeCorrect, AtaNextLocks, PTL DEF Spec

\* The requests that wait for the handler.
Pending == {t \in Task : pc[t] \notin Unqueued /\ ~finish_[t]}

\* The inductive form: a request is not finished before it is queued, and is
\* when its task leaves the loop.
QueuedInv ==
  /\ QueuedUntilFinished
  /\ \A t \in Task : /\ pc[t] \in {"queue_wait", "queue_push"} => ~finish_[t]
                     /\ pc[t] = "unlock" => finish_[t]

\* A step that keeps the queue and what is pending keeps the queue invariant.
LEMMA SamePending ==
  ASSUME QueuedUntilFinished, Pending' = Pending, UNCHANGED __queue_ata
  PROVE  QueuedUntilFinished'
BY DEF QueuedUntilFinished, Pending

\* A step of a task other than queue_push neither queues nor finishes.
LEMMA TaskStepQueued ==
  ASSUME TypeOK, QueuedInv, NEW t \in Task, ata_irq_rw(t), ~QueuePush(t)
  PROVE  QueuedInv'
<1>0. pc \in [Task -> Labels] /\ finish_ \in [Task -> BOOLEAN]
  BY DEF TypeOK
<1>1. finish_' = finish_ /\ __queue_ata' = __queue_ata
  BY DEF ata_irq_rw, QueueWait, SetRegisters, SetCommand, AtaPoll, AtaWait,
         Outsw, SlataWait, Loop, Sleep, SleepAgain, Resume, Unlock
<1>2. PICK to \in Labels : pc' = [pc EXCEPT ![t] = to]
  BY DEF ata_irq_rw, Step, QueueWait, SetRegisters, SetCommand, AtaPoll, AtaWait,
         Outsw, SlataWait, Loop, Sleep, SleepAgain, Resume, Unlock, Labels
<1>3. /\ to \in {"user", "queue_wait"} => pc[t] = "unlock"
      /\ to = "queue_push" <=> pc[t] = "queue_wait"
      /\ to = "unlock" => finish_[t]
      /\ pc[t] \notin {"user", "queue_push"}
      /\ to # "queue_wait"
  BY <1>0, <1>2 DEF ata_irq_rw, Step, QueueWait, SetRegisters, SetCommand, AtaPoll,
         AtaWait, Outsw, SlataWait, Loop, Sleep, SleepAgain, Resume, Unlock
<1>4. Pending' = Pending
  BY <1>0, <1>1, <1>2, <1>3 DEF Pending, Unqueued, QueuedInv
<1>5. QED
  BY <1>0, <1>1, <1>2, <1>3, <1>4, SamePending DEF QueuedInv

\* Every step keeps a request in the queue once, until it is finished.
LEMMA AtaNextQueued == TypeOK /\ QueuedInv /\ [Next]_vars => QueuedInv'
<1> SUFFICES ASSUME TypeOK, QueuedInv, [Next]_vars PROVE QueuedInv'
  OBVIOUS
<1>0. /\ pc \in [Task -> Labels] /\ finish_ \in [Task -> BOOLEAN]
      /\ __queue_ata \in Seq(Task) /\ IsInjective(__queue_ata)
      /\ Range(__queue_ata) = Pending
  BY DEF TypeOK, QueuedInv, QueuedUntilFinished, Pending
<1>1. ASSUME NEW t \in Task, NEW request \in Request, atabuff_set(t, request)
      PROVE  QueuedInv'
  <2>1. Pending' = Pending
    BY <1>0, <1>1 DEF atabuff_set, Step, Pending, Unqueued
  <2>2. QED
    BY <1>0, <1>1, <2>1, SamePending DEF atabuff_set, Step, QueuedInv
<1>2. ASSUME NEW t \in Task, QueuePush(t) PROVE QueuedInv'
  <2>1. ~finish_[t] /\ finish_' = finish_
    BY <1>2 DEF QueuePush, Step, QueuedInv
  <2>2. Pending' = Pending \cup {t} /\ t \notin Pending
    BY <1>0, <1>2, <2>1 DEF QueuePush, Step, Pending, Unqueued
  <2>3. QueuedUntilFinished'
    BY <1>0, <1>2, <2>2, PushPlace DEF QueuePush, QueuedUntilFinished, Pending
  <2>4. QED
    BY <1>0, <1>2, <2>1, <2>3 DEF QueuePush, Step, QueuedInv
<1>3. ASSUME NEW t \in Task, ata_irq_rw(t), ~QueuePush(t) PROVE QueuedInv'
  BY <1>3, TaskStepQueued
<1>4. ASSUME NEW cpu, ata_irq_intr(cpu) PROVE QueuedInv'
  <2>1. CASE __slqueue # None \/ __queue_ata = <<>>
    <3>1. /\ Pending' = Pending /\ __queue_ata' = __queue_ata
          /\ pc' = pc /\ finish_' = finish_
      BY <1>4, <2>1 DEF ata_irq_intr, Pending
    <3>2. QED
      BY <3>1, SamePending DEF QueuedInv
  <2>2. CASE ~(__slqueue # None \/ __queue_ata = <<>>)
    <3> DEFINE done == Head(__queue_ata)
    <3>1. /\ __queue_ata # <<>> /\ done \in Task /\ done \in Pending
      BY <1>0, <2>2, PopPlace
    <3>2. Serve(done, cpu)
      BY <1>4, <2>2 DEF ata_irq_intr
    <3> HIDE DEF done
    <3>3. Pending' = Pending \ {done}
      BY <1>0, <3>1, <3>2 DEF Serve, wakeup, Pending, Unqueued
    <3>4. __queue_ata' = Tail(__queue_ata)
      BY <3>2 DEF Serve
    <3>5. QueuedUntilFinished'
      BY <1>0, <3>1, <3>3, <3>4, PopPlace DEF QueuedUntilFinished, Pending, done
    <3>6. pc[done] \notin Unqueued
      BY <3>1 DEF Pending
    <3>7. QED
      BY <1>0, <3>1, <3>2, <3>5, <3>6 DEF Serve, wakeup, QueuedInv, Unqueued
  <2>3. QED
    BY <2>1, <2>2
<1>5. CASE UNCHANGED vars
  BY <1>5, SamePending DEF vars, Pending, QueuedInv
<1>7. CASE SectorUnseen
  BY <1>7, SamePending DEF SectorUnseen, Pending, QueuedInv
<1>6. QED
  BY <1>1, <1>2, <1>3, <1>4, <1>5, <1>7 DEF Next

(***************************************************************************)
(* However many requests overlap, each is in __queue_ata exactly once from *)
(* queue_push until ata_irq_intr has set its finish_.                      *)
(***************************************************************************)
THEOREM AtaQueued == Spec => []QueuedUntilFinished
<1>1. Init => QueuedInv
  BY DEF Init, QueuedInv, QueuedUntilFinished, Range, IsInjective, Unqueued
<1>2. QueuedInv => QueuedUntilFinished
  BY DEF QueuedInv
<1>3. QED
  BY <1>1, <1>2, AtaTypeCorrect, AtaNextQueued, PTL DEF Spec
=============================================================================
