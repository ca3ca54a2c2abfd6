-------------------------------- MODULE AtaIrq --------------------------------
(***************************************************************************)
(* Disk requests in IRQ mode: a task queues its request, writes the        *)
(* registers of the device and sleeps until the interrupt handler, which   *)
(* takes the head of the queue for the request that was served, wakes it.  *)
(*                                                                         *)
(* Tasks run with IF=1 and interleave step by step; the handler and the    *)
(* part of sleep with IF=0 are one step each.  The walk of wakeup and the  *)
(* scheduler are those of Tasks.  The registers that ata_set_cmd writes    *)
(* before the command register are one step.  A task stands for its        *)
(* request, for its node in the queue and for the sector it asks for.      *)
(*                                                                         *)
(* The device does a request sector by sector.  It raises INTRQ after each *)
(* and lowers it when a command or a read of the status comes.  The PIC    *)
(* takes the edge alone: no interrupt comes while INTRQ stays high.        *)
(***************************************************************************)
EXTENDS Integers, Sequences, SequencesExt

CONSTANTS Task, None,
          Sectors,  \* how many sectors a task writes at once
          COUNTS    \* 256: the sector count is a uint8_t

ASSUME AtaAssumption ==
  /\ None \notin Task
  /\ Sectors \subseteq Nat \ {0} /\ COUNTS \in Nat \ {0}

VARIABLES
  __queue_ata, __slqueue, __slata,
  pc,      \* the next step of each task in ata_driver_rw
  atabuff, \* the command of each request, its sectors and whose its buffer is
  finish_,
  data,    \* the sector whose content is in the buffer of each reader
  written, \* whose data is in the sector of each writer
  astray,  \* history: the data of a reader went into the memory of another
  regs,    \* the sector that the registers of the device name
  device,  \* "idle", "busy", or "data": it waits for what to write
  job,     \* what the device does: sector, command, data, sectors left
  intrq,   \* the interrupt line of the device
  stuck    \* the handler spins with IF=0 on a lock the interrupted task holds

locks   == <<__slqueue, __slata>>
buffers == <<data, written, astray>>
disk    == <<regs, device, job, intrq>>
vars    == <<__queue_ata, locks, pc, atabuff, finish_, buffers, disk, stuck>>

Cmd == {"ATA_CMD_IO_READ", "ATA_CMD_IO_WRITE"}

\* A task reads one sector at a time, into a buffer of the kernel or its own.
\* Where a writer has its data does not matter: it copies them itself.
Request == [cmd : {"ATA_CMD_IO_READ"}, len : {1}, buff : {"kernel", "task"}]
             \cup [cmd : {"ATA_CMD_IO_WRITE"}, len : Sectors, buff : {"kernel"}]

Reads(t)  == atabuff[t].cmd = "ATA_CMD_IO_READ"
Writes(t) == atabuff[t].cmd = "ATA_CMD_IO_WRITE"

Step(t, from, to) == ~stuck /\ pc[t] = from /\ pc' = [pc EXCEPT ![t] = to]

Init ==
  /\ __queue_ata = <<>> /\ __slqueue = None /\ __slata = None
  /\ pc = [t \in Task |-> "user"]
  /\ atabuff = [t \in Task |-> [cmd |-> "ATA_CMD_IO_READ", len |-> 1, buff |-> "kernel"]]
  /\ finish_ = [t \in Task |-> FALSE]
  /\ data = [t \in Task |-> None]
  /\ written = [t \in Task |-> None]
  /\ astray = [t \in Task |-> FALSE]
  /\ regs = None
  /\ device = "idle"
  /\ job = [sector |-> None, cmd |-> "ATA_CMD_IO_READ", from |-> None, left |-> 0]
  /\ intrq = FALSE
  /\ stuck = FALSE
-----------------------------------------------------------------------------
(***************************************************************************)
(* ata_driver_rw() and ata_irq_rw().                                       *)
(***************************************************************************)
atabuff_set(t, request) ==
  /\ Step(t, "user", "queue_wait")
  /\ atabuff' = [atabuff EXCEPT ![t] = request]
  /\ finish_' = [finish_ EXCEPT ![t] = FALSE]
  /\ data' = [data EXCEPT ![t] = None]
  /\ written' = [written EXCEPT ![t] = None]
  /\ astray' = [astray EXCEPT ![t] = FALSE]
  /\ UNCHANGED <<__queue_ata, locks, disk, stuck>>

QueueWait(t) ==
  /\ Step(t, "queue_wait", "queue_push")
  /\ __slqueue = None /\ __slqueue' = t
  /\ UNCHANGED <<__queue_ata, __slata, atabuff, finish_, buffers, disk, stuck>>

QueuePush(t) ==
  /\ Step(t, "queue_push", "registers")
  /\ __queue_ata' = Append(__queue_ata, t)
  /\ __slqueue' = None
  /\ UNCHANGED <<__slata, atabuff, finish_, buffers, disk, stuck>>

\* A slip: the sector is left out of the registers.
SetRegisters_NoSector(t) ==
  /\ Step(t, "registers", "command")
  /\ UNCHANGED <<__queue_ata, locks, atabuff, finish_, buffers, disk, stuck>>

\* A busy device takes no notice of its registers and of a command.
SetRegisters(t) ==
  /\ Step(t, "registers", "command")
  /\ regs' = IF device = "busy" THEN regs ELSE t
  /\ UNCHANGED <<__queue_ata, locks, atabuff, finish_, buffers, device, job, intrq, stuck>>

\* ata_set_cmd takes the number of sectors as a uint8_t, of which 0 means all
\* COUNTS: the 259 sectors of the block map become 3.
SectorCount(len) == ((len - 1) % COUNTS) + 1

SetCommand(t) ==
  /\ Step(t, "command", "ata_wait")
  /\ IF device = "busy"
     THEN UNCHANGED <<device, job, intrq>>
     ELSE /\ device' = IF Reads(t) THEN "busy" ELSE "data"
          /\ job' = [sector |-> regs, cmd |-> atabuff[t].cmd, from |-> None,
                     left |-> SectorCount(atabuff[t].len)]
          /\ intrq' = FALSE
  /\ UNCHANGED <<__queue_ata, locks, atabuff, finish_, buffers, regs, stuck>>

\* ata_wait() polls until the device is not busy; each look lowers INTRQ.
AtaPoll(t) ==
  /\ device = "busy"
  /\ Step(t, "ata_wait", "ata_wait")
  /\ intrq' = FALSE
  /\ UNCHANGED <<__queue_ata, locks, atabuff, finish_, buffers, regs, device, job, stuck>>

AtaWait(t) ==
  /\ device # "busy"
  /\ Step(t, "ata_wait", IF Writes(t) THEN "outsw" ELSE "lock")
  /\ intrq' = FALSE
  /\ UNCHANGED <<__queue_ata, locks, atabuff, finish_, buffers, regs, device, job, stuck>>

\* The device starts to write when it has got the data it waits for.  It takes
\* those of all its sectors at once: outsw does not wait between them.
Outsw(t) ==
  /\ Step(t, "outsw", "lock")
  /\ IF device = "data"
     THEN device' = "busy" /\ job' = [job EXCEPT !.from = t]
     ELSE UNCHANGED <<device, job>>
  /\ UNCHANGED <<__queue_ata, locks, atabuff, finish_, buffers, regs, intrq, stuck>>

SlataWait(t) ==
  /\ Step(t, "lock", "loop")
  /\ __slata = None /\ __slata' = t
  /\ UNCHANGED <<__queue_ata, __slqueue, atabuff, finish_, buffers, disk, stuck>>

Loop(t) ==
  /\ Step(t, "loop", IF finish_[t] THEN "unlock" ELSE "sleep")
  /\ UNCHANGED <<__queue_ata, locks, atabuff, finish_, buffers, disk, stuck>>

\* A slip: sleep does not release the lock of the resource.
Sleep_KeepsLock(t) ==
  /\ Step(t, "sleep", "asleep")
  /\ UNCHANGED <<__queue_ata, locks, atabuff, finish_, buffers, disk, stuck>>

Sleep(t) ==
  /\ Step(t, "sleep", "asleep")
  /\ __slata' = None
  /\ UNCHANGED <<__queue_ata, __slqueue, atabuff, finish_, buffers, disk, stuck>>

\* A tick before sleep_ is cleared sends the task to sleep once more.
SleepAgain(t) ==
  /\ Step(t, "woken", "asleep")
  /\ UNCHANGED <<__queue_ata, locks, atabuff, finish_, buffers, disk, stuck>>

Resume(t) ==
  /\ Step(t, "woken", "lock")
  /\ UNCHANGED <<__queue_ata, locks, atabuff, finish_, buffers, disk, stuck>>

Unlock(t) ==
  /\ Step(t, "unlock", "user")
  /\ __slata' = None
  /\ UNCHANGED <<__queue_ata, __slqueue, atabuff, finish_, buffers, disk, stuck>>
-----------------------------------------------------------------------------
\* The device has done a sector.
SectorDone ==
  /\ ~stuck /\ device = "busy"
  /\ device' = IF job.left = 1 THEN "idle" ELSE "busy"
  /\ job' = [job EXCEPT !.left = @ - 1]
  /\ intrq' = TRUE
  /\ written' = IF job.cmd = "ATA_CMD_IO_WRITE"
                THEN [written EXCEPT ![job.sector] = job.from] ELSE written

\* INTRQ was high and stays so: nobody notices.
SectorUnseen ==
  /\ SectorDone /\ intrq
  /\ UNCHANGED <<__queue_ata, locks, pc, atabuff, finish_, data, astray, regs, stuck>>

wakeup(done) == pc' = [pc EXCEPT ![done] = IF @ = "asleep" THEN "woken" ELSE @]

(***************************************************************************)
(* insw hands over what the device has read, nothing of use when the job   *)
(* was a write.  It writes to the address of the buffer in the memory of   *)
(* the task on the CPU, whose page directory is in CR3: the buffer of done *)
(* if that is in the kernel or done is on the CPU.  Tasks have their own   *)
(* buffers at one address.                                                 *)
(***************************************************************************)
insw(done, cpu) ==
  LET to == IF atabuff[done].buff = "kernel" THEN done ELSE cpu
  IN  IF ~Reads(done) THEN UNCHANGED <<data, astray>>
      ELSE /\ data' = IF /\ job.cmd = "ATA_CMD_IO_READ"
                         /\ to = done \/ (to \in Task /\ atabuff[to].buff = "task")
                      THEN [data EXCEPT ![to] = job.sector] ELSE data
           /\ astray' = [astray EXCEPT ![done] = to # done]

\* Slips in the handler: the request stays in the queue; it is never marked
\* as finished; the data is left in the device.
Serve_OnlyPeeks(done, cpu) ==
  /\ __queue_ata' = __queue_ata
  /\ insw(done, cpu)
  /\ finish_' = [finish_ EXCEPT ![done] = TRUE]
  /\ wakeup(done)

Serve_NotFinished(done, cpu) ==
  /\ __queue_ata' = Tail(__queue_ata)
  /\ insw(done, cpu)
  /\ finish_' = finish_
  /\ wakeup(done)

Serve_NoInsw(done, cpu) ==
  /\ __queue_ata' = Tail(__queue_ata)
  /\ UNCHANGED <<data, astray>>
  /\ finish_' = [finish_ EXCEPT ![done] = TRUE]
  /\ wakeup(done)

\* ata_irq_intr() for the head of the queue.
Serve(done, cpu) ==
  /\ __queue_ata' = Tail(__queue_ata)
  /\ insw(done, cpu)
  /\ finish_' = [finish_ EXCEPT ![done] = TRUE]
  /\ wakeup(done)

\* The interrupt comes while cpu runs: a task that is not asleep, or None, one
\* that has no business with the disk, such as hoo.
ata_irq_intr(cpu) ==
  /\ SectorDone /\ ~intrq
  /\ cpu # None => pc[cpu] # "asleep"
  /\ stuck' = (__slqueue # None)
  /\ IF __slqueue # None \/ __queue_ata = <<>>
     THEN UNCHANGED <<__queue_ata, data, astray, finish_, pc>>
     ELSE Serve(Head(__queue_ata), cpu)
  /\ UNCHANGED <<locks, atabuff, regs>>
-----------------------------------------------------------------------------
ata_irq_rw(t) ==
  \/ QueueWait(t) \/ QueuePush(t) \/ SetRegisters(t) \/ SetCommand(t)
  \/ AtaPoll(t) \/ AtaWait(t) \/ Outsw(t) \/ SlataWait(t) \/ Loop(t) \/ Sleep(t)
  \/ SleepAgain(t) \/ Resume(t) \/ Unlock(t)

Next ==
  \/ \E t \in Task, request \in Request : atabuff_set(t, request)
  \/ \E t \in Task : ata_irq_rw(t)
  \/ \E cpu \in Task \cup {None} : ata_irq_intr(cpu)
  \/ SectorUnseen

Spec == Init /\ [][Next]_vars

(***************************************************************************)
(* The scheduler gives every ready task time, not every tick comes between *)
(* the two instructions at the end of sleep, and the device gets done.     *)
(***************************************************************************)
Fairness ==
  /\ \A t \in Task : WF_vars(ata_irq_rw(t)) /\ SF_vars(Resume(t))
  /\ WF_vars(SectorUnseen \/ \E cpu \in Task \cup {None} : ata_irq_intr(cpu))

FairSpec == Spec /\ Fairness
-----------------------------------------------------------------------------
Labels == {"user", "queue_wait", "queue_push", "registers", "command", "ata_wait",
           "outsw", "lock", "loop", "sleep", "asleep", "woken", "unlock"}

(***************************************************************************)
(* The type invariant; a device that works, or gets a command, has been    *)
(* told a sector, and it has one left to do.                               *)
(***************************************************************************)
TypeOK ==
  /\ __queue_ata \in Seq(Task)
  /\ __slqueue \in Task \cup {None} /\ __slata \in Task \cup {None}
  /\ pc \in [Task -> Labels]
  /\ atabuff \in [Task -> Request]
  /\ finish_ \in [Task -> BOOLEAN]
  /\ data \in [Task -> Task \cup {None}]
  /\ written \in [Task -> Task \cup {None}]
  /\ astray \in [Task -> BOOLEAN]
  /\ regs \in Task \cup {None}
  /\ device \in {"idle", "busy", "data"}
  /\ job \in [sector : Task \cup {None}, cmd : Cmd, from : Task \cup {None}, left : Nat]
  /\ intrq \in BOOLEAN
  /\ device # "idle" => job.sector \in Task /\ regs \in Task /\ job.left > 0
  /\ \A t \in Task : pc[t] = "command" => regs \in Task
  /\ stuck \in BOOLEAN

Unqueued == {"user", "queue_wait", "queue_push"}

(***************************************************************************)
(* However requests overlap, one is in the queue exactly once from         *)
(* queue_push until the handler has marked it as finished: it is finished  *)
(* once, before its task returns, and the handler never touches the buffer *)
(* of a task that has gone on.                                             *)
(***************************************************************************)
QueuedUntilFinished ==
  /\ IsInjective(__queue_ata)
  /\ Range(__queue_ata) = {t \in Task : pc[t] \notin Unqueued /\ ~finish_[t]}

(***************************************************************************)
(* Each lock is held exactly by the task between its wait and its signal:  *)
(* nobody sleeps with __slata, whoever else waits for it.                  *)
(***************************************************************************)
AtaLockOwners ==
  \A t \in Task :
    /\ __slqueue = t <=> pc[t] = "queue_push"
    /\ __slata = t <=> pc[t] \in {"loop", "sleep", "unlock"}

(***************************************************************************)
(* No two requests ever overlap, nor does one come while the device is     *)
(* still at work on the further sectors of another, whose task returned    *)
(* after the first.                                                        *)
(***************************************************************************)
Solo ==
  /\ \A t, u \in Task : pc[t] # "user" /\ pc[u] # "user" => t = u
  /\ \A t \in Task : pc[t] \in Unqueued \ {"user"} => device = "idle"

OwnSector ==
  \A t \in Task :
    pc[t] = "unlock" => IF Reads(t) THEN data[t] = t \/ astray[t] ELSE written[t] = t

(***************************************************************************)
(* Requests that do not overlap read and write their own sector, with the  *)
(* interrupt before, between or after their last steps; unless a task      *)
(* reads into a buffer of its own and the interrupt comes while another    *)
(* task runs: then the data is in the memory of that one.                  *)
(***************************************************************************)
SoloOwnSector == []Solo => []OwnSector

\* A writer sleeps, though its request is finished.
Missed(t) == pc[t] = "asleep" /\ finish_[t] /\ Writes(t)

(***************************************************************************)
(* Each request that overlaps no other returns.  A reader always does, for *)
(* ata_wait keeps it from sleeping before its data is there; a writer,     *)
(* unless the interrupt comes between its test of finish_ and sleep, or a  *)
(* tick sends it to sleep once more: then its only wakeup is lost.         *)
(***************************************************************************)
SoloServed ==
  []Solo => \A t \in Task : pc[t] = "queue_wait" ~> (pc[t] = "user" \/ Missed(t))
=============================================================================
