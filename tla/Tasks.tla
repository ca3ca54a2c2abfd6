-------------------------------- MODULE Tasks --------------------------------
(***************************************************************************)
(* The task subsystem of hoo (kern/sched): the round-robin scheduler,      *)
(* sleep and wakeup, fork, wait_child, exit and the reaper kill, on one    *)
(* CPU whose timer and device interrupts arrive between any two steps of   *)
(* code that runs with interrupts enabled.                                 *)
(*                                                                         *)
(* What runs with IF=0 on one CPU cannot be interleaved with anything, so  *)
(* a timer interrupt up to switch_to is one step, and so is the part of    *)
(* sleep between disable_intr and switch_to.  The wakeup of a device       *)
(* interrupt takes the same steps as the wakeup of exit: it can spin on    *)
(* __sl_tasks half way.  System calls go through a trap gate and run with  *)
(* IF=1: every access of theirs to shared state is a step of its own.      *)
(* One call of a list or queue operation is one step.                      *)
(***************************************************************************)
EXTENDS Naturals, Sequences, SequencesExt

CONSTANTS
  Task,       \* the task control blocks, by thread id
  Hoo,        \* the boot thread (TID_HOO), which becomes the reaper
  Device,     \* the resources that interrupt handlers wake tasks on
  Isr,        \* the frame of a device interrupt handler
  None,       \* the kernel's null
  TIMETICKS,  \* length of a time slice
  MaxNest     \* bound: timer frames on one kernel stack

ASSUME TasksAssumption ==
  /\ Hoo \in Task
  /\ Isr \notin Task
  /\ None \notin Task \cup Device \cup {Isr}
  /\ Task \cap Device = {}
  /\ TIMETICKS \in Nat
  /\ MaxNest \in Nat

VARIABLES
  ready,      \* __queue_ready
  running,    \* __queue_running
  sleeping,   \* __list_sleeping
  expired,    \* __list_expired
  sl_tasks,   \* __sl_tasks: the frame that took it, or None
  ctx,        \* the task on whose kernel stack the CPU runs
  intr,       \* EFLAGS.IF
  pc,         \* the next step of each frame
  tails,      \* timer frames on each stack that have yet to return
  esp,        \* the task whose stack the stack pointer of each PCB points to
  idx,        \* local: the list index of wakeup and of kill
  node,       \* local: the node a frame holds
  res,        \* local: the resource slept or woken on
  ticks,      \* ticks_ of each PCB
  sleep_,     \* sleep_ of each PCB
  parent,     \* parent_ of each PCB
  halt        \* "no", "panic", or "wild": a PCB led to another task's stack

queues == <<ready, running, sleeping, expired>>
locals == <<idx, node, res>>
pcb    == <<ticks, sleep_, parent>>
vars   == <<queues, sl_tasks, ctx, intr, pc, tails, esp, locals, pcb, halt>>

Frame    == Task \cup {Isr}
Resource == Task \cup Device  \* a task stands for the spinlock of its sys_wait

(***************************************************************************)
(* The CPU executes the device interrupt handler when there is one, else   *)
(* the timer frames on the current stack, else the code below them.        *)
(***************************************************************************)
Cpu == IF pc[Isr] = "idle" THEN ctx ELSE Isr

At(f, label) ==
  /\ halt = "no"
  /\ f = Cpu
  /\ pc[f] = label
  /\ f # Isr => tails[f] = 0

Goto(f, label) == pc' = [pc EXCEPT ![f] = label]

Panic(condition) == halt' = IF condition THEN "panic" ELSE halt

Current == IF running = <<>> THEN None ELSE Head(running)

\* wait(&__sl_tasks) spins until this holds.
Take(f)  == sl_tasks = None /\ sl_tasks' = f
Signal   == sl_tasks' = None

Init ==
  /\ ready = <<>> /\ running = <<Hoo>> /\ sleeping = <<>> /\ expired = <<>>
  /\ sl_tasks = None
  /\ ctx = Hoo
  /\ intr = TRUE
  /\ pc = [f \in Frame |->
             CASE f = Hoo -> "boot" [] f = Isr -> "idle" [] OTHER -> "unborn"]
  /\ tails = [t \in Task |-> 0]
  /\ esp = [t \in Task |-> t]
  /\ idx = [f \in Frame |-> 1]
  /\ node = [f \in Frame |-> None]
  /\ res = [f \in Frame |-> None]
  /\ ticks = [t \in Task |-> TIMETICKS]
  /\ sleep_ = [t \in Task |-> None]
  /\ parent = [t \in Task |-> None]
  /\ halt = "no"
-----------------------------------------------------------------------------
(***************************************************************************)
(* scheduler(): the current task stays while it has time left and is not   *)
(* going to sleep; else the head of the ready queue replaces it.           *)
(***************************************************************************)
HasTime == Current # None /\ sleep_[Current] = None /\ ticks[Current] > 0

\* Slips in Reschedule: the preempted task goes to the head of the ready queue;
\* it is dropped; it is left in the running queue.
Reschedule_PushesHead(slp) ==
  /\ ready # <<>>
  /\ running' = <<Head(ready)>>
  /\ sleeping' = IF Current # None /\ slp[Current] # None
                 THEN Append(sleeping, Current) ELSE sleeping
  /\ ready' = IF Current # None /\ slp[Current] = None
              THEN <<Current>> \o Tail(ready) ELSE Tail(ready)

Reschedule_DropsCurrent(slp) ==
  /\ ready # <<>>
  /\ running' = <<Head(ready)>>
  /\ sleeping' = IF Current # None /\ slp[Current] # None
                 THEN Append(sleeping, Current) ELSE sleeping
  /\ ready' = Tail(ready)

Reschedule_KeepsRunning(slp) ==
  /\ ready # <<>>
  /\ running' = Append(running, Head(ready))
  /\ sleeping' = IF Current # None /\ slp[Current] # None
                 THEN Append(sleeping, Current) ELSE sleeping
  /\ ready' = IF Current # None /\ slp[Current] = None
              THEN Append(Tail(ready), Current) ELSE Tail(ready)

\* Lines 175-184, with the sleep_ fields slp that the scheduler reads.
Reschedule(slp) ==
  /\ ready # <<>>
  /\ running' = Append(IF running = <<>> THEN <<>> ELSE Tail(running), Head(ready))
  /\ sleeping' = IF Current # None /\ slp[Current] # None
                 THEN Append(sleeping, Current) ELSE sleeping
  /\ ready' = IF Current # None /\ slp[Current] = None
              THEN Append(Tail(ready), Current) ELSE Tail(ready)

\* A slip: the two arguments are swapped when the stack pointer is stored.
SwitchTo_StoresInNext(cur, next) ==
  /\ esp' = [esp EXCEPT ![next] = ctx]
  /\ ctx' = next
  /\ halt' = halt

\* switch_to(cur, next): the PCB of cur, if any, remembers the stack in use.
SwitchTo(cur, next) ==
  /\ esp' = IF cur = None THEN esp ELSE [esp EXCEPT ![cur] = ctx]
  /\ ctx' = esp'[next]
  /\ halt' = IF esp'[next] = next THEN halt ELSE "wild"

\* A slip: the test of __sl_tasks at the head of scheduler is left out.
TimerArrives_IgnoresLock == halt = "no" /\ intr /\ pc[Isr] = "idle"

(***************************************************************************)
(* A timer interrupt; scheduler returns at once while __sl_tasks is held.  *)
(***************************************************************************)
TimerArrives ==
  /\ halt = "no" /\ intr /\ pc[Isr] = "idle"
  /\ sl_tasks = None

TimerTick ==
  /\ TimerArrives
  /\ HasTime
  /\ ticks' = [ticks EXCEPT ![Current] = @ - 1]
  /\ UNCHANGED <<queues, sl_tasks, ctx, intr, pc, tails, esp, locals, sleep_,
                 parent, halt>>

NewSlice == ticks' = IF Current # None /\ sleep_[Current] = None
                     THEN [ticks EXCEPT ![Current] = TIMETICKS] ELSE ticks

TimerIdle ==
  /\ TimerArrives
  /\ ~HasTime
  /\ ready = <<>>
  /\ NewSlice
  /\ UNCHANGED <<queues, sl_tasks, ctx, intr, pc, tails, esp, locals, sleep_,
                 parent, halt>>

TimerSwitch ==
  /\ TimerArrives
  /\ ~HasTime
  /\ tails[ctx] < MaxNest
  /\ NewSlice
  /\ Reschedule(sleep_)
  /\ SwitchTo(Current, Head(ready))
  /\ tails' = [tails EXCEPT ![ctx] = @ + 1]
  /\ intr' = FALSE
  /\ UNCHANGED <<expired, sl_tasks, pc, locals, sleep_, parent>>

\* Resumed in a timer interrupt: the last signal of scheduler, then iret.
TimerReturn ==
  /\ halt = "no" /\ pc[Isr] = "idle"
  /\ tails[ctx] > 0
  /\ tails' = [tails EXCEPT ![ctx] = @ - 1]
  /\ Signal
  /\ intr' = TRUE
  /\ UNCHANGED <<queues, ctx, pc, esp, locals, pcb, halt>>

\* The first run of a new task: isr_part3 and mode_ring3 enter ring 3.
EnterRing3(t) ==
  /\ At(t, "start")
  /\ Goto(t, "user")
  /\ intr' = TRUE
  /\ UNCHANGED <<queues, sl_tasks, ctx, tails, esp, locals, pcb, halt>>
-----------------------------------------------------------------------------
(***************************************************************************)
(* sleep(resource, lock).  wait_child sleeps on the caller's own spinlock, *)
(* a driver on its device; hoo sleeps while it loads the built-in programs *)
(* from the disk.                                                          *)
(***************************************************************************)
CallSleep(t, r) ==
  /\ \/ At(t, "user") /\ r \in {t} \cup Device
     \/ At(t, "boot") /\ r \in Device
  /\ res' = [res EXCEPT ![t] = r]
  /\ Goto(t, "sleep")
  /\ UNCHANGED <<queues, sl_tasks, ctx, intr, tails, esp, idx, node, pcb, halt>>

\* Lines 212-217: with no ready task scheduler comes straight back.
Sleep(t) ==
  /\ At(t, "sleep")
  /\ sl_tasks = None
  /\ node' = [node EXCEPT ![t] = Current]
  /\ sleep_' = [sleep_ EXCEPT ![Current] = res[t]]
  /\ Goto(t, "slept")
  /\ intr' = FALSE
  /\ IF ready = <<>>
     THEN UNCHANGED <<queues, ctx, esp, halt>>
     ELSE Reschedule(sleep_') /\ SwitchTo(Current, Head(ready)) /\ UNCHANGED expired
  /\ UNCHANGED <<sl_tasks, tails, idx, res, ticks, parent>>

\* The last signal of scheduler and enable_intr.
Awake(t) ==
  /\ At(t, "slept")
  /\ Signal
  /\ intr' = TRUE
  /\ Goto(t, "awake")
  /\ UNCHANGED <<queues, ctx, tails, esp, locals, pcb, halt>>

SleepReturn(t) ==
  /\ At(t, "awake")
  /\ sleep_' = [sleep_ EXCEPT ![node[t]] = None]
  /\ node' = [node EXCEPT ![t] = None]
  /\ res' = [res EXCEPT ![t] = None]
  /\ Goto(t, IF t = Hoo THEN "boot" ELSE "user")
  /\ UNCHANGED <<queues, sl_tasks, ctx, intr, tails, esp, idx, ticks, parent, halt>>
-----------------------------------------------------------------------------
(***************************************************************************)
(* wakeup(resource), in an interrupt handler or in exit, without any lock  *)
(* on the list of sleeping tasks; and task_ready.                          *)
(***************************************************************************)
DeviceInterrupt(d) ==
  /\ halt = "no" /\ intr /\ pc[Isr] = "idle"
  /\ intr' = FALSE
  /\ res' = [res EXCEPT ![Isr] = d]
  /\ Goto(Isr, "wakeup")
  /\ UNCHANGED <<queues, sl_tasks, ctx, tails, esp, idx, node, pcb, halt>>

\* A slip: the list index starts at 0.
WakeupDone_FromZero(f) ==
  /\ At(f, "wakeup")
  /\ idx[f] > Len(sleeping)
  /\ idx' = [idx EXCEPT ![f] = 0]
  /\ res' = [res EXCEPT ![f] = None]
  /\ Goto(f, IF f = Isr THEN "idle" ELSE "exit_lock")
  /\ intr' = (f = Isr \/ intr)
  /\ UNCHANGED <<queues, sl_tasks, ctx, tails, esp, node, pcb, halt>>

WakeupDone(f) ==
  /\ At(f, "wakeup")
  /\ idx[f] > Len(sleeping)
  /\ idx' = [idx EXCEPT ![f] = 1]
  /\ res' = [res EXCEPT ![f] = None]
  /\ Goto(f, IF f = Isr THEN "idle" ELSE "exit_lock")
  /\ intr' = (f = Isr \/ intr)
  /\ UNCHANGED <<queues, sl_tasks, ctx, tails, esp, node, pcb, halt>>

WakeupNext(f) ==
  /\ At(f, "wakeup")
  /\ idx[f] <= Len(sleeping)
  /\ Goto(f, "find")
  /\ UNCHANGED <<queues, sl_tasks, ctx, intr, tails, esp, locals, pcb, halt>>

WakeupFind(f) ==
  /\ At(f, "find")
  /\ Panic(idx[f] > Len(sleeping))
  /\ IF idx[f] > Len(sleeping)
     THEN UNCHANGED <<pc, node>>
     ELSE /\ node' = [node EXCEPT ![f] = sleeping[idx[f]]]
          /\ Goto(f, "compare")
  /\ UNCHANGED <<queues, sl_tasks, ctx, intr, tails, esp, idx, res, pcb>>

WakeupSkip(f) ==
  /\ At(f, "compare")
  /\ sleep_[node[f]] # res[f]
  /\ idx' = [idx EXCEPT ![f] = @ + 1]
  /\ node' = [node EXCEPT ![f] = None]
  /\ Goto(f, "wakeup")
  /\ UNCHANGED <<queues, sl_tasks, ctx, intr, tails, esp, res, pcb, halt>>

\* A slip: wakeup clears sleep_ while the node is still in the list.
WakeupMatch_ClearsFirst(f) ==
  /\ At(f, "compare")
  /\ sleep_[node[f]] = res[f]
  /\ sleep_' = [sleep_ EXCEPT ![node[f]] = None]
  /\ Goto(f, "remove")
  /\ UNCHANGED <<queues, sl_tasks, ctx, intr, tails, esp, locals, ticks, parent, halt>>

WakeupMatch(f) ==
  /\ At(f, "compare")
  /\ sleep_[node[f]] = res[f]
  /\ Goto(f, "remove")
  /\ UNCHANGED <<queues, sl_tasks, ctx, intr, tails, esp, locals, pcb, halt>>

\* A slip: the node is found but not taken out of the list.
WakeupRemove_OnlyFinds(f) ==
  /\ At(f, "remove")
  /\ Goto(f, "ready_wait")
  /\ UNCHANGED <<queues, sl_tasks, ctx, intr, tails, esp, locals, pcb, halt>>

WakeupRemove(f) ==
  /\ At(f, "remove")
  /\ Panic(idx[f] > Len(sleeping))
  /\ IF idx[f] > Len(sleeping)
     THEN UNCHANGED <<pc, node, sleeping>>
     ELSE /\ node' = [node EXCEPT ![f] = sleeping[idx[f]]]
          /\ sleeping' = RemoveAt(sleeping, idx[f])
          /\ Goto(f, "ready_wait")
  /\ UNCHANGED <<ready, running, expired, sl_tasks, ctx, intr, tails, esp, idx,
                 res, pcb>>

ReadyWait(f) ==
  \/ /\ At(f, "ready_wait") /\ Take(f)
     /\ Goto(f, "ready_push")
     /\ UNCHANGED <<queues, ctx, intr, tails, esp, locals, pcb, halt>>
  \/ /\ At(f, "fork_wait") /\ Take(f)
     /\ Goto(f, "fork_push")
     /\ UNCHANGED <<queues, ctx, intr, tails, esp, locals, pcb, halt>>

\* queue_push and signal; the caller is wakeup, or fork, which returns.
ReadyPush(f) ==
  /\ \/ At(f, "ready_push") /\ Goto(f, "wakeup")
     \/ At(f, "fork_push") /\ Goto(f, IF f = Hoo THEN "kill" ELSE "user")
  /\ ready' = Append(ready, node[f])
  /\ Signal
  /\ node' = [node EXCEPT ![f] = None]
  /\ UNCHANGED <<running, sleeping, expired, ctx, intr, tails, esp, idx, res,
                 pcb, halt>>
-----------------------------------------------------------------------------
(***************************************************************************)
(* fork(): a thread id is allocated, then get_current_pcb names the parent *)
(* whose PCB is copied, then task_ready queues the child.                  *)
(***************************************************************************)
Fork(t, child) ==
  /\ At(t, "user") \/ At(t, "boot")
  /\ pc[child] = "unborn"
  /\ pc' = [pc EXCEPT ![t] = "fork_pcb", ![child] = "start"]
  /\ node' = [node EXCEPT ![t] = child]
  /\ UNCHANGED <<queues, sl_tasks, ctx, intr, tails, esp, idx, res, pcb, halt>>

\* get_current_pcb() of fork and of exit: its wait.
GetCurrentPcb(t) ==
  /\ \/ At(t, "fork_pcb") /\ Goto(t, "fork_copy")
     \/ At(t, "exit_pcb") /\ Goto(t, "exit_free")
  /\ Take(t)
  /\ UNCHANGED <<queues, ctx, intr, tails, esp, locals, pcb, halt>>

ForkCopy(t) ==
  /\ At(t, "fork_copy")
  /\ Signal
  /\ Panic(Current = None)
  /\ ticks' = [ticks EXCEPT ![node[t]] = TIMETICKS]
  /\ sleep_' = [sleep_ EXCEPT ![node[t]] = None]
  /\ parent' = [parent EXCEPT ![node[t]] = Current]
  /\ esp' = [esp EXCEPT ![node[t]] = node[t]]
  /\ Goto(t, "fork_wait")
  /\ UNCHANGED <<queues, ctx, intr, tails, locals>>
-----------------------------------------------------------------------------
(***************************************************************************)
(* exit(), which runs with interrupts enabled to its end.                  *)
(***************************************************************************)
CallExit(t) ==
  /\ At(t, "user")
  /\ Goto(t, "exit_pcb")
  /\ UNCHANGED <<queues, sl_tasks, ctx, intr, tails, esp, locals, pcb, halt>>

\* The signal of get_current_pcb; the release of what the task owns.
ExitFree(t) ==
  /\ At(t, "exit_free")
  /\ Signal
  /\ Panic(Current = None)
  /\ Goto(t, "exit_wake")
  /\ UNCHANGED <<queues, ctx, intr, tails, esp, locals, pcb>>

\* The PCB slot of hoo's thread id is never filled, that of a dead parent is
\* zeroed: neither has a sleep_ that a sleeping task could match.
ExitWake(t) ==
  /\ At(t, "exit_wake")
  /\ IF parent[t] \in {None, Hoo} \/ pc[parent[t]] = "dead"
     THEN Goto(t, "exit_lock") /\ UNCHANGED res
     ELSE Goto(t, "wakeup") /\ res' = [res EXCEPT ![t] = sleep_[parent[t]]]
  /\ UNCHANGED <<queues, sl_tasks, ctx, intr, tails, esp, idx, node, pcb, halt>>

ExitLock(t) ==
  /\ At(t, "exit_lock")
  /\ Take(t)
  /\ Goto(t, "exit_expire")
  /\ UNCHANGED <<queues, ctx, intr, tails, esp, locals, pcb, halt>>

ExitExpire(t) ==
  /\ At(t, "exit_expire")
  /\ Panic(Current = None)
  /\ IF Current = None
     THEN UNCHANGED <<running, expired>>
     ELSE running' = Tail(running) /\ expired' = Append(expired, Current)
  /\ Signal
  /\ Goto(t, "exit_sched")
  /\ UNCHANGED <<ready, sleeping, ctx, intr, tails, esp, locals, pcb>>

\* scheduler() as exit calls it: the running queue is empty, cur is null.
ExitSchedLock(t) ==
  /\ At(t, "exit_sched")
  /\ IF sl_tasks = None
     THEN sl_tasks' = t /\ Goto(t, "exit_pick")
     ELSE UNCHANGED sl_tasks /\ Goto(t, "returned")
  /\ UNCHANGED <<queues, ctx, intr, tails, esp, locals, pcb, halt>>

ExitPick(t) ==
  /\ At(t, "exit_pick")
  /\ Signal
  /\ IF ready = <<>>
     THEN UNCHANGED <<queues, node>> /\ Goto(t, "returned")
     ELSE /\ Reschedule(sleep_)
          /\ node' = [node EXCEPT ![t] = Head(ready)]
          /\ Goto(t, "exit_switch")
          /\ UNCHANGED expired
  /\ UNCHANGED <<ctx, intr, tails, esp, idx, res, pcb, halt>>

ExitSwitch(t) ==
  /\ At(t, "exit_switch")
  /\ SwitchTo(None, node[t])
  /\ UNCHANGED <<queues, sl_tasks, intr, pc, tails, locals, pcb>>
-----------------------------------------------------------------------------
(***************************************************************************)
(* kill(), which hoo calls for ever.                                       *)
(***************************************************************************)
\* A slip: the loop variable keeps its value from one call to the next.
KillNext_NoRestart(t) ==
  /\ At(t, "kill")
  /\ idx[t] <= Len(expired)
  /\ node' = [node EXCEPT ![t] = expired[idx[t]]]
  /\ expired' = RemoveAt(expired, idx[t])
  /\ Goto(t, "kill_free")
  /\ UNCHANGED <<ready, running, sleeping, sl_tasks, ctx, intr, tails, esp, idx,
                 res, pcb, halt>>

KillNext(t) ==
  /\ At(t, "kill")
  /\ IF idx[t] > Len(expired)
     THEN idx' = [idx EXCEPT ![t] = 1] /\ UNCHANGED <<expired, node, pc>>
     ELSE /\ node' = [node EXCEPT ![t] = expired[idx[t]]]
          /\ expired' = RemoveAt(expired, idx[t])
          /\ Goto(t, "kill_free")
          /\ UNCHANGED idx
  /\ UNCHANGED <<ready, running, sleeping, sl_tasks, ctx, intr, tails, esp, res,
                 pcb, halt>>

\* Both stacks and the page directory are released, the PCB is zeroed.
KillFree(t) ==
  /\ At(t, "kill_free")
  /\ pc' = [pc EXCEPT ![t] = "kill", ![node[t]] = "dead"]
  /\ idx' = [idx EXCEPT ![t] = @ + 1]
  /\ node' = [node EXCEPT ![t] = None]
  /\ UNCHANGED <<queues, sl_tasks, ctx, intr, tails, esp, res, pcb, halt>>
-----------------------------------------------------------------------------
Timer == TimerTick \/ TimerIdle \/ TimerSwitch

\* What user code chooses to do.
Call(t) ==
  \/ \E r \in Resource : CallSleep(t, r)
  \/ \E child \in Task : Fork(t, child)
  \/ CallExit(t)

WakeupStep(f) ==
  \/ WakeupDone(f) \/ WakeupNext(f) \/ WakeupFind(f) \/ WakeupSkip(f)
  \/ WakeupMatch(f) \/ WakeupRemove(f) \/ ReadyWait(f) \/ ReadyPush(f)

TaskStep(t) ==
  \/ EnterRing3(t) \/ Sleep(t) \/ Awake(t) \/ SleepReturn(t)
  \/ GetCurrentPcb(t) \/ ForkCopy(t)
  \/ ExitFree(t) \/ ExitWake(t) \/ ExitLock(t) \/ ExitExpire(t)
  \/ ExitSchedLock(t) \/ ExitPick(t) \/ ExitSwitch(t)
  \/ KillNext(t) \/ KillFree(t)

\* What the CPU goes on with by itself.
CpuStep ==
  \/ TimerReturn
  \/ \E f \in Frame : WakeupStep(f)
  \/ \E t \in Task : TaskStep(t)

Next ==
  \/ Timer
  \/ \E d \in Device : DeviceInterrupt(d)
  \/ \E t \in Task : Call(t)
  \/ CpuStep

Spec == Init /\ [][Next]_vars

(***************************************************************************)
(* The CPU always goes on; a time slice is long enough for the task it is  *)
(* given to to leave the last of its timer frames, and to make a step of   *)
(* its own; not every tick falls between a wait and a signal of            *)
(* __sl_tasks.                                                             *)
(***************************************************************************)
LastReturn(t) == ctx = t /\ tails[t] = 1 /\ TimerReturn

Fairness ==
  /\ WF_vars(CpuStep)
  /\ SF_vars(Timer)
  /\ \A t \in Task : SF_vars(LastReturn(t)) /\ SF_vars(WakeupStep(t) \/ TaskStep(t))

FairSpec == Spec /\ Fairness
-----------------------------------------------------------------------------
Labels == {"idle", "unborn", "dead", "boot", "start", "user", "sleep", "slept",
           "awake", "wakeup", "find", "compare", "remove", "ready_wait",
           "ready_push", "fork_pcb", "fork_copy", "fork_wait", "fork_push",
           "exit_pcb", "exit_free", "exit_wake", "exit_lock", "exit_expire",
           "exit_sched", "exit_pick", "exit_switch", "returned", "kill",
           "kill_free"}

FieldTypes ==
  /\ ready \in Seq(Task) /\ running \in Seq(Task)
  /\ sleeping \in Seq(Task) /\ expired \in Seq(Task)
  /\ sl_tasks \in Frame \cup {None}
  /\ ctx \in Task
  /\ intr \in BOOLEAN
  /\ pc \in [Frame -> Labels]
  /\ tails \in [Task -> Nat]
  /\ esp \in [Task -> Task]
  /\ idx \in [Frame -> Nat \ {0}]
  /\ node \in [Frame -> Task \cup {None}]
  /\ res \in [Frame -> Resource \cup {None}]
  /\ ticks \in [Task -> Nat]
  /\ sleep_ \in [Task -> Resource \cup {None}]
  /\ parent \in [Task -> Task \cup {None}]
  /\ halt \in {"no", "panic", "wild"}

\* The labels at which the local node of a frame is dereferenced.
Loaded == {"compare", "remove", "ready_wait", "ready_push", "fork_pcb", "fork_copy",
           "fork_wait", "fork_push", "exit_switch", "kill_free"}

NodeLoaded == \A f \in Frame : pc[f] \in Loaded => node[f] \in Task

(***************************************************************************)
(* The type invariant: every variable has its type, list indexes start at  *)
(* 1, and no frame dereferences a node it has not got.                     *)
(***************************************************************************)
TypeOK == FieldTypes /\ NodeLoaded

\* The labels between a wait(&__sl_tasks) and its signal.
Holding == {"fork_copy", "ready_push", "fork_push", "exit_free", "exit_expire",
            "exit_pick"}

(***************************************************************************)
(* __sl_tasks is held exactly by the frame that is between its wait and    *)
(* its signal, and that frame is on the CPU: no preempted, sleeping or     *)
(* ended task holds it.  scheduler relies on this when it skips a tick     *)
(* instead of waiting, and when the resumed side signals once more (the    *)
(* signals at lines 191 and 197 never open a section of somebody else).    *)
(***************************************************************************)
LockOwner ==
  /\ \A f \in Frame : sl_tasks = f <=> pc[f] \in Holding
  /\ sl_tasks \in {None, ctx, Isr}
  /\ sl_tasks = ctx => tails[ctx] = 0

\* The labels at which a frame alone holds its node, between two queues.
InHand == {"ready_wait", "ready_push", "fork_pcb", "fork_copy", "fork_wait",
           "fork_push", "kill_free"}

Hand == {node[f] : f \in {g \in Frame : pc[g] \in InHand}}

(***************************************************************************)
(* No task is ever lost or in two places, although wakeup and kill take no *)
(* lock: each task between its creation and its burial is once in one      *)
(* queue, or in the hand of the one frame that moves it.                   *)
(***************************************************************************)
OnePlace ==
  /\ \A q \in {ready, running, sleeping, expired} : IsInjective(q)
  /\ \A f, g \in Frame :
       pc[f] \in InHand /\ pc[g] \in InHand /\ node[f] = node[g] => f = g
  /\ LET places == <<Range(ready), Range(running), Range(sleeping),
                     Range(expired), Hand>>
     IN  /\ \A i, j \in 1..5 : i # j => places[i] \cap places[j] = {}
         /\ UNION Range(places) = {t \in Task : pc[t] \notin {"unborn", "dead"}}

(***************************************************************************)
(* get_current_pcb gives the task that calls it: the running queue holds   *)
(* the owner of the stack in use, and nobody else, save in the last steps  *)
(* of exit.                                                                *)
(***************************************************************************)
CurrentRuns ==
  halt # "wild" =>
    running = CASE pc[ctx] \in {"exit_sched", "exit_pick"} -> <<>>
                [] pc[ctx] = "exit_switch" -> <<node[ctx]>>
                [] OTHER -> <<ctx>>

(***************************************************************************)
(* exit never comes back to the program that called it: at its end there   *)
(* is always a ready task, for hoo never sleeps once there is another.     *)
(***************************************************************************)
ExitNeverReturns == \A t \in Task : pc[t] # "returned"

(***************************************************************************)
(* A task in the sleeping list has a resource to be woken by, and stands   *)
(* within sleep: inside scheduler or, when a tick came between lines 221   *)
(* and 222, just behind it.                                                *)
(***************************************************************************)
SleepersSleep ==
  \A t \in Range(sleeping) : sleep_[t] # None /\ pc[t] \in {"slept", "awake"}

(***************************************************************************)
(* The stack pointer in a PCB leads to the task's own stack; only a tick   *)
(* between the signal and the switch_to of an exit can store another.      *)
(***************************************************************************)
StackIsOwn == \A t \in Task : esp[t] # t => pc[esp[t]] \in {"exit_switch", "dead"}

(***************************************************************************)
(* The CPU moves to another stack only while __sl_tasks is free, whether   *)
(* by a tick, by sleep or by exit.                                         *)
(***************************************************************************)
LockStaysWithSwitch == [][ctx' # ctx => sl_tasks = None /\ sl_tasks' = None]_vars
-----------------------------------------------------------------------------
HeldBy(t, labels) == \E f \in Frame : pc[f] \in labels /\ node[f] = t

StageOf(t) ==
  CASE pc[t] \in {"unborn", "dead"} -> pc[t]
    [] t \in Range(ready) -> "ready"
    [] t \in Range(running) -> "running"
    [] t \in Range(sleeping) -> "sleeping"
    [] t \in Range(expired) -> "expired"
    [] HeldBy(t, {"ready_wait", "ready_push"}) -> "woken"
    [] HeldBy(t, {"kill_free"}) -> "reaped"
    [] OTHER -> "created"

Life == INSTANCE Lifecycle WITH stage <- [t \in Task |-> StageOf(t)], queue <- ready

(***************************************************************************)
(* Every step of scheduler, sleep, wakeup, fork, exit and kill is a step   *)
(* of the life of one task, or two that change places, or none: a wakeup   *)
(* takes only sleeping tasks, the ready queue is served in order, an       *)
(* expired task is only reaped.                                            *)
(***************************************************************************)
FollowsLifecycle == Life!Spec

\* The kernel has stopped, or an interrupt handler spins on __sl_tasks.
Stopped == halt # "no" \/ (pc[Isr] = "ready_wait" /\ sl_tasks # None)

(***************************************************************************)
(* Round robin starves nobody: a task in the ready queue comes to run.     *)
(***************************************************************************)
ReadyRuns ==
  \A t \in Task : t \in Range(ready) ~> (running = <<t>> \/ Stopped)

(***************************************************************************)
(* kill, which skips every other node of a pass over the expired list,     *)
(* comes to each of them in some pass.                                     *)
(***************************************************************************)
ExpiredReaped ==
  \A t \in Task : t \in Range(expired) ~> (pc[t] = "dead" \/ Stopped)

(***************************************************************************)
(* tasks.c:378 says that an expired process cannot go back the way it came *)
(* and must be scheduled away for good: no switch_to leads to its stack.   *)
(***************************************************************************)
ExpiredNotResumed ==
  [][ctx' # ctx => pc[ctx'] \notin {"exit_sched", "exit_pick", "exit_switch", "dead"}]_vars

(***************************************************************************)
(* tasks.c:318 says that wait_child waits for a child to end: a task that  *)
(* sleeps there has a child whose exit is still to wake it, if it ever had *)
(* a child.                                                                *)
(***************************************************************************)
WaitHasChild ==
  \A t \in Range(sleeping) :
    sleep_[t] = t /\ (\E c \in Task : parent[c] = t)
      => \E c \in Task : parent[c] = t
           /\ pc[c] \notin {"exit_lock", "exit_expire", "exit_sched", "exit_pick",
                            "exit_switch", "returned", "dead"}
=============================================================================
