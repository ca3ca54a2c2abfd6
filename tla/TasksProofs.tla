----------------------------- MODULE TasksProofs -----------------------------
(***************************************************************************)
(* Proofs about Tasks, for any set of tasks and devices, any time slice    *)
(* and any nesting of timer frames: the type invariant, the ownership of   *)
(* __sl_tasks, that the CPU changes stacks only while it is free, that no  *)
(* task is lost or in two places, that the running queue names the owner   *)
(* of the stack in use, that exit never comes back, and that every step is *)
(* one of the life of a task (Lifecycle).                                  *)
(*                                                                         *)
(* The first inductive invariant is Safe (types and lock), the second is   *)
(* Orderly, which adds the places of the tasks; each lemma Next... carries *)
(* one part over a step.  The places are carried over the few moves that a *)
(* step can be, and the same moves are the steps of Lifecycle.             *)
(***************************************************************************)
EXTENDS Tasks, DataLemmas, SequenceTheorems, TLAPS

\* list_remove keeps a list of tasks a list of tasks.
LEMMA RemoveAtType ==
  ASSUME NEW S, NEW q \in Seq(S), NEW i \in 1..Len(q)
  PROVE  RemoveAt(q, i) \in Seq(S)
BY DEF RemoveAt

\* queue_front of the running queue gives a task, or null when it is empty.
LEMMA CurrentType ==
  ASSUME FieldTypes
  PROVE  /\ Current \in Task \cup {None}
         /\ Current # None => running # <<>> /\ Current \in Task
         /\ running # <<>> => Current \in Task
<1>1. running # <<>> => Head(running) \in Task
  BY DEF FieldTypes
<1>2. QED
  BY <1>1 DEF Current

\* Lines 175-184 of scheduler move tasks between queues of tasks.
LEMMA RescheduleType ==
  ASSUME FieldTypes, NEW slp, Reschedule(slp)
  PROVE  /\ ready' \in Seq(Task) /\ running' \in Seq(Task)
         /\ sleeping' \in Seq(Task) /\ Head(ready) \in Task
<1>0. Current # None => Current \in Task
  BY CurrentType
<1>1. /\ ready \in Seq(Task) /\ ready # <<>> /\ running \in Seq(Task)
      /\ sleeping \in Seq(Task)
  BY DEF FieldTypes, Reschedule
<1>2. Head(ready) \in Task /\ Tail(ready) \in Seq(Task)
  BY <1>1
<1>3. running' \in Seq(Task)
  <2>1. (IF running = <<>> THEN <<>> ELSE Tail(running)) \in Seq(Task)
    BY <1>1
  <2>2. QED
    BY <2>1, <1>2 DEF Reschedule
<1>4. ready' \in Seq(Task)
  BY <1>0, <1>2 DEF Reschedule
<1>5. sleeping' \in Seq(Task)
  BY <1>0, <1>1 DEF Reschedule
<1>6. QED
  BY <1>2, <1>3, <1>4, <1>5

\* switch_to leads to the stack of some task and stores that of some task.
LEMMA SwitchToType ==
  ASSUME FieldTypes, NEW cur \in Task \cup {None}, NEW next \in Task, SwitchTo(cur, next)
  PROVE  esp' \in [Task -> Task] /\ ctx' \in Task /\ halt' \in {"no", "panic", "wild"}
BY DEF FieldTypes, SwitchTo

\* init_tasks_system gives every field a value of its type.
LEMMA InitType == Init => FieldTypes
BY TasksAssumption DEF Init, FieldTypes, Frame, Resource, Labels

\* Every step of the task subsystem keeps the types of the fields.
LEMMA NextType == FieldTypes /\ NodeLoaded /\ [Next]_vars => FieldTypes'
<1> SUFFICES ASSUME FieldTypes, NodeLoaded, [Next]_vars PROVE FieldTypes'
  OBVIOUS
<1> USE TasksAssumption
<1>0. /\ Current \in Task \cup {None}
      /\ Current # None => Current \in Task
  BY CurrentType
<1>1. ASSUME TimerTick PROVE FieldTypes'
  <2>1. ticks' \in [Task -> Nat]
    BY <1>0, <1>1 DEF FieldTypes, TimerTick, HasTime
  <2>2. QED
    BY <1>1, <2>1 DEF FieldTypes, TimerTick, queues, locals
<1>2. ASSUME TimerIdle PROVE FieldTypes'
  <2>1. ticks' \in [Task -> Nat]
    BY <1>0, <1>2 DEF FieldTypes, TimerIdle, NewSlice
  <2>2. QED
    BY <1>2, <2>1 DEF FieldTypes, TimerIdle, queues, locals
<1>3. ASSUME TimerSwitch PROVE FieldTypes'
  <2>1. ticks' \in [Task -> Nat]
    BY <1>0, <1>3 DEF FieldTypes, TimerSwitch, NewSlice
  <2>2. /\ ready' \in Seq(Task) /\ running' \in Seq(Task)
        /\ sleeping' \in Seq(Task) /\ Head(ready) \in Task
    BY <1>3, RescheduleType DEF TimerSwitch
  <2>3. esp' \in [Task -> Task] /\ ctx' \in Task /\ halt' \in {"no", "panic", "wild"}
    BY <1>0, <1>3, <2>2, SwitchToType DEF TimerSwitch
  <2>4. tails' \in [Task -> Nat] /\ intr' \in BOOLEAN
    <3>1. tails \in [Task -> Nat] /\ ctx \in Task
      BY DEF FieldTypes
    <3>2. tails' = [tails EXCEPT ![ctx] = @ + 1] /\ intr' = FALSE
      BY <1>3 DEF TimerSwitch
    <3>3. tails' \in [Task -> Nat]
      BY <3>1, <3>2
    <3>4. intr' \in BOOLEAN
      BY <3>2
    <3>5. QED
      BY <3>3, <3>4
  <2>5. UNCHANGED <<expired, sl_tasks, pc, idx, node, res, sleep_, parent>>
    BY <1>3 DEF TimerSwitch, locals
  <2>6. QED
    BY <2>1, <2>2, <2>3, <2>4, <2>5 DEF FieldTypes
<1>4. ASSUME TimerReturn PROVE FieldTypes'
  BY <1>4, SMTT(30) DEF FieldTypes, TimerReturn, queues, locals, pcb, Signal
<1>5. ASSUME NEW t \in Task, EnterRing3(t) PROVE FieldTypes'
  BY <1>5 DEF FieldTypes, EnterRing3, Goto, queues, locals, pcb, Labels, Frame
<1>6. ASSUME NEW t \in Task, NEW r \in Resource, CallSleep(t, r) PROVE FieldTypes'
  BY <1>6 DEF FieldTypes, CallSleep, Goto, queues, pcb, Labels, Frame
<1>7. ASSUME NEW t \in Task, Sleep(t) PROVE FieldTypes'
  <2>1. /\ node' \in [Frame -> Task \cup {None}]
        /\ sleep_' \in [Task -> Resource \cup {None}]
        /\ pc' \in [Frame -> Labels]
        /\ intr' \in BOOLEAN
    BY <1>0, <1>7 DEF FieldTypes, Sleep, Goto, Labels, Frame
  <2>2. UNCHANGED <<sl_tasks, tails, idx, res, ticks, parent>>
    BY <1>7 DEF Sleep
  <2>3. CASE ready = <<>>
    BY <1>7, <2>1, <2>2, <2>3 DEF FieldTypes, Sleep, queues
  <2>4. CASE ready # <<>>
    <3>1. /\ ready' \in Seq(Task) /\ running' \in Seq(Task)
          /\ sleeping' \in Seq(Task) /\ Head(ready) \in Task
      BY <1>7, <2>4, RescheduleType DEF Sleep
    <3>2. esp' \in [Task -> Task] /\ ctx' \in Task /\ halt' \in {"no", "panic", "wild"}
      BY <1>0, <1>7, <2>4, <3>1, SwitchToType DEF Sleep
    <3>3. UNCHANGED expired
      BY <1>7, <2>4 DEF Sleep
    <3>4. QED
      BY <2>1, <2>2, <3>1, <3>2, <3>3 DEF FieldTypes
  <2>5. QED
    BY <2>3, <2>4
<1>8. ASSUME NEW t \in Task, Awake(t) PROVE FieldTypes'
  BY <1>8 DEF FieldTypes, Awake, Signal, Goto, queues, locals, pcb, Labels, Frame
<1>9. ASSUME NEW t \in Task, SleepReturn(t) PROVE FieldTypes'
  BY <1>9 DEF FieldTypes, SleepReturn, Goto, queues, Labels, Frame
<1>10. ASSUME NEW d \in Device, DeviceInterrupt(d) PROVE FieldTypes'
  BY <1>10 DEF FieldTypes, DeviceInterrupt, Goto, queues, pcb, Labels, Frame, Resource
<1>11. ASSUME NEW f \in Frame, WakeupStep(f) PROVE FieldTypes'
  <2>1. ASSUME WakeupDone(f) PROVE FieldTypes'
    BY <2>1 DEF FieldTypes, WakeupDone, Goto, queues, pcb, Labels
  <2>2. ASSUME WakeupNext(f) PROVE FieldTypes'
    BY <2>2 DEF FieldTypes, WakeupNext, Goto, queues, locals, pcb, Labels
  <2>3. ASSUME WakeupFind(f) PROVE FieldTypes'
    <3>0. ASSUME idx[f] <= Len(sleeping) PROVE sleeping[idx[f]] \in Task
      BY <3>0 DEF FieldTypes
    <3>1. node' \in [Frame -> Task \cup {None}] /\ pc' \in [Frame -> Labels]
      <4>1. CASE idx[f] > Len(sleeping)
        BY <2>3, <4>1 DEF FieldTypes, WakeupFind
      <4>2. CASE idx[f] <= Len(sleeping)
        <5>1. node' = [node EXCEPT ![f] = sleeping[idx[f]]] /\ Goto(f, "compare")
          BY <2>3, <4>2 DEF FieldTypes, WakeupFind
        <5>2. QED
          BY <3>0, <4>2, <5>1 DEF FieldTypes, Goto, Labels
      <4>3. QED
        BY <4>1, <4>2 DEF FieldTypes
    <3>2. halt' \in {"no", "panic", "wild"}
      BY <2>3 DEF FieldTypes, WakeupFind, Panic
    <3>3. QED
      BY <2>3, <3>1, <3>2 DEF FieldTypes, WakeupFind, queues, pcb
  <2>4. ASSUME WakeupSkip(f) PROVE FieldTypes'
    BY <2>4, SMTT(30) DEF FieldTypes, WakeupSkip, Goto, queues, pcb, Labels
  <2>5. ASSUME WakeupMatch(f) PROVE FieldTypes'
    BY <2>5 DEF FieldTypes, WakeupMatch, Goto, queues, locals, pcb, Labels
  <2>6. ASSUME WakeupRemove(f) PROVE FieldTypes'
    <3>1. /\ node' \in [Frame -> Task \cup {None}]
          /\ pc' \in [Frame -> Labels]
          /\ sleeping' \in Seq(Task)
      <4>1. CASE idx[f] > Len(sleeping)
        BY <2>6, <4>1 DEF FieldTypes, WakeupRemove
      <4>2. CASE idx[f] <= Len(sleeping)
        <5>1. /\ node' = [node EXCEPT ![f] = sleeping[idx[f]]]
              /\ sleeping' = RemoveAt(sleeping, idx[f])
              /\ Goto(f, "ready_wait")
          BY <2>6, <4>2 DEF FieldTypes, WakeupRemove
        <5>2. idx[f] \in 1..Len(sleeping) /\ sleeping[idx[f]] \in Task
          BY <4>2, SMTT(30) DEF FieldTypes
        <5>3. sleeping' \in Seq(Task)
          BY <5>1, <5>2, RemoveAtType DEF FieldTypes
        <5>4. QED
          BY <5>1, <5>2, <5>3 DEF FieldTypes, Goto, Labels
      <4>3. QED
        BY <4>1, <4>2 DEF FieldTypes
    <3>2. halt' \in {"no", "panic", "wild"}
      BY <2>6 DEF FieldTypes, WakeupRemove, Panic
    <3>3. QED
      BY <2>6, <3>1, <3>2 DEF FieldTypes, WakeupRemove, pcb
  <2>7. ASSUME ReadyWait(f) PROVE FieldTypes'
    BY <2>7, ZenonT(30) DEF FieldTypes, ReadyWait, Take, Goto, queues, locals, pcb, Labels
  <2>8. ASSUME ReadyPush(f) PROVE FieldTypes'
    <3>1. node[f] \in Task
      BY <2>8 DEF NodeLoaded, Loaded, ReadyPush, At
    <3>2. pc' \in [Frame -> Labels]
      BY <2>8 DEF FieldTypes, ReadyPush, Goto, Labels
    <3>3. ready' \in Seq(Task)
      BY <2>8, <3>1 DEF FieldTypes, ReadyPush
    <3>4. node' \in [Frame -> Task \cup {None}]
      BY <2>8 DEF FieldTypes, ReadyPush
    <3>5. QED
      BY <2>8, <3>2, <3>3, <3>4 DEF FieldTypes, ReadyPush, Signal, pcb
  <2>9. QED
    BY <1>11, <2>1, <2>2, <2>3, <2>4, <2>5, <2>6, <2>7, <2>8 DEF WakeupStep
<1>12. ASSUME NEW t \in Task, NEW child \in Task, Fork(t, child) PROVE FieldTypes'
  BY <1>12 DEF FieldTypes, Fork, Goto, queues, pcb, Labels, Frame
<1>13. ASSUME NEW t \in Task, GetCurrentPcb(t) PROVE FieldTypes'
  BY <1>13 DEF FieldTypes, GetCurrentPcb, Take, Goto, queues, locals, pcb, Labels, Frame
<1>14. ASSUME NEW t \in Task, ForkCopy(t) PROVE FieldTypes'
  <2>1. node[t] \in Task
    BY <1>14 DEF NodeLoaded, Loaded, ForkCopy, At, Frame
  <2>2. /\ ticks' \in [Task -> Nat] /\ sleep_' \in [Task -> Resource \cup {None}]
        /\ parent' \in [Task -> Task \cup {None}] /\ esp' \in [Task -> Task]
    BY <1>0, <1>14, <2>1 DEF FieldTypes, ForkCopy
  <2>3. halt' \in {"no", "panic", "wild"} /\ pc' \in [Frame -> Labels]
    BY <1>14 DEF FieldTypes, ForkCopy, Panic, Goto, Labels, Frame
  <2>4. QED
    BY <1>14, <2>2, <2>3 DEF FieldTypes, ForkCopy, Signal, queues, locals
<1>15. ASSUME NEW t \in Task, CallExit(t) PROVE FieldTypes'
  BY <1>15 DEF FieldTypes, CallExit, Goto, queues, locals, pcb, Labels, Frame
<1>16. ASSUME NEW t \in Task, ExitFree(t) PROVE FieldTypes'
  BY <1>16 DEF FieldTypes, ExitFree, Signal, Panic, Goto, queues, locals, pcb, Labels, Frame
<1>17. ASSUME NEW t \in Task, ExitWake(t) PROVE FieldTypes'
  <2>1. pc' \in [Frame -> Labels]
    BY <1>17 DEF FieldTypes, ExitWake, Goto, Labels, Frame
  <2>2. res' \in [Frame -> Resource \cup {None}]
    <3>1. CASE parent[t] \in {None, Hoo} \/ pc[parent[t]] = "dead"
      BY <1>17, <3>1 DEF FieldTypes, ExitWake
    <3>2. CASE ~(parent[t] \in {None, Hoo} \/ pc[parent[t]] = "dead")
      <4>1. parent[t] \in Task
        BY <3>2 DEF FieldTypes
      <4>2. sleep_[parent[t]] \in Resource \cup {None}
        BY <4>1 DEF FieldTypes
      <4>3. res' = [res EXCEPT ![t] = sleep_[parent[t]]]
        BY <1>17, <3>2 DEF ExitWake
      <4>4. QED
        BY <4>2, <4>3 DEF FieldTypes
    <3>3. QED
      BY <3>1, <3>2
  <2>3. QED
    BY <1>17, <2>1, <2>2 DEF FieldTypes, ExitWake, queues, pcb
<1>18. ASSUME NEW t \in Task, ExitLock(t) PROVE FieldTypes'
  BY <1>18 DEF FieldTypes, ExitLock, Take, Goto, queues, locals, pcb, Labels, Frame
<1>19. ASSUME NEW t \in Task, ExitExpire(t) PROVE FieldTypes'
  <2>1. running' \in Seq(Task) /\ expired' \in Seq(Task)
    <3>1. CASE Current = None
      BY <1>19, <3>1 DEF FieldTypes, ExitExpire
    <3>2. CASE Current # None
      <4>1. running # <<>> /\ Current \in Task
        BY <3>2, CurrentType
      <4>2. running' = Tail(running) /\ expired' = Append(expired, Current)
        BY <1>19, <3>2 DEF ExitExpire
      <4>3. QED
        BY <4>1, <4>2 DEF FieldTypes
    <3>3. QED
      BY <3>1, <3>2
  <2>2. halt' \in {"no", "panic", "wild"} /\ pc' \in [Frame -> Labels]
    BY <1>19 DEF FieldTypes, ExitExpire, Panic, Goto, Labels, Frame
  <2>3. QED
    BY <1>19, <2>1, <2>2 DEF FieldTypes, ExitExpire, Signal, locals, pcb
<1>20. ASSUME NEW t \in Task, ExitSchedLock(t) PROVE FieldTypes'
  BY <1>20 DEF FieldTypes, ExitSchedLock, Goto, queues, locals, pcb, Labels, Frame
<1>21. ASSUME NEW t \in Task, ExitPick(t) PROVE FieldTypes'
  <2>1. pc' \in [Frame -> Labels]
    BY <1>21 DEF FieldTypes, ExitPick, Goto, Labels, Frame
  <2>2. CASE ready = <<>>
    BY <1>21, <2>1, <2>2 DEF FieldTypes, ExitPick, Signal, queues, pcb
  <2>3. CASE ready # <<>>
    <3>1. /\ ready' \in Seq(Task) /\ running' \in Seq(Task)
          /\ sleeping' \in Seq(Task) /\ Head(ready) \in Task
      BY <1>21, <2>3, RescheduleType DEF ExitPick
    <3>2. node' \in [Frame -> Task \cup {None}]
      BY <1>21, <2>3, <3>1 DEF FieldTypes, ExitPick
    <3>3. QED
      BY <1>21, <2>1, <2>3, <3>1, <3>2 DEF FieldTypes, ExitPick, Signal, pcb
  <2>4. QED
    BY <2>2, <2>3
<1>22. ASSUME NEW t \in Task, ExitSwitch(t) PROVE FieldTypes'
  <2>1. node[t] \in Task
    BY <1>22 DEF NodeLoaded, Loaded, ExitSwitch, At, Frame
  <2>2. esp' \in [Task -> Task] /\ ctx' \in Task /\ halt' \in {"no", "panic", "wild"}
    BY <1>22, <2>1, SwitchToType DEF ExitSwitch
  <2>3. QED
    BY <1>22, <2>2 DEF FieldTypes, ExitSwitch, queues, locals, pcb
<1>23. ASSUME NEW t \in Task, KillNext(t) PROVE FieldTypes'
  <2>1. CASE idx[t] > Len(expired)
    <3>1. idx' \in [Frame -> Nat \ {0}]
      <4>1. idx \in [Frame -> Nat \ {0}] /\ 1 \in Nat \ {0}
        BY DEF FieldTypes
      <4>2. idx' = [idx EXCEPT ![t] = 1]
        BY <1>23, <2>1 DEF KillNext
      <4>3. QED
        BY <4>1, <4>2
    <3>2. QED
      BY <1>23, <2>1, <3>1 DEF FieldTypes, KillNext, pcb
  <2>2. CASE idx[t] <= Len(expired)
    <3>1. /\ node' = [node EXCEPT ![t] = expired[idx[t]]]
          /\ expired' = RemoveAt(expired, idx[t])
          /\ Goto(t, "kill_free")
          /\ UNCHANGED idx
      BY <1>23, <2>2 DEF FieldTypes, KillNext, Frame
    <3>2. idx[t] \in 1..Len(expired) /\ expired[idx[t]] \in Task
      <4>1. idx[t] \in Nat \ {0} /\ expired \in Seq(Task)
        BY DEF FieldTypes, Frame
      <4>2. QED
        BY <2>2, <4>1
    <3>3. expired' \in Seq(Task)
      BY <3>1, <3>2, RemoveAtType DEF FieldTypes
    <3>4. node' \in [Frame -> Task \cup {None}] /\ pc' \in [Frame -> Labels]
      BY <3>1, <3>2 DEF FieldTypes, Goto, Labels, Frame
    <3>5. QED
      BY <1>23, <3>1, <3>3, <3>4 DEF FieldTypes, KillNext, pcb
  <2>3. idx[t] > Len(expired) \/ idx[t] <= Len(expired)
    <3>1. idx[t] \in Nat \ {0} /\ expired \in Seq(Task)
      BY DEF FieldTypes, Frame
    <3>2. QED
      BY <3>1
  <2>4. QED
    BY <2>1, <2>2, <2>3
<1>24. ASSUME NEW t \in Task, KillFree(t) PROVE FieldTypes'
  <2>1. node[t] \in Task
    BY <1>24 DEF NodeLoaded, Loaded, KillFree, At, Frame
  <2>2. pc' \in [Frame -> Labels]
    BY <1>24, <2>1 DEF FieldTypes, KillFree, Labels, Frame
  <2>3. idx' \in [Frame -> Nat \ {0}]
    <3>1. idx \in [Frame -> Nat \ {0}] /\ t \in Frame
      BY DEF FieldTypes, Frame
    <3>2. idx[t] \in Nat \ {0}
      BY <3>1
    <3>3. idx[t] + 1 \in Nat \ {0}
      BY <3>2
    <3>4. idx' = [idx EXCEPT ![t] = idx[t] + 1]
      BY <1>24 DEF KillFree
    <3>5. QED
      BY <3>1, <3>3, <3>4
  <2>4. QED
    BY <1>24, <2>2, <2>3 DEF FieldTypes, KillFree, queues, pcb
<1>25. CASE UNCHANGED vars
  BY <1>25 DEF FieldTypes, vars, queues, locals, pcb
<1>26. QED
  BY <1>1, <1>2, <1>3, <1>4, <1>5, <1>6, <1>7, <1>8, <1>9, <1>10, <1>11, <1>12,
     <1>13, <1>14, <1>15, <1>16, <1>17, <1>18, <1>19, <1>20, <1>21, <1>22, <1>23,
     <1>24, <1>25 DEF Next, Timer, Call, CpuStep, TaskStep

\* spinlock_init leaves __sl_tasks free, and nobody is in a section.
LEMMA InitLock == Init => LockOwner
BY TasksAssumption DEF Init, LockOwner, Frame, Holding

\* Every step keeps __sl_tasks with the frame between its wait and its signal.
LEMMA NextLock == FieldTypes /\ FieldTypes' /\ LockOwner /\ [Next]_vars => LockOwner'
<1> SUFFICES ASSUME FieldTypes, FieldTypes', LockOwner, [Next]_vars PROVE LockOwner'
  OBVIOUS
<1> USE TasksAssumption DEF LockOwner, Holding, Frame
<1>0. /\ pc \in [Frame -> Labels] /\ ctx \in Task
      /\ tails \in [Task -> Nat] /\ node \in [Frame -> Task \cup {None}]
      /\ ctx' \in Task
  BY DEF FieldTypes
<1>1. ASSUME TimerTick \/ TimerIdle PROVE LockOwner'
  BY <1>1 DEF TimerTick, TimerIdle
<1>2. ASSUME TimerSwitch PROVE LockOwner'
  BY <1>0, <1>2 DEF TimerSwitch, TimerArrives
<1>3. ASSUME TimerReturn PROVE LockOwner'
  BY <1>0, <1>3 DEF TimerReturn, Signal
<1>4. ASSUME NEW t \in Task, EnterRing3(t) PROVE LockOwner'
  BY <1>0, <1>4 DEF EnterRing3, At, Goto
<1>5. ASSUME NEW t \in Task, NEW r \in Resource, CallSleep(t, r) PROVE LockOwner'
  BY <1>0, <1>5 DEF CallSleep, At, Goto
<1>6. ASSUME NEW t \in Task, Sleep(t) PROVE LockOwner'
  BY <1>0, <1>6 DEF Sleep, At, Goto
<1>7. ASSUME NEW t \in Task, Awake(t) PROVE LockOwner'
  BY <1>0, <1>7 DEF Awake, At, Cpu, Goto, Signal
<1>8. ASSUME NEW t \in Task, SleepReturn(t) PROVE LockOwner'
  BY <1>0, <1>8 DEF SleepReturn, At, Goto
<1>9. ASSUME NEW d \in Device, DeviceInterrupt(d) PROVE LockOwner'
  BY <1>0, <1>9 DEF DeviceInterrupt, Goto
<1>10. ASSUME NEW f \in Frame, WakeupStep(f) PROVE LockOwner'
  <2>1. ASSUME WakeupDone(f) PROVE LockOwner'
    BY <1>0, <2>1 DEF WakeupDone, At, Goto
  <2>2. ASSUME WakeupNext(f) PROVE LockOwner'
    BY <1>0, <2>2 DEF WakeupNext, At, Goto
  <2>3. ASSUME WakeupFind(f) PROVE LockOwner'
    BY <1>0, <2>3 DEF WakeupFind, At, Goto
  <2>4. ASSUME WakeupSkip(f) \/ WakeupMatch(f) PROVE LockOwner'
    BY <1>0, <2>4 DEF WakeupSkip, WakeupMatch, At, Goto
  <2>5. ASSUME WakeupRemove(f) PROVE LockOwner'
    BY <1>0, <2>5 DEF WakeupRemove, At, Goto
  <2>6. ASSUME ReadyWait(f) PROVE LockOwner'
    BY <1>0, <2>6 DEF ReadyWait, At, Cpu, Take, Goto
  <2>7. ASSUME ReadyPush(f) PROVE LockOwner'
    BY <1>0, <2>7 DEF ReadyPush, At, Cpu, Signal, Goto
  <2>8. QED
    BY <1>10, <2>1, <2>2, <2>3, <2>4, <2>5, <2>6, <2>7 DEF WakeupStep
<1>11. ASSUME NEW t \in Task, NEW child \in Task, Fork(t, child) PROVE LockOwner'
  BY <1>0, <1>11 DEF Fork, At
<1>12. ASSUME NEW t \in Task, GetCurrentPcb(t) PROVE LockOwner'
  BY <1>0, <1>12 DEF GetCurrentPcb, At, Cpu, Take, Goto
<1>13. ASSUME NEW t \in Task, ForkCopy(t) PROVE LockOwner'
  BY <1>0, <1>13 DEF ForkCopy, At, Cpu, Signal, Goto
<1>14. ASSUME NEW t \in Task, CallExit(t) PROVE LockOwner'
  BY <1>0, <1>14 DEF CallExit, At, Goto
<1>15. ASSUME NEW t \in Task, ExitFree(t) PROVE LockOwner'
  BY <1>0, <1>15 DEF ExitFree, At, Cpu, Signal, Goto
<1>16. ASSUME NEW t \in Task, ExitWake(t) PROVE LockOwner'
  BY <1>0, <1>16 DEF ExitWake, At, Goto
<1>17. ASSUME NEW t \in Task, ExitLock(t) PROVE LockOwner'
  BY <1>0, <1>17 DEF ExitLock, At, Cpu, Take, Goto
<1>18. ASSUME NEW t \in Task, ExitExpire(t) PROVE LockOwner'
  BY <1>0, <1>18 DEF ExitExpire, At, Cpu, Signal, Goto
<1>19. ASSUME NEW t \in Task, ExitSchedLock(t) PROVE LockOwner'
  BY <1>0, <1>19 DEF ExitSchedLock, At, Cpu, Goto
<1>20. ASSUME NEW t \in Task, ExitPick(t) PROVE LockOwner'
  BY <1>0, <1>20 DEF ExitPick, At, Cpu, Signal, Goto
<1>21. ASSUME NEW t \in Task, ExitSwitch(t) PROVE LockOwner'
  BY <1>0, <1>21 DEF ExitSwitch, At, Cpu
<1>22. ASSUME NEW t \in Task, KillNext(t) PROVE LockOwner'
  BY <1>0, <1>22 DEF KillNext, At, Goto
<1>23. ASSUME NEW t \in Task, KillFree(t) PROVE LockOwner'
  BY <1>0, <1>23 DEF KillFree, At, Cpu
<1>24. CASE UNCHANGED vars
  BY <1>24 DEF vars
<1>25. QED
  BY <1>1, <1>2, <1>3, <1>4, <1>5, <1>6, <1>7, <1>8, <1>9, <1>10, <1>11, <1>12,
     <1>13, <1>14, <1>15, <1>16, <1>17, <1>18, <1>19, <1>20, <1>21, <1>22, <1>23,
     <1>24 DEF Next, Timer, Call, CpuStep, TaskStep

\* No frame holds, or needs, a node at boot.
LEMMA InitNode == Init => NodeLoaded
BY TasksAssumption DEF Init, NodeLoaded, Frame, Loaded

\* A frame that will dereference its local node has loaded it first.
LEMMA NextNode == FieldTypes /\ NodeLoaded /\ [Next]_vars => NodeLoaded'
<1> SUFFICES ASSUME FieldTypes, NodeLoaded, [Next]_vars PROVE NodeLoaded'
  OBVIOUS
<1> USE TasksAssumption DEF NodeLoaded, Loaded, Frame
<1>0. /\ pc \in [Frame -> Labels]
      /\ node \in [Frame -> Task \cup {None}]
  BY DEF FieldTypes
<1>1. ASSUME TimerTick \/ TimerIdle \/ TimerSwitch \/ TimerReturn PROVE NodeLoaded'
  BY <1>1 DEF TimerTick, TimerIdle, TimerSwitch, TimerReturn, locals
<1>2. ASSUME NEW t \in Task, EnterRing3(t) PROVE NodeLoaded'
  BY <1>0, <1>2 DEF EnterRing3, Goto, locals
<1>3. ASSUME NEW t \in Task, NEW r \in Resource, CallSleep(t, r) PROVE NodeLoaded'
  BY <1>0, <1>3 DEF CallSleep, Goto
<1>4. ASSUME NEW t \in Task, Sleep(t) PROVE NodeLoaded'
  BY <1>0, <1>4 DEF Sleep, Goto
<1>5. ASSUME NEW t \in Task, Awake(t) PROVE NodeLoaded'
  BY <1>0, <1>5 DEF Awake, Goto, locals
<1>6. ASSUME NEW t \in Task, SleepReturn(t) PROVE NodeLoaded'
  BY <1>0, <1>6 DEF SleepReturn, Goto
<1>7. ASSUME NEW d \in Device, DeviceInterrupt(d) PROVE NodeLoaded'
  BY <1>0, <1>7 DEF DeviceInterrupt, Goto
<1>8. ASSUME NEW f \in Frame, WakeupStep(f) PROVE NodeLoaded'
  <2>1. ASSUME WakeupDone(f) \/ WakeupNext(f) \/ WakeupSkip(f) PROVE NodeLoaded'
    BY <1>0, <2>1 DEF WakeupDone, WakeupNext, WakeupSkip, Goto, locals
  <2>2. idx[f] <= Len(sleeping) => sleeping[idx[f]] \in Task
    <3>1. idx[f] \in Nat \ {0} /\ sleeping \in Seq(Task)
      BY DEF FieldTypes
    <3>2. QED
      BY <3>1
  <2>3. idx[f] > Len(sleeping) \/ idx[f] <= Len(sleeping)
    <3>1. idx[f] \in Nat \ {0} /\ sleeping \in Seq(Task)
      BY DEF FieldTypes
    <3>2. QED
      BY <3>1
  <2>4. ASSUME WakeupFind(f) PROVE NodeLoaded'
    <3>1. CASE idx[f] > Len(sleeping)
      BY <2>4, <3>1 DEF WakeupFind
    <3>2. CASE ~(idx[f] > Len(sleeping))
      BY <1>0, <2>2, <2>3, <2>4, <3>2 DEF WakeupFind, Goto
    <3>3. QED
      BY <3>1, <3>2
  <2>5. ASSUME WakeupMatch(f) \/ ReadyWait(f) PROVE NodeLoaded'
    BY <1>0, <2>5 DEF WakeupMatch, ReadyWait, At, Goto, locals
  <2>6. ASSUME WakeupRemove(f) PROVE NodeLoaded'
    <3>1. CASE idx[f] > Len(sleeping)
      BY <2>6, <3>1 DEF WakeupRemove
    <3>2. CASE ~(idx[f] > Len(sleeping))
      BY <1>0, <2>2, <2>3, <2>6, <3>2 DEF WakeupRemove, Goto
    <3>3. QED
      BY <3>1, <3>2
  <2>7. ASSUME ReadyPush(f) PROVE NodeLoaded'
    BY <1>0, <2>7 DEF ReadyPush, Goto
  <2>8. QED
    BY <1>8, <2>1, <2>4, <2>5, <2>6, <2>7 DEF WakeupStep
<1>9. ASSUME NEW t \in Task, NEW child \in Task, Fork(t, child) PROVE NodeLoaded'
  BY <1>0, <1>9 DEF Fork
<1>10. ASSUME NEW t \in Task, GetCurrentPcb(t) \/ ForkCopy(t) PROVE NodeLoaded'
  BY <1>0, <1>10 DEF GetCurrentPcb, ForkCopy, At, Goto, locals
<1>11. ASSUME NEW t \in Task, CallExit(t) \/ ExitFree(t) \/ ExitLock(t) PROVE NodeLoaded'
  BY <1>0, <1>11 DEF CallExit, ExitFree, ExitLock, Goto, locals
<1>12. ASSUME NEW t \in Task, ExitWake(t) PROVE NodeLoaded'
  BY <1>0, <1>12 DEF ExitWake, Goto
<1>13. ASSUME NEW t \in Task, ExitExpire(t) \/ ExitSchedLock(t) PROVE NodeLoaded'
  BY <1>0, <1>13 DEF ExitExpire, ExitSchedLock, Goto, locals
<1>14. ASSUME NEW t \in Task, ExitPick(t) PROVE NodeLoaded'
  <2>1. ready # <<>> => Head(ready) \in Task
    BY DEF FieldTypes
  <2>2. CASE ready = <<>>
    BY <1>0, <1>14, <2>2 DEF ExitPick, Goto
  <2>3. CASE ready # <<>>
    BY <1>0, <1>14, <2>1, <2>3 DEF ExitPick, Goto
  <2>4. QED
    BY <2>2, <2>3
<1>15. ASSUME NEW t \in Task, ExitSwitch(t) PROVE NodeLoaded'
  BY <1>15 DEF ExitSwitch, locals
<1>16. ASSUME NEW t \in Task, KillNext(t) PROVE NodeLoaded'
  <2>1. idx[t] \in Nat \ {0} /\ expired \in Seq(Task)
    BY DEF FieldTypes
  <2>2. CASE idx[t] > Len(expired)
    BY <1>16, <2>2 DEF KillNext
  <2>3. CASE ~(idx[t] > Len(expired))
    <3>1. expired[idx[t]] \in Task
      BY <2>1, <2>3
    <3>2. QED
      BY <1>0, <1>16, <2>3, <3>1 DEF KillNext, Goto
  <2>4. QED
    BY <2>2, <2>3
<1>17. ASSUME NEW t \in Task, KillFree(t) PROVE NodeLoaded'
  BY <1>0, <1>17 DEF KillFree
<1>18. CASE UNCHANGED vars
  BY <1>18 DEF vars, locals
<1>19. QED
  BY <1>1, <1>2, <1>3, <1>4, <1>5, <1>6, <1>7, <1>8, <1>9, <1>10, <1>11, <1>12,
     <1>13, <1>14, <1>15, <1>16, <1>17, <1>18
     DEF Next, Timer, Call, CpuStep, TaskStep

\* The inductive invariant.
Safe == TypeOK /\ LockOwner

(***************************************************************************)
(* The types, the loaded nodes and the ownership of __sl_tasks hold        *)
(* together in every state the scheduler, sleep, wakeup, fork, exit and    *)
(* kill can reach.                                                         *)
(***************************************************************************)
THEOREM SafeInvariant == Spec => []Safe
<1>1. Init => Safe
  BY InitType, InitNode, InitLock DEF Safe, TypeOK
<1>2. Safe /\ [Next]_vars => Safe'
  BY NextType, NextNode, NextLock DEF Safe, TypeOK
<1>3. QED
  BY <1>1, <1>2, PTL DEF Spec

(***************************************************************************)
(* Every queue holds tasks, every PCB field and local has its type, and no *)
(* frame dereferences a node that it has not loaded.                       *)
(***************************************************************************)
THEOREM TypeCorrect == Spec => []TypeOK
BY SafeInvariant, PTL DEF Safe

(***************************************************************************)
(* __sl_tasks is held exactly between a wait and its signal, by a frame on *)
(* the CPU, whatever interrupts arrive: scheduler may skip a tick when the *)
(* lock is taken, and its second signal (tasks.c:197) opens no section.    *)
(***************************************************************************)
THEOREM LockOwnerInvariant == Spec => []LockOwner
BY SafeInvariant, PTL DEF Safe

\* A frame of a task that is at a label outside Holding finds the lock free.
LEMMA FreeOutside ==
  ASSUME LockOwner, NEW t \in Task, NEW label, At(t, label), label \notin Holding
  PROVE  sl_tasks = None
BY TasksAssumption DEF LockOwner, Holding, At, Cpu, Frame

\* A step that changes stacks is a tick, a sleep or the end of exit.
LEMMA SwitchStep ==
  Safe /\ [Next]_vars => (ctx' # ctx => sl_tasks = None /\ sl_tasks' = None)
<1> SUFFICES ASSUME Safe, [Next]_vars, ctx' # ctx
             PROVE  sl_tasks = None /\ sl_tasks' = None
  OBVIOUS
<1>1. CASE TimerSwitch
  BY <1>1 DEF TimerSwitch, TimerArrives
<1>2. ASSUME NEW t \in Task, Sleep(t) PROVE sl_tasks = None /\ sl_tasks' = None
  BY <1>2 DEF Sleep
<1>3. ASSUME NEW t \in Task, ExitSwitch(t) PROVE sl_tasks = None /\ sl_tasks' = None
  <2>1. At(t, "exit_switch") /\ UNCHANGED sl_tasks
    BY <1>3 DEF ExitSwitch
  <2>2. QED
    BY <2>1, FreeOutside DEF Safe, Holding
<1>4. TimerSwitch \/ \E t \in Task : Sleep(t) \/ ExitSwitch(t)
  BY DEF Next, Timer, TimerTick, TimerIdle, TimerReturn, DeviceInterrupt, Call,
         CallSleep, Fork, CallExit, CpuStep, WakeupStep, WakeupDone, WakeupNext,
         WakeupFind, WakeupSkip, WakeupMatch, WakeupRemove, ReadyWait, ReadyPush,
         TaskStep, EnterRing3, Awake, SleepReturn, GetCurrentPcb, ForkCopy,
         ExitFree, ExitWake, ExitLock, ExitExpire, ExitSchedLock, ExitPick,
         KillNext, KillFree, vars
<1>5. QED
  BY <1>1, <1>2, <1>3, <1>4

(***************************************************************************)
(* switch_to never happens inside a section of __sl_tasks: no task is left *)
(* off the CPU with the scheduler's lock.                                  *)
(***************************************************************************)
THEOREM SwitchWithFreeLock == Spec => LockStaysWithSwitch
<1>1. Safe /\ [Next]_vars => [ctx' # ctx => sl_tasks = None /\ sl_tasks' = None]_vars
  BY SwitchStep
<1>2. QED
  BY <1>1, SafeInvariant, PTL DEF Spec, LockStaysWithSwitch
-----------------------------------------------------------------------------
\* The last steps of a task, on the stack that it will not come back to.
Exiting == {"exit_sched", "exit_pick", "exit_switch"}

(***************************************************************************)
(* A task is past its end exactly while it waits for kill: in the expired  *)
(* list, or in the hand of the frame that buries it.                       *)
(***************************************************************************)
EndedExpire ==
  \A t \in Task : pc[t] \in Exiting <=> t \in Range(expired) \/ HeldBy(t, {"kill_free"})

\* The labels within sleep; sleep holds the caller's own node there.
Asleep == {"slept", "awake"}

SleepOwn == \A t \in Task : pc[t] \in Asleep => node[t] = t

SleepField == \A t \in Task : sleep_[t] # None => pc[t] \in Asleep

\* hoo before it has forked the first task, and after.
HooBoots == {"boot", "sleep"} \cup Asleep
HooForks == {"fork_pcb", "fork_copy", "fork_wait", "fork_push"}
HooKills == {"kill", "kill_free"}

(***************************************************************************)
(* hoo never exits, sleeps only as long as it is alone, and is always      *)
(* ready or running.                                                       *)
(***************************************************************************)
HooLabel == pc[Hoo] \in HooBoots \cup HooForks \cup HooKills
HooAlone == pc[Hoo] \in HooBoots => \A t \in Task \ {Hoo} : pc[t] = "unborn"
HooHere  == Hoo \in Range(ready) \cup Range(running)

HooAwake == HooLabel /\ HooAlone /\ HooHere

\* What the tasks do on their stacks and in sleep.
Conduct ==
  /\ CurrentRuns /\ StackIsOwn /\ ExitNeverReturns
  /\ SleepersSleep /\ SleepOwn /\ SleepField

\* The inductive invariant.
Orderly == Safe /\ OnePlace /\ Conduct /\ EndedExpire /\ HooAwake

\* What a label says of the place of a task and of the node in its hand.
Kind(label) ==
  IF label \in {"ready_wait", "ready_push"} THEN "wakes"
  ELSE IF label \in {"fork_pcb", "fork_copy", "fork_wait", "fork_push"} THEN "forks"
  ELSE IF label = "kill_free" THEN "buries"
  ELSE IF label \in Exiting THEN "ended"
  ELSE IF label \in {"unborn", "dead"} THEN label
  ELSE "plain"

InHandKind == {"wakes", "forks", "buries"}

\* Frames outside F keep the kind of their label, and the node in their hand.
Rest(F) ==
  \A g \in Frame \ F :
    Kind(pc'[g]) = Kind(pc[g]) /\ (Kind(pc[g]) \in InHandKind => node'[g] = node[g])

(***************************************************************************)
(* What a step can do to the places of the tasks.                          *)
(***************************************************************************)
Quiet == UNCHANGED queues /\ Rest({})

Turn ==
  /\ halt = "no" /\ Rest({}) /\ UNCHANGED expired
  /\ \E slp \in [Task -> Resource \cup {None}] :
       /\ Reschedule(slp)
       /\ \A t \in Task : slp[t] # None => pc[t] \in Asleep \cup {"sleep"}

Wake(f) ==
  /\ Kind(pc[f]) = "plain" /\ Kind(pc'[f]) = "wakes" /\ Rest({f})
  /\ \E i \in 1..Len(sleeping) :
       node'[f] = sleeping[i] /\ sleeping' = RemoveAt(sleeping, i)
  /\ UNCHANGED <<ready, running, expired>>

Push(f) ==
  /\ Kind(pc[f]) \in {"wakes", "forks"} /\ Kind(pc'[f]) = "plain" /\ Rest({f})
  /\ ready' = Append(ready, node[f])
  /\ UNCHANGED <<running, sleeping, expired>>

Birth(t, child) ==
  /\ Kind(pc[t]) = "plain" /\ Kind(pc'[t]) = "forks" /\ node'[t] = child
  /\ Kind(pc[child]) = "unborn" /\ Kind(pc'[child]) = "plain" /\ Rest({t, child})
  /\ UNCHANGED queues

End(t) ==
  /\ Kind(pc[t]) = "plain" /\ Kind(pc'[t]) = "ended" /\ Rest({t})
  /\ running = <<t>> /\ running' = <<>> /\ expired' = Append(expired, t)
  /\ UNCHANGED <<ready, sleeping>>

Reap(t) ==
  /\ Kind(pc[t]) = "plain" /\ Kind(pc'[t]) = "buries" /\ Rest({t})
  /\ \E i \in 1..Len(expired) :
       node'[t] = expired[i] /\ expired' = RemoveAt(expired, i)
  /\ UNCHANGED <<ready, running, sleeping>>

Bury(t) ==
  /\ Kind(pc[t]) = "buries" /\ Kind(pc'[t]) = "plain"
  /\ Kind(pc[node[t]]) = "ended" /\ Kind(pc'[node[t]]) = "dead" /\ Rest({t, node[t]})
  /\ UNCHANGED queues

Moves ==
  \/ Quiet \/ Turn
  \/ \E f \in Frame : Wake(f) \/ Push(f)
  \/ \E t \in Task : End(t) \/ Reap(t) \/ Bury(t) \/ \E child \in Task : Birth(t, child)

\* Which task the running queue holds.
RunsOwn ==
  halt # "wild" =>
    /\ pc[ctx] \in {"exit_sched", "exit_pick"} => running = <<>>
    /\ pc[ctx] = "exit_switch" => running = <<node[ctx]>>
    /\ pc[ctx] \notin Exiting => running = <<ctx>>

\* CurrentRuns, with the running queue told by three kinds of label.
LEMMA CurrentRunsIs == CurrentRuns <=> RunsOwn
BY Zenon DEF CurrentRuns, RunsOwn, Exiting

\* A frame that makes a step is on the CPU, and only the current task can be it.
LEMMA Running ==
  ASSUME Orderly, NEW t \in Task, NEW label, At(t, label)
  PROVE  /\ t = ctx /\ halt = "no" /\ pc[t] = label /\ pc[Isr] = "idle"
         /\ label \notin Exiting => running = <<t>> /\ Current = t
         /\ label \in {"exit_sched", "exit_pick"} => running = <<>> /\ Current = None
         /\ label = "exit_switch" => running = <<node[t]>> /\ Current = node[t]
<1>1. t = ctx /\ halt = "no" /\ pc[t] = label /\ pc[Isr] = "idle"
  BY TasksAssumption DEF At, Cpu
<1>2. RunsOwn
  BY CurrentRunsIs DEF Orderly, Conduct
<1>3. QED
  BY <1>1, <1>2 DEF RunsOwn, Current

\* Each action of scheduler, sleep, wakeup, fork, exit and kill is one such
\* move: the lists are walked and changed without a lock, and yet no index is
\* stale and no node is taken by two frames.
LEMMA StepMoves == Orderly /\ [Next]_vars => Moves
<1> SUFFICES ASSUME Orderly, [Next]_vars PROVE Moves
  OBVIOUS
<1> USE TasksAssumption
<1>0. /\ pc \in [Frame -> Labels] /\ node \in [Frame -> Task \cup {None}]
      /\ sleep_ \in [Task -> Resource \cup {None}] /\ res \in [Frame -> Resource \cup {None}]
      /\ idx \in [Frame -> Nat \ {0}] /\ sleeping \in Seq(Task) /\ expired \in Seq(Task)
  BY DEF Orderly, Safe, TypeOK, FieldTypes
<1>field. \A t \in Task : sleep_[t] # None => pc[t] \in Asleep
  BY DEF Orderly, Conduct, SleepField
<1>1. ASSUME TimerTick \/ TimerIdle \/ TimerReturn PROVE Quiet
  BY <1>1 DEF TimerTick, TimerIdle, TimerReturn, Quiet, Rest, locals
<1>2. ASSUME TimerSwitch PROVE Turn
  BY <1>0, <1>2, <1>field DEF TimerSwitch, TimerArrives, Turn, Rest, locals
<1>3. ASSUME NEW t \in Task, EnterRing3(t) \/ Awake(t) \/ SleepReturn(t) PROVE Quiet
  BY <1>0, <1>3 DEF EnterRing3, Awake, SleepReturn, At, Goto, Quiet, Rest, locals, Kind,
     Exiting, InHandKind, Frame
<1>4. ASSUME NEW t \in Task, NEW r \in Resource, CallSleep(t, r) PROVE Quiet
  BY <1>0, <1>4 DEF CallSleep, At, Goto, Quiet, Rest, Kind, Exiting, InHandKind, Frame
<1>5. ASSUME NEW t \in Task, Sleep(t) PROVE Quiet \/ Turn
  <2>1. Rest({})
    BY <1>0, <1>5 DEF Sleep, At, Goto, Rest, Kind, Exiting, InHandKind, Frame
  <2>2. sleep_' \in [Task -> Resource \cup {None}]
    BY <1>0, <1>5 DEF Sleep, Frame
  <2>3. \A u \in Task : sleep_'[u] # None => pc[u] \in Asleep \cup {"sleep"}
    <3>1. Current = t /\ pc[t] = "sleep"
      BY <1>5, Running DEF Sleep, Exiting
    <3>2. QED
      BY <1>0, <1>5, <1>field, <3>1 DEF Sleep
  <2>4. QED
    BY <1>5, <2>1, <2>2, <2>3 DEF Sleep, At, Quiet, Turn
<1>6. ASSUME NEW d \in Device, DeviceInterrupt(d) PROVE Quiet
  BY <1>0, <1>6 DEF DeviceInterrupt, Goto, Quiet, Rest, Kind, Exiting, InHandKind, Frame
<1>7. ASSUME NEW f \in Frame, WakeupStep(f) PROVE Moves
  <2>1. ASSUME WakeupDone(f) \/ WakeupNext(f) \/ WakeupSkip(f) \/ WakeupMatch(f) PROVE Quiet
    BY <1>0, <2>1 DEF WakeupDone, WakeupNext, WakeupSkip, WakeupMatch, At, Goto, Quiet,
       Rest, locals, Kind, Exiting, InHandKind
  <2>2. ASSUME WakeupFind(f) PROVE Quiet
    BY <1>0, <2>2 DEF WakeupFind, At, Goto, Quiet, Rest, Kind, Exiting, InHandKind
  <2>3. ASSUME WakeupRemove(f) PROVE Quiet \/ Wake(f)
    <3>1. CASE idx[f] > Len(sleeping)
      BY <2>3, <3>1 DEF WakeupRemove, Quiet, Rest, queues
    <3>2. CASE ~(idx[f] > Len(sleeping))
      <4>1. idx[f] \in 1..Len(sleeping)
        BY <1>0, <3>2
      <4>2. /\ node'[f] = sleeping[idx[f]] /\ sleeping' = RemoveAt(sleeping, idx[f])
            /\ UNCHANGED <<ready, running, expired>>
        BY <1>0, <2>3, <3>2 DEF WakeupRemove
      <4>3. Kind(pc[f]) = "plain" /\ Kind(pc'[f]) = "wakes" /\ Rest({f})
        BY <1>0, <2>3, <3>2 DEF WakeupRemove, At, Goto, Rest, Kind, Exiting, InHandKind
      <4>4. QED
        BY <4>1, <4>2, <4>3 DEF Wake
    <3>3. QED
      BY <3>1, <3>2
  <2>4. ASSUME ReadyWait(f) PROVE Quiet
    BY <1>0, <2>4 DEF ReadyWait, At, Goto, Quiet, Rest, locals, Kind, Exiting,
       InHandKind
  <2>5. ASSUME ReadyPush(f) PROVE Push(f)
    BY <1>0, <2>5 DEF ReadyPush, At, Goto, Push, Rest, Kind, Exiting, InHandKind
  <2>6. QED
    BY <1>7, <2>1, <2>2, <2>3, <2>4, <2>5 DEF WakeupStep, Moves
<1>8. ASSUME NEW t \in Task, NEW child \in Task, Fork(t, child) PROVE Birth(t, child)
  BY <1>0, <1>8 DEF Fork, At, Birth, Rest, Kind, Exiting, InHandKind, Frame
<1>9. ASSUME NEW t \in Task, GetCurrentPcb(t) \/ ForkCopy(t) \/ CallExit(t) \/ ExitFree(t)
      PROVE  Quiet
  BY <1>0, <1>9 DEF GetCurrentPcb, ForkCopy, CallExit, ExitFree, At, Goto, Quiet, Rest,
     locals,
     Kind, Exiting, InHandKind, Frame
<1>10. ASSUME NEW t \in Task, ExitWake(t) \/ ExitLock(t) PROVE Quiet
  BY <1>0, <1>10 DEF ExitWake, ExitLock, At, Goto, Quiet, Rest, locals, Kind, Exiting,
     InHandKind, Frame
<1>11. ASSUME NEW t \in Task, ExitExpire(t) PROVE End(t)
  <2>1. running = <<t>> /\ Current = t
    BY <1>11, Running DEF ExitExpire, Exiting
  <2>2. running' = <<>> /\ expired' = Append(expired, t) /\ UNCHANGED <<ready, sleeping>>
    BY <1>11, <2>1 DEF ExitExpire
  <2>3. Kind(pc[t]) = "plain" /\ Kind(pc'[t]) = "ended" /\ Rest({t})
    BY <1>0, <1>11 DEF ExitExpire, At, Goto, Rest, locals, Kind, Exiting, InHandKind,
       Frame
  <2>4. QED
    BY <2>1, <2>2, <2>3 DEF End
<1>12. ASSUME NEW t \in Task, ExitSchedLock(t) PROVE Quiet
  <2>1. sl_tasks = None
    BY <1>12, FreeOutside DEF ExitSchedLock, Orderly, Safe, Holding
  <2>2. QED
    BY <1>0, <1>12, <2>1 DEF ExitSchedLock, At, Goto, Quiet, Rest, locals, Kind,
       Exiting,
       InHandKind, Frame
<1>13. ASSUME NEW t \in Task, ExitPick(t) PROVE Turn
  <2>1. ready # <<>>
    <3>1. running = <<>>
      BY <1>13, Running DEF ExitPick
    <3>2. Hoo \in Range(ready) \cup Range(running)
      BY DEF Orderly, HooAwake, HooHere
    <3>3. QED
      BY <3>1, <3>2 DEF Range
  <2>2. Rest({})
    BY <1>0, <1>13, <2>1 DEF ExitPick, At, Goto, Rest, Kind, Exiting, InHandKind, Frame
  <2>3. QED
    BY <1>0, <1>13, <1>field, <2>1, <2>2 DEF ExitPick, At, Turn
<1>14. ASSUME NEW t \in Task, ExitSwitch(t) PROVE Quiet
  BY <1>14 DEF ExitSwitch, Quiet, Rest, locals
<1>15. ASSUME NEW t \in Task, KillNext(t) PROVE Quiet \/ Reap(t)
  <2>1. CASE idx[t] > Len(expired)
    BY <1>15, <2>1 DEF KillNext, Quiet, Rest, queues
  <2>2. CASE ~(idx[t] > Len(expired))
    <3>1. idx[t] \in 1..Len(expired)
      BY <1>0, <2>2 DEF Frame
    <3>2. /\ node'[t] = expired[idx[t]] /\ expired' = RemoveAt(expired, idx[t])
          /\ UNCHANGED <<ready, running, sleeping>>
      BY <1>0, <1>15, <2>2 DEF KillNext, Frame
    <3>3. Kind(pc[t]) = "plain" /\ Kind(pc'[t]) = "buries" /\ Rest({t})
      BY <1>0, <1>15, <2>2 DEF KillNext, At, Goto, Rest, Kind, Exiting, InHandKind,
         Frame
    <3>4. QED
      BY <3>1, <3>2, <3>3 DEF Reap
  <2>3. QED
    BY <2>1, <2>2
<1>16. ASSUME NEW t \in Task, KillFree(t) PROVE Bury(t)
  <2>1. node[t] \in Task /\ pc[node[t]] \in Exiting
    BY <1>16 DEF Orderly, Safe, TypeOK, NodeLoaded, Loaded, EndedExpire, HeldBy,
       KillFree, At,
       Frame
  <2>2. QED
    BY <1>0, <1>16, <2>1 DEF KillFree, At, Bury, Rest, Kind, Exiting, InHandKind, Frame
<1>17. CASE UNCHANGED vars
  BY <1>17 DEF vars, Quiet, Rest, locals, queues, Moves
<1>18. QED
  BY <1>1, <1>2, <1>3, <1>4, <1>5, <1>6, <1>7, <1>8, <1>9, <1>10, <1>11, <1>12,
     <1>13, <1>14, <1>15, <1>16, <1>17
     DEF Next, Timer, Call, CpuStep, TaskStep, Moves

Alive == {t \in Task : pc[t] \notin {"unborn", "dead"}}

\* Five places hold each of all once.
Partition(a, b, c, d, e, all) ==
  /\ a \cap b = {} /\ a \cap c = {} /\ a \cap d = {} /\ a \cap e = {}
  /\ b \cap c = {} /\ b \cap d = {} /\ b \cap e = {}
  /\ c \cap d = {} /\ c \cap e = {} /\ d \cap e = {}
  /\ a \cup b \cup c \cup d \cup e = all

\* The same, as OnePlace says it.
LEMMA PartitionIs ==
  ASSUME NEW a, NEW b, NEW c, NEW d, NEW e, NEW all
  PROVE  LET places == <<a, b, c, d, e>>
         IN  (/\ \A i, j \in 1..5 : i # j => places[i] \cap places[j] = {}
              /\ UNION Range(places) = all)
             <=> Partition(a, b, c, d, e, all)
<1> DEFINE places == <<a, b, c, d, e>>
<1>1. /\ places[1] = a /\ places[2] = b /\ places[3] = c /\ places[4] = d
      /\ places[5] = e /\ DOMAIN places = 1..5
  OBVIOUS
<1>2. 1..5 = {1, 2, 3, 4, 5}
  OBVIOUS
<1>3. Range(places) = {a, b, c, d, e}
  BY <1>1, <1>2 DEF Range
<1>4. UNION Range(places) = a \cup b \cup c \cup d \cup e
  BY <1>3
<1> HIDE DEF places
<1>5. (\A i, j \in 1..5 : i # j => places[i] \cap places[j] = {})
        <=> /\ a \cap b = {} /\ a \cap c = {} /\ a \cap d = {} /\ a \cap e = {}
            /\ b \cap c = {} /\ b \cap d = {} /\ b \cap e = {}
            /\ c \cap d = {} /\ c \cap e = {} /\ d \cap e = {}
  BY <1>1, <1>2
<1>6. QED
  BY <1>4, <1>5 DEF places, Partition

\* No two frames hold one task.
HandsApart ==
  \A f, g \in Frame :
    pc[f] \in InHand /\ pc[g] \in InHand /\ node[f] = node[g] => f = g

Placed == Partition(Range(ready), Range(running), Range(sleeping), Range(expired), Hand, Alive)

\* No queue holds a task twice.
Injective ==
  /\ IsInjective(ready) /\ IsInjective(running)
  /\ IsInjective(sleeping) /\ IsInjective(expired)

\* OnePlace in three parts.
LEMMA OnePlaceIs == OnePlace <=> Injective /\ HandsApart /\ Placed
<1> DEFINE places == <<Range(ready), Range(running), Range(sleeping), Range(expired), Hand>>
<1>1. (/\ \A i, j \in 1..5 : i # j => places[i] \cap places[j] = {}
       /\ UNION Range(places) = Alive) <=> Placed
  BY PartitionIs, Zenon DEF Placed
<1>2. QED
  BY <1>1, Zenon DEF OnePlace, Injective, HandsApart, Alive

\* The same parts, of the next state.
LEMMA OnePlaceNext == OnePlace' <=> Injective' /\ HandsApart' /\ Placed'
BY OnePlaceIs, PTL

\* What each kind says.
LEMMA KindIs ==
  ASSUME NEW label
  PROVE  /\ Kind(label) \in InHandKind <=> label \in InHand
         /\ Kind(label) = "ended" <=> label \in Exiting
         /\ Kind(label) \in {"unborn", "dead"} <=> label \in {"unborn", "dead"}
         /\ Kind(label) = "buries" <=> label \in {"kill_free"}
         /\ Kind(label) = "wakes" <=> label \in {"ready_wait", "ready_push"}
BY DEF Kind, InHandKind, InHand, Exiting

\* The hands of frames that rest stay as they are.
LEMMA HandsRest ==
  ASSUME HandsApart, Rest({})
  PROVE  HandsApart' /\ Hand' = Hand /\ Alive' = Alive
<1>1. \A g \in Frame : (pc'[g] \in InHand <=> pc[g] \in InHand)
                        /\ (pc[g] \in InHand => node'[g] = node[g])
  BY KindIs DEF Rest
<1>2. \A t \in Task : pc'[t] \in {"unborn", "dead"} <=> pc[t] \in {"unborn", "dead"}
  BY KindIs DEF Rest, Frame
<1>3. QED
  BY <1>1, <1>2 DEF HandsApart, Hand, Alive

\* A frame takes a task that nobody holds in its hand.
LEMMA HandTakes ==
  ASSUME HandsApart, NEW F, NEW f \in F, f \in Frame, Rest(F), node'[f] \notin Hand,
         pc[f] \notin InHand, pc'[f] \in InHand,
         \A g \in F \ {f} : pc[g] \notin InHand /\ pc'[g] \notin InHand
  PROVE  HandsApart' /\ Hand' = Hand \cup {node'[f]}
<1>1. \A g \in Frame \ {f} : (pc'[g] \in InHand <=> pc[g] \in InHand)
                        /\ (pc[g] \in InHand => node'[g] = node[g])
  BY KindIs DEF Rest
<1>2. QED
  BY <1>1 DEF HandsApart, Hand

\* A frame gives the task away that it holds in its hand.
LEMMA HandGives ==
  ASSUME HandsApart, NEW F, NEW f \in F, f \in Frame, Rest(F),
         pc[f] \in InHand, pc'[f] \notin InHand,
         \A g \in F \ {f} : pc[g] \notin InHand /\ pc'[g] \notin InHand
  PROVE  HandsApart' /\ Hand' = Hand \ {node[f]}
<1>1. \A g \in Frame \ {f} : (pc'[g] \in InHand <=> pc[g] \in InHand)
                        /\ (pc[g] \in InHand => node'[g] = node[g])
  BY KindIs DEF Rest
<1>2. QED
  BY <1>1 DEF HandsApart, Hand

\* Queues of no and of one task.
LEMMA ShortQueue ==
  /\ Range(<<>>) = {} /\ IsInjective(<<>>)
  /\ \A x : Range(<<x>>) = {x} /\ IsInjective(<<x>>)
  /\ \A x : Tail(<<x>>) = <<>> /\ Head(<<x>>) = x /\ Append(<<>>, x) = <<x>>
BY DEF Range, IsInjective

\* As long as the kernel runs, the running queue holds at most one task.
LEMMA RunsOne ==
  ASSUME Orderly, halt = "no"
  PROVE  (running = <<>> /\ Current = None) \/ \E c \in Task : running = <<c>> /\ Current = c
<1>1. ctx \in Task /\ (pc[ctx] = "exit_switch" => node[ctx] \in Task)
  BY DEF Orderly, Safe, TypeOK, FieldTypes, NodeLoaded, Loaded, Frame
<1>2. RunsOwn
  BY CurrentRunsIs DEF Orderly, Conduct
<1>3. running = <<>> \/ \E c \in Task : running = <<c>>
  BY <1>1, <1>2 DEF RunsOwn, Exiting
<1>4. QED
  BY <1>3, ShortQueue DEF Current

\* What Orderly says of the types and of the places.
LEMMA OrderlyPlaces ==
  ASSUME Orderly
  PROVE  /\ Injective /\ HandsApart /\ Placed
         /\ ready \in Seq(Task) /\ running \in Seq(Task)
         /\ sleeping \in Seq(Task) /\ expired \in Seq(Task)
         /\ None \notin Task
         /\ \A f \in Frame : pc[f] \in InHand => node[f] \in Task /\ node[f] \in Hand
<1>1. /\ ready \in Seq(Task) /\ running \in Seq(Task)
      /\ sleeping \in Seq(Task) /\ expired \in Seq(Task)
  BY DEF Orderly, Safe, TypeOK, FieldTypes
<1>2. \A f \in Frame : pc[f] \in InHand => node[f] \in Task /\ node[f] \in Hand
  BY DEF Orderly, Safe, TypeOK, NodeLoaded, Loaded, InHand, Hand
<1>3. Injective /\ HandsApart /\ Placed
  BY OnePlaceIs DEF Orderly
<1>4. QED
  BY <1>1, <1>2, <1>3, TasksAssumption

\* A step that changes no queue and no hand moves no task.
LEMMA QuietPlaces == ASSUME Orderly, Quiet PROVE OnePlace'
<1>1. HandsApart' /\ Hand' = Hand /\ Alive' = Alive
  BY OrderlyPlaces, HandsRest DEF Quiet
<1>2. ready' = ready /\ running' = running /\ sleeping' = sleeping /\ expired' = expired
  BY DEF Quiet, queues
<1>3. Injective' /\ Placed'
  BY <1>1, <1>2, OrderlyPlaces DEF Injective, Placed
<1>4. QED
  BY <1>1, <1>3, OnePlaceNext

\* scheduler takes the head of the ready queue and puts the task that ran
\* into one other queue.
LEMMA TurnPlaces == ASSUME Orderly, Turn PROVE OnePlace'
<1>1. PICK slp \in [Task -> Resource \cup {None}] : Reschedule(slp)
  BY DEF Turn
<1>2. HandsApart' /\ Hand' = Hand /\ Alive' = Alive /\ expired' = expired
  BY OrderlyPlaces, HandsRest DEF Turn
<1>3. /\ ready \in Seq(Task) /\ ready # <<>> /\ IsInjective(ready)
      /\ sleeping \in Seq(Task) /\ IsInjective(sleeping) /\ IsInjective(expired)
  BY <1>1, OrderlyPlaces DEF Reschedule, Injective
<1> DEFINE new  == Head(ready)
           rest == Tail(ready)
<1>4. /\ rest \in Seq(Task) /\ new \in Range(ready)
      /\ Range(rest) = Range(ready) \ {new} /\ IsInjective(rest)
  BY <1>3, PopPlace
<1>5. CASE running = <<>> /\ Current = None
  <2>1. /\ ready' = rest /\ sleeping' = sleeping /\ running' = <<new>>
    BY <1>1, <1>5, ShortQueue DEF Reschedule
  <2> HIDE DEF new, rest
  <2>2. Injective'
    BY <1>2, <1>3, <1>4, <2>1, ShortQueue DEF Injective
  <2>3. Placed'
    BY <1>2, <1>4, <1>5, <2>1, ShortQueue, OrderlyPlaces DEF Placed, Partition
  <2>4. QED
    BY <1>2, <2>2, <2>3, OnePlaceNext
<1>6. ASSUME NEW old \in Task, running = <<old>>, Current = old PROVE OnePlace'
  <2>1. running' = <<new>>
    BY <1>1, <1>6, ShortQueue DEF Reschedule
  <2>2. old # None
    BY OrderlyPlaces
  <2>3. old \notin Range(ready) /\ old \notin Range(sleeping)
    BY <1>6, OrderlyPlaces, ShortQueue DEF Placed, Partition
  <2>4. CASE slp[old] # None
    <3>1. ready' = rest /\ sleeping' = Append(sleeping, old)
      BY <1>1, <1>6, <2>2, <2>4 DEF Reschedule
    <3> HIDE DEF new, rest
    <3>2. Range(sleeping') = Range(sleeping) \cup {old} /\ IsInjective(sleeping')
      BY <1>3, <2>3, <3>1, PushPlace
    <3>3. Injective'
      BY <1>2, <1>3, <1>4, <2>1, <3>1, <3>2, ShortQueue DEF Injective
    <3>4. Placed'
      BY <1>2, <1>4, <1>6, <2>1, <3>1, <3>2, ShortQueue, OrderlyPlaces DEF Placed,
         Partition
    <3>5. QED
      BY <1>2, <3>3, <3>4, OnePlaceNext
  <2>5. CASE slp[old] = None
    <3>1. ready' = Append(rest, old) /\ sleeping' = sleeping
      BY <1>1, <1>6, <2>2, <2>5 DEF Reschedule
    <3> HIDE DEF new, rest
    <3>2. Range(ready') = Range(rest) \cup {old} /\ IsInjective(ready')
      BY <1>4, <2>3, <3>1, PushPlace
    <3>3. Injective'
      BY <1>2, <1>3, <2>1, <3>1, <3>2, ShortQueue DEF Injective
    <3>4. Placed'
      BY <1>2, <1>4, <1>6, <2>1, <3>1, <3>2, ShortQueue, OrderlyPlaces DEF Placed,
         Partition
    <3>5. QED
      BY <1>2, <3>3, <3>4, OnePlaceNext
  <2>6. QED
    BY <2>4, <2>5
<1>7. QED
  BY <1>5, <1>6, RunsOne DEF Turn

\* wakeup takes a task out of the sleeping list into its hand.
LEMMA WakePlaces == ASSUME Orderly, NEW f \in Frame, Wake(f) PROVE OnePlace'
<1>1. PICK i \in 1..Len(sleeping) :
        node'[f] = sleeping[i] /\ sleeping' = RemoveAt(sleeping, i)
  BY DEF Wake
<1>2. /\ Range(sleeping') = Range(sleeping) \ {sleeping[i]}
      /\ IsInjective(sleeping') /\ sleeping[i] \in Range(sleeping)
  BY <1>1, OrderlyPlaces, RemovePlace, RangeIs DEF Injective
<1>3. sleeping[i] \notin Hand
  BY <1>2, OrderlyPlaces DEF Placed, Partition
<1>4. /\ pc[f] \notin InHand /\ pc'[f] \in InHand
      /\ \A t \in Task : pc'[t] \in {"unborn", "dead"} <=> pc[t] \in {"unborn", "dead"}
  <2>1. Kind(pc[f]) = "plain" /\ Kind(pc'[f]) = "wakes" /\ Rest({f})
    BY DEF Wake
  <2>2. ASSUME NEW t \in Task
        PROVE  Kind(pc'[t]) \in {"unborn", "dead"} <=> Kind(pc[t]) \in {"unborn", "dead"}
    BY <2>1 DEF Rest, Frame
  <2>3. QED
    BY <2>1, <2>2, KindIs DEF InHandKind
<1>5. HandsApart' /\ Hand' = Hand \cup {sleeping[i]}
  <2>1. HandsApart /\ f \in {f} /\ Rest({f}) /\ node'[f] \notin Hand
    BY <1>1, <1>3, OrderlyPlaces DEF Wake
  <2>2. QED
    BY <1>1, <1>4, <2>1, HandTakes
<1>6. Alive' = Alive
  BY <1>4 DEF Alive
<1>7. Placed'
  BY <1>2, <1>5, <1>6, OrderlyPlaces DEF Wake, Placed, Partition
<1>8. Injective'
  BY <1>2, OrderlyPlaces DEF Wake, Injective
<1>9. QED
  BY <1>5, <1>7, <1>8, OnePlaceNext

\* task_ready puts the task in a hand at the tail of the ready queue.
LEMMA PushPlaces == ASSUME Orderly, NEW f \in Frame, Push(f) PROVE OnePlace'
<1>1. Kind(pc[f]) \in {"wakes", "forks"} /\ Kind(pc'[f]) = "plain" /\ Rest({f})
  BY DEF Push
<1>2. /\ pc[f] \in InHand /\ pc'[f] \notin InHand
      /\ \A t \in Task : pc'[t] \in {"unborn", "dead"} <=> pc[t] \in {"unborn", "dead"}
  <2>1. ASSUME NEW t \in Task
        PROVE  Kind(pc'[t]) \in {"unborn", "dead"} <=> Kind(pc[t]) \in {"unborn", "dead"}
    BY <1>1 DEF Rest, Frame
  <2>2. QED
    BY <1>1, <2>1, KindIs DEF InHandKind
<1>3. node[f] \in Task /\ node[f] \in Hand
  BY <1>2, OrderlyPlaces
<1>4. HandsApart' /\ Hand' = Hand \ {node[f]}
  <2>1. HandsApart /\ f \in {f}
    BY OrderlyPlaces
  <2>2. QED
    BY <1>1, <1>2, <2>1, HandGives
<1>5. Alive' = Alive
  BY <1>2 DEF Alive
<1>6. Range(ready') = Range(ready) \cup {node[f]} /\ IsInjective(ready')
  <2>1. node[f] \notin Range(ready)
    BY <1>3, OrderlyPlaces DEF Placed, Partition
  <2>2. QED
    BY <1>3, <2>1, OrderlyPlaces, PushPlace DEF Push, Injective
<1>7. Placed'
  BY <1>3, <1>4, <1>5, <1>6, OrderlyPlaces DEF Push, Placed, Partition
<1>8. Injective'
  BY <1>6, OrderlyPlaces DEF Push, Injective
<1>9. QED
  BY <1>4, <1>7, <1>8, OnePlaceNext

\* fork creates a task in its own hand.
LEMMA BirthPlaces ==
  ASSUME Orderly, NEW t \in Task, NEW child \in Task, Birth(t, child)
  PROVE  OnePlace'
<1>0. t \in Frame /\ child \in Frame /\ t # child
  BY DEF Frame, Birth
<1>1. /\ pc[t] \notin InHand /\ pc'[t] \in InHand /\ node'[t] = child
      /\ pc[child] \notin InHand /\ pc'[child] \notin InHand
      /\ pc[child] \in {"unborn", "dead"} /\ pc'[child] \notin {"unborn", "dead"}
      /\ pc[t] \notin {"unborn", "dead"} /\ pc'[t] \notin {"unborn", "dead"}
      /\ Rest({t, child})
  BY KindIs DEF InHandKind, Birth
<1>2. child \notin Alive /\ Alive' = Alive \cup {child}
  <2>1. ASSUME NEW u \in Task \ {t, child}
        PROVE  pc'[u] \in {"unborn", "dead"} <=> pc[u] \in {"unborn", "dead"}
    <3>1. Kind(pc'[u]) \in {"unborn", "dead"} <=> Kind(pc[u]) \in {"unborn", "dead"}
      BY <1>1 DEF Rest, Frame
    <3>2. QED
      BY <3>1, KindIs
  <2>2. QED
    BY <1>1, <2>1 DEF Alive
<1>3. child \notin Hand
  BY <1>2, OrderlyPlaces DEF Placed, Partition
<1>4. HandsApart' /\ Hand' = Hand \cup {child}
  <2>1. HandsApart /\ t \in {t, child} /\ node'[t] \notin Hand
    BY <1>1, <1>3, OrderlyPlaces
  <2>2. \A g \in {t, child} \ {t} : pc[g] \notin InHand /\ pc'[g] \notin InHand
    BY <1>1
  <2>3. QED
    BY <1>0, <1>1, <2>1, <2>2, HandTakes
<1>5. UNCHANGED <<ready, running, sleeping, expired>>
  BY DEF Birth, queues
<1>6. Placed'
  BY <1>2, <1>4, <1>5, OrderlyPlaces DEF Placed, Partition
<1>7. Injective'
  BY <1>5, OrderlyPlaces DEF Injective
<1>8. QED
  BY <1>4, <1>6, <1>7, OnePlaceNext

\* exit moves itself from the running queue to the expired list.
LEMMA EndPlaces == ASSUME Orderly, NEW t \in Task, End(t) PROVE OnePlace'
<1>1. /\ pc[t] \notin InHand /\ pc'[t] \notin InHand /\ Rest({t})
      /\ \A u \in Task : pc'[u] \in {"unborn", "dead"} <=> pc[u] \in {"unborn", "dead"}
  <2>1. Kind(pc[t]) = "plain" /\ Kind(pc'[t]) = "ended" /\ Rest({t})
    BY DEF End
  <2>2. ASSUME NEW u \in Task
        PROVE  Kind(pc'[u]) \in {"unborn", "dead"} <=> Kind(pc[u]) \in {"unborn", "dead"}
    BY <2>1 DEF Rest, Frame
  <2>3. QED
    BY <2>1, <2>2, KindIs DEF InHandKind
<1>2. \A g \in Frame : (pc'[g] \in InHand <=> pc[g] \in InHand)
                        /\ (pc[g] \in InHand => node'[g] = node[g])
  BY <1>1, KindIs DEF Rest
<1>3. HandsApart' /\ Hand' = Hand /\ Alive' = Alive
  <2>1. HandsApart
    BY OrderlyPlaces
  <2>2. QED
    BY <1>1, <1>2, <2>1 DEF HandsApart, Hand, Alive
<1>4. /\ running = <<t>> /\ running' = <<>> /\ expired' = Append(expired, t)
      /\ ready' = ready /\ sleeping' = sleeping
  BY DEF End
<1>5. Range(expired') = Range(expired) \cup {t} /\ IsInjective(expired')
  <2>1. t \notin Range(expired)
    BY <1>4, OrderlyPlaces, ShortQueue DEF Placed, Partition
  <2>2. QED
    BY <1>4, <2>1, OrderlyPlaces, PushPlace DEF Injective
<1>6. Placed'
  BY <1>3, <1>4, <1>5, ShortQueue, OrderlyPlaces DEF Placed, Partition
<1>7. Injective'
  BY <1>4, <1>5, ShortQueue, OrderlyPlaces DEF Injective
<1>8. QED
  BY <1>3, <1>6, <1>7, OnePlaceNext

\* kill takes a task out of the expired list into its hand.
LEMMA ReapPlaces == ASSUME Orderly, NEW t \in Task, Reap(t) PROVE OnePlace'
<1>0. t \in Frame
  BY DEF Frame
<1>1. PICK i \in 1..Len(expired) :
        node'[t] = expired[i] /\ expired' = RemoveAt(expired, i)
  BY DEF Reap
<1>2. /\ Range(expired') = Range(expired) \ {expired[i]}
      /\ IsInjective(expired') /\ expired[i] \in Range(expired)
  BY <1>1, OrderlyPlaces, RemovePlace, RangeIs DEF Injective
<1>3. expired[i] \notin Hand
  BY <1>2, OrderlyPlaces DEF Placed, Partition
<1>4. /\ pc[t] \notin InHand /\ pc'[t] \in InHand /\ Rest({t})
      /\ \A u \in Task : pc'[u] \in {"unborn", "dead"} <=> pc[u] \in {"unborn", "dead"}
  <2>1. Kind(pc[t]) = "plain" /\ Kind(pc'[t]) = "buries" /\ Rest({t})
    BY DEF Reap
  <2>2. ASSUME NEW u \in Task
        PROVE  Kind(pc'[u]) \in {"unborn", "dead"} <=> Kind(pc[u]) \in {"unborn", "dead"}
    BY <2>1 DEF Rest, Frame
  <2>3. QED
    BY <2>1, <2>2, KindIs DEF InHandKind
<1>5. HandsApart' /\ Hand' = Hand \cup {expired[i]}
  <2>1. HandsApart /\ t \in {t} /\ node'[t] \notin Hand
    BY <1>1, <1>3, OrderlyPlaces
  <2>2. QED
    BY <1>0, <1>1, <1>4, <2>1, HandTakes
<1>6. Alive' = Alive
  BY <1>4 DEF Alive
<1>7. Placed'
  BY <1>2, <1>5, <1>6, OrderlyPlaces DEF Reap, Placed, Partition
<1>8. Injective'
  BY <1>2, OrderlyPlaces DEF Reap, Injective
<1>9. QED
  BY <1>5, <1>7, <1>8, OnePlaceNext

\* kill releases the task in its hand, and it is gone.
LEMMA BuryPlaces == ASSUME Orderly, NEW t \in Task, Bury(t) PROVE OnePlace'
<1> DEFINE u == node[t]
<1>1. pc[t] \in InHand /\ pc'[t] \notin InHand /\ Rest({t, u})
      /\ pc[u] \in Exiting /\ pc'[u] \in {"unborn", "dead"}
      /\ pc[u] \notin InHand /\ pc'[u] \notin InHand
      /\ pc[t] \notin {"unborn", "dead"} /\ pc'[t] \notin {"unborn", "dead"}
  BY KindIs DEF InHandKind, Bury
<1>2. u \in Task /\ u \in Hand /\ u # t /\ t \in Frame
  BY <1>1, OrderlyPlaces DEF Frame
<1> HIDE DEF u
<1>3. Alive' = Alive \ {u}
  <2>1. ASSUME NEW v \in Task \ {t, u}
        PROVE  pc'[v] \in {"unborn", "dead"} <=> pc[v] \in {"unborn", "dead"}
    <3>1. Kind(pc'[v]) \in {"unborn", "dead"} <=> Kind(pc[v]) \in {"unborn", "dead"}
      BY <1>1 DEF Rest, Frame
    <3>2. QED
      BY <3>1, KindIs
  <2>2. QED
    BY <1>1, <1>2, <2>1 DEF Alive
<1>4. HandsApart' /\ Hand' = Hand \ {u}
  <2>1. HandsApart /\ t \in {t, u}
    BY OrderlyPlaces
  <2>2. \A g \in {t, u} \ {t} : pc[g] \notin InHand /\ pc'[g] \notin InHand
    BY <1>1
  <2>3. HandsApart' /\ Hand' = Hand \ {node[t]}
    BY <1>1, <1>2, <2>1, <2>2, HandGives
  <2>4. QED
    BY <2>3 DEF u
<1>5. UNCHANGED <<ready, running, sleeping, expired>>
  BY DEF Bury, queues
<1>6. Placed'
  BY <1>2, <1>3, <1>4, <1>5, OrderlyPlaces DEF Placed, Partition
<1>7. Injective'
  BY <1>5, OrderlyPlaces DEF Injective
<1>8. QED
  BY <1>4, <1>6, <1>7, OnePlaceNext

\* Every step keeps each task in one place.
LEMMA NextPlaces == Orderly /\ [Next]_vars => OnePlace'
BY StepMoves, QuietPlaces, TurnPlaces, WakePlaces, PushPlaces, BirthPlaces, EndPlaces,
   ReapPlaces, BuryPlaces DEF Moves

\* EndedExpire by the kinds of the labels.
Ended(t)  == Kind(pc[t]) = "ended"
HeldAs(kind, t) == \E f \in Frame : Kind(pc[f]) = kind /\ node[f] = t
Buried(t) == HeldAs("buries", t)

\* EndedExpire by kinds, of this state and of the next.
LEMMA EndedIs == EndedExpire <=> \A t \in Task : Ended(t) <=> t \in Range(expired) \/ Buried(t)
BY KindIs DEF EndedExpire, HeldBy, Ended, Buried, HeldAs

LEMMA EndedNext ==
  EndedExpire' <=> \A t \in Task : Ended(t)' <=> t \in Range(expired') \/ Buried(t)'
BY KindIs DEF EndedExpire, HeldBy, Ended, Buried, HeldAs

\* A step without an exit and a burial leaves the tasks that ended alone.
LEMMA EndedRest ==
  ASSUME EndedExpire, NEW F, Rest(F), expired' = expired,
         \A f \in F : Kind(pc[f]) \notin {"buries", "ended"} /\ Kind(pc'[f]) \notin {"buries", "ended"}
  PROVE  EndedExpire'
<1>1. \A f \in Frame : /\ Kind(pc'[f]) = "buries" <=> Kind(pc[f]) = "buries"
                       /\ Kind(pc[f]) = "buries" => node'[f] = node[f]
                       /\ Kind(pc'[f]) = "ended" <=> Kind(pc[f]) = "ended"
  BY DEF Rest, InHandKind
<1>2. \A t \in Task : (Ended(t)' <=> Ended(t)) /\ (Buried(t)' <=> Buried(t))
  BY <1>1 DEF Ended, Buried, HeldAs, Frame
<1>3. QED
  BY <1>2, EndedIs, EndedNext

\* Every step keeps the tasks that ended in the expired list or in the hand of kill.
LEMMA NextEnded == Orderly /\ [Next]_vars => EndedExpire'
<1> SUFFICES ASSUME Orderly, [Next]_vars PROVE EndedExpire'
  OBVIOUS
<1>0. EndedExpire /\ OnePlace'
  BY NextPlaces DEF Orderly
<1>1. ASSUME Quiet \/ Turn PROVE EndedExpire'
  BY <1>0, <1>1, EndedRest DEF Quiet, Turn, queues
<1>2. ASSUME NEW f \in Frame, Wake(f) \/ Push(f) PROVE EndedExpire'
  <2>1. /\ Rest({f}) /\ expired' = expired
        /\ Kind(pc[f]) \notin {"buries", "ended"} /\ Kind(pc'[f]) \notin {"buries", "ended"}
    BY <1>2 DEF Wake, Push
  <2>2. QED
    BY <1>0, <2>1, EndedRest
<1>3. ASSUME NEW t \in Task, NEW child \in Task, Birth(t, child) PROVE EndedExpire'
  <2>1. /\ Rest({t, child}) /\ expired' = expired
        /\ \A f \in {t, child} : Kind(pc[f]) \notin {"buries", "ended"}
                                 /\ Kind(pc'[f]) \notin {"buries", "ended"}
    BY <1>3 DEF Birth, queues
  <2>2. QED
    BY <1>0, <2>1, EndedRest
<1>4. ASSUME NEW t \in Task, End(t) PROVE EndedExpire'
  <2>1. /\ Kind(pc[t]) = "plain" /\ Kind(pc'[t]) = "ended" /\ Rest({t})
        /\ expired' = Append(expired, t)
    BY <1>4 DEF End
  <2>2. Range(expired') = Range(expired) \cup {t}
    BY <2>1, OrderlyPlaces, PushPlace
  <2>3. \A f \in Frame : /\ Kind(pc'[f]) = "buries" <=> Kind(pc[f]) = "buries"
                         /\ Kind(pc[f]) = "buries" => node'[f] = node[f]
                         /\ Kind(pc'[f]) = "ended" <=> Kind(pc[f]) = "ended" \/ f = t
    BY <2>1 DEF Rest, InHandKind
  <2>4. \A u \in Task : (Ended(u)' <=> Ended(u) \/ u = t) /\ (Buried(u)' <=> Buried(u))
    BY <2>3 DEF Ended, Buried, HeldAs, Frame
  <2>5. QED
    BY <1>0, <2>2, <2>4, EndedIs, EndedNext
<1>5. ASSUME NEW t \in Task, Reap(t) PROVE EndedExpire'
  <2>1. PICK i \in 1..Len(expired) :
          node'[t] = expired[i] /\ expired' = RemoveAt(expired, i)
    BY <1>5 DEF Reap
  <2> DEFINE x == expired[i]
  <2>2. Range(expired') = Range(expired) \ {x} /\ x \in Range(expired)
    BY <2>1, OrderlyPlaces, RemovePlace, RangeIs DEF Injective
  <2>3. /\ Kind(pc[t]) = "plain" /\ Kind(pc'[t]) = "buries" /\ node'[t] = x /\ Rest({t})
        /\ t \in Frame
    BY <1>5, <2>1 DEF Reap, Frame
  <2> HIDE DEF x
  <2>4. \A f \in Frame : /\ Kind(pc'[f]) = "buries" <=> Kind(pc[f]) = "buries" \/ f = t
                         /\ Kind(pc[f]) = "buries" => node'[f] = node[f]
                         /\ Kind(pc'[f]) = "ended" <=> Kind(pc[f]) = "ended"
    BY <2>3 DEF Rest, InHandKind
  <2>5. \A u \in Task : (Ended(u)' <=> Ended(u)) /\ (Buried(u)' <=> Buried(u) \/ u = x)
    BY <2>3, <2>4 DEF Ended, Buried, HeldAs, Frame
  <2>6. QED
    BY <1>0, <2>2, <2>5, EndedIs, EndedNext
<1>6. ASSUME NEW t \in Task, Bury(t) PROVE EndedExpire'
  <2> DEFINE u == node[t]
  <2>1. /\ Kind(pc[t]) = "buries" /\ Kind(pc'[t]) = "plain" /\ t \in Frame
        /\ Kind(pc[u]) = "ended" /\ Kind(pc'[u]) = "dead" /\ Rest({t, u})
        /\ expired' = expired
    BY <1>6 DEF Bury, queues, Frame
  <2>2. u \in Task /\ u \in Hand
    BY <2>1, KindIs, OrderlyPlaces DEF InHandKind
  <2>3. u \notin Range(expired)
    BY <2>2, OrderlyPlaces DEF Placed, Partition
  <2>4. \A f \in Frame : Kind(pc[f]) = "buries" /\ node[f] = u => f = t
    BY <2>1, KindIs, OrderlyPlaces DEF HandsApart, InHandKind
  <2> HIDE DEF u
  <2>5. \A f \in Frame : /\ Kind(pc'[f]) = "buries" <=> Kind(pc[f]) = "buries" /\ f # t
                         /\ Kind(pc'[f]) = "buries" => node'[f] = node[f]
                         /\ Kind(pc'[f]) = "ended" <=> Kind(pc[f]) = "ended" /\ f # u
    BY <2>1 DEF Rest, InHandKind
  <2>6. \A v \in Task : /\ Ended(v)' <=> Ended(v) /\ v # u
                        /\ Buried(v)' <=> Buried(v) /\ v # u
    <3>1. node[t] = u
      BY DEF u
    <3>2. QED
      BY <2>1, <2>4, <2>5, <3>1 DEF Ended, Buried, HeldAs, Frame
  <2>7. QED
    BY <1>0, <2>1, <2>3, <2>6, EndedIs, EndedNext
<1>7. QED
  BY <1>1, <1>2, <1>3, <1>4, <1>5, <1>6, StepMoves DEF Moves

\* What a label says of a task that sleeps or ends.
Phase(label) ==
  IF label \in Asleep THEN "asleep"
  ELSE IF label \in {"exit_sched", "exit_pick"} THEN "ending"
  ELSE IF label \in {"exit_switch", "dead", "returned"} THEN label
  ELSE "other"

\* A step that no task falls asleep, comes back, or changes stacks in.
Calm ==
  /\ UNCHANGED <<running, ctx, esp, sleep_>>
  /\ halt # "wild" /\ Range(sleeping') \subseteq Range(sleeping)
  /\ \A t \in Task :
       /\ Phase(pc'[t]) = Phase(pc[t])
       /\ Phase(pc[t]) \in {"asleep", "exit_switch"} => node'[t] = node[t]

\* The steps that are not calm.
Shift(t) ==
  \/ Sleep(t) \/ SleepReturn(t) \/ ForkCopy(t) \/ ExitExpire(t)
  \/ ExitPick(t) \/ ExitSwitch(t) \/ KillFree(t)

\* Every other step is calm: scheduler finds its lock free in exit, and a
\* wakeup only takes tasks out of the sleeping list.
LEMMA StepCalm ==
  Orderly /\ [Next]_vars => Calm \/ UNCHANGED vars \/ TimerSwitch \/ \E t \in Task : Shift(t)
<1> SUFFICES ASSUME Orderly, [Next]_vars
             PROVE  Calm \/ UNCHANGED vars \/ TimerSwitch \/ \E t \in Task : Shift(t)
  OBVIOUS
<1> USE TasksAssumption
<1>0. /\ pc \in [Frame -> Labels] /\ node \in [Frame -> Task \cup {None}]
      /\ idx \in [Frame -> Nat \ {0}] /\ sleeping \in Seq(Task)
  BY DEF Orderly, Safe, TypeOK, FieldTypes
<1>1. ASSUME TimerTick \/ TimerIdle \/ TimerReturn PROVE Calm
  BY <1>1 DEF TimerTick, TimerIdle, TimerArrives, TimerReturn, Calm, queues, locals, pcb
<1>2. ASSUME NEW t \in Task, EnterRing3(t) \/ Awake(t) PROVE Calm
  BY <1>0, <1>2 DEF EnterRing3, Awake, At, Goto, Calm, queues, locals, pcb, Phase,
     Asleep, Frame
<1>3. ASSUME NEW t \in Task, NEW r \in Resource, CallSleep(t, r) PROVE Calm
  BY <1>0, <1>3 DEF CallSleep, At, Goto, Calm, queues, pcb, Phase, Asleep, Frame
<1>4. ASSUME NEW d \in Device, DeviceInterrupt(d) PROVE Calm
  BY <1>0, <1>4 DEF DeviceInterrupt, Goto, Calm, queues, pcb, Phase, Asleep, Frame
<1>5. ASSUME NEW f \in Frame, WakeupStep(f) PROVE Calm
  <2>1. ASSUME WakeupDone(f) \/ WakeupNext(f) \/ WakeupSkip(f) \/ WakeupMatch(f) PROVE Calm
    BY <1>0, <2>1 DEF WakeupDone, WakeupNext, WakeupSkip, WakeupMatch, At, Goto, Calm,
       queues, locals, pcb, Phase, Asleep, Frame
  <2>2. ASSUME WakeupFind(f) PROVE Calm
    BY <1>0, <2>2 DEF WakeupFind, At, Goto, Calm, queues, pcb, Phase, Asleep, Frame
  <2>3. ASSUME WakeupRemove(f) PROVE Calm
    <3>1. CASE idx[f] > Len(sleeping)
      BY <2>3, <3>1 DEF WakeupRemove, At, Calm, pcb
    <3>2. CASE ~(idx[f] > Len(sleeping))
      <4>1. idx[f] \in 1..Len(sleeping)
        BY <1>0, <3>2
      <4>2. node' = [node EXCEPT ![f] = sleeping[idx[f]]]
            /\ sleeping' = RemoveAt(sleeping, idx[f]) /\ Goto(f, "ready_wait")
        BY <2>3, <3>2 DEF WakeupRemove
      <4>3. Range(sleeping') \subseteq Range(sleeping)
        BY <1>0, <4>1, <4>2, OrderlyPlaces, RemovePlace DEF Injective
      <4>4. QED
        BY <1>0, <2>3, <4>2, <4>3 DEF WakeupRemove, At, Goto, Calm, pcb, Phase, Asleep,
           Frame
    <3>3. QED
      BY <3>1, <3>2
  <2>4. ASSUME ReadyWait(f) PROVE Calm
    BY <1>0, <2>4 DEF ReadyWait, At, Goto, Calm, queues, locals, pcb, Phase, Asleep,
       Frame
  <2>5. ASSUME ReadyPush(f) PROVE Calm
    BY <1>0, <2>5 DEF ReadyPush, At, Goto, Calm, pcb, Phase, Asleep, Frame
  <2>6. QED
    BY <1>5, <2>1, <2>2, <2>3, <2>4, <2>5 DEF WakeupStep
<1>6. ASSUME NEW t \in Task, NEW child \in Task, Fork(t, child) PROVE Calm
  BY <1>0, <1>6 DEF Fork, At, Calm, queues, pcb, Phase, Asleep, Frame
<1>7. ASSUME NEW t \in Task, GetCurrentPcb(t) \/ CallExit(t) \/ ExitLock(t) PROVE Calm
  BY <1>0, <1>7 DEF GetCurrentPcb, CallExit, ExitLock, At, Goto, Calm, queues, locals,
     pcb,
     Phase, Asleep, Frame
<1>8. ASSUME NEW t \in Task, ExitFree(t) \/ ExitWake(t) PROVE Calm
  BY <1>0, <1>8 DEF ExitFree, ExitWake, At, Goto, Calm, queues, locals, pcb, Phase,
     Asleep,
     Frame
<1>9. ASSUME NEW t \in Task, ExitSchedLock(t) PROVE Calm
  <2>1. sl_tasks = None
    BY <1>9, FreeOutside DEF ExitSchedLock, Orderly, Safe, Holding
  <2>2. QED
    BY <1>0, <1>9, <2>1 DEF ExitSchedLock, At, Goto, Calm, queues, locals, pcb, Phase,
       Asleep,
       Frame
<1>10. ASSUME NEW t \in Task, KillNext(t) PROVE Calm
  BY <1>0, <1>10 DEF KillNext, At, Goto, Calm, pcb, Phase, Asleep, Frame
<1>11. QED
  BY <1>1, <1>2, <1>3, <1>4, <1>5, <1>6, <1>7, <1>8, <1>9, <1>10
     DEF Next, Timer, Call, CpuStep, TaskStep, Shift

\* What the parts of Conduct say, by phases.
LEMMA ConductIs ==
  Conduct <=>
    /\ RunsOwn /\ StackIsOwn /\ ExitNeverReturns
    /\ \A t \in Range(sleeping) : sleep_[t] # None /\ pc[t] \in Asleep
    /\ SleepOwn /\ SleepField
BY CurrentRunsIs DEF Conduct, SleepersSleep, Asleep

\* What each phase says.
LEMMA PhaseIs ==
  ASSUME NEW label
  PROVE  /\ Phase(label) = "asleep" <=> label \in Asleep
         /\ Phase(label) = "ending" <=> label \in {"exit_sched", "exit_pick"}
         /\ Phase(label) = "exit_switch" <=> label = "exit_switch"
         /\ Phase(label) = "dead" <=> label = "dead"
         /\ Phase(label) = "returned" <=> label = "returned"
         /\ Phase(label) \in {"ending", "exit_switch"} <=> label \in Exiting
BY DEF Phase, Asleep, Exiting

\* A calm step keeps the tasks on their stacks and the sleepers in sleep.
LEMMA CalmConduct == ASSUME Orderly, Calm PROVE Conduct'
<1>0. ctx \in Task /\ esp \in [Task -> Task] /\ sleeping \in Seq(Task)
      /\ Range(sleeping) \subseteq Task
  BY RangeIs DEF Orderly, Safe, TypeOK, FieldTypes
<1>1. RunsOwn /\ StackIsOwn /\ ExitNeverReturns /\ SleepersSleep /\ SleepOwn /\ SleepField
  BY CurrentRunsIs DEF Orderly, Conduct
<1>2. RunsOwn'
  BY <1>0, <1>1, PhaseIs DEF Calm, RunsOwn
<1>3. CurrentRuns'
  BY <1>2, CurrentRunsIs, PTL
<1>4. StackIsOwn'
  BY <1>0, <1>1, PhaseIs DEF Calm, StackIsOwn
<1>5. ExitNeverReturns'
  BY <1>1, PhaseIs DEF Calm, ExitNeverReturns
<1>6. SleepOwn' /\ SleepField'
  BY <1>1, PhaseIs DEF Calm, SleepOwn, SleepField
<1>7. SleepersSleep'
  BY <1>0, <1>1, PhaseIs DEF Calm, SleepersSleep, Asleep
<1>8. QED
  BY <1>3, <1>4, <1>5, <1>6, <1>7 DEF Conduct
-----------------------------------------------------------------------------
\* A task in a queue of living tasks has not ended.
LEMMA NotEnded ==
  ASSUME Orderly, NEW t \in Range(ready) \cup Range(running) \cup Range(sleeping)
  PROVE  t \in Task /\ pc[t] \notin Exiting \cup {"unborn", "dead"}
<1>1. t \in Alive /\ t \notin Range(expired) /\ t \notin Hand
  BY OrderlyPlaces DEF Placed, Partition
<1>2. ~HeldBy(t, {"kill_free"})
  BY <1>1 DEF HeldBy, Hand, InHand
<1>3. QED
  BY <1>1, <1>2 DEF Alive, Orderly, EndedExpire

\* The first ready task comes to run; only who has a resource falls asleep.
LEMMA NewRuns ==
  ASSUME Orderly, halt = "no", NEW slp, Reschedule(slp)
  PROVE  /\ ready # <<>> /\ Head(ready) \in Range(ready) /\ Head(ready) \notin Range(running)
         /\ Head(ready) \in Task /\ pc[Head(ready)] \notin Exiting \cup {"unborn", "dead"}
         /\ running' = <<Head(ready)>>
         /\ \A t \in Range(sleeping') :
              t \in Range(sleeping) \/ (t = Current /\ Current # None /\ slp[t] # None)
<1>1. ready # <<>> /\ ready \in Seq(Task) /\ IsInjective(ready) /\ sleeping \in Seq(Task)
  BY OrderlyPlaces DEF Reschedule, Injective
<1>2. Head(ready) \in Range(ready)
  BY <1>1, PopPlace
<1>3. Head(ready) \notin Range(running)
  BY <1>2, OrderlyPlaces DEF Placed, Partition
<1>4. Head(ready) \in Task /\ pc[Head(ready)] \notin Exiting \cup {"unborn", "dead"}
  BY <1>2, NotEnded
<1>5. running' = <<Head(ready)>>
  BY RunsOne, ShortQueue DEF Reschedule
<1>6. ASSUME NEW t \in Range(sleeping')
      PROVE  t \in Range(sleeping) \/ (t = Current /\ Current # None /\ slp[t] # None)
  <2>1. CASE Current # None /\ slp[Current] # None
    <3>1. sleeping' = Append(sleeping, Current) /\ Current \in Task
      BY <2>1, RunsOne DEF Reschedule
    <3>2. Range(sleeping') = Range(sleeping) \cup {Current}
      BY <1>1, <3>1, PushPlace
    <3>3. QED
      BY <1>6, <2>1, <3>2
  <2>2. CASE ~(Current # None /\ slp[Current] # None)
    BY <1>6, <2>2 DEF Reschedule
  <2>3. QED
    BY <2>1, <2>2
<1>7. QED
  BY <1>1, <1>2, <1>3, <1>4, <1>5, <1>6

\* What the parts of Orderly say of one step, in one place.
LEMMA OrderlyParts ==
  ASSUME Orderly
  PROVE  /\ RunsOwn /\ StackIsOwn /\ ExitNeverReturns
         /\ \A t \in Range(sleeping) : t \in Task /\ sleep_[t] # None /\ pc[t] \in Asleep
         /\ SleepOwn /\ SleepField
         /\ pc \in [Frame -> Labels] /\ node \in [Frame -> Task \cup {None}]
         /\ ctx \in Task /\ esp \in [Task -> Task]
         /\ sleep_ \in [Task -> Resource \cup {None}]
BY ConductIs, NotEnded DEF Orderly, Safe, TypeOK, FieldTypes

\* The parts of Conduct, of the next state.
LEMMA ConductNext ==
  RunsOwn' /\ StackIsOwn' /\ ExitNeverReturns' /\ SleepersSleep' /\ SleepOwn' /\ SleepField'
    => Conduct'
<1>1. CurrentRuns' <=> RunsOwn'
  BY CurrentRunsIs, PTL
<1>2. QED
  BY <1>1 DEF Conduct

\* A tick that preempts: the new task's stack is in use, or a PCB was wrong.
LEMMA TimerConduct == ASSUME Orderly, TimerSwitch PROVE Conduct'
<1> DEFINE new == Head(ready)
<1>0. halt = "no" /\ Reschedule(sleep_) /\ SwitchTo(Current, new)
      /\ UNCHANGED <<pc, node, sleep_>>
  BY DEF TimerSwitch, TimerArrives, locals
<1>1. /\ new \in Task /\ pc[new] \notin Exiting /\ running' = <<new>>
      /\ \A t \in Range(sleeping') :
           t \in Range(sleeping) \/ (t = Current /\ Current # None /\ sleep_[t] # None)
  BY <1>0, NewRuns
<1> HIDE DEF new
<1>2. RunsOwn'
  BY <1>0, <1>1 DEF RunsOwn, SwitchTo, Exiting
<1>3. StackIsOwn'
  <2>1. CASE Current = None
    BY <1>0, <2>1, OrderlyParts DEF SwitchTo, StackIsOwn
  <2>2. ASSUME NEW c \in Task, running = <<c>>, Current = c PROVE StackIsOwn'
    <3>1. esp' = [esp EXCEPT ![c] = ctx]
      BY <1>0, <2>2, TasksAssumption DEF SwitchTo
    <3>2. c # ctx => pc[ctx] = "exit_switch"
      BY <1>0, <2>2, OrderlyParts DEF RunsOwn, Exiting
    <3>3. QED
      BY <1>0, <3>1, <3>2, OrderlyParts DEF StackIsOwn
  <2>3. QED
    BY <1>0, <2>1, <2>2, RunsOne
<1>4. SleepersSleep'
  <2>1. Current # None => Current \in Task
    BY <1>0, RunsOne
  <2>2. QED
    BY <1>0, <1>1, <2>1, OrderlyParts DEF SleepersSleep, SleepField, Asleep
<1>5. ExitNeverReturns' /\ SleepOwn' /\ SleepField'
  BY <1>0, OrderlyParts DEF ExitNeverReturns, SleepOwn, SleepField
<1>6. QED
  BY <1>2, <1>3, <1>4, <1>5, ConductNext

\* sleep: the caller gives way, or goes on alone with the CPU.
LEMMA SleepConduct == ASSUME Orderly, NEW t \in Task, Sleep(t) PROVE Conduct'
<1> DEFINE new == Head(ready)
<1> USE TasksAssumption
<1>0. /\ t = ctx /\ halt = "no" /\ pc[t] = "sleep" /\ running = <<t>> /\ Current = t
  BY Running DEF Sleep, Exiting
<1>1. /\ node' = [node EXCEPT ![t] = t] /\ sleep_' = [sleep_ EXCEPT ![t] = res[t]]
      /\ pc' = [pc EXCEPT ![t] = "slept"]
  BY <1>0 DEF Sleep, Goto
<1>2. ExitNeverReturns' /\ SleepOwn' /\ SleepField'
  BY <1>0, <1>1, OrderlyParts DEF ExitNeverReturns, SleepOwn, SleepField, Asleep, Frame
<1>3. t \notin Range(sleeping)
  BY <1>0, OrderlyParts DEF Asleep
<1>4. CASE ready = <<>>
  <2>1. UNCHANGED <<running, sleeping, ctx, esp, halt>>
    BY <1>4 DEF Sleep, queues
  <2>2. SleepersSleep'
    BY <1>1, <1>3, <2>1, OrderlyParts DEF SleepersSleep, Asleep, Frame
  <2>3. StackIsOwn'
    BY <1>0, <1>1, <2>1, OrderlyParts DEF StackIsOwn, Frame
  <2>4. RunsOwn'
    BY <1>0, <1>1, <2>1, OrderlyParts DEF RunsOwn, Frame, Exiting
  <2>5. QED
    BY <1>2, <2>2, <2>3, <2>4, ConductNext
<1>5. CASE ready # <<>>
  <2>1. Reschedule(sleep_') /\ SwitchTo(t, new)
    BY <1>0, <1>5 DEF Sleep
  <2>2. /\ new \in Task /\ pc[new] \notin Exiting /\ running' = <<new>>
        /\ new \notin Range(running)
        /\ \A u \in Range(sleeping') :
             u \in Range(sleeping) \/ (u = t /\ sleep_'[u] # None)
    BY <1>0, <2>1, NewRuns
  <2> HIDE DEF new
  <2>3. new # t
    BY <1>0, <2>2, ShortQueue
  <2>4. RunsOwn'
    BY <1>1, <2>1, <2>2, <2>3, OrderlyParts DEF RunsOwn, SwitchTo, Exiting, Frame
  <2>5. StackIsOwn'
    <3>1. esp' = [esp EXCEPT ![t] = t]
      BY <1>0, <2>1 DEF SwitchTo
    <3>2. QED
      BY <1>0, <1>1, <3>1, OrderlyParts DEF StackIsOwn, Frame
  <2>6. SleepersSleep'
    BY <1>1, <1>3, <2>2, OrderlyParts DEF SleepersSleep, Asleep, Frame
  <2>7. QED
    BY <1>2, <2>4, <2>5, <2>6, ConductNext
<1>6. QED
  BY <1>4, <1>5

\* The end of sleep clears the field of a task that is in no list.
LEMMA SleepReturnConduct == ASSUME Orderly, NEW t \in Task, SleepReturn(t) PROVE Conduct'
<1>0. /\ t = ctx /\ halt = "no" /\ pc[t] = "awake" /\ running = <<t>>
  BY Running DEF SleepReturn, Exiting
<1>1. node[t] = t
  BY <1>0, OrderlyParts DEF SleepOwn, Asleep
<1>2. /\ node' = [node EXCEPT ![t] = None] /\ sleep_' = [sleep_ EXCEPT ![t] = None]
      /\ pc' = [pc EXCEPT ![t] = IF t = Hoo THEN "boot" ELSE "user"]
      /\ UNCHANGED <<running, sleeping, ctx, esp, halt>>
  BY <1>1 DEF SleepReturn, Goto, queues
<1>3. t \notin Range(sleeping)
  BY <1>0, ShortQueue, OrderlyPlaces DEF Placed, Partition
<1>4. ExitNeverReturns' /\ SleepOwn' /\ SleepField'
  BY <1>0, <1>2, OrderlyParts DEF ExitNeverReturns, SleepOwn, SleepField, Asleep, Frame
<1>5. RunsOwn' /\ StackIsOwn' /\ SleepersSleep'
  BY <1>0, <1>2, <1>3, OrderlyParts DEF RunsOwn, StackIsOwn, SleepersSleep, Asleep,
     Exiting, Frame
<1>6. QED
  BY <1>4, <1>5, ConductNext

\* fork resets the PCB of a child that is in no list yet.
LEMMA ForkCopyConduct == ASSUME Orderly, NEW t \in Task, ForkCopy(t) PROVE Conduct'
<1>0. /\ t = ctx /\ halt = "no" /\ pc[t] = "fork_copy" /\ running = <<t>> /\ Current = t
  BY Running DEF ForkCopy, Exiting
<1> DEFINE child == node[t]
<1>1. child \in Task /\ child \in Hand
  BY <1>0, OrderlyPlaces DEF InHand, Frame
<1>2. child \notin Range(sleeping)
  BY <1>1, OrderlyPlaces DEF Placed, Partition
<1>3. /\ sleep_' = [sleep_ EXCEPT ![child] = None] /\ esp' = [esp EXCEPT ![child] = child]
      /\ pc' = [pc EXCEPT ![t] = "fork_wait"]
      /\ UNCHANGED <<running, sleeping, ctx, node>>
  BY DEF ForkCopy, Goto, queues, locals
<1> HIDE DEF child
<1>4. ExitNeverReturns' /\ SleepOwn' /\ SleepField'
  BY <1>0, <1>1, <1>3, OrderlyParts DEF ExitNeverReturns, SleepOwn, SleepField, Asleep,
     Frame
<1>5. RunsOwn' /\ StackIsOwn' /\ SleepersSleep'
  BY <1>0, <1>1, <1>2, <1>3, OrderlyParts DEF RunsOwn, StackIsOwn, SleepersSleep,
     Asleep, Exiting, Frame
<1>6. QED
  BY <1>4, <1>5, ConductNext

\* exit leaves the running queue, takes the next task, and goes to its stack.
LEMMA ExitConduct ==
  ASSUME Orderly, NEW t \in Task, ExitExpire(t) \/ ExitPick(t) \/ ExitSwitch(t)
  PROVE  Conduct'
<1> USE TasksAssumption
<1>1. ASSUME ExitExpire(t) PROVE Conduct'
  <2>1. t = ctx /\ halt = "no" /\ pc[t] = "exit_expire" /\ running = <<t>> /\ Current = t
    BY <1>1, Running DEF ExitExpire, Exiting
  <2>2. /\ running' = <<>> /\ pc' = [pc EXCEPT ![t] = "exit_sched"]
        /\ UNCHANGED <<sleeping, ctx, esp, sleep_, node>>
    BY <1>1, <2>1, ShortQueue DEF ExitExpire, Goto, locals, pcb
  <2>3. ExitNeverReturns' /\ SleepOwn' /\ SleepField'
    BY <2>1, <2>2, OrderlyParts DEF ExitNeverReturns, SleepOwn, SleepField, Asleep,
       Frame
  <2>4. RunsOwn' /\ StackIsOwn' /\ SleepersSleep'
    BY <2>1, <2>2, OrderlyParts DEF RunsOwn, StackIsOwn, SleepersSleep, Asleep,
       Exiting, Frame
  <2>5. QED
    BY <2>3, <2>4, ConductNext
<1>2. ASSUME ExitPick(t) PROVE Conduct'
  <2>1. t = ctx /\ halt = "no" /\ pc[t] = "exit_pick" /\ running = <<>> /\ Current = None
    BY <1>2, Running DEF ExitPick
  <2>2. ready # <<>>
    <3>1. Hoo \in Range(ready) \cup Range(running)
      BY DEF Orderly, HooAwake, HooHere
    <3>2. QED
      BY <2>1, <3>1, ShortQueue
  <2>3. /\ Reschedule(sleep_) /\ node' = [node EXCEPT ![t] = Head(ready)]
        /\ pc' = [pc EXCEPT ![t] = "exit_switch"] /\ UNCHANGED <<ctx, esp, sleep_>>
    BY <1>2, <2>2 DEF ExitPick, Goto, pcb
  <2>4. /\ running' = <<Head(ready)>>
        /\ \A u \in Range(sleeping') : u \in Range(sleeping)
    BY <2>1, <2>3, NewRuns
  <2>5. ExitNeverReturns' /\ SleepOwn' /\ SleepField'
    BY <2>1, <2>3, OrderlyParts DEF ExitNeverReturns, SleepOwn, SleepField, Asleep,
       Frame
  <2>6. RunsOwn' /\ StackIsOwn' /\ SleepersSleep'
    BY <2>1, <2>3, <2>4, OrderlyParts DEF RunsOwn, StackIsOwn, SleepersSleep, Asleep,
       Exiting, Frame
  <2>7. QED
    BY <2>5, <2>6, ConductNext
<1>3. ASSUME ExitSwitch(t) PROVE Conduct'
  <2>1. t = ctx /\ halt = "no" /\ pc[t] = "exit_switch" /\ running = <<node[t]>>
    BY <1>3, Running DEF ExitSwitch
  <2>2. node[t] \in Task /\ pc[node[t]] \notin Exiting
    BY <2>1, ShortQueue, NotEnded
  <2>3. /\ esp' = esp /\ ctx' = esp'[node[t]]
        /\ halt' = IF esp'[node[t]] = node[t] THEN halt ELSE "wild"
        /\ UNCHANGED <<running, sleeping, pc, node, sleep_>>
    BY <1>3 DEF ExitSwitch, SwitchTo, queues, locals, pcb
  <2>4. RunsOwn'
    BY <2>1, <2>2, <2>3 DEF RunsOwn, Exiting
  <2>5. /\ StackIsOwn' /\ ExitNeverReturns' /\ SleepersSleep' /\ SleepOwn' /\ SleepField'
    BY <2>3, OrderlyParts DEF StackIsOwn, ExitNeverReturns, SleepersSleep, SleepOwn,
       SleepField,
       Asleep
  <2>6. QED
    BY <2>4, <2>5, ConductNext
<1>4. QED
  BY <1>1, <1>2, <1>3

\* kill frees the stacks of a task that no PCB but its own may lead to.
LEMMA KillFreeConduct == ASSUME Orderly, NEW t \in Task, KillFree(t) PROVE Conduct'
<1>0. /\ t = ctx /\ halt = "no" /\ pc[t] = "kill_free" /\ running = <<t>>
  BY Running DEF KillFree, Exiting
<1> DEFINE u == node[t]
<1>1. u \in Task /\ pc[u] \in Exiting
  BY <1>0, OrderlyPlaces DEF Orderly, EndedExpire, HeldBy, InHand, Frame
<1>2. /\ pc' = [pc EXCEPT ![t] = "kill", ![u] = "dead"] /\ node' = [node EXCEPT ![t] = None]
      /\ UNCHANGED <<running, sleeping, ctx, esp, sleep_, halt>>
  BY DEF KillFree, queues, pcb
<1> HIDE DEF u
<1>3. ExitNeverReturns' /\ SleepOwn' /\ SleepField'
  BY <1>0, <1>1, <1>2, OrderlyParts DEF ExitNeverReturns, SleepOwn, SleepField, Asleep,
     Exiting, Frame
<1>4. RunsOwn'
  BY <1>0, <1>1, <1>2, OrderlyParts DEF RunsOwn, Exiting, Frame
<1>5. StackIsOwn'
  BY <1>0, <1>1, <1>2, OrderlyParts DEF StackIsOwn, Exiting, Frame
<1>6. SleepersSleep'
  BY <1>0, <1>1, <1>2, OrderlyParts DEF SleepersSleep, Asleep, Exiting, Frame
<1>7. QED
  BY <1>3, <1>4, <1>5, <1>6, ConductNext

\* Every step keeps the tasks on their stacks, and the sleepers in sleep.
LEMMA NextConduct == Orderly /\ [Next]_vars => Conduct'
<1> SUFFICES ASSUME Orderly, [Next]_vars PROVE Conduct'
  OBVIOUS
<1>1. CASE UNCHANGED vars
  <2>1. RunsOwn' /\ StackIsOwn' /\ ExitNeverReturns' /\ SleepersSleep' /\ SleepOwn' /\ SleepField'
    BY <1>1, OrderlyParts DEF vars, queues, locals, pcb, RunsOwn, StackIsOwn,
       ExitNeverReturns, SleepersSleep, SleepOwn, SleepField, Asleep
  <2>2. QED
    BY <2>1, ConductNext
<1>2. QED
  BY <1>1, StepCalm, CalmConduct, TimerConduct, SleepConduct, SleepReturnConduct,
     ForkCopyConduct, ExitConduct, KillFreeConduct DEF Shift

\* hoo never calls exit or wakeup, and sleeps only before its first fork.
LEMMA NextHooLabel == Orderly /\ [Next]_vars => HooLabel' /\ HooAlone'
<1> SUFFICES ASSUME Orderly, [Next]_vars PROVE HooLabel' /\ HooAlone'
  OBVIOUS
<1> USE TasksAssumption
<1>0. /\ pc \in [Frame -> Labels] /\ Hoo \in Task /\ Hoo # Isr /\ HooLabel /\ HooAlone
  BY TasksAssumption DEF Orderly, HooAwake, Safe, TypeOK, FieldTypes
<1> DEFINE Goal == HooLabel' /\ HooAlone'
<1> USE DEF HooLabel, HooAlone, HooBoots, HooForks, HooKills, Asleep, Frame, At, Goto
<1>1. ASSUME UNCHANGED pc PROVE Goal
  BY <1>0, <1>1
<1>2. ASSUME NEW d \in Device, DeviceInterrupt(d) PROVE Goal
  BY <1>0, <1>2 DEF DeviceInterrupt
<1>3. ASSUME NEW t \in Task, EnterRing3(t) \/ Sleep(t) \/ Awake(t) \/ SleepReturn(t) PROVE Goal
  BY <1>0, <1>3 DEF EnterRing3, Sleep, Awake, SleepReturn
<1>4. ASSUME NEW t \in Task, NEW r \in Resource, CallSleep(t, r) PROVE Goal
  BY <1>0, <1>4 DEF CallSleep
<1>5. ASSUME NEW f \in Frame, WakeupStep(f) PROVE Goal
  <2>1. CASE WakeupDone(f) \/ WakeupNext(f) \/ WakeupFind(f)
    BY <1>0, <2>1 DEF WakeupDone, WakeupNext, WakeupFind
  <2>2. CASE WakeupSkip(f) \/ WakeupMatch(f) \/ WakeupRemove(f)
    BY <1>0, <2>2 DEF WakeupSkip, WakeupMatch, WakeupRemove
  <2>3. CASE ReadyWait(f) \/ ReadyPush(f)
    BY <1>0, <2>3 DEF ReadyWait, ReadyPush
  <2>4. QED
    BY <1>5, <2>1, <2>2, <2>3 DEF WakeupStep
<1>6. ASSUME NEW t \in Task, NEW child \in Task, Fork(t, child) PROVE Goal
  BY <1>0, <1>6 DEF Fork
<1>7. ASSUME NEW t \in Task, GetCurrentPcb(t) \/ ForkCopy(t) PROVE Goal
  BY <1>0, <1>7 DEF GetCurrentPcb, ForkCopy
<1>8. ASSUME NEW t \in Task, CallExit(t) \/ ExitFree(t) \/ ExitWake(t) \/ ExitLock(t) PROVE Goal
  BY <1>0, <1>8 DEF CallExit, ExitFree, ExitWake, ExitLock
<1>9. ASSUME NEW t \in Task, ExitExpire(t) \/ ExitSchedLock(t) \/ ExitPick(t) PROVE Goal
  BY <1>0, <1>9 DEF ExitExpire, ExitSchedLock, ExitPick
<1>10. ASSUME NEW t \in Task, KillNext(t) PROVE Goal
  BY <1>0, <1>10 DEF KillNext
<1>11. ASSUME NEW t \in Task, KillFree(t) PROVE Goal
  <2>1. node[t] \in Task /\ pc[node[t]] \in Exiting
    BY <1>11, OrderlyPlaces DEF KillFree, Orderly, EndedExpire, HeldBy, InHand
  <2>2. pc' = [pc EXCEPT ![t] = "kill", ![node[t]] = "dead"] /\ pc[t] = "kill_free"
    BY <1>11 DEF KillFree
  <2>3. QED
    BY <1>0, <2>1, <2>2 DEF Exiting
<1>12. QED
  BY <1>1, <1>2, <1>3, <1>4, <1>5, <1>6, <1>7, <1>8, <1>9, <1>10, <1>11
     DEF Next, Timer, TimerTick, TimerIdle, TimerSwitch, TimerReturn, Call, CpuStep, TaskStep,
     ExitSwitch, vars

\* hoo is never the one that falls asleep while another task takes over.
LEMMA HooNotAlone ==
  ASSUME Orderly, running = <<Hoo>>, ready # <<>>
  PROVE  pc[Hoo] \notin HooBoots
<1>1. Head(ready) \in Range(ready)
  BY OrderlyPlaces, PopPlace DEF Injective
<1>2. Head(ready) # Hoo /\ Head(ready) \in Alive
  BY <1>1, ShortQueue, OrderlyPlaces DEF Placed, Partition
<1>3. QED
  BY <1>2 DEF Orderly, HooAwake, HooAlone, Alive

\* A turn leaves hoo in one of the two queues unless it goes to sleep in it.
LEMMA TurnHoo ==
  ASSUME Orderly, halt = "no", NEW slp, Reschedule(slp),
         running = <<Hoo>> => slp[Hoo] = None
  PROVE  HooHere'
<1>0. HooHere /\ ready \in Seq(Task) /\ ready # <<>> /\ IsInjective(ready)
  BY OrderlyPlaces DEF Orderly, HooAwake, Reschedule, Injective
<1> DEFINE new  == Head(ready)
           rest == Tail(ready)
<1>1. rest \in Seq(Task) /\ Range(rest) = Range(ready) \ {new} /\ running' = <<new>>
  BY <1>0, PopPlace, NewRuns
<1>2. CASE running = <<>> /\ Current = None
  <2>1. ready' = rest
    BY <1>2 DEF Reschedule
  <2> HIDE DEF new, rest
  <2>2. QED
    BY <1>0, <1>1, <1>2, <2>1, ShortQueue DEF HooHere
<1>3. ASSUME NEW old \in Task, running = <<old>>, Current = old PROVE HooHere'
  <2>1. ready' = rest \/ (ready' = Append(rest, old))
    BY <1>3, TasksAssumption DEF Reschedule
  <2>2. old = Hoo => ready' = Append(rest, old)
    BY <1>3, TasksAssumption, ShortQueue DEF Reschedule
  <2> HIDE DEF new, rest
  <2>3. Range(Append(rest, old)) = Range(rest) \cup {old}
    BY <1>1, PushPlace
  <2>4. QED
    BY <1>0, <1>1, <1>3, <2>1, <2>2, <2>3, ShortQueue DEF HooHere
<1>4. QED
  BY <1>2, <1>3, RunsOne

\* No step but a turn takes hoo out of the ready or the running queue.
LEMMA StayHoo ==
  ASSUME Orderly, [Next]_vars, Moves, ~Turn
  PROVE  HooHere'
<1>0. HooHere /\ HooLabel /\ Hoo \in Task
  BY TasksAssumption DEF Orderly, HooAwake
<1>1. CASE UNCHANGED <<ready, running>>
  BY <1>0, <1>1 DEF HooHere
<1>2. ASSUME NEW f \in Frame, Push(f) PROVE HooHere'
  <2>1. pc[f] \in InHand
    BY <1>2, KindIs DEF Push, InHandKind
  <2>2. Range(ready') = Range(ready) \cup {node[f]}
    BY <1>2, <2>1, OrderlyPlaces, PushPlace DEF Push
  <2>3. QED
    BY <1>0, <1>2, <2>2 DEF Push, HooHere
<1>3. ASSUME NEW t \in Task, End(t) PROVE HooHere'
  <2>1. pc'[t] \in Exiting
    BY <1>3, KindIs DEF End
  <2>2. HooLabel'
    BY NextHooLabel
  <2>3. t # Hoo
    BY <2>1, <2>2 DEF HooLabel, HooBoots, HooForks, HooKills, Asleep, Exiting
  <2>4. QED
    BY <1>0, <1>3, <2>3, ShortQueue DEF End, HooHere
<1>4. QED
  BY <1>1, <1>2, <1>3 DEF Moves, Quiet, Wake, Reap, Bury, Birth, queues

\* hoo is always ready or running: exit finds a task to switch to.
LEMMA NextHooHere == Orderly /\ [Next]_vars => HooHere'
<1> SUFFICES ASSUME Orderly, [Next]_vars PROVE HooHere'
  OBVIOUS
<1>1. CASE Turn
  <2>1. PICK slp \in [Task -> Resource \cup {None}] :
          /\ Reschedule(slp)
          /\ \A t \in Task : slp[t] # None => pc[t] \in Asleep \cup {"sleep"}
    BY <1>1 DEF Turn
  <2>2. running = <<Hoo>> => slp[Hoo] = None
    BY <2>1, HooNotAlone, TasksAssumption DEF HooBoots, Reschedule
  <2>3. QED
    BY <1>1, <2>1, <2>2, TurnHoo DEF Turn
<1>2. QED
  BY <1>1, StepMoves, StayHoo

\* The boot thread starts alone, with every other task unborn.
LEMMA InitOrderly == Init => Orderly
<1> SUFFICES ASSUME Init PROVE Orderly
  OBVIOUS
<1> USE TasksAssumption
<1>1. /\ ready = <<>> /\ running = <<Hoo>> /\ sleeping = <<>> /\ expired = <<>>
      /\ ctx = Hoo /\ halt = "no" /\ Hoo \in Task
      /\ esp = [t \in Task |-> t] /\ sleep_ = [t \in Task |-> None]
  BY DEF Init
<1>2. pc \in [Frame -> {"boot", "idle", "unborn"}] /\ pc[Hoo] = "boot"
      /\ \A f \in Frame : f \notin {Hoo, Isr} => pc[f] = "unborn"
  BY DEF Init, Frame
<1>3. Hand = {} /\ Alive = {Hoo}
  BY <1>1, <1>2 DEF Hand, InHand, Alive, Frame
<1>4. OnePlace
  <2>1. Injective
    BY <1>1, ShortQueue DEF Injective
  <2>2. Placed
    BY <1>1, <1>3, ShortQueue DEF Placed, Partition
  <2>3. HandsApart
    BY <1>2 DEF HandsApart, InHand
  <2>4. QED
    BY <2>1, <2>2, <2>3, OnePlaceIs
<1>5. Conduct
  <2>1. RunsOwn
    BY <1>1, <1>2 DEF RunsOwn, Exiting
  <2>2. StackIsOwn /\ ExitNeverReturns /\ SleepOwn /\ SleepField
    BY <1>1, <1>2 DEF StackIsOwn, ExitNeverReturns, SleepOwn, SleepField, Asleep, Frame
  <2>3. Range(sleeping) = {}
    BY <1>1, ShortQueue
  <2>4. QED
    BY <2>1, <2>2, <2>3, ConductIs
<1>6. EndedExpire
  <2>1. Range(expired) = {}
    BY <1>1, ShortQueue
  <2>2. QED
    BY <1>2, <2>1 DEF EndedExpire, HeldBy, Exiting, Frame
<1>7. HooAwake
  <2>1. Hoo \in Range(running)
    BY <1>1, ShortQueue
  <2>2. QED
    BY <1>2, <2>1 DEF HooAwake, HooLabel, HooAlone, HooHere, HooBoots, Frame
<1>8. QED
  BY <1>4, <1>5, <1>6, <1>7, InitType, InitNode, InitLock DEF Orderly, Safe, TypeOK

(***************************************************************************)
(* The parts of Orderly hold together whatever interrupts arrive between   *)
(* any two steps of sleep, wakeup, fork, exit and kill.                    *)
(***************************************************************************)
THEOREM OrderlyInvariant == Spec => []Orderly
<1>1. Orderly /\ [Next]_vars => Safe'
  BY NextType, NextNode, NextLock DEF Orderly, Safe, TypeOK
<1>2. Orderly /\ [Next]_vars => HooAwake'
  BY NextHooLabel, NextHooHere DEF HooAwake
<1>3. Orderly /\ [Next]_vars => Orderly'
  BY <1>1, <1>2, NextPlaces, NextConduct, NextEnded DEF Orderly
<1>4. QED
  BY <1>3, InitOrderly, PTL DEF Spec

(***************************************************************************)
(* No task is lost or in two places, though wakeup walks the sleeping list *)
(* and kill the expired list without a lock.                               *)
(***************************************************************************)
THEOREM OnePlaceInvariant == Spec => []OnePlace
BY OrderlyInvariant, PTL DEF Orderly

(***************************************************************************)
(* get_current_pcb gives the owner of the stack in use, except in the last *)
(* steps of exit.                                                          *)
(***************************************************************************)
THEOREM CurrentRunsInvariant == Spec => []CurrentRuns
BY OrderlyInvariant, PTL DEF Orderly, Conduct

(***************************************************************************)
(* A PCB leads to another task's stack only after a tick between the       *)
(* signal and the switch_to of an exit.                                    *)
(***************************************************************************)
THEOREM StackIsOwnInvariant == Spec => []StackIsOwn
BY OrderlyInvariant, PTL DEF Orderly, Conduct

(***************************************************************************)
(* exit always finds a ready task and never comes back to its caller.      *)
(***************************************************************************)
THEOREM ExitNeverReturnsInvariant == Spec => []ExitNeverReturns
BY OrderlyInvariant, PTL DEF Orderly, Conduct

(***************************************************************************)
(* Every task in the sleeping list stands within sleep and has a resource  *)
(* to be woken by.                                                         *)
(***************************************************************************)
THEOREM SleepersSleepInvariant == Spec => []SleepersSleep
BY OrderlyInvariant, PTL DEF Orderly, Conduct

\* The refinement mapping: the stage of every task.
Stages == [t \in Task |-> StageOf(t)]

StageNames == {"unborn", "created", "ready", "running", "sleeping", "woken",
               "expired", "reaped", "dead"}

\* What each stage says of the queues and of the hands.
Staged ==
  /\ Stages \in [Task -> StageNames]
  /\ \A t \in Task :
       /\ Stages[t] = "unborn" <=> Kind(pc[t]) = "unborn"
       /\ Stages[t] = "dead" <=> Kind(pc[t]) = "dead"
       /\ Stages[t] = "ready" <=> t \in Range(ready)
       /\ Stages[t] = "running" <=> t \in Range(running)
       /\ Stages[t] = "sleeping" <=> t \in Range(sleeping)
       /\ Stages[t] = "expired" <=> t \in Range(expired)
       /\ Stages[t] = "woken" <=> HeldAs("wakes", t)
       /\ Stages[t] = "created" <=> HeldAs("forks", t)
       /\ Stages[t] = "reaped" <=> HeldAs("buries", t)

\* Every task is at one stage, the one of the place it is in.
LEMMA StagedHolds == Orderly => Staged
<1> SUFFICES ASSUME Orderly PROVE Staged
  OBVIOUS
<1> SUFFICES ASSUME NEW t \in Task
             PROVE  /\ StageOf(t) \in StageNames
                    /\ StageOf(t) = "unborn" <=> Kind(pc[t]) = "unborn"
                    /\ StageOf(t) = "dead" <=> Kind(pc[t]) = "dead"
                    /\ StageOf(t) = "ready" <=> t \in Range(ready)
                    /\ StageOf(t) = "running" <=> t \in Range(running)
                    /\ StageOf(t) = "sleeping" <=> t \in Range(sleeping)
                    /\ StageOf(t) = "expired" <=> t \in Range(expired)
                    /\ StageOf(t) = "woken" <=> HeldAs("wakes", t)
                    /\ StageOf(t) = "created" <=> HeldAs("forks", t)
                    /\ StageOf(t) = "reaped" <=> HeldAs("buries", t)
  BY DEF Staged, Stages
<1> DEFINE absent == pc[t] \in {"unborn", "dead"}
           woken  == HeldBy(t, {"ready_wait", "ready_push"})
           reaped == HeldBy(t, {"kill_free"})
<1>1. /\ HeldAs("wakes", t) <=> woken
      /\ HeldAs("buries", t) <=> reaped
      /\ Kind(pc[t]) = "unborn" <=> pc[t] = "unborn"
      /\ Kind(pc[t]) = "dead" <=> pc[t] = "dead"
  BY KindIs DEF HeldAs, HeldBy, Kind
<1>2. \A f, g \in Frame : Kind(pc[f]) \in InHandKind /\ Kind(pc[g]) \in InHandKind
                          /\ node[f] = node[g] => f = g
  BY OrderlyPlaces, KindIs DEF HandsApart
<1>3. /\ ~(HeldAs("wakes", t) /\ HeldAs("forks", t))
      /\ ~(HeldAs("wakes", t) /\ HeldAs("buries", t))
      /\ ~(HeldAs("forks", t) /\ HeldAs("buries", t))
  BY <1>2 DEF HeldAs, InHandKind
<1>4. t \in Hand <=> HeldAs("wakes", t) \/ HeldAs("forks", t) \/ HeldAs("buries", t)
  BY KindIs DEF Hand, HeldAs, InHandKind
<1>5. /\ ~absent <=> \/ t \in Range(ready) \/ t \in Range(running) \/ t \in Range(sleeping)
                     \/ t \in Range(expired) \/ t \in Hand
      /\ Placed
  BY OrderlyPlaces DEF Placed, Partition, Alive
<1>6. /\ t \in Range(ready) => /\ t \notin Range(running) /\ t \notin Range(sleeping)
                               /\ t \notin Range(expired) /\ t \notin Hand
      /\ t \in Range(running) => /\ t \notin Range(sleeping) /\ t \notin Range(expired)
                                 /\ t \notin Hand
      /\ t \in Range(sleeping) => t \notin Range(expired) /\ t \notin Hand
      /\ t \in Range(expired) => t \notin Hand
  BY <1>5 DEF Placed, Partition
<1> HIDE DEF absent, woken, reaped
<1>7. /\ absent => StageOf(t) = pc[t]
      /\ t \in Range(ready) => StageOf(t) = "ready"
      /\ t \in Range(running) => StageOf(t) = "running"
      /\ t \in Range(sleeping) => StageOf(t) = "sleeping"
      /\ t \in Range(expired) => StageOf(t) = "expired"
      /\ woken => StageOf(t) = "woken"
      /\ reaped => StageOf(t) = "reaped"
      /\ HeldAs("forks", t) => StageOf(t) = "created"
  <2>1. /\ (absent => ~woken /\ ~reaped) /\ (woken => t \in Hand /\ ~reaped)
        /\ (reaped => t \in Hand) /\ (HeldAs("forks", t) => t \in Hand /\ ~woken /\ ~reaped)
    BY <1>1, <1>3, <1>4, <1>5
  <2>2. ASSUME absent PROVE StageOf(t) = pc[t]
    BY <1>5, <2>1, <2>2, Zenon DEF StageOf, absent, woken, reaped
  <2>3. ASSUME t \in Range(ready) PROVE StageOf(t) = "ready"
    BY <1>5, <1>6, <2>1, <2>3, Zenon DEF StageOf, absent, woken, reaped
  <2>4. ASSUME t \in Range(running) PROVE StageOf(t) = "running"
    BY <1>5, <1>6, <2>1, <2>4, Zenon DEF StageOf, absent, woken, reaped
  <2>5. ASSUME t \in Range(sleeping) PROVE StageOf(t) = "sleeping"
    BY <1>5, <1>6, <2>1, <2>5, Zenon DEF StageOf, absent, woken, reaped
  <2>6. ASSUME t \in Range(expired) PROVE StageOf(t) = "expired"
    BY <1>5, <1>6, <2>1, <2>6, Zenon DEF StageOf, absent, woken, reaped
  <2>7. ASSUME woken PROVE StageOf(t) = "woken"
    BY <1>5, <1>6, <2>1, <2>7, Zenon DEF StageOf, absent, woken, reaped
  <2>8. ASSUME reaped PROVE StageOf(t) = "reaped"
    BY <1>5, <1>6, <2>1, <2>8, Zenon DEF StageOf, absent, woken, reaped
  <2>9. ASSUME HeldAs("forks", t) PROVE StageOf(t) = "created"
    BY <1>5, <1>6, <2>1, <2>9, Zenon DEF StageOf, absent, woken, reaped
  <2>10. QED
    BY <2>2, <2>3, <2>4, <2>5, <2>6, <2>7, <2>8, <2>9
<1>8. absent => pc[t] = "unborn" \/ pc[t] = "dead"
  BY DEF absent
<1>9. (pc[t] = "unborn" \/ pc[t] = "dead") => absent
  BY DEF absent
<1>10. QED
  BY <1>1, <1>3, <1>4, <1>5, <1>6, <1>7, <1>8, <1>9 DEF StageNames

\* A frame's hand is the only one that a step of it changes.
LEMMA HeldElse ==
  ASSUME NEW F, Rest(F), NEW kind \in InHandKind,
         \A f \in F : Kind(pc[f]) # kind /\ Kind(pc'[f]) # kind
  PROVE  \A t : HeldAs(kind, t)' <=> HeldAs(kind, t)
BY DEF Rest, HeldAs

\* A frame that takes a node of a kind holds one more.
LEMMA HeldTakes ==
  ASSUME NEW F, Rest(F), NEW kind \in InHandKind, NEW g \in F, g \in Frame,
         \A f \in F : Kind(pc[f]) # kind /\ (f # g => Kind(pc'[f]) # kind),
         Kind(pc'[g]) = kind
  PROVE  \A t : HeldAs(kind, t)' <=> HeldAs(kind, t) \/ t = node'[g]
BY DEF Rest, HeldAs

\* A frame that gives its node away holds it no more.
LEMMA HeldGives ==
  ASSUME HandsApart, NEW F, Rest(F), NEW kind \in InHandKind, NEW g \in F, g \in Frame,
         \A f \in F : Kind(pc'[f]) # kind /\ (f # g => Kind(pc[f]) # kind),
         Kind(pc[g]) = kind
  PROVE  \A t : HeldAs(kind, t)' <=> HeldAs(kind, t) /\ t # node[g]
<1>1. \A f \in Frame : Kind(pc[f]) = kind /\ node[f] = node[g] => f = g
  BY KindIs DEF HandsApart
<1>2. QED
  BY <1>1 DEF Rest, HeldAs

\* Born and dead tasks stay so where frames rest.
LEMMA BornElse ==
  ASSUME NEW F, Rest(F)
  PROVE  \A t \in Task \ F : /\ Kind(pc'[t]) = "unborn" <=> Kind(pc[t]) = "unborn"
                             /\ Kind(pc'[t]) = "dead" <=> Kind(pc[t]) = "dead"
BY DEF Rest, Frame

\* What changes the stage of one task, from and to.
Moved(x, from, to) == Stages[x] = from /\ Stages' = [Stages EXCEPT ![x] = to]

\* A task that no place has changed for is at the same stage.
SamePlace(t) ==
  /\ Kind(pc'[t]) = "unborn" <=> Kind(pc[t]) = "unborn"
  /\ Kind(pc'[t]) = "dead" <=> Kind(pc[t]) = "dead"
  /\ t \in Range(ready') <=> t \in Range(ready)
  /\ t \in Range(running') <=> t \in Range(running)
  /\ t \in Range(sleeping') <=> t \in Range(sleeping)
  /\ t \in Range(expired') <=> t \in Range(expired)
  /\ HeldAs("wakes", t)' <=> HeldAs("wakes", t)
  /\ HeldAs("forks", t)' <=> HeldAs("forks", t)
  /\ HeldAs("buries", t)' <=> HeldAs("buries", t)

\* Who stays in its place stays at its stage.
LEMMA SameStage ==
  ASSUME Staged, Staged', NEW t \in Task, SamePlace(t)
  PROVE  Stages'[t] = Stages[t]
BY DEF Staged, StageNames, SamePlace

\* One task changes its place and no other.
LEMMA OneMoves ==
  ASSUME Staged, Staged', NEW x \in Task, NEW from, NEW to,
         Stages[x] = from, Stages'[x] = to, \A t \in Task \ {x} : SamePlace(t)
  PROVE  Moved(x, from, to)
<1>1. \A t \in Task \ {x} : Stages'[t] = Stages[t]
  BY SameStage
<1>2. Stages \in [Task -> StageNames] /\ Stages' \in [Task -> StageNames]
  BY DEF Staged
<1>3. QED
  BY <1>1, <1>2 DEF Moved

\* The abstract step that each kind of step is.
Abstract ==
  \/ Stages' = Stages /\ ready' = ready
  \/ \E x \in Task :
       \/ /\ ready' = ready
          /\ \/ Moved(x, "unborn", "created") \/ Moved(x, "sleeping", "woken")
             \/ Moved(x, "running", "expired") \/ Moved(x, "expired", "reaped")
             \/ Moved(x, "reaped", "dead")
       \/ /\ ready' = Append(ready, x)
          /\ Moved(x, "created", "ready") \/ Moved(x, "woken", "ready")
       \/ /\ ready # <<>> /\ x = Head(ready) /\ ready' = Tail(ready)
          /\ \A t \in Task : Stages[t] # "running"
          /\ Stages' = [Stages EXCEPT ![x] = "running"]
       \/ \E old \in Task :
            /\ ready # <<>> /\ x = Head(ready) /\ Stages[old] = "running"
            /\ \/ /\ Stages' = [Stages EXCEPT ![old] = "ready", ![x] = "running"]
                  /\ ready' = Append(Tail(ready), old)
               \/ /\ Stages' = [Stages EXCEPT ![old] = "sleeping", ![x] = "running"]
                  /\ ready' = Tail(ready)

\* Each of them is a step of Lifecycle, or none.
LEMMA AbstractIs == Abstract => [Life!Next]_<<Stages, ready>>
BY DEF Abstract, Moved, Stages, Life!Next, Life!Fork, Life!Enqueue, Life!TakeOver,
   Life!Switch,
       Life!Wake, Life!End, Life!Reap, Life!Free, Life!Move, Life!Stage

\* A step that moves no task is a stutter of Lifecycle.
LEMMA QuietStage == ASSUME Orderly, Orderly', Quiet PROVE Abstract
<1>1. Staged /\ Staged'
  BY StagedHolds, PTL
<1>2. /\ \A t \in Task : Kind(pc'[t]) = Kind(pc[t])
      /\ \A kind \in InHandKind : \A t : HeldAs(kind, t)' <=> HeldAs(kind, t)
  <2>1. Rest({})
    BY DEF Quiet
  <2>2. ASSUME NEW kind \in InHandKind PROVE \A t : HeldAs(kind, t)' <=> HeldAs(kind, t)
    BY <2>1, HeldElse
  <2>3. QED
    BY <2>1, <2>2 DEF Rest, Frame
<1>3. \A t \in Task : SamePlace(t)
  BY <1>2 DEF SamePlace, InHandKind, Quiet, queues
<1>4. \A t \in Task : Stages'[t] = Stages[t]
  BY <1>1, <1>3, SameStage
<1>5. Stages' = Stages
  BY <1>1, <1>4 DEF Staged
<1>6. QED
  BY <1>5 DEF Abstract, Quiet, queues
\* wakeup is Wake.
LEMMA WakeStage == ASSUME Orderly, Orderly', NEW f \in Frame, Wake(f) PROVE Abstract
<1>0. Staged /\ Staged'
  BY StagedHolds, PTL
<1>1. PICK i \in 1..Len(sleeping) :
        node'[f] = sleeping[i] /\ sleeping' = RemoveAt(sleeping, i)
  BY DEF Wake
<1> DEFINE x == sleeping[i]
<1>2. x \in Task /\ x \in Range(sleeping) /\ Range(sleeping') = Range(sleeping) \ {x}
  <2>1. sleeping \in Seq(Task) /\ IsInjective(sleeping)
    BY OrderlyPlaces DEF Injective
  <2>2. Range(sleeping') = Range(sleeping) \ {x}
    BY <1>1, <2>1, RemovePlace
  <2>3. QED
    BY <2>1, <2>2, RangeIs
<1>3. /\ Rest({f}) /\ Kind(pc[f]) = "plain" /\ Kind(pc'[f]) = "wakes" /\ node'[f] = x
      /\ UNCHANGED <<ready, running, expired>>
  BY <1>1 DEF Wake
<1> HIDE DEF x
<1>4. \A t : /\ HeldAs("wakes", t)' <=> HeldAs("wakes", t) \/ t = x
             /\ HeldAs("forks", t)' <=> HeldAs("forks", t)
             /\ HeldAs("buries", t)' <=> HeldAs("buries", t)
  BY <1>3, HeldTakes, HeldElse DEF InHandKind
<1>5. \A t \in Task : /\ Kind(pc'[t]) = "unborn" <=> Kind(pc[t]) = "unborn"
                      /\ Kind(pc'[t]) = "dead" <=> Kind(pc[t]) = "dead"
  BY <1>3, BornElse
<1>6. \A t \in Task \ {x} : SamePlace(t)
  BY <1>2, <1>3, <1>4, <1>5 DEF SamePlace
<1>7. Stages[x] = "sleeping" /\ Stages'[x] = "woken"
  BY <1>0, <1>2, <1>4 DEF Staged
<1>8. Moved(x, "sleeping", "woken")
  BY <1>0, <1>2, <1>6, <1>7, OneMoves
<1>9. QED
  BY <1>2, <1>3, <1>8 DEF Abstract

\* task_ready is Enqueue, of a task woken or created.
LEMMA PushStage == ASSUME Orderly, Orderly', NEW f \in Frame, Push(f) PROVE Abstract
<1>0. Staged /\ Staged'
  BY StagedHolds, PTL
<1> DEFINE x == node[f]
<1>1. /\ Rest({f}) /\ Kind(pc[f]) \in {"wakes", "forks"} /\ Kind(pc'[f]) = "plain"
      /\ ready' = Append(ready, x) /\ UNCHANGED <<running, sleeping, expired>>
  BY DEF Push
<1>2. x \in Task
  BY <1>1, KindIs, OrderlyPlaces DEF InHandKind
<1>3. Range(ready') = Range(ready) \cup {x} /\ HandsApart
  BY <1>1, <1>2, OrderlyPlaces, PushPlace
<1>4. \A t \in Task : /\ Kind(pc'[t]) = "unborn" <=> Kind(pc[t]) = "unborn"
                      /\ Kind(pc'[t]) = "dead" <=> Kind(pc[t]) = "dead"
  BY <1>1, BornElse
<1>5. Stages'[x] = "ready"
  BY <1>0, <1>2, <1>3 DEF Staged
<1>6. CASE Kind(pc[f]) = "wakes"
  <2>1. \A t : /\ HeldAs("wakes", t)' <=> HeldAs("wakes", t) /\ t # x
               /\ HeldAs("forks", t)' <=> HeldAs("forks", t)
               /\ HeldAs("buries", t)' <=> HeldAs("buries", t)
    BY <1>1, <1>3, <1>6, HeldGives, HeldElse DEF InHandKind
  <2>2. Stages[x] = "woken"
    <3>1. HeldAs("wakes", x)
      BY <1>6 DEF HeldAs
    <3>2. QED
      BY <1>0, <1>2, <3>1 DEF Staged
  <2> HIDE DEF x
  <2>3. \A t \in Task \ {x} : SamePlace(t)
    BY <1>1, <1>3, <1>4, <2>1 DEF SamePlace
  <2>4. Moved(x, "woken", "ready")
    BY <1>0, <1>2, <1>5, <2>2, <2>3, OneMoves
  <2>5. QED
    BY <1>1, <1>2, <2>4 DEF Abstract
<1>7. CASE Kind(pc[f]) = "forks"
  <2>1. \A t : /\ HeldAs("forks", t)' <=> HeldAs("forks", t) /\ t # x
               /\ HeldAs("wakes", t)' <=> HeldAs("wakes", t)
               /\ HeldAs("buries", t)' <=> HeldAs("buries", t)
    BY <1>1, <1>3, <1>7, HeldGives, HeldElse DEF InHandKind
  <2>2. Stages[x] = "created"
    <3>1. HeldAs("forks", x)
      BY <1>7 DEF HeldAs
    <3>2. QED
      BY <1>0, <1>2, <3>1 DEF Staged
  <2> HIDE DEF x
  <2>3. \A t \in Task \ {x} : SamePlace(t)
    BY <1>1, <1>3, <1>4, <2>1 DEF SamePlace
  <2>4. Moved(x, "created", "ready")
    BY <1>0, <1>2, <1>5, <2>2, <2>3, OneMoves
  <2>5. QED
    BY <1>1, <1>2, <2>4 DEF Abstract
<1>8. QED
  BY <1>1, <1>6, <1>7

\* fork is Fork.
LEMMA BirthStage ==
  ASSUME Orderly, Orderly', NEW t \in Task, NEW child \in Task, Birth(t, child)
  PROVE  Abstract
<1>0. Staged /\ Staged'
  BY StagedHolds, PTL
<1>f. t \in Frame
  BY DEF Frame
<1>1. /\ Rest({t, child}) /\ Kind(pc[t]) = "plain" /\ Kind(pc'[t]) = "forks"
      /\ Kind(pc[child]) = "unborn" /\ Kind(pc'[child]) = "plain" /\ node'[t] = child
      /\ UNCHANGED <<ready, running, sleeping, expired>>
  BY DEF Birth, queues
<1>2. \A u : /\ HeldAs("forks", u)' <=> HeldAs("forks", u) \/ u = child
             /\ HeldAs("wakes", u)' <=> HeldAs("wakes", u)
             /\ HeldAs("buries", u)' <=> HeldAs("buries", u)
  BY <1>f, <1>1, HeldTakes, HeldElse DEF InHandKind
<1>3. \A u \in Task \ {child} : /\ Kind(pc'[u]) = "unborn" <=> Kind(pc[u]) = "unborn"
                                /\ Kind(pc'[u]) = "dead" <=> Kind(pc[u]) = "dead"
  BY <1>1, BornElse
<1>4. \A u \in Task \ {child} : SamePlace(u)
  BY <1>1, <1>2, <1>3 DEF SamePlace
<1>5. Stages[child] = "unborn" /\ Stages'[child] = "created"
  BY <1>0, <1>1, <1>2 DEF Staged
<1>6. Moved(child, "unborn", "created")
  BY <1>0, <1>4, <1>5, OneMoves
<1>7. QED
  BY <1>1, <1>6 DEF Abstract

\* exit is End.
LEMMA EndStage == ASSUME Orderly, Orderly', NEW t \in Task, End(t) PROVE Abstract
<1>0. Staged /\ Staged'
  BY StagedHolds, PTL
<1>1. /\ Rest({t}) /\ Kind(pc[t]) = "plain" /\ Kind(pc'[t]) = "ended"
      /\ running = <<t>> /\ running' = <<>> /\ expired' = Append(expired, t)
      /\ UNCHANGED <<ready, sleeping>>
  BY DEF End
<1>2. /\ Range(expired') = Range(expired) \cup {t}
      /\ Range(running) = {t} /\ Range(running') = {}
  BY <1>1, OrderlyPlaces, PushPlace, ShortQueue
<1>3. \A kind \in InHandKind : \A u : HeldAs(kind, u)' <=> HeldAs(kind, u)
  BY <1>1, HeldElse DEF InHandKind
<1>4. \A u \in Task : /\ Kind(pc'[u]) = "unborn" <=> Kind(pc[u]) = "unborn"
                      /\ Kind(pc'[u]) = "dead" <=> Kind(pc[u]) = "dead"
  BY <1>1, BornElse
<1>5. \A u \in Task \ {t} : SamePlace(u)
  BY <1>1, <1>2, <1>3, <1>4 DEF SamePlace, InHandKind
<1>6. Stages[t] = "running" /\ Stages'[t] = "expired"
  BY <1>0, <1>2 DEF Staged
<1>7. Moved(t, "running", "expired")
  BY <1>0, <1>5, <1>6, OneMoves
<1>8. QED
  BY <1>1, <1>7 DEF Abstract

\* kill's list_remove is Reap.
LEMMA ReapStage == ASSUME Orderly, Orderly', NEW t \in Task, Reap(t) PROVE Abstract
<1>0. Staged /\ Staged'
  BY StagedHolds, PTL
<1>f. t \in Frame
  BY DEF Frame
<1>1. PICK i \in 1..Len(expired) :
        node'[t] = expired[i] /\ expired' = RemoveAt(expired, i)
  BY DEF Reap
<1> DEFINE x == expired[i]
<1>2. x \in Task /\ x \in Range(expired) /\ Range(expired') = Range(expired) \ {x}
  <2>1. expired \in Seq(Task) /\ IsInjective(expired)
    BY OrderlyPlaces DEF Injective
  <2>2. Range(expired') = Range(expired) \ {x}
    BY <1>1, <2>1, RemovePlace
  <2>3. QED
    BY <2>1, <2>2, RangeIs
<1>3. /\ Rest({t}) /\ Kind(pc[t]) = "plain" /\ Kind(pc'[t]) = "buries" /\ node'[t] = x
      /\ UNCHANGED <<ready, running, sleeping>>
  BY <1>1 DEF Reap
<1> HIDE DEF x
<1>4. \A u : /\ HeldAs("buries", u)' <=> HeldAs("buries", u) \/ u = x
             /\ HeldAs("forks", u)' <=> HeldAs("forks", u)
             /\ HeldAs("wakes", u)' <=> HeldAs("wakes", u)
  BY <1>f, <1>3, HeldTakes, HeldElse DEF InHandKind
<1>5. \A u \in Task : /\ Kind(pc'[u]) = "unborn" <=> Kind(pc[u]) = "unborn"
                      /\ Kind(pc'[u]) = "dead" <=> Kind(pc[u]) = "dead"
  BY <1>3, BornElse
<1>6. \A u \in Task \ {x} : SamePlace(u)
  BY <1>2, <1>3, <1>4, <1>5 DEF SamePlace
<1>7. Stages[x] = "expired" /\ Stages'[x] = "reaped"
  BY <1>0, <1>2, <1>4 DEF Staged
<1>8. Moved(x, "expired", "reaped")
  BY <1>0, <1>2, <1>6, <1>7, OneMoves
<1>9. QED
  BY <1>2, <1>3, <1>8 DEF Abstract

\* kill's release is Free.
LEMMA BuryStage == ASSUME Orderly, Orderly', NEW t \in Task, Bury(t) PROVE Abstract
<1>0. Staged /\ Staged'
  BY StagedHolds, PTL
<1>f. t \in Frame
  BY DEF Frame
<1> DEFINE x == node[t]
<1>1. /\ Rest({t, x}) /\ Kind(pc[t]) = "buries" /\ Kind(pc'[t]) = "plain"
      /\ Kind(pc[x]) = "ended" /\ Kind(pc'[x]) = "dead"
      /\ UNCHANGED <<ready, running, sleeping, expired>>
  BY DEF Bury, queues
<1>2. x \in Task /\ HeldAs("buries", x) /\ HandsApart
  BY <1>f, <1>1, KindIs, OrderlyPlaces DEF InHandKind, HeldAs
<1>3. \A u : /\ HeldAs("buries", u)' <=> HeldAs("buries", u) /\ u # x
             /\ HeldAs("forks", u)' <=> HeldAs("forks", u)
             /\ HeldAs("wakes", u)' <=> HeldAs("wakes", u)
  BY <1>f, <1>1, <1>2, HeldGives, HeldElse DEF InHandKind
<1> HIDE DEF x
<1>4. \A u \in Task \ {x} : /\ Kind(pc'[u]) = "unborn" <=> Kind(pc[u]) = "unborn"
                            /\ Kind(pc'[u]) = "dead" <=> Kind(pc[u]) = "dead"
  BY <1>1, BornElse
<1>5. \A u \in Task \ {x} : SamePlace(u)
  BY <1>1, <1>3, <1>4 DEF SamePlace
<1>6. Stages[x] = "reaped" /\ Stages'[x] = "dead"
  BY <1>0, <1>1, <1>2 DEF Staged
<1>7. Moved(x, "reaped", "dead")
  BY <1>0, <1>2, <1>5, <1>6, OneMoves
<1>8. QED
  BY <1>1, <1>2, <1>7 DEF Abstract

\* scheduler is Switch, or TakeOver after an exit.
LEMMA TurnStage == ASSUME Orderly, Orderly', Turn PROVE Abstract
<1>0. Staged /\ Staged' /\ Rest({})
  BY StagedHolds, PTL DEF Turn
<1>1. PICK slp \in [Task -> Resource \cup {None}] : Reschedule(slp)
  BY DEF Turn
<1>2. /\ ready \in Seq(Task) /\ ready # <<>> /\ IsInjective(ready)
      /\ sleeping \in Seq(Task)
  BY <1>1, OrderlyPlaces DEF Reschedule, Injective
<1> DEFINE new  == Head(ready)
           rest == Tail(ready)
<1>3. /\ rest \in Seq(Task) /\ new \in Range(ready) /\ new \in Task
      /\ Range(rest) = Range(ready) \ {new}
      /\ running' = <<new>> /\ Range(running') = {new}
  BY <1>1, <1>2, PopPlace, NewRuns, ShortQueue DEF Turn
<1> HIDE DEF new, rest
<1>4. /\ \A t \in Task : Kind(pc'[t]) = Kind(pc[t])
      /\ \A t : /\ HeldAs("buries", t)' <=> HeldAs("buries", t)
                /\ HeldAs("forks", t)' <=> HeldAs("forks", t)
                /\ HeldAs("wakes", t)' <=> HeldAs("wakes", t)
      /\ expired' = expired
  <2>1. \A t \in Task : Kind(pc'[t]) = Kind(pc[t])
    BY <1>0 DEF Rest, Frame
  <2>2. QED
    BY <1>0, <2>1, HeldElse DEF InHandKind, Turn
<1>5. Stages'[new] = "running"
  BY <1>0, <1>3 DEF Staged
<1>6. CASE running = <<>> /\ Current = None
  <2>1. ready' = rest /\ sleeping' = sleeping
    BY <1>1, <1>6 DEF Reschedule, rest
  <2>2. Range(running) = {}
    BY <1>6, ShortQueue
  <2>3. \A t \in Task \ {new} : SamePlace(t)
    BY <1>3, <1>4, <2>1, <2>2 DEF SamePlace
  <2>4. Moved(new, "ready", "running")
    <3>1. Stages[new] = "ready"
      BY <1>0, <1>3 DEF Staged
    <3>2. QED
      BY <1>0, <1>3, <1>5, <2>3, <3>1, OneMoves
  <2>5. \A t \in Task : Stages[t] # "running"
    BY <1>0, <2>2 DEF Staged
  <2>6. QED
    BY <1>2, <1>3, <2>1, <2>4, <2>5 DEF Abstract, Moved, new, rest
<1>7. ASSUME NEW old \in Task, running = <<old>>, Current = old PROVE Abstract
  <2>1. old # None /\ Range(running) = {old}
    BY <1>7, OrderlyPlaces, ShortQueue
  <2>2. old # new
    BY <1>3, <2>1, OrderlyPlaces DEF Placed, Partition
  <2>3. Stages[old] = "running"
    BY <1>0, <2>1 DEF Staged
  <2>4. ASSUME NEW to, Stages'[old] = to, \A t \in Task \ {old, new} : SamePlace(t)
        PROVE  Stages' = [Stages EXCEPT ![old] = to, ![new] = "running"]
    <3>1. \A t \in Task \ {old, new} : Stages'[t] = Stages[t]
      BY <1>0, <2>4, SameStage
    <3>2. Stages \in [Task -> StageNames] /\ Stages' \in [Task -> StageNames]
      BY <1>0 DEF Staged
    <3>3. QED
      BY <1>3, <1>5, <1>7, <2>2, <2>4, <3>1, <3>2
  <2>5. CASE slp[old] # None
    <3>1. ready' = rest /\ sleeping' = Append(sleeping, old)
      BY <1>1, <1>7, <2>1, <2>5 DEF Reschedule, rest
    <3>2. Range(sleeping') = Range(sleeping) \cup {old}
      BY <1>2, <3>1, PushPlace
    <3>3. Stages'[old] = "sleeping"
      BY <1>0, <3>2 DEF Staged
    <3>4. \A t \in Task \ {old, new} : SamePlace(t)
      BY <1>3, <1>4, <2>1, <3>1, <3>2 DEF SamePlace
    <3>5. QED
      BY <1>2, <1>3, <2>3, <2>4, <3>1, <3>3, <3>4 DEF Abstract, new, rest
  <2>6. CASE slp[old] = None
    <3>1. ready' = Append(rest, old) /\ sleeping' = sleeping
      BY <1>1, <1>7, <2>1, <2>6 DEF Reschedule, rest
    <3>2. Range(ready') = Range(rest) \cup {old}
      BY <1>3, <3>1, PushPlace
    <3>3. Stages'[old] = "ready"
      BY <1>0, <3>2 DEF Staged
    <3>4. \A t \in Task \ {old, new} : SamePlace(t)
      BY <1>3, <1>4, <2>1, <3>1, <3>2 DEF SamePlace
    <3>5. QED
      BY <1>2, <1>3, <2>3, <2>4, <3>1, <3>3, <3>4 DEF Abstract, new, rest
  <2>7. QED
    BY <2>5, <2>6
<1>8. QED
  BY <1>6, <1>7, RunsOne DEF Turn

(***************************************************************************)
(* Every step of scheduler, sleep, wakeup, fork, exit and kill is a step   *)
(* of the life of one task, of two that change places, or of none.         *)
(***************************************************************************)
THEOREM ImplementsLifecycle == Spec => FollowsLifecycle
<1>1. Init => Life!Init
  <2> SUFFICES ASSUME Init PROVE Life!Init
    OBVIOUS
  <2>1. Staged /\ ready = <<>> /\ running = <<Hoo>>
    BY InitOrderly, StagedHolds DEF Init
  <2>2. Range(running) = {Hoo} /\ \A t \in Task \ {Hoo} : pc[t] = "unborn"
    BY <2>1, ShortQueue, TasksAssumption DEF Init, Frame
  <2>3. \A t \in Task : Stages[t] = IF t = Hoo THEN "running" ELSE "unborn"
    BY <2>1, <2>2 DEF Staged, Kind, Exiting
  <2>4. QED
    BY <2>1, <2>3 DEF Life!Init, Stages
<1>2. Orderly /\ Orderly' /\ [Next]_vars => [Life!Next]_<<Stages, ready>>
  BY StepMoves, QuietStage, WakeStage, PushStage, BirthStage, EndStage, ReapStage,
     BuryStage,
     TurnStage, AbstractIs DEF Moves
<1>3. QED
  BY <1>1, <1>2, OrderlyInvariant, PTL DEF Spec, FollowsLifecycle, Life!Spec, Stages
=============================================================================
