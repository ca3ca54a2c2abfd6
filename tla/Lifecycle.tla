------------------------------ MODULE Lifecycle ------------------------------
(***************************************************************************)
(* What the task subsystem of hoo promises of a task, whatever locks and   *)
(* interrupts it is built with: a task is created once, waits its turn in  *)
(* one queue served in order, at most one task runs, a running task goes   *)
(* back to the queue, to sleep or to its end, a sleeping task comes back   *)
(* only through the queue, and a task that ended never runs again.         *)
(***************************************************************************)
EXTENDS Naturals, Sequences

CONSTANTS Task, Hoo

VARIABLES stage, queue

Stage == {"unborn", "created", "ready", "running", "sleeping", "woken",
          "expired", "reaped", "dead"}

Init ==
  /\ stage = [t \in Task |-> IF t = Hoo THEN "running" ELSE "unborn"]
  /\ queue = <<>>

Move(t, from, to) == stage[t] = from /\ stage' = [stage EXCEPT ![t] = to]

Fork(t) == Move(t, "unborn", "created") /\ UNCHANGED queue

Enqueue(t) ==
  /\ Move(t, "created", "ready") \/ Move(t, "woken", "ready")
  /\ queue' = Append(queue, t)

\* The first in the queue takes over, and the one that ran gives way.
Switch(old, new, to) ==
  /\ queue # <<>> /\ new = Head(queue)
  /\ stage[old] = "running"
  /\ stage' = [stage EXCEPT ![old] = to, ![new] = "running"]
  /\ \/ to = "ready" /\ queue' = Append(Tail(queue), old)
     \/ to = "sleeping" /\ queue' = Tail(queue)

\* The same after the running task has ended.
TakeOver(new) ==
  /\ queue # <<>> /\ new = Head(queue)
  /\ \A t \in Task : stage[t] # "running"
  /\ stage' = [stage EXCEPT ![new] = "running"]
  /\ queue' = Tail(queue)

Wake(t) == Move(t, "sleeping", "woken") /\ UNCHANGED queue
End(t)  == Move(t, "running", "expired") /\ UNCHANGED queue
Reap(t) == Move(t, "expired", "reaped") /\ UNCHANGED queue
Free(t) == Move(t, "reaped", "dead") /\ UNCHANGED queue

Next ==
  \E t \in Task :
    \/ Fork(t) \/ Enqueue(t) \/ TakeOver(t)
    \/ \E new \in Task, to \in Stage : Switch(t, new, to)
    \/ Wake(t) \/ End(t) \/ Reap(t) \/ Free(t)

Spec == Init /\ [][Next]_<<stage, queue>>
=============================================================================
