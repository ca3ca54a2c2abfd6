------------------------------- MODULE Threads -------------------------------
(***************************************************************************)
(* What a task is besides its place in the scheduler's lists: its tid, its *)
(* current directory, its descriptors, one page of its program and the     *)
(* frames of its stacks and tables.  fork makes them, exit gives them up   *)
(* in two steps, between which other tasks run, and kill, which hoo calls  *)
(* again and again, gives up the rest.                                     *)
(***************************************************************************)
EXTENDS Curdir, FdTable

CONSTANTS MAX_TASKS_AMOUNT,   \* tids
          FRAMES,             \* frames of memory
          Log,                \* the inode of the file that hoo keeps open
          Sh,                 \* the inode of the shell's program
          MaxCalls            \* bound: calls of fork, open, exec and cd

TID_HOO == 0
TidShell == 1
Tid == 0..(MAX_TASKS_AMOUNT - 1)
INVALID_INDEX == -1

ASSUME ThreadsAssumption ==
  /\ MAX_TASKS_AMOUNT \in Nat /\ MAX_TASKS_AMOUNT > 2
  /\ FRAMES \in Nat /\ FRAMES > 2 /\ {Log, Sh} \subseteq Inode

VARIABLES tids,      \* __bm_tid
          task,      \* what the PCB and the tables have at each tid
          table,     \* __fs_files
          frames,    \* the bitmap of the frames
          expired,   \* __list_expired, of tids
          unused,    \* ghost: for each tid the tids free ever since it was given
          orphans,   \* ghost: the tids whose task has been left by its parent
          halt,      \* why the system is not followed further
          calls      \* calls so far

vars == <<tids, task, table, frames, expired, unused, orphans, halt, calls>>

NoPage == [frame |-> INVALID_INDEX, rw |-> FALSE]
User   == [at |-> "user"]

\* opened is a ghost: what each descriptor was opened for.
NoTask ==
  [state |-> "none", parent |-> INVALID_INDEX, cwd |-> curdir_init,
   fmngr |-> NewManager, call |-> User, opened |-> <<>>,
   page |-> NoPage, stack |-> INVALID_INDEX]

\* hoo has opened the log; the shell has been executed and has called
\* sys_cd("/"), which is hoo's directory too.
Hoo ==
  [NoTask EXCEPT !.state = "runs", !.cwd = RootPath, !.fmngr = Installed(@, 0),
                 !.opened = [fd \in {3} |-> Log]]
Shell ==
  [NoTask EXCEPT !.state = "runs", !.parent = TID_HOO, !.cwd = RootPath,
                 !.fmngr = Installed(@, 1), !.opened = [fd \in {3} |-> Sh],
                 !.stack = 0, !.page = [frame |-> 1, rw |-> TRUE]]

Init ==
  /\ tids = [bits |-> MAX_TASKS_AMOUNT, set |-> {TID_HOO, TidShell}, prev |-> 2]
  /\ task = [t \in Tid |-> IF t = TID_HOO THEN Hoo ELSE IF t = TidShell THEN Shell ELSE NoTask]
  /\ table = [slot \in Slot |->
       [ref |-> IF slot \in {0, 1} THEN 1 ELSE 0, inode |-> IF slot = 1 THEN Sh ELSE Log]]
  /\ frames = [bits |-> FRAMES, set |-> {0, 1}, prev |-> 2]
  /\ expired = <<>> /\ unused = [t \in Tid |-> {}] /\ orphans = {}
  /\ halt = "no" /\ calls = 0

Calls(t) == halt = "no" /\ task[t].state = "runs" /\ task[t].call = User /\ t # TID_HOO

Stop(why) == halt' = why /\ UNCHANGED <<tids, task, table, frames, expired, unused, orphans, calls>>

Counted == calls < MaxCalls /\ calls' = calls + 1

NewFrame == FirstFree(frames)
phy_alloc_page == frames' = bitmap_set(Scanned(frames), NewFrame)
-----------------------------------------------------------------------------
\* thread_tid_alloc: the tids that stay free while new is given.
Given(new) ==
  [t \in Tid |-> IF t = new THEN Tid \ (tids.set \cup {new}) ELSE unused[t] \ {new}]

\* A slip: the child may write to the pages too.
Copy_Writable(t, new) ==
  [task[new] EXCEPT
    !.state = "runs", !.parent = t, !.cwd = task[t].cwd, !.call = User,
    !.opened = <<>>, !.page = task[t].page, !.stack = NewFrame]

\* The PTEs of the copy lose their RW, those of the original keep it.  The
\* manager of the tid is taken as the last task with this tid has left it.
Copy(t, new) ==
  [task[new] EXCEPT
    !.state = "runs", !.parent = t, !.cwd = task[t].cwd, !.call = User,
    !.opened = <<>>, !.page = [task[t].page EXCEPT !.rw = FALSE], !.stack = NewFrame]

\* A tid that is free may still be that of a task which exit or kill is not
\* done with: then two tasks have one PCB.
fork(t) ==
  /\ Calls(t)
  /\ \/ /\ Exhausted(tids) \/ Exhausted(frames)
        /\ Stop("panic")
     \/ /\ ~Exhausted(tids) /\ ~Exhausted(frames)
        /\ task[FirstFree(tids)].state # "none"
        /\ Stop("stolen")
     \/ /\ ~Exhausted(tids) /\ ~Exhausted(frames)
        /\ LET new == FirstFree(tids)
           IN  /\ task[new].state = "none"
               /\ task' = [task EXCEPT ![new] = Copy(t, new)]
               /\ tids' = bitmap_set(Scanned(tids), new)
               /\ unused' = Given(new) /\ orphans' = orphans \ {new}
        /\ phy_alloc_page
        /\ Counted
        /\ UNCHANGED <<table, expired, halt>>

\* The first write to a page shared since fork: the task is given a copy, and
\* the frame stays allocated whoever has it.
page_fault(t) ==
  /\ Calls(t)
  /\ task[t].page # NoPage /\ ~task[t].page.rw
  /\ \/ Exhausted(frames) /\ Stop("panic")
     \/ /\ ~Exhausted(frames)
        /\ task' = [task EXCEPT ![t].page = [frame |-> NewFrame, rw |-> TRUE]]
        /\ phy_alloc_page
        /\ UNCHANGED <<tids, table, expired, unused, orphans, halt, calls>>
-----------------------------------------------------------------------------
\* files_open up to fd_global_alloc, for a program or for exec.
OpenFind(t, inode, for) ==
  /\ Calls(t)
  /\ for = "exec" => t # TidShell
  /\ \/ FreeSlots(table) = {} /\ Stop("panic")
     \/ /\ FreeSlots(table) # {}
        /\ task' = [task EXCEPT ![t].call =
             [at |-> for, slot |-> fd_global_alloc(table), inode |-> inode]]
        /\ Counted
        /\ UNCHANGED <<tids, table, frames, expired, unused, orphans, halt>>

\* The rest of it.  Two tasks may have found one slot; a descriptor may be
\* given while it is in use; the manager may have no bit left.
OpenTake(t) ==
  LET call == task[t].call
      fm   == task[t].fmngr
      fd   == fmngr_alloc(fm)
  IN  /\ halt = "no" /\ call.at \in {"open", "exec"}
      /\ \/ Exhausted(fm.fd_set) /\ Stop("panic")
         \/ /\ ~Exhausted(fm.fd_set) /\ table[call.slot].ref > 0
            /\ Stop("raced")
         \/ /\ ~Exhausted(fm.fd_set) /\ table[call.slot].ref = 0
            /\ fd \in DOMAIN task[t].opened
            /\ Stop("wrapped")
         \/ /\ ~Exhausted(fm.fd_set) /\ table[call.slot].ref = 0
            /\ fd \notin DOMAIN task[t].opened
            /\ table' = Referred(table, call.slot, call.inode)
            /\ task' = [task EXCEPT
                 ![t].fmngr = Installed(@, call.slot),
                 ![t].opened = [g \in DOMAIN @ \cup {fd} |-> IF g = fd THEN call.inode ELSE @[g]],
                 ![t].call = IF call.at = "exec" THEN [at |-> "load"] ELSE User]
            /\ UNCHANGED <<tids, frames, expired, unused, orphans, halt, calls>>

\* exec after files_open: the program is given a page table and frames of its
\* own, and those that the task shared are mapped no more.
Load(t) ==
  /\ halt = "no" /\ task[t].call = [at |-> "load"]
  /\ \/ Exhausted(frames) /\ Stop("panic")
     \/ /\ ~Exhausted(frames)
        /\ task' = [task EXCEPT ![t].page = [frame |-> NewFrame, rw |-> TRUE],
                                ![t].call = User]
        /\ phy_alloc_page
        /\ UNCHANGED <<tids, table, expired, unused, orphans, halt, calls>>

\* Programs close what they have opened: by OwnFile its counter is not 0.
files_close(t, fd) ==
  /\ Calls(t) /\ fd \in DOMAIN task[t].opened
  /\ table' = Closed(table, fmngr_files_get(task[t].fmngr, fd))
  /\ task' = [task EXCEPT ![t].opened = [g \in DOMAIN @ \ {fd} |-> @[g]]]
  /\ UNCHANGED <<tids, frames, expired, unused, orphans, halt, calls>>
-----------------------------------------------------------------------------
\* dir_change sets the directory of the parent too.
Movers(t) == {t, task[t].parent}

dir_change(t, dir) ==
  /\ Calls(t)
  /\ Changes(task[t].cwd, dir)
  /\ LET path == curdir_set(AbsolutePath(task[t].cwd, dir))
     IN  task' = [u \in Tid |-> IF u \in Movers(t) THEN [task[u] EXCEPT !.cwd = path]
                                ELSE task[u]]
  /\ Counted
  /\ UNCHANGED <<tids, table, frames, expired, unused, orphans, halt>>
-----------------------------------------------------------------------------
\* A slip: a program leaves its children behind.
MayExit_NoWait(t) == t # TidShell

\* A program that forks waits for its child before it exits, as the shell does,
\* which never exits.
MayExit(t) == t # TidShell /\ \A c \in Tid : task[c].parent = t => task[c].state # "runs"

\* exit up to thread_tid_release.  The counters of what the task has left
\* open stay as they are.
ExitClear(t) ==
  /\ Calls(t) /\ MayExit(t)
  /\ task' = [task EXCEPT ![t].state = "leaving", ![t].cwd = curdir_init,
                          ![t].fmngr = fmngr_init, ![t].opened = <<>>]
  /\ tids' = bitmap_clear(tids, t)
  /\ orphans' = orphans \cup {c \in Tid : task[c].parent = t}
  /\ UNCHANGED <<table, frames, expired, unused, halt, calls>>

SharedWith(t) == {u \in Tid \ {t} : task[u].page # NoPage /\ task[u].page.frame = task[t].page.frame}

\* A slip: the stack that exit runs on is released at once.
Released_Stack(t) == {task[t].page.frame, task[t].stack}

\* What the page table maps, with no look at who else maps it.
Released(t) == {task[t].page.frame}

\* The rest of exit.  A task that has not called exec since fork releases the
\* frames it shares with its parent.
ExitLeave(t) ==
  /\ halt = "no" /\ task[t].state = "leaving"
  /\ \/ SharedWith(t) # {} /\ Stop("freed")
     \/ /\ SharedWith(t) = {}
        /\ frames' = [frames EXCEPT !.set = @ \ Released(t)]
        /\ task' = [task EXCEPT ![t].state = "expired", ![t].page = NoPage]
        /\ expired' = Append(expired, t)
        /\ UNCHANGED <<tids, table, unused, orphans, halt, calls>>

\* list_remove moves the next one to the place that the loop has been at.
Killed == {expired[i] : i \in {i \in DOMAIN expired : i % 2 = 1}}

\* The frames of the stacks and of the page directory.  The manager of the
\* tid is not part of the PCB.
kill ==
  /\ halt = "no" /\ expired # <<>>
  /\ frames' = [frames EXCEPT !.set = @ \ {task[t].stack : t \in Killed}]
  /\ task' = [t \in Tid |-> IF t \in Killed THEN [NoTask EXCEPT !.fmngr = task[t].fmngr]
                            ELSE task[t]]
  /\ expired' = [i \in 1..(Len(expired) \div 2) |-> expired[2 * i]]
  /\ orphans' = orphans \ Killed
  /\ UNCHANGED <<tids, table, unused, halt, calls>>

Next ==
  \/ \E t \in Tid :
       \/ fork(t) \/ page_fault(t) \/ OpenTake(t) \/ Load(t)
       \/ \E inode \in Inode, for \in {"open", "exec"} : OpenFind(t, inode, for)
       \/ \E fd \in Fd : files_close(t, fd)
       \/ \E dir \in Operand : dir_change(t, dir)
       \/ ExitClear(t) \/ ExitLeave(t)
  \/ kill

Spec == Init /\ [][Next]_vars
-----------------------------------------------------------------------------
FrameOf == 0..(FRAMES - 1)
PageType == [frame : FrameOf, rw : BOOLEAN] \cup {NoPage}

(***************************************************************************)
(* The type invariant.  No sequence of cd leads a task that runs out of    *)
(* the tree of directories.                                                *)
(***************************************************************************)
ThreadsTypeOK ==
  /\ \A t \in Tid :
       /\ task[t].state \in {"none", "runs", "leaving", "expired"}
       /\ task[t].parent \in Tid \cup {INVALID_INDEX}
       /\ task[t].cwd \in Dir \cup {curdir_init}
       /\ task[t].state = "runs" => task[t].cwd \in Dir
       /\ task[t].page \in PageType /\ task[t].stack \in FrameOf \cup {INVALID_INDEX}
       /\ DOMAIN task[t].opened \subseteq Fd \ Std
       /\ task[t].fmngr.files \in [Fd -> Slot] /\ task[t].fmngr.fd_set.prev \in Fd
  /\ tids.set \subseteq Tid /\ tids.prev \in Tid
  /\ frames.set \subseteq FrameOf /\ frames.prev \in FrameOf
  /\ table \in [Slot -> [ref : Nat, inode : Inode]]
  /\ expired \in Seq(Tid) /\ unused \in [Tid -> SUBSET Tid] /\ orphans \subseteq Tid
  /\ halt \in {"no", "panic", "stolen", "raced", "wrapped", "freed"}

Runs == {t \in Tid : task[t].state = "runs"}

Opened == UNION {{<<t, fd>> : fd \in DOMAIN task[t].opened} : t \in Runs}
SlotOf(o) == fmngr_files_get(task[o[1]].fmngr, o[2])

(***************************************************************************)
(* Unless two files_open have overlapped or a task has opened as many      *)
(* files as it has descriptors, a descriptor leads to the file that it was *)
(* opened for, by a slot that no other descriptor uses and that is counted *)
(* as in use, whoever opens, closes, exits or takes over a tid meanwhile.  *)
(***************************************************************************)
OwnFile ==
  /\ \A o \in Opened :
       table[SlotOf(o)].ref > 0 /\ table[SlotOf(o)].inode = task[o[1]].opened[o[2]]
  /\ \A o, p \in Opened : SlotOf(o) = SlotOf(p) => o = p

Moved(t) == task[t].state = "runs" /\ task'[t].state = "runs" /\ task'[t].cwd # task[t].cwd

(***************************************************************************)
(* The directory of a task is changed by its own cd or by that of its      *)
(* child, which knows it by its tid alone (dir.c:477): the task with this  *)
(* tid is still the one that forked the child, whatever tids were given    *)
(* again since.                                                            *)
(***************************************************************************)
CwdOfKin ==
  [][(\E t \in Tid : Moved(t)) =>
       \E u \in Tid, dir \in Operand :
         /\ dir_change(u, dir)
         /\ \A t \in Tid : Moved(t) =>
              t = u \/ (t = task[u].parent /\ u \notin orphans)]_vars

HasPage(t) == task[t].page # NoPage

(***************************************************************************)
(* Until a task exits without exec, what a task runs with is not free: its *)
(* page until exit has unmapped it, its stack until hoo has killed it, and *)
(* no other task has this stack or maps it.                                *)
(***************************************************************************)
FramesBacked ==
  \A t \in Tid \ {TID_HOO} : task[t].state # "none" =>
    /\ HasPage(t) => task[t].page.frame \in frames.set
    /\ task[t].stack \in frames.set
    /\ \A u \in Tid \ {t} :
         task[u].stack # task[t].stack /\ (HasPage(u) => task[u].page.frame # task[t].stack)

(***************************************************************************)
(* Of the tasks that share a frame at most one can write to it, and it is  *)
(* not the child of another of them: a parent never sees what its child    *)
(* writes.                                                                 *)
(***************************************************************************)
OneWriter ==
  \A t, u \in Tid : t # u /\ HasPage(t) /\ u \in SharedWith(t) /\ task[t].page.rw =>
    ~task[u].page.rw /\ task[t].parent # u

(***************************************************************************)
(* What copy on write needs: fork makes the pages of the page table of a   *)
(* PDE read-only (tasks.c:282), so that the first write to a shared page,  *)
(* whoever makes it, is a fault that copies (routine.c:81).                *)
(***************************************************************************)
SharedReadOnly ==
  \A t \in Tid : HasPage(t) /\ SharedWith(t) # {} => ~task[t].page.rw

(***************************************************************************)
(* What keeps a PCB from being taken over while exit and kill are not done *)
(* with it: fork gives a tid again only when no other tid has been free    *)
(* ever since the tid was last given.                                      *)
(***************************************************************************)
ReusedLast == ~Exhausted(tids) => unused[FirstFree(tids)] = {}
=============================================================================
