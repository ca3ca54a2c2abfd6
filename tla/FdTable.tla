------------------------------- MODULE FdTable -------------------------------
(***************************************************************************)
(* fs/fmngr.c, hoo/thread_fmngr.c and the first half of fs/files.c: the    *)
(* global table of open files and the descriptors of a task.               *)
(*                                                                         *)
(* table is __fs_files; a manager is fd_set, a Bitmap, and files, the slot *)
(* of the table behind each descriptor.                                    *)
(***************************************************************************)
EXTENDS Bitmap, FiniteSetsExt

CONSTANTS MAX_FILES_PER_TASK, MAX_OPEN_FILES, Inode

ASSUME FdAssumption ==
  MAX_FILES_PER_TASK \in Nat /\ MAX_FILES_PER_TASK > 3 /\ MAX_OPEN_FILES \in Nat \ {0, 1}

Std  == {0, 1, 2}                      \* FD_STDIN, FD_STDOUT, FD_STDERR
Fd   == 0..(MAX_FILES_PER_TASK - 1)
Slot == 0..(MAX_OPEN_FILES - 1)

\* init_thread_fmngr, for each tid, once.
NewManager ==
  [fd_set |-> [bitmap_init(MAX_FILES_PER_TASK) EXCEPT !.set = Std],
   files |-> [fd \in Fd |-> 0]]

\* thread_fmngr_clear: the bitmap is left without a bit.
fmngr_init == [fd_set |-> bitmap_init(0), files |-> [fd \in Fd |-> 0]]

fmngr_alloc(fm) == FirstFree(fm.fd_set)

\* The descriptor is scanned for and not set in the bitmap.
Installed(fm, slot) ==
  [fd_set |-> Scanned(fm.fd_set), files |-> [fm.files EXCEPT ![fmngr_alloc(fm)] = slot]]

fmngr_files_get(fm, fd) == fm.files[fd]

FreeSlots(table) == {slot \in Slot : table[slot].ref = 0}

\* Whoever opens next is given the same slot until its counter is raised.
fd_global_alloc(table) == Min(FreeSlots(table))

\* A slip: the counter is not raised.
Referred_Uncounted(table, slot, inode) ==
  [table EXCEPT ![slot] = [ref |-> @.ref, inode |-> inode]]

Referred(table, slot, inode) ==
  [table EXCEPT ![slot] = [ref |-> @.ref + 1, inode |-> inode]]

\* files_close, and with the last user fd_global_free.
Closed(table, slot) == [table EXCEPT ![slot].ref = @ - 1]
=============================================================================
