---------------------------- MODULE ThreadsProofs ----------------------------
(***************************************************************************)
(* The proofs about Threads: for any number of tids, descriptors, slots    *)
(* and frames and any tree of directories, the invariants that the run     *)
(* threads checks, and that a cd moves no task but the caller and the one  *)
(* that forked it.                                                         *)
(***************************************************************************)
EXTENDS Threads, DataLemmas, TLAPS

MapOf(bits) == [bits : {bits}, set : SUBSET (0..(bits - 1)), prev : 0..(bits - 1)]

\* A manager has its bits, with those of Std set, or none at all.
FdSet ==
  [bits : {MAX_FILES_PER_TASK}, set : {Std}, prev : Fd] \cup [bits : {0}, set : {{}}, prev : Fd]

CallType ==
  {User, [at |-> "load"]} \cup [at : {"open", "exec"}, slot : Slot, inode : Inode]

TaskType ==
  [state  : {"none", "runs", "leaving", "expired"}, parent : Tid \cup {INVALID_INDEX},
   cwd    : Dir \cup {curdir_init}, fmngr : [fd_set : FdSet, files : [Fd -> Slot]],
   call   : CallType, opened : UNION {[D -> Inode] : D \in SUBSET (Fd \ Std)},
   page   : PageType, stack : FrameOf \cup {INVALID_INDEX}]

(***************************************************************************)
(* The types, whole: a task that runs is in a directory of the tree, only  *)
(* a task that runs is in the middle of a call, and hoo, which runs for    *)
(* ever, has neither a page of a program nor a stack that exit releases.   *)
(***************************************************************************)
Types ==
  /\ task \in [Tid -> TaskType]
  /\ tids \in MapOf(MAX_TASKS_AMOUNT) /\ frames \in MapOf(FRAMES)
  /\ table \in [Slot -> [ref : Nat, inode : Inode]]
  /\ expired \in Seq(Tid) /\ unused \in [Tid -> SUBSET Tid]
  /\ halt \in {"no", "panic", "stolen", "raced", "wrapped", "freed"}

Conduct ==
  /\ \A t \in Tid : task[t].state = "runs" => task[t].cwd \in Dir
  /\ \A t \in Tid : task[t].call # User => task[t].state = "runs"
  /\ task[TID_HOO].state = "runs" /\ task[TID_HOO].call = User

(***************************************************************************)
(* The list of the expired holds each of them once.                        *)
(***************************************************************************)
Listed ==
  /\ Range(expired) = {t \in Tid : task[t].state = "expired"}
  /\ IsInjective(expired)

(***************************************************************************)
(* What a page or a stack is, by the state of its task; a task's own page  *)
(* is not its stack, for a child has both from its parent or near it.      *)
(***************************************************************************)
Bare(t) == ~HasPage(t) /\ task[t].stack = INVALID_INDEX

Mapped ==
  /\ Bare(TID_HOO)
  /\ \A t \in Tid : task[t].state = "none" => Bare(t)
  /\ \A t \in Tid : task[t].state = "expired" => ~HasPage(t)
  /\ \A t \in Tid \ {TID_HOO} : task[t].state # "none" /\ HasPage(t) =>
       task[t].page.frame # task[t].stack

(***************************************************************************)
(* Who runs has a parent that runs.                                        *)
(***************************************************************************)
ParentRuns ==
  \A t \in Tid \ {TID_HOO} : task[t].state = "runs" =>
    task[t].parent \in Tid /\ task[task[t].parent].state = "runs"

\* A set of tasks that with a task has its children that run.
Closed_(S) == \A c \in Tid : task[c].state = "runs" /\ task[c].parent \in S => c \in S

Writes(w, u) == w # u /\ HasPage(w) /\ task[w].page.rw /\ u \in SharedWith(w)

(***************************************************************************)
(* Whoever can write to a shared frame shares it with none that runs but   *)
(* its own descendants; a task that leaves has none.                       *)
(***************************************************************************)
Heirs ==
  \A w, u \in Tid : Writes(w, u) /\ task[u].state = "runs" =>
    /\ task[w].state # "leaving"
    /\ \A S \in SUBSET Tid : w \in S /\ Closed_(S) => u \in S

Distance(t) == (t - tids.prev) % MAX_TASKS_AMOUNT

(***************************************************************************)
(* A tid free ever since another was given is nearer to the scan.          *)
(***************************************************************************)
Nearer ==
  \A t \in Tid : \A u \in unused[t] : u \notin tids.set /\ Distance(u) < Distance(t)

IInv ==
  Types /\ Conduct /\ Listed /\ Mapped /\ FramesBacked /\ ParentRuns /\ Heirs /\ OneWriter
    /\ OwnFile /\ Nearer
-----------------------------------------------------------------------------
(***************************************************************************)
(* The constants are what the bounds say.                                  *)
(***************************************************************************)
LEMMA Bounds ==
  /\ MAX_TASKS_AMOUNT \in Nat \ {0} /\ FRAMES \in Nat \ {0} /\ MAX_FILES_PER_TASK \in Nat \ {0}
  /\ TID_HOO \in Tid /\ TidShell \in Tid /\ TID_HOO # TidShell
  /\ {0, 1} \subseteq FrameOf /\ 2 \in FrameOf /\ INVALID_INDEX \notin FrameOf
  /\ 2 \in Tid /\ INVALID_INDEX \notin Tid
  /\ {0, 1} \subseteq Slot /\ 0 \in Fd /\ 3 \in Fd \ Std /\ Std \subseteq Fd
  /\ \A t \in Tid : t \in 0..(MAX_TASKS_AMOUNT - 1)
BY ThreadsAssumption, FdAssumption
   DEF Tid, TID_HOO, TidShell, FrameOf, INVALID_INDEX, Slot, Fd, Std

(***************************************************************************)
(* A scan of a map with a clear bit finds one, the nearest to its start;   *)
(* the map with this bit set and the next start is a map again.            *)
(***************************************************************************)
LEMMA ScanOfMap ==
  ASSUME NEW bits \in Nat \ {0}, NEW map \in MapOf(bits), ~Exhausted(map)
  PROVE  /\ FirstFree(map) \in (0..(bits - 1)) \ map.set
         /\ \A bit \in (0..(bits - 1)) \ map.set :
              (FirstFree(map) - map.prev) % bits <= (bit - map.prev) % bits
         /\ bitmap_set(Scanned(map), FirstFree(map)) \in MapOf(bits)
         /\ bitmap_set(Scanned(map), FirstFree(map)).set = map.set \cup {FirstFree(map)}
         /\ bitmap_set(Scanned(map), FirstFree(map)).prev = (FirstFree(map) + 1) % bits
         /\ Scanned(map).prev \in 0..(bits - 1)
<1>1. /\ map.bits = bits /\ map.set \subseteq 0..(bits - 1) /\ map.prev \in 0..(bits - 1)
      /\ map = [bits |-> bits, set |-> map.set, prev |-> map.prev]
  BY DEF MapOf
<1>2. /\ FirstFree(map) \in (0..(bits - 1)) \ map.set
      /\ \A bit \in (0..(bits - 1)) \ map.set :
           (FirstFree(map) - map.prev) % bits <= (bit - map.prev) % bits
  BY <1>1, ScanFindsNearest DEF FirstFree, Exhausted
<1>3. (FirstFree(map) + 1) % bits \in 0..(bits - 1)
  BY <1>2
<1>4. Scanned(map) = [bits |-> bits, set |-> map.set, prev |-> (FirstFree(map) + 1) % bits]
  BY <1>1 DEF Scanned
<1>5. ASSUME NEW m, NEW p, NEW bit, m = [bits |-> bits, set |-> map.set, prev |-> p]
      PROVE  bitmap_set(m, bit) = [bits |-> bits, set |-> map.set \cup {bit}, prev |-> p]
  BY <1>5 DEF bitmap_set
<1>6. bitmap_set(Scanned(map), FirstFree(map)) =
        [bits |-> bits, set |-> map.set \cup {FirstFree(map)}, prev |-> (FirstFree(map) + 1) % bits]
  BY <1>4, <1>5, Zenon
<1>7. QED
  BY <1>1, <1>2, <1>3, <1>4, <1>6 DEF MapOf

(***************************************************************************)
(* fmngr_alloc gives no descriptor of Std, and the manager it leaves is    *)
(* one.                                                                    *)
(***************************************************************************)
LEMMA InstalledIs ==
  ASSUME NEW fm \in [fd_set : FdSet, files : [Fd -> Slot]], ~Exhausted(fm.fd_set),
         NEW slot \in Slot
  PROVE  /\ fmngr_alloc(fm) \in Fd \ Std
         /\ Installed(fm, slot) \in [fd_set : FdSet, files : [Fd -> Slot]]
         /\ fmngr_files_get(Installed(fm, slot), fmngr_alloc(fm)) = slot
         /\ \A fd \in Fd : fd # fmngr_alloc(fm) =>
              fmngr_files_get(Installed(fm, slot), fd) = fmngr_files_get(fm, fd)
<1>1. fm.fd_set \in FdSet /\ fm.files \in [Fd -> Slot]
  OBVIOUS
<1>2. fm.fd_set.bits # 0
  <2>1. SUFFICES ASSUME fm.fd_set.bits = 0 PROVE FALSE
    OBVIOUS
  <2>2. 0..(fm.fd_set.bits - 1) = {}
    BY <2>1
  <2>3. QED
    BY <2>2 DEF Exhausted
<1>3. /\ fm.fd_set.bits = MAX_FILES_PER_TASK /\ fm.fd_set.set = Std /\ fm.fd_set.prev \in Fd
      /\ fm.fd_set = [bits |-> MAX_FILES_PER_TASK, set |-> Std, prev |-> fm.fd_set.prev]
  BY <1>1, <1>2 DEF FdSet
<1>4. fm.fd_set \in MapOf(MAX_FILES_PER_TASK)
  BY <1>3, Bounds DEF MapOf, Fd
<1>5. /\ fmngr_alloc(fm) \in Fd \ Std
      /\ Scanned(fm.fd_set).prev \in Fd
  BY <1>3, <1>4, Bounds, ScanOfMap DEF fmngr_alloc, Fd
<1>6. Scanned(fm.fd_set) \in FdSet
  <2>1. Scanned(fm.fd_set) =
          [bits |-> MAX_FILES_PER_TASK, set |-> Std, prev |-> Scanned(fm.fd_set).prev]
    BY <1>3 DEF Scanned
  <2>2. QED
    BY <1>5, <2>1 DEF FdSet
<1>7. QED
  BY <1>1, <1>5, <1>6 DEF Installed, fmngr_files_get

(***************************************************************************)
(* fd_global_alloc gives a slot that is not in use.                        *)
(***************************************************************************)
LEMMA SlotIsFree ==
  ASSUME NEW tab, FreeSlots(tab) # {}
  PROVE  fd_global_alloc(tab) \in Slot /\ tab[fd_global_alloc(tab)].ref = 0
<1> DEFINE F == FreeSlots(tab)
<1>1. F \in SUBSET Nat /\ F # {}
  BY FdAssumption DEF FreeSlots, Slot
<1>2. \E m \in F : \A n \in F : m <= n
  BY <1>1, Least, Zenon
<1>3. Min(F) \in F
  BY <1>2 DEF Min
<1>4. QED
  BY <1>3 DEF fd_global_alloc, FreeSlots

(***************************************************************************)
(* curdir_set stays in the tree.                                           *)
(***************************************************************************)
LEMMA StaysInTree ==
  ASSUME NEW path \in Dir PROVE curdir_set(path) \in Dir
<1>1. path \in Seq(Range(path)) /\ \A n \in 1..Len(path) : SubSeq(path, 1, n) \in Dir
  BY CurdirAssumption
<1>2. Len(path) \in Nat
  BY <1>1
<1>3. ~(Len(path) <= MAX_OPEN_DIR) => MAX_OPEN_DIR \in 1..Len(path)
  BY <1>2, CurdirAssumption
<1>4. QED
  BY <1>1, <1>3 DEF curdir_set

(***************************************************************************)
(* A PCB that nobody has is one.                                           *)
(***************************************************************************)
LEMMA NoTaskIs ==
  /\ NewManager \in [fd_set : FdSet, files : [Fd -> Slot]]
  /\ NewManager.fd_set.bits = MAX_FILES_PER_TASK /\ NewManager.fd_set.set = Std
  /\ NoTask \in TaskType
<1> DEFINE set == [bitmap_init(MAX_FILES_PER_TASK) EXCEPT !.set = Std]
<1>1. set \in FdSet /\ set.bits = MAX_FILES_PER_TASK /\ set.set = Std
  <2>1. bitmap_init(MAX_FILES_PER_TASK) \in [bits : {MAX_FILES_PER_TASK}, set : {{}}, prev : {0}]
    BY DEF bitmap_init
  <2>2. set \in [bits : {MAX_FILES_PER_TASK}, set : {Std}, prev : {0}]
    BY <2>1
  <2>3. QED
    BY <2>2, Bounds DEF FdSet
<1>2. [fd \in Fd |-> 0] \in [Fd -> Slot]
  BY Bounds
<1> HIDE DEF set
<1>3. NewManager = [fd_set |-> set, files |-> [fd \in Fd |-> 0]]
  BY DEF NewManager, set
<1>4. /\ NewManager \in [fd_set : FdSet, files : [Fd -> Slot]]
      /\ NewManager.fd_set.bits = MAX_FILES_PER_TASK /\ NewManager.fd_set.set = Std
  BY <1>1, <1>2, <1>3
<1>5. <<>> \in UNION {[D -> Inode] : D \in SUBSET (Fd \ Std)}
  <2>1. <<>> \in [{} -> Inode]
    OBVIOUS
  <2>2. QED
    BY <2>1
<1>6. User \in CallType /\ NoPage \in PageType
  BY DEF CallType, PageType
<1>7. NoTask \in TaskType
  BY <1>4, <1>5, <1>6 DEF NoTask, TaskType
<1>8. QED
  BY <1>4, <1>7
-----------------------------------------------------------------------------
(***************************************************************************)
(* What the fields of the PCBs may be.                                     *)
(***************************************************************************)
LEMMA FieldTypes ==
  ASSUME Types, NEW t \in Tid
  PROVE  /\ task[t] \in TaskType
         /\ task[t].state \in {"none", "runs", "leaving", "expired"}
         /\ task[t].parent \in Tid \cup {INVALID_INDEX}
         /\ task[t].cwd \in Dir \cup {curdir_init}
         /\ task[t].fmngr \in [fd_set : FdSet, files : [Fd -> Slot]]
         /\ task[t].call \in CallType
         /\ task[t].opened \in [DOMAIN task[t].opened -> Inode]
         /\ DOMAIN task[t].opened \subseteq Fd \ Std
         /\ task[t].page \in PageType
         /\ task[t].stack \in FrameOf \cup {INVALID_INDEX}
<1>1. task[t] \in TaskType
  BY DEF Types
<1>2. PICK D \in SUBSET (Fd \ Std) : task[t].opened \in [D -> Inode]
  BY <1>1 DEF TaskType
<1>3. DOMAIN task[t].opened = D
  BY <1>2
<1>4. QED
  BY <1>1, <1>2, <1>3 DEF TaskType

(***************************************************************************)
(* A page that is mapped has a frame.                                      *)
(***************************************************************************)
LEMMA PageIs ==
  ASSUME NEW page \in PageType
  PROVE  /\ page # NoPage <=> page.frame # INVALID_INDEX
         /\ page # NoPage => page.frame \in FrameOf
         /\ page.rw \in BOOLEAN
<1>1. CASE page = NoPage
  BY <1>1 DEF NoPage
<1>2. CASE page # NoPage
  <2>1. page \in [frame : FrameOf, rw : BOOLEAN]
    BY <1>2 DEF PageType
  <2>2. page.frame \in FrameOf /\ page.rw \in BOOLEAN
    BY <2>1
  <2>3. QED
    BY <1>2, <2>2, Bounds
<1>3. QED
  BY <1>1, <1>2

\* The same of the page of a task.
LEMMA PageTypes ==
  ASSUME Types, NEW t \in Tid
  PROVE  /\ HasPage(t) <=> task[t].page.frame # INVALID_INDEX
         /\ HasPage(t) => task[t].page.frame \in FrameOf
         /\ task[t].page.rw \in BOOLEAN
BY FieldTypes, PageIs DEF HasPage

(***************************************************************************)
(* A step that gives one tid another PCB changes that one only.            *)
(***************************************************************************)
LEMMA OneTask ==
  ASSUME Types, NEW t \in Tid, NEW r \in TaskType, task' = [task EXCEPT ![t] = r]
  PROVE  /\ task' \in [Tid -> TaskType]
         /\ task'[t] = r
         /\ \A u \in Tid \ {t} : task'[u] = task[u]
BY DEF Types

(***************************************************************************)
(* The fields that a PCB keeps its type by.                                *)
(***************************************************************************)
LEMMA NewFields ==
  ASSUME NEW r \in TaskType
  PROVE  /\ \A c \in CallType : [r EXCEPT !.call = c] \in TaskType
         /\ \A p \in PageType : [r EXCEPT !.page = p] \in TaskType
         /\ \A d \in Dir \cup {curdir_init} : [r EXCEPT !.cwd = d] \in TaskType
         /\ \A s \in {"none", "runs", "leaving", "expired"} : [r EXCEPT !.state = s] \in TaskType
         /\ \A o \in UNION {[D -> Inode] : D \in SUBSET (Fd \ Std)} :
              [r EXCEPT !.opened = o] \in TaskType
         /\ \A m \in [fd_set : FdSet, files : [Fd -> Slot]] : [r EXCEPT !.fmngr = m] \in TaskType
<1> DEFINE O == UNION {[D -> Inode] : D \in SUBSET (Fd \ Std)}
           M == [fd_set : FdSet, files : [Fd -> Slot]]
           P == Tid \cup {INVALID_INDEX}
           C == Dir \cup {curdir_init}
           K == FrameOf \cup {INVALID_INDEX}
           S == {"none", "runs", "leaving", "expired"}
<1>1. TaskType = [state : S, parent : P, cwd : C, fmngr : M, call : CallType, opened : O,
                  page : PageType, stack : K]
  BY DEF TaskType
<1> HIDE DEF O, M, P, C, K, S
<1>2. /\ \A c \in CallType : [r EXCEPT !.call = c] \in TaskType
      /\ \A p \in PageType : [r EXCEPT !.page = p] \in TaskType
      /\ \A d \in C : [r EXCEPT !.cwd = d] \in TaskType
      /\ \A s \in S : [r EXCEPT !.state = s] \in TaskType
      /\ \A o \in O : [r EXCEPT !.opened = o] \in TaskType
      /\ \A m \in M : [r EXCEPT !.fmngr = m] \in TaskType
  BY <1>1
<1>3. QED
  BY <1>2 DEF O, M, C, S

\* Nothing changes but why the system is not followed further.
Idle == UNCHANGED <<tids, task, table, frames, expired, unused>>

(***************************************************************************)
(* The step of fork, unless it stops the system, in terms of the fields.   *)
(***************************************************************************)
ForkDoes(t, new) ==
  /\ task[t].state = "runs" /\ t # TID_HOO /\ task[new].state = "none" /\ t # new
  /\ new \notin tids.set
  /\ \A u \in Tid \ tids.set : Distance(new) <= Distance(u)
  /\ \A u \in Tid \ {new} : task'[u] = task[u]
  /\ task'[new].state = "runs" /\ task'[new].parent = t /\ task'[new].cwd = task[t].cwd
  /\ task'[new].call = User /\ DOMAIN task'[new].opened = {}
  /\ task'[new].page.frame = task[t].page.frame /\ task'[new].page.rw = FALSE
  /\ task'[new].stack \in FrameOf \ frames.set
  /\ frames'.set = frames.set \cup {task'[new].stack}
  /\ tids'.set = tids.set \cup {new} /\ tids'.prev = (new + 1) % MAX_TASKS_AMOUNT
  /\ unused' = Given(new) /\ table' = table /\ expired' = expired

\* fork does so: the tid and the frame that the scans find were free.
LEMMA ForkStep ==
  ASSUME Types, NEW t \in Tid, fork(t), ~Idle
  PROVE  /\ task' \in [Tid -> TaskType] /\ tids' \in MapOf(MAX_TASKS_AMOUNT)
         /\ frames' \in MapOf(FRAMES) /\ halt' = halt
         /\ \E new \in Tid : ForkDoes(t, new)
<1> DEFINE new == FirstFree(tids)
<1>1. /\ ~Exhausted(tids) /\ ~Exhausted(frames) /\ task[new].state = "none"
      /\ task' = [task EXCEPT ![new] = Copy(t, new)]
      /\ tids' = bitmap_set(Scanned(tids), new)
      /\ unused' = Given(new) /\ phy_alloc_page /\ UNCHANGED <<table, expired, halt>>
      /\ task[t].state = "runs" /\ t # TID_HOO
  BY DEF fork, Stop, Idle, Calls
<1>2. /\ new \in Tid \ tids.set
      /\ \A u \in Tid \ tids.set : Distance(new) <= Distance(u)
      /\ tids' \in MapOf(MAX_TASKS_AMOUNT) /\ tids'.set = tids.set \cup {new}
      /\ tids'.prev = (new + 1) % MAX_TASKS_AMOUNT
  BY <1>1, ScanOfMap, Bounds DEF Types, Tid, Distance
<1>3. /\ NewFrame \in FrameOf \ frames.set
      /\ frames' \in MapOf(FRAMES) /\ frames'.set = frames.set \cup {NewFrame}
  BY <1>1, ScanOfMap, Bounds DEF Types, FrameOf, phy_alloc_page, NewFrame
<1> HIDE DEF new
<1>4. /\ Copy(t, new) \in TaskType
      /\ Copy(t, new).state = "runs" /\ Copy(t, new).parent = t
      /\ Copy(t, new).cwd = task[t].cwd /\ Copy(t, new).call = User
      /\ Copy(t, new).opened = <<>> /\ Copy(t, new).stack = NewFrame
      /\ Copy(t, new).page = [task[t].page EXCEPT !.rw = FALSE]
  <2> DEFINE page == [task[t].page EXCEPT !.rw = FALSE]
  <2>1. page \in PageType
    <3>1. CASE task[t].page = NoPage
      <4> DEFINE R == [frame : {INVALID_INDEX}, rw : {FALSE}]
      <4>1. ASSUME NEW r \in R PROVE [r EXCEPT !.rw = FALSE] \in R /\ r = NoPage
        BY DEF NoPage
      <4>2. NoPage \in R
        BY DEF NoPage
      <4> HIDE DEF R
      <4>3. page = NoPage
        BY <3>1, <4>1, <4>2
      <4>4. QED
        BY <4>3 DEF PageType
    <3>2. CASE task[t].page # NoPage
      <4>1. task[t].page \in [frame : FrameOf, rw : BOOLEAN]
        BY <3>2, FieldTypes DEF PageType
      <4>2. page \in [frame : FrameOf, rw : BOOLEAN]
        BY <4>1
      <4>3. QED
        BY <4>2 DEF PageType
    <3>3. QED
      BY <3>1, <3>2
  <2>2. <<>> \in UNION {[D -> Inode] : D \in SUBSET (Fd \ Std)}
    <3>1. <<>> \in [{} -> Inode]
      OBVIOUS
    <3>2. QED
      BY <3>1
  <2>3. User \in CallType
    BY DEF CallType
  <2>4. Copy(t, new) =
          [task[new] EXCEPT !.state = "runs", !.parent = t, !.cwd = task[t].cwd, !.call = User,
                            !.opened = <<>>, !.page = page, !.stack = NewFrame]
    BY DEF Copy
  <2> HIDE DEF page
  <2>5. /\ task[new] \in TaskType /\ task[t].cwd \in Dir \cup {curdir_init}
        /\ t \in Tid \cup {INVALID_INDEX} /\ NewFrame \in FrameOf \cup {INVALID_INDEX}
    BY <1>2, <1>3, FieldTypes
  <2>6. QED
    BY <2>1, <2>2, <2>3, <2>4, <2>5, ZenonT(30) DEF TaskType, page
<1>5. Copy(t, new).page.frame = task[t].page.frame /\ Copy(t, new).page.rw = FALSE
  BY <1>4, FieldTypes DEF PageType, NoPage
<1>6. /\ task' \in [Tid -> TaskType] /\ task'[new] = Copy(t, new)
      /\ \A u \in Tid \ {new} : task'[u] = task[u]
  BY <1>1, <1>2, <1>4, OneTask
<1>7. DOMAIN task'[new].opened = {}
  BY <1>4, <1>6
<1>8. ForkDoes(t, new)
  BY <1>1, <1>2, <1>3, <1>4, <1>5, <1>6, <1>7 DEF ForkDoes
<1>9. QED
  BY <1>1, <1>2, <1>3, <1>6, <1>8

(***************************************************************************)
(* The step of a first write to a shared page, and that of the loading of  *)
(* a program: the task is given a frame that was free.                     *)
(***************************************************************************)
PageDoes(t) ==
  /\ task[t].state = "runs" /\ t # TID_HOO
  /\ \A u \in Tid \ {t} : task'[u] = task[u]
  /\ task'[t].state = task[t].state /\ task'[t].parent = task[t].parent
  /\ task'[t].cwd = task[t].cwd /\ task'[t].fmngr = task[t].fmngr
  /\ task'[t].opened = task[t].opened /\ task'[t].stack = task[t].stack
  /\ task'[t].page.frame \in FrameOf \ frames.set
  /\ frames'.set = frames.set \cup {task'[t].page.frame}
  /\ UNCHANGED <<tids, table, expired, unused>>

\* page_fault and exec do so.
LEMMA PageStep ==
  ASSUME Types, Conduct, NEW t \in Tid, page_fault(t) \/ Load(t), ~Idle
  PROVE  /\ task' \in [Tid -> TaskType] /\ frames' \in MapOf(FRAMES) /\ halt' = halt
         /\ PageDoes(t)
<1> DEFINE page == [frame |-> NewFrame, rw |-> TRUE]
           call == IF page_fault(t) THEN task[t].call ELSE User
           next == [[task[t] EXCEPT !.page = page] EXCEPT !.call = call]
<1>1. /\ ~Exhausted(frames) /\ phy_alloc_page /\ task[t].state = "runs" /\ t # TID_HOO
      /\ UNCHANGED <<tids, table, expired, unused, halt>>
      /\ task' = [task EXCEPT ![t] = next]
  <2>1. CASE page_fault(t)
    <3>1. /\ ~Exhausted(frames) /\ phy_alloc_page /\ task[t].state = "runs" /\ t # TID_HOO
          /\ UNCHANGED <<tids, table, expired, unused, halt>>
          /\ task' = [task EXCEPT ![t] = [task[t] EXCEPT !.page = page]]
      BY <2>1 DEF page_fault, Stop, Idle, Calls
    <3>2. [task[t] EXCEPT !.page = page] = next
      BY <2>1, FieldTypes DEF TaskType
    <3>3. QED
      BY <3>1, <3>2
  <2>2. CASE ~page_fault(t)
    <3>1. /\ ~Exhausted(frames) /\ phy_alloc_page /\ task[t].call = [at |-> "load"]
          /\ UNCHANGED <<tids, table, expired, unused, halt>>
          /\ task' = [task EXCEPT ![t] = [task[t] EXCEPT !.page = page, !.call = User]]
      BY <2>2 DEF Load, Stop, Idle
    <3>2. [task[t] EXCEPT !.page = page, !.call = User] = next
      BY <2>2
    <3>3. task[t].call # User
      <4>1. task[t].call.at = "load" /\ User.at = "user"
        BY <3>1 DEF User
      <4>2. QED
        BY <4>1
    <3>4. task[t].state = "runs" /\ t # TID_HOO
      BY <3>3 DEF Conduct
    <3>5. QED
      BY <3>1, <3>2, <3>4
  <2>3. QED
    BY <2>1, <2>2
<1>2. /\ NewFrame \in FrameOf \ frames.set
      /\ frames' \in MapOf(FRAMES) /\ frames'.set = frames.set \cup {NewFrame}
  BY <1>1, ScanOfMap, Bounds DEF Types, FrameOf, phy_alloc_page, NewFrame
<1>3. page \in PageType /\ page.frame = NewFrame
  BY <1>2 DEF PageType
<1>4. call \in CallType
  BY FieldTypes DEF CallType
<1> HIDE DEF page, call
<1>5. /\ next \in TaskType
      /\ next.state = task[t].state /\ next.parent = task[t].parent
      /\ next.cwd = task[t].cwd /\ next.fmngr = task[t].fmngr
      /\ next.opened = task[t].opened /\ next.stack = task[t].stack /\ next.page = page
  <2>1. task[t] \in TaskType
    BY FieldTypes
  <2>2. [task[t] EXCEPT !.page = page] \in TaskType
    BY <1>3, <2>1, NewFields
  <2>3. next \in TaskType
    BY <1>4, <2>2, NewFields
  <2>4. QED
    BY <2>1, <2>3 DEF TaskType
<1> HIDE DEF next
<1>6. /\ task' \in [Tid -> TaskType] /\ task'[t] = next
      /\ \A u \in Tid \ {t} : task'[u] = task[u]
  BY <1>1, <1>5, OneTask
<1>7. PageDoes(t)
  BY <1>1, <1>2, <1>3, <1>5, <1>6 DEF PageDoes
<1>8. QED
  BY <1>1, <1>2, <1>6, <1>7

\* What the frames and the tree of the tasks are about, of one task.
KeepsView(u) ==
  /\ task'[u].state = task[u].state /\ task'[u].parent = task[u].parent
  /\ task'[u].page = task[u].page /\ task'[u].stack = task[u].stack

\* What the descriptors are about.
KeepsFiles(u) == task'[u].opened = task[u].opened /\ task'[u].fmngr = task[u].fmngr

(***************************************************************************)
(* The step that finds a slot leaves all but the call as it was.           *)
(***************************************************************************)
LEMMA FindStep ==
  ASSUME Types, NEW t \in Tid, NEW inode \in Inode, NEW for \in {"open", "exec"},
         OpenFind(t, inode, for), ~Idle
  PROVE  /\ task' \in [Tid -> TaskType] /\ halt' = halt
         /\ task[t].state = "runs" /\ t # TID_HOO
         /\ \A u \in Tid \ {t} : task'[u] = task[u]
         /\ KeepsView(t) /\ KeepsFiles(t) /\ task'[t].cwd = task[t].cwd
         /\ UNCHANGED <<tids, table, frames, expired, unused>>
<1> DEFINE call == [at |-> for, slot |-> fd_global_alloc(table), inode |-> inode]
           next == [task[t] EXCEPT !.call = call]
<1>1. /\ task[t].state = "runs" /\ t # TID_HOO
      /\ UNCHANGED <<tids, table, frames, expired, unused, halt>>
      /\ FreeSlots(table) # {} /\ task' = [task EXCEPT ![t] = next]
  BY DEF OpenFind, Stop, Idle, Calls
<1>2. call \in CallType
  BY <1>1, SlotIsFree DEF CallType
<1> HIDE DEF call
<1>3. /\ next \in TaskType
      /\ next.state = task[t].state /\ next.parent = task[t].parent
      /\ next.cwd = task[t].cwd /\ next.fmngr = task[t].fmngr
      /\ next.opened = task[t].opened /\ next.stack = task[t].stack /\ next.page = task[t].page
  <2>1. task[t] \in TaskType
    BY FieldTypes
  <2>2. next \in TaskType
    BY <1>2, <2>1, NewFields
  <2>3. QED
    BY <2>1, <2>2 DEF TaskType
<1> HIDE DEF next
<1>4. /\ task' \in [Tid -> TaskType] /\ task'[t] = next
      /\ \A u \in Tid \ {t} : task'[u] = task[u]
  BY <1>1, <1>3, OneTask
<1>5. QED
  BY <1>1, <1>3, <1>4 DEF KeepsView, KeepsFiles

(***************************************************************************)
(* The step that takes the slot: the descriptor is new to the task, leads  *)
(* to the slot, and the slot, which nobody had taken, counts one user.     *)
(***************************************************************************)
TakeDoes(t, fd, slot, inode) ==
  /\ task[t].state = "runs" /\ t # TID_HOO
  /\ \A u \in Tid \ {t} : task'[u] = task[u]
  /\ KeepsView(t) /\ task'[t].cwd = task[t].cwd
  /\ fd \notin DOMAIN task[t].opened /\ table[slot].ref = 0
  /\ DOMAIN task'[t].opened = DOMAIN task[t].opened \cup {fd}
  /\ task'[t].opened[fd] = inode
  /\ \A g \in DOMAIN task[t].opened : task'[t].opened[g] = task[t].opened[g]
  /\ fmngr_files_get(task'[t].fmngr, fd) = slot
  /\ \A g \in Fd : g # fd =>
       fmngr_files_get(task'[t].fmngr, g) = fmngr_files_get(task[t].fmngr, g)
  /\ table'[slot].ref > 0 /\ table'[slot].inode = inode
  /\ \A s \in Slot : s # slot => table'[s] = table[s]
  /\ UNCHANGED <<tids, frames, expired, unused>>

\* The rest of files_open does so.
LEMMA TakeStep ==
  ASSUME Types, Conduct, NEW t \in Tid, OpenTake(t), ~Idle
  PROVE  /\ task' \in [Tid -> TaskType] /\ halt' = halt
         /\ table' \in [Slot -> [ref : Nat, inode : Inode]]
         /\ \E fd \in Fd, slot \in Slot, inode \in Inode : TakeDoes(t, fd, slot, inode)
<1> DEFINE call   == task[t].call
           fm     == task[t].fmngr
           fd     == fmngr_alloc(fm)
           opened == [g \in DOMAIN task[t].opened \cup {fd} |->
                        IF g = fd THEN call.inode ELSE task[t].opened[g]]
           after  == IF call.at = "exec" THEN [at |-> "load"] ELSE User
           man    == Installed(fm, call.slot)
           next   == [[[task[t] EXCEPT !.fmngr = man] EXCEPT !.opened = opened]
                        EXCEPT !.call = after]
<1>1. /\ call.at \in {"open", "exec"} /\ ~Exhausted(fm.fd_set)
      /\ table[call.slot].ref = 0 /\ fd \notin DOMAIN task[t].opened
      /\ table' = Referred(table, call.slot, call.inode)
      /\ UNCHANGED <<tids, frames, expired, unused, halt>>
  BY DEF OpenTake, Stop, Idle
<1>2. task' = [task EXCEPT ![t] = next]
  BY <1>1 DEF OpenTake, Stop, Idle
<1>3. call.slot \in Slot /\ call.inode \in Inode
  <2>1. call \in CallType
    BY FieldTypes
  <2>2. [at |-> "load"].at = "load" /\ User.at = "user"
    BY DEF User
  <2>3. call \in [at : {"open", "exec"}, slot : Slot, inode : Inode]
    BY <1>1, <2>1, <2>2 DEF CallType
  <2>4. QED
    BY <2>3
<1>4. task[t].state = "runs" /\ t # TID_HOO
  <2>1. call # User
    BY <1>1 DEF User
  <2>2. QED
    BY <2>1 DEF Conduct
<1>5. /\ fd \in Fd \ Std /\ man \in [fd_set : FdSet, files : [Fd -> Slot]]
      /\ fmngr_files_get(man, fd) = call.slot
      /\ \A g \in Fd : g # fd => fmngr_files_get(man, g) = fmngr_files_get(fm, g)
  BY <1>1, <1>3, FieldTypes, InstalledIs
<1>6. opened \in UNION {[D -> Inode] : D \in SUBSET (Fd \ Std)}
  <2>1. DOMAIN task[t].opened \cup {fd} \in SUBSET (Fd \ Std)
    BY <1>5, FieldTypes
  <2>2. opened \in [DOMAIN task[t].opened \cup {fd} -> Inode]
    BY <1>3, FieldTypes
  <2>3. QED
    BY <2>1, <2>2
<1>7. /\ DOMAIN opened = DOMAIN task[t].opened \cup {fd} /\ opened[fd] = call.inode
      /\ \A g \in DOMAIN task[t].opened : opened[g] = task[t].opened[g]
  BY <1>1
<1>8. after \in CallType
  BY DEF CallType
<1>9. /\ table' \in [Slot -> [ref : Nat, inode : Inode]]
      /\ table'[call.slot].ref > 0 /\ table'[call.slot].inode = call.inode
      /\ \A s \in Slot : s # call.slot => table'[s] = table[s]
  <2> DEFINE cell == [ref |-> table[call.slot].ref + 1, inode |-> call.inode]
  <2>1. table' = [table EXCEPT ![call.slot] = cell]
    BY <1>1 DEF Referred
  <2>2. cell \in [ref : Nat, inode : Inode] /\ cell.ref > 0 /\ cell.inode = call.inode
    BY <1>1, <1>3
  <2> HIDE DEF cell
  <2>3. table \in [Slot -> [ref : Nat, inode : Inode]]
    BY DEF Types
  <2>4. QED
    BY <1>3, <2>1, <2>2, <2>3
<1> HIDE DEF man, opened, after, fd
<1>10. /\ next \in TaskType
       /\ next.state = task[t].state /\ next.parent = task[t].parent
       /\ next.cwd = task[t].cwd /\ next.stack = task[t].stack /\ next.page = task[t].page
       /\ next.fmngr = man /\ next.opened = opened
  <2>1. task[t] \in TaskType
    BY FieldTypes
  <2>2. [task[t] EXCEPT !.fmngr = man] \in TaskType
    BY <1>5, <2>1, NewFields
  <2>3. [[task[t] EXCEPT !.fmngr = man] EXCEPT !.opened = opened] \in TaskType
    BY <1>6, <2>2, NewFields
  <2>4. next \in TaskType
    BY <1>8, <2>3, NewFields
  <2>5. QED
    BY <2>1, <2>4 DEF TaskType
<1> HIDE DEF next
<1>11. /\ task' \in [Tid -> TaskType] /\ task'[t] = next
       /\ \A u \in Tid \ {t} : task'[u] = task[u]
  BY <1>2, <1>10, OneTask
<1>12. TakeDoes(t, fd, call.slot, call.inode)
  BY <1>1, <1>4, <1>5, <1>7, <1>9, <1>10, <1>11 DEF TakeDoes, KeepsView
<1>13. QED
  BY <1>1, <1>3, <1>5, <1>9, <1>11, <1>12
-----------------------------------------------------------------------------
\* The slot behind a descriptor.
Behind(t, fd) == fmngr_files_get(task[t].fmngr, fd)

(***************************************************************************)
(* OwnFile, with the tasks and their descriptors in place of the pairs.    *)
(***************************************************************************)
OwnEach ==
  \A t \in Tid : task[t].state = "runs" => \A fd \in DOMAIN task[t].opened :
    table[Behind(t, fd)].ref > 0 /\ table[Behind(t, fd)].inode = task[t].opened[fd]

OwnApart ==
  \A t, u \in Tid : task[t].state = "runs" /\ task[u].state = "runs" =>
    \A fd \in DOMAIN task[t].opened, g \in DOMAIN task[u].opened :
      Behind(t, fd) = Behind(u, g) => t = u /\ fd = g

\* The two parts are OwnFile.
LEMMA OwnFileIs == OwnFile <=> OwnEach /\ OwnApart
<1>1. \A o : o \in Opened <=>
        \E t \in Tid : task[t].state = "runs" /\ \E fd \in DOMAIN task[t].opened : o = <<t, fd>>
  BY DEF Opened, Runs
<1>2. \A t, fd : SlotOf(<<t, fd>>) = Behind(t, fd)
  BY DEF SlotOf, Behind
<1>3. ASSUME OwnFile PROVE OwnEach /\ OwnApart
  <2>1. OwnEach
    <3> SUFFICES ASSUME NEW t \in Tid, task[t].state = "runs", NEW fd \in DOMAIN task[t].opened
                 PROVE  /\ table[Behind(t, fd)].ref > 0
                        /\ table[Behind(t, fd)].inode = task[t].opened[fd]
      BY DEF OwnEach
    <3>1. <<t, fd>> \in Opened
      BY <1>1
    <3>2. QED
      BY <1>2, <1>3, <3>1 DEF OwnFile
  <2>2. OwnApart
    <3> SUFFICES ASSUME NEW t \in Tid, NEW u \in Tid, task[t].state = "runs",
                        task[u].state = "runs", NEW fd \in DOMAIN task[t].opened,
                        NEW g \in DOMAIN task[u].opened, Behind(t, fd) = Behind(u, g)
                 PROVE  t = u /\ fd = g
      BY DEF OwnApart
    <3>1. <<t, fd>> \in Opened /\ <<u, g>> \in Opened
      BY <1>1
    <3>2. <<t, fd>> = <<u, g>>
      BY <1>2, <1>3, <3>1 DEF OwnFile
    <3>3. QED
      BY <3>2
  <2>3. QED
    BY <2>1, <2>2
<1>4. ASSUME OwnEach, OwnApart PROVE OwnFile
  <2>1. ASSUME NEW o \in Opened
        PROVE  table[SlotOf(o)].ref > 0 /\ table[SlotOf(o)].inode = task[o[1]].opened[o[2]]
    <3>1. PICK t \in Tid : task[t].state = "runs" /\ \E fd \in DOMAIN task[t].opened : o = <<t, fd>>
      BY <1>1
    <3>2. PICK fd \in DOMAIN task[t].opened : o = <<t, fd>>
      BY <3>1
    <3>3. QED
      BY <1>2, <1>4, <3>1, <3>2 DEF OwnEach
  <2>2. ASSUME NEW o \in Opened, NEW p \in Opened, SlotOf(o) = SlotOf(p) PROVE o = p
    <3>1. PICK t \in Tid : task[t].state = "runs" /\ \E fd \in DOMAIN task[t].opened : o = <<t, fd>>
      BY <1>1
    <3>2. PICK fd \in DOMAIN task[t].opened : o = <<t, fd>>
      BY <3>1
    <3>3. PICK u \in Tid : task[u].state = "runs" /\ \E g \in DOMAIN task[u].opened : p = <<u, g>>
      BY <1>1
    <3>4. PICK g \in DOMAIN task[u].opened : p = <<u, g>>
      BY <3>3
    <3>5. Behind(t, fd) = Behind(u, g)
      BY <1>2, <2>2, <3>2, <3>4
    <3>6. t = u /\ fd = g
      BY <1>4, <3>1, <3>2, <3>3, <3>4, <3>5 DEF OwnApart
    <3>7. QED
      BY <3>2, <3>4, <3>6
  <2>3. QED
    BY <2>1, <2>2 DEF OwnFile
<1>5. QED
  BY <1>3, <1>4

(***************************************************************************)
(* A descriptor has a slot of the table behind it.                         *)
(***************************************************************************)
LEMMA BehindIsSlot ==
  ASSUME Types, NEW t \in Tid, NEW fd \in DOMAIN task[t].opened
  PROVE  fd \in Fd /\ Behind(t, fd) \in Slot
BY FieldTypes DEF Behind, fmngr_files_get

(***************************************************************************)
(* The step of files_close: by OwnFile the counter was not 0.              *)
(***************************************************************************)
CloseDoes(t, fd) ==
  /\ task[t].state = "runs" /\ t # TID_HOO /\ fd \in DOMAIN task[t].opened
  /\ \A u \in Tid \ {t} : task'[u] = task[u]
  /\ KeepsView(t) /\ task'[t].cwd = task[t].cwd /\ task'[t].fmngr = task[t].fmngr
  /\ DOMAIN task'[t].opened = DOMAIN task[t].opened \ {fd}
  /\ \A g \in DOMAIN task'[t].opened : task'[t].opened[g] = task[t].opened[g]
  /\ \A s \in Slot : s # Behind(t, fd) => table'[s] = table[s]
  /\ UNCHANGED <<tids, frames, expired, unused>>

\* files_close does so.
LEMMA CloseStep ==
  ASSUME Types, OwnFile, NEW t \in Tid, NEW fd \in Fd, files_close(t, fd)
  PROVE  /\ task' \in [Tid -> TaskType] /\ halt' = halt
         /\ table' \in [Slot -> [ref : Nat, inode : Inode]]
         /\ CloseDoes(t, fd)
<1> DEFINE slot   == Behind(t, fd)
           opened == [g \in DOMAIN task[t].opened \ {fd} |-> task[t].opened[g]]
           next   == [task[t] EXCEPT !.opened = opened]
<1>1. /\ task[t].state = "runs" /\ t # TID_HOO /\ fd \in DOMAIN task[t].opened
      /\ table' = Closed(table, slot) /\ task' = [task EXCEPT ![t] = next]
      /\ UNCHANGED <<tids, frames, expired, unused, halt>>
  BY DEF files_close, Calls, Behind
<1>2. slot \in Slot
  BY <1>1, BehindIsSlot
<1>3. table[slot].ref > 0
  BY <1>1, OwnFileIs DEF OwnEach
<1> HIDE DEF slot
<1>4. /\ table' \in [Slot -> [ref : Nat, inode : Inode]]
      /\ \A s \in Slot : s # slot => table'[s] = table[s]
  <2> DEFINE cell == [table[slot] EXCEPT !.ref = table[slot].ref - 1]
  <2>1. table' = [table EXCEPT ![slot] = cell]
    BY <1>1 DEF Closed
  <2>2. table \in [Slot -> [ref : Nat, inode : Inode]]
    BY DEF Types
  <2>3. table[slot] \in [ref : Nat, inode : Inode]
    BY <1>2, <2>2
  <2>4. table[slot].ref - 1 \in Nat
    BY <1>3, <2>3
  <2>5. cell \in [ref : Nat, inode : Inode]
    BY <2>3, <2>4
  <2> HIDE DEF cell
  <2>6. QED
    BY <1>2, <2>1, <2>2, <2>5
<1>5. opened \in UNION {[D -> Inode] : D \in SUBSET (Fd \ Std)}
  <2>1. DOMAIN task[t].opened \ {fd} \in SUBSET (Fd \ Std)
    BY FieldTypes
  <2>2. opened \in [DOMAIN task[t].opened \ {fd} -> Inode]
    BY FieldTypes
  <2>3. QED
    BY <2>1, <2>2
<1>6. /\ DOMAIN opened = DOMAIN task[t].opened \ {fd}
      /\ \A g \in DOMAIN opened : opened[g] = task[t].opened[g]
  OBVIOUS
<1> HIDE DEF opened
<1>7. /\ next \in TaskType
      /\ next.state = task[t].state /\ next.parent = task[t].parent
      /\ next.cwd = task[t].cwd /\ next.stack = task[t].stack /\ next.page = task[t].page
      /\ next.fmngr = task[t].fmngr /\ next.opened = opened
  <2>1. task[t] \in TaskType
    BY FieldTypes
  <2>2. next \in TaskType
    BY <1>5, <2>1, NewFields
  <2>3. QED
    BY <2>1, <2>2 DEF TaskType
<1> HIDE DEF next
<1>8. /\ task' \in [Tid -> TaskType] /\ task'[t] = next
      /\ \A u \in Tid \ {t} : task'[u] = task[u]
  BY <1>1, <1>7, OneTask
<1>9. CloseDoes(t, fd)
  BY <1>1, <1>4, <1>6, <1>7, <1>8 DEF CloseDoes, KeepsView, slot
<1>10. QED
  BY <1>1, <1>4, <1>8, <1>9

(***************************************************************************)
(* The step of cd changes no field but cwd, and that to a directory of the *)
(* tree, of the caller and its parent.                                     *)
(***************************************************************************)
LEMMA MoveStep ==
  ASSUME Types, NEW t \in Tid, NEW dir \in Operand, dir_change(t, dir)
  PROVE  /\ task' \in [Tid -> TaskType] /\ halt' = halt
         /\ UNCHANGED <<tids, table, frames, expired, unused>>
         /\ \A u \in Tid : KeepsView(u) /\ KeepsFiles(u) /\ task'[u].call = task[u].call
         /\ \E path \in Dir : \A u \in Tid :
              task'[u].cwd = IF u \in {t, task[t].parent} THEN path ELSE task[u].cwd
<1> DEFINE path == curdir_set(AbsolutePath(task[t].cwd, dir))
<1>1. /\ AbsolutePath(task[t].cwd, dir) \in Dir
      /\ task' = [u \in Tid |-> IF u \in {t, task[t].parent} THEN [task[u] EXCEPT !.cwd = path]
                                ELSE task[u]]
      /\ UNCHANGED <<tids, table, frames, expired, unused, halt>>
  BY DEF dir_change, Changes, Movers
<1>2. path \in Dir
  BY <1>1, StaysInTree
<1> HIDE DEF path
<1>3. ASSUME NEW u \in Tid
      PROVE  /\ task'[u] \in TaskType
             /\ KeepsView(u) /\ KeepsFiles(u) /\ task'[u].call = task[u].call
             /\ task'[u].cwd = IF u \in {t, task[t].parent} THEN path ELSE task[u].cwd
  <2>1. task[u] \in TaskType
    BY FieldTypes
  <2>2. CASE u \in {t, task[t].parent}
    <3> DEFINE next == [task[u] EXCEPT !.cwd = path]
    <3>1. next \in TaskType
      BY <1>2, <2>1, NewFields
    <3>2. /\ next.state = task[u].state /\ next.parent = task[u].parent
          /\ next.stack = task[u].stack /\ next.page = task[u].page
          /\ next.fmngr = task[u].fmngr /\ next.opened = task[u].opened
          /\ next.call = task[u].call /\ next.cwd = path
      BY <2>1, <3>1 DEF TaskType
    <3>3. task'[u] = next
      BY <1>1, <2>2
    <3> HIDE DEF next
    <3>4. QED
      BY <2>2, <3>1, <3>2, <3>3 DEF KeepsView, KeepsFiles
  <2>3. CASE u \notin {t, task[t].parent}
    BY <1>1, <2>1, <2>3 DEF KeepsView, KeepsFiles
  <2>4. QED
    BY <2>2, <2>3
<1>4. task' \in [Tid -> TaskType]
  <2>1. task' = [u \in Tid |-> task'[u]]
    BY <1>1
  <2>2. QED
    BY <1>3, <2>1
<1>5. QED
  BY <1>1, <1>2, <1>3, <1>4
-----------------------------------------------------------------------------
(***************************************************************************)
(* The first step of exit: the task has its page and its stack still, and  *)
(* no child that runs.                                                     *)
(***************************************************************************)
ClearDoes(t) ==
  /\ task[t].state = "runs" /\ t # TID_HOO
  /\ \A c \in Tid : task[c].parent = t => task[c].state # "runs"
  /\ \A u \in Tid \ {t} : task'[u] = task[u]
  /\ task'[t].state = "leaving" /\ task'[t].parent = task[t].parent
  /\ task'[t].page = task[t].page /\ task'[t].stack = task[t].stack /\ task'[t].call = User
  /\ tids'.set = tids.set \ {t} /\ tids'.prev = tids.prev
  /\ UNCHANGED <<table, frames, expired, unused>>

\* exit up to thread_tid_release does so.
LEMMA ClearStep ==
  ASSUME Types, NEW t \in Tid, ExitClear(t)
  PROVE  /\ task' \in [Tid -> TaskType] /\ halt' = halt /\ tids' \in MapOf(MAX_TASKS_AMOUNT)
         /\ ClearDoes(t)
<1> DEFINE next == [[[[task[t] EXCEPT !.state = "leaving"] EXCEPT !.cwd = curdir_init]
                       EXCEPT !.fmngr = fmngr_init] EXCEPT !.opened = <<>>]
<1>1. /\ task[t].state = "runs" /\ t # TID_HOO /\ task[t].call = User
      /\ \A c \in Tid : task[c].parent = t => task[c].state # "runs"
      /\ tids' = bitmap_clear(tids, t)
      /\ UNCHANGED <<table, frames, expired, unused, halt>>
      /\ task' = [task EXCEPT ![t] = next]
  BY DEF ExitClear, MayExit, Calls
<1>2. /\ tids' \in MapOf(MAX_TASKS_AMOUNT)
      /\ tids'.set = tids.set \ {t} /\ tids'.prev = tids.prev
  <2>1. tids \in MapOf(MAX_TASKS_AMOUNT)
    BY DEF Types
  <2>2. QED
    BY <1>1, <2>1 DEF bitmap_clear, MapOf
<1>3. fmngr_init \in [fd_set : FdSet, files : [Fd -> Slot]]
  <2>1. bitmap_init(0) \in FdSet
    BY Bounds DEF bitmap_init, FdSet
  <2>2. [fd \in Fd |-> 0] \in [Fd -> Slot]
    BY Bounds
  <2>3. QED
    BY <2>1, <2>2 DEF fmngr_init
<1>4. <<>> \in UNION {[D -> Inode] : D \in SUBSET (Fd \ Std)}
  <2>1. <<>> \in [{} -> Inode]
    OBVIOUS
  <2>2. QED
    BY <2>1
<1>5. /\ next \in TaskType /\ next.state = "leaving" /\ next.parent = task[t].parent
      /\ next.page = task[t].page /\ next.stack = task[t].stack /\ next.call = task[t].call
  <2>1. task[t] \in TaskType
    BY FieldTypes
  <2>2. [task[t] EXCEPT !.state = "leaving"] \in TaskType
    BY <2>1, NewFields
  <2>3. [[task[t] EXCEPT !.state = "leaving"] EXCEPT !.cwd = curdir_init] \in TaskType
    BY <2>2, NewFields
  <2>4. [[[task[t] EXCEPT !.state = "leaving"] EXCEPT !.cwd = curdir_init]
           EXCEPT !.fmngr = fmngr_init] \in TaskType
    BY <1>3, <2>3, NewFields
  <2>5. next \in TaskType
    BY <1>4, <2>4, NewFields
  <2>6. QED
    BY <2>1, <2>5 DEF TaskType
<1> HIDE DEF next
<1>6. /\ task' \in [Tid -> TaskType] /\ task'[t] = next
      /\ \A u \in Tid \ {t} : task'[u] = task[u]
  BY <1>1, <1>5, OneTask
<1>7. QED
  BY <1>1, <1>2, <1>5, <1>6 DEF ClearDoes

(***************************************************************************)
(* The rest of exit: the frame of the page, which no other task maps, is   *)
(* free, and the task is on the list of the expired.                       *)
(***************************************************************************)
LeaveDoes(t) ==
  /\ task[t].state = "leaving" /\ SharedWith(t) = {}
  /\ \A u \in Tid \ {t} : task'[u] = task[u]
  /\ task'[t].state = "expired" /\ task'[t].parent = task[t].parent
  /\ task'[t].page = NoPage /\ task'[t].stack = task[t].stack /\ task'[t].call = task[t].call
  /\ frames'.set = frames.set \ {task[t].page.frame}
  /\ expired' = Append(expired, t)
  /\ UNCHANGED <<tids, table, unused>>

\* The rest of exit does so.
LEMMA LeaveStep ==
  ASSUME Types, NEW t \in Tid, ExitLeave(t), ~Idle
  PROVE  /\ task' \in [Tid -> TaskType] /\ halt' = halt /\ frames' \in MapOf(FRAMES)
         /\ LeaveDoes(t)
<1> DEFINE next == [[task[t] EXCEPT !.state = "expired"] EXCEPT !.page = NoPage]
<1>1. /\ task[t].state = "leaving" /\ SharedWith(t) = {}
      /\ frames' = [frames EXCEPT !.set = frames.set \ {task[t].page.frame}]
      /\ expired' = Append(expired, t)
      /\ UNCHANGED <<tids, table, unused, halt>>
      /\ task' = [task EXCEPT ![t] = next]
  BY DEF ExitLeave, Stop, Idle, Released
<1>2. frames' \in MapOf(FRAMES) /\ frames'.set = frames.set \ {task[t].page.frame}
  <2>1. frames \in MapOf(FRAMES)
    BY DEF Types
  <2>2. QED
    BY <1>1, <2>1 DEF MapOf
<1>3. /\ next \in TaskType /\ next.state = "expired" /\ next.parent = task[t].parent
      /\ next.page = NoPage /\ next.stack = task[t].stack /\ next.call = task[t].call
  <2>1. task[t] \in TaskType
    BY FieldTypes
  <2>2. [task[t] EXCEPT !.state = "expired"] \in TaskType
    BY <2>1, NewFields
  <2>3. NoPage \in PageType
    BY DEF PageType
  <2>4. next \in TaskType
    BY <2>2, <2>3, NewFields
  <2>5. QED
    BY <2>1, <2>4 DEF TaskType
<1> HIDE DEF next
<1>4. /\ task' \in [Tid -> TaskType] /\ task'[t] = next
      /\ \A u \in Tid \ {t} : task'[u] = task[u]
  BY <1>1, <1>3, OneTask
<1>5. QED
  BY <1>1, <1>2, <1>3, <1>4 DEF LeaveDoes

(***************************************************************************)
(* The step of kill: of the list, in which each task is once, it takes     *)
(* every other one, and nothing but the descriptors is left of them.       *)
(***************************************************************************)
KillDoes(dead) ==
  /\ dead \subseteq Range(expired)
  /\ \A u \in Tid \ dead : task'[u] = task[u]
  /\ \A u \in dead : task'[u].state = "none" /\ task'[u].page = NoPage /\ task'[u].call = User
                     /\ task'[u].stack = INVALID_INDEX /\ task'[u].parent = INVALID_INDEX
  /\ frames'.set = frames.set \ {task[u].stack : u \in dead}
  /\ Range(expired') = Range(expired) \ dead /\ IsInjective(expired')
  /\ UNCHANGED <<tids, table, unused>>

\* kill does so, with those at the odd places of the list.
LEMMA KillStep ==
  ASSUME Types, Listed, kill
  PROVE  /\ task' \in [Tid -> TaskType] /\ halt' = halt /\ frames' \in MapOf(FRAMES)
         /\ expired' \in Seq(Tid)
         /\ KillDoes(Killed)
<1>1. /\ frames' = [frames EXCEPT !.set = frames.set \ {task[t].stack : t \in Killed}]
      /\ task' = [t \in Tid |-> IF t \in Killed THEN [NoTask EXCEPT !.fmngr = task[t].fmngr]
                                ELSE task[t]]
      /\ expired' = [i \in 1..(Len(expired) \div 2) |-> expired[2 * i]]
      /\ UNCHANGED <<tids, table, unused, halt>>
  BY DEF kill
<1>2. /\ expired \in Seq(Tid) /\ Len(expired) \in Nat /\ DOMAIN expired = 1..Len(expired)
      /\ \A i \in 1..Len(expired) : expired[i] \in Tid
      /\ Range(expired) = {expired[i] : i \in 1..Len(expired)}
      /\ \A i, j \in 1..Len(expired) : expired[i] = expired[j] => i = j
  BY RangeIs DEF Types, Listed
<1>3. Killed = {expired[i] : i \in {i \in 1..Len(expired) : i % 2 = 1}}
  BY <1>2 DEF Killed
<1>4. /\ Len(expired) \div 2 \in Nat
      /\ \A i \in 1..(Len(expired) \div 2) : 2 * i \in 1..Len(expired) /\ (2 * i) % 2 = 0
      /\ \A j \in 1..Len(expired) : j % 2 = 1 \/ \E i \in 1..(Len(expired) \div 2) : j = 2 * i
  <2>1. /\ Len(expired) \div 2 \in Nat
        /\ \A i \in 1..(Len(expired) \div 2) : 2 * i \in 1..Len(expired) /\ (2 * i) % 2 = 0
    BY <1>2
  <2>2. ASSUME NEW j \in 1..Len(expired), j % 2 # 1
        PROVE  \E i \in 1..(Len(expired) \div 2) : j = 2 * i
    <3>1. j \div 2 \in 1..(Len(expired) \div 2) /\ j = 2 * (j \div 2)
      BY <1>2, <2>2
    <3>2. QED
      BY <3>1
  <2>3. QED
    BY <2>1, <2>2
<1>5. expired' \in Seq(Tid) /\ Len(expired') = Len(expired) \div 2
  BY <1>1, <1>2, <1>4
<1>6. /\ Range(expired') = {expired[2 * i] : i \in 1..(Len(expired) \div 2)}
      /\ IsInjective(expired')
  <2> DEFINE half == Len(expired) \div 2
             left == [i \in 1..half |-> expired[2 * i]]
  <2>1. left \in Seq(Tid) /\ Len(left) = half
    BY <1>1, <1>5
  <2>2. Range(left) = {left[i] : i \in 1..half}
    <3> HIDE DEF left, half
    <3>1. QED
      BY <2>1, RangeIs
  <2>3. \A i \in 1..half : left[i] = expired[2 * i]
    OBVIOUS
  <2>4. \A i, j \in 1..half : left[i] = left[j] => i = j
    <3> SUFFICES ASSUME NEW i \in 1..half, NEW j \in 1..half, expired[2 * i] = expired[2 * j]
                 PROVE  i = j
      OBVIOUS
    <3>1. 2 * i = 2 * j
      BY <1>2, <1>4
    <3>2. QED
      BY <1>4, <3>1
  <2> HIDE DEF left, half
  <2>5. IsInjective(left)
    BY <2>1, <2>4, RangeIs
  <2>6. Range(left) = {expired[2 * i] : i \in 1..half}
    BY <2>2, <2>3
  <2>7. expired' = left
    BY <1>1 DEF left, half
  <2>8. Range(expired') = Range(left) /\ IsInjective(expired')
    BY <2>5, <2>7
  <2>9. QED
    BY <2>6, <2>8 DEF half
<1>7. Killed \subseteq Range(expired) /\ Killed \subseteq Tid
  BY <1>2, <1>3
<1>8. Range(expired') = Range(expired) \ Killed
  <2>1. ASSUME NEW i \in 1..(Len(expired) \div 2) PROVE expired[2 * i] \in Range(expired) \ Killed
    <3>1. expired[2 * i] \in Range(expired)
      BY <1>2, <1>4
    <3>2. ASSUME expired[2 * i] \in Killed PROVE FALSE
      <4>1. PICK j \in 1..Len(expired) : j % 2 = 1 /\ expired[j] = expired[2 * i]
        BY <1>3, <3>2
      <4>2. j = 2 * i
        BY <1>2, <1>4, <4>1
      <4>3. QED
        BY <1>4, <4>1, <4>2
    <3>3. QED
      BY <3>1, <3>2
  <2>2. ASSUME NEW u \in Range(expired) \ Killed
        PROVE  u \in {expired[2 * i] : i \in 1..(Len(expired) \div 2)}
    <3>1. PICK j \in 1..Len(expired) : u = expired[j]
      BY <1>2
    <3>2. j % 2 # 1
      BY <1>3, <3>1
    <3>3. QED
      BY <1>4, <3>1, <3>2
  <2>3. QED
    BY <1>6, <2>1, <2>2
<1>9. ASSUME NEW u \in Tid
      PROVE  /\ task'[u] \in TaskType
             /\ u \notin Killed => task'[u] = task[u]
             /\ u \in Killed =>
                   /\ task'[u].state = "none" /\ task'[u].page = NoPage /\ task'[u].call = User
                   /\ task'[u].stack = INVALID_INDEX /\ task'[u].parent = INVALID_INDEX
  <2>1. NoTask \in TaskType
    BY NoTaskIs
  <2> DEFINE next == [NoTask EXCEPT !.fmngr = task[u].fmngr]
  <2>2. next \in TaskType
    <3>1. \A r \in TaskType, m \in [fd_set : FdSet, files : [Fd -> Slot]] :
            [r EXCEPT !.fmngr = m] \in TaskType
      BY NewFields
    <3>2. task[u].fmngr \in [fd_set : FdSet, files : [Fd -> Slot]]
      BY FieldTypes
    <3>3. QED
      BY <2>1, <3>1, <3>2
  <2>3. /\ next.state = "none" /\ next.page = NoPage /\ next.call = User
        /\ next.stack = INVALID_INDEX /\ next.parent = INVALID_INDEX
    BY DEF NoTask
  <2>4. u \in Killed => task'[u] = next
    BY <1>1
  <2>5. u \notin Killed => task'[u] = task[u] /\ task[u] \in TaskType
    BY <1>1, FieldTypes
  <2> HIDE DEF next
  <2>6. QED
    BY <2>2, <2>3, <2>4, <2>5
<1>10. task' \in [Tid -> TaskType]
  <2>1. task' = [u \in Tid |-> task'[u]]
    BY <1>1
  <2>2. QED
    BY <1>9, <2>1
<1>11. frames' \in MapOf(FRAMES) /\ frames'.set = frames.set \ {task[t].stack : t \in Killed}
  <2>1. frames \in MapOf(FRAMES)
    BY DEF Types
  <2>2. QED
    BY <1>1, <2>1 DEF MapOf
<1>12. QED
  BY <1>1, <1>5, <1>6, <1>7, <1>8, <1>9, <1>10, <1>11 DEF KillDoes
-----------------------------------------------------------------------------
(***************************************************************************)
(* What Mapped and FramesBacked say together: a page is that of a task     *)
(* that runs or leaves, no frame is a stack and a page, no stack is that   *)
(* of two.                                                                 *)
(***************************************************************************)
LEMMA Backed ==
  ASSUME Types, Mapped, FramesBacked
  PROVE  /\ \A u \in Tid : HasPage(u) =>
              /\ u # TID_HOO /\ task[u].state \in {"runs", "leaving"}
              /\ task[u].page.frame \in frames.set
         /\ \A u \in Tid \ {TID_HOO} : task[u].state # "none" => task[u].stack \in frames.set
         /\ \A t \in Tid \ {TID_HOO}, u \in Tid : task[t].state # "none" /\ HasPage(u) =>
              task[u].page.frame # task[t].stack
         /\ \A t \in Tid \ {TID_HOO}, u \in Tid : task[t].state # "none" /\ u # t =>
              task[u].stack # task[t].stack
<1>1. ASSUME NEW u \in Tid, HasPage(u)
      PROVE  /\ u # TID_HOO /\ task[u].state \in {"runs", "leaving"}
             /\ task[u].page.frame \in frames.set
  <2>1. u # TID_HOO /\ task[u].state # "none" /\ task[u].state # "expired"
    BY <1>1 DEF Mapped, Bare
  <2>2. QED
    BY <1>1, <2>1, FieldTypes DEF FramesBacked
<1>2. \A u \in Tid \ {TID_HOO} : task[u].state # "none" => task[u].stack \in frames.set
  BY DEF FramesBacked
<1>3. ASSUME NEW t \in Tid \ {TID_HOO}, NEW u \in Tid, task[t].state # "none"
      PROVE  /\ HasPage(u) => task[u].page.frame # task[t].stack
             /\ u # t => task[u].stack # task[t].stack
  <2>1. CASE u = t
    BY <1>3, <2>1 DEF Mapped
  <2>2. CASE u # t
    BY <1>3, <2>2 DEF FramesBacked
  <2>3. QED
    BY <2>1, <2>2
<1>4. QED
  BY <1>1, <1>2, <1>3

(***************************************************************************)
(* Who shares a page.                                                      *)
(***************************************************************************)
LEMMA SharedIs ==
  \A t, u \in Tid : u \in SharedWith(t) <=>
    u # t /\ HasPage(u) /\ task[u].page.frame = task[t].page.frame
BY DEF SharedWith, HasPage

(***************************************************************************)
(* A step that changes nothing of what the frames and the tree of tasks    *)
(* are about.                                                              *)
(***************************************************************************)
LEMMA ViewKept ==
  ASSUME Types, \A u \in Tid : KeepsView(u), frames' = frames, expired' = expired,
         Listed, Mapped, FramesBacked, ParentRuns, Heirs, OneWriter
  PROVE  Listed' /\ Mapped' /\ FramesBacked' /\ ParentRuns' /\ Heirs' /\ OneWriter'
<1>1. /\ \A u \in Tid : HasPage(u)' <=> HasPage(u)
      /\ \A u \in Tid : SharedWith(u)' = SharedWith(u)
  BY DEF KeepsView, HasPage, SharedWith
<1>2. Listed'
  <2>1. {t \in Tid : task'[t].state = "expired"} = {t \in Tid : task[t].state = "expired"}
    BY DEF KeepsView
  <2>2. QED
    BY <2>1 DEF Listed
<1>3. Mapped'
  BY <1>1, Bounds DEF Mapped, Bare, KeepsView
<1>4. FramesBacked'
  BY <1>1 DEF FramesBacked, KeepsView
<1>5. ParentRuns'
  <2> SUFFICES ASSUME NEW t \in Tid \ {TID_HOO}, task'[t].state = "runs"
               PROVE  task'[t].parent \in Tid /\ task'[task'[t].parent].state = "runs"
    BY DEF ParentRuns
  <2>1. task[t].parent \in Tid /\ task[task[t].parent].state = "runs"
    BY DEF ParentRuns, KeepsView
  <2>2. QED
    BY <2>1 DEF KeepsView
<1>6. Heirs'
  <2> SUFFICES ASSUME NEW w \in Tid, NEW u \in Tid, Writes(w, u)', task'[u].state = "runs"
               PROVE  /\ task'[w].state # "leaving"
                      /\ \A S \in SUBSET Tid : w \in S /\ Closed_(S)' => u \in S
    BY DEF Heirs
  <2>1. Writes(w, u) /\ task[u].state = "runs"
    BY <1>1 DEF Writes, KeepsView
  <2>2. \A S \in SUBSET Tid : Closed_(S)' => Closed_(S)
    BY DEF Closed_, KeepsView
  <2>3. task[w].state # "leaving" /\ \A S \in SUBSET Tid : w \in S /\ Closed_(S) => u \in S
    BY <2>1 DEF Heirs
  <2>4. QED
    BY <2>2, <2>3 DEF KeepsView
<1>7. OneWriter'
  <2> SUFFICES ASSUME NEW t \in Tid, NEW u \in Tid, t # u, HasPage(t)', u \in SharedWith(t)',
                      task'[t].page.rw
               PROVE  ~task'[u].page.rw /\ task'[t].parent # u
    BY DEF OneWriter
  <2>1. HasPage(t) /\ u \in SharedWith(t) /\ task[t].page.rw
    BY <1>1 DEF KeepsView
  <2>2. ~task[u].page.rw /\ task[t].parent # u
    BY <2>1 DEF OneWriter
  <2>3. QED
    BY <2>2 DEF KeepsView
<1>8. QED
  BY <1>2, <1>3, <1>4, <1>5, <1>6, <1>7

(***************************************************************************)
(* A frame that was free is neither a page nor a stack, so whoever is      *)
(* given it shares it with none.                                           *)
(***************************************************************************)
LEMMA ViewPage ==
  ASSUME Types, task' \in [Tid -> TaskType], frames' \in MapOf(FRAMES),
         NEW t \in Tid, PageDoes(t),
         Listed, Mapped, FramesBacked, ParentRuns, Heirs, OneWriter
  PROVE  Listed' /\ Mapped' /\ FramesBacked' /\ ParentRuns' /\ Heirs' /\ OneWriter'
<1> DEFINE frame == task'[t].page.frame
<1>1. /\ task[t].state = "runs" /\ t # TID_HOO
      /\ \A u \in Tid \ {t} : task'[u] = task[u]
      /\ \A u \in Tid : task'[u].state = task[u].state /\ task'[u].parent = task[u].parent
                        /\ task'[u].stack = task[u].stack
      /\ frame \in FrameOf \ frames.set /\ frames'.set = frames.set \cup {frame}
      /\ expired' = expired
  BY DEF PageDoes
<1>2. \A u \in Tid \ {t} : (HasPage(u)' <=> HasPage(u)) /\ task'[u].page = task[u].page
  BY <1>1 DEF HasPage
<1> HIDE DEF frame
<1>3. \A u \in Tid \ {t} : HasPage(u) => task[u].page.frame # frame
  BY <1>1, Backed
<1>4. \A u \in Tid \ {TID_HOO} : task[u].state # "none" => task[u].stack # frame
  BY <1>1, Backed
<1>5. Listed'
  <2>1. {u \in Tid : task'[u].state = "expired"} = {u \in Tid : task[u].state = "expired"}
    BY <1>1
  <2>2. QED
    BY <1>1, <2>1 DEF Listed
<1>6. Mapped'
  <2>1. Bare(TID_HOO)' /\ \A u \in Tid : task'[u].state = "none" => Bare(u)'
    BY <1>1, <1>2, Bounds DEF Mapped, Bare
  <2>2. \A u \in Tid : task'[u].state = "expired" => ~HasPage(u)'
    BY <1>1, <1>2 DEF Mapped
  <2>3. \A u \in Tid \ {TID_HOO} : task'[u].state # "none" /\ HasPage(u)' =>
          task'[u].page.frame # task'[u].stack
    BY <1>1, <1>2, <1>4 DEF Mapped, frame
  <2>4. QED
    BY <2>1, <2>2, <2>3 DEF Mapped
<1>7. FramesBacked'
  <2> SUFFICES ASSUME NEW a \in Tid \ {TID_HOO}, task'[a].state # "none"
               PROVE  /\ HasPage(a)' => task'[a].page.frame \in frames'.set
                      /\ task'[a].stack \in frames'.set
                      /\ \A u \in Tid \ {a} :
                           /\ task'[u].stack # task'[a].stack
                           /\ HasPage(u)' => task'[u].page.frame # task'[a].stack
    BY DEF FramesBacked
  <2>1. HasPage(a)' => task'[a].page.frame \in frames'.set
    BY <1>1, <1>2, Backed DEF frame
  <2>2. task'[a].stack \in frames'.set
    BY <1>1, Backed
  <2>3. ASSUME NEW u \in Tid \ {a}
        PROVE  /\ task'[u].stack # task'[a].stack
               /\ HasPage(u)' => task'[u].page.frame # task'[a].stack
    BY <1>1, <1>2, <1>4, Backed DEF frame
  <2>4. QED
    BY <2>1, <2>2, <2>3
<1>8. ParentRuns'
  BY <1>1 DEF ParentRuns
<1>9. ASSUME NEW w \in Tid, NEW u \in Tid, w # u, HasPage(w)', u \in SharedWith(w)'
      PROVE  w # t /\ u # t /\ HasPage(w) /\ u \in SharedWith(w)
  <2>1. HasPage(u)' /\ task'[u].page.frame = task'[w].page.frame
    BY <1>9 DEF SharedWith, HasPage
  <2>2. w # t /\ u # t
    BY <1>2, <1>3, <1>9, <2>1 DEF frame
  <2>3. QED
    BY <1>2, <1>9, <2>1, <2>2, SharedIs
<1>10. Heirs'
  <2> SUFFICES ASSUME NEW w \in Tid, NEW u \in Tid, Writes(w, u)', task'[u].state = "runs"
               PROVE  /\ task'[w].state # "leaving"
                      /\ \A S \in SUBSET Tid : w \in S /\ Closed_(S)' => u \in S
    BY DEF Heirs
  <2>1. Writes(w, u) /\ task[u].state = "runs"
    BY <1>1, <1>9 DEF Writes
  <2>2. \A S \in SUBSET Tid : Closed_(S)' => Closed_(S)
    BY <1>1 DEF Closed_
  <2>3. task[w].state # "leaving" /\ \A S \in SUBSET Tid : w \in S /\ Closed_(S) => u \in S
    BY <2>1 DEF Heirs
  <2>4. QED
    BY <1>1, <2>2, <2>3
<1>11. OneWriter'
  <2> SUFFICES ASSUME NEW a \in Tid, NEW u \in Tid, a # u, HasPage(a)', u \in SharedWith(a)',
                      task'[a].page.rw
               PROVE  ~task'[u].page.rw /\ task'[a].parent # u
    BY DEF OneWriter
  <2>1. a # t /\ u # t /\ HasPage(a) /\ u \in SharedWith(a)
    BY <1>9
  <2>2. QED
    BY <1>1, <2>1 DEF OneWriter
<1>12. QED
  BY <1>5, <1>6, <1>7, <1>8, <1>10, <1>11

(***************************************************************************)
(* fork: the child shares what its parent shares, and cannot write to it;  *)
(* whoever can has the parent, and so the child, among its descendants.    *)
(***************************************************************************)
LEMMA ViewFork ==
  ASSUME Types, Conduct, task' \in [Tid -> TaskType], frames' \in MapOf(FRAMES),
         NEW t \in Tid, NEW new \in Tid, ForkDoes(t, new),
         Listed, Mapped, FramesBacked, ParentRuns, Heirs, OneWriter
  PROVE  Listed' /\ Mapped' /\ FramesBacked' /\ ParentRuns' /\ Heirs' /\ OneWriter'
<1> DEFINE stack == task'[new].stack
<1>1. /\ task[t].state = "runs" /\ t # TID_HOO /\ task[new].state = "none" /\ t # new
      /\ \A u \in Tid \ {new} : task'[u] = task[u]
      /\ task'[new].state = "runs" /\ task'[new].parent = t
      /\ task'[new].page.frame = task[t].page.frame /\ ~task'[new].page.rw
      /\ stack \in FrameOf \ frames.set /\ frames'.set = frames.set \cup {stack}
      /\ expired' = expired
  BY DEF ForkDoes
<1>2. /\ \A u \in Tid \ {new} : HasPage(u)' <=> HasPage(u)
      /\ HasPage(new)' <=> HasPage(t)
  <2>1. \A u \in Tid \ {new} : HasPage(u)' <=> HasPage(u)
    BY <1>1 DEF HasPage
  <2>2. HasPage(new)' <=> task'[new].page.frame # INVALID_INDEX
    <3>1. task'[new] \in TaskType
      OBVIOUS
    <3>2. task'[new].page \in PageType
      BY <3>1 DEF TaskType
    <3>3. \A page \in PageType : page # NoPage <=> page.frame # INVALID_INDEX
      BY PageIs
    <3>4. QED
      BY <3>2, <3>3 DEF HasPage
  <2>3. HasPage(t) <=> task[t].page.frame # INVALID_INDEX
    BY PageTypes
  <2>4. QED
    BY <1>1, <2>1, <2>2, <2>3
<1> HIDE DEF stack
<1>3. new # TID_HOO /\ ~HasPage(new)
  <2>1. Bare(new)
    BY <1>1 DEF Mapped
  <2>2. CASE new = TID_HOO
    BY <1>1, <2>2 DEF Conduct
  <2>3. QED
    BY <2>1, <2>2 DEF Bare
<1>4. /\ \A u \in Tid : HasPage(u) => task[u].page.frame # stack
      /\ \A u \in Tid \ {TID_HOO} : task[u].state # "none" => task[u].stack # stack
      /\ task[TID_HOO].stack # stack
  BY <1>1, Backed, Bounds DEF Mapped, Bare
<1>5. Listed'
  <2>1. {u \in Tid : task'[u].state = "expired"} = {u \in Tid : task[u].state = "expired"}
    BY <1>1
  <2>2. QED
    BY <1>1, <2>1 DEF Listed
<1>6. Mapped'
  <2>1. Bare(TID_HOO)' /\ \A u \in Tid : task'[u].state = "none" => Bare(u)'
    BY <1>1, <1>2, <1>3, Bounds DEF Mapped, Bare
  <2>2. \A u \in Tid : task'[u].state = "expired" => ~HasPage(u)'
    BY <1>1, <1>2 DEF Mapped
  <2>3. \A u \in Tid \ {TID_HOO} : task'[u].state # "none" /\ HasPage(u)' =>
          task'[u].page.frame # task'[u].stack
    BY <1>1, <1>2, <1>4 DEF Mapped, stack
  <2>4. QED
    BY <2>1, <2>2, <2>3 DEF Mapped
<1>7. FramesBacked'
  <2> SUFFICES ASSUME NEW a \in Tid \ {TID_HOO}, task'[a].state # "none"
               PROVE  /\ HasPage(a)' => task'[a].page.frame \in frames'.set
                      /\ task'[a].stack \in frames'.set
                      /\ \A u \in Tid \ {a} :
                           /\ task'[u].stack # task'[a].stack
                           /\ HasPage(u)' => task'[u].page.frame # task'[a].stack
    BY DEF FramesBacked
  <2>1. HasPage(a)' => task'[a].page.frame \in frames'.set
    BY <1>1, <1>2, Backed
  <2>2. task'[a].stack \in frames'.set
    BY <1>1, Backed DEF stack
  <2>3. ASSUME NEW u \in Tid \ {a} PROVE task'[u].stack # task'[a].stack
    <3>1. CASE a = new
      <4>1. u = TID_HOO \/ task[u].state # "none" \/ task[u].stack = INVALID_INDEX
        BY DEF Mapped, Bare
      <4>2. task[u].stack # stack
        BY <1>1, <1>4, <4>1, Bounds
      <4>3. QED
        BY <1>1, <3>1, <4>2 DEF stack
    <3>2. CASE a # new /\ u = new
      BY <1>1, <1>4, <3>2 DEF stack
    <3>3. CASE a # new /\ u # new
      BY <1>1, <3>3, Backed
    <3>4. QED
      BY <3>1, <3>2, <3>3
  <2>4. ASSUME NEW u \in Tid \ {a}, HasPage(u)' PROVE task'[u].page.frame # task'[a].stack
    <3>1. PICK v \in Tid : HasPage(v) /\ task'[u].page.frame = task[v].page.frame
      BY <1>1, <1>2, <2>4
    <3>2. CASE a = new
      BY <1>4, <3>1, <3>2 DEF stack
    <3>3. CASE a # new
      BY <1>1, <3>1, <3>3, Backed
    <3>4. QED
      BY <3>2, <3>3
  <2>5. QED
    BY <2>1, <2>2, <2>3, <2>4
<1>8. ParentRuns'
  BY <1>1 DEF ParentRuns
\* Who shares with a task that can write did so before, or is the child.
<1>9. ASSUME NEW w \in Tid, NEW u \in Tid, Writes(w, u)'
      PROVE  /\ w # new /\ HasPage(w) /\ task[w].page.rw
             /\ u # new => Writes(w, u)
             /\ u = new => w = t \/ Writes(w, t)
  <2>1. /\ w # u /\ HasPage(w)' /\ task'[w].page.rw /\ HasPage(u)'
        /\ task'[u].page.frame = task'[w].page.frame
    BY <1>9 DEF Writes, SharedWith, HasPage
  <2>2. w # new /\ HasPage(w) /\ task[w].page.rw
    BY <1>1, <1>2, <2>1
  <2>3. ASSUME u # new PROVE Writes(w, u)
    BY <1>1, <1>2, <2>1, <2>2, <2>3, SharedIs DEF Writes
  <2>4. ASSUME u = new, w # t PROVE Writes(w, t)
    BY <1>1, <1>2, <2>1, <2>2, <2>4, SharedIs DEF Writes
  <2>5. QED
    BY <2>2, <2>3, <2>4
<1>10. Heirs'
  <2> SUFFICES ASSUME NEW w \in Tid, NEW u \in Tid, Writes(w, u)', task'[u].state = "runs"
               PROVE  /\ task'[w].state # "leaving"
                      /\ \A S \in SUBSET Tid : w \in S /\ Closed_(S)' => u \in S
    BY DEF Heirs
  <2>1. ASSUME NEW S \in SUBSET Tid, Closed_(S)' PROVE Closed_(S) /\ (t \in S => new \in S)
    BY <1>1, <2>1 DEF Closed_
  <2>2. CASE u # new
    <3>1. Writes(w, u) /\ task[u].state = "runs" /\ w # new
      BY <1>1, <1>9, <2>2
    <3>2. QED
      BY <1>1, <2>1, <3>1 DEF Heirs
  <2>3. CASE u = new /\ w = t
    BY <1>1, <2>1, <2>3
  <2>4. CASE u = new /\ w # t
    <3>1. Writes(w, t) /\ task[t].state = "runs" /\ w # new
      BY <1>1, <1>9, <2>4
    <3>2. QED
      BY <1>1, <2>1, <2>4, <3>1 DEF Heirs
  <2>5. QED
    BY <2>2, <2>3, <2>4
<1>11. OneWriter'
  <2> SUFFICES ASSUME NEW a \in Tid, NEW u \in Tid, a # u, HasPage(a)', u \in SharedWith(a)',
                      task'[a].page.rw
               PROVE  ~task'[u].page.rw /\ task'[a].parent # u
    BY DEF OneWriter
  <2>0. Writes(a, u)'
    BY DEF Writes
  <2>1. /\ a # new /\ HasPage(a) /\ task[a].page.rw
        /\ u # new => Writes(a, u)
        /\ u = new => a = t \/ Writes(a, t)
    BY <1>9, <2>0
  <2>2. CASE u # new
    BY <1>1, <2>1, <2>2 DEF OneWriter, Writes
  <2>3. CASE u = new
    <3>1. task[a].state = "runs"
      <4>1. a = t \/ task[a].state # "leaving"
        BY <1>1, <2>1, <2>3 DEF Heirs
      <4>2. QED
        BY <1>1, <2>1, <4>1, Backed
    <3>2. a # TID_HOO
      BY <2>1, Backed
    <3>3. task[a].parent # new
      BY <1>1, <3>1, <3>2 DEF ParentRuns
    <3>4. QED
      BY <1>1, <2>1, <2>3, <3>3
  <2>4. QED
    BY <2>2, <2>3
<1>12. QED
  BY <1>5, <1>6, <1>7, <1>8, <1>10, <1>11

(***************************************************************************)
(* The first step of exit: nobody's page or stack changes.  The descendants *)
(* of a task that has no child that runs are itself, so a task that leaves *)
(* shares nothing that it can write to with one that runs.                 *)
(***************************************************************************)
LEMMA ViewClear ==
  ASSUME Types, task' \in [Tid -> TaskType], NEW t \in Tid, ClearDoes(t),
         Listed, Mapped, FramesBacked, ParentRuns, Heirs, OneWriter
  PROVE  Listed' /\ Mapped' /\ FramesBacked' /\ ParentRuns' /\ Heirs' /\ OneWriter'
<1>1. /\ task[t].state = "runs" /\ t # TID_HOO
      /\ \A c \in Tid : task[c].parent = t => task[c].state # "runs"
      /\ \A u \in Tid \ {t} : task'[u].state = task[u].state
      /\ task'[t].state = "leaving"
      /\ \A u \in Tid : task'[u].page = task[u].page /\ task'[u].stack = task[u].stack
                        /\ task'[u].parent = task[u].parent
      /\ frames' = frames /\ expired' = expired
  BY DEF ClearDoes
<1>2. /\ \A u \in Tid : HasPage(u)' <=> HasPage(u)
      /\ \A u \in Tid : SharedWith(u)' = SharedWith(u)
  BY <1>1 DEF HasPage, SharedWith
<1>3. Listed'
  <2>1. {u \in Tid : task'[u].state = "expired"} = {u \in Tid : task[u].state = "expired"}
    BY <1>1
  <2>2. QED
    BY <1>1, <2>1 DEF Listed
<1>4. Mapped'
  BY <1>1, <1>2, Bounds DEF Mapped, Bare
<1>5. FramesBacked'
  BY <1>1, <1>2 DEF FramesBacked
<1>6. ParentRuns'
  <2> SUFFICES ASSUME NEW u \in Tid \ {TID_HOO}, task'[u].state = "runs"
               PROVE  task'[u].parent \in Tid /\ task'[task'[u].parent].state = "runs"
    BY DEF ParentRuns
  <2>1. task[u].state = "runs"
    BY <1>1
  <2>2. /\ task[u].parent \in Tid /\ task[task[u].parent].state = "runs"
        /\ task[u].parent # t
    BY <1>1, <2>1 DEF ParentRuns
  <2>3. QED
    BY <1>1, <2>2
<1>7. Heirs'
  <2> SUFFICES ASSUME NEW w \in Tid, NEW u \in Tid, Writes(w, u)', task'[u].state = "runs"
               PROVE  /\ task'[w].state # "leaving"
                      /\ \A S \in SUBSET Tid : w \in S /\ Closed_(S)' => u \in S
    BY DEF Heirs
  <2>1. Writes(w, u) /\ task[u].state = "runs" /\ u # t /\ w # u
    BY <1>1, <1>2 DEF Writes
  <2>2. task[w].state # "leaving" /\ \A S \in SUBSET Tid : w \in S /\ Closed_(S) => u \in S
    BY <2>1 DEF Heirs
  <2>3. w # t
    <3>1. Closed_({t}) /\ {t} \in SUBSET Tid
      BY <1>1 DEF Closed_
    <3>2. QED
      BY <2>1, <2>2, <3>1
  <2>4. ASSUME NEW S \in SUBSET Tid, w \in S, Closed_(S)' PROVE u \in S
    <3>1. Closed_(S \cup {t})
      <4> SUFFICES ASSUME NEW c \in Tid, task[c].state = "runs", task[c].parent \in S \cup {t}
                   PROVE  c \in S \cup {t}
        BY DEF Closed_
      <4>1. task[c].parent # t
        BY <1>1
      <4>2. c # t => c \in S
        BY <1>1, <2>4, <4>1 DEF Closed_
      <4>3. QED
        BY <4>2
    <3>2. S \cup {t} \in SUBSET Tid
      OBVIOUS
    <3>3. QED
      BY <2>1, <2>2, <2>4, <3>1, <3>2
  <2>5. QED
    BY <1>1, <2>2, <2>3, <2>4
<1>8. OneWriter'
  <2> SUFFICES ASSUME NEW a \in Tid, NEW u \in Tid, a # u, HasPage(a)', u \in SharedWith(a)',
                      task'[a].page.rw
               PROVE  ~task'[u].page.rw /\ task'[a].parent # u
    BY DEF OneWriter
  <2>1. HasPage(a) /\ u \in SharedWith(a) /\ task[a].page.rw
    BY <1>1, <1>2
  <2>2. QED
    BY <1>1, <2>1 DEF OneWriter
<1>9. QED
  BY <1>3, <1>4, <1>5, <1>6, <1>7, <1>8

(***************************************************************************)
(* A step that leaves who runs as it is and after which only some of those *)
(* that had a page have one still.                                         *)
(***************************************************************************)
LEMMA FewerPages ==
  ASSUME \A u \in Tid : task'[u].state = "runs" <=> task[u].state = "runs",
         \A u \in Tid : task'[u].state = "leaving" => task[u].state = "leaving",
         \A u \in Tid : task[u].state = "runs" => task'[u].parent = task[u].parent,
         \A u \in Tid : HasPage(u)' =>
           HasPage(u) /\ task'[u].page = task[u].page /\ task'[u].parent = task[u].parent,
         ParentRuns, Heirs, OneWriter
  PROVE  ParentRuns' /\ Heirs' /\ OneWriter'
<1>1. ParentRuns'
  <2> SUFFICES ASSUME NEW u \in Tid \ {TID_HOO}, task'[u].state = "runs"
               PROVE  task'[u].parent \in Tid /\ task'[task'[u].parent].state = "runs"
    BY DEF ParentRuns
  <2>1. task[u].parent \in Tid /\ task[task[u].parent].state = "runs"
    BY DEF ParentRuns
  <2>2. QED
    BY <2>1
<1>2. ASSUME NEW w \in Tid, NEW u \in Tid, w # u, HasPage(w)', u \in SharedWith(w)'
      PROVE  /\ HasPage(w) /\ u \in SharedWith(w) /\ HasPage(u)'
  <2>1. HasPage(u)' /\ task'[u].page.frame = task'[w].page.frame
    BY <1>2 DEF SharedWith, HasPage
  <2>2. QED
    BY <1>2, <2>1, SharedIs
<1>3. Heirs'
  <2> SUFFICES ASSUME NEW w \in Tid, NEW u \in Tid, Writes(w, u)', task'[u].state = "runs"
               PROVE  /\ task'[w].state # "leaving"
                      /\ \A S \in SUBSET Tid : w \in S /\ Closed_(S)' => u \in S
    BY DEF Heirs
  <2>1. Writes(w, u) /\ task[u].state = "runs"
    BY <1>2 DEF Writes
  <2>2. \A S \in SUBSET Tid : Closed_(S)' => Closed_(S)
    BY DEF Closed_
  <2>3. task[w].state # "leaving" /\ \A S \in SUBSET Tid : w \in S /\ Closed_(S) => u \in S
    BY <2>1 DEF Heirs
  <2>4. QED
    BY <2>2, <2>3
<1>4. OneWriter'
  <2> SUFFICES ASSUME NEW a \in Tid, NEW u \in Tid, a # u, HasPage(a)', u \in SharedWith(a)',
                      task'[a].page.rw
               PROVE  ~task'[u].page.rw /\ task'[a].parent # u
    BY DEF OneWriter
  <2>1. HasPage(a) /\ u \in SharedWith(a) /\ task[a].page.rw /\ HasPage(u)'
    BY <1>2
  <2>2. QED
    BY <2>1 DEF OneWriter
<1>5. QED
  BY <1>1, <1>3, <1>4

(***************************************************************************)
(* The rest of exit: the frame that is released is no page of another task *)
(* and no stack.                                                           *)
(***************************************************************************)
LEMMA ViewLeave ==
  ASSUME Types, Conduct, task' \in [Tid -> TaskType], NEW t \in Tid, LeaveDoes(t),
         Listed, Mapped, FramesBacked, ParentRuns, Heirs, OneWriter
  PROVE  Listed' /\ Mapped' /\ FramesBacked' /\ ParentRuns' /\ Heirs' /\ OneWriter'
<1> DEFINE frame == task[t].page.frame
<1>1. /\ task[t].state = "leaving" /\ SharedWith(t) = {}
      /\ \A u \in Tid \ {t} : task'[u] = task[u]
      /\ task'[t].state = "expired" /\ task'[t].page = NoPage /\ task'[t].stack = task[t].stack
      /\ \A u \in Tid : task'[u].parent = task[u].parent
      /\ frames'.set = frames.set \ {frame} /\ expired' = Append(expired, t)
  BY DEF LeaveDoes
<1>2. t # TID_HOO
  BY <1>1 DEF Conduct
<1>3. ~HasPage(t)' /\ \A u \in Tid \ {t} : HasPage(u)' <=> HasPage(u)
  BY <1>1 DEF HasPage
<1> HIDE DEF frame
<1>4. \A u \in Tid \ {t} : HasPage(u) => task[u].page.frame # frame
  BY <1>1, SharedIs DEF frame
<1>5. \A u \in Tid \ {TID_HOO} : task[u].state # "none" => task[u].stack # frame
  <2> SUFFICES ASSUME NEW u \in Tid \ {TID_HOO}, task[u].state # "none"
               PROVE  task[u].stack # frame
    OBVIOUS
  <2>1. CASE HasPage(t)
    BY <2>1, Backed DEF frame
  <2>2. CASE ~HasPage(t)
    <3>1. task[u].stack \in frames.set /\ frames.set \subseteq FrameOf
      BY Backed DEF Types, MapOf, FrameOf
    <3>2. frame = INVALID_INDEX
      BY <2>2, PageTypes DEF frame
    <3>3. QED
      BY <3>1, <3>2, Bounds
  <2>3. QED
    BY <2>1, <2>2
<1>6. Listed'
  <2>1. expired \in Seq(Tid) /\ t \notin Range(expired) /\ IsInjective(expired)
    BY <1>1 DEF Listed, Types
  <2>2. Range(Append(expired, t)) = Range(expired) \cup {t} /\ IsInjective(Append(expired, t))
    BY <2>1, PushPlace
  <2>3. {u \in Tid : task'[u].state = "expired"}
          = {u \in Tid : task[u].state = "expired"} \cup {t}
    BY <1>1
  <2>4. Range(expired') = Range(expired) \cup {t} /\ IsInjective(expired')
    BY <1>1, <2>2
  <2>5. QED
    BY <2>3, <2>4 DEF Listed
<1>7. Mapped'
  <2>1. Bare(TID_HOO)' /\ \A u \in Tid : task'[u].state = "none" => Bare(u)'
    BY <1>1, <1>2, <1>3, Bounds DEF Mapped, Bare
  <2>2. \A u \in Tid : task'[u].state = "expired" => ~HasPage(u)'
    BY <1>1, <1>3 DEF Mapped
  <2>3. \A u \in Tid \ {TID_HOO} : task'[u].state # "none" /\ HasPage(u)' =>
          task'[u].page.frame # task'[u].stack
    BY <1>1, <1>3 DEF Mapped
  <2>4. QED
    BY <2>1, <2>2, <2>3 DEF Mapped
<1>8. FramesBacked'
  <2> SUFFICES ASSUME NEW a \in Tid \ {TID_HOO}, task'[a].state # "none"
               PROVE  /\ HasPage(a)' => task'[a].page.frame \in frames'.set
                      /\ task'[a].stack \in frames'.set
                      /\ \A u \in Tid \ {a} :
                           /\ task'[u].stack # task'[a].stack
                           /\ HasPage(u)' => task'[u].page.frame # task'[a].stack
    BY DEF FramesBacked
  <2>0. task[a].state # "none" /\ \A u \in Tid : task'[u].stack = task[u].stack
    BY <1>1
  <2>1. HasPage(a)' => task'[a].page.frame \in frames'.set
    BY <1>1, <1>3, <1>4, Backed
  <2>2. task'[a].stack \in frames'.set
    BY <1>1, <1>5, <2>0, Backed
  <2>3. ASSUME NEW u \in Tid \ {a}
        PROVE  /\ task'[u].stack # task'[a].stack
               /\ HasPage(u)' => task'[u].page.frame # task'[a].stack
    BY <1>1, <1>3, <2>0, Backed
  <2>4. QED
    BY <2>1, <2>2, <2>3
<1>9. ParentRuns' /\ Heirs' /\ OneWriter'
  <2>1. \A u \in Tid : task'[u].state = "runs" <=> task[u].state = "runs"
    BY <1>1
  <2>2. \A u \in Tid : task'[u].state = "leaving" => task[u].state = "leaving"
    BY <1>1
  <2>3. \A u \in Tid : HasPage(u)' =>
           HasPage(u) /\ task'[u].page = task[u].page /\ task'[u].parent = task[u].parent
    BY <1>1, <1>3
  <2>4. QED
    BY <1>1, <2>1, <2>2, <2>3, FewerPages
<1>10. QED
  BY <1>6, <1>7, <1>8, <1>9

(***************************************************************************)
(* kill: who is taken from the list has no page, and its stack is that of  *)
(* no other task.                                                          *)
(***************************************************************************)
LEMMA ViewKill ==
  ASSUME Types, Conduct, task' \in [Tid -> TaskType], NEW dead, KillDoes(dead),
         Listed, Mapped, FramesBacked, ParentRuns, Heirs, OneWriter
  PROVE  Listed' /\ Mapped' /\ FramesBacked' /\ ParentRuns' /\ Heirs' /\ OneWriter'
<1>1. /\ dead \subseteq Range(expired)
      /\ \A u \in Tid \ dead : task'[u] = task[u]
      /\ \A u \in dead : task'[u].state = "none" /\ task'[u].page = NoPage
                         /\ task'[u].stack = INVALID_INDEX
      /\ frames'.set = frames.set \ {task[u].stack : u \in dead}
      /\ Range(expired') = Range(expired) \ dead /\ IsInjective(expired')
  BY DEF KillDoes
<1>2. /\ dead \subseteq Tid /\ TID_HOO \notin dead
      /\ \A u \in dead : task[u].state = "expired"
  BY <1>1 DEF Listed, Conduct
<1>3. /\ \A u \in dead : ~HasPage(u)' /\ ~HasPage(u)
      /\ \A u \in Tid \ dead : HasPage(u)' <=> HasPage(u)
  BY <1>1, <1>2 DEF HasPage, Mapped
<1>4. Listed'
  <2>1. {u \in Tid : task'[u].state = "expired"}
          = {u \in Tid : task[u].state = "expired"} \ dead
    BY <1>1, <1>2
  <2>2. QED
    BY <1>1, <2>1 DEF Listed
<1>5. Mapped'
  <2>1. Bare(TID_HOO)'
    BY <1>1, <1>2, <1>3, Bounds DEF Mapped, Bare
  <2>2. \A u \in Tid : task'[u].state = "none" => Bare(u)'
    BY <1>1, <1>3 DEF Mapped, Bare
  <2>3. \A u \in Tid : task'[u].state = "expired" => ~HasPage(u)'
    BY <1>1, <1>3 DEF Mapped
  <2>4. \A u \in Tid \ {TID_HOO} : task'[u].state # "none" /\ HasPage(u)' =>
          task'[u].page.frame # task'[u].stack
    BY <1>1, <1>3 DEF Mapped
  <2>5. QED
    BY <2>1, <2>2, <2>3, <2>4 DEF Mapped
<1>6. FramesBacked'
  <2> SUFFICES ASSUME NEW a \in Tid \ {TID_HOO}, task'[a].state # "none"
               PROVE  /\ HasPage(a)' => task'[a].page.frame \in frames'.set
                      /\ task'[a].stack \in frames'.set
                      /\ \A u \in Tid \ {a} :
                           /\ task'[u].stack # task'[a].stack
                           /\ HasPage(u)' => task'[u].page.frame # task'[a].stack
    BY DEF FramesBacked
  <2>1. a \notin dead /\ task'[a] = task[a] /\ task[a].state # "none"
    BY <1>1
  <2>2. ASSUME NEW u \in dead
        PROVE  /\ task[u].stack # task[a].stack
               /\ HasPage(a) => task[a].page.frame # task[u].stack
    BY <1>2, <2>1, Backed
  <2>3. HasPage(a)' => task'[a].page.frame \in frames'.set
    BY <1>1, <1>3, <2>1, <2>2, Backed
  <2>4. task'[a].stack \in frames'.set
    BY <1>1, <2>1, <2>2, Backed
  <2>5. ASSUME NEW u \in Tid \ {a}
        PROVE  /\ task'[u].stack # task'[a].stack
               /\ HasPage(u)' => task'[u].page.frame # task'[a].stack
    <3>1. CASE u \in dead
      <4>1. task[a].stack \in FrameOf
        BY <2>1, Backed DEF Types, MapOf, FrameOf
      <4>2. QED
        BY <1>1, <1>3, <2>1, <3>1, <4>1, Bounds
    <3>2. CASE u \notin dead
      BY <1>1, <1>3, <2>1, <3>2, Backed
    <3>3. QED
      BY <3>1, <3>2
  <2>6. QED
    BY <2>3, <2>4, <2>5
<1>7. ParentRuns' /\ Heirs' /\ OneWriter'
  <2>1. \A u \in Tid : task'[u].state = "runs" <=> task[u].state = "runs"
    BY <1>1, <1>2
  <2>2. \A u \in Tid : task'[u].state = "leaving" => task[u].state = "leaving"
    BY <1>1, <1>2
  <2>3. \A u \in Tid : HasPage(u)' =>
           HasPage(u) /\ task'[u].page = task[u].page /\ task'[u].parent = task[u].parent
    BY <1>1, <1>3
  <2>4. \A u \in Tid : task[u].state = "runs" => task'[u].parent = task[u].parent
    BY <1>1, <1>2
  <2>5. QED
    BY <2>1, <2>2, <2>3, <2>4, FewerPages
<1>8. QED
  BY <1>4, <1>5, <1>6, <1>7
-----------------------------------------------------------------------------
(***************************************************************************)
(* A step that raises and lowers no counter, and after which who runs has  *)
(* the descriptors that it had, or none.                                   *)
(***************************************************************************)
LEMMA OwnKept ==
  ASSUME OwnFile, table' = table,
         \A u \in Tid : task'[u].state = "runs" =>
           DOMAIN task'[u].opened = {} \/ (task[u].state = "runs" /\ KeepsFiles(u))
  PROVE  OwnFile'
<1>1. OwnEach /\ OwnApart
  BY OwnFileIs
<1>2. \A u \in Tid : KeepsFiles(u) =>
        /\ task'[u].opened = task[u].opened
        /\ \A fd : Behind(u, fd)' = Behind(u, fd)
  BY DEF KeepsFiles, Behind, fmngr_files_get
<1>3. OwnEach'
  <2> SUFFICES ASSUME NEW t \in Tid, task'[t].state = "runs", NEW fd \in DOMAIN task'[t].opened
               PROVE  /\ table'[Behind(t, fd)'].ref > 0
                      /\ table'[Behind(t, fd)'].inode = task'[t].opened[fd]
    BY DEF OwnEach
  <2>1. task[t].state = "runs" /\ KeepsFiles(t)
    OBVIOUS
  <2>2. QED
    BY <1>1, <1>2, <2>1 DEF OwnEach
<1>4. OwnApart'
  <2> SUFFICES ASSUME NEW t \in Tid, NEW u \in Tid, task'[t].state = "runs",
                      task'[u].state = "runs", NEW fd \in DOMAIN task'[t].opened,
                      NEW g \in DOMAIN task'[u].opened, Behind(t, fd)' = Behind(u, g)'
               PROVE  t = u /\ fd = g
    BY DEF OwnApart
  <2>1. task[t].state = "runs" /\ KeepsFiles(t) /\ task[u].state = "runs" /\ KeepsFiles(u)
    OBVIOUS
  <2>2. QED
    BY <1>1, <1>2, <2>1 DEF OwnApart
<1>5. OwnEach' /\ OwnApart' => OwnFile'
  BY OwnFileIs, PTL
<1>6. QED
  BY <1>3, <1>4, <1>5

(***************************************************************************)
(* OpenTake: the slot is counted as in use, so it was behind no descriptor. *)
(***************************************************************************)
LEMMA OwnTake ==
  ASSUME Types, OwnFile, NEW t \in Tid, NEW fd \in Fd, NEW slot \in Slot, NEW inode \in Inode,
         TakeDoes(t, fd, slot, inode)
  PROVE  OwnFile'
<1>1. OwnEach /\ OwnApart
  BY OwnFileIs
<1>2. /\ task[t].state = "runs"
      /\ \A u \in Tid \ {t} : task'[u] = task[u]
      /\ fd \notin DOMAIN task[t].opened /\ table[slot].ref = 0
      /\ DOMAIN task'[t].opened = DOMAIN task[t].opened \cup {fd}
      /\ task'[t].opened[fd] = inode
      /\ \A g \in DOMAIN task[t].opened : task'[t].opened[g] = task[t].opened[g]
      /\ table'[slot].ref > 0 /\ table'[slot].inode = inode
      /\ \A s \in Slot : s # slot => table'[s] = table[s]
  BY DEF TakeDoes
<1>3. /\ Behind(t, fd)' = slot
      /\ \A g \in Fd : g # fd => Behind(t, g)' = Behind(t, g)
      /\ \A u \in Tid \ {t} : \A g : Behind(u, g)' = Behind(u, g)
  BY DEF TakeDoes, Behind, fmngr_files_get
<1>4. ASSUME NEW u \in Tid, task[u].state = "runs", NEW g \in DOMAIN task[u].opened
      PROVE  /\ g \in Fd /\ Behind(u, g) \in Slot /\ Behind(u, g) # slot
             /\ table'[Behind(u, g)] = table[Behind(u, g)]
  <2>1. g \in Fd /\ Behind(u, g) \in Slot
    BY BehindIsSlot
  <2>2. table[Behind(u, g)].ref > 0
    BY <1>1, <1>4 DEF OwnEach
  <2>3. Behind(u, g) # slot
    BY <1>2, <2>2
  <2>4. QED
    BY <1>2, <2>1, <2>3
\* A descriptor after the step is the new one, or one from before it.
<1>5. ASSUME NEW u \in Tid, task'[u].state = "runs", NEW g \in DOMAIN task'[u].opened
      PROVE  \/ u = t /\ g = fd
             \/ /\ task[u].state = "runs" /\ g \in DOMAIN task[u].opened /\ ~(u = t /\ g = fd)
                /\ Behind(u, g)' = Behind(u, g) /\ task'[u].opened[g] = task[u].opened[g]
  <2>1. CASE u = t
    BY <1>2, <1>3, <1>4, <1>5, <2>1
  <2>2. CASE u # t
    BY <1>2, <1>3, <1>5, <2>2
  <2>3. QED
    BY <2>1, <2>2
<1>6. OwnEach'
  <2> SUFFICES ASSUME NEW u \in Tid, task'[u].state = "runs", NEW g \in DOMAIN task'[u].opened
               PROVE  /\ table'[Behind(u, g)'].ref > 0
                      /\ table'[Behind(u, g)'].inode = task'[u].opened[g]
    BY DEF OwnEach
  <2>1. CASE u = t /\ g = fd
    BY <1>2, <1>3, <2>1
  <2>2. CASE ~(u = t /\ g = fd)
    BY <1>1, <1>4, <1>5, <2>2 DEF OwnEach
  <2>3. QED
    BY <2>1, <2>2
<1>7. OwnApart'
  <2> SUFFICES ASSUME NEW u \in Tid, NEW v \in Tid, task'[u].state = "runs",
                      task'[v].state = "runs", NEW f \in DOMAIN task'[u].opened,
                      NEW g \in DOMAIN task'[v].opened, Behind(u, f)' = Behind(v, g)'
               PROVE  u = v /\ f = g
    BY DEF OwnApart
  <2>1. CASE u = t /\ f = fd
    BY <1>3, <1>4, <1>5, <2>1, ZenonT(30)
  <2>2. CASE v = t /\ g = fd
    BY <1>3, <1>4, <1>5, <2>2
  <2>3. CASE ~(u = t /\ f = fd) /\ ~(v = t /\ g = fd)
    BY <1>1, <1>5, <2>3 DEF OwnApart
  <2>4. QED
    BY <2>1, <2>2, <2>3
<1>8. OwnEach' /\ OwnApart' => OwnFile'
  BY OwnFileIs, PTL
<1>9. QED
  BY <1>6, <1>7, <1>8

(***************************************************************************)
(* files_close: the slot was behind no other descriptor.                   *)
(***************************************************************************)
LEMMA OwnClose ==
  ASSUME Types, OwnFile, NEW t \in Tid, NEW fd \in Fd, CloseDoes(t, fd)
  PROVE  OwnFile'
<1>1. OwnEach /\ OwnApart
  BY OwnFileIs
<1>2. /\ task[t].state = "runs" /\ fd \in DOMAIN task[t].opened
      /\ \A u \in Tid \ {t} : task'[u] = task[u]
      /\ DOMAIN task'[t].opened = DOMAIN task[t].opened \ {fd}
      /\ \A g \in DOMAIN task'[t].opened : task'[t].opened[g] = task[t].opened[g]
      /\ \A s \in Slot : s # Behind(t, fd) => table'[s] = table[s]
  BY DEF CloseDoes
<1>3. \A u \in Tid : \A g : Behind(u, g)' = Behind(u, g)
  BY DEF CloseDoes, Behind, fmngr_files_get
<1>4. ASSUME NEW u \in Tid, task'[u].state = "runs", NEW g \in DOMAIN task'[u].opened
      PROVE  /\ task[u].state = "runs" /\ g \in DOMAIN task[u].opened /\ ~(u = t /\ g = fd)
             /\ task'[u].opened[g] = task[u].opened[g]
  <2>1. CASE u = t
    BY <1>2, <1>4, <2>1
  <2>2. CASE u # t
    BY <1>2, <1>4, <2>2
  <2>3. QED
    BY <2>1, <2>2
<1>5. OwnEach'
  <2> SUFFICES ASSUME NEW u \in Tid, task'[u].state = "runs", NEW g \in DOMAIN task'[u].opened
               PROVE  /\ table'[Behind(u, g)'].ref > 0
                      /\ table'[Behind(u, g)'].inode = task'[u].opened[g]
    BY DEF OwnEach
  <2>1. task[u].state = "runs" /\ g \in DOMAIN task[u].opened /\ ~(u = t /\ g = fd)
    BY <1>4
  <2>2. Behind(u, g) \in Slot /\ Behind(u, g) # Behind(t, fd)
    BY <1>1, <1>2, <2>1, BehindIsSlot DEF OwnApart
  <2>3. table[Behind(u, g)].ref > 0 /\ table[Behind(u, g)].inode = task[u].opened[g]
    BY <1>1, <2>1 DEF OwnEach
  <2>4. QED
    BY <1>2, <1>3, <1>4, <2>2, <2>3
<1>6. OwnApart'
  <2> SUFFICES ASSUME NEW u \in Tid, NEW v \in Tid, task'[u].state = "runs",
                      task'[v].state = "runs", NEW f \in DOMAIN task'[u].opened,
                      NEW g \in DOMAIN task'[v].opened, Behind(u, f)' = Behind(v, g)'
               PROVE  u = v /\ f = g
    BY DEF OwnApart
  <2>1. QED
    BY <1>1, <1>3, <1>4 DEF OwnApart
<1>7. OwnEach' /\ OwnApart' => OwnFile'
  BY OwnFileIs, PTL
<1>8. QED
  BY <1>5, <1>6, <1>7

(***************************************************************************)
(* How far a bit is from the start of a scan.                              *)
(***************************************************************************)
LEMMA DistanceIs ==
  ASSUME NEW n \in Nat \ {0}, NEW a \in 0..(n - 1), NEW p \in 0..(n - 1)
  PROVE  (a - p) % n = IF a >= p THEN a - p ELSE a - p + n
OBVIOUS

(***************************************************************************)
(* Behind the bit b a scan meets the bits in the order in which it met     *)
(* them from p, and b last.                                                *)
(***************************************************************************)
Turned(n, a, b, da, db, dda, ddb) ==
  /\ da \in Nat /\ db \in Nat /\ dda \in 0..(n - 1) /\ ddb = n - 1
  /\ a # b => dda < n - 1
  /\ a # b /\ db <= da => dda = da - db - 1

\* The distances of a and b before and after.
LEMMA ScanTurns ==
  ASSUME NEW n \in Nat \ {0}, NEW p \in 0..(n - 1), NEW b \in 0..(n - 1), NEW a \in 0..(n - 1),
         NEW q, q = (b + 1) % n
  PROVE  Turned(n, a, b, (a - p) % n, (b - p) % n, (a - q) % n, (b - q) % n)
<1>1. q = IF b + 1 = n THEN 0 ELSE b + 1
  OBVIOUS
<1>2. q \in 0..(n - 1)
  BY <1>1
<1> DEFINE ap == (a - p) % n
           bp == (b - p) % n
           aq == (a - q) % n
           bq == (b - q) % n
<1>3. /\ ap = IF a >= p THEN a - p ELSE a - p + n
      /\ bp = IF b >= p THEN b - p ELSE b - p + n
  BY DistanceIs
<1>4. /\ aq = IF a >= q THEN a - q ELSE a - q + n
      /\ bq = IF b >= q THEN b - q ELSE b - q + n
  BY <1>2, DistanceIs
<1> HIDE DEF ap, bp, aq, bq
<1>5. Turned(n, a, b, ap, bp, aq, bq)
  BY <1>1, <1>3, <1>4 DEF Turned
<1>6. QED
  BY <1>5 DEF ap, bp, aq, bq

(***************************************************************************)
(* thread_tid_alloc: the tid that is given is now the farthest, and all    *)
(* others are as much nearer as it was.                                    *)
(***************************************************************************)
LEMMA NearFork ==
  ASSUME Types, Nearer, tids' \in MapOf(MAX_TASKS_AMOUNT),
         NEW t \in Tid, NEW new \in Tid, ForkDoes(t, new)
  PROVE  Nearer'
<1>1. /\ MAX_TASKS_AMOUNT \in Nat \ {0} /\ Tid = 0..(MAX_TASKS_AMOUNT - 1)
      /\ tids.prev \in 0..(MAX_TASKS_AMOUNT - 1)
      /\ tids'.set = tids.set \cup {new} /\ tids'.prev = (new + 1) % MAX_TASKS_AMOUNT
      /\ \A u \in Tid \ tids.set : Distance(new) <= Distance(u)
      /\ unused' = Given(new)
  BY Bounds DEF Types, MapOf, Tid, ForkDoes
<1>2. ASSUME NEW u \in Tid
      PROVE  /\ Distance(u) \in Nat /\ Distance(u)' \in 0..(MAX_TASKS_AMOUNT - 1)
             /\ Distance(new)' = MAX_TASKS_AMOUNT - 1
             /\ u # new => Distance(u)' < MAX_TASKS_AMOUNT - 1
             /\ u # new /\ Distance(new) <= Distance(u) =>
                  Distance(u)' = Distance(u) - Distance(new) - 1
  <2>1. /\ u \in 0..(MAX_TASKS_AMOUNT - 1) /\ new \in 0..(MAX_TASKS_AMOUNT - 1)
        /\ MAX_TASKS_AMOUNT \in Nat \ {0} /\ tids.prev \in 0..(MAX_TASKS_AMOUNT - 1)
        /\ tids'.prev = (new + 1) % MAX_TASKS_AMOUNT
    BY <1>1
  <2>2. Turned(MAX_TASKS_AMOUNT, u, new,
               (u - tids.prev) % MAX_TASKS_AMOUNT, (new - tids.prev) % MAX_TASKS_AMOUNT,
               (u - tids'.prev) % MAX_TASKS_AMOUNT, (new - tids'.prev) % MAX_TASKS_AMOUNT)
    BY <2>1, ScanTurns
  <2>3. Turned(MAX_TASKS_AMOUNT, u, new, Distance(u), Distance(new), Distance(u)', Distance(new)')
    BY <2>2 DEF Distance
  <2>4. QED
    BY <2>3 DEF Turned
<1> SUFFICES ASSUME NEW a \in Tid, NEW u \in unused'[a]
             PROVE  u \notin tids'.set /\ Distance(u)' < Distance(a)'
  BY DEF Nearer
<1>9. CASE a = new
  <2>1. u \in Tid \ (tids.set \cup {new})
    BY <1>1, <1>9 DEF Given
  <2>2. QED
    BY <1>1, <1>2, <1>9, <2>1
<1>10. CASE a # new
  <2>1. u \in unused[a] /\ u # new
    BY <1>1, <1>10 DEF Given
  <2>2. u \in Tid /\ u \notin tids.set /\ Distance(u) < Distance(a)
    BY <2>1 DEF Nearer, Types
  <2>3. /\ Distance(u) \in Nat /\ Distance(a) \in Nat /\ Distance(new) \in Nat
        /\ Distance(new) <= Distance(u)
    BY <1>1, <1>2, <2>2
  <2>4. Distance(new) <= Distance(a)
    BY <2>2, <2>3
  <2>5. /\ Distance(u)' = Distance(u) - Distance(new) - 1
        /\ Distance(a)' = Distance(a) - Distance(new) - 1
    BY <1>2, <1>10, <2>1, <2>2, <2>3, <2>4, Zenon
  <2>6. Distance(u)' < Distance(a)'
    BY <2>2, <2>3, <2>5
  <2>7. QED
    BY <1>1, <2>1, <2>2, <2>6
<1>11. QED
  BY <1>9, <1>10

(***************************************************************************)
(* A step that gives no tid.                                               *)
(***************************************************************************)
LEMMA NearKept ==
  ASSUME Nearer, tids'.set \subseteq tids.set, tids'.prev = tids.prev, unused' = unused
  PROVE  Nearer'
BY DEF Nearer, Distance

(***************************************************************************)
(* What is nearest to the scan has no other that was free ever since.      *)
(***************************************************************************)
LEMMA NearestIsLast ==
  ASSUME Types, Nearer
  PROVE  ReusedLast
<1> SUFFICES ASSUME ~Exhausted(tids), NEW u \in unused[FirstFree(tids)] PROVE FALSE
  BY DEF ReusedLast
<1> DEFINE new == FirstFree(tids)
<1>1. /\ new \in Tid \ tids.set
      /\ \A v \in Tid \ tids.set : Distance(new) <= Distance(v)
  BY ScanOfMap, Bounds DEF Types, Tid, Distance
<1>2. u \in Tid
  BY <1>1 DEF Types
<1>3. u \notin tids.set /\ Distance(u) < Distance(new)
  BY <1>1 DEF Nearer
<1> HIDE DEF new
<1>4. /\ MAX_TASKS_AMOUNT \in Nat \ {0} /\ Tid = 0..(MAX_TASKS_AMOUNT - 1)
      /\ tids.prev \in 0..(MAX_TASKS_AMOUNT - 1)
  BY Bounds DEF Types, MapOf, Tid
<1>5. Distance(u) \in Int /\ Distance(new) \in Int
  BY <1>1, <1>2, <1>4 DEF Distance
<1>6. QED
  BY <1>1, <1>2, <1>3, <1>5
-----------------------------------------------------------------------------
(***************************************************************************)
(* The first descriptor that a new manager gives is 3.                     *)
(***************************************************************************)
LEMMA FirstIsThree == fmngr_alloc(NewManager) = 3 /\ ~Exhausted(NewManager.fd_set)
<1> DEFINE set == NewManager.fd_set
<1>1. /\ set \in [bits : {MAX_FILES_PER_TASK}, set : {Std}, prev : {0}]
      /\ set.bits = MAX_FILES_PER_TASK /\ set.set = Std /\ set.prev = 0
  <2>1. bitmap_init(MAX_FILES_PER_TASK) \in [bits : {MAX_FILES_PER_TASK}, set : {{}}, prev : {0}]
    BY DEF bitmap_init
  <2>2. set \in [bits : {MAX_FILES_PER_TASK}, set : {Std}, prev : {0}]
    BY <2>1 DEF NewManager
  <2>3. QED
    BY <2>2
<1> HIDE DEF set
<1>2. /\ MAX_FILES_PER_TASK \in Nat \ {0} /\ MAX_FILES_PER_TASK > 3
      /\ 3 \in 0..(MAX_FILES_PER_TASK - 1) /\ 3 \notin Std /\ 0 \in 0..(MAX_FILES_PER_TASK - 1)
  BY FdAssumption, Bounds DEF Std
<1>3. ~Exhausted(set)
  BY <1>1, <1>2 DEF Exhausted
<1>4. set \in MapOf(MAX_FILES_PER_TASK)
  BY <1>1, <1>2, Bounds DEF MapOf, Fd
<1>5. /\ FirstFree(set) \in (0..(MAX_FILES_PER_TASK - 1)) \ Std
      /\ (FirstFree(set) - 0) % MAX_FILES_PER_TASK <= (3 - 0) % MAX_FILES_PER_TASK
  BY <1>1, <1>2, <1>3, <1>4, ScanOfMap
<1>6. /\ (FirstFree(set) - 0) % MAX_FILES_PER_TASK = FirstFree(set)
      /\ (3 - 0) % MAX_FILES_PER_TASK = 3
  BY <1>2, <1>5
<1>7. FirstFree(set) = 3
  BY <1>5, <1>6 DEF Std
<1>8. QED
  BY <1>3, <1>7 DEF fmngr_alloc, set

(***************************************************************************)
(* hoo and the shell, when the shell has been started.                     *)
(***************************************************************************)
LEMMA FirstTasks ==
  /\ Hoo \in TaskType /\ Shell \in TaskType
  /\ Hoo.state = "runs" /\ Hoo.call = User /\ Hoo.cwd \in Dir /\ Hoo.page = NoPage
  /\ Hoo.stack = INVALID_INDEX
  /\ Shell.state = "runs" /\ Shell.call = User /\ Shell.cwd \in Dir /\ Shell.parent = TID_HOO
  /\ Shell.page.frame = 1 /\ Shell.stack = 0
  /\ DOMAIN Hoo.opened = {3} /\ Hoo.opened[3] = Log /\ fmngr_files_get(Hoo.fmngr, 3) = 0
  /\ DOMAIN Shell.opened = {3} /\ Shell.opened[3] = Sh /\ fmngr_files_get(Shell.fmngr, 3) = 1
  /\ NoTask.state = "none" /\ NoTask.call = User /\ NoTask.page = NoPage
  /\ NoTask.stack = INVALID_INDEX
<1> DEFINE fm(slot) == Installed(NewManager, slot)
           op(inode) == [fd \in {3} |-> inode]
<1>1. ASSUME NEW slot \in Slot
      PROVE  /\ fm(slot) \in [fd_set : FdSet, files : [Fd -> Slot]]
             /\ fmngr_files_get(fm(slot), 3) = slot
  BY NoTaskIs, FirstIsThree, InstalledIs
<1>2. 0 \in Slot /\ 1 \in Slot /\ 0 \in FrameOf /\ 1 \in FrameOf /\ TID_HOO \in Tid
  BY Bounds
<1>3. ASSUME NEW inode \in Inode
      PROVE  /\ op(inode) \in UNION {[D -> Inode] : D \in SUBSET (Fd \ Std)}
             /\ DOMAIN op(inode) = {3} /\ op(inode)[3] = inode
  <2>1. op(inode) \in [{3} -> Inode] /\ {3} \in SUBSET (Fd \ Std)
    BY Bounds
  <2>2. QED
    BY <2>1
<1>4. Log \in Inode /\ Sh \in Inode
  BY ThreadsAssumption
<1>5. RootPath \in Dir
  BY CurdirAssumption
<1>6. /\ NoTask \in TaskType
      /\ NoTask.state = "none" /\ NoTask.call = User /\ NoTask.page = NoPage
      /\ NoTask.stack = INVALID_INDEX /\ NoTask.fmngr = NewManager
  BY NoTaskIs DEF NoTask
<1> HIDE DEF fm, op
<1>7. /\ Hoo = [NoTask EXCEPT !.state = "runs", !.cwd = RootPath, !.fmngr = fm(0),
                              !.opened = op(Log)]
      /\ Shell = [NoTask EXCEPT !.state = "runs", !.parent = TID_HOO, !.cwd = RootPath,
                                !.fmngr = fm(1), !.opened = op(Sh), !.stack = 0,
                                !.page = [frame |-> 1, rw |-> TRUE]]
  BY <1>6 DEF Hoo, Shell, fm, op
<1>8. /\ Hoo \in TaskType
      /\ Hoo.state = "runs" /\ Hoo.call = User /\ Hoo.cwd = RootPath /\ Hoo.page = NoPage
      /\ Hoo.stack = INVALID_INDEX /\ Hoo.opened = op(Log) /\ Hoo.fmngr = fm(0)
  <2> DEFINE O == UNION {[D -> Inode] : D \in SUBSET (Fd \ Std)}
             M == [fd_set : FdSet, files : [Fd -> Slot]]
             P == Tid \cup {INVALID_INDEX}
             C == Dir \cup {curdir_init}
             K == FrameOf \cup {INVALID_INDEX}
             S == {"none", "runs", "leaving", "expired"}
  <2>1. TaskType = [state : S, parent : P, cwd : C, fmngr : M, call : CallType, opened : O,
                    page : PageType, stack : K]
    BY DEF TaskType
  <2>2. "runs" \in S /\ RootPath \in C /\ fm(0) \in M /\ op(Log) \in O
    BY <1>1, <1>2, <1>3, <1>4, <1>5
  <2> HIDE DEF O, M, P, C, K, S
  <2>3. QED
    BY <1>6, <1>7, <2>1, <2>2
<1>9. /\ Shell \in TaskType
      /\ Shell.state = "runs" /\ Shell.call = User /\ Shell.cwd = RootPath
      /\ Shell.parent = TID_HOO /\ Shell.page = [frame |-> 1, rw |-> TRUE]
      /\ Shell.stack = 0 /\ Shell.opened = op(Sh) /\ Shell.fmngr = fm(1)
  <2> DEFINE O == UNION {[D -> Inode] : D \in SUBSET (Fd \ Std)}
             M == [fd_set : FdSet, files : [Fd -> Slot]]
             P == Tid \cup {INVALID_INDEX}
             C == Dir \cup {curdir_init}
             K == FrameOf \cup {INVALID_INDEX}
             S == {"none", "runs", "leaving", "expired"}
             page == [frame |-> 1, rw |-> TRUE]
  <2>1. TaskType = [state : S, parent : P, cwd : C, fmngr : M, call : CallType, opened : O,
                    page : PageType, stack : K]
    BY DEF TaskType
  <2>2. /\ "runs" \in S /\ RootPath \in C /\ fm(1) \in M /\ op(Sh) \in O /\ TID_HOO \in P
        /\ 0 \in K /\ page \in PageType
    BY <1>1, <1>2, <1>3, <1>4, <1>5 DEF PageType
  <2> HIDE DEF O, M, P, C, K, S, page
  <2>3. Shell = [NoTask EXCEPT !.state = "runs", !.parent = TID_HOO, !.cwd = RootPath,
                                !.fmngr = fm(1), !.opened = op(Sh), !.stack = 0, !.page = page]
    BY <1>7 DEF page
  <2>4. /\ Shell \in TaskType
        /\ Shell.state = "runs" /\ Shell.call = User /\ Shell.cwd = RootPath
        /\ Shell.parent = TID_HOO /\ Shell.page = page
        /\ Shell.stack = 0 /\ Shell.opened = op(Sh) /\ Shell.fmngr = fm(1)
    BY <1>6, <2>1, <2>2, <2>3
  <2>5. QED
    BY <2>4 DEF page
<1>10. Shell.page.frame = 1
  BY <1>9
<1>11. QED
  BY <1>1, <1>2, <1>3, <1>4, <1>5, <1>6, <1>8, <1>9, <1>10

(***************************************************************************)
(* The invariant holds at first.                                           *)
(***************************************************************************)
LEMMA InitIInv == Init => IInv
<1> SUFFICES ASSUME Init PROVE IInv
  OBVIOUS
<1>1. /\ tids = [bits |-> MAX_TASKS_AMOUNT, set |-> {TID_HOO, TidShell}, prev |-> 2]
      /\ frames = [bits |-> FRAMES, set |-> {0, 1}, prev |-> 2]
      /\ table = [slot \in Slot |->
           [ref |-> IF slot \in {0, 1} THEN 1 ELSE 0, inode |-> IF slot = 1 THEN Sh ELSE Log]]
      /\ expired = <<>> /\ unused = [t \in Tid |-> {}] /\ halt = "no"
      /\ task = [t \in Tid |-> IF t = TID_HOO THEN Hoo ELSE IF t = TidShell THEN Shell ELSE NoTask]
  BY DEF Init
<1>2. /\ task[TID_HOO] = Hoo /\ task[TidShell] = Shell
      /\ \A t \in Tid \ {TID_HOO, TidShell} : task[t] = NoTask
  BY <1>1, Bounds
<1>3. Types
  <2>1. task \in [Tid -> TaskType]
    BY <1>1, FirstTasks, NoTaskIs
  <2>2. tids \in MapOf(MAX_TASKS_AMOUNT) /\ frames \in MapOf(FRAMES)
    BY <1>1, Bounds DEF MapOf, FrameOf, Tid
  <2>3. table \in [Slot -> [ref : Nat, inode : Inode]]
    BY <1>1, ThreadsAssumption
  <2>4. expired \in Seq(Tid) /\ unused \in [Tid -> SUBSET Tid]
    BY <1>1
  <2>5. QED
    BY <1>1, <2>1, <2>2, <2>3, <2>4 DEF Types
<1>4. Conduct
  BY <1>2, FirstTasks, Bounds DEF Conduct
<1>5. \A t \in Tid :
        /\ task[t].state \in {"runs", "none"}
        /\ task[t].state = "runs" <=> t \in {TID_HOO, TidShell}
  BY <1>2, FirstTasks, Bounds
<1>6. Listed
  <2>1. Range(expired) = {} /\ IsInjective(expired)
    BY <1>1 DEF Range, IsInjective
  <2>2. QED
    BY <1>5, <2>1 DEF Listed
<1>7. \A t \in Tid : t # TidShell => Bare(t)
  BY <1>2, FirstTasks DEF Bare, HasPage
<1>8. HasPage(TidShell) => task[TidShell].page.frame = 1
  BY <1>2, FirstTasks
<1>9. task[TidShell].stack = 0
  BY <1>2, FirstTasks
<1>10. Mapped
  BY <1>2, <1>5, <1>7, <1>8, <1>9, FirstTasks, Bounds DEF Mapped, Bare
<1>11. FramesBacked
  <2> SUFFICES ASSUME NEW t \in Tid \ {TID_HOO}, task[t].state # "none"
               PROVE  /\ HasPage(t) => task[t].page.frame \in frames.set
                      /\ task[t].stack \in frames.set
                      /\ \A u \in Tid \ {t} :
                           /\ task[u].stack # task[t].stack
                           /\ HasPage(u) => task[u].page.frame # task[t].stack
    BY DEF FramesBacked
  <2>1. t = TidShell
    BY <1>5
  <2>2. frames.set = {0, 1}
    BY <1>1
  <2>3. \A u \in Tid \ {t} : task[u].stack = INVALID_INDEX /\ ~HasPage(u)
    BY <1>7, <2>1 DEF Bare
  <2>4. QED
    BY <1>8, <1>9, <2>1, <2>2, <2>3, Bounds
<1>12. ParentRuns
  BY <1>2, <1>5, FirstTasks, Bounds DEF ParentRuns
<1>13. \A t, u \in Tid : t # u /\ HasPage(t) => u \notin SharedWith(t)
  BY <1>7, SharedIs DEF Bare
<1>14. Heirs /\ OneWriter
  BY <1>13 DEF Heirs, OneWriter, Writes
<1>15. OwnFile
  <2>1. ASSUME NEW t \in Tid, task[t].state = "runs", NEW fd \in DOMAIN task[t].opened
        PROVE  /\ fd = 3 /\ (t = TID_HOO \/ t = TidShell)
               /\ Behind(t, fd) = (IF t = TID_HOO THEN 0 ELSE 1)
               /\ task[t].opened[fd] = (IF t = TID_HOO THEN Log ELSE Sh)
    BY <1>2, <1>5, <2>1, FirstTasks, Bounds DEF Behind
  <2>2. table[0] = [ref |-> 1, inode |-> Log] /\ table[1] = [ref |-> 1, inode |-> Sh]
    BY <1>1, Bounds
  <2>3. OwnEach
    BY <2>1, <2>2 DEF OwnEach
  <2>4. OwnApart
    BY <2>1 DEF OwnApart
  <2>5. QED
    BY <2>3, <2>4, OwnFileIs
<1>16. Nearer
  BY <1>1 DEF Nearer
<1>17. QED
  BY <1>3, <1>4, <1>6, <1>10, <1>11, <1>12, <1>14, <1>15, <1>16 DEF IInv
-----------------------------------------------------------------------------
(***************************************************************************)
(* What halts the system is one of its reasons.                            *)
(***************************************************************************)
LEMMA HaltKept ==
  ASSUME Types, [Next]_vars
  PROVE  halt' \in {"no", "panic", "stolen", "raced", "wrapped", "freed"}
<1>1. halt \in {"no", "panic", "stolen", "raced", "wrapped", "freed"}
  BY DEF Types
<1>2. CASE UNCHANGED vars
  BY <1>1, <1>2 DEF vars
<1>3. ASSUME NEW t \in Tid, fork(t) \/ page_fault(t) \/ OpenTake(t) \/ Load(t)
      PROVE  halt' \in {"no", "panic", "stolen", "raced", "wrapped", "freed"}
  BY <1>1, <1>3 DEF fork, page_fault, OpenTake, Load, Stop
<1>4. ASSUME NEW t \in Tid, NEW inode, NEW for, OpenFind(t, inode, for)
      PROVE  halt' \in {"no", "panic", "stolen", "raced", "wrapped", "freed"}
  BY <1>1, <1>4 DEF OpenFind, Stop
<1>5. ASSUME NEW t \in Tid, ExitLeave(t)
      PROVE  halt' \in {"no", "panic", "stolen", "raced", "wrapped", "freed"}
  BY <1>1, <1>5 DEF ExitLeave, Stop
<1>6. ASSUME NEW t \in Tid, NEW x, files_close(t, x) \/ dir_change(t, x) \/ ExitClear(t) \/ kill
      PROVE  halt' \in {"no", "panic", "stolen", "raced", "wrapped", "freed"}
  BY <1>1, <1>6 DEF files_close, dir_change, ExitClear, kill
<1>7. TID_HOO \in Tid
  BY Bounds
<1>8. QED
  BY <1>1, <1>2, <1>3, <1>4, <1>5, <1>6, <1>7 DEF Next

(***************************************************************************)
(* The steps are those described above.                                    *)
(***************************************************************************)
LEMMA StepIs ==
  ASSUME Types, [Next]_vars
  PROVE  \/ Idle
         \/ \E t \in Tid : fork(t) /\ ~Idle
         \/ \E t \in Tid : (page_fault(t) \/ Load(t)) /\ ~Idle
         \/ \E t \in Tid, inode \in Inode, for \in {"open", "exec"} :
              OpenFind(t, inode, for) /\ ~Idle
         \/ \E t \in Tid : OpenTake(t) /\ ~Idle
         \/ \E t \in Tid, fd \in Fd : files_close(t, fd)
         \/ \E t \in Tid, dir \in Operand : dir_change(t, dir)
         \/ \E t \in Tid : ExitClear(t)
         \/ \E t \in Tid : ExitLeave(t) /\ ~Idle
         \/ kill
<1>1. UNCHANGED vars => Idle
  BY DEF vars, Idle
<1>2. QED
  BY <1>1 DEF Next

(***************************************************************************)
(* A directory of the tree stays one for all that run, and only who runs   *)
(* is in the middle of a call.                                             *)
(***************************************************************************)
LEMMA ConductKept ==
  ASSUME Types, Conduct,
         \A u \in Tid : task'[u].state = "runs" => task'[u].cwd \in Dir,
         \A u \in Tid : task'[u].call # User =>
           task'[u].state = "runs",
         task'[TID_HOO].state = "runs" /\ task'[TID_HOO].call = User
  PROVE  Conduct'
BY DEF Conduct

(***************************************************************************)
(* The invariant is inductive.                                             *)
(***************************************************************************)
LEMMA StepIInv == IInv /\ [Next]_vars => IInv'
<1> SUFFICES ASSUME IInv, [Next]_vars PROVE IInv'
  OBVIOUS
<1>1. /\ Types /\ Conduct /\ Listed /\ Mapped /\ FramesBacked /\ ParentRuns /\ Heirs /\ OneWriter
      /\ OwnFile /\ Nearer
  BY DEF IInv
<1>2. halt' \in {"no", "panic", "stolen", "raced", "wrapped", "freed"}
  BY <1>1, HaltKept
<1>3. /\ task \in [Tid -> TaskType]
      /\ tids \in MapOf(MAX_TASKS_AMOUNT) /\ frames \in MapOf(FRAMES)
      /\ table \in [Slot -> [ref : Nat, inode : Inode]]
      /\ expired \in Seq(Tid) /\ unused \in [Tid -> SUBSET Tid]
  BY <1>1 DEF Types
<1>4. /\ \A u \in Tid : task[u].state = "runs" => task[u].cwd \in Dir
      /\ \A u \in Tid : task[u].call # User => task[u].state = "runs"
      /\ task[TID_HOO].state = "runs" /\ task[TID_HOO].call = User
  BY <1>1 DEF Conduct
<1>5. CASE Idle
  <2>1. /\ tids' = tids /\ task' = task /\ table' = table /\ frames' = frames
        /\ expired' = expired /\ unused' = unused
    BY <1>5 DEF Idle
  <2>2. Types'
    BY <1>2, <1>3, <2>1 DEF Types
  <2>3. Conduct'
    BY <1>1, <2>1 DEF Conduct
  <2>4. \A u \in Tid : KeepsView(u) /\ KeepsFiles(u)
    BY <2>1 DEF KeepsView, KeepsFiles
  <2>5. Listed' /\ Mapped' /\ FramesBacked' /\ ParentRuns' /\ Heirs' /\ OneWriter'
    BY <1>1, <2>1, <2>4, ViewKept
  <2>6. OwnFile'
    BY <1>1, <2>1, <2>4, OwnKept
  <2>7. Nearer'
    BY <1>1, <2>1, NearKept
  <2>8. QED
    BY <2>2, <2>3, <2>5, <2>6, <2>7 DEF IInv
<1>6. ASSUME NEW t \in Tid, fork(t), ~Idle PROVE IInv'
  <2>1. /\ task' \in [Tid -> TaskType] /\ tids' \in MapOf(MAX_TASKS_AMOUNT)
        /\ frames' \in MapOf(FRAMES)
    BY <1>1, <1>6, ForkStep
  <2>2. PICK new \in Tid : ForkDoes(t, new)
    BY <1>1, <1>6, ForkStep
  <2>3. /\ task[t].state = "runs" /\ task[new].state = "none"
        /\ \A u \in Tid \ {new} : task'[u] = task[u]
        /\ task'[new].state = "runs" /\ task'[new].cwd = task[t].cwd
        /\ task'[new].call = User /\ DOMAIN task'[new].opened = {}
        /\ unused' = Given(new) /\ table' = table /\ expired' = expired
    BY <2>2 DEF ForkDoes
  <2>4. new # TID_HOO
    BY <1>4, <2>3
  <2>5. Given(new) \in [Tid -> SUBSET Tid]
    BY <1>3 DEF Given
  <2>6. Types'
    BY <1>2, <1>3, <2>1, <2>3, <2>5 DEF Types
  <2>7. Conduct'
    <3>1. /\ \A u \in Tid : task'[u].state = "runs" => task'[u].cwd \in Dir
          /\ \A u \in Tid : task'[u].call # User => task'[u].state = "runs"
          /\ task'[TID_HOO].state = "runs" /\ task'[TID_HOO].call = User
      BY <1>4, <2>3, <2>4, Bounds
    <3>2. QED
      BY <1>1, <3>1, ConductKept
  <2>8. Listed' /\ Mapped' /\ FramesBacked' /\ ParentRuns' /\ Heirs' /\ OneWriter'
    BY <1>1, <2>1, <2>2, ViewFork
  <2>9. OwnFile'
    <3>1. \A u \in Tid : task'[u].state = "runs" =>
            DOMAIN task'[u].opened = {} \/ (task[u].state = "runs" /\ KeepsFiles(u))
      BY <2>3 DEF KeepsFiles
    <3>2. QED
      BY <1>1, <2>3, <3>1, OwnKept
  <2>10. Nearer'
    BY <1>1, <2>1, <2>2, NearFork
  <2>11. QED
    BY <2>6, <2>7, <2>8, <2>9, <2>10 DEF IInv
<1>7. ASSUME NEW t \in Tid, page_fault(t) \/ Load(t), ~Idle PROVE IInv'
  <2>1. task' \in [Tid -> TaskType] /\ frames' \in MapOf(FRAMES) /\ PageDoes(t)
    BY <1>1, <1>7, PageStep
  <2>2. /\ task[t].state = "runs" /\ t # TID_HOO
        /\ \A u \in Tid \ {t} : task'[u] = task[u]
        /\ task'[t].state = task[t].state /\ task'[t].cwd = task[t].cwd /\ KeepsFiles(t)
        /\ tids' = tids /\ table' = table /\ expired' = expired /\ unused' = unused
    BY <2>1 DEF PageDoes, KeepsFiles
  <2>3. Types'
    BY <1>2, <1>3, <2>1, <2>2 DEF Types
  <2>4. Conduct'
    <3>1. /\ \A u \in Tid : task'[u].state = "runs" => task'[u].cwd \in Dir
          /\ \A u \in Tid : task'[u].call # User => task'[u].state = "runs"
          /\ task'[TID_HOO].state = "runs" /\ task'[TID_HOO].call = User
      BY <1>4, <2>2, Bounds
    <3>2. QED
      BY <1>1, <3>1, ConductKept
  <2>5. Listed' /\ Mapped' /\ FramesBacked' /\ ParentRuns' /\ Heirs' /\ OneWriter'
    BY <1>1, <2>1, ViewPage
  <2>6. OwnFile'
    <3>1. \A u \in Tid : task'[u].state = "runs" => task[u].state = "runs" /\ KeepsFiles(u)
      BY <2>2 DEF KeepsFiles
    <3>2. QED
      BY <1>1, <2>2, <3>1, OwnKept
  <2>7. Nearer'
    BY <1>1, <2>2, NearKept
  <2>8. QED
    BY <2>3, <2>4, <2>5, <2>6, <2>7 DEF IInv
<1>8. ASSUME NEW t \in Tid, NEW inode \in Inode, NEW for \in {"open", "exec"},
             OpenFind(t, inode, for), ~Idle
      PROVE  IInv'
  <2>1. /\ task' \in [Tid -> TaskType]
        /\ task[t].state = "runs" /\ t # TID_HOO
        /\ \A u \in Tid \ {t} : task'[u] = task[u]
        /\ KeepsView(t) /\ KeepsFiles(t) /\ task'[t].cwd = task[t].cwd
        /\ tids' = tids /\ table' = table /\ frames' = frames /\ expired' = expired
        /\ unused' = unused
    BY <1>1, <1>8, FindStep
  <2>2. Types'
    BY <1>2, <1>3, <2>1 DEF Types
  <2>3. \A u \in Tid : KeepsView(u) /\ KeepsFiles(u)
    BY <2>1 DEF KeepsView, KeepsFiles
  <2>4. Conduct'
    <3>1. /\ \A u \in Tid : task'[u].state = "runs" => task'[u].cwd \in Dir
          /\ \A u \in Tid : task'[u].call # User => task'[u].state = "runs"
          /\ task'[TID_HOO].state = "runs" /\ task'[TID_HOO].call = User
      BY <1>4, <2>1, Bounds DEF KeepsView
    <3>2. QED
      BY <1>1, <3>1, ConductKept
  <2>5. Listed' /\ Mapped' /\ FramesBacked' /\ ParentRuns' /\ Heirs' /\ OneWriter'
    BY <1>1, <2>1, <2>3, ViewKept
  <2>6. OwnFile'
    <3>1. \A u \in Tid : task'[u].state = "runs" => task[u].state = "runs" /\ KeepsFiles(u)
      BY <2>3 DEF KeepsView
    <3>2. QED
      BY <1>1, <2>1, <3>1, OwnKept
  <2>7. Nearer'
    BY <1>1, <2>1, NearKept
  <2>8. QED
    BY <2>2, <2>4, <2>5, <2>6, <2>7 DEF IInv
<1>9. ASSUME NEW t \in Tid, OpenTake(t), ~Idle PROVE IInv'
  <2>1. task' \in [Tid -> TaskType] /\ table' \in [Slot -> [ref : Nat, inode : Inode]]
    BY <1>1, <1>9, TakeStep
  <2>2. PICK fd \in Fd, slot \in Slot, inode \in Inode : TakeDoes(t, fd, slot, inode)
    BY <1>1, <1>9, TakeStep
  <2>3. /\ task[t].state = "runs" /\ t # TID_HOO
        /\ \A u \in Tid \ {t} : task'[u] = task[u]
        /\ KeepsView(t) /\ task'[t].cwd = task[t].cwd
        /\ tids' = tids /\ frames' = frames /\ expired' = expired /\ unused' = unused
    BY <2>2 DEF TakeDoes
  <2>4. Types'
    BY <1>2, <1>3, <2>1, <2>3 DEF Types
  <2>5. \A u \in Tid : KeepsView(u)
    BY <2>3 DEF KeepsView
  <2>6. Conduct'
    <3>1. /\ \A u \in Tid : task'[u].state = "runs" => task'[u].cwd \in Dir
          /\ \A u \in Tid : task'[u].call # User => task'[u].state = "runs"
          /\ task'[TID_HOO].state = "runs" /\ task'[TID_HOO].call = User
      BY <1>4, <2>3, Bounds DEF KeepsView
    <3>2. QED
      BY <1>1, <3>1, ConductKept
  <2>7. Listed' /\ Mapped' /\ FramesBacked' /\ ParentRuns' /\ Heirs' /\ OneWriter'
    BY <1>1, <2>3, <2>5, ViewKept
  <2>8. OwnFile'
    BY <1>1, <2>2, OwnTake
  <2>9. Nearer'
    BY <1>1, <2>3, NearKept
  <2>10. QED
    BY <2>4, <2>6, <2>7, <2>8, <2>9 DEF IInv
<1>10. ASSUME NEW t \in Tid, NEW fd \in Fd, files_close(t, fd) PROVE IInv'
  <2>1. /\ task' \in [Tid -> TaskType] /\ table' \in [Slot -> [ref : Nat, inode : Inode]]
        /\ CloseDoes(t, fd)
    BY <1>1, <1>10, CloseStep
  <2>2. /\ \A u \in Tid \ {t} : task'[u] = task[u]
        /\ task[t].state = "runs" /\ t # TID_HOO
        /\ KeepsView(t) /\ task'[t].cwd = task[t].cwd
        /\ tids' = tids /\ frames' = frames /\ expired' = expired /\ unused' = unused
    BY <2>1 DEF CloseDoes
  <2>3. Types'
    BY <1>2, <1>3, <2>1, <2>2 DEF Types
  <2>4. \A u \in Tid : KeepsView(u)
    BY <2>2 DEF KeepsView
  <2>5. Conduct'
    <3>1. /\ \A u \in Tid : task'[u].state = "runs" => task'[u].cwd \in Dir
          /\ \A u \in Tid : task'[u].call # User => task'[u].state = "runs"
          /\ task'[TID_HOO].state = "runs" /\ task'[TID_HOO].call = User
      BY <1>4, <2>2, Bounds DEF KeepsView
    <3>2. QED
      BY <1>1, <3>1, ConductKept
  <2>6. Listed' /\ Mapped' /\ FramesBacked' /\ ParentRuns' /\ Heirs' /\ OneWriter'
    BY <1>1, <2>2, <2>4, ViewKept
  <2>7. OwnFile'
    BY <1>1, <2>1, OwnClose
  <2>8. Nearer'
    BY <1>1, <2>2, NearKept
  <2>9. QED
    BY <2>3, <2>5, <2>6, <2>7, <2>8 DEF IInv
<1>11. ASSUME NEW t \in Tid, NEW dir \in Operand, dir_change(t, dir) PROVE IInv'
  <2>1. /\ task' \in [Tid -> TaskType]
        /\ tids' = tids /\ table' = table /\ frames' = frames /\ expired' = expired
        /\ unused' = unused
        /\ \A u \in Tid : KeepsView(u) /\ KeepsFiles(u) /\ task'[u].call = task[u].call
    BY <1>1, <1>11, MoveStep
  <2>2. PICK path \in Dir : \A u \in Tid :
          task'[u].cwd = IF u \in {t, task[t].parent} THEN path ELSE task[u].cwd
    BY <1>1, <1>11, MoveStep
  <2>3. Types'
    BY <1>2, <1>3, <2>1 DEF Types
  <2>4. Conduct'
    <3>1. /\ \A u \in Tid : task'[u].state = "runs" => task'[u].cwd \in Dir
          /\ \A u \in Tid : task'[u].call # User => task'[u].state = "runs"
          /\ task'[TID_HOO].state = "runs" /\ task'[TID_HOO].call = User
      BY <1>4, <2>1, <2>2, Bounds DEF KeepsView
    <3>2. QED
      BY <1>1, <3>1, ConductKept
  <2>5. Listed' /\ Mapped' /\ FramesBacked' /\ ParentRuns' /\ Heirs' /\ OneWriter'
    BY <1>1, <2>1, ViewKept
  <2>6. OwnFile'
    <3>1. \A u \in Tid : task'[u].state = "runs" => task[u].state = "runs" /\ KeepsFiles(u)
      BY <2>1 DEF KeepsView
    <3>2. QED
      BY <1>1, <2>1, <3>1, OwnKept
  <2>7. Nearer'
    BY <1>1, <2>1, NearKept
  <2>8. QED
    BY <2>3, <2>4, <2>5, <2>6, <2>7 DEF IInv
<1>12. ASSUME NEW t \in Tid, ExitClear(t) PROVE IInv'
  <2>1. task' \in [Tid -> TaskType] /\ tids' \in MapOf(MAX_TASKS_AMOUNT) /\ ClearDoes(t)
    BY <1>1, <1>12, ClearStep
  <2>2. /\ task[t].state = "runs" /\ t # TID_HOO
        /\ \A u \in Tid \ {t} : task'[u] = task[u]
        /\ task'[t].state = "leaving" /\ task'[t].call = User
        /\ tids'.set \subseteq tids.set /\ tids'.prev = tids.prev
        /\ table' = table /\ frames' = frames /\ expired' = expired /\ unused' = unused
    BY <2>1 DEF ClearDoes
  <2>3. Types'
    BY <1>2, <1>3, <2>1, <2>2 DEF Types
  <2>4. Conduct'
    <3>1. /\ \A u \in Tid : task'[u].state = "runs" => task'[u].cwd \in Dir
          /\ \A u \in Tid : task'[u].call # User => task'[u].state = "runs"
          /\ task'[TID_HOO].state = "runs" /\ task'[TID_HOO].call = User
      BY <1>4, <2>2, Bounds
    <3>2. QED
      BY <1>1, <3>1, ConductKept
  <2>5. Listed' /\ Mapped' /\ FramesBacked' /\ ParentRuns' /\ Heirs' /\ OneWriter'
    BY <1>1, <2>1, ViewClear
  <2>6. OwnFile'
    <3>1. \A u \in Tid : task'[u].state = "runs" => task[u].state = "runs" /\ KeepsFiles(u)
      BY <2>2 DEF KeepsFiles
    <3>2. QED
      BY <1>1, <2>2, <3>1, OwnKept
  <2>7. Nearer'
    BY <1>1, <2>2, NearKept
  <2>8. QED
    BY <2>3, <2>4, <2>5, <2>6, <2>7 DEF IInv
<1>13. ASSUME NEW t \in Tid, ExitLeave(t), ~Idle PROVE IInv'
  <2>1. task' \in [Tid -> TaskType] /\ frames' \in MapOf(FRAMES) /\ LeaveDoes(t)
    BY <1>1, <1>13, LeaveStep
  <2>2. /\ task[t].state = "leaving"
        /\ \A u \in Tid \ {t} : task'[u] = task[u]
        /\ task'[t].state = "expired" /\ task'[t].call = task[t].call
        /\ expired' = Append(expired, t) /\ tids' = tids /\ table' = table /\ unused' = unused
    BY <2>1 DEF LeaveDoes
  <2>3. t # TID_HOO /\ task[t].call = User
    BY <1>4, <2>2
  <2>4. Types'
    BY <1>2, <1>3, <2>1, <2>2 DEF Types
  <2>5. Conduct'
    <3>1. /\ \A u \in Tid : task'[u].state = "runs" => task'[u].cwd \in Dir
          /\ \A u \in Tid : task'[u].call # User => task'[u].state = "runs"
          /\ task'[TID_HOO].state = "runs" /\ task'[TID_HOO].call = User
      BY <1>4, <2>2, <2>3, Bounds
    <3>2. QED
      BY <1>1, <3>1, ConductKept
  <2>6. Listed' /\ Mapped' /\ FramesBacked' /\ ParentRuns' /\ Heirs' /\ OneWriter'
    BY <1>1, <2>1, ViewLeave
  <2>7. OwnFile'
    <3>1. \A u \in Tid : task'[u].state = "runs" => task[u].state = "runs" /\ KeepsFiles(u)
      BY <2>2 DEF KeepsFiles
    <3>2. QED
      BY <1>1, <2>2, <3>1, OwnKept
  <2>8. Nearer'
    BY <1>1, <2>2, NearKept
  <2>9. QED
    BY <2>4, <2>5, <2>6, <2>7, <2>8 DEF IInv
<1>14. ASSUME kill PROVE IInv'
  <2>1. /\ task' \in [Tid -> TaskType] /\ frames' \in MapOf(FRAMES) /\ expired' \in Seq(Tid)
        /\ KillDoes(Killed)
    BY <1>1, <1>14, KillStep
  <2>2. /\ Killed \subseteq Range(expired)
        /\ \A u \in Tid \ Killed : task'[u] = task[u]
        /\ \A u \in Killed : task'[u].state = "none" /\ task'[u].call = User
        /\ tids' = tids /\ table' = table /\ unused' = unused
    BY <2>1 DEF KillDoes
  <2>3. TID_HOO \notin Killed
    BY <1>1, <1>4, <2>2 DEF Listed
  <2>4. Types'
    BY <1>2, <1>3, <2>1, <2>2 DEF Types
  <2>5. Conduct'
    <3>1. /\ \A u \in Tid : task'[u].state = "runs" => task'[u].cwd \in Dir
          /\ \A u \in Tid : task'[u].call # User => task'[u].state = "runs"
          /\ task'[TID_HOO].state = "runs" /\ task'[TID_HOO].call = User
      BY <1>4, <2>2, <2>3, Bounds
    <3>2. QED
      BY <1>1, <3>1, ConductKept
  <2>6. Listed' /\ Mapped' /\ FramesBacked' /\ ParentRuns' /\ Heirs' /\ OneWriter'
    BY <1>1, <2>1, ViewKill
  <2>7. OwnFile'
    <3>1. \A u \in Tid : task'[u].state = "runs" => task[u].state = "runs" /\ KeepsFiles(u)
      BY <2>2 DEF KeepsFiles
    <3>2. QED
      BY <1>1, <2>2, <3>1, OwnKept
  <2>8. Nearer'
    BY <1>1, <2>2, NearKept
  <2>9. QED
    BY <2>4, <2>5, <2>6, <2>7, <2>8 DEF IInv
<1>15. QED
  BY <1>1, <1>5, <1>6, <1>7, <1>8, <1>9, <1>10, <1>11, <1>12, <1>13, <1>14, StepIs

(***************************************************************************)
(* The inductive invariant of the tables holds in every state.             *)
(***************************************************************************)
THEOREM TablesInvariant == Spec => []IInv
BY InitIInv, StepIInv, PTL DEF Spec
-----------------------------------------------------------------------------
(***************************************************************************)
(* No task runs whose parent has exited: a program waits for its child.    *)
(***************************************************************************)
NoOrphans ==
  /\ orphans \in SUBSET Tid
  /\ \A t \in Tid : task[t].state = "runs" => t \notin orphans

\* Only fork makes a task that runs.
LEMMA RunnersAre ==
  ASSUME IInv, [Next]_vars
  PROVE  \/ \E t \in Tid : fork(t) /\ ~Idle
         \/ \A u \in Tid : task'[u].state = "runs" => task[u].state = "runs"
<1> DEFINE Same == \A u \in Tid : task'[u].state = "runs" => task[u].state = "runs"
<1>1. Types /\ Conduct /\ Listed /\ OwnFile
  BY DEF IInv
<1>2. Idle => Same
  BY DEF Idle
<1>3. ASSUME NEW t \in Tid, (page_fault(t) \/ Load(t)) /\ ~Idle PROVE Same
  BY <1>1, <1>3, PageStep DEF PageDoes
<1>4. ASSUME NEW t \in Tid, NEW inode \in Inode, NEW for \in {"open", "exec"},
             OpenFind(t, inode, for), ~Idle
      PROVE  Same
  BY <1>1, <1>4, FindStep
<1>5. ASSUME NEW t \in Tid, OpenTake(t), ~Idle PROVE Same
  <2>1. PICK fd \in Fd, slot \in Slot, inode \in Inode : TakeDoes(t, fd, slot, inode)
    BY <1>1, <1>5, TakeStep
  <2>2. QED
    BY <2>1 DEF TakeDoes
<1>6. ASSUME NEW t \in Tid, NEW fd \in Fd, files_close(t, fd) PROVE Same
  BY <1>1, <1>6, CloseStep DEF CloseDoes
<1>7. ASSUME NEW t \in Tid, NEW dir \in Operand, dir_change(t, dir) PROVE Same
  <2>1. \A u \in Tid : KeepsView(u)
    BY <1>1, <1>7, MoveStep
  <2>2. QED
    BY <2>1 DEF KeepsView
<1>8. ASSUME NEW t \in Tid, ExitClear(t) PROVE Same
  <2>1. /\ \A u \in Tid \ {t} : task'[u] = task[u]
        /\ task'[t].state = "leaving"
    BY <1>1, <1>8, ClearStep DEF ClearDoes
  <2>2. QED
    BY <2>1
<1>9. ASSUME NEW t \in Tid, ExitLeave(t), ~Idle PROVE Same
  BY <1>1, <1>9, LeaveStep DEF LeaveDoes
<1>10. ASSUME kill PROVE Same
  <2>1. KillDoes(Killed)
    BY <1>1, <1>10, KillStep
  <2>2. QED
    BY <2>1 DEF KillDoes
<1> HIDE DEF Same
<1>11. (\E t \in Tid : fork(t) /\ ~Idle) \/ Same
  BY <1>1, <1>2, <1>3, <1>4, <1>5, <1>6, <1>7, <1>8, <1>9, <1>10, StepIs
<1>12. QED
  BY <1>11 DEF Same

\* The ghost of the orphans grows at exit only.
LEMMA OrphansAre ==
  ASSUME [Next]_vars
  PROVE  \/ orphans' \subseteq orphans
         \/ \E t \in Tid : ExitClear(t) /\ orphans' = orphans \cup {c \in Tid : task[c].parent = t}
<1>1. UNCHANGED vars => orphans' = orphans
  BY DEF vars
<1>2. \A t \in Tid : fork(t) => orphans' \subseteq orphans
  BY DEF fork, Stop
<1>3. \A t \in Tid : page_fault(t) \/ OpenTake(t) \/ Load(t) \/ ExitLeave(t) => orphans' = orphans
  BY DEF page_fault, OpenTake, Load, ExitLeave, Stop
<1>4. \A t \in Tid, inode \in Inode, for \in {"open", "exec"} :
        OpenFind(t, inode, for) => orphans' = orphans
  BY DEF OpenFind, Stop
<1>5. /\ \A t \in Tid, fd \in Fd : files_close(t, fd) => orphans' = orphans
      /\ \A t \in Tid, dir \in Operand : dir_change(t, dir) => orphans' = orphans
  BY DEF files_close, dir_change
<1>6. \A t \in Tid : ExitClear(t) => orphans' = orphans \cup {c \in Tid : task[c].parent = t}
  BY DEF ExitClear
<1>7. kill => orphans' \subseteq orphans
  BY DEF kill
<1>8. QED
  BY <1>1, <1>2, <1>3, <1>4, <1>5, <1>6, <1>7 DEF Next

\* Every step leaves no orphan that runs.
LEMMA OrphansKept == IInv /\ NoOrphans /\ [Next]_vars => NoOrphans'
<1> SUFFICES ASSUME IInv, NoOrphans, [Next]_vars PROVE NoOrphans'
  OBVIOUS
<1>1. Types
  BY DEF IInv
<1>2. orphans' \in SUBSET Tid
  BY OrphansAre DEF NoOrphans
<1>3. CASE \E t \in Tid : fork(t) /\ ~Idle
  <2>1. PICK t \in Tid : fork(t) /\ ~Idle
    BY <1>3
  <2> DEFINE new == FirstFree(tids)
  <2>2. /\ task' = [task EXCEPT ![new] = Copy(t, new)] /\ orphans' = orphans \ {new}
    BY <2>1 DEF fork, Stop, Idle
  <2> HIDE DEF new
  <2>3. \A u \in Tid \ {new} : task'[u] = task[u]
    BY <1>1, <2>2 DEF Types
  <2>4. QED
    BY <1>2, <2>2, <2>3 DEF NoOrphans
<1>4. CASE \A u \in Tid : task'[u].state = "runs" => task[u].state = "runs"
  <2>1. CASE orphans' \subseteq orphans
    BY <1>2, <1>4, <2>1 DEF NoOrphans
  <2>2. ASSUME NEW t \in Tid, ExitClear(t),
               orphans' = orphans \cup {c \in Tid : task[c].parent = t}
        PROVE  NoOrphans'
    <3>1. \A c \in Tid : task[c].parent = t => task[c].state # "runs"
      BY <2>2 DEF ExitClear, MayExit
    <3>2. QED
      BY <1>2, <1>4, <2>2, <3>1 DEF NoOrphans
  <2>3. QED
    BY <2>1, <2>2, OrphansAre
<1>5. QED
  BY <1>3, <1>4, RunnersAre

(***************************************************************************)
(* Whoever runs has been forked by the task that has its parent's tid.     *)
(***************************************************************************)
THEOREM OrphansInvariant == Spec => []NoOrphans
<1>1. Init => NoOrphans
  BY DEF Init, NoOrphans
<1>2. IInv /\ NoOrphans /\ [Next]_vars => NoOrphans'
  BY OrphansKept
<1>3. QED
  BY <1>1, <1>2, TablesInvariant, PTL DEF Spec

(***************************************************************************)
(* The types; a cd leads no task that runs out of the tree: curdir_set     *)
(* cuts a path that is too long, and what is left is a directory.          *)
(***************************************************************************)
LEMMA TypesAre == IInv /\ NoOrphans => ThreadsTypeOK
<1> SUFFICES ASSUME IInv, NoOrphans PROVE ThreadsTypeOK
  OBVIOUS
<1>1. Types /\ Conduct
  BY DEF IInv
<1>2. ASSUME NEW t \in Tid
      PROVE  task[t].fmngr.files \in [Fd -> Slot] /\ task[t].fmngr.fd_set.prev \in Fd
  <2>1. task[t].fmngr.files \in [Fd -> Slot] /\ task[t].fmngr.fd_set \in FdSet
    BY <1>1, FieldTypes
  <2>2. QED
    BY <2>1 DEF FdSet
<1>3. /\ tids.set \subseteq Tid /\ tids.prev \in Tid
      /\ frames.set \subseteq FrameOf /\ frames.prev \in FrameOf
  BY <1>1 DEF Types, MapOf, Tid, FrameOf
<1>4. /\ table \in [Slot -> [ref : Nat, inode : Inode]]
      /\ expired \in Seq(Tid) /\ unused \in [Tid -> SUBSET Tid]
      /\ halt \in {"no", "panic", "stolen", "raced", "wrapped", "freed"}
  BY <1>1 DEF Types
<1>5. ASSUME NEW t \in Tid
      PROVE  /\ task[t].state \in {"none", "runs", "leaving", "expired"}
             /\ task[t].parent \in Tid \cup {INVALID_INDEX}
             /\ task[t].cwd \in Dir \cup {curdir_init}
             /\ task[t].state = "runs" => task[t].cwd \in Dir
             /\ task[t].page \in PageType /\ task[t].stack \in FrameOf \cup {INVALID_INDEX}
             /\ DOMAIN task[t].opened \subseteq Fd \ Std
  <2>1. task[t].state = "runs" => task[t].cwd \in Dir
    BY <1>1 DEF Conduct
  <2>2. QED
    BY <1>1, <2>1, FieldTypes
<1>6. QED
  BY <1>2, <1>3, <1>4, <1>5 DEF ThreadsTypeOK, NoOrphans

(***************************************************************************)
(* The types, of every state: whatever is opened, closed, forked and       *)
(* exited, the tables hold tids, slots and frames that exist.              *)
(***************************************************************************)
THEOREM ThreadsTypeInvariant == Spec => []ThreadsTypeOK
BY TablesInvariant, OrphansInvariant, TypesAre, PTL

(***************************************************************************)
(* A descriptor leads to the file that it was opened for, by a slot that   *)
(* is counted as in use and behind no other descriptor (files.c:25-109,    *)
(* fmngr.c): for any number of tasks, slots and descriptors, as long as no *)
(* two files_open overlap and no descriptor is given twice.                *)
(***************************************************************************)
THEOREM OwnFileInvariant == Spec => []OwnFile
<1>1. IInv => OwnFile
  BY DEF IInv
<1>2. QED
  BY <1>1, TablesInvariant, PTL

(***************************************************************************)
(* No page that a task maps and no stack that exit and kill are not done   *)
(* with is free, and no stack is that of two tasks or a page (tasks.c:196, *)
(* 340-404): until a task exits that shares a page.                        *)
(***************************************************************************)
THEOREM FramesBackedInvariant == Spec => []FramesBacked
<1>1. IInv => FramesBacked
  BY DEF IInv
<1>2. QED
  BY <1>1, TablesInvariant, PTL

(***************************************************************************)
(* Of those that share a frame at most one can write to it, and it is not  *)
(* the child of another: whoever else shares it and runs descends from it. *)
(***************************************************************************)
THEOREM OneWriterInvariant == Spec => []OneWriter
<1>1. IInv => OneWriter
  BY DEF IInv
<1>2. QED
  BY <1>1, TablesInvariant, PTL

(***************************************************************************)
(* The tid that fork gives next is the one that has been free the longest: *)
(* the scan goes on behind the tid it gave last (bitmap.c:84-101).         *)
(***************************************************************************)
THEOREM ReusedLastInvariant == Spec => []ReusedLast
<1>1. IInv => ReusedLast
  BY NearestIsLast DEF IInv
<1>2. QED
  BY <1>1, TablesInvariant, PTL
-----------------------------------------------------------------------------
(***************************************************************************)
(* Only a cd changes the directory of a task that goes on running, and it  *)
(* is that of the caller or of the task that forked it (dir.c, dir_change).*)
(***************************************************************************)
KinStep ==
  (\E t \in Tid : Moved(t)) =>
    \E u \in Tid, dir \in Operand :
      /\ dir_change(u, dir)
      /\ \A t \in Tid : Moved(t) =>
           t = u \/ (t = task[u].parent /\ u \notin orphans)

\* Each step is such a step.
LEMMA OnlyKinMove == IInv /\ NoOrphans /\ [Next]_vars => KinStep
<1> SUFFICES ASSUME IInv, NoOrphans, [Next]_vars PROVE KinStep
  OBVIOUS
<1>1. Types /\ Conduct /\ Listed /\ OwnFile /\ TID_HOO \in Tid
  BY Bounds DEF IInv
<1>2. SUFFICES ASSUME ~\E t \in Tid, dir \in Operand : dir_change(t, dir)
               PROVE  \A t \in Tid : ~Moved(t)
  <2>1. ASSUME \A t \in Tid : ~Moved(t) PROVE KinStep
    BY <2>1 DEF KinStep
  <2>2. ASSUME NEW t \in Tid, NEW dir \in Operand, dir_change(t, dir) PROVE KinStep
    <3>1. PICK path \in Dir : \A u \in Tid :
            task'[u].cwd = IF u \in {t, task[t].parent} THEN path ELSE task[u].cwd
      BY <1>1, <2>2, MoveStep
    <3>2. \A u \in Tid : Moved(u) => u \in {t, task[t].parent}
      BY <3>1 DEF Moved
    <3>3. t \notin orphans
      BY <2>2 DEF dir_change, Calls, NoOrphans
    <3>4. QED
      BY <2>2, <3>2, <3>3 DEF KinStep
  <2>3. QED
    BY <2>1, <2>2
<1>3. CASE Idle
  BY <1>3 DEF Idle, Moved
<1>4. ASSUME NEW t \in Tid, fork(t), ~Idle PROVE \A u \in Tid : ~Moved(u)
  <2>1. PICK new \in Tid : ForkDoes(t, new)
    BY <1>1, <1>4, ForkStep
  <2>2. QED
    BY <2>1 DEF ForkDoes, Moved
<1>5. ASSUME NEW t \in Tid, page_fault(t) \/ Load(t), ~Idle PROVE \A u \in Tid : ~Moved(u)
  <2>1. PageDoes(t)
    BY <1>1, <1>5, PageStep
  <2>2. QED
    BY <2>1 DEF PageDoes, Moved
<1>6. ASSUME NEW t \in Tid, NEW inode \in Inode, NEW for \in {"open", "exec"},
             OpenFind(t, inode, for), ~Idle
      PROVE  \A u \in Tid : ~Moved(u)
  BY <1>1, <1>6, FindStep DEF Moved
<1>7. ASSUME NEW t \in Tid, OpenTake(t), ~Idle PROVE \A u \in Tid : ~Moved(u)
  <2>1. PICK fd \in Fd, slot \in Slot, inode \in Inode : TakeDoes(t, fd, slot, inode)
    BY <1>1, <1>7, TakeStep
  <2>2. QED
    BY <2>1 DEF TakeDoes, Moved
<1>8. ASSUME NEW t \in Tid, NEW fd \in Fd, files_close(t, fd) PROVE \A u \in Tid : ~Moved(u)
  <2>1. CloseDoes(t, fd)
    BY <1>1, <1>8, CloseStep
  <2>2. QED
    BY <2>1 DEF CloseDoes, Moved
<1>9. ASSUME NEW t \in Tid, ExitClear(t) PROVE \A u \in Tid : ~Moved(u)
  <2>1. ClearDoes(t)
    BY <1>1, <1>9, ClearStep
  <2>2. QED
    BY <2>1 DEF ClearDoes, Moved
<1>10. ASSUME NEW t \in Tid, ExitLeave(t), ~Idle PROVE \A u \in Tid : ~Moved(u)
  <2>1. LeaveDoes(t)
    BY <1>1, <1>10, LeaveStep
  <2>2. QED
    BY <2>1 DEF LeaveDoes, Moved
<1>11. ASSUME kill PROVE \A u \in Tid : ~Moved(u)
  <2>1. KillDoes(Killed)
    BY <1>1, <1>11, KillStep
  <2>2. QED
    BY <2>1 DEF KillDoes, Moved
<1>12. QED
  BY <1>1, <1>2, <1>3, <1>4, <1>5, <1>6, <1>7, <1>8, <1>9, <1>10, <1>11, StepIs

(***************************************************************************)
(* A cd is seen by its caller and by the task that forked the caller and   *)
(* by no other, such as one that is given the tid of a former parent       *)
(* (dir.c:477, dir_change).                                                *)
(***************************************************************************)
THEOREM CwdOfKinHolds == Spec => CwdOfKin
<1>1. IInv /\ NoOrphans /\ [Next]_vars => KinStep
  BY OnlyKinMove
<1>2. Spec => [][KinStep]_vars
  BY <1>1, TablesInvariant, OrphansInvariant, PTL DEF Spec
<1>3. [][KinStep]_vars => CwdOfKin
  BY PTL DEF CwdOfKin, KinStep
<1>4. QED
  BY <1>2, <1>3, PTL
=============================================================================
