# AlienOS in TLA+

AlienOS is a simulated kernel: a CPU, a disk and a printer, each a POSIX thread, run
small programs that a user submits at a prompt, which is a fourth thread.  The four
share every kernel structure through global variables.  Three host semaphores
(`interrupt_semaphore`, `scheduler_semaphore`, `disk_semaphore`) order *some* of their
accesses; three more guard a single write or list operation, or the display
(`process_semaphore`, which main.c:10 declares to be about the running process but
which only ever guards the write of `new_process`, `print_semaphore`,
`log_semaphore`).  Almost everything that is hard about this program comes from the
accesses they do not order, and that is what the specification keeps: **one action per
step of a thread that another thread can come between**.

The names of actions, operators and variables are those of the C code wherever
there is one.  Paths below are relative to `src/`.

## 1. Inventory

### Components

| Component | Code | State it keeps | Operations | Model |
|---|---|---|---|---|
| Scheduler | `scheduler/` | `running_process`, `ready_processes` (by priority) | `add_process_scheduler`, `forward_scheduling` | `Scheduler` |
| Interruptions | `cpu/cpu.c` `process_interrupt` | `interrupt_semaphore`, the interrupted process's status | take a process off the CPU and reschedule; called by CPU, disk and printer | `Interrupt` |
| CPU | `cpu/cpu.c` | the thread's position and the pointers it has read; each process's `PC`, `remaining_time`, `exec`, `status` | fetch, `EXEC`, `P`, `V`, device requests, quantum, `process_finish_syscall` | `Cpu` |
| Simulated semaphores | `semaphore/`, `cpu/cpu.c`, `process/process.c` | `owner_id` and the waiting list of each; the list `memory->semaphores` | `semaphore_p_syscall`, `semaphore_v_syscall`; creation by the loader | `Cpu`; `SemaphoreList` |
| Memory | `memory/` | `num_free_pages`, `segments` (loaded ones), present and used bits; the page table | load, unload, second-chance swap; `add_page_memory`, `memory_delete_page` | `Memory`; `PageTable` |
| Disk | `disk/` | `requests` (by track), `curr_track`, the request being served | `disk_sweep`, `fulfill_disk_request`, `create_IO_request` | `Disk`, `Cpu` |
| Printer | `print/` | `print_requests` | `init_print`, `create_print_request` | `Printer`, `Cpu` |
| Process creation | `process/` | `processes_id`, `PCB` | `create_process`, `process_create_syscall`, `read_program_header` | `Ui`; `SemaphoreList`, `Loader` |
| User interface | `main.c`, `ui/` | the prompt, `new_process` flag; four windows and the next line of each | submit a file, quit; `refresh_log` | `Ui`; `Display` |
| Linked lists | `list/` | `header`, `tail`, `prev`, `next` | `push`, `pop`, `delete_list`, `find`, sorted insertion in the callers | `Lists` (as sequences); `LinkedList` (as nodes) |
| Log | `log/` | `LOGS`, `log_semaphore` | `append_log_message` and the functions that call it | `Display` |
| Tests | `test/` | - | five program files and a list driver | shapes of the workloads |

### Interactions

* The UI thread creates a process, pushes it on `PCB` with no lock, inserts it in
  the ready list under `scheduler_semaphore`, and raises the flag `new_process`.
* The CPU thread spins on `running_process` and `new_process`, executes one
  instruction at a time, and calls `process_interrupt` when a process is created,
  blocks, is loaded or exhausts its quantum.
* The CPU thread queues a request for a device *after* the interruption that takes
  the requester off the processor.
* Disk and printer, having served a request, put its process in the ready list and
  call `process_interrupt` themselves: a *device interruption* takes the running
  process off the CPU while the CPU thread may be anywhere in its loop.
* Loading a segment can swap out segments of other processes, found through `PCB`.
* The UI thread reads the header of a program file, and creates the semaphores it
  names, in a list that the CPU thread searches at every `P` and `V`: neither takes a
  lock for it.
* Every thread logs: it pushes a message on `LOGS` and draws the *last* message of
  `LOGS` in the window of its type, both under `log_semaphore`.
* `process_finish_syscall` unloads, frees and unlinks the process and calls
  `forward_scheduling` under `scheduler_semaphore` but not `interrupt_semaphore`.

### What is hard

1. The CPU thread reads `scheduler->running_process` several times in one logical
   step, and a device interruption may change it between two reads.
2. Lists that two threads change are locked on some paths only.
3. Flags are lowered without asking whether they were raised again.
4. `prev` pointers that the two sorted-insertion loops leave wrong decide what
   `delete_list` does later.
5. Swapping changes the status of processes that are waiting for something else.
6. The locks nest in three orders of call, so pairing and deadlock are global facts.
7. The page table is searched for a used page where a free one is meant, and two
   conversions lose part of a size: whether the count of free pages survives that is
   not seen in any single function.
8. A node is linked into a list before its own `next` is set.
9. What a thread draws is read from the end of a log that other threads write.
10. Progress: a process finishes only if V hands over, devices interrupt, flags
   arrive and loads do not undo one another.

`PROJECT.json` lists each hazard at its line with the properties that watch it.

### What makes each component correct

| Component | Properties |
|---|---|
| Kernel as a whole | `KeepsItsPromise`: the threads implement `Lifecycle` |
| Scheduler | `ReadySorted`, `NoOvertaking`, `NeverStranded` |
| Interruptions, CPU | `OnePlace`, `StatusAgrees`, `RequesterWaits`, `LocalsOK`, `FinishesOnlyDone`, `FinishedIsGone`, `ReadsAnInstruction`, `NoFault`, `EventuallyFinished` |
| Host semaphores | `HostLocks`, `NoHostDeadlock` |
| Simulated semaphores | `OwnerInside`, `SearchSucceeds`, `OneOfEachName`, `EventuallyFinished` |
| Memory | `FreePageCount`, `FreePagesBounded`, `ListedIfLoaded`, `FaultNeedsLostPCB`, `KeepsExecuting`, `ImplementsFreePages`, `PagesInTable` |
| Disk, printer | `SweepAscends`, `OnePlace`, `RequesterWaits` |
| Process creation | `PCBComplete`, `FaultNeedsLostPCB` |
| Lists | `ImplementsList`, `QueueLinked` |
| Log and windows | `OwnMessage`, `ShowsTheLog`, `OneReport` |

## 2. The modules

The whole program, and what it promises:

    Lists          sequences for linked lists, sorted insertion, delete_list on them
      Machine      constants, all variables, vars tuples, Init
        Scheduler  add_process_scheduler, forward_scheduling (operators)
          Interrupt  process_interrupt for thread t (actions)
            Memory     load, unload, swap        Disk     the disk thread
              Cpu        the CPU thread          Printer  the printer thread
                                                 Ui       the user interface thread
        AlienOS    Next, Spec, FairSpec and every property of the whole
          Batch      the same with a user who runs one program at a time
            MCAlienOS  workloads for TLC
    Lifecycle      the life of a process, implemented by AlienOS

Single components in more detail than the whole program bears:

    LinkedList     list.c and the insertion loops on nodes        MCLists
      implements AbstractList, the operations of Lists on one sequence
    SemaphoreList  memory->semaphores, node by node, by two threads   MCSemaphores
    PageTable      memory.c's table, page by page                 MCPages
      extends Loader, the arithmetic of the size line
      implements FreePages, the count that Memory keeps
    Display        log.c and refresh_log, by all threads          MCDisplay

Proofs:

    ListsProofs -> KernelProofs    the whole program: types, locks, order
                     ComputeProofs   programs that only compute: Lifecycle, segments,
                                     pages, statuses
                       BatchProofs     any programs, one at a time
                -> LinkedListProofs
    PageProofs, SemaphoreProofs, DisplayProofs
    Workload       what can be asked of program files: hypotheses of theorems

`Disk`, `Printer` and `Cpu` all extend `Interrupt`; `AlienOS` composes the four threads.
`Batch` changes none of that: it says when the user may submit a program, namely when
there is no process left, the CPU thread spins and nobody is in the middle of an
interruption (`Idle`).  The code asks nothing of the kind, and `BatchSpec` is not what
it promises: it is a way to use it under which it keeps the promises that it does not
keep otherwise (section 4).

### Three refinements

* **`AlienOS` implements `Lifecycle`** (`KeepsItsPromise`).  `Lifecycle` knows no ready
  list, flag, host thread or instruction: a process is new, ready, running, blocked or
  finished, `Dispatch` takes the running process off the processor and chooses one of
  the most urgent ready ones, a semaphore has a holder and a queue and is handed over
  by `Release`.  A process's phase is computed from the place where `AlienOS` has it
  (`Phase`).  Every step of every thread must be one of those actions or invisible.
* **`LinkedList` implements `AbstractList`** (`ImplementsList`).  The sequence is the
  nodes met by following `next`.  `AbstractList` is made of the operators of `Lists`
  (`InsertBeforeFirst`, `DeleteSorted`, `RemoveAt`), by which `Machine`'s lists change:
  the run and the proof show that they say what the pointers do, including everything
  `DeleteSorted` allows for a sorted list whose `prev` pointers the insertion loops have
  left wrong.
* **`PageTable` implements `FreePages`** (`ImplementsFreePages`).  `Memory` adds and
  subtracts a number of pages at once; memory.c goes page by page, with a search of the
  table for each.  The free pages of the mapping leave out the part of a call already
  done.

### State

The variables of the whole program are the C variables of the same name, with these
shifts:

* A process is a number, its `id`.  Its immutable fields (code, priority, segment
  id, number of pages) are read through `file[p]`, the program it was created from.
* `at[t]` is the place where thread `t` is; `irq` is the interruption the CPU
  thread is raising; `cur` its local pointer `process` or `running`; `victim` the
  process memory.c is swapping out.
* `freed` is the set of processes whose `Segment` has been passed to `free`.
* `PCB` is the sequence of processes met from `PCB->header`.  `PCB_tail` is the process
  whose node `PCB->tail` names, which need not be the last of the sequence, and
  `behind` the tail that `push` has read in order to link a node behind it.  Both are
  `NULL` once the node has been freed.
* A request is named by process and instruction: a process performs an instruction
  once, so requests are unique, as the nodes that hold them are.
* `os` is `"up"`, `"exited"` (the prompt was left, or a file could not be read: the
  program ends) or `"fault"`.  **Undefined behaviour is a state**: `CpuUndefined`,
  `DiskUndefined`, `PrintUndefined` and `PushUndefined` list the uses of NULL, of freed
  memory and of wrong links that the code can reach; from there the model
  only goes to `"fault"`, about which it claims nothing more.

### Actions and code

In the modules of the whole program, labels of `at` stand between two accesses of shared
state.  Several accesses are one action only when no other thread can tell the
difference:

* `P` that succeeds: writing `owner_id` and incrementing `PC` are one (`PSuccess`);
  both are read by the CPU thread only.  The charge to `remaining_time` is a step of
  its own (`PCharge`), since it reads `running_process` anew (cpu.c:148).
* `V` that hands over (`VHandOver`): of what it changes before locking the ready
  list, other threads see only the new owner's status.
* `DiskRequestFinished`, `PrintRequestFinished`: the update of the ready list under
  `scheduler_semaphore` and the deletion of the request.  The requests of the disk
  are locked meanwhile, and the head of the printer's list is its own.
* `CreateProcess`, `LinkPCB`, `MoveTail`: `push` on `PCB`, whose test of the header,
  read of the tail, write through it (list.c:30) and write of the tail another thread
  can come between.  `CreateProcess` has the test and the read (or, for an empty list,
  the write of the header) with the creation before them, which no thread sees: a
  `delete_list` that comes between the test and the read changes the tail only when it
  deletes the tail, and then leaves a list in which a push that has read the new tail
  is one that began later.  `MoveTail` has the last two writes: only the CPU thread's
  searches of `PCB` read the `next` of a new node, and one that would read it unset is
  `UnlinkUndefined`.
* `FinishUnlink`, `FinishHeader`, `FinishTail`, `FinishNode`: the deletions from the
  ready list and from `PCB`.  `FinishUnlink` has the first and, of the second, the
  search and the write that takes the node out: what the UI thread does between the two
  deletions touches one of the lists and can be moved before or after both.  What
  follows, to the free of the node, are steps of their own, since `push` may be about
  to use the tail: whatever it has linked to the node is cut off with it, and when it
  comes after the free it writes into freed memory (`PushUndefined`).
* `Loop` and `Exit` read `running_process` once where the code reads it for each
  conjunct; a process that goes away between two of those reads is instead missed
  by the next step (`Fetch`, `Finish`), which reads it again.  This merges some
  faults with later ones; it creates no behaviour the code lacks.
* `IrqExit` clears `new_process` and posts the semaphore in one step: between the
  two nothing but `Announce` can matter, and it commutes with the post.

Left out of the whole program because none of its properties can see it: the `sleep`s
and simulated times; log messages and windows, of which the kernel reads nothing
back (`Display` has them); which slot of the page table a page has (`PageTable`); when
a simulated semaphore is created (`SemaphoreList`; in `Machine` they exist from the
start).  `print_semaphore` guards single list operations, atomic here anyway.

In the other modules:

* **`LinkedList`.**  One operation is one step, as for a list its users lock.  `heap`
  maps the addresses in use to nodes with `next`, `prev` and a key (priority, track or
  id).  `malloc` may return any address that `delete_list` has freed, so a stale `prev`
  may come to point to a new node.  `pop` leaks its node, as all its callers do.
  A list is either pushed to or inserted in by key (`sorted`): no list of the program
  is used in both ways.  After undefined behaviour, and in a list that has a cycle, the
  model stops.
* **`SemaphoreList`.**  Every access of one thread that the other can see is a step:
  three writes in each branch of `push` (`prev` is never read in this list and left
  out), one node per step of both searches.  `malloc` leaves `next` at `Unset`; reading
  on from there would be undefined.  The CPU thread searches only for semaphores of
  programs already created, as it executes nothing else.
* **`PageTable`.**  One action per page.  Slot `NUM_PAGES` is the memory just behind
  the table, which the code reads and writes when a search runs off its end: the
  table has 2 MB, so that `malloc` takes it from the host in whole pages and the slot
  exists.  Its first `free` bit is chosen at random.  `Unload` is called for
  segments in memory; that `process_finish_syscall` also calls it for others is
  `FreePagesBounded`, section 4.
* **`Display`.**  The functions of log.c are operators that give the messages each
  appends, in order; a message is its type and the words highlighted in it.  `Call`,
  `Wait`, `Push`, `Refresh` and `Post` are the steps of `append_log_message`, and a
  window is the sequence of lines drawn in it since it was last loaded.

## 3. Model checking

`tlc -workers 2 -config X.cfg M`, with `M` the module in the table.  Every run of
`MCAlienOS` fixes a workload, that is a set of program files; the user submits them in
any order, up to `MaxProcs`, at any moment or, in `batch`, whenever the program before
has finished.

### Runs that pass

| Run | Module | Instance | Shows |
|---|---|---|---|
| `compute` | MCAlienOS | three programs of two priorities, submitted at any moment; one simulated semaphore, a quantum smaller than the work of the urgent and of the patient program, and memory for two of the three | without devices the kernel does its work: it implements `Lifecycle` (`KeepsItsPromise`), no process is lost or queued twice (`OnePlace`), the semaphore excludes (`OwnerInside`), only completed programs are finished and finished ones are gone, the log never reads behind a program's end (`ReadsAnInstruction`), insertion is fair (`NoOvertaking`), pages are conserved (`FreePageCount`), the list of loaded segments is exact (`ListedIfLoaded`), loading makes progress (`KeepsExecuting`) and every process finishes unless stranded (`EventuallyFinished`).  Undefined behaviour is reached in one place, where `push` and `delete_list` meet on `PCB`, or after they have lost a process there (`FaultNeedsLostPCB`) |
| `batch` | MCAlienOS | three submissions, one at a time, of two programs, of which one has every kind of instruction and is submitted twice; their segments do not fit together | one program at a time survives every interleaving of the four threads: two devices, interruptions from three threads and its own submission neither lose it (`OnePlace`) nor leave it behind (`NeverStranded`), its status follows its place (`StatusAgrees`), nothing undefined happens (`NoFault`) and it finishes (`EventuallyFinished`), whatever the one before it left in semaphores, memory and the position of the disk's arm |
| `devices` | MCAlienOS | two of three programs that overlap on disk and printer | *whatever* the races of section 4 do to processes: host semaphores pair (`HostLocks`), no deadlock of the threads, the ready list stays sorted, the disk arm never turns back within a sweep, local variables stay valid |
| `lists` | MCLists | four addresses, three keys | pointers do what sequences do (`ImplementsList`); a queue is linked both ways and its tail is its last node (`QueueLinked`), which needs `pop` and `delete_list` to leave a `tail` behind that `push` never uses |
| `semaphores` | MCSemaphores | four files: two that share with a third, one that names a semaphore twice, one without any | the unlocked search of the CPU thread always finds its semaphore in time (`SearchSucceeds`), and no semaphore is created twice (`OneOfEachName`) |
| `pages` | MCPages | five segments: less than a page, a page, a page and a part, two pages, and a size that wraps; two with the same id | through a page table that never holds a page (`page_table`), memory.c yet counts free pages as the rest of the kernel takes it to (`ImplementsFreePages`) |
| `display` | MCDisplay | three threads, calls of one, two and four messages, all four windows | no thread draws another's message (`OwnMessage`), the windows show the end of the log (`ShowsTheLog`), and the space window never mixes two reports (`OneReport`) |

`compute` explores the races that exist without devices; `devices`
explores those with them and checks what holds in spite of them.  `OnePlace`,
`StatusAgrees`, `FaultNeedsLostPCB`, `OwnerInside`, `FinishesOnlyDone`, `FinishedIsGone`
and `ReadsAnInstruction` **do not hold** with two processes and a
device: section 4.  `batch` has both, but never two processes that are not finished.

Distinct states: `compute` 300 488, `batch` 7 905, `devices` 828 998,
`lists` 248 220, `semaphores` 18 582, `pages` 734, `display` 342 779.

### Bounds

| Constant | Code | Runs | Why this is enough |
|---|---|---|---|
| `MaxProcs` | unbounded | 2 or 3 | two processes meet in every race found; three are needed for a queue behind an owner and for a victim that is neither the loader nor the runner |
| `QUANTUM_TIME_TOTAL` | 5000 | 4 | programs of at most four units, priorities of 1 and 2: quanta expire in the middle of an `EXEC`, at its end and after `P` |
| `P_TIME` | 200 | 1 or 3 | 3 in the passing runs that use `P`, so that a quantum of 2 becomes negative, one of 4 does not, and both cases are tested by the loop |
| `NUM_PAGES` | 131072 | 1 to 5 | one, two or all segments fit |
| `MAX_DISK_TRACK` | 200 | 3 | a request at the last track ends a sweep early, which the workloads contain |
| `Priority` | line of the file | 1, 2 | equal and different; the quantum is not an integer multiple in general, which `\div` models |
| `Address` | memory of the host | 4 | the list can hold a header, a tail and two nodes between, or fewer and addresses that are freed and used again.  Addresses are neither compared nor named, so symmetry in them is sound |
| `Key` | priority, track or id | 3 | before, equal and behind |
| `Declared` | line of the file | 0 to 3 names | an empty list, a list of one, a node found at the start, in the middle, at the end and not at all |
| `KBYTE`, `PAGE_SIZE`, `WORD` | 1024, 8192, 2^32 | 2, 8, 64 | a page is several KB and a word several pages, as in the code: sizes below, at and above a page and above the word |
| `HalfScreen` | half the terminal's lines | 4 | two lines in a window, so that each window is full after two messages, the one for the space after three |
| `MaxLogs` | unbounded | 5 | no call begins when the log has five messages, but those under way go on: the log reaches ten, and the windows of processes, of the disk and of the space are filled and loaded again (that of the memory is filled) |

Constants occur in the code in comparisons and sums only, so small ones keep every
branch.  In `MCAlienOS` `Sem` has one element: the code touches one semaphore at a
time.  `CHECK_DEADLOCK` is on everywhere: a state in which no thread can move would be
reported.  (`Halted` is the stutter of a program that has ended or whose heap is used
up, `Rest` that of a display whose log has reached its bound.)

### Fairness

`FairSpec` asks weak fairness of each of the CPU, disk and printer threads, which the
host schedules, and of the UI thread *between* a submission and its announcement
(`Submission`).  The user is under no obligation to submit
anything or to leave.  Weak fairness does not promise a thread a semaphore that others
keep taking, and neither does `sem_wait`: the liveness properties hold without that
promise.  Safety runs use `Spec`, and so do the modules of single components.

### Mutants

Every property of a passing run comes with a variant of one definition (`..._Push`,
`..._NoPost`, ... beside the original) under which the run fails: a missing
`sem_post`, an insertion at the tail, an interrupted process not put back, pages not
counted, an off-by-one in the quantum test, a permit too many in a semaphore, a search
that begins at the wrong end.

## 4. Where the code departs from its documentation

Five runs are expected to fail, each on one property that a comment of the code
states; TLC's trace is the scenario.

| Run | Property | What happens |
|---|---|---|
| `stranded` | `NeverStranded` | cpu.c:139 (and process_interrupt) lower `new_process` although the UI raised it again after `forward_scheduling` looked: a process stays ready beside an idle CPU until the next submission |
| `pcb_race` | `PCBComplete` | push on `PCB` links behind a tail that the CPU thread has just deleted: the process is never in `PCB`; a later swap of it dereferences NULL.  If the CPU thread has also freed the node, push writes into freed memory |
| `double_unload` | `FreePagesBounded` | a process swapped out during its last device request is unloaded again when it finishes: more free pages than pages |
| `lost_process` | `RequesterWaits` | a device interruption between the CPU thread's fetch of a READ and its own interruption: the CPU thread takes *another* process off the processor and schedules the one whose READ it is, which is then queued on the disk while it runs |
| `page_table` | `PagesInTable` | `add_page_memory` "searches first free page" (memory.c:58) and goes on *while* pages are free, so it stops at the first used one; at first there is none, the search runs off the end, and the page is written behind the table, as is every later one |

**After `lost_process`.**  In the trace the printer finishes the request of one process
while the CPU thread, which has fetched the READ of another, stands at
`interrupt_semaphore`.  The printer's interruption puts the reader in the ready list and
schedules the first process; the CPU thread then makes that one WAITING (cpu.c:197) and
schedules the reader.  From there two things go wrong.  The first process waits for
nothing and is in no list, and nobody will ever schedule it.  The reader runs, and when
its request has been served it is put in the ready list besides.  `OnePlace` says so,
but it is no witness of it: in the same workload it is violated earlier and in another
way, by a device interruption that meets the WAITING that loading or unloading a segment
writes for a while (cpu.c:289, 309) and therefore does not put the process back.

`lost_process` is one of a family.  The same second read of `running_process`, after a
device interruption, also gives a simulated semaphore to a process that did not ask for
it (cpu.c:231, against `OwnerInside`), finishes a process that has instructions left
(cpu.c:176, against `FinishesOnlyDone`) and puts a finishing process back in the ready
list (cpu.c:271, against `FinishedIsGone`).  Checking `OwnerInside` in
`double_unload.cfg`, or `FinishesOnlyDone`, `FinishedIsGone`, `ReadsAnInstruction` or
`FaultsOnlyInPCB` in `devices.cfg`, shows it.  That is why `compute` checks those
invariants without devices and `devices` does not.  (`KeepsItsPromise` is not asked
there either: `Lifecycle` knows no devices, section 6.)

### Seen while modelling, without a run of their own

* **Two submissions of one program.**  Both processes have the segment id of the file,
  by which `delete_list` searches `memory->segments` (memory.c:191): when the one loaded
  second finishes first, the segment of the other is unlisted, and its own stays in the
  list and is freed.  `compute.cfg` with `MaxProcs = 2`, `Resubmitted = {"high"}`,
  `NUM_PAGES = 4` and the invariant `ListedIfLoaded`.
* **Swapping out a waiting process.**  `memory_unload_syscall` sets its status to READY
  while it stays on the waiting list of a semaphore (cpu.c:316).  `compute.cfg` with the
  invariant `StatusAgrees`.  `KeepsItsPromise` and `OwnerInside`, which `compute`
  checks, survive it: the status is written again before anything depends on it.
* **Thrashing.**  A loaded segment's used bit is 0 until its process executes, and a
  load ends in an interruption that puts the process behind its equals (cpu.c:302):
  of three programs of four pages in the nine of the commented-out setting of
  memory.h:17, two fit and the three evict each other for ever before any executes.
  `compute.cfg` with those pages, equal priorities and the property `KeepsExecuting`.
* **Too few pages.**  The number of pages "needed to store the program data" is size /
  PAGE_SIZE rounded down, as C divides before `ceil` is called (process.c:110-112), and
  a size of 4 GB or more wraps.  memory.h:35-36 has the quotient only.  Nothing is ever
  stored in a page.
* **A request in front of the one being served.**  A lower track inserted meanwhile
  makes the served request a node that is not the header, with a `prev` that
  was never set, and `delete_list` follows it (disk.c:72, list.c:69-78).  `LinkedList`
  has the general case: `AbstractList`'s `Delete` would be wrong without `DeleteSorted`
  and `Undefined`.
* **The page table is never used.**  What `page_table` finds on one instance holds of
  every table and every sequence of loads and unloads: `TableUntouched`, an invariant,
  is the proof.  memory.h:51-52, by which the count is what the table
  leaves, is false from the first load on.
* **An instruction behind the last.**  log.c:32-33 takes it that only a new process
  interrupts another from outside.  A device does, too, also when the program counter
  is at the end, and so does a program's own last P when it blocks (cpu.c:86-101):
  the instruction that log.c:35-36 then copies is behind the array.  `compute.cfg`
  checks `ReadsAnInstruction` with programs that end otherwise.

## 5. Proofs

Checked by TLAPS for every value of the constants: of the whole program for every set
of program files, number of processes, quantum and memory, from the assumptions named
in `Machine`: `BoundAssumption` (`MaxProcs` is a number, `NULL` is not a process),
`FileAssumption` (what the loader accepts, with priorities that are not 0 and
semaphore names present in P and V) and `ClockAssumption` (the constants are natural
numbers).  The other modules assume that sizes and units are numbers
(`UnitAssumption`, `TableAssumption`), that addresses are finitely many and `NULL`
neither one of them nor a list (`AddressAssumption`), that `NULL` and `Unset` are not
nodes, that the semaphore lines are sequences of names (`NullAssumption`,
`DeclaredAssumption`), and that what threads log is messages and windows have a line
(`CallsAssumption`, `ScreenAssumption`).

| Theorem | Module | Says | Of |
|---|---|---|---|
| `TypeCorrect`, `LocalsCorrect` | KernelProofs | `Spec => []TypeOK`, `[]LocalsOK` | all programs |
| `LocksCorrect`, `NoDeadlock` | KernelProofs | `Spec => []HostLocks`, `[]NoHostDeadlock` | all programs |
| `ReadyOrder` | KernelProofs | `Spec => []ReadySorted` | all programs |
| `Ascending` | KernelProofs | `Spec => SweepAscends` | all programs |
| `NeverLost` | ComputeProofs | `Spec => []OnePlace` | `ComputesOnly` |
| `NeverCutShort`, `NeverRevived` | ComputeProofs | `Spec => []FinishesOnlyDone`, `[]FinishedIsGone` | `ComputesOnly` |
| `FirstComeFirstServed` | ComputeProofs | `Spec => NoOvertaking` | `ComputesOnly` |
| `PromiseKept` | ComputeProofs | `Spec => KeepsItsPromise` | `ComputesOnly` |
| `MutualExclusion` | ComputeProofs | `Spec => []OwnerInside` | `ComputesOnly`, `PairsPV` |
| `SegmentsListed` | ComputeProofs | `Spec => []ListedIfLoaded` | `OwnSegments` |
| `FaultsAreLostPCBs` | ComputeProofs | `Spec => []FaultNeedsLostPCB`, by which nothing but push and delete_list on `PCB` is undefined while `PCBComplete` holds | `ComputesOnly`, `OwnSegments`, `EachFits` |
| `LogReadsAnInstruction` | ComputeProofs | `Spec => []ReadsAnInstruction` | `ComputesOnly`, `EndsOutside` |
| `PagesAddUp` | ComputeProofs | `Spec => []FreePageCount` | `ComputesOnly`, `OwnSegments`, `EndsOutside` |
| `OnlyPCBFaults` | ComputeProofs | `Spec => []FaultsOnlyInPCB`, by which nothing but that is undefined at all | `ComputesOnly`, `OwnSegments`, `AllFit` |
| `StatusesAgree` | ComputeProofs | `Spec => []StatusAgrees` | `ComputesOnly`, `OwnSegments`, `AllFit` |
| `BatchNeverLost` | BatchProofs | `BatchSpec => []OnePlace` | all programs |
| `BatchNeverStranded`, `BatchPCB` | BatchProofs | `BatchSpec => []NeverStranded`, `[]PCBComplete` | all programs |
| `BatchNeverCutShort`, `BatchNeverRevived` | BatchProofs | `BatchSpec => []FinishesOnlyDone`, `[]FinishedIsGone` | all programs |
| `BatchStatusesAgree`, `BatchSegmentsListed` | BatchProofs | `BatchSpec => []StatusAgrees`, `[]ListedIfLoaded` | all programs |
| `BatchNeverFaults` | BatchProofs | `BatchSpec => []NoFault` | `EachFits` |
| `BatchMutualExclusion` | BatchProofs | `BatchSpec => []OwnerInside` | `PairsPV` |
| `BatchPagesAddUp` | BatchProofs | `BatchSpec => [](FreePageCount /\ FreePagesBounded)` | `NoneEmpty` |
| `BatchLogReads` | BatchProofs | `BatchSpec => []ReadsAnInstruction` | `EndsOutside` |
| `OneIsABatch` | BatchProofs | `Spec => BatchSpec` | `MaxProcs <= 1` |
| `ListTypes`, `QueuesAreLinked` | LinkedListProofs | `Spec => []TypeOK`, `[]QueueLinked` | all lists |
| `PointersImplementSequences` | LinkedListProofs | `Spec => ImplementsList` | all lists |
| `PageTypes`, `TableStaysEmpty` | PageProofs | `Spec => []TypeOK`, `[]TableUntouched` | all segments |
| `Refinement` | PageProofs | `Spec => ImplementsFreePages` | all segments |
| `SemaphoreTypes`, `SearchesSucceed`, `SemaphoresShared` | SemaphoreProofs | `Spec => []TypeOK`, `[]SearchSucceeds`, `[]OneOfEachName` | all program files |
| `DisplayTypes`, `DrawsItsOwn`, `WindowsShowTheLog` | DisplayProofs | `Spec => []TypeOK`, `[]OwnMessage`, `[]ShowsTheLog` | all calls |
| `ShowsOneReport` | DisplayProofs | `Spec => []OneReport` | `ReportsWhole` |

### Hypotheses about the programs

The kernel checks nothing of the programs it runs, and with some of them it goes wrong
(section 4).  What is true only of the others is a theorem with the condition as its
hypothesis, stated in `Workload`.  None is an assumption of the model, and each is
there for something that the code does with programs that do not meet it:

* `ComputesOnly`: no program uses a device.  The device threads change
  `running_process` behind the back of the CPU thread (`lost_process`).
* `PairsPV`: every program takes and gives back a semaphore in turn.  P by the owner
  succeeds at once, and V does not ask who owns the semaphore (cpu.c:230, cpu.c:244).
* `OwnSegments`: every process has a segment id of its own, by which
  `memory_unload_segment` searches.
* `EndsOutside`: a program has an instruction, and the last one is not a P, at which it
  would be queued with nothing left to execute.
* `EachFits`, `AllFit`: each segment fits in an empty memory, or all of them together.
  With less memory a swap marks processes READY that wait for something else, and finds
  its victim through `PCB`, from which `pcb_race` may have lost it.
* `NoneEmpty`: a program has an instruction.  `process_finish_syscall` counts the pages
  of a process free whether or not it was ever loaded (memory.c:181-192), and one
  without instructions finishes without having been.
* `ReportsWhole` (in `Display`): one thread reports the space of the memory, in calls
  that end with a whole report.  Of the kernel's threads only the CPU thread loads and
  unloads.

`MCAlienOS` and `MCDisplay` assume of their workloads the hypotheses under which the
runs check the same properties (`SharedWorkload`, `BatchWorkload`, `Reports`) and, of
`AllFit`, under which none does (`FittingWorkload`), so that TLC evaluates them: the
theorems are about workloads that exist, those of the runs among them.

### Arguments

**Types.** `TypeOK` alone is not inductive.  That `disk_requests` holds only requests
for instructions that exist needs, in `EnqueueDisk`, that the process in hand is not
past its end; it was tested when it was fetched, an interruption ago.  So the
inductive invariant is `IInv == TypeOK /\ LocalsOK`, where `LocalsOK` says what each
thread may rely on about what it read earlier: that the process in hand exists, has
an instruction left, of the kind it is being executed as; that the victim, the disk's
and the printer's requests are there.  It holds because only the CPU thread moves a
program counter, and only the printer pops its queue.  The proof has one lemma per
thread, one case per action in it, and one step per part of the invariant; `Frames`
disposes of the parts an action leaves alone.

**Locks.** `HostLocks` is inductive on top of the types.  `Moved` says who is in which
section after a step, `Neutral` handles every action that stays on its side of every
section, and five actions are left that take or post a semaphore.  `NoHostDeadlock`
then follows in one state: whoever is innermost in the order disk, interrupt,
scheduler waits for nothing.

**Ready list.** `ReadyChange` lists the only ways any step changes the list, and
`SortedAdd`, `SortedTail` and `SortedDelete` say that each keeps a sorted list sorted;
`FileKept` that priorities of processes that exist never change.  `SortedDelete`
covers what `delete_list` does through stale `prev` pointers, too.

**Disk.** That the arm never turns back is not inductive: it needs that the request the
disk thread read, without a semaphore, lies ahead of the arm (`SweepAhead`), and that
needs the list it was read from to be sorted (`DiskSorted`) while the CPU thread
inserts and the disk thread deletes.  Tracks never change, since the files of
processes that exist do not (`TrackKept`).  The facts about sorted lists are those of
the ready list, stated once for any key in `ListsProofs` (`InsertKeepsOrder`,
`TailKeepsOrder`, `DeleteKeepsOrder`).

**Programs that only compute.** `OnePlace` counts the places of a process and says
nothing of where the CPU thread is between two of them.  The invariant `CInv` does:

* `DevicesIdle`: no request is ever queued and the device threads stay at their poll,
  so that a step is one of the CPU thread or of the user.
* `InHand`: while the CPU thread works on `cur`, it is the running process, and one
  that is being taken off has the status that decides where it goes.  This is what a
  device interruption breaks.
* `Endings`: what is on its way to `process_finish_syscall` has executed all of its
  program, and the freed processes are those whose status is FINISHED.
* `Places`: no list has a process twice, no two lists share one, the running process is
  in none, except for the steps between the queueing by P and the interruption
  (`Blocks`), and none is nowhere.
* `PCBApart`: the same of `PCB`, where a finished process stays until `FinishUnlink`.

`NeverLost`, `NeverCutShort` and `NeverRevived` are read off it (`PositionCount` turns
the counting into "in the list, which has nothing twice").  `FirstComeFirstServed`
takes the ways the ready list can change one by one.  `PromiseKept` maps each action of
the CPU thread to one of `Lifecycle` or to a stutter: the dispatched process is a most
urgent one because the ready list is sorted, and the phases of all others stay because
they are in one place only.

**Critical sections.** `MutualExclusion` adds that the instruction in hand is of the
kind it is executed as and that a process starts at its first (`SInv`).  A process that
holds a semaphore has executed one P on it more than V's, by `PairsPV`; P is counted
when it succeeds or when V hands over, in the same step as the owner is written.

**Memory.** `ListedIfLoaded` needs that a segment is loaded only while it is not
(`LoadsAbsent`) and that the id found is that of the process meant (`OwnId`).
`FaultNeedsLostPCB` is about everything that can be undefined but the accesses of `push`
and `delete_list` to `PCB`, which can (`PushUndefined` is reachable in `compute`).  It
needs that the list of segments does not run empty in a swap: at least the pages that no
loaded segment has are free (`AtLeastFree`), the victim is loaded and its process alive
(`FInv`), so that `PCBComplete` has it in `PCB`.  `FreePageCount` needs that no process
is finished while swapped out: one that has come to its end is finished before any other
executes (`Ends`), and stays loaded until it is unloaded (`Present`).  Where all
segments fit (`AllFit`), nothing is swapped, which gives `FaultsOnlyInPCB` and, with a
status for every list and every place of the CPU thread (`Statuses`), `StatusAgrees`.

**One program at a time.** The theorems above leave the devices out, because with them
`OnePlace` and most of the rest are false of two processes (section 4).  Of one, the
*job*, they are true with any instructions.  Four threads have a hand in moving it, and
the invariant `BInv` follows it from hand to hand.  `Stage` lists the stages a job goes
through, each with all that the other threads may be doing meanwhile: there is no job
(`Vacant`); the user interface submits it and the CPU thread has not yet dispatched it
(`Submitted`); the CPU thread executes, loads, interrupts or dispatches it (`OnCpu`) or,
once it has finished, removes what is left of it (`Departing`); it has lost the CPU to a
request not yet queued (`Asks`), to a semaphore that a program before it has kept
(`Awaits`), to the disk (`AtDisk`) or the printer (`AtPrinter`); a device interrupts the
idle CPU on its behalf (`Returns`).  A device that has brought the job back may rest at
the end of that interruption while the CPU thread executes the job, up to its end if the
host likes: `DevicesRest` allows for it, and `Idle` waits for it.  `Others` says that
the programs before have been executed to their end and those after not at all,
`JobAlone` that only the job's segment is in memory, until it is unloaded.  The proof
has a lemma for each stage (`StageVacant`, `StageAtDisk`, ...), and for `OnCpu` one for
each part of the CPU thread's loop (`StageLoop`, `StageInstruction`, `StageFinish`,
...); `StagePasses` disposes of the steps that do not move the job.

From that, most properties are read off one stage at a time; `NeverStranded` is, because
the flag is only ever raised while the CPU thread spins and no device is about to lower
it, which is what the user's waiting is for.  Others need a little more: `OwnerInside`,
that the instruction executed is the one fetched and the process's own (`XInv`); the
exact page count, that a job that has executed anything is in memory until it is
unloaded (`PagesExact`); the log, that whoever is interrupted and goes on is not through
(`LogInv`).  `OneIsABatch` says that a user who submits a single program keeps to
`BatchSpec` without knowing of it, since until then no thread has anything to do
(`Unused`): with `MaxProcs = 1` these are theorems about `Spec`.

**List.** `LInv` says that the nodes met from `header` are those of some sequence
without repetitions, of which `tail` is the last, in order of keys in a sorted list and
with right `prev` pointers in one that is pushed to (`Good`); or that the list is not
sound. `At` is a recursive function, and `Walk` finds its values by the least position
at which they might differ.  An insertion makes the sequence one with a node more
(`NodeLinkedIn`), a deletion one without the nodes from the one that `prev` names up to
the one found (`NodesUnlinked`), and where `prev` names no node before it the walk meets
the freed node (`FreedIsMet`): exactly what `DeleteSorted` and `Undefined` allow.

**Page table.** The invariant is that the table is empty: both searches then return the
slot behind it (`BehindTheTable`), where writes leave the table empty.  With what the
callers have tested before a call (`CallOK`), every page is an invisible step of
`FreePages` and the last one of a call its `Load` or `Unload`.

**Semaphores.** `IInv` says that the nodes, but for the one being pushed, form a chain
from header to tail (`ChainOK`), that what the main thread has read of its line so far
is on it (`ReaderOK`), that the semaphores of every created process are (`CreatedOK`),
and that what the CPU thread is searching for lies at its pointer or behind it, in the
settled part (`SearchOK`).  The last one is why an unlocked search is safe: it ends
before the node whose `next` is not set.  No step makes the settled part shorter
(`Grows`).

**Log.** Mutual exclusion by `log_semaphore` (`Exclusive`), for any number of threads,
and the tail of `LOGS` being the message of the thread about to draw.  The windows then
show what has been drawn, which is `LOGS` without the message about to be drawn
(`ShowsDrawn`); a message drawn continues each window at the place its counter says
(`CountsLines`).  `ReportInv` says how many lines the report under way still lacks, and
that the window holds as many as have been drawn of it.

`ListsProofs` proves what the list operators return (`InsertAt`, `RemoveAt`,
`RemoveFirst`, `Min`, the insertion loops, `DeleteSorted`), from the definitions in
the library.

**Only model-checked**: liveness (`EventuallyFinished` in `compute` and `batch`,
`KeepsExecuting` in `compute`), since TLAPS does not reason about fairness and ENABLED.
Every invariant and every safety property of the passing runs is stated by a theorem;
`NeverStranded`, `FreePagesBounded` and `PCBComplete`, which `stranded`, `double_unload`
and `pcb_race` refute in general, for one program at a time.  `FaultsOnlyInPCB` and,
with several programs, `StatusAgrees` are only proved: no run has several programs whose
segments all fit.

Induction over data is done where it is needed by a least counterexample (`MinIsLeast`),
as in `Walk`.

## 6. Plan

Done, in this order: `Lists`, `Machine`, `Scheduler`, `Interrupt`, `Memory`, `Cpu`,
`Disk`, `Printer`, `Ui`, `AlienOS`, `MCAlienOS` and the proofs of types, locks and the
ready list; then `Loader`, `PageTable` and `FreePages`, `LinkedList` and
`AbstractList`, `SemaphoreList`, `Display`, `Lifecycle`, with the proofs about the
disk, the page table, the semaphores and the log; then the proofs about programs that
only compute, the memory, the windows and the pointers of `LinkedList`; last `Batch` and
the proofs about any programs, one at a time.

What could follow, most important first:

1. Devices in `Lifecycle`, as a phase of its own, so that `BatchSpec` can be shown to
   implement it, as `Spec` does for programs that only compute.
2. What holds of any workload in the place of `OnePlace`, if anything: a process that
   no thread has in hand is in at most two lists.
3. `FreePagesBounded` where no process is swapped out while it waits for a device.

### Not modelled, and why

* Reading the text of program files: `File` and its fields are constants.  Files the
  loader mishandles (priority 0 divides by zero, `EXEC 0` counts down for ever, a
  semaphore line without its end) are excluded by assumption, and so is a P or V on a
  semaphore that its program does not declare, of which cpu.c:86-87 uses what `find`
  returns without a test.
* Segments larger than the memory: the model faults there (`SwapUndefined`), no
  workload has one.
* curses: colours, boxes, the title art, what happens when the terminal is
  resized while the program runs (the counters of `refresh_log` are compared for
  *equality* with the new height), and the main thread's own use of it at the prompt,
  which no semaphore guards.
* `free_list` and the comparisons that the kernel passes to `create_list` but never
  calls.
* What undefined behaviour leads to: also `push` on `PCB` through a node that has been
  freed, and `delete_list` on `PCB` through a `tail` that is not the last node, end in a
  fault.  One thing is left out of these races: that `malloc` gives the freed node to
  the new process and the stale pointer names it again.
* A ready list that is sorted by one field of its entries, the priority, and searched by
  another, the id: `LinkedList` has one key.  In the whole program it is both, with
  `DeleteSorted` for what `delete_list` does at a position.
* `test/list-test.c` asserts nothing and is not built; its operations are among those of
  `lists`.
