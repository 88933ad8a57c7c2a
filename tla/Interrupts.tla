----------------------------- MODULE Interrupts -----------------------------
(***************************************************************************)
(* From user mode into the kernel and back (src/sys/idt.c, src/x86/idt.asm): *)
(* system calls 0 (sum) and 1 (print) of src/proc/commands.c and hardware    *)
(* interrupts, one C call per step.  The kernel changes the page directory   *)
(* and the data segments several times on its way: it looks at the task's    *)
(* memory through the task's directory, and at its own through kernel_chunk.  *)
(*                                                                         *)
(* Every gate clears the interrupt flag and the kernel never sets it, so a   *)
(* handler is not interrupted; nothing registers an interrupt callback       *)
(* (src/sys/kernel.c:189), and current_task stays the head of the task list. *)
(* A value in memory is named by the directory, stack pointer and index it   *)
(* was read with.                                                            *)
(* A definition marked wrong is a deliberate mistake in the next one.        *)
(***************************************************************************)
EXTENDS Integers

CONSTANTS
  Tasks,        \* the tasks that were loaded
  Head,         \* task_head, the first of them
  Frames,       \* the blocks of the heap
  Own,          \* the blocks process_map_memory made writable, by task
  Spare,        \* the blocks that may be free when the first task starts
  StackPtrs,    \* stack pointers a program can have
  Others        \* system call numbers that no command is registered for

Numbers == {0, 1} \cup Others

Kernel == "kernel"      \* kernel_chunk; also the kernel's data segment
User   == "user"        \* the user data segment, 0x23

ASSUME InterruptsAssumption ==
  /\ Head \in Tasks /\ Kernel \notin Tasks
  /\ Own \in [Tasks -> SUBSET (Frames \ Spare)]
  /\ Spare \subseteq Frames
  /\ Others \cap {-1, 0, 1} = {}
  /\ Frames \subseteq Nat

VARIABLES
  pc,           \* the next C call, "user" in user mode
  directory,    \* cr3
  ds,           \* the data segment registers
  current_task,
  esp,          \* the frame's stack pointer
  saved,        \* task->registers.esp
  command,      \* the system call number, -1 for a hardware interrupt
  v1, v2,       \* the stack items 0 and 1, once they are read
  tmp,          \* copy_string_from_task's page, -1 for none
  writable,     \* what each task's directory lets the task write
  free,         \* the heap's free blocks
  text,         \* what that page holds
  buf,          \* command1_print's buffer
  eax,          \* the result: the values that are added up
  free0         \* history: what was free when the first task started

cpu  == <<directory, ds>>
task == <<current_task, esp, saved, free0>>
args == <<command, v1, v2>>
page == <<tmp, writable, free>>
bufs == <<text, buf>>
vars == <<pc, cpu, task, args, page, bufs, eax>>

NoBlock == -1
Item(d, sp, k) == [dir |-> d, sp |-> sp, index |-> k]
NoItem == Item(Kernel, -1, -1)
Text(d, p) == [dir |-> d, at |-> p]
NoText == Text(Kernel, NoItem)      \* uninitialized bytes of the kernel stack

-----------------------------------------------------------------------------
(* kernel_main before the first task runs.                                   *)
Init ==
  /\ pc = "boot"
  /\ directory = Kernel /\ ds = Kernel
  /\ current_task = Head
  /\ saved \in [Tasks -> StackPtrs]
  /\ esp = saved[Head]
  /\ command = -1 /\ v1 = NoItem /\ v2 = NoItem /\ tmp = NoBlock
  /\ writable = Own
  /\ free \in SUBSET Spare /\ free0 = free
  /\ text = NoText /\ buf = NoText /\ eax = <<>>

Goto(from, to) == pc = from /\ pc' = to

KernelPage == directory' = Kernel /\ ds' = Kernel

(* task_page_task, and task_page with the current task.                      *)
TaskPageNoSegments(t) == directory' = t /\ UNCHANGED ds   \* wrong: no user_registers
TaskPage(t) == directory' = t /\ ds' = User

(* task_run_first_ever_task; task_return loads the segments and the stack     *)
(* pointer that task_init chose.                                             *)
RunFirstEverTask ==
  /\ Goto("boot", "user")
  /\ current_task' = Head
  /\ directory' = Head /\ ds' = User
  /\ esp' = saved[Head]
  /\ UNCHANGED <<args, page, bufs, saved, eax, free0>>

(* The program pushes and pops.                                              *)
UserRuns ==
  /\ pc = "user"
  /\ esp' \in StackPtrs
  /\ UNCHANGED <<cpu, args, page, bufs, pc, current_task, saved, eax, free0>>

(* interrupt_handler, whose callback entry is always null; the registers are  *)
(* not saved.                                                                *)
Interrupt ==
  /\ Goto("user", "task_page")
  /\ command' = -1
  /\ KernelPage
  /\ UNCHANGED <<task, page, bufs, v1, v2, eax>>

-----------------------------------------------------------------------------
(* isr80h_wrapper and isr80h_handler.                                        *)

SystemCall(c) ==
  /\ Goto("user", "save")
  /\ command' = c
  /\ v1' = NoItem /\ v2' = NoItem
  /\ text' = NoText /\ buf' = NoText
  /\ KernelPage
  /\ UNCHANGED <<task, page, eax>>

SaveStateNot ==             \* wrong: the registers are not saved
  /\ Goto("save", "dispatch")
  /\ UNCHANGED <<cpu, task, args, page, bufs, eax>>

SaveStateKernel ==          \* wrong: saves the kernel's stack pointer
  /\ Goto("save", "dispatch")
  /\ saved' = [saved EXCEPT ![current_task] = 0]
  /\ UNCHANGED <<cpu, args, page, bufs, current_task, esp, eax, free0>>

SaveState ==
  /\ Goto("save", "dispatch")
  /\ saved' = [saved EXCEPT ![current_task] = esp]
  /\ UNCHANGED <<cpu, args, page, bufs, current_task, esp, eax, free0>>

(* isr80h_handle_command: no command, result 0; sum reads stack item 1 first. *)
DispatchHalts ==            \* wrong: an unknown command is not answered
  /\ pc = "dispatch" /\ command \in {0, 1}
  /\ pc' = "page_stack"
  /\ UNCHANGED <<cpu, task, args, page, bufs, eax>>

DispatchStale ==            \* wrong: an unknown command leaves eax as it was
  /\ pc = "dispatch"
  /\ pc' = IF command \in {0, 1} THEN "page_stack" ELSE "task_page"
  /\ UNCHANGED <<cpu, task, args, page, bufs, eax>>

Dispatch ==
  /\ pc = "dispatch"
  /\ pc' = IF command \in {0, 1} THEN "page_stack" ELSE "task_page"
  /\ eax' = IF command \in {0, 1} THEN eax ELSE <<>>
  /\ UNCHANGED <<cpu, task, args, page, bufs>>

(* task_get_stack_item of the current task: task_page_task, the read, and      *)
(* kernel_page.                                                              *)
PageStack ==
  /\ Goto("page_stack", "read_stack")
  /\ TaskPage(current_task)
  /\ UNCHANGED <<task, args, page, bufs, eax>>

ReadStack ==
  /\ pc = "read_stack"
  /\ LET wantsTwo == command = 0 /\ v2 = NoItem
         item(k) == Item(directory, saved[current_task], k)
     IN  /\ v2' = IF wantsTwo THEN item(1) ELSE v2
         /\ v1' = IF wantsTwo THEN v1 ELSE item(0)
         /\ pc' = IF wantsTwo THEN "page_stack" ELSE IF command = 0 THEN "sum" ELSE "alloc"
  /\ KernelPage
  /\ UNCHANGED <<task, page, bufs, command, eax>>

(* isr80h_command0_sum.                                                      *)
Sum ==
  /\ Goto("sum", "task_page")
  /\ eax' = <<v1, v2>>
  /\ UNCHANGED <<cpu, task, args, page, bufs>>

-----------------------------------------------------------------------------
(* isr80h_command1_print: copy_string_from_task, then print.  Its result is   *)
(* not looked at, so that without memory `buf' is printed as it is.          *)

AllocFails ==
  /\ Goto("alloc", "print")
  /\ free = {}
  /\ UNCHANGED <<cpu, task, args, page, bufs, eax>>

Lowest(S) == CHOOSE b \in S : \A c \in S : b <= c

(* kzalloc, paging_get of the old entry, and paging_map: the page is now       *)
(* writable through the task's directory.                                    *)
Alloc ==
  /\ Goto("alloc", "copy_in")
  /\ free # {}
  /\ tmp' = Lowest(free)
  /\ free' = free \ {tmp'}
  /\ writable' = [writable EXCEPT ![current_task] = @ \cup {tmp'}]
  /\ directory' = current_task
  /\ UNCHANGED <<task, args, bufs, ds, eax>>

(* strncpy from the task, and kernel_page.                                   *)
CopyInLate ==               \* wrong: kernel_page comes first
  /\ Goto("copy_in", "restore")
  /\ text' = Text(Kernel, v1)
  /\ KernelPage
  /\ UNCHANGED <<task, args, page, buf, eax>>

CopyIn ==
  /\ Goto("copy_in", "restore")
  /\ text' = Text(directory, v1)
  /\ KernelPage
  /\ UNCHANGED <<task, args, page, buf, eax>>

(* paging_set of the old entry.                                              *)
RestoreNot ==               \* wrong: the page stays writable for the task
  /\ Goto("restore", "copy_out")
  /\ UNCHANGED <<cpu, task, args, page, bufs, eax>>

Restore ==
  /\ Goto("restore", "copy_out")
  /\ writable' = [writable EXCEPT ![current_task] = @ \ {tmp}]
  /\ UNCHANGED <<cpu, task, args, bufs, tmp, free, eax>>

(* strncpy to `buf', and kfree.                                              *)
CopyOut ==
  /\ Goto("copy_out", "print")
  /\ buf' = text
  /\ free' = free \cup {tmp}
  /\ tmp' = NoBlock
  /\ UNCHANGED <<cpu, task, args, writable, text, eax>>

PrintBuf ==
  /\ Goto("print", "task_page")
  /\ eax' = <<>>
  /\ UNCHANGED <<cpu, task, args, page, bufs>>

(* task_page and the return to the program.                                  *)
TaskPageReturn ==
  /\ Goto("task_page", "user")
  /\ TaskPage(current_task)
  /\ UNCHANGED <<task, args, page, bufs, eax>>

InKernel ==
  \/ SaveState \/ Dispatch \/ PageStack \/ ReadStack \/ Sum
  \/ AllocFails \/ Alloc \/ CopyIn \/ Restore \/ CopyOut \/ PrintBuf
  \/ TaskPageReturn

Next ==
  \/ RunFirstEverTask \/ UserRuns \/ Interrupt
  \/ \E c \in Numbers : SystemCall(c)
  \/ InKernel

(* The kernel, once entered, is not preempted and runs to the return.         *)
Spec == Init /\ [][Next]_vars /\ WF_vars(InKernel)

-----------------------------------------------------------------------------
(* Properties.                                                              *)

(* The registers, the page tables and the heap hold what they should.         *)
IntTypeOK ==
  /\ pc \in {"boot", "user", "save", "dispatch", "page_stack", "read_stack", "sum",
             "alloc", "copy_in", "restore", "copy_out", "print", "task_page"}
  /\ directory \in Tasks \cup {Kernel} /\ ds \in {Kernel, User}
  /\ current_task \in Tasks
  /\ esp \in StackPtrs /\ saved \in [Tasks -> StackPtrs]
  /\ command \in {-1, 0, 1} \cup Others
  /\ tmp \in Frames \cup {NoBlock}
  /\ writable \in [Tasks -> SUBSET Frames]
  /\ free \subseteq Spare

(* Whatever the kernel did, a program always finds itself in its own address  *)
(* space and with user segments: every way out of isr80h_handler and          *)
(* interrupt_handler, failing commands included, leads through task_page.     *)
UserContext == pc = "user" => directory = Head /\ ds = User

(* A program can write its own frames and nothing else, however many calls    *)
(* it made: the heap block that copy_string_from_task lends it for a copy     *)
(* (src/proc/task.c:38) is taken from it, and given back to the heap, before  *)
(* the program runs on.                                                      *)
NothingLent == pc = "user" => writable = Own /\ free = free0

(* sum adds up the two items on top of the caller's stack, read with the      *)
(* stack pointer of this call and through the caller's page directory.        *)
SumOfCaller ==
  (pc = "task_page" /\ command = 0) =>
     eax = <<Item(current_task, esp, 0), Item(current_task, esp, 1)>>

(* print shows the string that the caller's stack points to, in the caller's  *)
(* memory.  When no block is left for the copy, it shows what was on the      *)
(* kernel's stack instead.                                                   *)
PrintsCallers ==
  pc = "print" =>
    buf = IF free0 = {} THEN NoText
          ELSE Text(current_task, Item(current_task, esp, 0))

(* The abstract values of a state: how far the call is, what it was answered,   *)
(* and what the program can see while it runs.                               *)
Mode == CASE pc = "boot" -> "boot"
          [] pc = "user" -> "user"
          [] pc = "task_page" -> "served"
          [] OTHER -> "called"

Answer(value, shown) == [value |-> value, shown |-> shown]

Answered ==
  IF pc = "task_page" /\ command # -1
  THEN {Answer(eax, IF command = 1 THEN buf ELSE NoText)} ELSE {}

ViewOf(d, s, w) == [directory |-> d, ds |-> s, writable |-> w]

Answers ==
  [memory \in BOOLEAN |-> [c \in Numbers |-> [sp \in StackPtrs |->
     IF c = 0 THEN Answer(<<Item(Head, sp, 0), Item(Head, sp, 1)>>, NoText)
     ELSE Answer(<<>>, IF c = 1 /\ memory THEN Text(Head, Item(Head, sp, 0)) ELSE NoText)]]]

SC == INSTANCE SystemCalls WITH
        Context <- ViewOf(Head, User, Own),
        mode    <- Mode,
        call    <- command,
        memory  <- free0 # {},
        answer  <- Answered,
        view    <- IF pc = "user" THEN {ViewOf(directory, ds, writable)} ELSE {}

(* The handlers of src/sys/idt.c implement the interface of module SystemCalls: *)
(* however many steps a call takes, it is answered once, with the answer to    *)
(* its own number and stack, an unknown number included, and the program has   *)
(* its view of the machine back when it runs on.                             *)
ImplementsSystemCalls == SC!Spec

(* Every system call and every interrupt comes back to the program.           *)
CallReturns == pc \notin {"boot", "user"} ~> pc = "user"
=============================================================================
