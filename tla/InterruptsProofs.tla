-------------------------- MODULE InterruptsProofs --------------------------
(***************************************************************************)
(* Theorems about module Interrupts, for every set of tasks, blocks, stack   *)
(* pointers and system call numbers.                                         *)
(*                                                                         *)
(* The argument: UserContext and NothingLent are about the moments when the  *)
(* program runs, and each handler is a straight line of C calls, so the      *)
(* invariant says for every call of the line what the calls before it have   *)
(* done: where the page directory stands, what copy_string_from_task has     *)
(* lent, and what was read with which stack pointer.  CallsLeft counts the    *)
(* calls to the end of the line.                                             *)
(***************************************************************************)
EXTENDS Interrupts, TLAPS, WellFoundedInduction

(* A set of naturals that is not empty has a lowest member.                  *)
LEMMA LowestIsMember ==
  ASSUME NEW S, S \subseteq Nat, S # {}
  PROVE  Lowest(S) \in S
<1>1. \E s \in S : \A t \in S : ~ (<<t, s>> \in OpToRel(<, Nat))
  BY NatLessThanWellFounded, WFMin
<1>2. PICK s \in S : \A t \in S : ~ (<<t, s>> \in OpToRel(<, Nat))
  BY <1>1
<1>3. \A t \in S : ~ (t < s)
  BY <1>2 DEF OpToRel
<1>4. \A t \in S : s <= t
  BY <1>3
<1> QED  BY <1>4 DEF Lowest

-----------------------------------------------------------------------------
(* The invariant.                                                           *)

Copying == {"copy_in", "restore", "copy_out"}
Printing == {"alloc", "print"} \cup Copying
Saved == {"dispatch", "page_stack", "read_stack", "sum"} \cup Printing

(* What copy_string_from_task has lent to the program.                       *)
LentInv ==
  /\ pc \notin Copying => writable = Own /\ free = free0
  /\ pc \in Copying => tmp \in free0 /\ free = free0 \ {tmp}
  /\ pc \in {"copy_in", "restore"} => writable = [Own EXCEPT ![Head] = @ \cup {tmp}]
  /\ pc = "copy_out" => writable = Own

(* Where the page directory stands.                                          *)
DirectoryInv ==
  /\ current_task = Head
  /\ pc \in {"user", "read_stack", "copy_in"} => directory = Head
  /\ pc = "user" => ds = User

(* What was read.                                                            *)
ReadInv ==
  /\ pc \in Saved => saved[Head] = esp
  /\ pc \in {"page_stack", "read_stack"} =>
       command \in {0, 1} /\ v2 \in {NoItem, Item(Head, esp, 1)}
  /\ pc = "sum" => command = 0 /\ v1 = Item(Head, esp, 0) /\ v2 = Item(Head, esp, 1)
  /\ pc \in Printing => command = 1 /\ v1 = Item(Head, esp, 0)
  /\ pc \in {"alloc"} \cup Copying => buf = NoText
  /\ pc \in Copying => free0 # {}
  /\ pc \in {"save", "dispatch", "page_stack", "read_stack"} => buf = NoText
  /\ pc \in {"restore", "copy_out"} => text = Text(Head, Item(Head, esp, 0))
  /\ (pc = "task_page" /\ command = 0) => eax = <<Item(Head, esp, 0), Item(Head, esp, 1)>>
  /\ pc \in {"save", "dispatch"} => v2 = NoItem /\ command # -1

Inv == IntTypeOK /\ free0 \subseteq Spare /\ LentInv /\ DirectoryInv /\ ReadInv /\ PrintsCallers

(* Before the first task runs nothing is lent and nothing was read.          *)
LEMMA InitInv == Init => Inv
  BY InterruptsAssumption
     DEF Init, Inv, IntTypeOK, LentInv, DirectoryInv, ReadInv, PrintsCallers, Copying, Printing, Saved

(* The program's own steps, and its way into the kernel.                     *)
LEMMA EntryInv ==
  ASSUME Inv, \/ RunFirstEverTask \/ UserRuns \/ Interrupt
              \/ \E c \in Numbers : SystemCall(c)
  PROVE  Inv'
<1> USE InterruptsAssumption
    DEF Inv, IntTypeOK, LentInv, DirectoryInv, ReadInv, PrintsCallers, Copying, Printing, Saved,
        Goto, cpu, task, args, page, bufs, KernelPage
<1>1. CASE RunFirstEverTask  BY <1>1 DEF RunFirstEverTask
<1>2. CASE UserRuns  BY <1>2 DEF UserRuns
<1>3. CASE Interrupt  BY <1>3 DEF Interrupt
<1>4. ASSUME NEW c \in Numbers, SystemCall(c) PROVE Inv'
  BY <1>4 DEF SystemCall, Numbers
<1> QED  BY <1>1, <1>2, <1>3, <1>4

(* The calls that read the stack, and the way out.                           *)
LEMMA HandlerInv ==
  ASSUME Inv, \/ SaveState \/ Dispatch \/ PageStack \/ ReadStack \/ Sum
              \/ PrintBuf \/ TaskPageReturn
  PROVE  Inv'
<1> USE InterruptsAssumption
    DEF Inv, IntTypeOK, LentInv, DirectoryInv, ReadInv, PrintsCallers, Copying, Printing, Saved,
        Goto, cpu, task, args, page, bufs, KernelPage, TaskPage
<1>1. CASE SaveState  BY <1>1 DEF SaveState
<1>2. CASE Dispatch  BY <1>2 DEF Dispatch
<1>3. CASE PageStack  BY <1>3 DEF PageStack
<1>4. CASE ReadStack
  <2>1. Item(Head, esp, 1) # NoItem  BY DEF Item, NoItem
  <2> QED  BY <1>4, <2>1 DEF ReadStack
<1>5. CASE Sum  BY <1>5 DEF Sum
<1>6. CASE PrintBuf  BY <1>6 DEF PrintBuf
<1>7. CASE TaskPageReturn  BY <1>7 DEF TaskPageReturn
<1> QED  BY <1>1, <1>2, <1>3, <1>4, <1>5, <1>6, <1>7

(* copy_string_from_task takes a block and lets the program write it.        *)
LEMMA AllocInv ==
  ASSUME Inv, Alloc
  PROVE  Inv'
<1> DEFINE b == Lowest(free)
<1>1. /\ pc = "alloc" /\ pc' = "copy_in"
      /\ tmp' = b /\ free' = free \ {b} /\ free # {}
      /\ writable' = [writable EXCEPT ![current_task] = @ \cup {b}]
      /\ directory' = current_task /\ ds' = ds
      /\ current_task' = current_task /\ esp' = esp /\ saved' = saved /\ free0' = free0
      /\ command' = command /\ v1' = v1 /\ v2' = v2
      /\ text' = text /\ buf' = buf /\ eax' = eax
  BY DEF Alloc, Goto, task, args, bufs
<1> HIDE DEF b
<1>2. free0 \subseteq Spare /\ free = free0 /\ writable = Own /\ current_task = Head
  BY <1>1 DEF Inv, LentInv, DirectoryInv, Copying
<1>3. b \in free0 /\ b \in Frames
  <2>1. free \subseteq Nat  BY <1>2, InterruptsAssumption
  <2> QED  BY <1>1, <1>2, <2>1, LowestIsMember, InterruptsAssumption DEF b
<1>4. writable' = [Own EXCEPT ![Head] = @ \cup {b}]  BY <1>1, <1>2
<1>5. writable' \in [Tasks -> SUBSET Frames]
  <2>1. Own \in [Tasks -> SUBSET Frames] /\ Head \in Tasks  BY InterruptsAssumption
  <2> QED  BY <1>3, <1>4, <2>1
<1>6. IntTypeOK'  BY <1>1, <1>2, <1>3, <1>5 DEF Inv, IntTypeOK
<1>7. LentInv'  BY <1>1, <1>2, <1>3, <1>4 DEF LentInv, Copying
<1>8. DirectoryInv'  BY <1>1, <1>2 DEF DirectoryInv
<1>9. ReadInv'
  <2>1. /\ saved[Head] = esp /\ command = 1 /\ v1 = Item(Head, esp, 0) /\ buf = NoText
    BY <1>1 DEF Inv, ReadInv, Saved, Printing
  <2>2. free0 # {}  BY <1>1, <1>2
  <2> QED  BY <1>1, <2>1, <2>2 DEF ReadInv, Saved, Printing, Copying
<1>10. PrintsCallers'  BY <1>1 DEF PrintsCallers
<1> QED  BY <1>1, <1>2, <1>6, <1>7, <1>8, <1>9, <1>10 DEF Inv

(* copy_string_from_task.                                                    *)
LEMMA CopyInv ==
  ASSUME Inv, AllocFails \/ Alloc \/ CopyIn \/ Restore \/ CopyOut
  PROVE  Inv'
<1> USE InterruptsAssumption
    DEF Inv, IntTypeOK, LentInv, DirectoryInv, ReadInv, PrintsCallers, Copying, Printing, Saved,
        Goto, cpu, task, args, page, bufs, KernelPage
<1>1. CASE AllocFails  BY <1>1 DEF AllocFails
<1>2. ASSUME Alloc PROVE Inv'  BY <1>2, AllocInv, Zenon
<1>3. CASE CopyIn  BY <1>3 DEF CopyIn
<1>4. CASE Restore
  <2>1. writable' = Own
    <3>1. tmp \notin Own[Head]  BY <1>4 DEF Restore
    <3>2. (Own[Head] \cup {tmp}) \ {tmp} = Own[Head]  BY <3>1
    <3>3. writable = [Own EXCEPT ![Head] = @ \cup {tmp}]  BY <1>4 DEF Restore
    <3> QED  BY <1>4, <3>2, <3>3 DEF Restore
  <2> QED  BY <1>4, <2>1 DEF Restore
<1>5. CASE CopyOut  BY <1>5 DEF CopyOut
<1> QED  BY <1>1, <1>2, <1>3, <1>4, <1>5

(* Every step preserves the invariant.                                       *)
LEMMA NextInv == Inv /\ [Next]_vars => Inv'
<1> SUFFICES ASSUME Inv, [Next]_vars PROVE Inv'
  OBVIOUS
<1>1. CASE UNCHANGED vars
  BY <1>1 DEF vars, cpu, task, args, page, bufs, Inv, IntTypeOK, LentInv, DirectoryInv, ReadInv,
              PrintsCallers
<1>2. CASE Next
  BY <1>2, EntryInv, HandlerInv, CopyInv DEF Next, InKernel
<1> QED  BY <1>1, <1>2

-----------------------------------------------------------------------------
(* The theorems.                                                            *)

(* The program always finds its own address space and segments again when    *)
(* isr80h_handler or interrupt_handler returns to it.                        *)
THEOREM InterruptsUserContext == Spec => []UserContext
<1>1. Inv => UserContext  BY DEF Inv, DirectoryInv, UserContext
<1> QED  BY InitInv, NextInv, <1>1, PTL DEF Spec

(* copy_string_from_task takes back what it lends: in user mode a program can  *)
(* write its own frames only, and the heap has lost nothing.                 *)
THEOREM InterruptsNothingLent == Spec => []NothingLent
<1>1. Inv => NothingLent  BY DEF Inv, LentInv, NothingLent, Copying
<1> QED  BY InitInv, NextInv, <1>1, PTL DEF Spec

(* isr80h_command0_sum adds the caller's own two stack items.                 *)
THEOREM InterruptsSumOfCaller == Spec => []SumOfCaller
<1>1. Inv => SumOfCaller  BY DEF Inv, DirectoryInv, ReadInv, SumOfCaller
<1> QED  BY InitInv, NextInv, <1>1, PTL DEF Spec

(* isr80h_command1_print prints the caller's string, or the uninitialized     *)
(* buffer when the heap is exhausted.                                        *)
THEOREM InterruptsPrintsCallers == Spec => []PrintsCallers
<1>1. Inv => PrintsCallers  BY DEF Inv
<1> QED  BY InitInv, NextInv, <1>1, PTL DEF Spec

(* The registers, page tables and heap keep their types.                      *)
THEOREM InterruptsTypeOK == Spec => []IntTypeOK
<1>1. Inv => IntTypeOK  BY DEF Inv
<1> QED  BY InitInv, NextInv, <1>1, PTL DEF Spec

-----------------------------------------------------------------------------
(* The refinement.                                                          *)

(* The handlers start where the interface starts.                            *)
LEMMA InitImplements == Init => SC!Init
  BY InterruptsAssumption DEF Init, SC!Init, SC!NoCall, Mode, Answered

(* What a command leaves in eax and on the screen is the abstract answer.      *)
LEMMA AnswerIs ==
  ASSUME Inv, command \in Numbers, NEW value, NEW shown,
         command = 0 => value = <<Item(Head, esp, 0), Item(Head, esp, 1)>> /\ shown = NoText,
         command # 0 => value = <<>>,
         command = 1 => shown = IF free0 = {} THEN NoText ELSE Text(Head, Item(Head, esp, 0)),
         command \notin {0, 1} => shown = NoText
  PROVE  Answer(value, shown) = Answers[free0 # {}][command][esp]
<1>1. esp \in StackPtrs /\ (free0 # {}) \in BOOLEAN  BY DEF Inv, IntTypeOK
<1>2. Answers[free0 # {}][command][esp] =
        IF command = 0 THEN Answer(<<Item(Head, esp, 0), Item(Head, esp, 1)>>, NoText)
        ELSE Answer(<<>>, IF command = 1 /\ free0 # {} THEN Text(Head, Item(Head, esp, 0)) ELSE NoText)
  BY <1>1 DEF Answers
<1> QED  BY <1>2

(* The entries, and the way out, are steps of the interface.                  *)
LEMMA EdgesImplement ==
  ASSUME Inv, \/ RunFirstEverTask \/ UserRuns \/ Interrupt \/ TaskPageReturn
              \/ \E c \in Numbers : SystemCall(c)
  PROVE  SC!Next
<1> USE InterruptsAssumption
    DEF Inv, IntTypeOK, Goto, cpu, task, args, page, bufs, Mode, Answered, ViewOf, SC!Enters
<1>1. CASE RunFirstEverTask
  <2>1. SC!Start
    BY <1>1 DEF RunFirstEverTask, SC!Start, LentInv, DirectoryInv, Copying
  <2> QED  BY <2>1 DEF SC!Next
<1>2. CASE UserRuns
  <2>1. SC!Compute  BY <1>2 DEF UserRuns, SC!Compute
  <2> QED  BY <2>1 DEF SC!Next
<1>3. CASE Interrupt
  <2>1. SC!Interrupted  BY <1>3 DEF Interrupt, SC!Interrupted, SC!NoCall
  <2> QED  BY <2>1 DEF SC!Next
<1>4. CASE TaskPageReturn
  <2>1. SC!Return
    BY <1>4 DEF TaskPageReturn, TaskPage, SC!Return, LentInv, DirectoryInv, Copying
  <2> QED  BY <2>1 DEF SC!Next
<1>5. ASSUME NEW c \in Numbers, SystemCall(c) PROVE SC!Next
  <2>1. SC!Call(c)  BY <1>5 DEF SystemCall, SC!Call
  <2> QED  BY <2>1 DEF SC!Next
<1> QED  BY <1>1, <1>2, <1>3, <1>4, <1>5

(* So is the end of each command.                                            *)
LEMMA EndsImplement ==
  ASSUME Inv, \/ Sum \/ PrintBuf \/ (Dispatch /\ command \notin {0, 1})
  PROVE  SC!Serve
<1> USE DEF Inv, Goto, cpu, task, args, page, bufs
<1>1. CASE Sum
  <2>1. command = 0 /\ eax' = <<Item(Head, esp, 0), Item(Head, esp, 1)>>
    BY <1>1 DEF Sum, ReadInv
  <2>2. Answer(eax', NoText) = Answers[free0 # {}][command][esp]
    BY <2>1, AnswerIs DEF Numbers
  <2> QED  BY <1>1, <2>1, <2>2 DEF Sum, SC!Serve, SC!Enters, Mode, Answered
<1>2. CASE PrintBuf
  <2>1. /\ command = 1 /\ eax' = <<>>
        /\ buf = IF free0 = {} THEN NoText ELSE Text(Head, Item(Head, esp, 0))
    BY <1>2 DEF PrintBuf, ReadInv, PrintsCallers, DirectoryInv, Printing
  <2>2. Answer(eax', buf) = Answers[free0 # {}][command][esp]
    BY <2>1, AnswerIs DEF Numbers
  <2> QED  BY <1>2, <2>1, <2>2 DEF PrintBuf, SC!Serve, SC!Enters, Mode, Answered
<1>3. CASE Dispatch /\ command \notin {0, 1}
  <2>1. command \in Numbers /\ eax' = <<>>
    BY <1>3 DEF Dispatch, ReadInv, IntTypeOK, Numbers
  <2>2. Answer(eax', NoText) = Answers[free0 # {}][command][esp]
    BY <1>3, <2>1, AnswerIs
  <2> QED
    BY <1>3, <2>1, <2>2 DEF Dispatch, ReadInv, SC!Serve, SC!Enters, Mode, Answered
<1> QED  BY <1>1, <1>2, <1>3

(* Everything in between changes nothing that the program could tell.          *)
LEMMA InnerStutters ==
  ASSUME Inv, \/ SaveState \/ (Dispatch /\ command \in {0, 1}) \/ PageStack \/ ReadStack
              \/ AllocFails \/ Alloc \/ CopyIn \/ Restore \/ CopyOut
  PROVE  UNCHANGED SC!vars
  BY DEF SaveState, Dispatch, PageStack, ReadStack, AllocFails, Alloc, CopyIn, Restore, CopyOut,
         Goto, cpu, task, args, page, bufs, Mode, Answered, SC!vars

LEMMA StepImplements == Inv /\ [Next]_vars => [SC!Next]_SC!vars
<1> SUFFICES ASSUME Inv, [Next]_vars PROVE [SC!Next]_SC!vars
  OBVIOUS
<1>1. CASE UNCHANGED vars
  BY <1>1 DEF vars, cpu, task, args, page, bufs, Mode, Answered, SC!vars
<1>2. CASE Next
  BY <1>2, EdgesImplement, EndsImplement, InnerStutters DEF Next, InKernel, SC!Next
<1> QED  BY <1>1, <1>2

(* The handlers of isr80h_handler and interrupt_handler implement the system  *)
(* call interface: each call is answered once, with its own answer, and gives *)
(* the program its view of the machine back.                                 *)
THEOREM InterruptsImplementsSystemCalls == Spec => ImplementsSystemCalls
<1> QED
  BY InitInv, InitImplements, NextInv, StepImplements, PTL DEF Spec, ImplementsSystemCalls, SC!Spec

-----------------------------------------------------------------------------
(* Every call comes to an end.                                              *)

(* How many C calls the handler still makes before the program runs again: *)
(* sum reads two stack items, print one and then copies a string.           *)
CallsLeft ==
  CASE pc \in {"boot", "user"} -> 0
    [] pc = "task_page"        -> 1
    [] pc \in {"sum", "print"} -> 2
    [] pc = "copy_out"         -> 3
    [] pc = "restore"          -> 4
    [] pc = "copy_in"          -> 5
    [] pc = "alloc"            -> 6
    [] pc = "read_stack"       -> IF command = 1 THEN 7 ELSE IF v2 = NoItem THEN 5 ELSE 3
    [] pc = "page_stack"       -> IF command = 1 THEN 8 ELSE IF v2 = NoItem THEN 6 ELSE 4
    [] pc = "dispatch"         -> IF command = 1 THEN 9 ELSE IF command = 0 THEN 7 ELSE 2
    [] pc = "save"             -> IF command = 1 THEN 10 ELSE IF command = 0 THEN 8 ELSE 3

(* The program runs when none is left, and no call makes more than ten.     *)
LEMMA CallsLeftBounded ==
  IntTypeOK => CallsLeft \in 0 .. 10 /\ (CallsLeft = 0 <=> pc \in {"boot", "user"})
<1> SUFFICES ASSUME IntTypeOK
             PROVE  CallsLeft \in 0 .. 10 /\ (CallsLeft = 0 <=> pc \in {"boot", "user"})
  OBVIOUS
<1>1. CASE pc \in {"boot", "user"}
  <2>1. CallsLeft = 0  BY <1>1 DEF CallsLeft
  <2> QED  BY <1>1, <2>1
<1>2. CASE pc \in {"task_page", "sum", "print", "copy_out", "restore", "copy_in", "alloc"}
  <2>1. CallsLeft \in 1 .. 6  BY <1>2 DEF CallsLeft
  <2> QED  BY <1>2, <2>1
<1>3. CASE pc \in {"read_stack", "page_stack", "dispatch", "save"}
  <2>1. CallsLeft \in 2 .. 10  BY <1>3 DEF CallsLeft
  <2> QED  BY <1>3, <2>1
<1> QED  BY <1>1, <1>2, <1>3 DEF IntTypeOK

(* Each call of the handler is one less to make.                            *)
LEMMA CallsDecrease ==
  Inv /\ [Next]_vars => [pc \notin {"boot", "user"} => CallsLeft' < CallsLeft]_vars
<1> SUFFICES ASSUME Inv, Next, pc \notin {"boot", "user"} PROVE CallsLeft' < CallsLeft
  OBVIOUS
<1>1. InKernel
  BY DEF Next, RunFirstEverTask, UserRuns, Interrupt, SystemCall, Goto
<1> USE DEF Goto, cpu, task, args, page, bufs, CallsLeft
<1>2. CASE SaveState  BY <1>2 DEF SaveState
<1>3. CASE Dispatch
  <2>1. v2 = NoItem  BY <1>3 DEF Dispatch, Inv, ReadInv
  <2> QED  BY <1>3, <2>1 DEF Dispatch
<1>4. CASE PageStack  BY <1>4 DEF PageStack
<1>5. CASE ReadStack
  <2>1. command \in {0, 1}  BY <1>5 DEF ReadStack, Inv, ReadInv
  <2>2. Item(directory, saved[current_task], 1) # NoItem
    <3>1. directory = Head /\ Head # Kernel
      BY <1>5, InterruptsAssumption DEF ReadStack, Inv, DirectoryInv
    <3> QED  BY <3>1 DEF Item, NoItem
  <2> QED  BY <1>5, <2>1, <2>2 DEF ReadStack
<1>6. CASE Sum  BY <1>6 DEF Sum
<1>7. CASE AllocFails  BY <1>7 DEF AllocFails
<1>8. CASE Alloc  BY <1>8 DEF Alloc
<1>9. CASE CopyIn  BY <1>9 DEF CopyIn
<1>10. CASE Restore  BY <1>10 DEF Restore
<1>11. CASE CopyOut  BY <1>11 DEF CopyOut
<1>12. CASE PrintBuf  BY <1>12 DEF PrintBuf
<1>13. CASE TaskPageReturn  BY <1>13 DEF TaskPageReturn
<1> QED
  BY <1>1, <1>2, <1>3, <1>4, <1>5, <1>6, <1>7, <1>8, <1>9, <1>10, <1>11, <1>12, <1>13 DEF InKernel

(* Whatever is called and however it fails, isr80h_handler and                *)
(* interrupt_handler (src/sys/idt.c) are back in the program after at most ten *)
(* C calls: what CallReturns adds is that the processor makes them.          *)
THEOREM InterruptsCallsBounded ==
  Spec => /\ [](CallsLeft \in 0 .. 10 /\ (CallsLeft = 0 <=> pc \in {"boot", "user"}))
          /\ [][pc \notin {"boot", "user"} => CallsLeft' < CallsLeft]_vars
<1>1. Inv => IntTypeOK  BY DEF Inv
<1> QED  BY InitInv, NextInv, CallsLeftBounded, CallsDecrease, <1>1, PTL DEF Spec
=============================================================================
