---------------------------- MODULE SystemCalls ----------------------------
(***************************************************************************)
(* What a program may rely on when it enters the kernel: a call takes it away *)
(* from its own view of the machine, is answered once, with the answer to the *)
(* number and the stack it was made with, and gives the same view back; an    *)
(* interrupt does the same without an answer.                                *)
(***************************************************************************)
EXTENDS Integers

CONSTANTS
  Numbers,        \* of system calls
  StackPtrs,      \* stack pointers of the program
  Answers,        \* the answer, by memory, number and stack pointer
  Context         \* the view the program has of the machine

VARIABLES
  mode,           \* "boot", "user", "called" or "served"
  call,           \* the number called last, NoCall for an interrupt
  esp,
  memory,         \* there is a block of memory for the kernel to work with
  answer,         \* what the program is about to get: one answer or none
  view            \* what the program sees: its context or nothing

NoCall == -1

Init ==
  /\ mode = "boot" /\ call = NoCall /\ esp \in StackPtrs /\ memory \in BOOLEAN
  /\ answer = {} /\ view = {}

Enters(from, to) == mode = from /\ mode' = to

(* The first program starts on the stack it is given.                        *)
Start ==
  /\ Enters("boot", "user")
  /\ esp' \in StackPtrs
  /\ view' = {Context}
  /\ UNCHANGED <<call, memory, answer>>

Compute ==
  /\ Enters("user", "user")
  /\ esp' \in StackPtrs
  /\ UNCHANGED <<call, memory, answer, view>>

Call(c) ==
  /\ Enters("user", "called")
  /\ call' = c
  /\ view' = {}
  /\ UNCHANGED <<esp, memory, answer>>

Serve ==
  /\ Enters("called", "served")
  /\ answer' = {Answers[memory][call][esp]}
  /\ UNCHANGED <<call, esp, memory, view>>

Interrupted ==
  /\ Enters("user", "served")
  /\ call' = NoCall
  /\ view' = {}
  /\ UNCHANGED <<esp, memory, answer>>

Return ==
  /\ Enters("served", "user")
  /\ answer' = {}
  /\ view' = {Context}
  /\ UNCHANGED <<call, esp, memory>>

Next == Start \/ Compute \/ (\E c \in Numbers : Call(c)) \/ Serve \/ Interrupted \/ Return

vars == <<mode, call, esp, memory, answer, view>>

Spec == Init /\ [][Next]_vars
=============================================================================
