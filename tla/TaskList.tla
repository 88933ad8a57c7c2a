------------------------------ MODULE TaskList ------------------------------
(***************************************************************************)
(* The list of tasks (src/proc/task.c): a doubly linked list threaded        *)
(* through the task structures, with the globals task_head, task_tail and    *)
(* current_task.  task_free is left out: the only calls that can be reached   *)
(* are those of a task_new that fails, for a task that was never linked.      *)
(* A definition marked wrong is a deliberate mistake in the next one.        *)
(***************************************************************************)
EXTENDS Integers

CONSTANT TaskAddrs      \* where a struct task can be

NoTask == -1            \* the null pointer

ASSUME TaskAssumption == NoTask \notin TaskAddrs

VARIABLES
  nodes,          \* the next and prev fields at every address
  task_head,
  task_tail,
  current_task,
  linked          \* history: the tasks made

listVars == <<nodes, task_head, task_tail, current_task, linked>>

Zeroed == [next |-> NoTask, prev |-> NoTask]

ListInit == /\ nodes = [t \in TaskAddrs |-> Zeroed]
            /\ task_head = NoTask /\ task_tail = NoTask /\ current_task = NoTask
            /\ linked = {}

(* A store to n[t].f; the code never makes one through a null pointer.        *)
SetNext(n, t, x) == [n EXCEPT ![t].next = x]
SetPrev(n, t, x) == [n EXCEPT ![t].prev = x]

(* task_new, once kzalloc returned t and task_init succeeded.  The first task *)
(* becomes the head, the tail and the current one; a later one the tail.      *)
TaskNewNoPrev(t) ==                     \* wrong: prev is not set
  LET fresh == [nodes EXCEPT ![t] = Zeroed]
  IN  /\ linked' = linked \cup {t}
      /\ task_tail' = t
      /\ IF task_head = NoTask
         THEN /\ nodes' = fresh /\ task_head' = t /\ current_task' = t
         ELSE /\ nodes' = SetNext(fresh, task_tail, t)
              /\ UNCHANGED <<task_head, current_task>>

TaskNewKeepsTail(t) ==                  \* wrong: the tail stays the first task
  LET fresh == [nodes EXCEPT ![t] = Zeroed]
  IN  /\ linked' = linked \cup {t}
      /\ IF task_head = NoTask
         THEN /\ nodes' = fresh /\ task_head' = t /\ current_task' = t
              /\ task_tail' = t
         ELSE /\ nodes' = SetPrev(SetNext(fresh, task_tail, t), t, task_tail)
              /\ UNCHANGED <<task_head, task_tail, current_task>>

TaskNew(t) ==
  LET fresh == [nodes EXCEPT ![t] = Zeroed]
  IN  /\ linked' = linked \cup {t}
      /\ task_tail' = t
      /\ IF task_head = NoTask
         THEN /\ nodes' = fresh /\ task_head' = t /\ current_task' = t
         ELSE /\ nodes' = SetPrev(SetNext(fresh, task_tail, t), t, task_tail)
              /\ UNCHANGED <<task_head, current_task>>

(* task_switch, also of task_run_first_ever_task.                             *)
TaskSwitch(t) == /\ t \in linked
                 /\ current_task' = t
                 /\ UNCHANGED <<nodes, task_head, task_tail, linked>>

-----------------------------------------------------------------------------
(* Properties.                                                              *)

(* The links of a task lead to tasks, back and forth: the prev of a task's    *)
(* next is the task, and a task without prev is the head (task.h:40-44, "The  *)
(* next task in the linked list", "Previous task in the linked list").       *)
LinksMatch ==
  \A t \in linked :
    /\ nodes[t].next # NoTask =>
         nodes[t].next \in linked /\ nodes[nodes[t].next].prev = t
    /\ nodes[t].prev # NoTask =>
         nodes[t].prev \in linked /\ nodes[nodes[t].prev].next = t
    /\ (nodes[t].prev = NoTask) <=> (t = task_head)
    /\ (nodes[t].next = NoTask) <=> (t = task_tail)
=============================================================================
