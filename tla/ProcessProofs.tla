---------------------------- MODULE ProcessProofs ----------------------------
(***************************************************************************)
(* Theorems about module Process, for every size of heap, of the process    *)
(* table, of pages and of page tables.                                      *)
(*                                                                          *)
(* The task list: only a load that succeeds changes the links, and it hangs a*)
(* task that was not in the list, being made of a free block (FreshInv),    *)
(* behind the tail.  LinksMatch alone does not say that there is a tail to  *)
(* hang it behind; ListInv does.  That the list follows the slots needs the *)
(* process of the tail as well: SlotInv.                                    *)
(*                                                                          *)
(* The memory of the programs: what paging_map_range makes of a directory is*)
(* Mapped, a directory written down without its loop; from it comes the entry*)
(* of every page of a loaded program (PageOf), and from that what it can read*)
(* and write.  That nobody else holds those blocks is OwnInv, which must    *)
(* speak of runs that stick out of the heap's end: two of them would meet   *)
(* behind the end, if they did not both need the heap's last block (Apart). *)
(***************************************************************************)
EXTENDS Process, HeapTableProofs

-----------------------------------------------------------------------------
(* A task is made of a block that no other task has.                        *)

(* Every outcome of a load leaves a part of what was free, or all of it.    *)
LEMMA FreeShrinks ==
  ASSUME [Next]_vars
  PROVE  free' \subseteq free
<1>1. ASSUME NEW F, NEW n PROVE After(F, n) \subseteq F  BY DEF After
<1>2. ASSUME NEW F, NEW k PROVE Lowest(F, k) \subseteq F  BY DEF Lowest
<1>3. WithProcess \subseteq free /\ WithPath \subseteq free /\ FileBlocks \subseteq free /\ WithFile \subseteq free
  BY <1>1, <1>2 DEF WithProcess, WithPath, FileBlocks, WithFile
<1>4. ASSUME NEW size PROVE Loaded(size) \subseteq free /\ WithTask(size) \subseteq free
  <2>1. Loaded(size) \subseteq free  BY <1>1, <1>3 DEF Loaded, WithImage
  <2> QED  BY <1>1, <2>1 DEF WithStack, WithTask
<1>5. ASSUME NEW size, LoadSucceeds(size) PROVE free' \subseteq free
  BY <1>4, <1>5 DEF LoadSucceeds
<1> QED
  BY <1>3, <1>4, <1>5
     DEF Next, vars, LoadRefused, LoadNoFile, LoadNoImage, LoadUnreadable, LoadNoStack, LoadNoTask,
         RunFirstEverTask

(* task_new links what kzalloc gave it, and kzalloc gives what is free.     *)
LEMMA TaskWasFree ==
  ASSUME free \subseteq Blocks, NEW size \in ImageSizes, LoadSucceeds(size)
  PROVE  \E t \in TaskAddrs : /\ t = Start(WithStack(size), 1) /\ TaskNew(t)
                              /\ t \in free /\ t \notin free'
<1> DEFINE F == WithStack(size)
           t == Start(F, 1)
<1>1. TaskNew(t) /\ Found(F, 1) /\ free' = WithTask(size) \ Directory(size)
  BY DEF LoadSucceeds, TaskFits
<1>2. F \subseteq free
  BY DEF WithStack, Loaded, WithImage, WithFile, FileBlocks, WithPath, WithProcess, After, Lowest
<1>3. WithTask(size) = F \ Run(F, 1) /\ Run(F, 1) = t .. (t + 1 - 1)
  BY DEF WithTask, After, Run
<1> HIDE DEF F
<1>4. t \in Blocks /\ \A i \in Blocks \cap (t .. (t + 1 - 1)) : IsFree(Table(F), i)
  BY <1>1, StartBlockIsFree DEF Found, Start
<1>5. t \in Int  BY <1>4, HeapAssumption DEF Blocks
<1> HIDE DEF t
<1>6. t .. (t + 1 - 1) = {t}  BY <1>5
<1>7. t \in F  BY <1>4, <1>6 DEF IsFree, EntryType, Table, FREE, TAKEN
<1> QED  BY <1>1, <1>2, <1>3, <1>4, <1>6, <1>7, ProcessAssumption DEF F, t

(* No task that is linked lies in a free block.                             *)
FreshInv == free \subseteq Blocks /\ linked \cap free = {}

LEMMA FreshInit == Init => FreshInv
  BY DEF Init, ListInit, FreshInv

LEMMA FreshStep == FreshInv /\ [Next]_vars => FreshInv'
<1> SUFFICES ASSUME FreshInv, [Next]_vars PROVE FreshInv'
  OBVIOUS
<1>1. free' \subseteq free  BY FreeShrinks
<1>2. CASE linked' = linked  BY <1>1, <1>2 DEF FreshInv
<1>3. ASSUME NEW size \in ImageSizes, LoadSucceeds(size) PROVE FreshInv'
  <2>1. PICK t \in TaskAddrs : TaskNew(t) /\ t \notin free'
    BY <1>3, TaskWasFree DEF FreshInv
  <2>2. linked' = linked \cup {t}  BY <2>1 DEF TaskNew
  <2> QED  BY <1>1, <2>1, <2>2 DEF FreshInv
<1> QED
  BY <1>2, <1>3
     DEF Next, vars, listVars, LoadRefused, LoadNoFile, LoadNoImage, LoadUnreadable, LoadNoStack, LoadNoTask,
         RunFirstEverTask, TaskSwitch

-----------------------------------------------------------------------------
(* The links.                                                               *)

(* Every task in the list is the address of a structure, and a list with a  *)
(* task has both its ends.                                                  *)
ListInv ==
  /\ linked \subseteq TaskAddrs
  /\ nodes \in [TaskAddrs -> [next : TaskAddrs \cup {NoTask}, prev : TaskAddrs \cup {NoTask}]]
  /\ linked = {} => task_head = NoTask /\ task_tail = NoTask
  /\ linked # {} => task_head \in linked /\ task_tail \in linked
  /\ current_task \in linked \cup {NoTask}
  /\ LinksMatch

LEMMA ListInitInv == Init => ListInv
  BY TaskAssumption DEF Init, ListInit, ListInv, LinksMatch, Zeroed

(* What task_new writes when the list is not empty and its tail is u.       *)
Appended(n, t, u) ==
  /\ n \in [TaskAddrs -> [next : TaskAddrs \cup {NoTask}, prev : TaskAddrs \cup {NoTask}]]
  /\ n[t] = [next |-> NoTask, prev |-> u]
  /\ n[u].next = t /\ n[u].prev = nodes[u].prev
  /\ \A v \in linked \ {u} : n[v] = nodes[v]

LEMMA TaskAppended ==
  ASSUME ListInv, NEW t \in TaskAddrs, t \notin linked, NEW u \in linked
  PROVE  Appended(SetPrev(SetNext([nodes EXCEPT ![t] = Zeroed], u, t), t, u), t, u)
BY DEF Appended, ListInv, SetNext, SetPrev, Zeroed

(* task_new keeps the list a list.                                          *)
LEMMA TaskNewInv ==
  ASSUME ListInv, NEW t \in TaskAddrs, t \notin linked, TaskNew(t)
  PROVE  ListInv'
<1> DEFINE fresh == [nodes EXCEPT ![t] = Zeroed]
<1>1. /\ t \notin linked /\ linked' = linked \cup {t} /\ task_tail' = t /\ t # NoTask
      /\ current_task' \in {current_task, t}
  BY TaskAssumption DEF TaskNew
<1>2. CASE task_head = NoTask
  <2>1. linked = {}  BY <1>2, TaskAssumption DEF ListInv
  <2>2. nodes' = fresh /\ task_head' = t  BY <1>2 DEF TaskNew
  <2>3. nodes'[t] = Zeroed  BY <2>2 DEF ListInv
  <2> QED  BY <1>1, <2>1, <2>2, <2>3, TaskAssumption DEF ListInv, LinksMatch, Zeroed
<1>3. CASE task_head # NoTask
  <2>1. linked # {} /\ task_tail \in linked  BY <1>3 DEF ListInv
  <2>2. /\ nodes' = SetPrev(SetNext(fresh, task_tail, t), t, task_tail)
        /\ task_head' = task_head
    BY <1>3 DEF TaskNew
  <2>3. /\ nodes' \in [TaskAddrs -> [next : TaskAddrs \cup {NoTask}, prev : TaskAddrs \cup {NoTask}]]
        /\ nodes'[t] = [next |-> NoTask, prev |-> task_tail]
        /\ nodes'[task_tail].next = t /\ nodes'[task_tail].prev = nodes[task_tail].prev
        /\ \A u \in linked \ {task_tail} : nodes'[u] = nodes[u]
    <3>1. Appended(SetPrev(SetNext(fresh, task_tail, t), t, task_tail), t, task_tail)
      BY <1>1, <2>1, TaskAppended, Zenon
    <3>2. Appended(nodes', t, task_tail)  BY <2>2, <3>1, Zenon
    <3> QED  BY <3>2, Zenon DEF Appended
  <2>4. ASSUME NEW u \in linked'
        PROVE  /\ nodes'[u].next # NoTask =>
                    nodes'[u].next \in linked' /\ nodes'[nodes'[u].next].prev = u
               /\ nodes'[u].prev # NoTask =>
                    nodes'[u].prev \in linked' /\ nodes'[nodes'[u].prev].next = u
               /\ (nodes'[u].prev = NoTask) <=> (u = task_head')
               /\ (nodes'[u].next = NoTask) <=> (u = task_tail')
    <3>0. task_head \in linked /\ NoTask \notin linked /\ task_tail # t
      BY <1>1, <2>1, TaskAssumption DEF ListInv
    <3>1. CASE u = t
      BY <1>1, <2>1, <2>2, <2>3, <3>0, <3>1
    <3>2. CASE u = task_tail
      <4>1. u \in linked /\ nodes'[u].next = t /\ nodes'[u].prev = nodes[u].prev
        BY <2>1, <2>3, <3>2
      <4>2. /\ nodes[u].prev # NoTask => nodes[u].prev \in linked /\ nodes[nodes[u].prev].next = u
            /\ nodes[u].prev = NoTask <=> u = task_head
            /\ nodes[u].next = NoTask
        BY <4>1, <3>2 DEF ListInv, LinksMatch
      <4>3. nodes[u].prev # NoTask => nodes[u].prev # task_tail
        BY <3>0, <3>2, <4>1, <4>2
      <4>4. nodes[u].prev # NoTask => nodes'[nodes[u].prev] = nodes[nodes[u].prev]
        BY <2>3, <4>2, <4>3
      <4> QED  BY <1>1, <2>2, <2>3, <3>0, <3>2, <4>1, <4>2, <4>4
    <3>3. CASE u \in linked \ {task_tail}
      <4>1. nodes'[u] = nodes[u] /\ u # t  BY <1>1, <2>3, <3>3
      <4>2. /\ nodes[u].next # NoTask => nodes[u].next \in linked /\ nodes[nodes[u].next].prev = u
            /\ nodes[u].prev # NoTask => nodes[u].prev \in linked /\ nodes[nodes[u].prev].next = u
            /\ nodes[u].prev = NoTask <=> u = task_head
            /\ nodes[u].next # NoTask
        BY <3>3 DEF ListInv, LinksMatch
      <4>3. nodes[task_tail].next = NoTask  BY <2>1 DEF ListInv, LinksMatch
      <4>4. nodes[u].prev # task_tail
        BY <3>0, <3>3, <4>2, <4>3, <2>1
      <4>5. \A w \in linked : nodes'[w].prev = nodes[w].prev  BY <2>3
      <4>6. nodes[u].prev # NoTask => nodes'[nodes[u].prev].next = nodes[nodes[u].prev].next
        BY <2>3, <4>2, <4>4
      <4> QED  BY <1>1, <2>2, <4>1, <4>2, <4>5, <4>6
    <3> QED  BY <1>1, <3>1, <3>2, <3>3
  <2>5. LinksMatch'  BY <2>4 DEF LinksMatch
  <2> QED  BY <1>1, <2>1, <2>2, <2>3, <2>5 DEF ListInv
<1> QED  BY <1>2, <1>3

LEMMA ListStep == FreshInv /\ ListInv /\ [Next]_vars => ListInv'
<1> SUFFICES ASSUME FreshInv, ListInv, [Next]_vars PROVE ListInv'
  OBVIOUS
<1>1. CASE UNCHANGED listVars
  BY <1>1 DEF listVars, ListInv, LinksMatch
<1>2. ASSUME NEW size \in ImageSizes, LoadSucceeds(size) PROVE ListInv'
  <2>1. PICK t \in TaskAddrs : TaskNew(t) /\ t \in free  BY <1>2, TaskWasFree DEF FreshInv
  <2>2. t \notin linked  BY <2>1 DEF FreshInv
  <2> QED  BY <2>1, <2>2, TaskNewInv
<1>3. CASE RunFirstEverTask
  BY <1>3 DEF RunFirstEverTask, TaskSwitch, ListInv, LinksMatch
<1> QED
  BY <1>1, <1>2, <1>3
     DEF Next, vars, listVars, LoadRefused, LoadNoFile, LoadNoImage, LoadUnreadable, LoadNoStack, LoadNoTask

(* The task list of the loaded programs is linked back and forth, whichever *)
(* loads failed in between (src/proc/task.c:86-95).                         *)
THEOREM ProcessLinksMatch == Spec => []LinksMatch
<1>1. ListInv => LinksMatch  BY DEF ListInv
<1> QED  BY FreshInit, FreshStep, ListInitInv, ListStep, <1>1, PTL DEF Spec

-----------------------------------------------------------------------------
(* The order of the list.  ListFollowsSlots alone does not say which task the*)
(* tail is; SlotInv does, and that the slots are taken from the first on.   *)

Last(n) == n > 0 => task_tail = processes[n - 1].task

SlotInv ==
  /\ ListInv
  /\ processes = [s \in Slots |-> processes[s]]
  /\ \A s \in Running : processes[s].id = s
  /\ \E n \in 0 .. MaxProcesses : Running = 0 .. (n - 1) /\ Last(n)
  /\ ListFollowsSlots

LEMMA SlotInitInv == Init => SlotInv
<1> SUFFICES ASSUME Init PROVE SlotInv
  OBVIOUS
<1>1. Running = {} /\ processes = [s \in Slots |-> processes[s]]  BY DEF Init, Running
<1>2. 0 \in 0 .. MaxProcesses /\ Running = 0 .. (0 - 1) /\ Last(0)
  BY <1>1, ProcessAssumption DEF Last
<1>3. ListFollowsSlots  BY <1>1 DEF Init, ListInit, ListFollowsSlots
<1> QED  BY <1>1, <1>2, <1>3, ListInitInv DEF SlotInv

(* The slot a load fills is the one behind the last process, and its task goes*)
(* to the end of the list.                                                  *)
LEMMA LoadEffect ==
  ASSUME FreshInv, NEW n \in 0 .. MaxProcesses, Running = 0 .. (n - 1),
         NEW size \in ImageSizes, LoadSucceeds(size)
  PROVE  \E t, P :
           /\ t \in TaskAddrs /\ t \notin linked
           /\ TaskNew(t)
           /\ P.id = n /\ P.task = t /\ P # Empty
           /\ n \in Slots
           /\ processes' = [processes EXCEPT ![n] = P]
<1> DEFINE slot == CHOOSE s \in FreeSlots : \A r \in FreeSlots : s <= r
           t == Start(WithStack(size), 1)
           P == [id     |-> slot,
                 task   |-> t,
                 ptr    |-> BlockToAddress(Start(WithFile, BlocksOf(size))),
                 size   |-> size,
                 stack  |-> BlockToAddress(Start(Loaded(size), StackBlocks)),
                 tables |-> StackMapped(ImageMapped(New4gb(FALSE), Start(WithFile, BlocksOf(size)), size),
                                        Start(Loaded(size), StackBlocks)),
                 kernel |-> Run(free, ProcBlocks) \cup {t} \cup Directory(size)]
<1>1. FreeSlots # {} /\ TaskFits(size)  BY DEF LoadSucceeds, ImageRead, Opens
<1>2. FreeSlots = n .. (MaxProcesses - 1)
  <2>1. FreeSlots = Slots \ Running  BY DEF FreeSlots, Running
  <2> QED  BY <2>1, ProcessAssumption DEF Slots
<1>3. slot = n /\ n \in Slots
  <2>1. n \in FreeSlots /\ \A r \in FreeSlots : n <= r  BY <1>1, <1>2, ProcessAssumption
  <2>2. slot \in FreeSlots /\ \A r \in FreeSlots : slot <= r  BY <2>1
  <2> HIDE DEF slot
  <2> QED  BY <1>2, <2>1, <2>2, ProcessAssumption DEF Slots
<1>4. t \in TaskAddrs /\ t \notin linked  BY TaskWasFree DEF FreshInv
<1>5. TaskNew(t) /\ processes' = [processes EXCEPT ![slot] = P]  BY DEF LoadSucceeds
<1>6. P.task = t /\ P.id = slot  OBVIOUS
<1> HIDE DEF P, t, slot
<1>7. P # Empty
  <2>1. Empty.id = -1  BY DEF Empty
  <2>2. P.id >= 0  BY <1>3, <1>6 DEF Slots
  <2> QED  BY <2>1, <2>2
<1> QED  BY <1>3, <1>4, <1>5, <1>6, <1>7

LEMMA SlotLoad ==
  ASSUME FreshInv, SlotInv, NEW size \in ImageSizes, LoadSucceeds(size)
  PROVE  SlotInv'
<1>1. PICK n \in 0 .. MaxProcesses : Running = 0 .. (n - 1) /\ Last(n)
  BY DEF SlotInv
<1>2. PICK t, P :
        /\ t \in TaskAddrs /\ t \notin linked
        /\ TaskNew(t)
        /\ P.id = n /\ P.task = t /\ P # Empty
        /\ n \in Slots
        /\ processes' = [processes EXCEPT ![n] = P]
  BY <1>1, LoadEffect
<1>3. ListInv'  BY <1>2, TaskNewInv DEF SlotInv
<1>4. /\ processes' = [s \in Slots |-> processes'[s]]
      /\ processes'[n] = P /\ P.id = n
      /\ \A s \in Slots \ {n} : processes'[s] = processes[s]
  BY <1>2 DEF SlotInv
<1>5. Running' = 0 .. n /\ Running' = Running \cup {n} /\ n \notin Running
  <2>1. Running' = Running \cup {n}  BY <1>2, <1>4 DEF Running
  <2> QED  BY <1>1, <2>1
<1>6. \A s \in Running' : processes'[s].id = s
  BY <1>4, <1>5 DEF SlotInv, Running
<1>7. n + 1 \in 0 .. MaxProcesses /\ (n + 1) - 1 = n
  BY <1>2, ProcessAssumption DEF Slots
<1>8. t \notin linked /\ linked' = linked \cup {t} /\ task_tail' = t
  BY <1>2 DEF TaskNew
<1>9. Last(n + 1)'  BY <1>2, <1>4, <1>7, <1>8 DEF Last
<1>10. /\ linked = {processes[s].task : s \in Running}
       /\ \A s \in Running :
            nodes[processes[s].task].next =
              IF s + 1 \in Running THEN processes[s + 1].task ELSE NoTask
       /\ Running # {} => task_head = processes[0].task /\ current_task = task_head
  BY DEF SlotInv, ListFollowsSlots
<1>11. linked' = {processes'[s].task : s \in Running'}
  <2>1. \A s \in Running : s \in Slots \ {n}  BY <1>5 DEF Running
  <2>2. \A s \in Running : processes'[s].task = processes[s].task  BY <1>4, <2>1
  <2>3. processes'[n].task = t  BY <1>2, <1>4
  <2>4. {processes'[s].task : s \in Running} = {processes[s].task : s \in Running}  BY <2>2
  <2>5. {processes'[s].task : s \in Running \cup {n}}
          = {processes'[s].task : s \in Running} \cup {processes'[n].task}
    OBVIOUS
  <2> QED  BY <1>5, <1>8, <1>10, <2>3, <2>4, <2>5
<1>12. CASE n = 0
  <2>1. linked = {} /\ Running = {}  BY <1>1, <1>10, <1>12
  <2>2. task_head = NoTask  BY <2>1 DEF SlotInv, ListInv
  <2>3. task_head' = t /\ current_task' = t /\ nodes'[t] = Zeroed
    BY <1>2, <2>2 DEF TaskNew, SlotInv, ListInv
  <2>4. Running' = {0} /\ processes'[0].task = t  BY <1>2, <1>4, <1>5, <1>12
  <2>5. ListFollowsSlots'  BY <1>11, <2>3, <2>4 DEF ListFollowsSlots, Zeroed
  <2> QED  BY <1>3, <1>4, <1>5, <1>7, <1>9, <1>6, <2>5 DEF SlotInv
<1>13. CASE n > 0
  <2> DEFINE m == n - 1
  <2>1. m \in Running /\ 0 \in Running /\ m # n /\ m + 1 = n  BY <1>1, <1>13
  <2>2. task_tail = processes[m].task /\ task_tail \in linked  BY <1>1, <1>10, <1>13, <2>1 DEF Last
  <2>3. task_head # NoTask  BY <2>2, TaskAssumption DEF SlotInv, ListInv
  <2>4. /\ nodes' = SetPrev(SetNext([nodes EXCEPT ![t] = Zeroed], task_tail, t), t, task_tail)
        /\ task_head' = task_head /\ current_task' = current_task
    BY <1>2, <2>3 DEF TaskNew
  <2>5. /\ nodes'[t].next = NoTask
        /\ nodes'[task_tail].next = t
        /\ \A u \in linked \ {task_tail} : nodes'[u] = nodes[u]
    <3>1. ListInv /\ t \in TaskAddrs  BY <1>2 DEF SlotInv
    <3>2. Appended(SetPrev(SetNext([nodes EXCEPT ![t] = Zeroed], task_tail, t), t, task_tail), t, task_tail)
      BY <1>8, <2>2, <3>1, TaskAppended, Zenon
    <3>3. Appended(nodes', t, task_tail)  BY <2>4, <3>2, Zenon
    <3>4. nodes'[t] = [next |-> NoTask, prev |-> task_tail] /\ nodes'[task_tail].next = t
          /\ \A u \in linked \ {task_tail} : nodes'[u] = nodes[u]
      BY <3>3, Zenon DEF Appended
    <3> QED  BY <3>4
  <2>6. \A s \in Running : processes'[s].task = processes[s].task /\ processes[s].task \in linked
    BY <1>4, <1>5, <1>10 DEF Running
  <2>7. ASSUME NEW s \in Running, s # m
        PROVE  processes[s].task # task_tail /\ s + 1 \in Running
    <3>1. s + 1 \in Running  BY <1>1, <2>7
    <3>2. nodes[processes[s].task].next = processes[s + 1].task  BY <1>10, <3>1
    <3>3. processes[s + 1].task \in linked  BY <2>6, <3>1
    <3>4. nodes[task_tail].next = NoTask
      BY <2>2 DEF SlotInv, ListInv, LinksMatch
    <3> QED  BY <3>1, <3>2, <3>3, <3>4, TaskAssumption DEF SlotInv, ListInv
  <2>8. ASSUME NEW s \in Running'
        PROVE  nodes'[processes'[s].task].next =
                 IF s + 1 \in Running' THEN processes'[s + 1].task ELSE NoTask
    <3>1. CASE s = n
      <4>1. n + 1 \notin Running'  BY <1>5
      <4> QED  BY <1>2, <1>4, <2>5, <3>1, <4>1
    <3>2. CASE s = m
      <4>1. processes'[m].task = task_tail /\ processes'[n].task = t /\ n \in Running'
        BY <1>2, <1>4, <1>5, <2>1, <2>2, <2>6
      <4> QED  BY <2>1, <2>5, <3>2, <4>1
    <3>3. CASE s # n /\ s # m
      <4>1. s \in Running  BY <1>5, <3>3
      <4>2. processes[s].task # task_tail /\ s + 1 \in Running  BY <2>7, <3>3, <4>1
      <4>3. nodes'[processes'[s].task] = nodes[processes[s].task]  BY <2>5, <2>6, <4>1, <4>2
      <4>4. nodes[processes[s].task].next = processes'[s + 1].task  BY <1>10, <2>6, <4>1, <4>2
      <4> QED  BY <1>5, <4>2, <4>3, <4>4
    <3> QED  BY <3>1, <3>2, <3>3
  <2>9. task_head' = processes'[0].task /\ current_task' = task_head'
    BY <1>10, <2>1, <2>4, <2>6
  <2>10. ListFollowsSlots'  BY <1>11, <2>8, <2>9 DEF ListFollowsSlots
  <2> QED  BY <1>3, <1>4, <1>5, <1>7, <1>9, <1>6, <2>10 DEF SlotInv
<1> QED  BY <1>12, <1>13

(* A step that leaves the slots and the links alone, and switches at most to*)
(* the head of the list.                                                    *)
LEMMA SlotUnchanged ==
  ASSUME SlotInv,
         UNCHANGED <<processes, nodes, task_head, task_tail, linked>>,
         current_task' \in {current_task, task_head}
  PROVE  SlotInv'
<1>1. ListInv'  BY DEF SlotInv, ListInv, LinksMatch
<1>2. Running' = Running  BY DEF Running
<1>3. \E n \in 0 .. MaxProcesses : Running' = 0 .. (n - 1) /\ Last(n)'
  <2>1. PICK n \in 0 .. MaxProcesses : Running = 0 .. (n - 1) /\ Last(n)  BY DEF SlotInv
  <2>2. Last(n)'  BY <2>1 DEF Last
  <2> QED  BY <1>2, <2>1, <2>2
<1>4. ListFollowsSlots'
  <2>1. ListFollowsSlots  BY DEF SlotInv
  <2>2. linked' = {processes'[s].task : s \in Running'}  BY <1>2, <2>1 DEF ListFollowsSlots
  <2>3. \A s \in Running' :
          nodes'[processes'[s].task].next =
            IF s + 1 \in Running' THEN processes'[s + 1].task ELSE NoTask
    BY <1>2, <2>1 DEF ListFollowsSlots
  <2>4. Running' # {} => task_head' = processes'[0].task /\ current_task' = task_head'
    BY <1>2, <2>1 DEF ListFollowsSlots
  <2> QED  BY <2>2, <2>3, <2>4 DEF ListFollowsSlots
<1>5. processes' = [s \in Slots |-> processes'[s]]
  <2>1. processes = [s \in Slots |-> processes[s]]  BY DEF SlotInv
  <2> QED  BY <2>1
<1>6. \A s \in Running' : processes'[s].id = s  BY <1>2 DEF SlotInv
<1> QED  BY <1>1, <1>3, <1>4, <1>5, <1>6 DEF SlotInv

LEMMA SlotStep == FreshInv /\ SlotInv /\ [Next]_vars => SlotInv'
<1> SUFFICES ASSUME FreshInv, SlotInv, [Next]_vars PROVE SlotInv'
  OBVIOUS
<1>1. CASE UNCHANGED <<processes, listVars>>
  BY <1>1, SlotUnchanged DEF listVars
<1>2. ASSUME NEW size \in ImageSizes, LoadSucceeds(size) PROVE SlotInv'
  BY <1>2, SlotLoad
<1>3. CASE RunFirstEverTask
  BY <1>3, SlotUnchanged DEF RunFirstEverTask, TaskSwitch
<1>4. CASE Next
  BY <1>1, <1>2, <1>3, <1>4
     DEF Next, LoadRefused, LoadNoFile, LoadNoImage, LoadUnreadable, LoadNoStack, LoadNoTask, vars, listVars
<1>5. CASE UNCHANGED vars
  BY <1>1, <1>5 DEF vars, listVars
<1> QED  BY <1>4, <1>5

(* However many loads failed, the list runs through the tasks in the order of*)
(* the slots and the first program loaded is the one that runs              *)
(* (src/proc/process.c:107-118, src/proc/task.c:86-95, src/proc/task.c:198-207).*)
THEOREM ProcessListFollowsSlots == Spec => []ListFollowsSlots
<1>1. SlotInv => ListFollowsSlots  BY DEF SlotInv
<1> QED  BY FreshInit, FreshStep, SlotInitInv, SlotStep, <1>1, PTL DEF Spec

-----------------------------------------------------------------------------
(* Types.                                                                   *)

LEMMA TypeStep == SlotInv /\ SlotInv' /\ TypeOK /\ [Next]_vars => TypeOK'
<1> SUFFICES ASSUME SlotInv, SlotInv', TypeOK, [Next]_vars PROVE TypeOK'
  OBVIOUS
<1>1. free' \subseteq Blocks  BY FreeShrinks DEF TypeOK
<1>2. wild' \in BOOLEAN
  BY DEF TypeOK, Next, vars, LoadRefused, LoadNoFile, LoadNoImage, LoadUnreadable, LoadNoStack,
         LoadNoTask, LoadSucceeds, RunFirstEverTask
<1>3. /\ nodes' \in [TaskAddrs -> [next : TaskAddrs \cup {NoTask}, prev : TaskAddrs \cup {NoTask}]]
      /\ {task_head', task_tail'} \subseteq TaskAddrs \cup {NoTask}
  BY DEF SlotInv, ListInv
<1>4. current_task' \in TaskAddrs \cup {NoTask}
  BY DEF SlotInv, ListInv
<1>5. \A s \in Running' : processes'[s].id = s /\ processes'[s].task \in linked'
  BY DEF SlotInv, ListFollowsSlots
<1> QED  BY <1>1, <1>2, <1>3, <1>4, <1>5 DEF TypeOK

(* The heap, the slots and the links keep their types (src/proc/process.c,  *)
(* src/proc/task.c).                                                        *)
THEOREM ProcessTypeOK == Spec => []TypeOK
<1>1. Init => TypeOK
  <2> SUFFICES ASSUME Init PROVE TypeOK
    OBVIOUS
  <2>1. Running = {}  BY DEF Init, Running
  <2> QED  BY <2>1 DEF Init, ListInit, TypeOK, Zeroed
<1> QED  BY FreshInit, FreshStep, SlotInitInv, SlotStep, TypeStep, <1>1, PTL DEF Spec

-----------------------------------------------------------------------------
(* Arithmetic of pages.                                                     *)

(* A quotient and a remainder are those of the division.                    *)
LEMMA Divide ==
  ASSUME NEW b \in Nat \ {0}, NEW q \in Nat, NEW r \in 0 .. (b - 1)
  PROVE  (q * b + r) \div b = q /\ (q * b + r) % b = r
OBVIOUS

(* Every number has them.                                                   *)
LEMMA Quotient ==
  ASSUME NEW b \in Nat \ {0}, NEW a \in Nat
  PROVE  /\ a \div b \in Nat /\ a % b \in 0 .. (b - 1)
         /\ a = (a \div b) * b + (a % b)
OBVIOUS

(* Multiples are in the order of their factors.                             *)
LEMMA Monotone ==
  ASSUME NEW b \in Nat \ {0}, NEW q \in Nat, NEW p \in Nat
  PROVE  /\ q <= p <=> q * b <= p * b
         /\ q < p <=> q * b < p * b
OBVIOUS

(* Where paging_get_indexes finds the entry of page w.                      *)
LEMMA PageIndexes ==
  ASSUME NEW w \in Nat
  PROVE  /\ DirectoryIndex(w * PageSize) = w \div TableSize
         /\ TableIndex(w * PageSize) = w % TableSize
<1> DEFINE q == w \div TableSize
           r == w % TableSize
<1>1. PageSize \in Nat \ {0} /\ TableSize \in Nat \ {0}  BY PagingAssumption
<1>2. q \in Nat /\ r \in 0 .. (TableSize - 1) /\ w = q * TableSize + r  BY <1>1, Quotient
<1> HIDE DEF q, r
<1>3. TableBytes \in Nat \ {0} /\ TableBytes = TableSize * PageSize BY <1>1 DEF TableBytes
<1>4. w * PageSize = q * TableBytes + r * PageSize  BY <1>1, <1>2, <1>3
<1>5. r * PageSize \in 0 .. (TableBytes - 1)  BY <1>1, <1>2, <1>3
<1>6. (w * PageSize) \div TableBytes = q /\ (w * PageSize) % TableBytes = r * PageSize
  <2>1. \A x \in 0 .. (TableBytes - 1) :
          (q * TableBytes + x) \div TableBytes = q /\ (q * TableBytes + x) % TableBytes = x
    BY <1>2, <1>3, Divide
  <2> QED  BY <1>4, <1>5, <2>1
<1>7. (r * PageSize) \div PageSize = r  BY <1>1, <1>2
<1> QED  BY <1>6, <1>7 DEF q, r, DirectoryIndex, TableIndex

-----------------------------------------------------------------------------
(* Directories.                                                             *)

Directories == [Indexes -> [Indexes -> [frame : Nat, write : BOOLEAN]]]

(* Every page has an entry,                                                 *)
LEMMA PageInRange ==
  ASSUME NEW w \in Pages
  PROVE  w \in Nat /\ w \div TableSize \in Indexes /\ w % TableSize \in Indexes
<1>1. TableSize \in Nat \ {0} /\ w \in Nat /\ w < TableSize * TableSize  BY PagingAssumption DEF Pages
<1>2. w \div TableSize \in Nat /\ w % TableSize \in 0 .. (TableSize - 1)
      /\ w = (w \div TableSize) * TableSize + (w % TableSize)  BY <1>1, Quotient
<1>3. w \div TableSize < TableSize  BY <1>1, <1>2
<1> QED  BY <1>1, <1>2, <1>3 DEF Indexes

(* and every entry is that of a page.                                       *)
LEMMA IndexesOfPage ==
  ASSUME NEW d \in Indexes, NEW t \in Indexes
  PROVE  /\ d * TableSize + t \in Pages
         /\ (d * TableSize + t) \div TableSize = d
         /\ (d * TableSize + t) % TableSize = t
<1>1. TableSize \in Nat \ {0} /\ d \in 0 .. (TableSize - 1) /\ t \in 0 .. (TableSize - 1)
  BY PagingAssumption DEF Indexes
<1>2. d * TableSize + t \in Nat /\ d * TableSize + t < TableSize * TableSize  BY <1>1
<1> QED  BY <1>1, <1>2, Divide DEF Pages

(* paging_get, by the number of the page.                                   *)
GetPage(dir, w) == dir[w \div TableSize][w % TableSize]

LEMMA GetIsPage ==
  ASSUME NEW dir, NEW w \in Pages
  PROVE  Get(dir, w * PageSize) = GetPage(dir, w)
BY PageIndexes, PageInRange DEF Get, GetPage

(* Directories are equal if all their pages are.                            *)
LEMMA SameDirectory ==
  ASSUME NEW a \in Directories, NEW b \in Directories, \A w \in Pages : GetPage(a, w) = GetPage(b, w)
  PROVE  a = b
<1>1. ASSUME NEW d \in Indexes, NEW t \in Indexes PROVE a[d][t] = b[d][t]
  BY IndexesOfPage DEF GetPage
<1>2. \A d \in Indexes : a[d] = b[d]  BY <1>1 DEF Directories
<1> QED  BY <1>2 DEF Directories

(* A store changes the entry of its page and no other.                      *)
LEMMA GetSet ==
  ASSUME NEW dir \in Directories, NEW v \in Pages, NEW e \in [frame : Nat, write : BOOLEAN]
  PROVE  /\ Set(dir, v * PageSize, e) \in Directories
         /\ \A w \in Pages : GetPage(Set(dir, v * PageSize, e), w) = IF w = v THEN e ELSE GetPage(dir, w)
<1>1. PageSize \in Nat \ {0} /\ TableSize \in Nat \ {0}  BY PagingAssumption
<1>2. v \in Nat /\ Aligned(v * PageSize)  
  <2>1. v \in Nat  BY PageInRange
  <2>2. (v * PageSize) % PageSize = 0  BY <1>1, <2>1
  <2> QED  BY <2>1, <2>2 DEF Aligned
<1> DEFINE d == v \div TableSize
           t == v % TableSize
<1>3. d \in Indexes /\ t \in Indexes  BY PageInRange
<1>4. Set(dir, v * PageSize, e) = [dir EXCEPT ![d][t] = e]  BY <1>2, PageIndexes DEF Set
<1>5. \A w \in Pages : (w \div TableSize = d /\ w % TableSize = t) => w = v
  BY <1>1, <1>2, Quotient, PageInRange
<1>6. \A w \in Pages : w \div TableSize \in Indexes /\ w % TableSize \in Indexes  BY PageInRange
<1> HIDE DEF d, t
<1>7. [dir EXCEPT ![d][t] = e] \in Directories  BY <1>3 DEF Directories
<1>8. \A x, y \in Indexes : [dir EXCEPT ![d][t] = e][x][y] = IF x = d /\ y = t THEN e ELSE dir[x][y]
  BY <1>3 DEF Directories
<1>9. \A w \in Pages : GetPage([dir EXCEPT ![d][t] = e], w) = IF w = v THEN e ELSE GetPage(dir, w)
  BY <1>5, <1>6, <1>8 DEF GetPage, d, t
<1> QED  BY <1>4, <1>7, <1>9

(* The directory in which n pages from v on stand for the frames from f on, and*)
(* the others for what they do in dir.                                      *)
Mapped(dir, v, f, n, write) ==
  [d \in Indexes |-> [t \in Indexes |->
     LET w == d * TableSize + t
     IN  IF w \in v .. (v + n - 1) THEN Entry(f + (w - v), write) ELSE dir[d][t]]]

(* What its pages are.                                                      *)
LEMMA GetMapped ==
  ASSUME NEW dir \in Directories, NEW v \in Nat, NEW f \in Nat, NEW n \in Nat, NEW write \in BOOLEAN
  PROVE  /\ Mapped(dir, v, f, n, write) \in Directories
         /\ \A w \in Pages : GetPage(Mapped(dir, v, f, n, write), w) =
              IF w \in v .. (v + n - 1) THEN Entry(f + (w - v), write) ELSE GetPage(dir, w)
<1>1. ASSUME NEW d \in Indexes, NEW t \in Indexes
      PROVE  (LET w == d * TableSize + t
              IN  IF w \in v .. (v + n - 1) THEN Entry(f + (w - v), write) ELSE dir[d][t])
               \in [frame : Nat, write : BOOLEAN]
  <2>1. d * TableSize + t \in Nat  BY IndexesOfPage, PageInRange
  <2> QED  BY <2>1 DEF Entry, Directories
<1>2. Mapped(dir, v, f, n, write) \in Directories  BY <1>1 DEF Mapped, Directories
<1>3. ASSUME NEW w \in Pages
      PROVE  GetPage(Mapped(dir, v, f, n, write), w) =
              IF w \in v .. (v + n - 1) THEN Entry(f + (w - v), write) ELSE GetPage(dir, w)
  <2>1. w \div TableSize \in Indexes /\ w % TableSize \in Indexes  BY PageInRange
  <2>2. (w \div TableSize) * TableSize + (w % TableSize) = w  BY PageInRange, Quotient, PagingAssumption
  <2> QED  BY <2>1, <2>2 DEF GetPage, Mapped
<1> QED  BY <1>2, <1>3

(* One more page.                                                           *)
MapsOne(dir, v, f, n, write) ==
  PagingMap(Mapped(dir, v, f, n, write),
            v * PageSize + n * PageSize, f * PageSize + n * PageSize, write)
    = Mapped(dir, v, f, n + 1, write)

LEMMA MapOne ==
  ASSUME NEW dir \in Directories, NEW v \in Nat, NEW f \in Nat, NEW n \in Nat, NEW write \in BOOLEAN,
         v + n \in Pages
  PROVE  MapsOne(dir, v, f, n, write)
<1> DEFINE m == Mapped(dir, v, f, n, write)
           e == Entry(f + n, write)
<1>1. PageSize \in Nat \ {0}  BY PagingAssumption
<1>2. v * PageSize + n * PageSize = (v + n) * PageSize /\ f * PageSize + n * PageSize = (f + n) * PageSize  BY <1>1
<1>3. /\ ((v + n) * PageSize) % PageSize = 0
      /\ ((f + n) * PageSize) % PageSize = 0 /\ ((f + n) * PageSize) \div PageSize = f + n
  BY <1>1
<1>4. PagingMap(m, v * PageSize + n * PageSize, f * PageSize + n * PageSize, write)
        = Set(m, (v + n) * PageSize, e)
  BY <1>2, <1>3 DEF PagingMap, Aligned
<1>5. m \in Directories /\ e \in [frame : Nat, write : BOOLEAN]  BY GetMapped DEF Entry
<1>6. Mapped(dir, v, f, n + 1, write) \in Directories  BY GetMapped
<1>7. ASSUME NEW w \in Pages
      PROVE  GetPage(Set(m, (v + n) * PageSize, e), w) = GetPage(Mapped(dir, v, f, n + 1, write), w)
  <2>1. GetPage(Set(m, (v + n) * PageSize, e), w) = IF w = v + n THEN e ELSE GetPage(m, w)  BY <1>5, GetSet
  <2>2. GetPage(m, w) = IF w \in v .. (v + n - 1) THEN Entry(f + (w - v), write) ELSE GetPage(dir, w)
    BY GetMapped
  <2>3. n + 1 \in Nat  OBVIOUS
  <2>4. GetPage(Mapped(dir, v, f, n + 1, write), w) =
          IF w \in v .. (v + (n + 1) - 1) THEN Entry(f + (w - v), write) ELSE GetPage(dir, w)
    <3>1. \A k \in Nat :
            GetPage(Mapped(dir, v, f, k, write), w) =
              IF w \in v .. (v + k - 1) THEN Entry(f + (w - v), write) ELSE GetPage(dir, w)
      BY GetMapped
    <3> QED  BY <2>3, <3>1, Zenon
  <2>5. w \in Nat  BY PageInRange
  <2> HIDE DEF m
  <2>6. CASE w = v + n  BY <2>1, <2>4, <2>6
  <2>7. CASE w # v + n
    <3>1. w \in v .. (v + (n + 1) - 1) <=> w \in v .. (v + n - 1)  BY <2>5, <2>7
    <3> QED  BY <2>1, <2>2, <2>4, <2>7, <3>1
  <2> QED  BY <2>6, <2>7
<1>8. Set(m, (v + n) * PageSize, e) \in Directories  BY <1>5, GetSet
<1> HIDE DEF m, e
<1>9. PagingMap(m, v * PageSize + n * PageSize, f * PageSize + n * PageSize, write)
        = Mapped(dir, v, f, n + 1, write)
  BY <1>4, <1>6, <1>7, <1>8, SameDirectory
<1> QED  BY <1>9, Zenon DEF m, MapsOne

(* A range of no pages.                                                     *)
LEMMA MapNone ==
  ASSUME NEW dir \in Directories, NEW v \in Nat, NEW f \in Nat, NEW write \in BOOLEAN
  PROVE  Mapped(dir, v, f, 0, write) = dir
<1>1. \A w \in Pages : GetPage(Mapped(dir, v, f, 0, write), w) = GetPage(dir, w)
  BY GetMapped
<1> QED  BY <1>1, GetMapped, SameDirectory

(* The loop of paging_map_range computes Mapped: as far as both count, they never*)
(* differ for the first time.                                               *)
LEMMA MapRangeMaps ==
  ASSUME NEW dir \in Directories, NEW v \in Nat, NEW f \in Nat, NEW count \in Nat, NEW write \in BOOLEAN,
         \A n \in 0 .. (count - 1) : v + n \in Pages
  PROVE  MapRange(dir, v * PageSize, f * PageSize, count, write) = Mapped(dir, v, f, count, write)
<1> DEFINE Virt(i) == v * PageSize + i * PageSize
           Phys(i) == f * PageSize + i * PageSize
           Step(g) == [n \in 0 .. count |->
              IF n = 0 THEN dir
              ELSE PagingMap(g[n - 1], Virt(n - 1), Phys(n - 1), write)]
           C == [n \in 0 .. count |-> Mapped(dir, v, f, n, write)]
           g == CHOOSE h : h = Step(h)
<1>1. C = Step(C)
  <2>1. ASSUME NEW n \in 0 .. count, n # 0
        PROVE  C[n] = PagingMap(C[n - 1], Virt(n - 1), Phys(n - 1), write)
    <3>1. n - 1 \in Nat /\ n - 1 \in 0 .. count /\ n - 1 \in 0 .. (count - 1) /\ (n - 1) + 1 = n  BY <2>1
    <3>2. v + (n - 1) \in Pages  BY <3>1
    <3>3. MapsOne(dir, v, f, n - 1, write)
      <4> HIDE DEF Virt, Phys, Step, C, g
      <4> QED  BY <3>1, <3>2, MapOne, Zenon
    <3> QED  BY <3>1, <3>3 DEF MapsOne
  <2>2. \A n \in 0 .. count : n = 0 => C[n] = dir  BY MapNone
  <2> QED  BY <2>1, <2>2
<1>2. g = Step(g)
  <2> HIDE DEF C, Step
  <2> QED  BY <1>1
<1>3. \A n \in 0 .. count : g[n] = IF n = 0 THEN dir
         ELSE PagingMap(g[n - 1], Virt(n - 1), Phys(n - 1), write)
  <2> HIDE DEF g
  <2>1. DOMAIN g = 0 .. count  BY <1>2
  <2> QED  BY <1>2
<1>4. \A n \in 0 .. count : C[n] = IF n = 0 THEN dir
         ELSE PagingMap(C[n - 1], Virt(n - 1), Phys(n - 1), write)
  <2>1. DOMAIN C = 0 .. count  OBVIOUS
  <2> HIDE DEF C
  <2> QED  BY <1>1, <2>1
<1> HIDE DEF g, C
<1>5. \A n \in 0 .. count : g[n] = C[n]
  <2> DEFINE Wrong == {n \in 0 .. count : g[n] # C[n]}
  <2>1. SUFFICES ASSUME Wrong # {} PROVE FALSE
    OBVIOUS
  <2>2. PICK n \in Wrong : \A m \in Wrong : n <= m
    <3>1. Wrong \subseteq Nat  OBVIOUS
    <3> HIDE DEF Wrong
    <3> QED  BY <2>1, <3>1, LeastIsLeast
  <2>3. n # 0  BY <1>3, <1>4, <2>2
  <2>4. n - 1 \in 0 .. count /\ n - 1 \notin Wrong  BY <2>2, <2>3
  <2>5. g[n - 1] = C[n - 1]  BY <2>4
  <2> QED  BY <1>3, <1>4, <2>2, <2>3, <2>5
<1>6. MapRange(dir, v * PageSize, f * PageSize, count, write) = g[count]
  BY DEF MapRange, g
<1>7. C[count] = Mapped(dir, v, f, count, write)  BY DEF C
<1> QED  BY <1>5, <1>6, <1>7

-----------------------------------------------------------------------------
(* The tables of a loaded program.                                          *)

(* The map of a range of addresses that start and end on a page.            *)
LEMMA MapToMaps ==
  ASSUME NEW dir \in Directories, NEW v \in Nat, NEW f \in Nat, NEW n \in Nat, NEW write \in BOOLEAN,
         \A i \in 0 .. (n - 1) : v + i \in Pages
  PROVE  MapTo(dir, v * PageSize, f * PageSize, (f + n) * PageSize, write) = Mapped(dir, v, f, n, write)
<1>1. PageSize \in Nat \ {0}  BY PagingAssumption
<1>2. /\ (v * PageSize) % PageSize = 0
      /\ (f * PageSize) % PageSize = 0
      /\ ((f + n) * PageSize) % PageSize = 0
  BY <1>1
<1>3. (f + n) * PageSize >= f * PageSize /\ (f + n) * PageSize - f * PageSize = n * PageSize
  BY <1>1
<1>4. (n * PageSize) \div PageSize = n  BY <1>1
<1>5. MapTo(dir, v * PageSize, f * PageSize, (f + n) * PageSize, write)
        = MapRange(dir, v * PageSize, f * PageSize, n, write)
  BY <1>2, <1>3, <1>4 DEF MapTo, Aligned
<1> QED  BY <1>5, MapRangeMaps, Zenon

(* Where the program and its stack lie, in pages.                           *)
ProgPage  == ProgAddress \div PageSize
StackPage == StackAddress \div PageSize
HeapPage  == Saddr \div PageSize

LEMMA Layout ==
  /\ ProgPage \in Nat /\ StackPage \in Nat /\ HeapPage \in Nat
  /\ ProgAddress = ProgPage * PageSize
  /\ StackAddress = StackPage * PageSize
  /\ Saddr = HeapPage * PageSize
  /\ StackPage + StackBlocks <= ProgPage
  /\ StackBlocks \in Nat \ {0}
  /\ PageSize = BlockSize /\ PageSize \in Nat \ {0}
<1>1. PageSize \in Nat \ {0} /\ PageSize = BlockSize /\ StackBlocks \in Nat \ {0}
  BY PagingAssumption, ProcessAssumption
<1>2. ProgAddress \in Nat /\ StackAddress \in Nat /\ Saddr \in Nat
  BY AddressAssumption, HeapAssumption
<1>3. ProgAddress % PageSize = 0 /\ StackAddress % PageSize = 0 /\ Saddr % PageSize = 0
  BY ProcessAssumption DEF Aligned
<1>4. /\ ProgPage \in Nat /\ StackPage \in Nat /\ HeapPage \in Nat
      /\ ProgAddress = ProgPage * PageSize
      /\ StackAddress = StackPage * PageSize
      /\ Saddr = HeapPage * PageSize
  BY <1>1, <1>2, <1>3, Quotient DEF ProgPage, StackPage, HeapPage
<1>5. StackPage + StackBlocks <= ProgPage
  <2>1. (StackPage + StackBlocks) * PageSize <= ProgPage * PageSize
    BY <1>1, <1>4, ProcessAssumption
  <2> QED  BY <1>1, <1>4, <2>1, Monotone
<1> QED  BY <1>1, <1>4, <1>5

(* A size fills its blocks, the last one perhaps in part.                   *)
LEMMA BlocksFill ==
  ASSUME NEW size \in 0 .. (Word - 1), size <= Word - BlockSize
  PROVE  /\ BlocksOf(size) \in Nat
         /\ \A j \in Nat : j < BlocksOf(size) <=> j * BlockSize < size
<1>1. BlockSize \in Nat \ {0} /\ WordBlocks \in Nat \ {0} /\ Word \in Nat
  BY HeapAssumption DEF Word
<1>2. BlocksOf(size) \in Nat  BY BlocksOfRange, <1>1
<1>3. BlocksOf(size) * BlockSize >= size  BY BlocksOfCovers
<1>4. AlignUp(size) < size + BlockSize
  <2> DEFINE r == size % BlockSize
             x == size - r + BlockSize
  <2>1. r \in 0 .. (BlockSize - 1)  BY <1>1
  <2>2. CASE r = 0  BY <1>1, <2>2 DEF AlignUp
  <2>3. CASE r # 0
    <3>1. AlignUp(size) = x % Word  BY <2>3 DEF AlignUp
    <3>2. x \in Nat /\ x < size + BlockSize  BY <1>1, <2>1, <2>3
    <3>3. Word \in Nat \ {0}  BY <1>1
    <3>4. \A y \in Nat : y % Word <= y  BY <3>3
    <3> HIDE DEF x
    <3>5. x % Word \in Nat  BY <3>2, <3>3
    <3> QED  BY <1>1, <3>1, <3>2, <3>4, <3>5
  <2> QED  BY <2>2, <2>3
<1>5. BlocksOf(size) * BlockSize <= AlignUp(size)
  <2>1. AlignUp(size) \in Nat
    <3>1. size % BlockSize \in 0 .. (BlockSize - 1) BY <1>1
    <3>2. (size - (size % BlockSize) + BlockSize) % Word \in Nat  BY <1>1, <3>1
    <3> QED BY <1>1, <3>2 DEF AlignUp
  <2> DEFINE a == AlignUp(size)
  <2> HIDE DEF a
  <2>0. a \in Nat  BY <2>1 DEF a
  <2>2. a = (a \div BlockSize) * BlockSize + (a % BlockSize) /\ a % BlockSize \in Nat /\ a \div BlockSize \in Nat
    BY <1>1, <2>0, Quotient
  <2>3. BlocksOf(size) = a \div BlockSize  BY DEF BlocksOf, a
  <2>4. a >= (a \div BlockSize) * BlockSize  BY <1>1, <2>2
  <2> QED  BY <2>3, <2>4 DEF a
<1> DEFINE n == BlocksOf(size)
<1>6. n \in Nat /\ n * BlockSize >= size /\ n * BlockSize < size + BlockSize
  <2>1. AlignUp(size) \in Int
    <3>1. size % BlockSize \in 0 .. (BlockSize - 1) BY <1>1
    <3>2. (size - (size % BlockSize) + BlockSize) % Word \in Nat  BY <1>1, <3>1
    <3> QED BY <1>1, <3>2 DEF AlignUp
  <2> QED BY <1>1, <1>2, <1>3, <1>4, <1>5, <2>1
<1> HIDE DEF n
<1>7. ASSUME NEW j \in Nat PROVE j < n <=> j * BlockSize < size
  <2>1. CASE j < n
    <3>1. j + 1 <= n  BY <1>6, <2>1
    <3>2. (j + 1) * BlockSize <= n * BlockSize  BY <1>1, <1>6, <3>1, Monotone
    <3>3. (j + 1) * BlockSize = j * BlockSize + BlockSize  BY <1>1
    <3> QED  BY <1>1, <1>6, <2>1, <3>2, <3>3
  <2>2. CASE n <= j
    <3>1. n * BlockSize <= j * BlockSize  BY <1>1, <1>6, <2>2, Monotone
    <3> QED  BY <1>1, <1>6, <2>2, <3>1
  <2> QED  BY <1>6, <2>1, <2>2
<1> QED  BY <1>6, <1>7 DEF n

(* An image that ends inside the address space.                             *)
LEMMA ImageFits ==
  ASSUME NEW size \in ImageSizes
  PROVE  /\ size \in 0 .. (Word - 1) /\ size <= Word - BlockSize
         /\ \A i \in 0 .. (BlocksOf(size) - 1) : ProgPage + i \in Pages
<1>1. BlockSize \in Nat \ {0} /\ Word \in Nat /\ TableSize \in Nat \ {0}
  BY HeapAssumption, PagingAssumption DEF Word
<1>2. size \in 0 .. (Word - 1)  BY ProcessAssumption
<1>3. ProgAddress + size <= Word  BY AddressAssumption
<1>4. ProgPage >= 1  BY Layout
<1>5. ProgAddress >= BlockSize
  <2>1. 1 * PageSize <= ProgPage * PageSize  BY <1>4, Layout, Monotone
  <2> QED  BY <2>1, Layout
<1>6. size <= Word - BlockSize  BY <1>1, <1>2, <1>3, <1>5, Layout
<1>7. ASSUME NEW i \in 0 .. (BlocksOf(size) - 1) PROVE ProgPage + i \in Pages
  <2>1. BlocksOf(size) \in Nat /\ i \in Nat /\ i * BlockSize < size  BY <1>2, <1>6, BlocksFill
  <2>2. (ProgPage + i) * PageSize < Word  
    <3>1. (ProgPage + i) * PageSize = ProgAddress + i * BlockSize  BY <2>1, Layout
    <3>2. ProgAddress \in Nat /\ i * BlockSize \in Nat  BY <1>1, <2>1, AddressAssumption
    <3> QED  BY <1>1, <1>2, <1>3, <2>1, <3>1, <3>2
  <2>3. Word = (TableSize * TableSize) * PageSize  BY AddressAssumption, Layout DEF Word
  <2>4. TableSize * TableSize \in Nat  BY <1>1
  <2>5. ProgPage + i < TableSize * TableSize  BY <2>1, <2>2, <2>3, <2>4, Layout, Monotone
  <2> QED  BY <1>1, <2>1, <2>4, <2>5, Layout DEF Pages
<1> QED  BY <1>2, <1>6, <1>7

(* The end of the image, on the next page boundary.                         *)
LEMMA AlignImage ==
  ASSUME NEW b \in Nat, NEW size \in 0 .. (Word - 1), size <= Word - BlockSize
  PROVE  AlignAddress((HeapPage + b) * PageSize + size) = (HeapPage + b + BlocksOf(size)) * PageSize
<1> DEFINE f == HeapPage + b
           n == BlocksOf(size)
           q == size \div PageSize
           r == size % PageSize
<1>1. f \in Nat /\ PageSize \in Nat \ {0} /\ PageSize = BlockSize  BY Layout
<1>2. q \in Nat /\ r \in 0 .. (PageSize - 1) /\ size = q * PageSize + r  BY <1>1, Quotient
<1>3. n \in Nat /\ \A j \in Nat : j < n <=> j * PageSize < size  BY <1>1, BlocksFill
<1> HIDE DEF f, n, q, r
<1>4. f * PageSize + size = (f + q) * PageSize + r  BY <1>1, <1>2
<1>5. ((f + q) * PageSize + r) % PageSize = r
  <2>1. f + q \in Nat  BY <1>1, <1>2
  <2> QED  BY <1>1, <1>2, <2>1, Divide
<1>6. CASE r = 0
  <2>1. AlignAddress(f * PageSize + size) = (f + q) * PageSize
    BY <1>1, <1>2, <1>4, <1>5, <1>6 DEF AlignAddress, Aligned
  <2>2. q = n
    <3>1. q * PageSize = size  BY <1>1, <1>2, <1>6
    <3>2. ~ (q < n)  BY <1>1, <1>2, <1>3, <3>1
    <3>3. ASSUME n < q PROVE FALSE
      <4>1. n * PageSize < q * PageSize  BY <1>1, <1>2, <1>3, <3>3, Monotone
      <4>2. n < n  BY <1>3, <3>1, <4>1
      <4> QED  BY <1>3, <4>2
    <3> QED  BY <1>2, <1>3, <3>2, <3>3
  <2> QED  BY <2>1, <2>2 DEF f, n
<1>7. CASE r # 0
  <2>1. AlignAddress(f * PageSize + size) = (f + q) * PageSize + r + PageSize - r
    BY <1>4, <1>5, <1>7 DEF AlignAddress, Aligned
  <2>2. AlignAddress(f * PageSize + size) = (f + (q + 1)) * PageSize
    <3>1. (f + q) * PageSize \in Nat  BY <1>1, <1>2
    <3>2. AlignAddress(f * PageSize + size) = (f + q) * PageSize + PageSize
      BY <1>1, <1>2, <2>1, <3>1
    <3>3. (f + (q + 1)) * PageSize = (f + q) * PageSize + PageSize  BY <1>1, <1>2
    <3> QED  BY <3>2, <3>3
  <2>3. n = q + 1
    <3>1. q * PageSize < size /\ q * PageSize \in Nat  BY <1>1, <1>2, <1>7
    <3>2. q < n  BY <1>2, <1>3, <3>1
    <3>3. (q + 1) * PageSize = q * PageSize + PageSize  BY <1>1, <1>2
    <3>4. ~ ((q + 1) * PageSize < size)  BY <1>1, <1>2, <3>1, <3>3
    <3>5. ~ (q + 1 < n)  BY <1>2, <1>3, <3>4
    <3> QED  BY <1>2, <1>3, <3>2, <3>5
  <2> QED  BY <1>1, <1>2, <1>3, <2>2, <2>3 DEF f, n
<1> QED  BY <1>6, <1>7

(* The stack lies in the address space, below the program.                  *)
LEMMA StackFitsPages ==
  \A i \in 0 .. (StackBlocks - 1) : StackPage + i \in Pages
<1>1. TableSize \in Nat \ {0} /\ TableSize * TableSize \in Nat  BY PagingAssumption
<1>2. Word = (TableSize * TableSize) * PageSize  BY AddressAssumption, Layout DEF Word
<1>3. ProgPage * PageSize <= Word  BY AddressAssumption, Layout
<1>4. ProgPage <= TableSize * TableSize  BY <1>1, <1>2, <1>3, Layout, Monotone
<1> QED  BY <1>1, <1>4, Layout DEF Pages

-----------------------------------------------------------------------------
(* The image and the stack of a process, by its record.                     *)

ImageOf(P)  == AddressToBlock(P.ptr)
StackOf(P)  == AddressToBlock(P.stack)
ImageRun(P) == ImageOf(P) .. (ImageOf(P) + BlocksOf(P.size) - 1)
StackRun(P) == StackOf(P) .. (StackOf(P) + StackBlocks - 1)

(* What process_load leaves in a process.                                   *)
MemoryOf(P) ==
  /\ P.size \in ImageSizes
  /\ ImageOf(P) \in Blocks /\ P.ptr = BlockToAddress(ImageOf(P))
  /\ StackOf(P) \in Blocks /\ P.stack = BlockToAddress(StackOf(P))
  /\ P.tables = StackMapped(ImageMapped(New4gb(FALSE), ImageOf(P), P.size), StackOf(P))

(* The entry of every page.                                                 *)
PageOf(P, w) ==
  IF w \in StackPage .. (StackPage + StackBlocks - 1)
    THEN Entry(HeapPage + StackOf(P) + (w - StackPage), TRUE)
  ELSE IF w \in ProgPage .. (ProgPage + BlocksOf(P.size) - 1)
    THEN Entry(HeapPage + ImageOf(P) + (w - ProgPage), TRUE)
  ELSE Entry(w, FALSE)

(* The tables that process_map_memory leaves.                               *)
LEMMA Tables ==
  ASSUME NEW P, MemoryOf(P)
  PROVE  \A w \in Pages : GetPage(P.tables, w) = PageOf(P, w)
<1> DEFINE image == ImageOf(P)
           stack == StackOf(P)
           n == BlocksOf(P.size)
           new == New4gb(FALSE)
           one == Mapped(new, ProgPage, HeapPage + image, n, TRUE)
           two == Mapped(one, StackPage, HeapPage + stack, StackBlocks, TRUE)
<1>1. /\ image \in Nat /\ stack \in Nat /\ P.size \in ImageSizes
      /\ P.tables = StackMapped(ImageMapped(new, image, P.size), stack)
  BY HeapAssumption DEF MemoryOf, Blocks
<1>2. /\ P.size \in 0 .. (Word - 1) /\ P.size <= Word - BlockSize
      /\ \A i \in 0 .. (n - 1) : ProgPage + i \in Pages
  BY <1>1, ImageFits
<1>3. n \in Nat  BY <1>2, BlocksFill
<1>4. new \in Directories /\ \A w \in Pages : GetPage(new, w) = Entry(w, FALSE)
  <2>1. new \in Directories
    <3>1. \A d, t \in Indexes : Entry(d * TableSize + t, FALSE) \in [frame : Nat, write : BOOLEAN]
      BY IndexesOfPage, PageInRange DEF Entry
    <3> QED  BY <3>1 DEF New4gb, Directories
  <2>2. ASSUME NEW w \in Pages PROVE GetPage(new, w) = Entry(w, FALSE)
    <3>1. w \div TableSize \in Indexes /\ w % TableSize \in Indexes  BY PageInRange
    <3>2. (w \div TableSize) * TableSize + (w % TableSize) = w  BY PageInRange, Quotient, PagingAssumption
    <3> QED  BY <3>1, <3>2 DEF GetPage, New4gb
  <2> QED  BY <2>1, <2>2
<1>5. /\ BlockToAddress(image) = (HeapPage + image) * PageSize
      /\ BlockToAddress(stack) = (HeapPage + stack) * PageSize
  BY <1>1, Layout DEF BlockToAddress
<1>6. AlignAddress(BlockToAddress(image) + P.size) = (HeapPage + image + n) * PageSize
  BY <1>1, <1>2, <1>5, AlignImage
<1>7. AlignAddress(BlockToAddress(stack) + StackBlocks * BlockSize) = (HeapPage + stack + StackBlocks) * PageSize
  <2>1. BlockToAddress(stack) + StackBlocks * BlockSize = (HeapPage + stack + StackBlocks) * PageSize
    BY <1>1, <1>5, Layout
  <2>2. ((HeapPage + stack + StackBlocks) * PageSize) % PageSize = 0  BY <1>1, Layout
  <2> QED  BY <2>1, <2>2 DEF AlignAddress, Aligned
<1> HIDE DEF image, stack, n, new
<1>8. HeapPage + image \in Nat /\ HeapPage + stack \in Nat  BY <1>1, Layout
<1>9. ImageMapped(new, image, P.size) = one
  <2>1. ASSUME NEW f \in Nat, NEW write \in BOOLEAN
        PROVE  MapTo(new, ProgPage * PageSize, f * PageSize, (f + n) * PageSize, write)
                 = Mapped(new, ProgPage, f, n, write)
    <3>1. /\ new \in Directories /\ ProgPage \in Nat /\ n \in Nat
          /\ \A i \in 0 .. (n - 1) : ProgPage + i \in Pages
      BY <1>2, <1>3, <1>4, Layout
    <3> QED  BY <3>1, MapToMaps, Zenon
  <2>2. MapTo(new, ProgAddress, BlockToAddress(image), AlignAddress(BlockToAddress(image) + P.size), TRUE)
          = Mapped(new, ProgPage, HeapPage + image, n, TRUE)
    <3>1. MapTo(new, ProgPage * PageSize, (HeapPage + image) * PageSize, ((HeapPage + image) + n) * PageSize, TRUE)
            = Mapped(new, ProgPage, HeapPage + image, n, TRUE)
      BY <1>8, <2>1
    <3> QED  BY <1>5, <1>6, <3>1, Layout
  <2> QED  BY <2>2 DEF ImageMapped
<1>10. one \in Directories /\ \A w \in Pages : GetPage(one, w) =
         IF w \in ProgPage .. (ProgPage + n - 1) THEN Entry(HeapPage + image + (w - ProgPage), TRUE)
         ELSE GetPage(new, w)
  <2>1. ASSUME NEW f \in Nat, NEW write \in BOOLEAN
        PROVE  /\ Mapped(new, ProgPage, f, n, write) \in Directories
               /\ \A w \in Pages : GetPage(Mapped(new, ProgPage, f, n, write), w) =
                    IF w \in ProgPage .. (ProgPage + n - 1) THEN Entry(f + (w - ProgPage), write)
                    ELSE GetPage(new, w)
    BY <1>3, <1>4, Layout, GetMapped
  <2> QED  BY <1>8, <2>1
<1> HIDE DEF one
<1>11. \A i \in 0 .. (StackBlocks - 1) : StackPage + i \in Pages
  BY StackFitsPages
<1>12. StackMapped(one, stack) = two
  <2>1. ASSUME NEW f \in Nat, NEW write \in BOOLEAN
        PROVE  MapTo(one, StackPage * PageSize, f * PageSize, (f + StackBlocks) * PageSize, write)
                 = Mapped(one, StackPage, f, StackBlocks, write)
    <3>1. one \in Directories /\ StackPage \in Nat /\ StackBlocks \in Nat  BY <1>10, Layout
    <3> QED  BY <1>11, <3>1, MapToMaps, Zenon
  <2>2. MapTo(one, StackAddress, BlockToAddress(stack),
              AlignAddress(BlockToAddress(stack) + StackBlocks * BlockSize), TRUE)
          = Mapped(one, StackPage, HeapPage + stack, StackBlocks, TRUE)
    <3>1. MapTo(one, StackPage * PageSize, (HeapPage + stack) * PageSize,
                ((HeapPage + stack) + StackBlocks) * PageSize, TRUE)
            = Mapped(one, StackPage, HeapPage + stack, StackBlocks, TRUE)
      BY <1>8, <2>1
    <3> QED  BY <1>5, <1>7, <3>1, Layout
  <2> QED  BY <2>2 DEF StackMapped
<1>13. \A w \in Pages : GetPage(two, w) =
         IF w \in StackPage .. (StackPage + StackBlocks - 1) THEN Entry(HeapPage + stack + (w - StackPage), TRUE)
         ELSE GetPage(one, w)
  <2>1. ASSUME NEW f \in Nat, NEW write \in BOOLEAN
        PROVE  \A w \in Pages : GetPage(Mapped(one, StackPage, f, StackBlocks, write), w) =
                 IF w \in StackPage .. (StackPage + StackBlocks - 1) THEN Entry(f + (w - StackPage), write)
                 ELSE GetPage(one, w)
    BY <1>10, Layout, GetMapped
  <2> QED  BY <1>8, <2>1
<1> HIDE DEF two
<1>14. P.tables = two  BY <1>1, <1>9, <1>12
<1> QED  BY <1>4, <1>10, <1>13, <1>14 DEF PageOf, image, stack, n

(* The translation of an address, by its page.                              *)
LEMMA TranslatePage ==
  ASSUME NEW dir, NEW w \in Pages, NEW r \in 0 .. (PageSize - 1)
  PROVE  Translate(dir, w * PageSize + r) =
           [at |-> GetPage(dir, w).frame * PageSize + r, write |-> GetPage(dir, w).write]
<1> DEFINE a == w * PageSize + r
<1>1. w \in Nat /\ PageSize \in Nat \ {0}  BY PageInRange, Layout
<1>2. a % PageSize = r  BY <1>1, Divide
<1>3. a - r = w * PageSize  BY <1>1
<1>4. Get(dir, w * PageSize) = GetPage(dir, w)  BY GetIsPage
<1> HIDE DEF a
<1> QED  BY <1>2, <1>3, <1>4 DEF Translate, a

(* What the processor makes of an address.                                  *)
Byte(a, write) == [at |-> a, write |-> write]

(* The bytes of a run of pages that stand for the run of frames from f on.  *)
LEMMA RunTranslated ==
  ASSUME NEW dir, NEW v \in Nat, NEW f \in Nat, NEW n \in Nat, NEW write,
         \A i \in Nat : i < n => v + i \in Pages /\ GetPage(dir, v + i) = Entry(f + i, write)
  PROVE  \A k \in Nat : k < n * PageSize =>
           Translate(dir, v * PageSize + k) = Byte(f * PageSize + k, write)
<1> SUFFICES ASSUME NEW k \in Nat, k < n * PageSize
             PROVE  Translate(dir, v * PageSize + k) = Byte(f * PageSize + k, write)
  OBVIOUS
<1> DEFINE q == k \div PageSize
           r == k % PageSize
<1>1. PageSize \in Nat \ {0}  BY Layout
<1>2. q \in Nat /\ r \in 0 .. (PageSize - 1) /\ k = q * PageSize + r  BY <1>1, Quotient
<1> HIDE DEF q, r
<1>3. v * PageSize + k = (v + q) * PageSize + r /\ f * PageSize + k = (f + q) * PageSize + r
  BY <1>1, <1>2
<1>4. q < n
  <2>1. q * PageSize < n * PageSize  BY <1>1, <1>2
  <2> QED  BY <1>1, <1>2, <2>1, Monotone
<1>5. v + q \in Pages /\ GetPage(dir, v + q) = Entry(f + q, write)  BY <1>2, <1>4
<1>6. Translate(dir, (v + q) * PageSize + r) =
        [at |-> GetPage(dir, v + q).frame * PageSize + r, write |-> GetPage(dir, v + q).write]
  BY <1>2, <1>5, TranslatePage
<1>7. GetPage(dir, v + q).frame = f + q /\ GetPage(dir, v + q).write = write  BY <1>5 DEF Entry
<1> QED  BY <1>3, <1>6, <1>7 DEF Byte

(* What the tables of a loaded program make of its addresses.               *)
LEMMA MemoryExact ==
  ASSUME NEW P, MemoryOf(P)
  PROVE  /\ \A k \in 0 .. P.size - 1 :
              Translate(P.tables, ProgAddress + k) = [at |-> P.ptr + k, write |-> TRUE]
         /\ \A k \in 0 .. (StackBlocks * BlockSize) - 1 :
              Translate(P.tables, StackAddress + k) = [at |-> P.stack + k, write |-> TRUE]
         /\ \A v \in Pages :
              \/ v * PageSize \in ProgAddress .. ProgAddress + P.size - 1
              \/ v * PageSize \in StackAddress .. StackAddress + (StackBlocks * BlockSize) - 1
              \/ Get(P.tables, v * PageSize) = Entry(v, FALSE)
<1> DEFINE n == BlocksOf(P.size)
<1>1. /\ ImageOf(P) \in Nat /\ StackOf(P) \in Nat
      /\ P.size \in 0 .. (Word - 1) /\ P.size <= Word - BlockSize
      /\ \A i \in 0 .. (n - 1) : ProgPage + i \in Pages
  BY HeapAssumption, ImageFits DEF MemoryOf, Blocks
<1>2. n \in Nat /\ \A j \in Nat : j < n <=> j * PageSize < P.size  BY <1>1, BlocksFill, Layout
<1>3. \A w \in Pages : GetPage(P.tables, w) = PageOf(P, w)  BY Tables
<1>4. P.ptr = (HeapPage + ImageOf(P)) * PageSize /\ P.stack = (HeapPage + StackOf(P)) * PageSize
  BY <1>1, Layout DEF MemoryOf, BlockToAddress
<1>5. \A w \in Pages : PageOf(P, w) =
        IF w \in StackPage .. (StackPage + StackBlocks - 1)
          THEN Entry(HeapPage + StackOf(P) + (w - StackPage), TRUE)
        ELSE IF w \in ProgPage .. (ProgPage + n - 1)
          THEN Entry(HeapPage + ImageOf(P) + (w - ProgPage), TRUE)
        ELSE Entry(w, FALSE)
  BY DEF PageOf
<1> DEFINE yes == TRUE
<1> HIDE DEF n, yes
<1>6. ASSUME NEW k \in 0 .. P.size - 1
      PROVE  Translate(P.tables, ProgAddress + k) = [at |-> P.ptr + k, write |-> TRUE]
  <2>1. ASSUME NEW i \in Nat, i < n
        PROVE  /\ ProgPage + i \in Pages
               /\ GetPage(P.tables, ProgPage + i) = Entry((HeapPage + ImageOf(P)) + i, yes)
    <3>1. ProgPage + i \in Pages  BY <1>1, <1>2, <2>1
    <3>2. ~ (ProgPage + i \in StackPage .. (StackPage + StackBlocks - 1))  BY Layout
    <3>3. ProgPage + i \in ProgPage .. (ProgPage + n - 1) /\ (ProgPage + i) - ProgPage = i
      BY <1>2, <2>1, Layout
    <3> QED  BY <1>3, <1>5, <3>1, <3>2, <3>3 DEF yes
  <2>2. HeapPage + ImageOf(P) \in Nat /\ ProgPage \in Nat  BY <1>1, Layout
  <2>3. \A j \in Nat : j < n * PageSize =>
          Translate(P.tables, ProgPage * PageSize + j) = Byte((HeapPage + ImageOf(P)) * PageSize + j, yes)
    <3>1. \A i \in Nat : i < n => /\ ProgPage + i \in Pages
                                /\ GetPage(P.tables, ProgPage + i) = Entry((HeapPage + ImageOf(P)) + i, yes)
      BY <2>1
    <3>2. n \in Nat  BY <1>2
    <3> QED  BY <2>2, <3>1, <3>2, RunTranslated
  <2>4. k \in Nat /\ k < n * PageSize
    <3>1. n * PageSize >= P.size  BY <1>1, BlocksOfCovers, Layout DEF n
    <3> QED  BY <1>1, <1>2, <3>1, Layout
  <2> QED  BY <1>4, <2>3, <2>4, Layout DEF yes, Byte
<1>7. ASSUME NEW k \in 0 .. (StackBlocks * BlockSize) - 1
      PROVE  Translate(P.tables, StackAddress + k) = [at |-> P.stack + k, write |-> TRUE]
  <2>1. ASSUME NEW i \in Nat, i < StackBlocks
        PROVE  /\ StackPage + i \in Pages
               /\ GetPage(P.tables, StackPage + i) = Entry((HeapPage + StackOf(P)) + i, yes)
    <3>1. StackPage + i \in Pages
      <4>1. i \in 0 .. (StackBlocks - 1)  BY <2>1, Layout
      <4> QED  BY <4>1, StackFitsPages
    <3>2. StackPage + i \in StackPage .. (StackPage + StackBlocks - 1) /\ (StackPage + i) - StackPage = i
      BY <2>1, Layout
    <3> QED  BY <1>3, <1>5, <3>1, <3>2 DEF yes
  <2>2. HeapPage + StackOf(P) \in Nat /\ StackPage \in Nat /\ StackBlocks \in Nat  BY <1>1, Layout
  <2>3. \A j \in Nat : j < StackBlocks * PageSize =>
          Translate(P.tables, StackPage * PageSize + j) = Byte((HeapPage + StackOf(P)) * PageSize + j, yes)
    <3>1. \A i \in Nat : i < StackBlocks =>
             /\ StackPage + i \in Pages
             /\ GetPage(P.tables, StackPage + i) = Entry((HeapPage + StackOf(P)) + i, yes)
      BY <2>1
    <3> QED  BY <2>2, <3>1, RunTranslated
  <2>4. k \in Nat /\ k < StackBlocks * PageSize  BY Layout
  <2> QED  BY <1>4, <2>3, <2>4, Layout DEF yes, Byte
<1>8. ASSUME NEW v \in Pages,
             v * PageSize \notin ProgAddress .. ProgAddress + P.size - 1,
             v * PageSize \notin StackAddress .. StackAddress + (StackBlocks * BlockSize) - 1
      PROVE  Get(P.tables, v * PageSize) = Entry(v, FALSE)
  <2>1. v \in Nat  BY PageInRange
  <2>2. v \notin ProgPage .. (ProgPage + n - 1)
    <3>1. SUFFICES ASSUME v \in ProgPage .. (ProgPage + n - 1) PROVE FALSE
      OBVIOUS
    <3>2. PICK j \in Nat : v = ProgPage + j /\ j < n
      <4>1. v - ProgPage \in Nat /\ v = ProgPage + (v - ProgPage) /\ v - ProgPage < n
        BY <1>2, <2>1, <3>1, Layout
      <4> QED  BY <4>1
    <3>3. j * PageSize < P.size  BY <1>2, <3>2
    <3>4. v * PageSize = ProgAddress + j * PageSize /\ j * PageSize \in Nat  BY <3>2, Layout
    <3>5. ProgAddress \in Nat /\ P.size \in Nat  BY <1>1, AddressAssumption
    <3> QED  BY <1>8, <3>3, <3>4, <3>5
  <2>3. v \notin StackPage .. (StackPage + StackBlocks - 1)
    <3>1. SUFFICES ASSUME v \in StackPage .. (StackPage + StackBlocks - 1) PROVE FALSE
      OBVIOUS
    <3>2. PICK j \in Nat : v = StackPage + j /\ j < StackBlocks
      <4>1. v - StackPage \in Nat /\ v = StackPage + (v - StackPage) /\ v - StackPage < StackBlocks
        BY <2>1, <3>1, Layout
      <4> QED  BY <4>1
    <3>3. j * PageSize < StackBlocks * PageSize  BY <3>2, Layout, Monotone
    <3>4. v * PageSize = StackAddress + j * PageSize /\ j * PageSize \in Nat  BY <3>2, Layout
    <3>5. StackAddress \in Nat /\ StackBlocks * BlockSize = StackBlocks * PageSize /\ StackBlocks * PageSize \in Nat
      BY Layout, AddressAssumption
    <3> QED  BY <1>8, <3>3, <3>4, <3>5
  <2>4. GetPage(P.tables, v) = Entry(v, FALSE)  BY <1>3, <1>5, <2>2, <2>3
  <2> QED  BY <2>4, GetIsPage
<1> QED  BY <1>6, <1>7, <1>8

(* The blocks that a loaded program can write.                              *)
LEMMA WritableIsOwn ==
  ASSUME NEW p \in Running, MemoryOf(processes[p])
  PROVE  Writable(p) \subseteq ImageRun(processes[p]) \cup StackRun(processes[p])
<1> DEFINE P == processes[p]
           n == BlocksOf(P.size)
<1>1. /\ ImageOf(P) \in Nat /\ StackOf(P) \in Nat /\ n \in Nat
      /\ \A i \in 0 .. (n - 1) : ProgPage + i \in Pages
  BY HeapAssumption, ImageFits, BlocksFill DEF MemoryOf, Blocks
<1>2. \A w \in Pages : Get(P.tables, w * PageSize) = PageOf(P, w)  BY Tables, GetIsPage
<1>3. ASSUME NEW f \in Nat PROVE AddressToBlock((HeapPage + f) * PageSize) = f
  <2>1. (HeapPage + f) * PageSize - Saddr = f * PageSize  BY Layout
  <2>2. (f * PageSize) \div BlockSize = f  BY Layout
  <2> QED  BY <2>1, <2>2 DEF AddressToBlock
<1>4. ASSUME NEW w \in Pages, PageOf(P, w).write
      PROVE  AddressToBlock(PageOf(P, w).frame * PageSize) \in ImageRun(P) \cup StackRun(P)
  <2>0. w \in Nat  BY PageInRange
  <2>1. CASE w \in StackPage .. (StackPage + StackBlocks - 1)
    <3>1. w - StackPage \in 0 .. (StackBlocks - 1)  BY <2>0, <2>1, Layout
    <3>2. PageOf(P, w).frame = HeapPage + (StackOf(P) + (w - StackPage))
      BY <1>1, <2>1, <3>1, Layout DEF PageOf, Entry
    <3>3. StackOf(P) + (w - StackPage) \in StackRun(P) /\ StackOf(P) + (w - StackPage) \in Nat
      BY <1>1, <3>1, Layout DEF StackRun
    <3> QED  BY <1>3, <3>2, <3>3
  <2>2. CASE w \notin StackPage .. (StackPage + StackBlocks - 1) /\ w \in ProgPage .. (ProgPage + n - 1)
    <3>1. w - ProgPage \in 0 .. (n - 1)  BY <1>1, <2>0, <2>2, Layout
    <3>2. PageOf(P, w).frame = HeapPage + (ImageOf(P) + (w - ProgPage))
      BY <1>1, <2>2, <3>1, Layout DEF PageOf, Entry
    <3>3. ImageOf(P) + (w - ProgPage) \in ImageRun(P) /\ ImageOf(P) + (w - ProgPage) \in Nat
      BY <1>1, <3>1, Layout DEF ImageRun
    <3> QED  BY <1>3, <3>2, <3>3
  <2>3. CASE w \notin StackPage .. (StackPage + StackBlocks - 1) /\ w \notin ProgPage .. (ProgPage + n - 1)
    BY <1>4, <2>3 DEF PageOf, Entry
  <2> QED  BY <2>1, <2>2, <2>3
<1> HIDE DEF P
<1> QED  BY <1>2, <1>4 DEF Writable, P

-----------------------------------------------------------------------------
(* Runs of blocks.                                                          *)

(* A run may stick out of the heap's end, and then holds its last block.    *)
Solid(S) == S \subseteq Nat /\ ((\E j \in S : j >= Total) => Total - 1 \in S)

(* Two sets are apart if the one has nothing of what the other had to choose*)
(* from.                                                                    *)
LEMMA Apart ==
  ASSUME NEW A, NEW B, NEW F, Solid(A), Solid(B), A \cap F = {}, B \cap Blocks \subseteq F
  PROVE  A \cap B = {}
<1>1. SUFFICES ASSUME NEW x \in A \cap B PROVE FALSE
  OBVIOUS
<1>2. x \in Nat /\ Total \in Nat \ {0}  BY HeapAssumption DEF Solid
<1>3. CASE x < Total
  <2>1. x \in Blocks  BY <1>2, <1>3 DEF Blocks
  <2> QED  BY <2>1
<1>4. CASE x >= Total
  <2>1. Total - 1 \in A /\ Total - 1 \in B  BY <1>4 DEF Solid
  <2>2. Total - 1 \in Blocks  BY <1>2 DEF Blocks
  <2> QED  BY <2>1, <2>2
<1> QED  BY <1>2, <1>3, <1>4

(* Sets of several runs, and sets of blocks, are solid too.                 *)
LEMMA SolidUnion ==
  ASSUME NEW A, NEW B, Solid(A), Solid(B)
  PROVE  Solid(A \cup B)
BY DEF Solid

LEMMA SolidInside ==
  ASSUME NEW A, A \subseteq Blocks
  PROVE  Solid(A)
BY HeapAssumption DEF Solid, Blocks

(* What a request gets is free as far as it lies in the heap.               *)
LEMMA RunIsFree ==
  ASSUME NEW F, F \subseteq Blocks, NEW n \in Nat, Found(F, n)
  PROVE  Solid(Run(F, n)) /\ Run(F, n) \cap Blocks \subseteq F /\ Start(F, n) \in Blocks
<1> DEFINE s == Start(F, n)
<1>1. s \in Blocks /\ \A i \in Blocks \cap (s .. (s + n - 1)) : IsFree(Table(F), i)
  BY StartBlockIsFree DEF Start, Found
<1>2. \A i \in Blocks : IsFree(Table(F), i) => i \in F
  BY DEF IsFree, EntryType, Table, FREE, TAKEN
<1>3. Solid(s .. (s + n - 1))
  <2>1. s \in 0 .. (Total - 1) /\ Total \in Nat  BY <1>1, HeapAssumption DEF Blocks
  <2> HIDE DEF s
  <2> QED  BY <2>1 DEF Solid
<1> QED  BY <1>1, <1>2, <1>3 DEF Run

-----------------------------------------------------------------------------
(* Who holds what.                                                          *)

(* The image, the stack and the structures of a process.                    *)
Owned(P) == ImageRun(P) \cup StackRun(P) \cup P.kernel

(* No block is held twice, nor held and free.                               *)
OwnInv ==
  /\ free \subseteq Blocks
  /\ \A p \in Running :
       /\ MemoryOf(processes[p])
       /\ Solid(Owned(processes[p])) /\ Owned(processes[p]) \cap free = {}
       /\ (ImageRun(processes[p]) \cup StackRun(processes[p])) \cap processes[p].kernel = {}
  /\ \A p, q \in Running : p # q => Owned(processes[p]) \cap Owned(processes[q]) = {}

(* The requests of a load, one after the other.                             *)
LEMMA LoadTakes ==
  ASSUME free \subseteq Blocks, NEW size \in ImageSizes, LoadSucceeds(size)
  PROVE  \E n, P :
           /\ n \in Slots \ Running
           /\ P # Empty
           /\ processes' = [processes EXCEPT ![n] = P]
           /\ MemoryOf(P)
           /\ Solid(Owned(P)) /\ Owned(P) \cap Blocks \subseteq free
           /\ Owned(P) \cap free' = {}
           /\ (ImageRun(P) \cup StackRun(P)) \cap P.kernel = {}
           /\ free' \subseteq free
<1> DEFINE slot == CHOOSE s \in FreeSlots : \A r \in FreeSlots : s <= r
           image == Start(WithFile, BlocksOf(size))
           stack == Start(Loaded(size), StackBlocks)
           t == Start(WithStack(size), 1)
           P == [id     |-> slot,
                 task   |-> t,
                 ptr    |-> BlockToAddress(image),
                 size   |-> size,
                 stack  |-> BlockToAddress(stack),
                 tables |-> StackMapped(ImageMapped(New4gb(FALSE), image, size), stack),
                 kernel |-> Run(free, ProcBlocks) \cup {t} \cup Directory(size)]
           R1 == Run(free, ProcBlocks)
           R2 == Run(WithFile, BlocksOf(size))
           R3 == Run(Loaded(size), StackBlocks)
           T  == {t} \cup Directory(size)
<1>1. /\ FreeSlots # {} /\ Found(free, ProcBlocks) /\ Found(WithFile, BlocksOf(size))
      /\ Found(Loaded(size), StackBlocks) /\ Found(WithStack(size), 1)
  BY DEF LoadSucceeds, ImageRead, Opens, StackFits, TaskFits
<1>2. ProcBlocks \in Nat /\ StackBlocks \in Nat /\ BlocksOf(size) \in Nat /\ 1 \in Nat
  BY ProcessAssumption, ImageFits, BlocksFill
<1>3. ASSUME NEW F, NEW k PROVE Lowest(F, k) \subseteq F  BY DEF Lowest
<1>4. /\ WithProcess = free \ R1
      /\ WithPath \subseteq WithProcess /\ FileBlocks \subseteq WithPath
      /\ WithFile = WithPath \ FileBlocks
      /\ Loaded(size) = (WithFile \ R2) \cup FileBlocks
      /\ WithStack(size) = Loaded(size) \ R3
      /\ WithTask(size) = WithStack(size) \ Run(WithStack(size), 1)
      /\ Directory(size) \subseteq WithTask(size)
      /\ free' = WithTask(size) \ Directory(size)
  <2>1. WithProcess = free \ R1  BY DEF WithProcess, After
  <2>2. WithPath \subseteq WithProcess /\ FileBlocks \subseteq WithPath /\ WithFile = WithPath \ FileBlocks
    BY <1>3 DEF WithPath, FileBlocks, WithFile
  <2>3. Loaded(size) = (WithFile \ R2) \cup FileBlocks  BY DEF Loaded, WithImage, After
  <2>4. WithStack(size) = Loaded(size) \ R3  BY DEF WithStack, After
  <2>5. WithTask(size) = WithStack(size) \ Run(WithStack(size), 1)  BY DEF WithTask, After
  <2>6. Directory(size) \subseteq WithTask(size)  BY <1>3 DEF Directory
  <2>7. free' = WithTask(size) \ Directory(size)  BY Zenon DEF LoadSucceeds
  <2> QED  BY <2>1, <2>2, <2>3, <2>4, <2>5, <2>6, <2>7, Zenon
<1>5. WithFile \subseteq Blocks /\ Loaded(size) \subseteq Blocks /\ WithStack(size) \subseteq Blocks
  BY <1>4
<1>6. Solid(R1) /\ R1 \cap Blocks \subseteq free  BY <1>1, <1>2, RunIsFree
<1>7. Solid(R2) /\ R2 \cap Blocks \subseteq WithFile /\ image \in Blocks
  BY <1>1, <1>2, <1>5, RunIsFree
<1>8. Solid(R3) /\ R3 \cap Blocks \subseteq Loaded(size) /\ stack \in Blocks
  BY <1>1, <1>2, <1>5, RunIsFree
<1>9. Run(WithStack(size), 1) = {t} /\ t \in WithStack(size)
  <2>1. Run(WithStack(size), 1) \cap Blocks \subseteq WithStack(size) /\ t \in Blocks
    BY <1>1, <1>2, <1>5, RunIsFree
  <2>2. t \in Int  BY <2>1, HeapAssumption DEF Blocks
  <2>3. Run(WithStack(size), 1) = t .. (t + 1 - 1)  BY DEF Run
  <2> HIDE DEF t
  <2>4. t .. (t + 1 - 1) = {t}  BY <2>2
  <2> QED  BY <2>1, <2>3, <2>4
<1>10. slot \in FreeSlots
  <2>1. FreeSlots \subseteq Nat  BY ProcessAssumption DEF FreeSlots, Slots
  <2>2. Least(FreeSlots) \in FreeSlots  BY <1>1, <2>1, LeastIsLeast
  <2> QED  BY <2>2 DEF Least
<1>11. processes' = [processes EXCEPT ![slot] = P]  BY DEF LoadSucceeds
<1>12. /\ P.id = slot /\ P.ptr = BlockToAddress(image) /\ P.size = size
       /\ P.stack = BlockToAddress(stack)
       /\ P.tables = StackMapped(ImageMapped(New4gb(FALSE), image, size), stack)
       /\ P.kernel = R1 \cup T
  OBVIOUS
<1>13. R2 = image .. (image + BlocksOf(size) - 1) /\ R3 = stack .. (stack + StackBlocks - 1)
  BY DEF Run
<1> HIDE DEF slot, image, stack, t, P, R1, R2, R3
<1>14. P # Empty
  <2>1. Empty.id = -1  BY DEF Empty
  <2>2. P.id >= 0  BY <1>10, <1>12, ProcessAssumption DEF FreeSlots, Slots
  <2> QED  BY <2>1, <2>2
<1>15. ImageOf(P) = image /\ StackOf(P) = stack
  BY <1>7, <1>8, <1>12, RoundTrip DEF ImageOf, StackOf
<1>16. MemoryOf(P)  BY <1>7, <1>8, <1>12, <1>15 DEF MemoryOf
<1>17. ImageRun(P) = R2 /\ StackRun(P) = R3
  BY <1>12, <1>13, <1>15 DEF ImageRun, StackRun
<1>18. Solid(T) /\ T \subseteq WithStack(size)
  <2>1. T \subseteq WithStack(size)  BY <1>4, <1>9
  <2> QED  BY <1>5, <2>1, SolidInside
<1> HIDE DEF T
<1>19. R1 \cap WithFile = {} /\ R1 \cap Loaded(size) = {}  BY <1>4
<1>20. R2 \cap Loaded(size) = {}  BY <1>4, <1>5, <1>7
<1>21. R3 \cap WithStack(size) = {}  BY <1>4
<1>22. R1 \cap R2 = {} /\ R1 \cap R3 = {} /\ R2 \cap R3 = {}
  BY <1>6, <1>7, <1>8, <1>19, <1>20, Apart
<1>23. (R2 \cup R3) \cap (R1 \cup T) = {}
  BY <1>4, <1>18, <1>20, <1>21, <1>22
<1>24. Solid(Owned(P))
  BY <1>6, <1>7, <1>8, <1>12, <1>17, <1>18, SolidUnion DEF Owned
<1>25. Owned(P) \cap Blocks \subseteq free
  BY <1>4, <1>6, <1>7, <1>8, <1>12, <1>17, <1>18 DEF Owned
<1>26. free' \subseteq free  BY <1>4
<1>27. Owned(P) \cap free' = {}
  BY <1>4, <1>9, <1>12, <1>17, <1>19, <1>20, <1>21 DEF Owned, T
<1>28. slot \in Slots \ Running  BY <1>10 DEF FreeSlots, Running
<1> QED  BY <1>11, <1>12, <1>14, <1>16, <1>17, <1>23, <1>24, <1>25, <1>26, <1>27, <1>28

(* At first nobody holds anything.                                          *)
LEMMA OwnInit == Init => OwnInv
<1> SUFFICES ASSUME Init PROVE OwnInv
  OBVIOUS
<1>1. Running = {}  BY DEF Init, Running
<1> QED  BY <1>1 DEF Init, OwnInv

(* A load that succeeds takes from what was free.                           *)
LEMMA OwnLoad ==
  ASSUME OwnInv, processes = [s \in Slots |-> processes[s]],
         NEW size \in ImageSizes, LoadSucceeds(size)
  PROVE  OwnInv'
<1>1. PICK n, P :
           /\ n \in Slots \ Running
           /\ P # Empty
           /\ processes' = [processes EXCEPT ![n] = P]
           /\ MemoryOf(P)
           /\ Solid(Owned(P)) /\ Owned(P) \cap Blocks \subseteq free
           /\ Owned(P) \cap free' = {}
           /\ (ImageRun(P) \cup StackRun(P)) \cap P.kernel = {}
           /\ free' \subseteq free
  BY LoadTakes DEF OwnInv
<1>2. processes'[n] = P /\ \A s \in Slots \ {n} : processes'[s] = processes[s]
  BY <1>1
<1>3. Running' = Running \cup {n} /\ n \notin Running /\ Running \subseteq Slots \ {n}
  BY <1>1, <1>2 DEF Running
<1>4. \A p \in Running : processes'[p] = processes[p]  BY <1>2, <1>3
<1>5. \A p \in Running :
        /\ Solid(Owned(processes[p])) /\ Owned(processes[p]) \cap free = {}
        /\ Owned(processes[p]) \cap Owned(P) = {}
  <2>1. ASSUME NEW p \in Running PROVE Owned(processes[p]) \cap Owned(P) = {}
    <3>1. Solid(Owned(processes[p])) /\ Owned(processes[p]) \cap free = {}  BY DEF OwnInv
    <3> QED  BY <1>1, <3>1, Apart
  <2> QED  BY <2>1 DEF OwnInv
<1>6. ASSUME NEW p \in Running'
      PROVE  /\ MemoryOf(processes'[p])
             /\ Solid(Owned(processes'[p])) /\ Owned(processes'[p]) \cap free' = {}
             /\ (ImageRun(processes'[p]) \cup StackRun(processes'[p])) \cap processes'[p].kernel = {}
  <2>1. CASE p = n  BY <1>1, <1>2, <2>1
  <2>2. CASE p \in Running
    <3>1. /\ MemoryOf(processes[p])
          /\ Solid(Owned(processes[p])) /\ Owned(processes[p]) \cap free = {}
          /\ (ImageRun(processes[p]) \cup StackRun(processes[p])) \cap processes[p].kernel = {}
      BY <2>2 DEF OwnInv
    <3>2. Owned(processes[p]) \cap free' = {}  BY <1>1, <3>1
    <3> QED  BY <1>4, <2>2, <3>1, <3>2
  <2> QED  BY <1>3, <2>1, <2>2
<1>7. ASSUME NEW p \in Running', NEW q \in Running', p # q
      PROVE  Owned(processes'[p]) \cap Owned(processes'[q]) = {}
  <2>1. CASE p = n  BY <1>2, <1>3, <1>4, <1>5, <1>7, <2>1
  <2>2. CASE q = n  BY <1>2, <1>3, <1>4, <1>5, <1>7, <2>2
  <2>3. CASE p \in Running /\ q \in Running  BY <1>4, <1>7, <2>3 DEF OwnInv
  <2> QED  BY <1>3, <2>1, <2>2, <2>3
<1>8. free' \subseteq Blocks  BY <1>1 DEF OwnInv
<1>9. OwnInv' <=>
        /\ free' \subseteq Blocks
        /\ \A p \in Running' :
             /\ MemoryOf(processes'[p])
             /\ Solid(Owned(processes'[p])) /\ Owned(processes'[p]) \cap free' = {}
             /\ (ImageRun(processes'[p]) \cup StackRun(processes'[p])) \cap processes'[p].kernel = {}
        /\ \A p, q \in Running' : p # q => Owned(processes'[p]) \cap Owned(processes'[q]) = {}
  BY DEF OwnInv
<1> QED  BY <1>6, <1>7, <1>8, <1>9

(* A load that fails takes nothing from a process.                          *)
LEMMA OwnStep == SlotInv /\ OwnInv /\ [Next]_vars => OwnInv'
<1> SUFFICES ASSUME SlotInv, OwnInv, [Next]_vars PROVE OwnInv'
  OBVIOUS
<1>1. ASSUME UNCHANGED processes PROVE OwnInv'
  <2>1. Running' = Running  BY <1>1 DEF Running
  <2>2. free' \subseteq free  BY FreeShrinks DEF OwnInv
  <2> QED  BY <1>1, <2>1, <2>2 DEF OwnInv
<1>2. ASSUME NEW size \in ImageSizes, LoadSucceeds(size) PROVE OwnInv'
  BY <1>2, OwnLoad DEF SlotInv
<1> QED
  BY <1>1, <1>2
     DEF Next, vars, LoadRefused, LoadNoFile, LoadNoImage, LoadUnreadable, LoadNoStack, LoadNoTask,
         RunFirstEverTask

(* What a program can write is its own.                                     *)
LEMMA OwnIsolates == OwnInv => Isolation
<1> SUFFICES ASSUME OwnInv, NEW p \in Running, NEW q \in Running
             PROVE  /\ Writable(p) \cap processes[q].kernel = {}
                    /\ (Writable(p) \cup processes[p].kernel) \cap free = {}
                    /\ p # q => /\ Writable(p) \cap Writable(q) = {}
                                /\ processes[p].kernel \cap processes[q].kernel = {}
  BY DEF Isolation
<1>1. ASSUME NEW r \in Running
      PROVE  /\ Writable(r) \subseteq ImageRun(processes[r]) \cup StackRun(processes[r])
             /\ processes[r].kernel \subseteq Owned(processes[r])
             /\ Writable(r) \subseteq Owned(processes[r])
  BY WritableIsOwn DEF OwnInv, Owned
<1>2. Owned(processes[p]) \cap free = {}
      /\ (ImageRun(processes[p]) \cup StackRun(processes[p])) \cap processes[p].kernel = {}
  BY DEF OwnInv
<1>3. p # q => Owned(processes[p]) \cap Owned(processes[q]) = {}  BY DEF OwnInv
<1>4. Writable(p) \cap processes[q].kernel = {}
  BY <1>1, <1>2, <1>3
<1> QED  BY <1>1, <1>2, <1>3, <1>4

(* Every loaded program has the tables it was given.                        *)
LEMMA OwnMapsExact == OwnInv => MapsExact
  BY MemoryExact DEF OwnInv, MapsExact

(* No program can write another one's image or stack, the structures of any *)
(* process, or what the heap gives away later (src/proc/process.c:82-105,   *)
(* src/proc/process.c:140-218, src/mem/heap.c:88-125).                      *)
THEOREM ProcessIsolation == Spec => []Isolation
  BY FreshInit, FreshStep, SlotInitInv, SlotStep, OwnInit, OwnStep, OwnIsolates, PTL DEF Spec

(* Every program finds its image and its stack, byte by byte, where it was linked*)
(* to find them, and every other page stands for itself and is read only    *)
(* (src/proc/process.c:82-105, src/mem/paging.c:43-61, src/mem/paging.c:112-146).*)
THEOREM ProcessMapsExact == Spec => []MapsExact
  BY FreshInit, FreshStep, SlotInitInv, SlotStep, OwnInit, OwnStep, OwnMapsExact, PTL DEF Spec
=============================================================================
