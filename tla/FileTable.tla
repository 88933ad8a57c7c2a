------------------------------ MODULE FileTable ------------------------------
(***************************************************************************)
(* What a table of file handles promises: a handle refers to one file from  *)
(* the moment fopen returns it until its fclose, whatever happens to the     *)
(* other handles in between.                                                *)
(***************************************************************************)
CONSTANTS
  Handles,      \* the handles there are
  Targets,      \* what a handle can refer to
  Closed        \* not a target

VARIABLE binding

Init == binding = [h \in Handles |-> Closed]

Open(h, t) == /\ binding[h] = Closed
              /\ binding' = [binding EXCEPT ![h] = t]

Close(h) == /\ binding[h] # Closed
            /\ binding' = [binding EXCEPT ![h] = Closed]

Next == \E h \in Handles : Close(h) \/ \E t \in Targets : Open(h, t)

Spec == Init /\ [][Next]_binding
=============================================================================
