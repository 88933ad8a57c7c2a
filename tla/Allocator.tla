------------------------------ MODULE Allocator ------------------------------
(***************************************************************************)
(* What a memory allocator promises its clients: an extent is granted only  *)
(* if no part of it belongs to somebody else, and it stays granted until    *)
(* its owner gives it back.  It promises nothing about when a request       *)
(* succeeds: a request may always be turned down, which is a stutter here.  *)
(***************************************************************************)
EXTENDS Integers

CONSTANT Extents        \* the sets of blocks that may be granted

VARIABLE granted        \* the extents in the hands of clients

Init == granted = {}

(* A request served: the new extent overlaps none of those granted.          *)
Grant(x) == /\ \A y \in granted : x \cap y = {}
            /\ granted' = granted \cup {x}

(* An owner gives one extent back; nobody else's is touched.                 *)
Release(x) == granted' = granted \ {x}

Next == \/ \E x \in Extents : Grant(x)
        \/ \E x \in granted : Release(x)

Spec == Init /\ [][Next]_granted
=============================================================================
