------------------------------- MODULE MCHeap -------------------------------
(* Small heaps for TLC: blocks of four bytes, a size_t that spans eight of   *)
(* them.  The requests are no bytes, one byte, five bytes (two blocks), and  *)
(* the size whose rounding up wraps to no blocks; the products that         *)
(* calloc forms from them give every case of its overflow check.            *)
EXTENDS Heap

MCRequests == {0, 1, 5, 29}

(* The sizes of memory_allocation_test, in blocks: one and two.              *)
TestRequests == {1, 5}
=============================================================================
