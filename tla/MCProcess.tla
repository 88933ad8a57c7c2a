------------------------------ MODULE MCProcess ------------------------------
(* Structures of one or two blocks, where the kernel's take up to 1026; files *)
(* of no bytes, of one block and of two.                                     *)
EXTENDS Process

MCTaskAddrs  == Blocks
MCImageSizes == {0, 3, 6}
=============================================================================
