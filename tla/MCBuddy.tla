------------------------------- MODULE MCBuddy -------------------------------
(* A small instance of the buddy allocator for TLC.                          *)
EXTENDS Buddy

\* Memories of 8 and 16 bytes, in blocks of at least 2 bytes.
Both == {<<3, 1>>, <<4, 1>>}
=============================================================================
