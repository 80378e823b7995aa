--------------------------- MODULE MCImmediateFile ---------------------------
(* Small instances of the immediate file for TLC.                            *)
EXTENDS ImmediateFile, TLC

Symmetric == Permutations(Files) \cup Permutations(Bytes)

\* Files with ends and holes on a device that is soon full; files that processes
\* find their way in by themselves, empty and resize; files that are emptied, and bad buffers.
Ends == [zones |-> 1, counts |-> {1, 3}, uses |-> {"end", "sparse"}]
Plain == [zones |-> 2, counts |-> {1, 4}, uses |-> {"truncate", "I_REGULAR"}]
Faulty == [zones |-> 2, counts |-> {1, 4}, uses |-> {"truncate", "fault"}]
OneAtATime == {Ends, Plain, Faulty}
Appends == {[zones |-> 2, counts |-> {1, 2, 4}, uses |-> {"end"}]}
=============================================================================
