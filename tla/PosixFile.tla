------------------------------ MODULE PosixFile ------------------------------
(***************************************************************************)
(* What open, read, write and lseek promise of one file, wherever and in   *)
(* whatever form its bytes are kept: the file is an array of bytes, a read *)
(* returns those from the file position on, a write replaces exactly the   *)
(* bytes it names, a gap reads as zeros, and a file lives until its name   *)
(* and its last open file are gone.                                        *)
(***************************************************************************)
EXTENDS Integers

CONSTANTS Files, Bytes, Counts, MaxSize

VARIABLES
    linked,     \* does the file have a name?
    content,    \* its bytes, a function on 0 .. size - 1
    filp,       \* the open files
    reply       \* what the last call returned

vars == <<linked, content, filp, reply>>

Empty == [k \in {} |-> 0]
EndOf(c) == IF c = Empty THEN 0 ELSE 1 + CHOOSE k \in DOMAIN c : k + 1 \notin DOMAIN c
Size == EndOf(content)
IsOpen == \E f \in Files : filp[f].open

\* m bytes v put at pos; the gap before them, if any, is zero.
Overlay(pos, m, v) ==
    LET old == content
        size == EndOf(old)
    IN  [k \in 0 .. (IF pos + m > size THEN pos + m ELSE size) - 1 |->
           IF pos <= k /\ k < pos + m THEN v
           ELSE IF k < size THEN old[k] ELSE 0]

Init == /\ linked = FALSE
        /\ content = Empty
        /\ filp = [f \in Files |-> [open |-> FALSE, pos |-> 0, append |-> FALSE]]
        /\ reply = [op |-> "none"]

Silent == reply' = [op |-> "none"]

\* A file of this name is created, or opened, or opened and emptied.
Open(f, append) ==
    /\ ~filp[f].open
    /\ ~linked => ~IsOpen
    /\ linked' = TRUE
    /\ content' \in {content, Empty}
    /\ filp' = [filp EXCEPT ![f] = [open |-> TRUE, pos |-> 0, append |-> append]]
    /\ Silent

Close(f) ==
    /\ filp[f].open
    /\ filp' = [filp EXCEPT ![f] = [open |-> FALSE, pos |-> 0, append |-> FALSE]]
    /\ content' = IF linked \/ IsOpen' THEN content ELSE Empty
    /\ Silent
    /\ UNCHANGED linked

Unlink ==
    /\ linked /\ linked' = FALSE
    /\ content' = IF IsOpen THEN content ELSE Empty
    /\ Silent
    /\ UNCHANGED filp

Truncate(length) ==
    /\ reply' = [op |-> "resized", length |-> length]
    /\ linked \/ IsOpen
    /\ content' = [k \in 0 .. length - 1 |-> IF k < Size THEN content[k] ELSE 0]
    /\ UNCHANGED <<linked, filp>>

Lseek(f, pos) ==
    /\ filp[f].open
    /\ filp' = [filp EXCEPT ![f].pos = pos]
    /\ Silent
    /\ UNCHANGED <<linked, content>>

Read(f, n) ==
    LET pos == filp[f].pos
        count == IF pos >= Size THEN 0 ELSE IF n < Size - pos THEN n ELSE Size - pos
    IN  /\ filp[f].open
        /\ filp' = [filp EXCEPT ![f].pos = pos + count]
        /\ reply' = [op |-> "read", pos |-> pos, n |-> n, count |-> count,
                     data |-> [i \in 0 .. count - 1 |-> content[pos + i]]]
        /\ UNCHANGED <<linked, content>>

\* A write that fails may have written some of its bytes.
Write(f, n, v) ==
    LET pos == IF filp[f].append THEN Size ELSE filp[f].pos
        ok == reply'.op = "wrote"
    IN  /\ filp[f].open
        /\ \E op \in {"wrote", "error"} : reply' = [op |-> op, pos |-> pos, v |-> v]
        /\ filp' = [filp EXCEPT ![f].pos = IF ok THEN pos + n ELSE pos]
        /\ content' \in IF ok THEN {Overlay(pos, n, v)}
                        ELSE {content} \cup {Overlay(pos, m, v) : m \in 0 .. n - 1}
        /\ UNCHANGED linked

Next ==
    \/ Unlink
    \/ \E length \in 0 .. MaxSize : Truncate(length)
    \/ \E f \in Files :
         \/ \E append \in BOOLEAN : Open(f, append)
         \/ Close(f)
         \/ \E pos \in 0 .. MaxSize : Lseek(f, pos)
         \/ \E n \in Counts : Read(f, n) \/ \E v \in Bytes : Write(f, n, v)

Spec == Init /\ [][Next]_vars
=============================================================================
