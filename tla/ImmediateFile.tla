--------------------------- MODULE ImmediateFile ---------------------------
(***************************************************************************)
(* Immediate files, "Assignment 10": a new file keeps its first bytes in   *)
(* the zone numbers of its inode (mfs/read.c, mfs/write.c); a write that   *)
(* ends behind them turns it into a regular file.  VFS (vfs/open.c,        *)
(* vfs/read.c, vfs/link.c) keeps its own copy of the mode and of the size  *)
(* in the vnode while the file is open.                                    *)
(*                                                                         *)
(* One file, any number of open files for it.  A call holds the vnode's    *)
(* lock from beginning to end, so it is one step; the chunks of a transfer *)
(* are the blocks it touches, in order, up to the first that finds no free *)
(* zone or whose bytes cannot be copied from or to the caller (a copy that *)
(* fails moves nothing).  Abstracted: permissions, file times, the block   *)
(* cache, indirect blocks, peeking, blocks of other files that the chunk   *)
(* loop reaches by taking the bytes of an immediate file for zone numbers. *)
(***************************************************************************)
EXTENDS Integers, FiniteSets

CONSTANTS
    Files,          \* the filps processes may have open on the file
    IMM,            \* the bytes that fit into the inode: 32
    BLOCK_SIZE,     \* bytes per block, and per zone
    MaxSize,        \* s_max_size
    Bytes,          \* what processes write
    Workloads       \* the ways in which a file is used: how many zones the device
                    \* has, how many bytes processes read and write at a time,
                    \* and a set of Uses

\* Relying on the end of file (O_APPEND, SEEK_END), opening with O_TRUNC, writing
\* beyond the end of file, reading parts of immediate files, resizing files of
\* either mode, passing buffers that are not there in whole.
Uses == {"end", "truncate", "sparse", "part", "I_IMMEDIATE", "I_REGULAR", "fault"}

ASSUME SizesAssumption ==
    /\ IMM \in Nat \ {0} /\ BLOCK_SIZE \in Nat /\ IMM < BLOCK_SIZE
    /\ MaxSize \in Nat /\ IMM < MaxSize
ASSUME BytesAssumption == 0 \notin Bytes
ASSUME WorkloadsAssumption == 
    Workloads \subseteq [zones : Nat, counts : SUBSET (1 .. MaxSize), uses : SUBSET Uses]

VARIABLES
    workload,       \* how the file is used
    linked,         \* is there a directory entry for the file?
    i_mode,         \* I_IMMEDIATE, I_REGULAR, or "free": there is no inode
    i_size,
    i_zone,         \* the bytes kept in the inode
    blocks,         \* the file's blocks, NO_BLOCK where it has none
    free_zones,     \* how many zones alloc_zone can still hand out
    lost,           \* history: zones handed out and entered nowhere
    vnode,          \* VFS's copy of mode and size; mode "free": no vnode
    filp,           \* the open files
    reply           \* what the last call returned to its caller

vars == <<workload, linked, i_mode, i_size, i_zone, blocks, free_zones, lost, vnode,
          filp, reply>>

Byte == Bytes \cup {0}
NO_BLOCK == <<>>
BlockNrs == 0 .. MaxSize \div BLOCK_SIZE
Positions == 0 .. MaxSize
Data == [0 .. BLOCK_SIZE - 1 -> Byte]
Zeros == [i \in 0 .. IMM - 1 |-> 0]
NoVnode == [v_mode |-> "free", v_size |-> 0]
Closed == [open |-> FALSE, pos |-> 0, append |-> FALSE]
NoReply == [op |-> "none"]

Bigger(a, b) == IF a < b THEN b ELSE a
Smaller(a, b) == IF a < b THEN a ELSE b
Least(S) == CHOOSE x \in S : \A y \in S : x <= y

\* Byte k of the file, and the file's contents as bytes 0, 1, ...
Held(k) == IF i_mode = "I_IMMEDIATE" THEN (IF k < IMM THEN i_zone[k] ELSE 0)
           ELSE LET b == blocks[k \div BLOCK_SIZE]
                IN  IF b = NO_BLOCK THEN 0 ELSE b[k % BLOCK_SIZE]
Contents == [k \in 0 .. i_size - 1 |-> Held(k)]

MappedIn(blks) == {b \in BlockNrs : blks[b] # NO_BLOCK}
NoBlocks == [b \in BlockNrs |-> NO_BLOCK]

Init ==
    /\ workload \in Workloads
    /\ linked = FALSE
    /\ i_mode = "free" /\ i_size = 0 /\ i_zone = Zeros /\ blocks = NoBlocks
    /\ free_zones = workload.zones /\ lost = 0
    /\ vnode = NoVnode
    /\ filp = [f \in Files |-> Closed]
    /\ reply = NoReply

-----------------------------------------------------------------------------
(* Truncation *)

\* The zones write_map(..., WMAP_FREE) gives back from position 'from' on: none
\* for an immediate file, whose i_zone does not hold zone numbers.
Freed(blks, from) ==
    IF i_mode = "I_IMMEDIATE" THEN 0
    ELSE Cardinality({b \in MappedIn(blks) : b * BLOCK_SIZE >= from})

\* Mutant: the rest of the last block is not cleared.
TruncateInodeDirty(newsize) ==
    /\ i_size' = newsize
    /\ blocks' = [b \in BlockNrs |-> IF b * BLOCK_SIZE >= newsize THEN NO_BLOCK ELSE blocks[b]]
    /\ free_zones' = free_zones + Freed(blocks, newsize)
    /\ UNCHANGED <<i_mode, i_zone>>

\* truncate_inode() of MFS: zones behind the new end are freed, the rest of the
\* last block is cleared.  The bytes in an immediate inode stay as they are.
truncate_inode(newsize) ==
    /\ i_size' = newsize
    /\ blocks' = [b \in BlockNrs |->
                    IF b * BLOCK_SIZE >= newsize \/ blocks[b] = NO_BLOCK
                    THEN NO_BLOCK
                    ELSE [o \in 0 .. BLOCK_SIZE - 1 |->
                            IF b * BLOCK_SIZE + o < newsize THEN blocks[b][o] ELSE 0]]
    /\ free_zones' = free_zones + Freed(blocks, newsize)
    /\ UNCHANGED <<i_mode, i_zone>>

-----------------------------------------------------------------------------
(* open, close, unlink *)

NewFilp(append) == [open |-> TRUE, pos |-> 0, append |-> append]
Opens(f, append) == /\ ~filp[f].open
                    /\ append => "end" \in workload.uses
                    /\ filp' = [filp EXCEPT ![f] = NewFilp(append)]
                    /\ reply' = NoReply

\* common_open with O_CREAT where there is no such file: new_node makes an
\* immediate one.
Create(f, append) ==
    /\ ~linked /\ i_mode = "free"
    /\ Opens(f, append)
    /\ linked' = TRUE
    /\ i_mode' = "I_IMMEDIATE" /\ i_size' = 0 /\ i_zone' = Zeros
    /\ vnode' = [v_mode |-> "I_IMMEDIATE", v_size |-> 0]
    /\ UNCHANGED <<blocks, free_zones>>

\* common_open of an existing file.  A vnode in use is shared; otherwise its
\* mode and size come from the inode.
OpenAgain(f, append) ==
    /\ linked /\ Opens(f, append)
    /\ vnode' = IF vnode # NoVnode THEN vnode
                ELSE [v_mode |-> i_mode, v_size |-> i_size]
    /\ UNCHANGED <<linked, i_mode, i_size, i_zone, blocks, free_zones>>

\* The same with O_TRUNC.
OpenTrunc(f, append) ==
    /\ "truncate" \in workload.uses /\ linked /\ Opens(f, append)
    /\ truncate_inode(0)
    /\ vnode' = [v_mode |-> IF vnode # NoVnode THEN vnode.v_mode ELSE i_mode,
                 v_size |-> 0]
    /\ UNCHANGED linked

\* Mutant: the zones of a deleted file are not freed.
ForgetKeeps ==
    /\ i_mode' = "free" /\ i_size' = 0 /\ i_zone' = Zeros /\ blocks' = NoBlocks
    /\ UNCHANGED free_zones

\* put_inode() of MFS when the last link and the last user are gone.
Forget ==
    /\ i_mode' = "free" /\ i_size' = 0 /\ i_zone' = Zeros /\ blocks' = NoBlocks
    /\ free_zones' = free_zones + Freed(blocks, 0)

\* close_fd: the last close drops the vnode, and an unlinked file with it.
Close(f) ==
    /\ filp[f].open
    /\ filp' = [filp EXCEPT ![f] = Closed]
    /\ reply' = NoReply
    /\ IF \E g \in Files \ {f} : filp[g].open
       THEN UNCHANGED <<i_mode, i_size, i_zone, blocks, free_zones, vnode>>
       ELSE /\ vnode' = NoVnode
            /\ IF linked THEN UNCHANGED <<i_mode, i_size, i_zone, blocks, free_zones>>
               ELSE Forget
    /\ UNCHANGED linked

Unlink ==
    /\ linked
    /\ linked' = FALSE
    /\ reply' = NoReply
    /\ IF vnode # NoVnode THEN UNCHANGED <<i_mode, i_size, i_zone, blocks, free_zones>>
       ELSE Forget
    /\ UNCHANGED <<vnode, filp>>

\* do_truncate and do_ftruncate: nothing happens when VFS takes the file for a
\* regular one of that length already.  (An immediate file is made longer here;
\* to shorten it MFS would clear part of the block its first bytes name.)
Truncate(length) ==
    LET v == IF vnode # NoVnode THEN vnode ELSE [v_mode |-> i_mode, v_size |-> i_size]
    IN  /\ linked \/ vnode # NoVnode
        /\ i_mode \in workload.uses
        /\ i_mode = "I_IMMEDIATE" => length >= i_size
        /\ IF v.v_mode = "I_REGULAR" /\ v.v_size = length
           THEN UNCHANGED <<i_mode, i_size, i_zone, blocks, free_zones>>
           ELSE truncate_inode(length)
        /\ vnode' = IF vnode # NoVnode THEN [v EXCEPT !.v_size = length] ELSE NoVnode
        /\ reply' = [op |-> "resized", length |-> length]
        /\ UNCHANGED <<linked, filp>>

SeekEnds(f) == IF "end" \in workload.uses THEN {vnode.v_size} ELSE {}

\* lseek, from the start or from the end VFS knows.
Lseek(f, newpos) ==
    /\ filp[f].open
    /\ filp[f].pos # newpos
    /\ newpos <= i_size \/ "sparse" \in workload.uses \/ newpos \in SeekEnds(f)
    /\ filp' = [filp EXCEPT ![f].pos = newpos]
    /\ reply' = NoReply
    /\ UNCHANGED <<linked, i_mode, i_size, i_zone, blocks, free_zones, vnode>>

-----------------------------------------------------------------------------
(* read *)

\* sys_safecopyto refuses more bytes than the caller's buffer has; then the
\* chunk loop takes the bytes of the file for a zone number and copies from
\* whatever block that is.
GarbageRead(pos, n) ==
    LET k == Smaller(n, i_size - pos)
    IN  IF i_zone[0] = 0 THEN {[i \in 0 .. k - 1 |-> 0]}
        ELSE [0 .. k - 1 -> Byte]

\* Mutant: the last chunk is not cut at the end of file.
ReadDataUncut(pos, n) ==
    IF pos >= i_size THEN {<<>>}
    ELSE {[i \in 0 .. n - 1 |-> IF pos + i < i_size THEN Held(pos + i) ELSE 0]}

\* fs_readwrite, READING: the bytes copied to the caller.  An immediate file is
\* always copied from its start to its end.
ReadData(pos, n) ==
    IF pos >= i_size THEN {<<>>}
    ELSE IF i_mode = "I_IMMEDIATE"
    THEN IF n >= i_size THEN {Contents} ELSE GarbageRead(pos, n)
    ELSE {[i \in 0 .. Smaller(n, i_size - pos) - 1 |-> Held(pos + i)]}

\* read_write, READING
Read(f, n) ==
    /\ filp[f].open
    /\ \/ "part" \in workload.uses \/ i_mode = "I_REGULAR"
       \/ filp[f].pos >= i_size \/ (filp[f].pos = 0 /\ n >= i_size)
    /\ \E data \in ReadData(filp[f].pos, n) :
         LET count == Cardinality(DOMAIN data)
         IN  /\ filp' = [filp EXCEPT ![f].pos = @ + count]
             /\ reply' = [op |-> "read", pos |-> filp[f].pos, n |-> n,
                          count |-> count, data |-> data]
    /\ UNCHANGED <<linked, i_mode, i_size, i_zone, blocks, free_zones, vnode>>

\* The same with a buffer that sys_safecopyto refuses: the position stays.
ReadFault(f) ==
    /\ "fault" \in workload.uses
    /\ filp[f].open /\ filp[f].pos < i_size
    /\ reply' = NoReply
    /\ UNCHANGED <<linked, i_mode, i_size, i_zone, blocks, free_zones, vnode, filp>>

-----------------------------------------------------------------------------
(* write *)

\* Where the transfer of [pos, pos + n) into blks stops: at the first block that
\* has to be allocated when no zone is left.
Missing(blks, pos, n) ==
    {b \in pos \div BLOCK_SIZE .. (pos + n - 1) \div BLOCK_SIZE : blks[b] = NO_BLOCK}
Refused(blks, pos, n, zones) ==
    {b \in Missing(blks, pos, n) :
        Cardinality({c \in Missing(blks, pos, n) : c <= b}) > zones}
WriteEnd(blks, pos, n, zones) ==
    IF Refused(blks, pos, n, zones) = {} THEN pos + n
    ELSE Bigger(pos, Least(Refused(blks, pos, n, zones)) * BLOCK_SIZE)

\* rw_chunk: what block b holds before the new bytes go in.  A new block is
\* zeroed, and so is one that lies wholly behind the end of file.
ChunkBase(blks, b, pos, end, size) ==
    LET start == b * BLOCK_SIZE
        partial == end < start + BLOCK_SIZE
    IN  IF blks[b] = NO_BLOCK \/ (start >= pos /\ start >= size /\ partial)
        THEN [o \in 0 .. BLOCK_SIZE - 1 |-> 0]
        ELSE blks[b]

\* The chunk loop of fs_readwrite, WRITING bytes v into [pos, end).
Written(blks, pos, end, size, v) ==
    [b \in BlockNrs |->
       IF end <= pos \/ (b + 1) * BLOCK_SIZE <= pos \/ b * BLOCK_SIZE >= end THEN blks[b]
       ELSE [o \in 0 .. BLOCK_SIZE - 1 |->
               IF pos <= b * BLOCK_SIZE + o /\ b * BLOCK_SIZE + o < end THEN v
               ELSE ChunkBase(blks, b, pos, end, size)[o]]]

\* A write that ends within the inode.
WriteInode(pos, n, v) ==
    /\ i_zone' = [k \in 0 .. IMM - 1 |-> IF pos <= k /\ k < pos + n THEN v ELSE i_zone[k]]
    /\ i_size' = Bigger(i_size, pos + n)
    /\ UNCHANGED <<i_mode, blocks, free_zones>>

\* What the loop leaves when it has made the blocks new of blks and comes to an end:
\* size and zones are those at its start; f_size is the size before the call.
Stored(blks, new, size, zones, end) ==
    /\ blocks' = new
    /\ free_zones' = zones - (Cardinality(MappedIn(new)) - Cardinality(MappedIn(blks)))
    /\ i_size' = IF end > i_size THEN end ELSE size
    /\ i_mode' = "I_REGULAR"
    /\ i_zone' = Zeros

\* A write into blocks.
WriteBlocks(blks, size, zones, pos, n, v) ==
    LET end == WriteEnd(blks, pos, n, zones)
    IN  Stored(blks, Written(blks, pos, end, size, v), size, zones, end)

\* A write into blocks whose buffer has only its first 'good' bytes: the chunk with
\* the next one gets its block, perhaps a new one, and none of its bytes.
FaultBlocks(blks, size, zones, pos, n, v, good) ==
    LET bad == (pos + good) \div BLOCK_SIZE
        end == Bigger(pos, bad * BLOCK_SIZE)
        new == [Written(blks, pos, end, size, v) EXCEPT
                  ![bad] = ChunkBase(blks, bad, pos, pos + n, size)]
    IN  IF Refused(blks, pos, good + 1, zones) # {}
        THEN WriteBlocks(blks, size, zones, pos, good + 1, v)
        ELSE Stored(blks, new, size, zones, end)

\* Mutant: the old bytes are not copied to the block.
ConvertedEmpty == [NoBlocks EXCEPT ![0] = [o \in 0 .. BLOCK_SIZE - 1 |-> 0]]

\* The first block of a file that stops being immediate: the old bytes, zeros.
Converted == [NoBlocks EXCEPT ![0] =
                 [o \in 0 .. BLOCK_SIZE - 1 |-> IF o < i_size THEN Held(o) ELSE 0]]

\* new_block found no zone: the inode is already erased and regular.
ConvertFails ==
    /\ i_mode' = "I_REGULAR" /\ i_size' = 0 /\ i_zone' = Zeros
    /\ UNCHANGED <<blocks, free_zones>>

\* fs_readwrite, WRITING.
MfsWrite(pos, n, v) ==
    IF i_mode = "I_REGULAR" THEN WriteBlocks(blocks, i_size, free_zones, pos, n, v)
    ELSE IF pos + n <= IMM THEN WriteInode(pos, n, v)
    ELSE IF free_zones = 0 THEN ConvertFails
    ELSE WriteBlocks(Converted, 0, free_zones - 1, pos, n, v)

\* The copy into the inode fails, and the chunk loop runs on the immediate file:
\* new_block takes a zone where the first bytes read as no zone, write_map does not
\* enter it and returns NO_BLOCK, which is OK, and the second copy fails as well.
LoseZone(pos) ==
    /\ LET new == i_zone[0] = 0 /\ free_zones > 0
       IN  /\ free_zones' = IF new THEN free_zones - 1 ELSE free_zones
           /\ lost' = IF new THEN lost + 1 ELSE lost
    /\ i_size' = Bigger(i_size, pos)
    /\ UNCHANGED <<i_mode, i_zone, blocks>>

\* fs_readwrite, WRITING, from a buffer with only its first 'good' bytes.
MfsWriteFault(pos, n, v, good) ==
    \/ i_mode = "I_IMMEDIATE" /\ pos + n <= IMM /\ LoseZone(pos)
    \/ /\ i_mode = "I_IMMEDIATE" /\ pos + n > IMM /\ UNCHANGED lost
       /\ IF free_zones = 0 THEN ConvertFails
          ELSE FaultBlocks(Converted, 0, free_zones - 1, pos, n, v, good)
    \/ /\ i_mode = "I_REGULAR" /\ UNCHANGED lost
       /\ FaultBlocks(blocks, i_size, free_zones, pos, n, v, good)

\* Does the call return OK, if the buffer is there?
MfsWriteOK(pos, n) ==
    IF i_mode = "I_REGULAR" THEN Refused(blocks, pos, n, free_zones) = {}
    ELSE pos + n <= IMM \/ (/\ free_zones > 0
                            /\ Refused(Converted, pos, n, free_zones - 1) = {})

\* The size VFS keeps is advanced to the new position of the file, for what it
\* believes to be a regular file; a failed write leaves the position where it was.
VfsSize(pos, n, ok) ==
    IF vnode.v_mode = "I_REGULAR" THEN Bigger(vnode.v_size, IF ok THEN pos + n ELSE pos)
    ELSE vnode.v_size

WritePos(f) == IF filp[f].append THEN vnode.v_size ELSE filp[f].pos

\* What is left to VFS when MFS has returned.
Wrote(f, pos, n, v, ok) ==
    /\ vnode' = [vnode EXCEPT !.v_size = VfsSize(pos, n, ok)]
    /\ filp' = [filp EXCEPT ![f].pos = IF ok THEN pos + n ELSE pos]
    /\ reply' = [op |-> IF ok THEN "wrote" ELSE "error", pos |-> pos, v |-> v]
    /\ UNCHANGED linked

\* read_write, WRITING; EFBIG comes back before anything is changed.
Write(f, n, v) ==
    LET pos == WritePos(f)
    IN  /\ filp[f].open
        /\ pos <= i_size \/ "sparse" \in workload.uses
        /\ IF pos + n <= MaxSize THEN MfsWrite(pos, n, v)
           ELSE UNCHANGED <<i_mode, i_size, i_zone, blocks, free_zones>>
        /\ Wrote(f, pos, n, v, pos + n <= MaxSize /\ MfsWriteOK(pos, n))

WriteFault(f, n, v, good) ==
    LET pos == WritePos(f)
    IN  /\ "fault" \in workload.uses
        /\ filp[f].open
        /\ pos <= i_size \/ "sparse" \in workload.uses
        /\ pos + n <= MaxSize
        /\ MfsWriteFault(pos, n, v, good)
        /\ Wrote(f, pos, n, v, FALSE)

-----------------------------------------------------------------------------

\* The calls that touch no buffer, or one that is there.
Calls ==
    \/ \E f \in Files, append \in BOOLEAN :
         Create(f, append) \/ OpenAgain(f, append) \/ OpenTrunc(f, append)
    \/ Unlink
    \/ \E length \in Positions : Truncate(length)
    \/ \E f \in Files :
         \/ Close(f)
         \/ \E pos \in Positions : Lseek(f, pos)
         \/ ReadFault(f)
         \/ \E n \in workload.counts : Read(f, n) \/ \E v \in Bytes : Write(f, n, v)

Next ==
    /\ \/ Calls /\ UNCHANGED lost
       \/ \E f \in Files : \E n \in workload.counts : \E v \in Bytes :
            \E good \in 0 .. n - 1 : WriteFault(f, n, v, good)
    /\ UNCHANGED workload

Spec == Init /\ [][Next]_vars

-----------------------------------------------------------------------------
(* Properties *)

\* Every zone is either free or a block of the file, but for those that new_block
\* takes for an immediate file when a copy into the inode fails: no other path of
\* conversion, failed transfer, truncation and deletion loses a zone, and none frees
\* a zone that was never allocated.
ZonesAccounted ==
    /\ free_zones + Cardinality(MappedIn(blocks)) + lost = workload.zones
    /\ "fault" \notin workload.uses => lost = 0

\* "On write, update file size": the size VFS appends at and seeks from is the
\* size of the file.
SizeKnown == vnode # NoVnode => vnode.v_size = i_size

\* "Perform read(fd, buffer, nbytes)": a read returns the bytes of the file from
\* the file position on, and no more of them than were asked for.
ReadIsRight ==
    reply.op = "read" =>
      /\ reply.count = Smaller(reply.n, Bigger(0, i_size - reply.pos))
      /\ \A i \in 0 .. reply.count - 1 : reply.data[i] = Held(reply.pos + i)

\* A file that stops being immediate is left empty: there was no zone for it, or
\* the bytes of its first block could not be copied from the caller.
Emptied == i_mode = "I_IMMEDIATE" /\ i_mode' = "I_REGULAR" /\ i_size' = 0

\* "Copy file data in i_zones to buffer" and "all unwritten blocks prior to the
\* EOF must read as zeros": whatever becomes of a write, a byte of the file changes
\* only to a byte that was written, none disappears, and the bytes it leaves
\* between the old end of file and its position are zero.  Where buffers may be
\* bad, a failed conversion can do one thing else: it leaves the file empty.
WriteIsExact ==
    [][reply'.op \in {"wrote", "error"} =>
         \/ "fault" \in workload.uses /\ reply'.op = "error" /\ Emptied
         \/ /\ i_size' >= i_size
            /\ \A k \in 0 .. i_size - 1 : Held(k)' \in {Held(k), reply'.v}
            /\ \A k \in i_size .. Smaller(reply'.pos, i_size') - 1 : Held(k)' = 0]_vars

\* Where an immediate file cannot be told from any other: no process relies on its
\* end, reads a part of it, resizes it or leaves a hole behind an O_TRUNC, and
\* regular files are resized only where VFS knows their size.
Ordinary(w) ==
    /\ w.zones > 0 /\ w.uses \cap {"end", "part", "I_IMMEDIATE", "fault"} = {}
    /\ ~({"truncate", "sparse"} \subseteq w.uses)
    /\ "I_REGULAR" \in w.uses => "sparse" \notin w.uses /\ w.zones > MaxSize \div BLOCK_SIZE

\* The mapping: nothing is claimed of other workloads.
OrdinaryLoads == {w \in Workloads : Ordinary(w)}
posix == workload \in OrdinaryLoads
AllCounts == UNION {w.counts : w \in Workloads}
Posix == INSTANCE PosixFile WITH
    Counts <- AllCounts,
    linked <- linked /\ posix,
    content <- IF posix THEN Contents ELSE [k \in {} |-> 0],
    filp <- IF posix THEN filp ELSE [f \in Files |-> Closed],
    reply <- IF posix THEN reply ELSE NoReply

\* VFS and MFS together give processes an ordinary file, whether its bytes are
\* in the inode or in blocks and whenever they move: fs_readwrite's conversion
\* is invisible.
ImplementsPosix == Posix!Spec
=============================================================================
