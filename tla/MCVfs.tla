------------------------------- MODULE MCVfs -------------------------------
\* VFS with few files, and one kind of use at a time.
EXTENDS Vfs, TLC

\* Regular files by name and by descriptor, with file systems that fail; symbolic
\* links; FIFOs that are opened with and without O_CREAT, with large writes, without
\* waiting, and truncated; a block device; locks.
OneAtATime ==
    {{"reg", "names"}, {"dir", "names", "seek", "fails"}, {"reg", "seek", "append"},
     {"reg", "seek", "fails"}, {"reg", "lnk"}, {"reg", "locks"}, {"reg", "fifo"},
     {"fifo", "fork", "big", "crowd"}, {"fifo", "nonblock", "fails", "crowd"},
     {"fifo", "nonblock", "big"}, {"fifo", "truncpipe"}, {"blk", "fork"}}

Symmetric == Permutations(Procs) \cup Permutations(Inodes)
=============================================================================
