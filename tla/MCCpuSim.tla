------------------------------ MODULE MCCpuSim ------------------------------
(* Small inputs for the CPU scheduling simulators.                           *)
EXTENDS CpuSim

\* Up to three processes that arrive in order, with one CPU burst, or two and an
\* I/O burst between them.
Jobs(arrivals, cpuBursts, ioBursts) ==
    LET bursts == {<<c>> : c \in cpuBursts}
                  \cup {<<c, i, d>> : c \in cpuBursts, i \in ioBursts, d \in cpuBursts}
        job == [arrival_time : arrivals, bursts : bursts]
    IN  {f \in UNION {[0 .. n - 1 -> job] : n \in 0 .. 3} :
           \A p, q \in DOMAIN f : p < q => f[p].arrival_time <= f[q].arrival_time}

SjfJobs == Jobs({0}, {1, 3}, {1, 2}) \cup Jobs({0, 1}, {2, 3}, {1, 3})
RrJobs == Jobs({0}, {1, 2, 3}, {1})
=============================================================================
