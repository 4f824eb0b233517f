---------------------------- MODULE MCControlLoop ----------------------------
\* Small jobs and executor latencies for ControlLoop.
EXTENDS ControlLoop

MCJobs == { [batch |-> 1, seq |-> 2, decode |-> FALSE, cache_len |-> 0],
            [batch |-> 2, seq |-> 1, decode |-> FALSE, cache_len |-> 0],
            [batch |-> 1, seq |-> 1, decode |-> TRUE, cache_len |-> 2] }

\* Waits of both parities: with an odd one the done of a unit meets its start.
MCLatency ==
  [d \in Devices |-> CASE d = "ad" -> {0}
                       [] d \in {"mm", "uf"} -> {0, 1, 3}
                       [] OTHER -> {1, 2, 20}]
=============================================================================
