---------------------------- MODULE MCAccelerator ----------------------------
\* Jobs for Accelerator: the prompt of a tile, the decode of its last token, and the
\* decode of the token before, which is not Supported and cuts the sequence short.
EXTENDS Dataflow

Prefill(b, n) == [batch |-> b, seq |-> n, decode |-> FALSE, cache_len |-> 0]
Decode1(n) == [batch |-> 1, seq |-> 1, decode |-> TRUE, cache_len |-> n]

MCJobs == { Prefill(1, TILE), Decode1(TILE - 1), Decode1(TILE - 2) }
MCPrefill == { Prefill(1, TILE) }

MCLatency == [d \in Devices |-> CASE d = "ad" -> {0}
                                  [] d \in {"mm", "uf"} -> {1, 2}
                                  [] d = "ln" -> {2, 3}
                                  [] OTHER -> {2}]

\* The instance without a finding is one the theorems of Accelerator_proofs are about.
ASSUME MCFits == Preload /\ MAX_SEQ_LEN = TILE => Fits
=============================================================================
