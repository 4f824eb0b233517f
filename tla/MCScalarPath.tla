----------------------------- MODULE MCScalarPath -----------------------------
(* Two rows of eight elements, four elements to a word.                    *)
EXTENDS ScalarPath, TLC

List(s) == [i \in range(Len(s)) |-> s[i + 1]]

\* Scores further apart than the table of exponentials reaches, saturating sums, and
\* differences just below -2040.
Data == {List(<<5, -3, 700, 700, 0, 1, -3384, 40, -4082, 3, 0, 9, -17, 4, 2, -5>>),
         List(<<32767, -32768, 0, -1, 1000, -2000, 2000, -1000, 4, 4, 4, 4, 4, 4, 4, 5>>)}
Params == {List(<<127 + 5 * 256, 64 + 250 * 256, 200 + 128 * 256, 0, 1, 2, 3, 4,
                  -32768, 32767, 32767, -1, 6, 500, 12, 13>>),
           List(<<-32768, 32767, 77, -77, 0, 900, -900, 1, 1, 2, 3, 4, 32767, 6, 7, 8>>)}

Job(k, rows, n, decode, cached, shift, data, sub) ==
  [unit |-> k, rows |-> rows, len |-> n, decode |-> decode, cache_len |-> cached,
   scale_shift |-> shift, data |-> data, hbm |-> sub]

MCTopJobs ==
  {Job("sm", 2, 8, FALSE, 0, s, d, p) : s \in {1, 3}, d \in Data, p \in {List(<<0>>)}}
  \cup {Job("sm", 1, n + 1, TRUE, n, 1, d, p) : n \in 0 .. 7, d \in Data, p \in {List(<<0>>)}}
  \cup {Job("ln", 2, 8, FALSE, 0, 0, d, p) : d \in Data, p \in Params}
  \cup {Job("act", 2, 8, FALSE, 0, 0, d, p) : d \in Data, p \in {List(<<0>>)}}
  \cup {Job("res", 2, 8, FALSE, 0, 0, d, p) : d \in Data, p \in Params}

\* The softmax of a decode step over three keys.
Scores == [i \in range(64) |-> ((i * 391) % 2001) - 1000]
MCDecodeJobs == {Job("sm", 1, 3, TRUE, 2, 3, Scores, List(<<0>>))}
NoJobs == {}

\* Vectors from the ranges run_cosim.py draws from.
Vectors == {List(<<12, -2000, 2000, 1999>>), List(<<-500, 500, 499, 3>>)}
MCBenchJobs ==
  {[unit |-> k, len |-> 4, data |-> v, sub |-> List(<<-1000, 1000, 77, 0>>),
    gamma |-> List(<<127, 50, 99, 64>>), beta |-> List(<<50, -50, 0, 1>>)] :
     k \in {"sm", "ln", "act", "res"}, v \in Vectors}
=============================================================================
