-------------------------------- MODULE Sums --------------------------------
(* The sums SQL's SUM() computes.                                          *)
EXTENDS Integers, FiniteSets, Sequences

(* Over rows numbered from 1.                                              *)
SumTo(f, n) ==
    LET sum[i \in 0..n] == IF i = 0 THEN 0 ELSE sum[i - 1] + f[i] IN sum[n]

(* Over a set of rows, along a list that has each of them once.            *)
Lists(list, S) ==
    \A i, j \in 1..Cardinality(S) : list[i] = list[j] => i = j
ListOf(S) == CHOOSE list \in [1..Cardinality(S) -> S] : Lists(list, S)
SumAlong(list, f) == SumTo([i \in 1..Len(list) |-> f[list[i]]], Len(list))
=============================================================================
