-------------------------------- MODULE Sums --------------------------------
(* The first n elements of a function on positive integers, added up or    *)
(* joined, by recursive functions: their values can be reasoned about, see *)
(* SeqLemmas.                                                              *)
EXTENDS Integers, Sequences

Total(f, n) ==
  LET s[i \in Nat] == IF i = 0 THEN 0 ELSE s[i - 1] + f[i]
  IN  s[n]

Join(f, n) ==
  LET s[i \in Nat] == IF i = 0 THEN <<>> ELSE s[i - 1] \o f[i]
  IN  s[n]
=============================================================================
