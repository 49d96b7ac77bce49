-------------------------------- MODULE Sums --------------------------------
(* Sums over the first entries of a table.                                 *)
EXTENDS Naturals

\* f[1] + ... + f[n].
SumTo(f, n) == LET sum[i \in Nat] == IF i = 0 THEN 0 ELSE sum[i - 1] + f[i] IN sum[n]

=============================================================================
