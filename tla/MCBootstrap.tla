---------------------------- MODULE MCBootstrap ----------------------------
(* A small run: a date asked for in bulk, then three codes in two chunks of *)
(* an isolated worker, the first of which fails or answers for two codes.   *)
EXTENDS Bootstrap

CONSTANTS d1, c1, c2, c3

Asked(items, dataset, dated, mode) ==
    [items |-> items, dataset |-> dataset, dated |-> dated, mode |-> mode]

IsolatedRequests ==
    <<Asked({d1}, "tushare", TRUE, "bulk"),
      Asked({c1, c2}, "akshare", FALSE, "isolated"),
      Asked({c3}, "akshare", FALSE, "isolated")>>

\* Only the rows of c1 are ever corrected by their provider.
OneCorrected == \A i \in Items : offered[i] > 1 => i = c1

=============================================================================
