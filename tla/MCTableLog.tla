----------------------------- MODULE MCTableLog -----------------------------
(* TableLog on small instances; see README.md for what each run is for.    *)
EXTENDS TableLog, TLC

CONSTANTS c1, a1, r1, r2, e1, m1, x1, d1, d2

Interchangeable == Permutations({r1, r2})

(* Two casts, one at a time: feeds and an evolution while the table is     *)
(* created, and an appender, a merger and an expirer once it is there.     *)
Quiet(S) == \A p \in S : pc[p] = "idle" /\ batch[p] = 0

FeedsAndEvolution ==
  /\ Quiet(Appenders \cup Mergers \cup Expirers)
  /\ DOMAIN log \subseteq 0..3 /\ Cardinality(DOMAIN content) <= 2

MergesAndExpiry ==
  /\ Quiet(Recorders \cup Evolvers) /\ Exists(0)
  /\ CurrentMetadata = {Declared} /\ \A c \in Creators : pc[c] = "idle"

OneCastAtATime == FeedsAndEvolution \/ MergesAndExpiry
=============================================================================
