------------------------------ MODULE MCIngestion ------------------------------
(* Instances of Ingestion for TLC. *)
EXTENDS Ingestion, TLC

M(id, time, seq, power) == [id |-> id, time |-> time, seq |-> seq, power |-> power]

\* A reading and its replay under another identifier, and a reading without power
\* after a gap, in the next five-minute bucket.
Numbered == {M(1, 3, 1, TRUE), M(2, 3, 1, TRUE), M(1, 7, 4, FALSE)}

\* A reading of the next hour without a number, and its replay.
Unnumbered == {M(1, 61, None, TRUE), M(2, 61, None, TRUE)}

\* One no decoder can read.
Unreadable == M(9, 5, 9, TRUE)

Messages == Numbered \cup Unnumbered \cup {Unreadable}
Readable == Messages \ {Unreadable}

Symmetry == Permutations(Request)
=============================================================================
