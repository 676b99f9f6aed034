---------------------------- MODULE MCCompaction ----------------------------
(***************************************************************************)
(* Instances of Compaction for TLC: one handler over more rows, with a     *)
(* crash and a slot for a second compaction, or a pair of handlers over    *)
(* fewer rows and without either.                                          *)
(***************************************************************************)
EXTENDS CompactionInvariants

CONSTANTS h1, h2, w1, w2, PairRows

VARIABLE pair   \* both handlers act

BothHandlers == {h1, h2}
BothWorkers == {w1, w2}

\* The bounds of either case.  The handlers of a pair are alike: the first
\* row is the first one's.
Scope ==
    IF pair
      THEN /\ stamped <= PairRows /\ crashes = 0 /\ worker[w2] = NoWork
           /\ stamped = 0 => op[h2] = NoOp
      ELSE op[h2] = NoOp

ScopedSpec ==
    /\ pair \in BOOLEAN /\ Init
    /\ [][Next /\ UNCHANGED pair /\ Scope']_<<vars, pair>>
    /\ Fairness
=============================================================================
