------------------------ MODULE CompactionInvariants ------------------------
(***************************************************************************)
(* What compaction owes the history of a session.                          *)
(***************************************************************************)
EXTENDS Compaction

\* Records that describe a summary.
SummaryRecord == [id : Nat, through : Nat, gist : SUBSET Rows]

\* Type invariant.
TypeOK ==
  /\ stamped \in 0 .. MaxRows /\ kind \in [Rows -> Kinds]
  /\ stored \subseteq 1 .. stamped /\ overtaken \subseteq stored
  /\ exchanges \subseteq stored \X stored
  /\ summaries \subseteq SummaryRecord /\ made \in Nat
  /\ svc \in {"Idle", "Running", "RunningAndDirty"}
  /\ op \in [Handlers -> [pc : OpPcs, mode : Modes, row : 0 .. stamped,
                          sum : SummaryRecord]]
  /\ worker \in [Workers -> [pc : WorkerPcs, old : SummaryRecord,
                             new : SummaryRecord]]
  /\ crashes \in 0 .. MaxCrashes

\* The text of s accounts for every message it hides, except those that were
\* stored when a whole preserve window of newer messages already was.
Complete(s) ==
  \A i \in stored : i <= s.through => i \in s.gist \cup overtaken

\* Nothing leaves the prompts of a session without having been summarised:
\* list_messages and get_latest_summary are two statements, rows are stored
\* between them, a summary is made from an earlier one and old ones may
\* survive (compaction_worker.rs: "Never advance a summary boundary past
\* omitted rows").
NothingForgotten ==
  /\ \A s \in summaries : Complete(s)
  /\ \A h \in Handlers : Complete(op[h].sum)
  /\ \A w \in Workers : Complete(worker[w].old)

\* The newest recent_turns_to_preserve messages are never behind a boundary,
\* not even that of a summary made while messages are being stored.
RecentPreserved ==
  \A s \in summaries :
    s.through \in stored /\ Cardinality(Newer(stored, s.through)) >= Preserve

\* No summary ends between a tool call and its result unless a message of
\* another handler was stamped between the two.
AdjacentExchangesWhole ==
  \A s \in summaries, e \in exchanges :
    e[1] <= s.through /\ s.through < e[2] =>
      \E i \in stored : e[1] < i /\ i < e[2]

\* A boundary is a sound place to cut the history, whatever is stored while
\* it is chosen: behind it are whole exchanges, and before it the newest rows.
BoundariesAreSound == RecentPreserved /\ AdjacentExchangesWhole

\* One compaction at a time, and the state map says Idle exactly when there is
\* none, so that a failed compaction never blocks the next one.
OneCompaction ==
  /\ \A v, w \in Workers : Active(v) /\ Active(w) => v = w
  /\ (svc # "Idle") <=> \E w \in Workers : Active(w)

\* The coverage of the latest summary never shrinks and the session never
\* loses its summary: the new row is created before the old one is deleted,
\* whatever fails or crashes between the two.
LatestAdvances ==
  \A s \in summaries : IsLatest(s) =>
    \E t \in summaries' :
      (\A u \in summaries' : u.id <= t.id) /\ t.through >= s.through /\ s.gist \subseteq t.gist

BoundaryAdvances == [][LatestAdvances]_vars

\* Every compaction ends and releases the session.
CompactionEnds == (svc # "Idle") ~> (svc = "Idle")

-----------------------------------------------------------------------------
(* The inductive invariant *)

\* The boundary of s leaves the preserve window alone.
Kept(s) ==
  s.through \in stored /\ Cardinality(Newer(stored, s.through)) >= Preserve

\* The boundary of s is between the rows of an exchange only if another row is.
Whole(s) ==
  \A e \in exchanges :
    e[1] <= s.through /\ s.through < e[2] => \E i \in stored : e[1] < i /\ i < e[2]

Sound(s) == Complete(s) /\ Whole(s) /\ (s.through = 0 \/ Kept(s))

\* The row of h has a created_at and is not stored yet.
Pending(h) == op[h].pc \in {"userInsert", "exchange", "replyInsert"}

\* Rows that are not stored yet, and the shape of exchanges.
RowsShape ==
  /\ \A h \in Handlers :
       /\ Pending(h) => op[h].row # 0 /\ op[h].row \notin stored
       /\ op[h].pc = "exchange" => kind[op[h].row] = "call"
  /\ \A g, h \in Handlers : Pending(g) /\ Pending(h) /\ op[g].row = op[h].row => g = h
  /\ \A e \in exchanges :
       e[1] < e[2] /\ kind[e[1]] = "call" /\ kind[e[2]] = "result"

\* Every summary in somebody's hands is sound.
SummariesSound ==
  /\ \A s \in summaries : Sound(s) /\ s.through # 0
  /\ \A h \in Handlers : Sound(op[h].sum)
  /\ \A w \in Workers :
       /\ Sound(worker[w].old)
       /\ worker[w].pc \in {"model", "create"} =>
            Sound(worker[w].new) /\ worker[w].new.through # 0

\* Ids are given in order, the summary a compaction read stays the latest one
\* until it creates its own, and that one goes further.
Succession ==
  /\ \A s \in summaries : s.id \in 1 .. made
  /\ \A s, t \in summaries : s.id = t.id => s = t
  /\ \A w \in Workers :
       /\ worker[w].pc \in {"select", "model", "create"} => IsLatest(worker[w].old)
       /\ worker[w].pc \in {"model", "create"} =>
            /\ worker[w].old.through < worker[w].new.through
            /\ worker[w].old.gist \subseteq worker[w].new.gist
       /\ worker[w].pc = "delete" => \E s \in summaries : worker[w].old.id < s.id

IndInv == TypeOK /\ RowsShape /\ OneCompaction /\ SummariesSound /\ Succession
=============================================================================
