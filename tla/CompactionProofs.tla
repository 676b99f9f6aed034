-------------------------- MODULE CompactionProofs --------------------------
(***************************************************************************)
(* Machine-checked proofs about Compaction, for any number of handlers and *)
(* worker slots, any preserve window and any number of messages.           *)
(*                                                                         *)
(* Sections: cardinalities; one lemma per part of IndInv, each with a step *)
(* per action that touches it; the theorems.                               *)
(***************************************************************************)
EXTENDS CompactionInvariants, FiniteSetTheorems, TLAPS

-----------------------------------------------------------------------------
(* Counting *)

\* The newer rows of a larger table, seen from an earlier row, are no fewer.
LEMMA NewerMonotone ==
  ASSUME NEW S, NEW T, S \subseteq T, T \subseteq Rows,
         NEW i \in Int, NEW j \in Int, j <= i
  PROVE  /\ Cardinality(Newer(S, i)) \in Nat
         /\ Cardinality(Newer(T, j)) \in Nat
         /\ Cardinality(Newer(S, i)) <= Cardinality(Newer(T, j))
<1>1. IsFiniteSet(Rows)
  BY FS_Interval, ConstantsAssumption DEF Rows
<1>2. Newer(T, j) \subseteq Rows /\ Newer(S, i) \subseteq Newer(T, j)
  <2>1. \A k \in S : k \in T /\ k \in Int
    BY ConstantsAssumption DEF Rows
  <2>2. \A k \in S : k > i => k > j
    BY <2>1
  <2> QED
    BY <2>1, <2>2 DEF Newer
<1>3. IsFiniteSet(Newer(T, j))
  BY <1>1, <1>2, FS_Subset
<1>4. IsFiniteSet(Newer(S, i)) /\ Cardinality(Newer(S, i)) <= Cardinality(Newer(T, j))
  BY <1>2, <1>3, FS_Subset
<1> QED
  BY <1>3, <1>4, FS_CardinalityType

-----------------------------------------------------------------------------
(* Types *)

LEMMA TypeInit == Init => TypeOK
BY ConstantsAssumption
DEF Init, TypeOK, Kinds, Modes, OpPcs, WorkerPcs, NoOp, At, NoWork, NoSummary,
    SummaryRecord, Rows

\* A message that is stamped and stored has a row number.
LEMMA RowsAreNumbers == TypeOK => stored \subseteq Rows /\ stamped \in Nat
BY ConstantsAssumption DEF TypeOK, Rows

LEMMA RowsInNat == Rows \subseteq Nat \ {0}
BY ConstantsAssumption DEF Rows

\* The types of the steps that store nothing new.
LEMMA TypeStamp ==
  ASSUME TypeOK, NEW h \in Handlers, NEW k \in Kinds, NEW pc \in OpPcs,
         Stamp(h, k, pc)
  PROVE  TypeOK'
<1> USE ConstantsAssumption DEF TypeOK, Stamp, Rows
<1>1. stamped + 1 \in Rows /\ stamped' \in 0 .. MaxRows
  OBVIOUS
<1>2. kind' \in [Rows -> Kinds]
  BY <1>1
<1>3. stored' \subseteq 1 .. stamped'
  OBVIOUS
<1>4. op' \in [Handlers -> [pc : OpPcs, mode : Modes, row : 0 .. stamped',
                            sum : SummaryRecord]]
  OBVIOUS
<1> QED
  BY <1>1, <1>2, <1>3, <1>4

LEMMA TypeStep == TypeOK /\ RowsShape /\ [Next]_vars => TypeOK'
<1> SUFFICES ASSUME TypeOK, RowsShape, [Next]_vars PROVE TypeOK'
  OBVIOUS
<1> USE ConstantsAssumption
<1> USE DEF TypeOK, OpPcs, Modes, WorkerPcs, db, rows
<1>0. NoSummary \in SummaryRecord /\ NoOp.sum = NoSummary
  BY DEF NoSummary, NoOp, At, SummaryRecord
<1>1. ASSUME NEW h \in Handlers, StartMessage(h) PROVE TypeOK'
  <2>1. PICK s \in summaries \cup {NoSummary} :
          op' = [op EXCEPT ![h] = At("history", "message", s)]
    BY <1>1 DEF StartMessage
  <2>2. At("history", "message", s) \in
          [pc : OpPcs, mode : Modes, row : 0 .. stamped, sum : SummaryRecord]
    BY <1>0, <2>1 DEF NoOp, At
  <2> QED
    BY <1>1, <2>1, <2>2 DEF StartMessage
<1>2. ASSUME NEW h \in Handlers, ReadHistory(h) PROVE TypeOK'
  BY <1>2 DEF ReadHistory, Goto
<1>3. ASSUME NEW h \in Handlers, StartOther(h) PROVE TypeOK'
  <2>1. PICK m \in {"command", "scheduled"} :
          op' = [op EXCEPT ![h] = At("user", m, NoSummary)]
    BY <1>3 DEF StartOther
  <2>2. At("user", m, NoSummary) \in
          [pc : OpPcs, mode : Modes, row : 0 .. stamped, sum : SummaryRecord]
    BY <1>0, <2>1 DEF NoOp, At
  <2> QED
    BY <1>3, <2>1, <2>2 DEF StartOther
<1>4. ASSUME NEW h \in Handlers, StampPrompt(h) \/ StampReply(h) \/ StampCall(h)
      PROVE TypeOK'
  BY <1>4, TypeStamp DEF StampPrompt, StampReply, StampCall, Kinds
<1>5. ASSUME NEW h \in Handlers, InsertPrompt(h) PROVE TypeOK'
  <2>1. op[h].row \in 1 .. stamped
    BY <1>5 DEF InsertPrompt, RowsShape, Pending
  <2> QED
    BY <1>5, <2>1 DEF InsertPrompt, Store, Goto
<1>6. ASSUME NEW h \in Handlers, InsertReply(h) PROVE TypeOK'
  <2>1. op[h].row \in 1 .. stamped
    BY <1>6 DEF InsertReply, RowsShape, Pending
  <2>2. stored' \subseteq 1 .. stamped /\ overtaken' \subseteq stored'
    BY <1>6, <2>1 DEF InsertReply, Store
  <2>3. NoOp \in [pc : OpPcs, mode : Modes, row : 0 .. stamped, sum : SummaryRecord]
    BY <1>0 DEF NoOp, At
  <2> QED
    BY <1>6, <2>2, <2>3 DEF InsertReply, Store
<1>7. ASSUME NEW h \in Handlers, CommitExchange(h) PROVE TypeOK'
  <2>1. op[h].row \in 1 .. stamped
    BY <1>7 DEF CommitExchange, RowsShape, Pending
  <2>2. stamped + 1 \in Rows /\ kind' \in [Rows -> Kinds]
    BY <1>7 DEF CommitExchange, Rows, Kinds
  <2>3. stored' \subseteq 1 .. stamped' /\ overtaken' \subseteq stored'
    <3>1. stored' = stored \cup {op[h].row, stamped + 1} /\ stamped' = stamped + 1
      BY <1>7 DEF CommitExchange, Store
    <3>2. overtaken' \subseteq overtaken \cup {op[h].row, stamped + 1}
      BY <1>7 DEF CommitExchange, Store
    <3>3. stamped \in Nat /\ stored \subseteq 1 .. stamped
      OBVIOUS
    <3>4. {op[h].row, stamped + 1} \subseteq 1 .. (stamped + 1)
      BY <2>1, <3>3
    <3>5. 1 .. stamped \subseteq 1 .. (stamped + 1)
      BY <3>3
    <3> QED
      BY <3>1, <3>2, <3>3, <3>4, <3>5
  <2>4. exchanges' \subseteq stored' \X stored'
    BY <1>7 DEF CommitExchange, Store
  <2>5. op' \in [Handlers -> [pc : OpPcs, mode : Modes, row : 0 .. stamped',
                              sum : SummaryRecord]]
    BY <1>7 DEF CommitExchange, Goto
  <2> QED
    BY <1>7, <2>2, <2>3, <2>4, <2>5 DEF CommitExchange, Rows
<1>8. ASSUME NEW h \in Handlers, AgentEnds(h) \/ CheckBelow(h) \/ HandlerFails(h)
      PROVE TypeOK'
  <2>1. /\ UNCHANGED <<db, svc, worker, crashes>>
        /\ \/ op' = [op EXCEPT ![h] = NoOp]
           \/ \E pc \in {"check", "reply"} : op' = [op EXCEPT ![h] = [@ EXCEPT !.pc = pc]]
    BY <1>8 DEF AgentEnds, CheckBelow, HandlerFails, Goto
  <2>2. CASE op' = [op EXCEPT ![h] = NoOp]
    BY <1>0, <2>1, <2>2 DEF NoOp, At
  <2>3. ASSUME NEW pc \in {"check", "reply"}, op' = [op EXCEPT ![h] = [@ EXCEPT !.pc = pc]]
        PROVE  TypeOK'
    BY <2>1, <2>3
  <2> QED
    BY <2>1, <2>2, <2>3
<1>9. ASSUME NEW h \in Handlers, Trigger(h) PROVE TypeOK'
  BY <1>9 DEF Trigger, Goto
<1>10. ASSUME NEW w \in Workers, WorkerReads(w) PROVE TypeOK'
  BY <1>0, <1>10 DEF WorkerReads
<1>11. ASSUME NEW w \in Workers, WorkerSelects(w) PROVE TypeOK'
  <2> DEFINE R == Newer(stored, worker[w].old.through)
  <2>1. PICK k \in Boundaries(R) :
          worker' = [worker EXCEPT ![w] = [pc |-> "model", old |-> worker[w].old,
            new |-> [id |-> 0, through |-> k,
                     gist |-> worker[w].old.gist \cup {i \in R : i <= k}]]]
    BY <1>11 DEF WorkerSelects
  <2>2. k \in Nat /\ R \subseteq Rows /\ worker[w].old \in SummaryRecord
    <3>1. R \subseteq stored /\ stored \subseteq Rows
      BY RowsAreNumbers DEF Newer
    <3>2. k \in R
      BY <2>1 DEF Boundaries
    <3>3. k \in Rows /\ Rows \subseteq Nat
      BY <3>1, <3>2, RowsInNat
    <3> QED
      BY <3>1, <3>3
  <2>3. [id |-> 0, through |-> k, gist |-> worker[w].old.gist \cup {i \in R : i <= k}]
          \in SummaryRecord
    BY <2>2 DEF SummaryRecord
  <2> QED
    BY <1>11, <2>1, <2>2, <2>3 DEF WorkerSelects
<1>12. ASSUME NEW w \in Workers, ModelReplies(w) \/ WorkerStops(w) PROVE TypeOK'
  BY <1>12 DEF ModelReplies, WorkerStops
<1>13. ASSUME NEW w \in Workers, WorkerCreates(w) PROVE TypeOK'
  <2>1. [worker[w].new EXCEPT !.id = made + 1] \in SummaryRecord
    BY DEF SummaryRecord
  <2> QED
    BY <1>13, <2>1 DEF WorkerCreates
<1>14. ASSUME NEW w \in Workers, WorkerDeletes(w) PROVE TypeOK'
  BY <1>14 DEF WorkerDeletes
<1>15. ASSUME NEW w \in Workers, WorkerFinishes(w) PROVE TypeOK'
  BY <1>0, <1>15 DEF WorkerFinishes, NoWork
<1>16. CASE Crash
  BY <1>0, <1>16 DEF Crash, NoOp, At, NoWork
<1>17. CASE UNCHANGED vars
  BY <1>17 DEF vars
<1> QED
  BY <1>1, <1>2, <1>3, <1>4, <1>5, <1>6, <1>7, <1>8, <1>9, <1>10, <1>11,
     <1>12, <1>13, <1>14, <1>15, <1>16, <1>17
  DEF Next, HandlerStep, WorkerStep
-----------------------------------------------------------------------------
(* Rows *)

LEMMA RowsShapeInit == Init => RowsShape
BY DEF Init, RowsShape, Pending, NoOp, At

LEMMA RowsShapeStep == TypeOK /\ RowsShape /\ [Next]_vars => RowsShape'
<1> SUFFICES ASSUME TypeOK, RowsShape, [Next]_vars PROVE RowsShape'
  OBVIOUS
<1> USE ConstantsAssumption
<1> USE DEF RowsShape, Pending, db, rows
<1>0. op \in [Handlers -> [pc : OpPcs, mode : Modes, row : 0 .. stamped,
                           sum : SummaryRecord]]
  BY DEF TypeOK
\* Steps that stamp and store nothing, and put no handler before a row.
<1>1. ASSUME UNCHANGED rows,
             \A h \in Handlers : op'[h] = op[h] \/ ~Pending(h)'
      PROVE  RowsShape'
  BY <1>0, <1>1
<1>2. ASSUME NEW h \in Handlers,
             \/ StartMessage(h) \/ ReadHistory(h) \/ StartOther(h) \/ AgentEnds(h)
             \/ CheckBelow(h) \/ Trigger(h) \/ HandlerFails(h)
      PROVE  RowsShape'
  BY <1>0, <1>1, <1>2
  DEF StartMessage, ReadHistory, StartOther, AgentEnds, CheckBelow, Trigger,
      HandlerFails, Goto, NoOp, At
<1>3. ASSUME NEW h \in Handlers, NEW k \in Kinds, NEW pc \in OpPcs,
             Stamp(h, k, pc), pc = "exchange" => k = "call"
      PROVE  RowsShape'
  <2>1. stamped + 1 \in Rows /\ kind \in [Rows -> Kinds] /\ stored \subseteq 1 .. stamped
        /\ stamped \in Nat
    BY <1>3 DEF TypeOK, Stamp, Rows
  <2>2. stamped + 1 \notin stored /\ \A g \in Handlers : op[g].row # stamped + 1
    BY <1>0, <2>1
  <2>3. \A i \in Rows : i # stamped + 1 => kind'[i] = kind[i]
    BY <1>3, <2>1 DEF Stamp
  <2>4. kind'[stamped + 1] = k
    BY <1>3, <2>1 DEF Stamp
  <2>5. /\ op'[h].row = stamped + 1 /\ op'[h].pc = pc
        /\ \A g \in Handlers : g # h => op'[g] = op[g]
        /\ stored' = stored /\ exchanges' = exchanges
    BY <1>0, <1>3 DEF Stamp
  <2>6. \A g \in Handlers : op[g].row # 0 => op[g].row \in Rows
    BY <1>0, <2>1 DEF Rows, TypeOK
  <2>7. \A e \in exchanges : e[1] \in stored /\ e[2] \in stored
    BY DEF TypeOK
  <2>8. \A i \in stored : i \in Rows
    BY RowsAreNumbers
  <2>9. \A e \in exchanges' :
          e[1] < e[2] /\ kind'[e[1]] = "call" /\ kind'[e[2]] = "result"
    BY <2>2, <2>3, <2>5, <2>7, <2>8
  <2>10. \A g \in Handlers : op'[g].pc = "exchange" => kind'[op'[g].row] = "call"
    BY <1>3, <2>2, <2>3, <2>4, <2>5, <2>6
  <2>11. \A g \in Handlers : Pending(g)' => op'[g].row # 0 /\ op'[g].row \notin stored'
    BY <2>1, <2>2, <2>5
  <2>12. ASSUME NEW f \in Handlers, NEW g \in Handlers, Pending(f)', Pending(g)',
                op'[f].row = op'[g].row
         PROVE  f = g
    BY <2>2, <2>5, <2>12
  <2> QED
    BY <2>9, <2>10, <2>11, <2>12
<1>4. ASSUME NEW h \in Handlers, StampPrompt(h) \/ StampReply(h) \/ StampCall(h)
      PROVE  RowsShape'
  BY <1>3, <1>4 DEF StampPrompt, StampReply, StampCall, Kinds, OpPcs
<1>5. ASSUME NEW h \in Handlers, InsertPrompt(h) \/ InsertReply(h) PROVE RowsShape'
  <2>1. /\ stored' = stored \cup {op[h].row} /\ Pending(h)
        /\ kind' = kind /\ exchanges' = exchanges
    BY <1>5 DEF InsertPrompt, InsertReply, Store
  <2>2. ~Pending(h)' /\ \A g \in Handlers : g # h => op'[g] = op[g]
    BY <1>0, <1>5 DEF InsertPrompt, InsertReply, Goto, NoOp, At
  <2> QED
    BY <1>0, <2>1, <2>2
<1>6. ASSUME NEW h \in Handlers, CommitExchange(h) PROVE RowsShape'
  <2> DEFINE c == op[h].row
  <2>1. /\ stored' = stored \cup {c, stamped + 1} /\ Pending(h) /\ kind[c] = "call"
        /\ kind' = [kind EXCEPT ![stamped + 1] = "result"]
        /\ exchanges' = exchanges \cup {<<c, stamped + 1>>}
    BY <1>6 DEF CommitExchange, Store
  <2>2. ~Pending(h)' /\ \A g \in Handlers : g # h => op'[g] = op[g]
    BY <1>0, <1>6 DEF CommitExchange, Goto
  <2>3. stamped + 1 \in Rows /\ kind \in [Rows -> Kinds] /\ stored \subseteq 1 .. stamped
        /\ stamped \in Nat
    BY <1>6 DEF TypeOK, CommitExchange, Rows
  <2>4. stamped + 1 \notin stored /\ \A g \in Handlers : op[g].row < stamped + 1
    BY <1>0, <2>3
  <2>5. \A i \in Rows : i # stamped + 1 => kind'[i] = kind[i]
    BY <2>1, <2>3
  <2>6. \A g \in Handlers : op[g].row # 0 => op[g].row \in Rows
    BY <1>0, <2>3 DEF Rows, TypeOK
  <2>7. \A e \in exchanges : e[1] \in stored /\ e[2] \in stored
    BY DEF TypeOK
  <2>8. \A i \in stored : i \in Rows
    BY RowsAreNumbers
  <2>9. kind'[stamped + 1] = "result"
    BY <2>1, <2>3
  <2>10. \A e \in exchanges' :
           e[1] < e[2] /\ kind'[e[1]] = "call" /\ kind'[e[2]] = "result"
    BY <2>1, <2>3, <2>4, <2>5, <2>6, <2>7, <2>8, <2>9
  <2>11. \A g \in Handlers : Pending(g)' =>
           op[g].row # 0 /\ op[g].row \notin stored' /\ Pending(g) /\ op'[g] = op[g]
    <3> SUFFICES ASSUME NEW g \in Handlers, Pending(g)'
                 PROVE  /\ op[g].row # 0 /\ op[g].row \notin stored'
                        /\ Pending(g) /\ op'[g] = op[g]
      OBVIOUS
    <3>1. g # h /\ op'[g] = op[g] /\ Pending(g)
      BY <2>2
    <3>2. op[g].row # c /\ op[g].row # stamped + 1 /\ op[g].row # 0
          /\ op[g].row \notin stored
      BY <2>1, <2>3, <2>4, <3>1
    <3> QED
      BY <2>1, <3>1, <3>2
  <2>12. ASSUME NEW g \in Handlers, op'[g].pc = "exchange"
         PROVE  kind'[op'[g].row] = "call"
    <3>1. op'[g] = op[g] /\ op[g].row # 0 /\ op[g].pc = "exchange"
      BY <2>11, <2>12
    <3>2. op[g].row \in Rows /\ op[g].row # stamped + 1 /\ kind[op[g].row] = "call"
      BY <2>3, <2>4, <2>6, <3>1
    <3> QED
      BY <2>5, <3>1, <3>2
  <2> QED
    BY <2>10, <2>11, <2>12
<1>7. ASSUME NEW w \in Workers, WorkerStep(w) PROVE RowsShape'
  BY <1>1, <1>7
  DEF WorkerStep, WorkerReads, WorkerSelects, ModelReplies, WorkerCreates,
      WorkerDeletes, WorkerStops, WorkerFinishes
<1>8. CASE Crash
  BY <1>1, <1>8 DEF Crash, NoOp, At
<1>9. CASE UNCHANGED vars
  BY <1>1, <1>9 DEF vars
<1> QED
  BY <1>2, <1>4, <1>5, <1>6, <1>7, <1>8, <1>9 DEF Next, HandlerStep
-----------------------------------------------------------------------------
(* The soundness of a summary *)

\* Storing messages keeps a sound summary sound: what comes behind its
\* boundary comes behind a whole preserve window, and is overtaken.
LEMMA SoundAfterStore ==
  ASSUME TypeOK, NEW s \in SummaryRecord, Sound(s),
         NEW N \in SUBSET Rows, Store(N),
         \A e \in exchanges' :
             e \in exchanges \/ (e[1] \in N /\ e[1] \notin stored)
  PROVE  Sound(s)'
<1>1. stored \subseteq Rows /\ stored' \subseteq Rows /\ stored' = stored \cup N
  BY RowsAreNumbers DEF Store
<1>2. Rows \subseteq Nat \ {0} /\ s.through \in Nat /\ Preserve \in Nat
  BY RowsInNat, ConstantsAssumption DEF SummaryRecord
<1>3. s.through # 0 => s.through \in stored /\ Cardinality(Newer(stored, s.through)) >= Preserve
  BY DEF Sound, Kept
<1>4. Complete(s)'
  <2> SUFFICES ASSUME NEW i \in stored', i <= s.through
               PROVE  i \in s.gist \cup overtaken'
    BY DEF Complete
  <2>1. CASE i \in stored
    BY <2>1 DEF Sound, Complete, Store
  <2>2. CASE i \notin stored
    <3>1. i \in N /\ i \in Rows /\ s.through # 0
      BY <1>1, <1>2, <2>2
    <3>2. /\ Cardinality(Newer(stored, s.through)) \in Nat
          /\ Cardinality(Newer(stored, i)) \in Nat
          /\ Cardinality(Newer(stored, s.through)) <= Cardinality(Newer(stored, i))
      <4>1. i \in Int /\ s.through \in Int
        BY <1>2, <3>1
      <4>2. stored \subseteq stored
        OBVIOUS
      <4> QED
        BY <1>1, <4>1, <4>2, NewerMonotone
    <3>3. Cardinality(Newer(stored, i)) >= Preserve
      BY <1>2, <1>3, <3>1, <3>2
    <3> QED
      BY <3>1, <3>3 DEF Store
  <2> QED
    BY <2>1, <2>2
<1>5. Whole(s)'
  <2> SUFFICES ASSUME NEW e \in exchanges', e[1] <= s.through, s.through < e[2]
               PROVE  \E i \in stored' : e[1] < i /\ i < e[2]
    BY DEF Whole
  <2>1. CASE e \in exchanges
    BY <1>1, <2>1 DEF Sound, Whole
  <2>2. CASE e[1] \in N /\ e[1] \notin stored
    <3>0. e[1] \in Nat /\ e[1] # 0
      BY <1>2, <2>2
    <3>1. s.through # 0 /\ e[1] \in Nat
      BY <1>2, <3>0
    <3>2. s.through \in stored' /\ e[1] # s.through
      BY <1>1, <1>3, <2>2, <3>1
    <3>3. e[1] < s.through
      BY <1>2, <3>1, <3>2
    <3> QED
      BY <3>2, <3>3
  <2> QED
    BY <2>1, <2>2
<1>6. s.through # 0 => Kept(s)'
  <2> SUFFICES ASSUME s.through # 0 PROVE Kept(s)'
    OBVIOUS
  <2>1. /\ Cardinality(Newer(stored, s.through)) \in Nat
        /\ Cardinality(Newer(stored', s.through)) \in Nat
        /\ Cardinality(Newer(stored, s.through)) <= Cardinality(Newer(stored', s.through))
    <3>1. s.through \in Int /\ s.through <= s.through /\ stored \subseteq stored'
      BY <1>1, <1>2
    <3> QED
      BY <1>1, <3>1, NewerMonotone
  <2>2. Cardinality(Newer(stored', s.through)) >= Preserve
    BY <1>2, <1>3, <2>1
  <2> QED
    BY <1>1, <1>3, <2>2 DEF Kept, Newer
<1> QED
  BY <1>4, <1>5, <1>6 DEF Sound

\* Every step keeps a sound summary sound.
LEMMA SoundStays ==
  ASSUME TypeOK, RowsShape, [Next]_vars, NEW s \in SummaryRecord, Sound(s)
  PROVE  Sound(s)'
<1>1. ASSUME UNCHANGED <<stored, exchanges, overtaken>> PROVE Sound(s)'
  BY <1>1 DEF Sound, Complete, Whole, Kept, Newer
<1>2. ASSUME NEW h \in Handlers, InsertPrompt(h) \/ InsertReply(h) PROVE Sound(s)'
  <2>1. Store({op[h].row}) /\ exchanges' = exchanges
    BY <1>2 DEF InsertPrompt, InsertReply
  <2>2. op[h].row \in 1 .. stamped /\ 1 .. stamped \subseteq Rows
    BY <1>2, ConstantsAssumption
    DEF InsertPrompt, InsertReply, RowsShape, Pending, TypeOK, Rows
  <2>3. {op[h].row} \in SUBSET Rows
    BY <2>2
  <2>4. \A e \in exchanges' :
             e \in exchanges \/ (e[1] \in {op[h].row} /\ e[1] \notin stored)
    BY <2>1
  <2> QED
    BY <2>1, <2>3, <2>4, SoundAfterStore
<1>3. ASSUME NEW h \in Handlers, CommitExchange(h) PROVE Sound(s)'
  <2>1. Store({op[h].row, stamped + 1})
        /\ exchanges' = exchanges \cup {<<op[h].row, stamped + 1>>}
    BY <1>3 DEF CommitExchange
  <2>2. /\ op[h].row \in 1 .. stamped /\ op[h].row \notin stored
        /\ 1 .. stamped \subseteq Rows /\ stamped + 1 \in Rows
    BY <1>3, ConstantsAssumption DEF CommitExchange, RowsShape, Pending, TypeOK, Rows
  <2>3. {op[h].row, stamped + 1} \in SUBSET Rows
    BY <2>2
  <2>4. \A e \in exchanges' :
             e \in exchanges \/ (e[1] \in {op[h].row, stamped + 1} /\ e[1] \notin stored)
    <3> DEFINE new == <<op[h].row, stamped + 1>>
    <3>1. new[1] = op[h].row
      OBVIOUS
    <3>2. \A e \in exchanges' : e \in exchanges \/ e = new
      BY <2>1
    <3> HIDE DEF new
    <3> QED
      BY <2>2, <3>1, <3>2
  <2> QED
    BY <2>1, <2>3, <2>4, SoundAfterStore
<1>4. ASSUME NEW h \in Handlers,
             \/ StartMessage(h) \/ ReadHistory(h) \/ StartOther(h) \/ AgentEnds(h)
             \/ CheckBelow(h) \/ Trigger(h) \/ HandlerFails(h)
      PROVE  Sound(s)'
  BY <1>1, <1>4
  DEF StartMessage, ReadHistory, StartOther, AgentEnds, CheckBelow, Trigger,
      HandlerFails, db, rows
<1>5. ASSUME NEW h \in Handlers, StampPrompt(h) \/ StampReply(h) \/ StampCall(h)
      PROVE  Sound(s)'
  BY <1>1, <1>5 DEF StampPrompt, StampReply, StampCall, Stamp
<1>6. ASSUME NEW w \in Workers, WorkerStep(w) PROVE Sound(s)'
  BY <1>1, <1>6
  DEF WorkerStep, WorkerReads, WorkerSelects, ModelReplies, WorkerCreates,
      WorkerDeletes, WorkerStops, WorkerFinishes, db, rows
<1>7. CASE Crash \/ UNCHANGED vars
  BY <1>1, <1>7 DEF Crash, vars, db, rows
<1> QED
  BY <1>2, <1>3, <1>4, <1>5, <1>6, <1>7 DEF Next, HandlerStep

\* What a compaction selects is sound if what it read was: all that it hides
\* is in the old text, in the new text or overtaken, and its boundary is the
\* end of a unit in front of the preserve window.
LEMMA SelectionSound ==
  ASSUME TypeOK, RowsShape, NEW old \in SummaryRecord, Sound(old),
         NEW k \in Boundaries(Newer(stored, old.through)),
         NEW new, new = [id |-> 0, through |-> k,
           gist |-> old.gist \cup {i \in Newer(stored, old.through) : i <= k}]
  PROVE  Sound(new) /\ new.through # 0 /\ old.through < new.through
<1> DEFINE R == Newer(stored, old.through)
<1>1. /\ k \in R /\ EndsUnit(R, k) /\ Cardinality(Newer(R, k)) >= Preserve
      /\ new.through = k
      /\ new.gist = old.gist \cup {i \in R : i <= k}
  BY DEF Boundaries
<1>2. stored \subseteq Rows /\ Rows \subseteq Nat \ {0} /\ old.through \in Nat
  BY RowsAreNumbers, RowsInNat DEF SummaryRecord
<1>3. k \in stored /\ k \in Nat /\ k # 0 /\ old.through < k
  BY <1>1, <1>2 DEF Newer
<1>4. Complete(new)
  <2> SUFFICES ASSUME NEW i \in stored, i <= k PROVE i \in new.gist \cup overtaken
    BY <1>1 DEF Complete
  <2>1. CASE i <= old.through
    BY <1>1, <2>1 DEF Sound, Complete
  <2>2. CASE ~(i <= old.through)
    <3>1. i \in R
      BY <1>2, <2>2 DEF Newer
    <3> QED
      BY <1>1, <3>1
  <2> QED
    BY <2>1, <2>2
<1>5. /\ \A i \in stored : i > k => i \in R
      /\ Newer(R, k) = Newer(stored, k)
  <2>1. \A i \in stored : i > k => i > old.through
    BY <1>2, <1>3
  <2> QED
    BY <2>1 DEF Newer
<1>6. Kept(new)
  BY <1>1, <1>3, <1>5 DEF Kept
<1>7. Whole(new)
  <2> SUFFICES ASSUME NEW e \in exchanges, e[1] <= k, k < e[2]
               PROVE  \E i \in stored : e[1] < i /\ i < e[2]
    BY <1>1 DEF Whole
  <2>1. /\ e[1] \in stored /\ e[2] \in stored /\ kind[e[1]] = "call"
        /\ kind[e[2]] = "result"
    BY DEF TypeOK, RowsShape
  <2>2. CASE e[1] # k
    BY <1>2, <1>3, <2>1, <2>2
  <2>3. CASE e[1] = k
    <3>1. e[2] \in R /\ e[2] > k
      BY <1>2, <1>3, <1>5, <2>1
    <3>2. InBatch(R, k)
      <4>1. \A i \in R : ~(k < i /\ i <= k)
        BY <1>2, <1>3 DEF Newer
      <4>2. k <= k /\ kind[k] = "call"
        BY <1>3, <2>1, <2>3
      <4> QED
        BY <1>1, <4>1, <4>2 DEF InBatch
    <3>3. PICK i \in R : k < i /\ i < e[2]
      BY <1>1, <2>1, <3>1, <3>2 DEF EndsUnit
    <3> QED
      BY <2>3, <3>3 DEF Newer
  <2> QED
    BY <2>2, <2>3
<1> QED
  BY <1>1, <1>3, <1>4, <1>6, <1>7 DEF Sound
-----------------------------------------------------------------------------
(* One compaction at a time *)

LEMMA OneCompactionInit == Init => OneCompaction
BY DEF Init, OneCompaction, Active, NoWork

LEMMA OneCompactionStep == TypeOK /\ OneCompaction /\ [Next]_vars => OneCompaction'
<1> SUFFICES ASSUME TypeOK, OneCompaction, [Next]_vars PROVE OneCompaction'
  OBVIOUS
<1> USE DEF OneCompaction, Active
<1>0. worker \in [Workers -> [pc : WorkerPcs, old : SummaryRecord, new : SummaryRecord]]
  BY DEF TypeOK
<1>1. CASE UNCHANGED <<svc, worker>>
  BY <1>1
<1>2. ASSUME NEW h \in Handlers, HandlerStep(h), ~Trigger(h) PROVE OneCompaction'
  BY <1>1, <1>2
  DEF HandlerStep, StartMessage, ReadHistory, StartOther, StampPrompt, StampReply,
      StampCall, Stamp, InsertPrompt, InsertReply, CommitExchange, AgentEnds,
      CheckBelow, HandlerFails
<1>3. ASSUME NEW h \in Handlers, Trigger(h) PROVE OneCompaction'
  <2>1. CASE svc = "Idle"
    <3>1. PICK w \in Workers : worker' = [worker EXCEPT ![w].pc = "summary"]
      BY <1>3, <2>1 DEF Trigger
    <3>2. svc' = "Running" /\ \A v \in Workers : worker[v].pc = "none"
      BY <1>3, <2>1 DEF Trigger
    <3>3. worker'[w].pc = "summary"
          /\ \A v \in Workers : v # w => worker'[v] = worker[v]
      BY <1>0, <3>1
    <3> QED
      BY <3>2, <3>3
  <2>2. CASE svc # "Idle"
    BY <1>3, <2>2 DEF Trigger
  <2> QED
    BY <2>1, <2>2
<1>4. ASSUME NEW w \in Workers, WorkerStep(w), ~WorkerFinishes(w) PROVE OneCompaction'
  <2>1. /\ worker'[w].pc # "none" /\ worker[w].pc # "none" /\ svc' = svc
        /\ \A v \in Workers : v # w => worker'[v] = worker[v]
    BY <1>0, <1>4
    DEF WorkerStep, WorkerReads, WorkerSelects, ModelReplies, WorkerCreates,
        WorkerDeletes, WorkerStops
  <2> QED
    BY <2>1
<1>5. ASSUME NEW w \in Workers, WorkerFinishes(w) PROVE OneCompaction'
  <2>1. worker[w].pc # "none" /\ svc' = "Idle" /\ worker' = [worker EXCEPT ![w] = NoWork]
    BY <1>5 DEF WorkerFinishes
  <2>2. worker'[w].pc = "none" /\ \A v \in Workers : v # w => worker'[v] = worker[v]
    BY <1>0, <2>1 DEF NoWork
  <2> QED
    BY <2>1, <2>2
<1>6. CASE Crash
  BY <1>6 DEF Crash, NoWork
<1>7. CASE UNCHANGED vars
  BY <1>1, <1>7 DEF vars
<1> QED
  BY <1>2, <1>3, <1>4, <1>5, <1>6, <1>7 DEF Next

-----------------------------------------------------------------------------
(* Every summary is sound *)

LEMMA SummariesSoundInit == Init => SummariesSound
BY DEF Init, SummariesSound, Sound, Complete, Whole, NoOp, At, NoWork, NoSummary

LEMMA NoSummarySound == TypeOK => NoSummary \in SummaryRecord /\ Sound(NoSummary)
<1> SUFFICES ASSUME TypeOK PROVE NoSummary \in SummaryRecord /\ Sound(NoSummary)
  OBVIOUS
<1>1. NoSummary \in SummaryRecord /\ NoSummary.through = 0
  BY DEF NoSummary, SummaryRecord
<1>2. \A i \in stored : ~(i <= 0)
  <2>1. \A i \in stored : i \in Nat /\ i # 0
    BY RowsAreNumbers, RowsInNat
  <2> QED
    BY <2>1
<1>3. \A e \in exchanges : e[1] \in stored
  BY DEF TypeOK
<1> QED
  BY <1>1, <1>2, <1>3 DEF Sound, Complete, Whole

LEMMA SummariesSoundStep ==
  TypeOK /\ RowsShape /\ SummariesSound /\ [Next]_vars => SummariesSound'
<1> SUFFICES ASSUME TypeOK, RowsShape, SummariesSound, [Next]_vars
             PROVE  SummariesSound'
  OBVIOUS
<1>0. /\ worker \in [Workers -> [pc : WorkerPcs, old : SummaryRecord, new : SummaryRecord]]
      /\ op \in [Handlers -> [pc : OpPcs, mode : Modes, row : 0 .. stamped,
                              sum : SummaryRecord]]
      /\ summaries \subseteq SummaryRecord /\ made \in Nat
  BY DEF TypeOK
\* Whoever holds a sound summary now holds a sound one after the step.
<1>1. /\ \A s \in summaries : Sound(s)' /\ s.through # 0
      /\ \A h \in Handlers : Sound(op[h].sum) /\ op[h].sum \in SummaryRecord
      /\ \A w \in Workers : Sound(worker[w].old) /\ worker[w].old \in SummaryRecord
      /\ \A w \in Workers : worker[w].pc \in {"model", "create"} =>
           Sound(worker[w].new) /\ worker[w].new.through # 0
           /\ worker[w].new \in SummaryRecord
  BY <1>0, SoundStays DEF SummariesSound
<1>2. NoSummary \in SummaryRecord /\ Sound(NoSummary)
  BY NoSummarySound
<1>3. \A s \in SummaryRecord : Sound(s) => Sound(s)'
  BY SoundStays
\* What is left to show of a step.
<1>4. ASSUME \A s \in summaries' : s \in summaries \/ (Sound(s)' /\ s.through # 0),
             \A h \in Handlers :
               op'[h].sum = op[h].sum \/ op'[h].sum \in summaries \cup {NoSummary},
             \A w \in Workers :
               worker'[w].old = worker[w].old
               \/ worker'[w].old \in summaries \cup {NoSummary},
             \A w \in Workers : worker'[w].pc \in {"model", "create"} =>
               \/ worker[w].pc \in {"model", "create"} /\ worker'[w].new = worker[w].new
               \/ /\ worker'[w].new \in SummaryRecord
                  /\ Sound(worker'[w].new) /\ worker'[w].new.through # 0
      PROVE  SummariesSound'
  <2> DEFINE SoundNext(s) ==
        /\ \A i \in stored' : i <= s.through => i \in s.gist \cup overtaken'
        /\ \A e \in exchanges' : e[1] <= s.through /\ s.through < e[2] =>
             \E i \in stored' : e[1] < i /\ i < e[2]
        /\ \/ s.through = 0
           \/ s.through \in stored' /\ Cardinality(Newer(stored', s.through)) >= Preserve
  <2>1. \A s \in summaries' : Sound(s)' /\ s.through # 0
    BY <1>1, <1>4
  <2>2. \A h \in Handlers : op'[h].sum \in SummaryRecord /\ Sound(op'[h].sum)
    BY <1>0, <1>1, <1>2, <1>4 DEF SummariesSound
  <2>3. \A w \in Workers : worker'[w].old \in SummaryRecord /\ Sound(worker'[w].old)
    BY <1>0, <1>1, <1>2, <1>4 DEF SummariesSound
  <2>4. \A w \in Workers : worker'[w].pc \in {"model", "create"} =>
          /\ worker'[w].new \in SummaryRecord /\ Sound(worker'[w].new)
          /\ worker'[w].new.through # 0
    BY <1>1, <1>4
  <2>5. \A s \in SummaryRecord : Sound(s) => SoundNext(s)
    BY <1>3 DEF Sound, Complete, Whole, Kept
  <2>6. \A h \in Handlers : Sound(op[h].sum)'
    BY <2>2, <2>5 DEF Sound, Complete, Whole, Kept
  <2>7. \A w \in Workers : Sound(worker[w].old)'
    BY <2>3, <2>5 DEF Sound, Complete, Whole, Kept
  <2>8. \A w \in Workers : worker'[w].pc \in {"model", "create"} =>
          Sound(worker[w].new)' /\ worker'[w].new.through # 0
    BY <2>4, <2>5 DEF Sound, Complete, Whole, Kept
  <2> QED
    BY <2>1, <2>6, <2>7, <2>8 DEF SummariesSound
<1>5. ASSUME NEW h \in Handlers, HandlerStep(h) PROVE SummariesSound'
  <2>1. summaries' = summaries /\ \A w \in Workers :
          \/ worker'[w] = worker[w]
          \/ worker'[w].old = worker[w].old /\ worker'[w].pc = "summary"
    BY <1>0, <1>5
    DEF HandlerStep, StartMessage, ReadHistory, StartOther, StampPrompt, StampReply,
        StampCall, Stamp, InsertPrompt, InsertReply, CommitExchange, AgentEnds,
        CheckBelow, Trigger, HandlerFails, db
  <2>2. \A g \in Handlers :
          op'[g].sum = op[g].sum \/ op'[g].sum \in summaries \cup {NoSummary}
    BY <1>0, <1>5
    DEF HandlerStep, StartMessage, ReadHistory, StartOther, StampPrompt, StampReply,
        StampCall, Stamp, InsertPrompt, InsertReply, CommitExchange, AgentEnds,
        CheckBelow, Trigger, HandlerFails, Goto, NoOp, At
  <2>3. \A w \in Workers : worker'[w].pc \in {"model", "create"} =>
          worker[w].pc \in {"model", "create"} /\ worker'[w].new = worker[w].new
    BY <2>1
  <2> QED
    BY <1>4, <2>1, <2>2, <2>3
<1>6. ASSUME NEW w \in Workers, WorkerReads(w) PROVE SummariesSound'
  <2>1. PICK s \in summaries \cup {NoSummary} :
          worker' = [worker EXCEPT ![w] =
                       [pc |-> "select", old |-> s, new |-> NoSummary]]
    BY <1>6 DEF WorkerReads
  <2>2. /\ worker'[w].old = s /\ worker'[w].pc = "select"
        /\ \A v \in Workers : v # w => worker'[v] = worker[v]
    BY <1>0, <2>1
  <2>3. summaries' = summaries /\ op' = op
    BY <1>6 DEF WorkerReads, db
  <2> QED
    BY <1>4, <2>1, <2>2, <2>3
<1>7. ASSUME NEW w \in Workers, WorkerSelects(w) PROVE SummariesSound'
  <2> DEFINE R == Newer(stored, worker[w].old.through)
  <2>1. PICK k \in Boundaries(R) :
          worker' = [worker EXCEPT ![w] = [pc |-> "model", old |-> worker[w].old,
            new |-> [id |-> 0, through |-> k,
                     gist |-> worker[w].old.gist \cup {i \in R : i <= k}]]]
    BY <1>7 DEF WorkerSelects
  <2>2. /\ worker'[w].old = worker[w].old /\ worker'[w].pc = "model"
        /\ worker'[w].new = [id |-> 0, through |-> k,
                             gist |-> worker[w].old.gist \cup {i \in R : i <= k}]
        /\ \A v \in Workers : v # w => worker'[v] = worker[v]
    BY <1>0, <2>1
  <2>3. Sound(worker'[w].new) /\ worker'[w].new.through # 0
    BY <1>1, <2>1, <2>2, SelectionSound
  <2>4. worker'[w].new \in SummaryRecord
    <3>1. k \in stored /\ R \subseteq Rows /\ stored \subseteq Rows
      BY <2>1, RowsAreNumbers DEF Boundaries, Newer
    <3>2. k \in Nat /\ worker[w].old.gist \subseteq Rows
      BY <1>0, <3>1, RowsInNat DEF SummaryRecord
    <3> QED
      BY <2>2, <3>1, <3>2 DEF SummaryRecord
  <2>5. summaries' = summaries /\ op' = op
    BY <1>7 DEF WorkerSelects, db
  <2> QED
    BY <1>4, <2>2, <2>3, <2>4, <2>5
<1>8. ASSUME NEW w \in Workers, ModelReplies(w) \/ WorkerStops(w) \/ WorkerFinishes(w)
      PROVE  SummariesSound'
  <2>1. summaries' = summaries /\ op' = op
    BY <1>8 DEF ModelReplies, WorkerStops, WorkerFinishes, db
  <2>2. /\ \A v \in Workers : v # w => worker'[v] = worker[v]
        /\ worker'[w].old = worker[w].old \/ worker'[w].old = NoSummary
        /\ worker'[w].pc \in {"model", "create"} =>
             worker[w].pc = "model" /\ worker'[w].new = worker[w].new
    BY <1>0, <1>8 DEF ModelReplies, WorkerStops, WorkerFinishes, NoWork
  <2> QED
    BY <1>4, <2>1, <2>2
<1>9. ASSUME NEW w \in Workers, WorkerCreates(w) PROVE SummariesSound'
  <2> DEFINE new == [worker[w].new EXCEPT !.id = made + 1]
  <2>1. summaries' = summaries \cup {new} /\ op' = op /\ worker[w].pc = "create"
        /\ UNCHANGED rows
    BY <1>9 DEF WorkerCreates
  <2>2. /\ \A v \in Workers : v # w => worker'[v] = worker[v]
        /\ worker'[w].old = worker[w].old /\ worker'[w].pc \in {"finish", "delete"}
    BY <1>0, <1>9 DEF WorkerCreates
  <2>3. worker[w].new \in SummaryRecord /\ Sound(worker[w].new) /\ worker[w].new.through # 0
    BY <1>1, <2>1
  <2>4. new \in SummaryRecord /\ new.through = worker[w].new.through
        /\ new.gist = worker[w].new.gist
    BY <1>0, <2>3 DEF SummaryRecord
  <2>5. Sound(new) /\ new.through # 0
    BY <2>3, <2>4 DEF Sound, Complete, Whole, Kept
  <2> HIDE DEF new
  <2>6. \A s \in summaries' : s \in summaries \/ (Sound(s)' /\ s.through # 0)
    <3> SUFFICES ASSUME NEW s \in summaries', s \notin summaries
                 PROVE  Sound(s)' /\ s.through # 0
      OBVIOUS
    <3>1. s = new
      BY <2>1
    <3> QED
      BY <1>3, <2>4, <2>5, <3>1
  <2> QED
    BY <1>4, <2>1, <2>2, <2>6
<1>10. ASSUME NEW w \in Workers, WorkerDeletes(w) PROVE SummariesSound'
  <2>1. summaries' \subseteq summaries /\ op' = op
    BY <1>10 DEF WorkerDeletes
  <2>2. /\ \A v \in Workers : v # w => worker'[v] = worker[v]
        /\ worker'[w].old = worker[w].old /\ worker'[w].pc = "finish"
    BY <1>0, <1>10 DEF WorkerDeletes
  <2> QED
    BY <1>4, <2>1, <2>2
<1>11. CASE Crash
  BY <1>4, <1>11 DEF Crash, NoOp, At, NoWork, db
<1>12. CASE UNCHANGED vars
  BY <1>4, <1>12 DEF vars, db
<1> QED
  BY <1>5, <1>6, <1>7, <1>8, <1>9, <1>10, <1>11, <1>12 DEF Next, WorkerStep
-----------------------------------------------------------------------------
(* The succession of summaries *)

LEMMA SuccessionInit == Init => Succession
BY DEF Init, Succession, NoWork

LEMMA SuccessionStep ==
  TypeOK /\ RowsShape /\ OneCompaction /\ SummariesSound /\ Succession /\ [Next]_vars
    => Succession'
<1> SUFFICES ASSUME TypeOK, RowsShape, OneCompaction, SummariesSound, Succession,
                    [Next]_vars
             PROVE  Succession'
  OBVIOUS
<1>0. /\ worker \in [Workers -> [pc : WorkerPcs, old : SummaryRecord, new : SummaryRecord]]
      /\ summaries \subseteq SummaryRecord /\ made \in Nat
  BY DEF TypeOK
\* A step that leaves the summaries alone and advances w, if anyone.
<1>1. ASSUME UNCHANGED <<summaries, made>>,
             \A w \in Workers :
               worker'[w] = worker[w] \/ worker'[w].pc \in {"none", "summary", "finish"}
      PROVE  Succession'
  BY <1>1 DEF Succession, IsLatest
<1>2. ASSUME NEW h \in Handlers, HandlerStep(h) PROVE Succession'
  <2>1. UNCHANGED <<summaries, made>>
    BY <1>2
    DEF HandlerStep, StartMessage, ReadHistory, StartOther, StampPrompt, StampReply,
        StampCall, Stamp, InsertPrompt, InsertReply, CommitExchange, AgentEnds,
        CheckBelow, Trigger, HandlerFails, db
  <2>2. \A w \in Workers : worker'[w] = worker[w] \/ worker'[w].pc = "summary"
    BY <1>0, <1>2
    DEF HandlerStep, StartMessage, ReadHistory, StartOther, StampPrompt, StampReply,
        StampCall, Stamp, InsertPrompt, InsertReply, CommitExchange, AgentEnds,
        CheckBelow, Trigger, HandlerFails
  <2> QED
    BY <1>1, <2>1, <2>2
<1>3. ASSUME NEW w \in Workers, WorkerReads(w) PROVE Succession'
  <2>1. PICK s \in summaries \cup {NoSummary} :
          /\ IsLatest(s)
          /\ worker' = [worker EXCEPT ![w] =
                          [pc |-> "select", old |-> s, new |-> NoSummary]]
    BY <1>3 DEF WorkerReads
  <2>2. /\ worker'[w].old = s /\ worker'[w].pc = "select"
        /\ \A v \in Workers : v # w => worker'[v] = worker[v]
    BY <1>0, <2>1
  <2>3. UNCHANGED <<summaries, made>>
    BY <1>3 DEF WorkerReads, db
  <2> QED
    BY <2>1, <2>2, <2>3 DEF Succession, IsLatest
<1>4. ASSUME NEW w \in Workers, WorkerSelects(w) PROVE Succession'
  <2> DEFINE R == Newer(stored, worker[w].old.through)
  <2>1. PICK k \in Boundaries(R) :
          worker' = [worker EXCEPT ![w] = [pc |-> "model", old |-> worker[w].old,
            new |-> [id |-> 0, through |-> k,
                     gist |-> worker[w].old.gist \cup {i \in R : i <= k}]]]
    BY <1>4 DEF WorkerSelects
  <2>2. /\ worker'[w].old = worker[w].old /\ worker'[w].pc = "model"
        /\ worker'[w].new = [id |-> 0, through |-> k,
                             gist |-> worker[w].old.gist \cup {i \in R : i <= k}]
        /\ \A v \in Workers : v # w => worker'[v] = worker[v]
    BY <1>0, <2>1
  <2>3. worker[w].old \in SummaryRecord /\ Sound(worker[w].old)
    BY <1>0 DEF SummariesSound
  <2>4. worker'[w].old.through < worker'[w].new.through
    BY <2>1, <2>2, <2>3, SelectionSound
  <2>5. worker'[w].old.gist \subseteq worker'[w].new.gist
    BY <2>2
  <2>6. UNCHANGED <<summaries, made>> /\ worker[w].pc = "select"
    BY <1>4 DEF WorkerSelects, db
  <2>7. IsLatest(worker[w].old)
    BY <2>6 DEF Succession
  <2> HIDE DEF R
  <2> QED
    BY <2>2, <2>4, <2>5, <2>6, <2>7 DEF Succession, IsLatest
<1>5. ASSUME NEW w \in Workers, ModelReplies(w) PROVE Succession'
  <2>1. /\ worker[w].pc = "model" /\ worker'[w].pc = "create"
        /\ worker'[w].old = worker[w].old /\ worker'[w].new = worker[w].new
        /\ \A v \in Workers : v # w => worker'[v] = worker[v]
    BY <1>0, <1>5 DEF ModelReplies
  <2>2. UNCHANGED <<summaries, made>>
    BY <1>5 DEF ModelReplies, db
  <2> QED
    BY <2>1, <2>2 DEF Succession, IsLatest
<1>6. ASSUME NEW w \in Workers, WorkerStops(w) \/ WorkerFinishes(w) PROVE Succession'
  <2>1. /\ UNCHANGED <<summaries, made>> /\ worker'[w].pc \in {"finish", "none"}
        /\ \A v \in Workers : v # w => worker'[v] = worker[v]
    BY <1>0, <1>6 DEF WorkerStops, WorkerFinishes, NoWork, db
  <2> QED
    BY <1>1, <2>1
\* The compaction that creates or deletes is the only one.
<1>7. ASSUME NEW w \in Workers, WorkerCreates(w) \/ WorkerDeletes(w)
      PROVE  /\ \A v \in Workers : v # w => worker[v].pc = "none" /\ worker'[v] = worker[v]
             /\ worker'[w].old = worker[w].old /\ worker'[w].pc \in {"finish", "delete"}
  BY <1>0, <1>7 DEF WorkerCreates, WorkerDeletes, OneCompaction, Active
<1>8. ASSUME NEW w \in Workers, WorkerCreates(w) PROVE Succession'
  <2> DEFINE new == [worker[w].new EXCEPT !.id = made + 1]
  <2>1. summaries' = summaries \cup {new} /\ made' = made + 1 /\ worker[w].pc = "create"
    BY <1>8 DEF WorkerCreates
  <2>2. new.id = made + 1
    BY <1>0 DEF SummaryRecord
  <2> HIDE DEF new
  <2>3. \A s \in summaries : s.id \in 1 .. made
    BY DEF Succession
  <2>4. \A s \in summaries' : s.id \in 1 .. made'
    BY <1>0, <2>1, <2>2, <2>3
  <2>5. \A s, t \in summaries' : s.id = t.id => s = t
    BY <1>0, <2>1, <2>2, <2>3 DEF Succession
  <2>6. worker[w].old.id < made + 1
    <3>1. IsLatest(worker[w].old)
      BY <2>1 DEF Succession
    <3> QED
      BY <1>0, <2>3, <3>1 DEF IsLatest, NoSummary
  <2>7. \E s \in summaries' : worker'[w].old.id < s.id
    BY <1>7, <1>8, <2>1, <2>2, <2>6
  <2> QED
    BY <1>7, <1>8, <2>4, <2>5, <2>7 DEF Succession
<1>9. ASSUME NEW w \in Workers, WorkerDeletes(w) PROVE Succession'
  <2>1. summaries' \subseteq summaries /\ made' = made /\ worker'[w].pc = "finish"
    BY <1>0, <1>9 DEF WorkerDeletes
  <2> QED
    BY <1>7, <1>9, <2>1 DEF Succession
<1>10. CASE Crash
  BY <1>1, <1>10 DEF Crash, NoWork, db
<1>11. CASE UNCHANGED vars
  BY <1>1, <1>11 DEF vars, db
<1> QED
  BY <1>2, <1>3, <1>4, <1>5, <1>6, <1>8, <1>9, <1>10, <1>11 DEF Next, WorkerStep

-----------------------------------------------------------------------------
(* Theorems *)

\* The inductive invariant holds in every reachable state.
THEOREM Inductive == Spec => []IndInv
<1>1. Init => IndInv
  BY TypeInit, RowsShapeInit, OneCompactionInit, SummariesSoundInit, SuccessionInit
  DEF IndInv
<1>2. IndInv /\ [Next]_vars => IndInv'
  BY TypeStep, RowsShapeStep, OneCompactionStep, SummariesSoundStep, SuccessionStep
  DEF IndInv
<1> QED
  BY <1>1, <1>2, PTL DEF Spec

\* The types of the variables, among them that every stored message has a
\* created_at and every exchange is stored whole.
THEOREM TypeCorrect == Spec => []TypeOK
<1>1. IndInv => TypeOK
  BY DEF IndInv
<1> QED
  BY <1>1, Inductive, PTL

\* No message leaves the prompts of a session without having been summarised.
THEOREM HistoryIsKept == Spec => []NothingForgotten
<1>1. IndInv => NothingForgotten
  BY DEF IndInv, SummariesSound, Sound, NothingForgotten
<1> QED
  BY <1>1, Inductive, PTL

\* The preserve window is never summarised away, and a summary ends inside an
\* exchange only if a foreign message is inside too.
THEOREM BoundariesAreKept == Spec => []BoundariesAreSound
<1>1. IndInv => RecentPreserved
  BY DEF IndInv, SummariesSound, Sound, Kept, RecentPreserved
<1>2. IndInv => AdjacentExchangesWhole
  BY DEF IndInv, SummariesSound, Sound, Whole, AdjacentExchangesWhole
<1>3. IndInv => BoundariesAreSound
  BY <1>1, <1>2 DEF BoundariesAreSound
<1> QED
  BY <1>3, Inductive, PTL

\* The state map and the compaction tasks agree, and there is one at most.
THEOREM CompactionsExclude == Spec => []OneCompaction
<1>1. IndInv => OneCompaction
  BY DEF IndInv
<1> QED
  BY <1>1, Inductive, PTL

\* The coverage of the latest summary never shrinks, over crashes too.
THEOREM CoverageAdvances == Spec => BoundaryAdvances
<1>1. IndInv /\ [Next]_vars => [LatestAdvances]_vars
  <2> SUFFICES ASSUME IndInv, [Next]_vars, NEW s \in summaries, IsLatest(s)
               PROVE  \E t \in summaries' : /\ \A u \in summaries' : u.id <= t.id
                                            /\ t.through >= s.through
                                            /\ s.gist \subseteq t.gist
    BY DEF LatestAdvances
  <2>0. /\ summaries \subseteq SummaryRecord /\ made \in Nat
        /\ worker \in [Workers -> [pc : WorkerPcs, old : SummaryRecord, new : SummaryRecord]]
        /\ s.through \in Nat /\ s.id \in Nat /\ \A u \in summaries : u.id <= s.id
    BY DEF IndInv, TypeOK, SummaryRecord, IsLatest
  <2>1. CASE UNCHANGED summaries
    BY <2>0, <2>1
  <2>2. ASSUME NEW w \in Workers, WorkerCreates(w)
        PROVE  \E t \in summaries' : /\ \A u \in summaries' : u.id <= t.id
                                     /\ t.through >= s.through
                                     /\ s.gist \subseteq t.gist
    <3> DEFINE new == [worker[w].new EXCEPT !.id = made + 1]
    <3>1. summaries' = summaries \cup {new} /\ worker[w].pc = "create"
      BY <2>2 DEF WorkerCreates
    <3>2. /\ new.id = made + 1 /\ new.through = worker[w].new.through
          /\ new.gist = worker[w].new.gist /\ worker[w].new.through \in Nat
      BY <2>0 DEF SummaryRecord
    <3> HIDE DEF new
    <3>3. /\ worker[w].old.through < worker[w].new.through
          /\ worker[w].old.gist \subseteq worker[w].new.gist
          /\ IsLatest(worker[w].old)
      BY <3>1 DEF IndInv, Succession
    <3>4. \A u \in summaries : u.id \in 1 .. made
      BY DEF IndInv, Succession
    <3>5. worker[w].old \in summaries /\ worker[w].old.id = s.id
      BY <2>0, <3>3 DEF IsLatest, SummaryRecord
    <3>6. worker[w].old = s
      BY <3>5 DEF IndInv, Succession
    <3>7. \A u \in summaries' : u.id <= new.id
      BY <2>0, <3>1, <3>2, <3>4
    <3> QED
      BY <2>0, <3>1, <3>2, <3>3, <3>6, <3>7
  <2>3. ASSUME NEW w \in Workers, WorkerDeletes(w)
        PROVE  \E t \in summaries' : /\ \A u \in summaries' : u.id <= t.id
                                     /\ t.through >= s.through
                                     /\ s.gist \subseteq t.gist
    <3>1. PICK u \in summaries : worker[w].old.id < u.id
      BY <2>3 DEF WorkerDeletes, IndInv, Succession
    <3>2. s # worker[w].old
      BY <2>0, <3>1 DEF SummaryRecord
    <3>3. s \in summaries' /\ summaries' \subseteq summaries
      BY <2>3, <3>2 DEF WorkerDeletes
    <3> QED
      BY <2>0, <3>3
  <2>4. ASSUME NEW h \in Handlers, HandlerStep(h) PROVE UNCHANGED summaries
    BY <2>4
    DEF HandlerStep, StartMessage, ReadHistory, StartOther, StampPrompt, StampReply,
        StampCall, Stamp, InsertPrompt, InsertReply, CommitExchange, AgentEnds,
        CheckBelow, Trigger, HandlerFails, db
  <2>5. ASSUME NEW w \in Workers, WorkerStep(w), ~WorkerCreates(w), ~WorkerDeletes(w)
        PROVE  UNCHANGED summaries
    BY <2>5
    DEF WorkerStep, WorkerReads, WorkerSelects, ModelReplies, WorkerStops,
        WorkerFinishes, db
  <2> QED
    BY <2>1, <2>2, <2>3, <2>4, <2>5 DEF Next, Crash, vars, db
<1> QED
  BY <1>1, Inductive, PTL DEF Spec, BoundaryAdvances
=============================================================================
