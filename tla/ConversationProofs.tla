-------------------------- MODULE ConversationProofs --------------------------
(***************************************************************************)
(* Proofs about Conversation, for any messages, jobs, conversations and    *)
(* people, any policy and any bounds: the safety properties, by the        *)
(* inductive invariant of ConversationInvariants.  One lemma per part of   *)
(* the invariant, one step per action.                                     *)
(***************************************************************************)
EXTENDS ConversationInvariants, FiniteSetTheorems, SequenceTheorems, WellFoundedInduction, TLAPS

\* What each run holds at its await, of all runs.
StageShape == \A r \in Runs : StageOf(r)

\* A nonempty set of numbers up to n has a greatest one.
LEMMA Greatest ==
  ASSUME NEW n \in Nat, NEW S \in SUBSET (1..n), S # {}
  PROVE  \E c \in S : \A d \in S : d <= c
<1> DEFINE T == {k \in Nat : n - k \in S}
<1>1. T # {}
  <2>1. PICK c \in S : TRUE
    OBVIOUS
  <2>2. n - c \in Nat /\ n - (n - c) = c
    BY <2>1
  <2> QED BY <2>1, <2>2
<1> DEFINE Less == {p \in Nat \X Nat : p[1] < p[2]}
<1>2. PICK k \in T : \A j \in T : <<j, k>> \notin Less
  <2>1. T \subseteq Nat
    OBVIOUS
  <2>2. IsWellFoundedOn(Less, Nat)
    BY NatLessThanWellFounded DEF OpToRel
  <2> HIDE DEF T, Less
  <2> QED BY <1>1, <2>1, <2>2, WFMin
<1>3. \A j \in T : ~(j < k)
  BY <1>2
<1>4. \A d \in S : d <= n - k
  <2> TAKE d \in S
  <2>1. n - d \in Nat /\ n - (n - d) = d
    OBVIOUS
  <2>2. ~(n - d < k)
    BY <2>1, <1>3
  <2> QED BY <2>1, <2>2
<1> QED BY <1>4

\* What a lookup finds: nothing only where there is nothing, else the latest.
LEMMA Lookup ==
  ASSUME TypeOK, NEW a \in Addresses
  PROVE  /\ SessionFor(a) = 0 => \A s \in sessions : s.addr # a
         /\ SessionFor(a) # 0 => /\ \E s \in sessions : s.addr = a /\ s.created = SessionFor(a)
                                 /\ \A s \in sessions : s.addr = a => s.created <= SessionFor(a)
         /\ SessionFor(a) \in 0..clock
<1> DEFINE rows == {s.created : s \in {t \in sessions : t.addr = a}}
<1>1. rows \in SUBSET (1..clock) /\ clock \in Nat
  BY DEF TypeOK, StoreOK
<1>2. CASE rows = {}
  BY <1>1, <1>2 DEF SessionFor
<1>3. CASE rows # {}
  <2>1. \E c \in rows : \A d \in rows : d <= c
    BY <1>1, <1>3, Greatest
  <2>2. SessionFor(a) \in rows /\ \A d \in rows : d <= SessionFor(a)
    BY <1>3, <2>1 DEF SessionFor
  <2>3. SessionFor(a) \in 1..clock
    BY <1>1, <2>2
  <2>4. \A s \in sessions : s.addr = a => s.created \in rows
    OBVIOUS
  <2>5. \E s \in sessions : s.addr = a /\ s.created = SessionFor(a)
    BY <2>2
  <2> QED BY <1>1, <2>2, <2>3, <2>4, <2>5
<1> QED BY <1>2, <1>3

\* What the end of a run and its beginning leave of the types.
LEMMA ReturnTypes ==
  ASSUME TypeOK, NEW r \in Runs, NEW how \in {"ok", "error"}, Return(r, how),
         UNCHANGED <<clock, mine, step>>
  PROVE  LocalsOK' /\ result' \in [Runs -> {"none", "ok", "error"}]
<1> USE BoundsAssumption DEF TypeOK, LocalsOK, OutcomeOK, Return, Goto
<1>1. /\ pc' \in [Runs -> Stages] /\ reply' \in [Runs -> Replies]
      /\ result' \in [Runs -> {"none", "ok", "error"}]
  BY DEF Stages, Replies
<1>2. /\ mine' \in [Runs -> 0..clock'] /\ stamp' \in [Runs -> 0..clock']
      /\ step' \in [Runs -> 0..MaxIterations]
  BY DEF StoreOK
<1>3. prompt' \in [Runs -> SUBSET (Runs \X Nat)] /\ told' \in [Runs -> BOOLEAN]
  OBVIOUS
<1>4. attempt' \in [Runs -> 0..MaxRetries] /\ left' \in [Runs -> 0..MaxBatch]
  OBVIOUS
<1> QED BY <1>1, <1>2, <1>3, <1>4

LEMMA StartTypes ==
  ASSUME TypeOK, NEW r \in Runs, NEW k \in Kinds, NEW a \in Addresses, NEW s \in Senders,
         Start(r, k, a, s), notify' \in [Runs -> BOOLEAN]
  PROVE  IdentOK'
<1> USE DEF TypeOK, IdentOK, Start
<1>1. kind' \in [Runs -> Kinds] /\ addr' \in [Runs -> Addresses] /\ sender' \in [Runs -> Senders]
  OBVIOUS
<1>2. before' \in [Runs -> SUBSET Runs]
  OBVIOUS
<1>3. logAt' \in [Runs -> [Runs -> Nat]]
  <2>1. [q \in Runs |-> Len(log[q])] \in [Runs -> Nat]
    BY DEF StoreOK
  <2> QED BY <2>1
<1> QED BY <1>1, <1>2, <1>3

\* Types.
LEMMA IdentKept ==
  TypeOK /\ [Next]_vars => IdentOK'
<1> SUFFICES ASSUME TypeOK, [Next]_vars PROVE IdentOK'
  OBVIOUS
<1> USE DEF TypeOK, IdentOK, Kinds, Runs
<1>1. ASSUME NEW r \in Messages, Receive(r) PROVE IdentOK'
  <2>1. PICK k \in {"text", "reset"}, a \in Addresses, s \in Senders \ {Unknown} :
          Start(r, k, a, s) /\ UNCHANGED notify
    BY <1>1 DEF Receive
  <2>2. k \in Kinds /\ s \in Senders /\ notify' \in [Runs -> BOOLEAN] /\ r \in Runs
    BY <2>1
  <2> HIDE DEF TypeOK, IdentOK, Kinds, Runs
  <2> QED BY <2>1, <2>2, StartTypes
<1>2. ASSUME NEW r \in Jobs, Fire(r) PROVE IdentOK'
  <2>1. PICK a \in Addresses, n \in BOOLEAN :
          Start(r, "text", a, Unknown) /\ notify' = [notify EXCEPT ![r] = n]
    BY <1>2 DEF Fire
  <2>2. notify' \in [Runs -> BOOLEAN] /\ Unknown \in Senders
    BY <2>1, PolicyAssumption
  <2> HIDE DEF IdentOK, TypeOK, Kinds
  <2>3. "text" \in Kinds
    BY DEF Kinds
  <2> QED BY <2>1, <2>2, <2>3, StartTypes
<1>3. ASSUME NEW r \in Runs,
          StatementFails(r) \/ FindSession(r) \/ StampSession(r)
          \/ InsertSession(r) \/ Route(r) \/ Assemble(r) \/ SavePrompt(r)
          \/ ModelRetries(r) \/ ModelFails(r) \/ ModelAnswers(r)
          \/ ModelCallsTools(r) \/ OtherTool(r) \/ SendUserMessage(r)
          \/ PersistExchange(r) \/ PersistFails(r) \/ StoreReply(r)
          \/ SendReply(r) \/ NotifyOwner(r)
       PROVE IdentOK'
  BY <1>3 DEF StatementFails, FindSession, StampSession, InsertSession, Route, Assemble,
    SavePrompt, ModelRetries, ModelFails, ModelAnswers, ModelCallsTools, OtherTool,
    SendUserMessage, PersistExchange, PersistFails, StoreReply, SendReply, NotifyOwner, ident
<1>4. CASE UNCHANGED vars
  BY <1>4 DEF vars, ident, store, locals
<1> QED BY <1>1, <1>2, <1>3, <1>4 DEF Next, Step, Runs

\* Types.
LEMMA StoreKept ==
  TypeOK /\ StageShape /\ [Next]_vars => StoreOK'
<1> SUFFICES ASSUME TypeOK /\ StageShape, [Next]_vars PROVE StoreOK'
  OBVIOUS
<1> USE DEF TypeOK, StoreOK
<1>1. ASSUME NEW r \in Messages, Receive(r) PROVE StoreOK'
  BY <1>1 DEF Receive, Start, store
<1>2. ASSUME NEW r \in Jobs, Fire(r) PROVE StoreOK'
  BY <1>2 DEF Fire, Start, store
<1>3. ASSUME NEW r \in Runs,
          StatementFails(r) \/ FindSession(r) \/ Assemble(r) \/ ModelRetries(r)
          \/ ModelFails(r) \/ ModelAnswers(r) \/ ModelCallsTools(r)
          \/ OtherTool(r) \/ SendUserMessage(r) \/ PersistFails(r)
          \/ SendReply(r) \/ NotifyOwner(r)
       PROVE StoreOK'
  BY <1>3 DEF StatementFails, FindSession, Assemble, ModelRetries, ModelFails, ModelAnswers,
    ModelCallsTools, OtherTool, SendUserMessage, PersistFails, SendReply, NotifyOwner, store
<1>4. ASSUME NEW r \in Runs, StampSession(r) PROVE StoreOK'
  <2>1. sessions' \subseteq [addr : Addresses, created : 1..clock', by : Runs]
    BY <1>4 DEF StampSession
  <2> QED BY <1>4, <2>1 DEF StampSession
<1>5. ASSUME NEW r \in Runs, InsertSession(r) PROVE StoreOK'
  <2>1. [addr |-> addr[r], created |-> stamp[r], by |-> r]
          \in [addr : Addresses, created : 1..clock, by : Runs]
    BY <1>5 DEF InsertSession, StageShape, StageOf, IdentOK, LocalsOK
  <2> QED BY <1>5, <2>1 DEF InsertSession
<1>6. ASSUME NEW r \in Runs, Route(r) PROVE StoreOK'
  <2>1. [session |-> mine[r], role |-> "user"] \in Row
    BY <1>6 DEF Route, StageShape, StageOf, Prepared, LocalsOK, Row
  <2>2. Record(r, "user") => log' \in [Runs -> Seq(Row)]
    BY <2>1 DEF Record
  <2> QED BY <1>6, <2>2 DEF Route
<1>7. ASSUME NEW r \in Runs, SavePrompt(r) PROVE StoreOK'
  <2>1. [session |-> mine[r], role |-> "user"] \in Row
    BY <1>7 DEF SavePrompt, StageShape, StageOf, Prepared, LocalsOK, Row
  <2> QED BY <1>7, <2>1 DEF SavePrompt, Record
<1>8. ASSUME NEW r \in Runs, PersistExchange(r) PROVE StoreOK'
  <2>1. [session |-> mine[r], role |-> "exchange"] \in Row
    BY <1>8 DEF PersistExchange, StageShape, StageOf, Prepared, LocalsOK, Row
  <2> QED BY <1>8, <2>1 DEF PersistExchange, Record
<1>9. ASSUME NEW r \in Runs, StoreReply(r) PROVE StoreOK'
  <2>1. [session |-> mine[r], role |-> "assistant"] \in Row
    BY <1>9 DEF StoreReply, StageShape, StageOf, Prepared, LocalsOK, Row
  <2> QED BY <1>9, <2>1 DEF StoreReply, Record
<1>10. CASE UNCHANGED vars
  BY <1>10 DEF vars, ident, store, locals
<1> QED BY <1>1, <1>2, <1>3, <1>4, <1>5, <1>6, <1>7, <1>8, <1>9, <1>10 DEF Next, Step, Runs

\* Types.
LEMMA LocalsKept ==
  TypeOK /\ StageShape /\ [Next]_vars => LocalsOK'
<1> SUFFICES ASSUME TypeOK /\ StageShape, [Next]_vars PROVE LocalsOK'
  OBVIOUS
<1> USE BoundsAssumption DEF TypeOK, LocalsOK, Stages, Replies
<1>1. ASSUME NEW r \in Messages, Receive(r) PROVE LocalsOK'
  <2>1. CASE \E k \in Kinds, a \in Addresses, s \in Senders : Stay(r, "lookup") /\ Start(r, k, a, s)
    BY <2>1 DEF Stay, Goto, Start, StoreOK, store, locals
  <2>2. CASE Return(r, "error") /\ UNCHANGED <<clock, mine, step>>
    <3> HIDE DEF TypeOK, LocalsOK
    <3> QED BY <2>2, ReturnTypes DEF Runs
  <2> QED BY <1>1, <2>1, <2>2 DEF Receive, Start, Kinds, store
<1>2. ASSUME NEW r \in Jobs, Fire(r) PROVE LocalsOK'
  BY <1>2 DEF Fire, Start, Stay, Goto, ident, store, locals, StoreOK
<1>3. ASSUME NEW r \in Runs, StatementFails(r) PROVE LocalsOK'
  <2>1. Return(r, "error") /\ UNCHANGED <<clock, mine, step>>
    BY <1>3 DEF StatementFails, store
  <2> HIDE DEF TypeOK, LocalsOK
  <2> QED BY <2>1, ReturnTypes
<1>4. ASSUME NEW r \in Runs, FindSession(r) PROVE LocalsOK'
  <2>1. addr[r] \in Addresses
    BY DEF IdentOK
  <2>2. SessionFor(addr[r]) \in 0..clock
    BY <2>1, Lookup
  <2> QED BY <1>4, <2>2 DEF FindSession, Goto, store, locals
<1>5. ASSUME NEW r \in Runs, StampSession(r) PROVE LocalsOK'
  <2>1. mine' \in [Runs -> 0..clock'] /\ stamp' \in [Runs -> 0..clock']
    <3>1. clock \in Nat /\ clock' = clock + 1 /\ stamp' = [stamp EXCEPT ![r] = clock + 1]
          /\ mine' = mine
      BY <1>5 DEF StampSession, StoreOK
    <3>2. 0..clock \subseteq 0..clock' /\ clock + 1 \in 0..clock'
      BY <3>1
    <3> QED BY <3>1, <3>2
  <2> QED BY <1>5, <2>1 DEF StampSession, Goto
<1>6. ASSUME NEW r \in Runs, InsertSession(r) PROVE LocalsOK'
  BY <1>6 DEF InsertSession, Goto, ident, store, locals
<1>7. ASSUME NEW r \in Runs, Route(r) PROVE LocalsOK'
  BY <1>7 DEF Route, Record, Goto, ident, store, locals
<1>8. ASSUME NEW r \in Runs, Assemble(r) PROVE LocalsOK'
  <2>1. RowsOf(mine[r]) \subseteq Runs \X Nat
    <3>1. \A x \in Runs : DOMAIN log[x] \subseteq Nat
      BY DEF StoreOK
    <3> QED BY <3>1 DEF RowsOf, Rows
  <2> QED BY <1>8, <2>1 DEF Assemble, Goto, store
<1>9. ASSUME NEW r \in Runs, SavePrompt(r) PROVE LocalsOK'
  BY <1>9 DEF SavePrompt, Record, NextIteration, Goto, ident, store, locals
<1>10. ASSUME NEW r \in Runs, ModelRetries(r) PROVE LocalsOK'
  BY <1>10 DEF ModelRetries, ident, store, locals
<1>11. ASSUME NEW r \in Runs, ModelFails(r) PROVE LocalsOK'
  BY <1>11 DEF ModelFails, Goto, ident, store, locals
<1>12. ASSUME NEW r \in Runs, ModelAnswers(r) PROVE LocalsOK'
  BY <1>12 DEF ModelAnswers, Goto, ident, store, locals
<1>13. ASSUME NEW r \in Runs, ModelCallsTools(r) PROVE LocalsOK'
  BY <1>13 DEF ModelCallsTools, Goto, ident, store, locals
<1>14. ASSUME NEW r \in Runs, OtherTool(r) PROVE LocalsOK'
  BY <1>14 DEF OtherTool, ToolReturns, Goto, ident, store, locals, StageShape, StageOf
<1>15. ASSUME NEW r \in Runs, SendUserMessage(r) PROVE LocalsOK'
  <2>1. pc' \in [Runs -> Stages] /\ left' \in [Runs -> 0..MaxBatch]
    BY <1>15 DEF SendUserMessage, ToolReturns, Goto, StageShape, StageOf
  <2>2. told' \in [Runs -> BOOLEAN]
    BY <1>15 DEF SendUserMessage
  <2> QED BY <1>15, <2>1, <2>2 DEF SendUserMessage, store
<1>16. ASSUME NEW r \in Runs, PersistExchange(r) PROVE LocalsOK'
  <2>1. step' \in [Runs -> 0..MaxIterations]
    BY <1>16 DEF PersistExchange, StageShape, StageOf
  <2>2. pc' \in [Runs -> Stages] /\ reply' \in [Runs -> Replies]
    BY <1>16 DEF PersistExchange, NextIteration, Goto
  <2> QED BY <1>16, <2>1, <2>2 DEF PersistExchange
<1>17. ASSUME NEW r \in Runs, PersistFails(r) PROVE LocalsOK'
  BY <1>17 DEF PersistFails, Faulty, Goto, ident, store, locals
<1>18. ASSUME NEW r \in Runs, StoreReply(r) PROVE LocalsOK'
  BY <1>18 DEF StoreReply, Record, Goto, ident, store, locals
<1>19. ASSUME NEW r \in Runs, SendReply(r) PROVE LocalsOK'
  <2> HIDE DEF TypeOK, LocalsOK
  <2> QED BY <1>19, ReturnTypes DEF SendReply, store
<1>20. ASSUME NEW r \in Runs, NotifyOwner(r) PROVE LocalsOK'
  <2> HIDE DEF TypeOK, LocalsOK
  <2> QED BY <1>20, ReturnTypes DEF NotifyOwner, store
<1>21. CASE UNCHANGED vars
  BY <1>21 DEF vars, ident, store, locals
<1> QED BY <1>1, <1>2, <1>3, <1>4, <1>5, <1>6, <1>7, <1>8, <1>9, <1>10, <1>11, <1>12,
          <1>13, <1>14, <1>15, <1>16, <1>17, <1>18, <1>19, <1>20, <1>21 DEF Next, Step, Runs

\* Types.
LEMMA OutcomeKept ==
  TypeOK /\ [Next]_vars => OutcomeOK'
<1> SUFFICES ASSUME TypeOK, [Next]_vars PROVE OutcomeOK'
  OBVIOUS
<1> USE BoundsAssumption DEF TypeOK, OutcomeOK
<1>1. ASSUME NEW r \in Messages, Receive(r) PROVE OutcomeOK'
  <2>1. UNCHANGED <<outbox, faults>>
    BY <1>1 DEF Receive, Start
  <2>2. result' \in [Runs -> {"none", "ok", "error"}]
    BY <1>1 DEF Receive, Stay, Return
  <2> QED BY <2>1, <2>2
<1>2. ASSUME NEW r \in Jobs, Fire(r) PROVE OutcomeOK'
  BY <1>2 DEF Fire, Start, Stay, Goto, ident, store, locals
<1>3. ASSUME NEW r \in Runs, StatementFails(r) PROVE OutcomeOK'
  BY <1>3 DEF StatementFails, Faulty, Return, Goto, ident, store, locals
<1>4. ASSUME NEW r \in Runs,
          FindSession(r) \/ StampSession(r) \/ InsertSession(r) \/ Route(r)
          \/ Assemble(r) \/ SavePrompt(r) \/ ModelRetries(r) \/ ModelFails(r)
          \/ ModelAnswers(r) \/ ModelCallsTools(r) \/ OtherTool(r)
          \/ PersistExchange(r) \/ StoreReply(r)
       PROVE OutcomeOK'
  BY <1>4 DEF FindSession, StampSession, InsertSession, Route, Assemble, SavePrompt,
    ModelRetries, ModelFails, ModelAnswers, ModelCallsTools, OtherTool, PersistExchange,
    StoreReply
<1>5. ASSUME NEW r \in Runs, SendUserMessage(r) PROVE OutcomeOK'
  BY <1>5 DEF SendUserMessage, ToolReturns, Goto, Deliver, Faulty, ident, store, locals
<1>6. ASSUME NEW r \in Runs, PersistFails(r) PROVE OutcomeOK'
  BY <1>6 DEF PersistFails, Faulty, Goto, ident, store, locals
<1>7. ASSUME NEW r \in Runs, SendReply(r) PROVE OutcomeOK'
  <2>1. [by |-> r, to |-> addr[r], what |-> "reply"]
          \in [by : Runs, to : Addresses, what : {"tool", "reply"}]
    BY DEF IdentOK
  <2>2. outbox' \subseteq [by : Runs, to : Addresses, what : {"tool", "reply"}]
    BY <1>7, <2>1 DEF SendReply, Deliver
  <2>3. result' \in [Runs -> {"none", "ok", "error"}] /\ faults' \in 0..MaxFaults
    BY <1>7 DEF SendReply, Return, Faulty
  <2> QED BY <2>2, <2>3
<1>8. ASSUME NEW r \in Runs, NotifyOwner(r) PROVE OutcomeOK'
  <2>1. [by |-> r, to |-> addr[r], what |-> "reply"]
          \in [by : Runs, to : Addresses, what : {"tool", "reply"}]
    BY DEF IdentOK
  <2>2. outbox' \subseteq [by : Runs, to : Addresses, what : {"tool", "reply"}]
    BY <1>8, <2>1 DEF NotifyOwner, Deliver
  <2>3. result' \in [Runs -> {"none", "ok", "error"}] /\ faults' \in 0..MaxFaults
    BY <1>8 DEF NotifyOwner, Return, Faulty
  <2> QED BY <2>2, <2>3
<1>9. CASE UNCHANGED vars
  BY <1>9 DEF vars, ident, store, locals
<1> QED BY <1>1, <1>2, <1>3, <1>4, <1>5, <1>6, <1>7, <1>8, <1>9 DEF Next, Step, Runs

-----------------------------------------------------------------------------
\* A step of the run r, and what such a step leaves of another run q.
Act(r) ==
  \/ r \in Messages /\ Receive(r)
  \/ r \in Jobs /\ Fire(r)
  \/ StatementFails(r)
  \/ Step(r)
Untouched(q) ==
  /\ pc'[q] = pc[q] /\ kind'[q] = kind[q] /\ addr'[q] = addr[q] /\ sender'[q] = sender[q]
  /\ notify'[q] = notify[q] /\ before'[q] = before[q] /\ logAt'[q] = logAt[q] /\ log'[q] = log[q]
  /\ mine'[q] = mine[q] /\ stamp'[q] = stamp[q] /\ prompt'[q] = prompt[q] /\ step'[q] = step[q]
  /\ attempt'[q] = attempt[q] /\ left'[q] = left[q] /\ told'[q] = told[q] /\ reply'[q] = reply[q]
  /\ result'[q] = result[q]
Functions ==
  /\ DOMAIN pc = Runs /\ DOMAIN kind = Runs /\ DOMAIN addr = Runs /\ DOMAIN sender = Runs
  /\ DOMAIN notify = Runs /\ DOMAIN before = Runs /\ DOMAIN logAt = Runs /\ DOMAIN log = Runs
  /\ DOMAIN mine = Runs /\ DOMAIN stamp = Runs /\ DOMAIN prompt = Runs /\ DOMAIN step = Runs
  /\ DOMAIN attempt = Runs /\ DOMAIN left = Runs /\ DOMAIN told = Runs /\ DOMAIN reply = Runs
  /\ DOMAIN result = Runs

LEMMA AllFunctions == ASSUME TypeOK PROVE Functions
BY DEF TypeOK, IdentOK, StoreOK, LocalsOK, OutcomeOK, Functions

\* A run changes nothing that belongs to another.
LEMMA Frame ==
  ASSUME TypeOK, NEW r \in Runs, Act(r), NEW q \in Runs, q # r
  PROVE  Untouched(q)
<1>f. Functions
  BY AllFunctions
<1> USE <1>f DEF Functions, Untouched
<1>1. CASE r \in Messages /\ Receive(r)
  BY <1>1 DEF Receive, Start, Stay, Return, Goto, ident, store, locals
<1>2. CASE r \in Jobs /\ Fire(r)
  BY <1>2 DEF Fire, Start, Stay, Goto, ident, store, locals
<1>3. CASE StatementFails(r)
  BY <1>3 DEF StatementFails, Faulty, Return, Goto, ident, store, locals
<1>4. CASE FindSession(r)
  BY <1>4 DEF FindSession, Goto, ident, store, locals
<1>5. CASE StampSession(r)
  BY <1>5 DEF StampSession, Goto, ident, store, locals
<1>6. CASE InsertSession(r)
  BY <1>6 DEF InsertSession, Goto, ident, store, locals
<1>7. CASE Route(r)
  BY <1>7 DEF Route, Record, Goto, ident, store, locals
<1>8. CASE Assemble(r)
  BY <1>8 DEF Assemble, Goto, ident, store, locals
<1>9. CASE SavePrompt(r)
  BY <1>9 DEF SavePrompt, Record, NextIteration, Goto, ident, store, locals
<1>10. CASE ModelRetries(r)
  BY <1>10 DEF ModelRetries, ident, store, locals
<1>11. CASE ModelFails(r)
  BY <1>11 DEF ModelFails, Goto, ident, store, locals
<1>12. CASE ModelAnswers(r)
  BY <1>12 DEF ModelAnswers, Goto, ident, store, locals
<1>13. CASE ModelCallsTools(r)
  BY <1>13 DEF ModelCallsTools, Goto, ident, store, locals
<1>14. CASE OtherTool(r)
  BY <1>14 DEF OtherTool, ToolReturns, Goto, ident, store, locals
<1>15. CASE SendUserMessage(r)
  BY <1>15 DEF SendUserMessage, ToolReturns, Goto, Deliver, Faulty, ident, store, locals
<1>16. CASE PersistExchange(r)
  BY <1>16 DEF PersistExchange, Record, NextIteration, Goto, ident, store, locals
<1>17. CASE PersistFails(r)
  BY <1>17 DEF PersistFails, Faulty, Goto, ident, store, locals
<1>18. CASE StoreReply(r)
  BY <1>18 DEF StoreReply, Record, Goto, ident, store, locals
<1>19. CASE SendReply(r)
  BY <1>19 DEF SendReply, Deliver, Return, Faulty, Goto, ident, store, locals
<1>20. CASE NotifyOwner(r)
  BY <1>20 DEF NotifyOwner, Deliver, Return, Faulty, Goto, ident, store, locals
<1> QED BY <1>1, <1>2, <1>3, <1>4, <1>5, <1>6, <1>7, <1>8, <1>9, <1>10, <1>11, <1>12,
          <1>13, <1>14, <1>15, <1>16, <1>17, <1>18, <1>19, <1>20 DEF Act, Step

\* How a run begins.
LEMMA Begins ==
  ASSUME TypeOK, NEW r \in Runs, (r \in Messages /\ Receive(r)) \/ (r \in Jobs /\ Fire(r))
  PROVE  /\ pc[r] = "idle" /\ UNCHANGED <<sessions, clock, log, mine, step, outbox, faults>>
         /\ kind'[r] \in Kinds /\ addr'[r] \in Addresses
         /\ before'[r] = {q \in Runs : pc[q] = "done"}
         /\ kind'[r] = "reset" => logAt'[r] = [q \in Runs |-> Len(log[q])]
         /\ r \in Jobs => kind'[r] = "text" /\ (OpenTo = {} \/ addr'[r] \in OpenTo)
         /\ \/ pc'[r] = "lookup" /\ UNCHANGED <<result, locals>>
               /\ (r \in Messages => IsAllowed(addr'[r], sender'[r]))
            \/ pc'[r] = "done" /\ Return(r, "error") /\ result'[r] = "error" /\ r \in Messages
               /\ ~IsAllowed(addr'[r], sender'[r])
<1>f. Functions
  BY AllFunctions
<1>1. PICK k \in Kinds, a \in Addresses, s \in Senders :
        /\ Start(r, k, a, s)
        /\ r \in Jobs => k = "text" /\ (OpenTo = {} \/ a \in OpenTo)
        /\ \/ Stay(r, "lookup") /\ (r \in Messages => IsAllowed(a, s))
           \/ Return(r, "error") /\ r \in Messages /\ ~IsAllowed(a, s)
  <2>1. CASE r \in Messages /\ Receive(r)
    BY <2>1, RunsAssumption DEF Receive, Kinds
  <2>2. CASE r \in Jobs /\ Fire(r)
    <3>1. PICK a \in {b \in Addresses : OpenTo = {} \/ b \in OpenTo} :
            Start(r, "text", a, Unknown) /\ Stay(r, "lookup")
      BY <2>2 DEF Fire
    <3>2. "text" \in Kinds /\ Unknown \in Senders /\ r \notin Messages
      BY <2>2, PolicyAssumption, RunsAssumption DEF Kinds
    <3> QED BY <3>1, <3>2
  <2> QED BY <2>1, <2>2
<1>2. pc[r] = "idle" /\ UNCHANGED <<sessions, clock, log, mine, step, outbox, faults>>
  BY <1>1 DEF Start, store
<1>3. kind'[r] = k /\ addr'[r] = a /\ sender'[r] = s
  BY <1>f, <1>1 DEF Start, Functions
<1>4. before'[r] = {q \in Runs : pc[q] = "done"}
  BY <1>f, <1>1 DEF Start, Functions
<1>5. kind'[r] = "reset" => logAt'[r] = [q \in Runs |-> Len(log[q])]
  BY <1>f, <1>1, <1>3 DEF Start, Functions
<1>6. Stay(r, "lookup") => pc'[r] = "lookup" /\ UNCHANGED <<result, locals>>
  BY <1>f DEF Stay, Goto, Functions
<1>7. Return(r, "error") => pc'[r] = "done" /\ result'[r] = "error"
  BY <1>f DEF Return, Goto, Functions
<1> QED BY <1>1, <1>2, <1>3, <1>4, <1>5, <1>6, <1>7

LEMMA TypesKept ==
  ASSUME TypeOK, StageShape, NEW r \in Runs, Act(r)
  PROVE  TypeOK' /\ Functions'
<1>1. [Next]_vars
  BY DEF Act, Next, Runs
<1>2. TypeOK'
  BY <1>1, IdentKept, StoreKept, LocalsKept, OutcomeKept DEF TypeOK
<1>3. Functions'
  BY <1>2 DEF TypeOK, IdentOK, StoreOK, LocalsOK, OutcomeOK, Functions
<1> QED BY <1>2, <1>3

\* One more row of a run; the older ones and those of other runs stay.
Appended(r, session, role) ==
  /\ Len(log'[r]) = Len(log[r]) + 1
  /\ \A i \in 1..Len(log[r]) : log'[r][i] = log[r][i]
  /\ log'[r][Len(log[r]) + 1] = [session |-> session, role |-> role]

LEMMA RecordAppends ==
  ASSUME TypeOK, NEW r \in Runs, NEW role \in {"user", "exchange", "assistant"},
         Record(r, role), mine[r] # 0
  PROVE  Appended(r, mine[r], role)
<1>1. log[r] \in Seq(Row) /\ DOMAIN log = Runs
  BY DEF TypeOK, StoreOK
<1>2. [session |-> mine[r], role |-> role] \in Row
  BY DEF TypeOK, StoreOK, LocalsOK, Row
<1>3. log'[r] = Append(log[r], [session |-> mine[r], role |-> role])
  BY <1>1 DEF Record
<1> HIDE DEF Row
<1> QED BY <1>1, <1>2, <1>3 DEF Appended

\* What a step may do to the log: nothing, or one row of its run.
LEMMA LogStep ==
  ASSUME TypeOK, StageShape, NEW r \in Runs, Act(r)
  PROVE  \/ log' = log
         \/ Appended(r, mine[r], "user") /\ (Route(r) \/ SavePrompt(r))
         \/ Appended(r, mine[r], "exchange") /\ PersistExchange(r)
         \/ Appended(r, mine[r], "assistant") /\ StoreReply(r)
<1>s. pc[r] \in Prepared \cup {"route"} => mine[r] # 0
  BY DEF StageShape, StageOf, TypeOK, StoreOK, LocalsOK
<1> USE DEF Prepared
<1>1. CASE Route(r)
  BY <1>s, <1>1, RecordAppends DEF Route
<1>2. CASE SavePrompt(r)
  BY <1>s, <1>2, RecordAppends DEF SavePrompt
<1>3. CASE PersistExchange(r)
  BY <1>s, <1>3, RecordAppends DEF PersistExchange
<1>4. CASE StoreReply(r)
  BY <1>s, <1>4, RecordAppends DEF StoreReply
<1>5. CASE (r \in Messages /\ Receive(r)) \/ (r \in Jobs /\ Fire(r))
  BY <1>5, Begins
<1>6. CASE StatementFails(r) \/ FindSession(r) \/ StampSession(r)
          \/ InsertSession(r) \/ Assemble(r) \/ ModelRetries(r) \/ ModelFails(r)
          \/ ModelAnswers(r) \/ ModelCallsTools(r) \/ OtherTool(r)
          \/ SendUserMessage(r) \/ PersistFails(r) \/ SendReply(r) \/ NotifyOwner(r)
  BY <1>6 DEF StatementFails, FindSession, StampSession, InsertSession, Assemble,
    ModelRetries, ModelFails, ModelAnswers, ModelCallsTools, OtherTool, SendUserMessage,
    PersistFails, SendReply, NotifyOwner, store
<1> QED BY <1>1, <1>2, <1>3, <1>4, <1>5, <1>6 DEF Act, Step

LEMMA RowsStay ==
  ASSUME TypeOK, StageShape, NEW r \in Runs, Act(r), NEW q \in Runs, NEW i \in DOMAIN log[q]
  PROVE  i \in DOMAIN log'[q] /\ log'[q][i] = log[q][i] /\ i \in 1..Len(log[q])
<1>1. /\ log[q] \in Seq(Row) /\ DOMAIN log[q] = 1..Len(log[q]) /\ Len(log[q]) \in Nat
      /\ TypeOK'
  BY TypesKept DEF TypeOK, StoreOK
<1>2. DOMAIN log'[q] = 1..Len(log'[q]) /\ Len(log'[q]) \in Nat
  BY <1>1 DEF TypeOK, StoreOK
<1>3. CASE log' = log
  BY <1>1, <1>3
<1>4. CASE log' # log /\ q = r
  <2>1. Len(log'[r]) = Len(log[r]) + 1 /\ \A j \in 1..Len(log[r]) : log'[r][j] = log[r][j]
    BY <1>4, LogStep DEF Appended
  <2> QED BY <1>1, <1>2, <1>4, <2>1
<1>5. CASE q # r
  BY <1>1, <1>5, Frame DEF Untouched
<1> QED BY <1>3, <1>4, <1>5

\* What a step may add to the sessions, the clock and the outbox.
LEMMA SharedStep ==
  ASSUME TypeOK, NEW r \in Runs, Act(r)
  PROVE  /\ \/ sessions' = sessions
            \/ /\ InsertSession(r)
               /\ sessions' = sessions \cup {[addr |-> addr[r], created |-> stamp[r], by |-> r]}
         /\ clock' \in Nat /\ clock <= clock'
         /\ \/ outbox' = outbox
            \/ SendUserMessage(r) /\ \E to \in Addresses : Deliver(r, to, "tool")
            \/ (SendReply(r) \/ NotifyOwner(r)) /\ Deliver(r, addr[r], "reply")
<1>c. clock \in Nat
  BY DEF TypeOK, StoreOK
<1> USE <1>c
<1>1. CASE StampSession(r)
  BY <1>1 DEF StampSession
<1>2. CASE InsertSession(r)
  BY <1>2 DEF InsertSession
<1>3. CASE SendUserMessage(r)
  BY <1>3 DEF SendUserMessage, store
<1>4. CASE SendReply(r)
  BY <1>4 DEF SendReply, store
<1>5. CASE NotifyOwner(r)
  BY <1>5 DEF NotifyOwner, store
<1>6. CASE (r \in Messages /\ Receive(r)) \/ (r \in Jobs /\ Fire(r))
  <2>1. UNCHANGED <<sessions, clock, outbox>>
    BY <1>6, Begins
  <2> QED BY <2>1
<1>7. CASE StatementFails(r) \/ FindSession(r) \/ Route(r) \/ Assemble(r)
          \/ SavePrompt(r) \/ ModelRetries(r) \/ ModelFails(r) \/ ModelAnswers(r)
          \/ ModelCallsTools(r) \/ OtherTool(r) \/ PersistExchange(r)
          \/ PersistFails(r) \/ StoreReply(r)
  BY <1>7 DEF StatementFails, FindSession, Route, Assemble, SavePrompt, ModelRetries,
    ModelFails, ModelAnswers, ModelCallsTools, OtherTool, PersistExchange, PersistFails,
    StoreReply, store
<1> QED BY <1>1, <1>2, <1>3, <1>4, <1>5, <1>6, <1>7 DEF Act, Step

\* The parts of the invariant.
LEMMA Parts ==
  ASSUME IndInv
  PROVE  /\ TypeOK /\ StageShape /\ Functions /\ IsFiniteSet(sessions)
         /\ \A q \in Runs : RunInv(q)
         /\ SeenWasStored /\ PolicyHolds /\ SplitOnlyAtFirstContact /\ OwnerIsToldOnce
BY AllFunctions DEF IndInv, RunInv, StageShape

LEMMA PartsOf ==
  ASSUME IndInv, NEW r \in Runs
  PROVE  /\ StageOf(r) /\ RowsAt(r) /\ PastOf(r) /\ SessionOf(r) /\ ContactOf(r)
         /\ ResetOf(r) /\ PromptOf(r) /\ ToldOf(r)
         /\ mine[r] \in 0..clock /\ stamp[r] \in 0..clock /\ clock \in Nat /\ left[r] \in Nat
         /\ step[r] \in Nat /\ addr[r] \in Addresses /\ kind[r] \in Kinds
         /\ r \in Messages <=> r \notin Jobs
BY RunsAssumption, BoundsAssumption, Parts
   DEF RunInv, TypeOK, StoreOK, LocalsOK, IdentOK, Runs

\* A run under way keeps what it began with, and one that returned does not move.
LEMMA UnderWay ==
  ASSUME IndInv, NEW r \in Runs, Act(r)
  PROVE  /\ pc[r] # "done" /\ pc'[r] # "idle" /\ result[r] = "none"
         /\ pc[r] # "idle" => UNCHANGED ident
         /\ pc[r] = "idle" => (r \in Messages /\ Receive(r)) \/ (r \in Jobs /\ Fire(r))
<1>f. Functions /\ TypeOK /\ StageOf(r)
  BY Parts, PartsOf
<1> USE <1>f DEF Functions, StageOf
<1>1. CASE (r \in Messages /\ Receive(r)) \/ (r \in Jobs /\ Fire(r))
  BY <1>f, <1>1, Begins DEF StageOf
<1>2. CASE StatementFails(r)
  BY <1>2 DEF StatementFails, Faulty, Return, Goto, ident, store, locals
<1>3. CASE FindSession(r)
  BY <1>3 DEF FindSession, Goto, ident, store, locals
<1>4. CASE StampSession(r)
  BY <1>4 DEF StampSession, Goto, ident, store, locals
<1>5. CASE InsertSession(r)
  BY <1>5 DEF InsertSession, Goto, ident, store, locals
<1>6. CASE Route(r)
  BY <1>6 DEF Route, Goto, ident, store, locals
<1>7. CASE Assemble(r)
  BY <1>7 DEF Assemble, Goto, ident, store, locals
<1>8. CASE SavePrompt(r)
  BY <1>8 DEF SavePrompt, NextIteration, Goto, ident, store, locals
<1>9. CASE ModelRetries(r)
  BY <1>9 DEF ModelRetries, ident, store, locals
<1>10. CASE ModelFails(r)
  BY <1>10 DEF ModelFails, Goto, ident, store, locals
<1>11. CASE ModelAnswers(r)
  BY <1>11 DEF ModelAnswers, Goto, ident, store, locals
<1>12. CASE ModelCallsTools(r)
  BY <1>12 DEF ModelCallsTools, Goto, ident, store, locals
<1>13. CASE OtherTool(r)
  BY <1>13 DEF OtherTool, ToolReturns, Goto, ident, store, locals
<1>14. CASE SendUserMessage(r)
  BY <1>14 DEF SendUserMessage, ToolReturns, Goto, Faulty, ident, store, locals
<1>15. CASE PersistExchange(r)
  BY <1>15 DEF PersistExchange, NextIteration, Goto, ident, store, locals
<1>16. CASE PersistFails(r)
  BY <1>16 DEF PersistFails, Faulty, Goto, ident, store, locals
<1>17. CASE StoreReply(r)
  BY <1>17 DEF StoreReply, Goto, ident, store, locals
<1>18. CASE SendReply(r)
  BY <1>18 DEF SendReply, Return, Faulty, Goto, ident, store, locals
<1>19. CASE NotifyOwner(r)
  BY <1>19 DEF NotifyOwner, Return, Faulty, Goto, ident, store, locals
<1> QED BY <1>1, <1>2, <1>3, <1>4, <1>5, <1>6, <1>7, <1>8, <1>9, <1>10, <1>11, <1>12,
          <1>13, <1>14, <1>15, <1>16, <1>17, <1>18, <1>19 DEF Act, Step

LEMMA DoneStays ==
  ASSUME IndInv, NEW r \in Runs, Act(r), NEW q \in Runs, pc[q] = "done"
  PROVE  Untouched(q) /\ q # r
BY Parts, UnderWay, Frame

\* What a run holds at each await.
LEMMA StageStep ==
  ASSUME IndInv, NEW r \in Runs, Act(r)
  PROVE  StageOf(r)'
<1>f. Functions /\ TypeOK /\ StageOf(r) /\ (pc[r] = "save" => step[r] = 0)
  BY Parts, PartsOf DEF RowsAt
<1>t. /\ mine[r] \in 0..clock /\ stamp[r] \in 0..clock /\ clock \in Nat /\ left[r] \in Nat
      /\ step[r] \in Nat /\ addr[r] \in Addresses /\ kind[r] \in Kinds
      /\ r \in Messages <=> r \notin Jobs
  BY PartsOf
<1> USE <1>f, <1>t, BoundsAssumption DEF Functions, StageOf, Prepared, Kinds
<1>1. CASE (r \in Messages /\ Receive(r)) \/ (r \in Jobs /\ Fire(r))
  BY <1>1, Begins DEF locals, Return, Goto
<1>2. CASE StatementFails(r)
  BY <1>2 DEF StatementFails, Faulty, Return, Goto, ident, store, locals
<1>3. CASE FindSession(r)
  <2>1. SessionFor(addr[r]) \in 0..clock
    BY <1>f, <1>t, Lookup
  <2> QED BY <1>3, <2>1 DEF FindSession, Goto, ident, store, locals
<1>4. CASE StampSession(r)
  BY <1>4 DEF StampSession, Goto, ident, store, locals
<1>5. CASE InsertSession(r)
  BY <1>5 DEF InsertSession, Goto, ident, store, locals
<1>6. CASE Route(r)
  BY <1>6 DEF Route, Goto, ident, store, locals
<1>7. CASE Assemble(r)
  BY <1>7 DEF Assemble, Goto, ident, store, locals
<1>8. CASE SavePrompt(r)
  BY <1>8 DEF SavePrompt, NextIteration, Goto, ident, store, locals
<1>9. CASE ModelRetries(r)
  BY <1>9 DEF ModelRetries, ident, store, locals
<1>10. CASE ModelFails(r)
  BY <1>10 DEF ModelFails, Goto, ident, store, locals
<1>11. CASE ModelAnswers(r)
  BY <1>11 DEF ModelAnswers, Goto, ident, store, locals
<1>12. CASE ModelCallsTools(r)
  BY <1>12 DEF ModelCallsTools, Goto, ident, store, locals
<1>13. CASE OtherTool(r)
  BY <1>13 DEF OtherTool, ToolReturns, Goto, ident, store, locals
<1>14. CASE SendUserMessage(r)
  BY <1>14 DEF SendUserMessage, ToolReturns, Goto, Deliver, Faulty, ident, store, locals
<1>15. CASE PersistExchange(r)
  BY <1>15 DEF PersistExchange, NextIteration, Goto, ident, store, locals
<1>16. CASE PersistFails(r)
  BY <1>16 DEF PersistFails, Faulty, Goto, ident, store, locals
<1>17. CASE StoreReply(r)
  BY <1>17 DEF StoreReply, Goto, ident, store, locals
<1>18. CASE SendReply(r)
  BY <1>18 DEF SendReply, Deliver, Return, Faulty, Goto, ident, store, locals
<1>19. CASE NotifyOwner(r)
  BY <1>19 DEF NotifyOwner, Deliver, Return, Faulty, Goto, ident, store, locals
<1> QED BY <1>1, <1>2, <1>3, <1>4, <1>5, <1>6, <1>7, <1>8, <1>9, <1>10, <1>11, <1>12,
          <1>13, <1>14, <1>15, <1>16, <1>17, <1>18, <1>19 DEF Act, Step

LEMMA StageKept ==
  ASSUME IndInv, NEW r \in Runs, Act(r), NEW q \in Runs
  PROVE  StageOf(q)'
<1>1. CASE q = r
  BY <1>1, StageStep
<1>2. CASE q # r
  <2>1. Untouched(q) /\ StageOf(q)
    BY <1>2, Parts, PartsOf, Frame
  <2> QED BY <2>1 DEF StageOf, Untouched, IsAllowed
<1> QED BY <1>1, <1>2

\* What a row of each role makes of a run's rows.
LEMMA RowAdded ==
  ASSUME TypeOK, TypeOK', NEW r \in Runs, NEW role \in {"user", "exchange", "assistant"},
         Appended(r, mine[r], role), InSession(r), mine'[r] = mine[r]
  PROVE  /\ InSession(r)'
         /\ log[r] = <<>> /\ role = "user" /\ step'[r] = 0 => Open(r)'
         /\ Open(r) /\ role = "exchange" /\ step'[r] = step[r] + 1 => Open(r)'
         /\ Open(r) /\ role = "assistant" /\ step'[r] = step[r] => Closed(r)'
<1>1. /\ DOMAIN log[r] = 1..Len(log[r]) /\ Len(log[r]) \in Nat
      /\ DOMAIN log'[r] = 1..Len(log'[r]) /\ Len(log'[r]) \in Nat
      /\ log[r] = <<>> => Len(log[r]) = 0
  BY DEF TypeOK, StoreOK
<1>2. step[r] \in Nat
  BY BoundsAssumption DEF TypeOK, LocalsOK
<1>3. /\ Len(log'[r]) = Len(log[r]) + 1
      /\ \A i \in 1..Len(log[r]) : log'[r][i] = log[r][i]
      /\ log'[r][Len(log[r]) + 1].session = mine[r]
      /\ log'[r][Len(log[r]) + 1].role = role
  BY DEF Appended
<1>4. InSession(r)'
  BY <1>1, <1>3 DEF InSession
<1>5. log[r] = <<>> /\ role = "user" /\ step'[r] = 0 => Open(r)'
  BY <1>1, <1>3 DEF Open, Stored
<1>6. ASSUME Open(r), role = "exchange", step'[r] = step[r] + 1 PROVE Open(r)'
  <2>1. Len(log[r]) = step[r] + 1 /\ Len(log'[r]) = step'[r] + 1
    BY <1>1, <1>2, <1>3, <1>6 DEF Open
  <2>2. ASSUME NEW i \in 1..(step'[r] + 1)
        PROVE  log'[r][i].role = IF i = 1 THEN "user" ELSE "exchange"
    <3>1. CASE i = step[r] + 2
      BY <1>2, <1>3, <1>6, <2>1, <3>1
    <3>2. CASE i # step[r] + 2
      <4>1. i \in 1..(step[r] + 1) /\ log'[r][i] = log[r][i]
        BY <1>2, <1>3, <1>6, <2>1, <3>2
      <4>2. log[r][i].role = IF i = 1 THEN "user" ELSE "exchange"
        BY <1>6, <4>1 DEF Open, Stored
      <4> QED BY <4>1, <4>2
    <3> QED BY <3>1, <3>2
  <2>3. Len(log'[r]) >= step'[r] + 1
    BY <1>2, <1>6, <2>1
  <2> QED BY <2>1, <2>2, <2>3 DEF Open, Stored
<1>7. ASSUME Open(r), role = "assistant", step'[r] = step[r] PROVE Closed(r)'
  <2>1. Len(log[r]) = step[r] + 1 /\ Len(log'[r]) = step'[r] + 2
    BY <1>1, <1>2, <1>3, <1>7 DEF Open
  <2>2. \A i \in 1..(step'[r] + 1) : log'[r][i] = log[r][i]
    BY <1>3, <1>7, <2>1
  <2>3. Stored(r, step[r] + 1)'
    <3>1. \A i \in 1..(step'[r] + 1) : log'[r][i].role = IF i = 1 THEN "user" ELSE "exchange"
      BY <1>7, <2>2 DEF Open, Stored
    <3>2. Len(log'[r]) >= step'[r] + 1
      BY <1>2, <1>7, <2>1
    <3> QED BY <3>1, <3>2 DEF Stored
  <2>4. log'[r][step'[r] + 2].role = "assistant"
    BY <1>2, <1>3, <1>7, <2>1
  <2> QED BY <1>7, <2>1, <2>3, <2>4 DEF Closed
<1> QED BY <1>4, <1>5, <1>6, <1>7

LEMMA SameRows ==
  ASSUME NEW q \in Runs, log'[q] = log[q], step'[q] = step[q]
  PROVE  /\ Open(q)' <=> Open(q)
         /\ Closed(q)' <=> Closed(q)
         /\ mine'[q] = mine[q] => (InSession(q)' <=> InSession(q))
BY DEF Open, Closed, Stored, InSession

LEMMA RowsStep ==
  ASSUME IndInv, NEW r \in Runs, Act(r)
  PROVE  RowsAt(r)'
<1>f. Functions /\ TypeOK /\ TypeOK' /\ StageShape /\ StageOf(r) /\ StageOf(r)' /\ RowsAt(r)
  BY Parts, PartsOf, StageStep, TypesKept
<1>n. log[r] = <<>> => InSession(r)
  BY DEF InSession
<1>t. /\ mine[r] \in 0..clock /\ stamp[r] \in 0..clock /\ clock \in Nat /\ step[r] \in Nat
      /\ r \in Messages <=> r \notin Jobs
  BY PartsOf
<1>e. Open(r) => log[r] # <<>>
  BY <1>t DEF Open
<1>l. log[r] = <<>> /\ log'[r] = log[r] => InSession(r)'
  BY DEF InSession
<1>1. CASE Route(r)
  <2>1. \/ Appended(r, mine[r], "user") /\ UNCHANGED <<step, mine>> /\ kind[r] = "reset"
        \/ UNCHANGED <<log, step, mine>> /\ kind[r] # "reset"
    <3>1. pc[r] = "route" /\ mine[r] # 0 /\ UNCHANGED <<step, mine>>
      BY <1>f, <1>t, <1>1 DEF Route, StageOf
    <3>2. CASE kind[r] = "reset"
      <4>1. Record(r, "user")
        BY <1>1, <3>2 DEF Route
      <4>2. Appended(r, mine[r], "user")
        BY <1>f, <3>1, <4>1, RecordAppends
      <4> QED BY <3>1, <3>2, <4>2
    <3>3. CASE kind[r] # "reset"
      BY <1>1, <3>1, <3>3 DEF Route
    <3> QED BY <3>2, <3>3
  <2>2. pc[r] = "route" /\ pc'[r] = IF kind[r] = "reset" THEN "stamp" ELSE "assemble"
    BY <1>f, <1>1 DEF Route, Goto, Functions
  <2> QED BY <1>f, <1>t, <2>1, <2>2, RowAdded, SameRows DEF RowsAt, Searching, StageOf
<1>2. CASE SavePrompt(r)
  <2>1. Appended(r, mine[r], "user") /\ UNCHANGED <<step, mine>>
    BY <1>f, <1>t, <1>2, RecordAppends DEF SavePrompt, StageOf, Prepared
  <2>2. pc[r] = "save" /\ pc'[r] \in {"model", "reply"} \cup (IF r \in Jobs THEN {"send"} ELSE {})
    BY <1>f, <1>2 DEF SavePrompt, NextIteration, Goto, Functions
  <2> QED BY <1>f, <1>t, <2>1, <2>2, RowAdded DEF RowsAt, Searching
<1>3. CASE PersistExchange(r)
  <2>1. Appended(r, mine[r], "exchange") /\ UNCHANGED mine /\ step'[r] = step[r] + 1
    BY <1>f, <1>t, <1>3, RecordAppends DEF PersistExchange, StageOf, Prepared, Functions
  <2>2. pc[r] = "persist" /\ pc'[r] \in {"model", "reply"} \cup (IF r \in Jobs THEN {"send"} ELSE {})
    BY <1>f, <1>3 DEF PersistExchange, NextIteration, Goto, Functions
  <2> QED BY <1>f, <1>t, <2>1, <2>2, RowAdded DEF RowsAt, Searching
<1>4. CASE StoreReply(r)
  <2>1. Appended(r, mine[r], "assistant") /\ UNCHANGED <<mine, step>>
    BY <1>f, <1>t, <1>4, RecordAppends DEF StoreReply, StageOf, Prepared
  <2>2. pc[r] = "reply" /\ pc'[r] = "send"
    BY <1>f, <1>4 DEF StoreReply, Goto, Functions
  <2> QED BY <1>f, <1>t, <2>1, <2>2, RowAdded DEF RowsAt, Searching
<1>5. CASE (r \in Messages /\ Receive(r)) \/ (r \in Jobs /\ Fire(r))
  <2>1. pc[r] = "idle" /\ UNCHANGED <<log, mine, step>> /\ pc'[r] \in {"lookup", "done"}
    BY <1>f, <1>5, Begins
  <2> QED BY <1>f, <2>1, SameRows DEF RowsAt, Searching, StageOf
<1>6. CASE StatementFails(r)
  <2>1. UNCHANGED <<log, mine, step>> /\ pc'[r] = "done"
    BY <1>f, <1>6 DEF StatementFails, Return, Goto, Functions, store
  <2>2. pc[r] \in {"lookup", "insert", "route", "assemble", "save", "reply"}
    BY <1>6 DEF StatementFails
  <2> QED BY <1>f, <2>1, <2>2, SameRows DEF RowsAt, Searching
<1>7. CASE FindSession(r)
  <2>1. UNCHANGED <<log, step>> /\ pc[r] = "lookup" /\ pc'[r] \in {"stamp", "assemble", "route"}
    BY <1>f, <1>7 DEF FindSession, Goto, Functions, store
  <2>2. pc'[r] = "stamp" => UNCHANGED mine
    BY <1>f, <1>7 DEF FindSession, Goto, Functions
  <2>3. log'[r] = <<>> /\ step'[r] = 0
    BY <1>f, <2>1 DEF RowsAt, Searching, StageOf
  <2> QED BY <1>f, <1>l, <2>1, <2>2, <2>3 DEF RowsAt, Searching, StageOf
<1>8. CASE StampSession(r)
  <2>1. UNCHANGED <<log, mine, step>> /\ pc[r] = "stamp" /\ pc'[r] = "insert"
    BY <1>f, <1>8 DEF StampSession, Goto, Functions
  <2> QED BY <1>f, <2>1, SameRows DEF RowsAt, Searching
<1>9. CASE InsertSession(r)
  <2>1. UNCHANGED <<log, step>> /\ pc[r] = "insert"
    BY <1>f, <1>9 DEF InsertSession, Goto, Functions
  <2>2. CASE mine[r] = 0
    <3>1. pc'[r] \in {"assemble", "route"} /\ log'[r] = <<>> /\ step'[r] = 0 /\ log'[r] = log[r]
      BY <1>f, <1>9, <2>1, <2>2 DEF InsertSession, Goto, Functions, RowsAt, Searching
    <3> QED BY <1>l, <3>1 DEF RowsAt, Searching
  <2>3. CASE mine[r] # 0
    <3>1. pc'[r] = "reply" /\ UNCHANGED mine
      BY <1>f, <1>9, <2>3 DEF InsertSession, Goto, Functions
    <3> QED BY <1>f, <2>1, <2>3, <3>1, SameRows DEF RowsAt, Searching
  <2> QED BY <2>2, <2>3
<1>10. CASE Assemble(r)
  <2>1. UNCHANGED <<log, mine, step>> /\ pc[r] = "assemble" /\ pc'[r] = "save"
    BY <1>f, <1>10 DEF Assemble, Goto, Functions, store
  <2> QED BY <1>f, <2>1, SameRows DEF RowsAt, Searching
<1>11. CASE ModelRetries(r) \/ ModelFails(r) \/ ModelAnswers(r)
          \/ ModelCallsTools(r) \/ OtherTool(r) \/ SendUserMessage(r)
          \/ PersistFails(r)
  <2>1. UNCHANGED <<log, mine, step>> /\ pc[r] \in {"model", "tools", "persist"}
    BY <1>11 DEF ModelRetries, ModelFails, ModelAnswers, ModelCallsTools, OtherTool,
      SendUserMessage, ToolReturns, PersistFails, store
  <2>2. pc'[r] \in {"model", "tools", "persist", "reply"} \cup (IF r \in Jobs THEN {"send"} ELSE {})
    BY <1>f, <1>11 DEF ModelRetries, ModelFails, ModelAnswers, ModelCallsTools, OtherTool,
      SendUserMessage, ToolReturns, PersistFails, Goto, Functions
  <2> QED BY <1>f, <2>1, <2>2, SameRows DEF RowsAt, Searching
<1>12. CASE SendReply(r) \/ NotifyOwner(r)
  <2>1. UNCHANGED <<log, mine, step>> /\ pc[r] = "send" /\ pc'[r] = "done"
    BY <1>f, <1>12 DEF SendReply, NotifyOwner, Return, Goto, Functions, store
  <2> QED BY <1>f, <2>1, SameRows DEF RowsAt, Searching
<1> QED BY <1>1, <1>2, <1>3, <1>4, <1>5, <1>6, <1>7, <1>8, <1>9, <1>10, <1>11, <1>12 DEF Act, Step

LEMMA RowsKept ==
  ASSUME IndInv, NEW r \in Runs, Act(r), NEW q \in Runs
  PROVE  RowsAt(q)'
<1>1. CASE q = r
  BY <1>1, RowsStep
<1>2. CASE q # r
  <2>1. Untouched(q) /\ RowsAt(q)
    BY <1>2, Parts, PartsOf, Frame
  <2> QED BY <2>1, SameRows DEF RowsAt, Untouched
<1> QED BY <1>1, <1>2

\* Runs that had returned stay so; what a run has left is of its making.
LEMMA PastKept ==
  ASSUME IndInv, NEW r \in Runs, Act(r), NEW q \in Runs
  PROVE  PastOf(q)'
<1>f. TypeOK /\ PastOf(q) /\ PastOf(r)
  BY Parts, PartsOf
<1>1. \A x \in Runs : pc[x] = "done" => pc'[x] = "done"
  BY DoneStays DEF Untouched
<1>2. before'[q] \subseteq {x \in Runs : pc'[x] = "done"}
  <2>1. CASE q = r /\ pc[r] = "idle"
    <3>1. (r \in Messages /\ Receive(r)) \/ (r \in Jobs /\ Fire(r))
      BY <2>1, UnderWay
    <3>2. before'[r] = {x \in Runs : pc[x] = "done"}
      BY <1>f, <3>1, Begins
    <3> QED BY <1>1, <2>1, <3>2
  <2>2. CASE q = r /\ pc[r] # "idle"
    <3>1. before' = before
      BY <2>2, UnderWay DEF ident
    <3> QED BY <1>f, <1>1, <3>1 DEF PastOf
  <2>3. CASE q # r
    BY <1>f, <1>1, <2>3, Frame DEF PastOf, Untouched
  <2> QED BY <2>1, <2>2, <2>3
<1>3. CASE pc'[q] = "idle"
  <2>1. q # r /\ pc[q] = "idle" /\ before'[q] = before[q]
    BY <1>f, <1>3, UnderWay, Frame DEF Untouched
  <2>2. \A s \in sessions' : s.by # q
    BY <1>f, <2>1, SharedStep DEF PastOf
  <2>3. \A m \in outbox' : m.by # q
    BY <1>f, <2>1, SharedStep DEF PastOf, Deliver
  <2> QED BY <1>f, <1>2, <2>1, <2>2, <2>3 DEF PastOf
<1> QED BY <1>2, <1>3 DEF PastOf

\* Where a run comes from that is about to stamp or insert a session.
LEMMA StampsFrom ==
  ASSUME Functions, NEW r \in Runs, Act(r), pc[r] # "idle", pc'[r] \in {"stamp", "insert"}
  PROVE  FindSession(r) \/ StampSession(r) \/ Route(r)
<1>1. CASE FindSession(r)
  BY <1>1
<1>2. CASE StampSession(r)
  BY <1>2
<1>3. CASE Route(r)
  BY <1>3
<1>4. CASE (r \in Messages /\ Receive(r)) \/ (r \in Jobs /\ Fire(r))
  BY <1>4 DEF Receive, Fire, Start
<1>5. CASE StatementFails(r) \/ SendReply(r) \/ NotifyOwner(r)
  BY <1>5 DEF StatementFails, SendReply, NotifyOwner, Return, Goto, Functions
<1>6. CASE InsertSession(r)
  BY <1>6 DEF InsertSession, Goto, Functions
<1>7. CASE SavePrompt(r) \/ PersistExchange(r)
  BY <1>7 DEF SavePrompt, PersistExchange, NextIteration, Goto, Functions
<1>8. CASE Assemble(r) \/ ModelRetries(r) \/ ModelFails(r) \/ ModelAnswers(r)
          \/ ModelCallsTools(r) \/ OtherTool(r) \/ SendUserMessage(r)
          \/ PersistFails(r) \/ StoreReply(r)
  BY <1>8 DEF Assemble, ModelRetries, ModelFails, ModelAnswers, ModelCallsTools, OtherTool,
    SendUserMessage, ToolReturns, PersistFails, StoreReply, Goto, Functions
<1> QED BY <1>1, <1>2, <1>3, <1>4, <1>5, <1>6, <1>7, <1>8 DEF Act, Step

\* A run's session changes where it is found and where it is inserted.
LEMMA MineStep ==
  ASSUME IndInv, NEW r \in Runs, Act(r)
  PROVE  FindSession(r) \/ InsertSession(r) \/ UNCHANGED mine
<1>1. CASE FindSession(r)
  BY <1>1
<1>2. CASE InsertSession(r)
  BY <1>2
<1>3. CASE (r \in Messages /\ Receive(r)) \/ (r \in Jobs /\ Fire(r))
  BY <1>3, Parts, Begins
<1>4. CASE StatementFails(r) \/ StampSession(r) \/ Route(r) \/ Assemble(r)
          \/ SavePrompt(r) \/ ModelRetries(r) \/ ModelFails(r) \/ ModelAnswers(r)
          \/ ModelCallsTools(r) \/ OtherTool(r) \/ SendUserMessage(r)
          \/ PersistExchange(r) \/ PersistFails(r) \/ StoreReply(r) \/ SendReply(r)
          \/ NotifyOwner(r)
  BY <1>4 DEF StatementFails, StampSession, Route, Assemble, SavePrompt, ModelRetries,
    ModelFails, ModelAnswers, ModelCallsTools, OtherTool, SendUserMessage, PersistExchange,
    PersistFails, StoreReply, SendReply, NotifyOwner
<1> QED BY <1>1, <1>2, <1>3, <1>4 DEF Act, Step

\* A run's session is one of its conversation.
LEMMA SessionKept ==
  ASSUME IndInv, NEW r \in Runs, Act(r), NEW q \in Runs
  PROVE  SessionOf(q)'
<1>f. Functions /\ TypeOK /\ SessionOf(q) /\ sessions \subseteq sessions'
  BY Parts, PartsOf, SharedStep
<1>t. clock \in Nat /\ mine[r] \in 0..clock /\ stamp[r] \in 0..clock /\ addr[r] \in Addresses
  BY PartsOf
<1>1. CASE q # r
  BY <1>f, <1>1, Frame DEF SessionOf, Untouched
<1>2. CASE q = r /\ pc[r] = "idle"
  <2>1. mine'[r] = 0
    BY <1>f, <1>2, UnderWay, Begins, PartsOf DEF StageOf
  <2> QED BY <1>2, <2>1 DEF SessionOf
<1>3. CASE q = r /\ pc[r] # "idle"
  <2>1. addr'[r] = addr[r]
    BY <1>3, UnderWay DEF ident
  <2>2. CASE UNCHANGED mine
    BY <1>f, <1>3, <2>1, <2>2 DEF SessionOf
  <2>3. CASE FindSession(r) /\ ~UNCHANGED mine
    <3>1. mine'[r] = SessionFor(addr[r]) /\ SessionFor(addr[r]) # 0
      BY <1>f, <2>3 DEF FindSession, Functions
    <3> QED BY <1>f, <1>t, <1>3, <2>1, <3>1, Lookup DEF SessionOf
  <2>4. CASE InsertSession(r) /\ ~UNCHANGED mine
    <3>1. mine'[r] = stamp[r]
      BY <1>f, <2>4 DEF InsertSession, Functions
    <3>2. [addr |-> addr[r], created |-> stamp[r], by |-> r] \in sessions'
      BY <2>4 DEF InsertSession
    <3> QED BY <1>3, <2>1, <3>1, <3>2 DEF SessionOf
  <2> QED BY <2>2, <2>3, <2>4, MineStep
<1> QED BY <1>1, <1>2, <1>3

\* A new session is not of a run that had returned.
LEMMA NewSession ==
  ASSUME IndInv, NEW r \in Runs, Act(r), NEW q \in Runs, NEW s \in sessions', s.by \in before'[q]
  PROVE  s \in sessions
<1>1. pc'[s.by] = "done"
  BY PastKept DEF PastOf
<1>2. CASE InsertSession(r) /\ s.by = r
  BY <1>1, <1>2, Parts DEF InsertSession, Goto, Functions
<1> QED BY <1>2, Parts, SharedStep

\* A first session is made only where those who had returned left none.
LEMMA ContactKept ==
  ASSUME IndInv, NEW r \in Runs, Act(r), NEW q \in Runs
  PROVE  ContactOf(q)'
<1> SUFFICES ASSUME NEW s \in sessions', s.addr = addr'[q], s.by \in before'[q]
             PROVE  /\ pc'[q] \in {"stamp", "insert"} => mine'[q] # 0
                    /\ mine'[q] # 0 => s.created <= mine'[q]
  BY DEF ContactOf
<1>f. Functions /\ TypeOK /\ ContactOf(q) /\ StageOf(q) /\ s \in sessions
  BY Parts, PartsOf, NewSession
<1>1. CASE q # r
  BY <1>f, <1>1, Frame DEF ContactOf, Untouched
<1>2. CASE q = r /\ pc[r] = "idle"
  BY <1>f, <1>2, UnderWay, Begins DEF StageOf
<1>3. CASE q = r /\ pc[r] # "idle"
  <2>1. UNCHANGED ident
    BY <1>3, UnderWay
  <2>2. /\ pc[r] \in {"stamp", "insert"} => mine[r] # 0
        /\ mine[r] # 0 => s.created <= mine[r]
    BY <1>f, <1>3, <2>1 DEF ContactOf, ident
  <2>3. CASE FindSession(r)
    <3>1. addr[r] \in Addresses /\ s.addr = addr[r]
      BY <1>3, <2>1, PartsOf DEF ident
    <3>2. SessionFor(addr[r]) # 0 /\ s.created <= SessionFor(addr[r])
      BY <1>f, <3>1, Lookup
    <3>3. mine'[r] = SessionFor(addr[r]) /\ pc'[r] \in {"assemble", "route"}
      BY <1>f, <2>3, <3>2 DEF FindSession, Goto, Functions
    <3> QED BY <1>3, <3>2, <3>3
  <2>4. CASE InsertSession(r)
    BY <1>f, <1>3, <2>2, <2>4 DEF InsertSession, Goto, Functions
  <2>5. CASE UNCHANGED mine /\ ~FindSession(r)
    <3>1. pc'[r] \in {"stamp", "insert"} => pc[r] \in {"stamp", "route"}
      BY <1>f, <1>3, <2>5, StampsFrom DEF StampSession, Route
    <3>2. pc[r] = "route" => mine[r] # 0
      BY <1>f, <1>3, PartsOf DEF StageOf, Prepared
    <3> QED BY <1>3, <2>2, <2>5, <3>1, <3>2
  <2> QED BY <2>3, <2>4, <2>5, MineStep
<1> QED BY <1>1, <1>2, <1>3

\* A reset gets to its reply by the insertion of its second session.
LEMMA RepliesFrom ==
  ASSUME Functions, NEW r \in Runs, Act(r), StageOf(r), kind[r] = "reset", pc[r] # "idle",
         pc[r] \notin {"reply", "send"}, pc'[r] \in {"reply", "send"} \/ result'[r] = "ok"
  PROVE  InsertSession(r) /\ mine[r] # 0
<1> USE DEF Functions, StageOf
<1>1. CASE InsertSession(r)
  BY <1>1 DEF InsertSession, Goto, ident, store, locals
<1>2. CASE (r \in Messages /\ Receive(r)) \/ (r \in Jobs /\ Fire(r))
  BY <1>2 DEF Receive, Fire, Start
<1>3. CASE StatementFails(r)
  BY <1>3 DEF StatementFails, Faulty, Return, Goto, ident, store, locals
<1>4. CASE FindSession(r)
  BY <1>4 DEF FindSession, Goto, ident, store, locals
<1>5. CASE StampSession(r)
  BY <1>5 DEF StampSession, Goto, ident, store, locals
<1>6. CASE Route(r)
  BY <1>6 DEF Route, Goto, ident, store, locals
<1>7. CASE Assemble(r) \/ SavePrompt(r)
  BY <1>7 DEF Assemble, SavePrompt
<1>8. CASE ModelRetries(r) \/ ModelFails(r) \/ ModelAnswers(r) \/ ModelCallsTools(r)
          \/ OtherTool(r) \/ SendUserMessage(r) \/ PersistExchange(r)
          \/ PersistFails(r)
  BY <1>8 DEF ModelRetries, ModelFails, ModelAnswers, ModelCallsTools, OtherTool,
    SendUserMessage, ToolReturns, PersistExchange, PersistFails
<1>9. CASE StoreReply(r) \/ SendReply(r) \/ NotifyOwner(r)
  BY <1>9 DEF StoreReply, SendReply, NotifyOwner
<1> QED BY <1>1, <1>2, <1>3, <1>4, <1>5, <1>6, <1>7, <1>8, <1>9 DEF Act, Step

\* Rows are written at the end: what a reset hides stays hidden.
LEMMA LogAtStays ==
  ASSUME IndInv, NEW r \in Runs, Act(r), NEW q \in Runs, pc[q] # "idle", kind[q] = "reset",
         NEW p \in Runs
  PROVE  /\ logAt'[q][p] = logAt[q][p] /\ logAt[q][p] \in Nat
         /\ logAt'[q][p] <= Len(log'[p])
         /\ \A i \in DOMAIN log'[p] : i <= logAt[q][p] =>
              i \in DOMAIN log[p] /\ log'[p][i] = log[p][i]
<1>1. logAt'[q] = logAt[q]
  BY Parts, UnderWay, Frame DEF Untouched, ident
<1>2. logAt[q][p] \in Nat /\ logAt[q][p] <= Len(log[p])
  BY Parts, PartsOf DEF TypeOK, IdentOK, ResetOf
<1>3. /\ DOMAIN log[p] = 1..Len(log[p]) /\ Len(log[p]) \in Nat
      /\ DOMAIN log'[p] = 1..Len(log'[p]) /\ Len(log'[p]) \in Nat
  BY Parts, TypesKept DEF TypeOK, StoreOK
<1>4. \A i \in 1..Len(log[p]) : i \in DOMAIN log'[p] /\ log'[p][i] = log[p][i]
  BY <1>3, Parts, RowsStay
<1>5. Len(log[p]) <= Len(log'[p])
  <2>1. CASE Len(log[p]) = 0
    BY <1>3, <2>1
  <2>2. CASE Len(log[p]) # 0
    <3>1. Len(log[p]) \in 1..Len(log[p])
      BY <1>3, <2>2
    <3> QED BY <1>3, <1>4, <3>1
  <2> QED BY <2>1, <2>2
<1> QED BY <1>1, <1>2, <1>3, <1>4, <1>5

HiddenNext(q, c) ==
  \A p \in Runs : \A i \in DOMAIN log'[p] : i <= logAt'[q][p] => log'[p][i].session < c

LEMMA HiddenStays ==
  ASSUME IndInv, NEW r \in Runs, Act(r), NEW q \in Runs, pc[q] # "idle", kind[q] = "reset",
         NEW c, HiddenBy(q, c)
  PROVE  HiddenNext(q, c)
BY LogAtStays DEF HiddenBy, HiddenNext

\* A reset hides the rows stored before it came in behind a younger session.
LEMMA ResetKept ==
  ASSUME IndInv, NEW r \in Runs, Act(r), NEW q \in Runs, kind'[q] = "reset", pc'[q] # "idle"
  PROVE  ResetOf(q)'
<1>f. Functions /\ TypeOK /\ ResetOf(q) /\ StageOf(q) /\ StageOf(q)' /\ sessions \subseteq sessions'
  BY Parts, PartsOf, SharedStep, StageKept
<1>1. CASE pc[q] = "idle"
  <2>1. q = r
    BY <1>1, <1>f, Frame DEF Untouched
  <2>2. /\ logAt'[q] = [x \in Runs |-> Len(log[x])] /\ log' = log /\ result'[q] # "ok"
        /\ pc'[q] \in {"lookup", "done"}
    BY <1>1, <1>f, <2>1, UnderWay, Begins
  <2>3. \A p \in Runs : logAt'[q][p] <= Len(log'[p])
    <3> TAKE p \in Runs
    <3>1. Len(log[p]) \in Nat
      BY <1>f DEF TypeOK, StoreOK
    <3> QED BY <2>2, <3>1
  <2> QED BY <2>2, <2>3 DEF ResetOf
<1>2. CASE pc[q] # "idle"
  <2>1. kind[q] = "reset" /\ addr'[q] = addr[q]
    BY <1>2, <1>f, UnderWay, Frame DEF Untouched, ident
  <2>2. \A p \in Runs : logAt'[q][p] <= Len(log'[p])
    BY <1>2, <2>1, LogAtStays
  <2>3. ASSUME pc'[q] = "insert", mine'[q] # 0 PROVE HiddenBy(q, stamp[q])'
    <3>1. CASE q # r
      <4>1. pc[q] = "insert" /\ mine[q] # 0 /\ stamp'[q] = stamp[q]
        BY <1>f, <2>3, <3>1, Frame DEF Untouched
      <4>2. HiddenBy(q, stamp[q])
        BY <1>f, <1>2, <2>1, <4>1 DEF ResetOf
      <4> QED BY <1>2, <2>1, <4>1, <4>2, HiddenStays DEF HiddenBy, HiddenNext
    <3>2. CASE q = r
      <4>1. StampSession(r)
        BY <1>f, <1>2, <2>3, <3>2, StampsFrom DEF FindSession, Route, Goto, Functions
      <4>2. stamp'[r] = clock + 1 /\ log' = log /\ clock \in Nat
        BY <1>f, <4>1, PartsOf DEF StampSession, Functions
      <4>3. ASSUME NEW p \in Runs, NEW i \in DOMAIN log[p] PROVE log[p][i].session < clock + 1
        <5>1. log[p][i].session = mine[p] /\ mine[p] \in 0..clock
          BY PartsOf DEF RowsAt, InSession
        <5> QED BY <4>2, <5>1
      <4> QED BY <3>2, <4>2, <4>3 DEF HiddenBy
    <3> QED BY <3>1, <3>2
  <2>4. ASSUME pc'[q] \in {"reply", "send"} \/ result'[q] = "ok"
        PROVE  \E s \in sessions' : /\ s.by = q /\ s.addr = addr'[q]
                                    /\ mine'[q] < s.created /\ HiddenNext(q, s.created)
    <3>1. CASE pc[q] \in {"reply", "send"} \/ result[q] = "ok"
      <4>1. PICK s \in sessions : /\ s.by = q /\ s.addr = addr[q]
                                  /\ mine[q] < s.created /\ HiddenBy(q, s.created)
        BY <1>f, <1>2, <2>1, <3>1 DEF ResetOf
      <4>2. mine'[q] = mine[q]
        <5>1. CASE q # r
          BY <1>f, <5>1, Frame DEF Untouched
        <5>2. CASE q = r
          BY <1>f, <3>1, <5>2, MineStep DEF FindSession, InsertSession, StageOf
        <5> QED BY <5>1, <5>2
      <4>3. HiddenNext(q, s.created)
        BY <1>2, <2>1, <4>1, HiddenStays
      <4> QED BY <1>f, <2>1, <4>1, <4>2, <4>3
    <3>2. CASE ~(pc[q] \in {"reply", "send"} \/ result[q] = "ok")
      <4>1. q = r
        BY <1>f, <2>4, <3>2, Frame DEF Untouched
      <4>2. InsertSession(r) /\ mine[r] # 0
        BY <1>f, <1>2, <2>1, <2>4, <3>2, <4>1, RepliesFrom
      <4> DEFINE new == [addr |-> addr[r], created |-> stamp[r], by |-> r]
      <4>3. new \in sessions' /\ mine'[r] = mine[r] /\ pc[r] = "insert"
        BY <4>2 DEF InsertSession
      <4>4. HiddenBy(r, new.created) /\ mine[r] < new.created
        BY <1>f, <1>2, <2>1, <4>1, <4>2, <4>3 DEF ResetOf, StageOf
      <4>5. HiddenNext(r, new.created)
        BY <1>2, <2>1, <4>1, <4>4, HiddenStays
      <4>6. new.by = r /\ new.addr = addr[r]
        OBVIOUS
      <4> HIDE DEF new
      <4> QED BY <2>1, <4>1, <4>3, <4>4, <4>5, <4>6
    <3> QED BY <3>1, <3>2
  <2> QED BY <2>2, <2>3, <2>4 DEF ResetOf, HiddenBy, HiddenNext
<1> QED BY <1>1, <1>2

\* Whose rows a prompt holds.
LEMMA Gathered ==
  ASSUME IndInv, NEW session
  PROVE  /\ \A row \in RowsOf(session) :
              /\ row[1] \in Runs /\ row[2] \in DOMAIN log[row[1]]
              /\ log[row[1]][row[2]].session = session
         /\ \A q \in Runs : \A row \in Rows(q) :
              row[1] = q /\ row[2] \in DOMAIN log[q] /\ row = <<q, row[2]>>
         /\ \A q \in Runs : \A row \in Rows(q) :
              log[q][row[2]].session = session => row \in RowsOf(session)
BY DEF RowsOf, Rows

LEMMA PromptStep ==
  ASSUME IndInv, NEW r \in Runs, Act(r)
  PROVE  \/ UNCHANGED prompt /\ ((pc'[r] \in Prepared <=> pc[r] \in Prepared) \/ kind[r] = "reset")
         \/ pc'[r] = "done" /\ prompt'[r] = {}
         \/ /\ Assemble(r) /\ pc[r] = "assemble" /\ pc'[r] = "save"
            /\ prompt'[r] = IF r \in Jobs THEN {} ELSE RowsOf(mine[r])
<1>f. Functions /\ StageOf(r)
  BY Parts, PartsOf
<1> USE <1>f DEF Functions, StageOf, Prepared
<1>1. CASE Assemble(r)
  BY <1>1 DEF Assemble, Goto, ident, store, locals
<1>2. CASE (r \in Messages /\ Receive(r)) \/ (r \in Jobs /\ Fire(r))
  BY <1>2, Parts, Begins DEF Return, locals
<1>3. CASE StatementFails(r) \/ SendReply(r) \/ NotifyOwner(r)
  BY <1>3 DEF StatementFails, SendReply, NotifyOwner, Return, Goto
<1>4. CASE InsertSession(r)
  BY <1>4 DEF InsertSession, Goto, ident, store, locals
<1>5. CASE FindSession(r) \/ StampSession(r) \/ Route(r)
  BY <1>5 DEF FindSession, StampSession, Route, Goto, locals
<1>6. CASE SavePrompt(r) \/ ModelRetries(r) \/ ModelFails(r) \/ ModelAnswers(r)
          \/ ModelCallsTools(r) \/ OtherTool(r) \/ SendUserMessage(r)
          \/ PersistExchange(r) \/ PersistFails(r) \/ StoreReply(r)
  BY <1>6 DEF SavePrompt, ModelRetries, ModelFails, ModelAnswers, ModelCallsTools, OtherTool,
    SendUserMessage, ToolReturns, PersistExchange, PersistFails, StoreReply, NextIteration, Goto, locals
<1> QED BY <1>1, <1>2, <1>3, <1>4, <1>5, <1>6 DEF Act, Step

\* The prompt holds rows of the run's session by others, and all that earlier
\* runs have stored there.
LEMMA PromptKept ==
  ASSUME IndInv, NEW r \in Runs, Act(r), NEW q \in Runs
  PROVE  PromptOf(q)'
<1>f. Functions /\ TypeOK /\ TypeOK' /\ StageShape /\ PromptOf(q) /\ StageOf(q) /\ StageOf(q)'
  BY Parts, PartsOf, StageKept, TypesKept
<1>s. q \in Messages => kind'[q] = "text" \/ kind'[q] = "reset"
  BY <1>f DEF TypeOK, IdentOK, Kinds
<1>1. ASSUME NEW row \in prompt[q]
      PROVE  /\ row[1] # q /\ row[2] \in DOMAIN log'[row[1]]
             /\ log'[row[1]][row[2]].session = mine[q]
  <2>1. /\ row[1] \in Runs /\ row[1] # q /\ row[2] \in DOMAIN log[row[1]]
        /\ log[row[1]][row[2]].session = mine[q]
    BY <1>f DEF PromptOf, TypeOK, LocalsOK
  <2> QED BY <1>f, <2>1, RowsStay
<1>2. ASSUME NEW x \in before[q] PROVE x \in Runs /\ log'[x] = log[x]
  BY PartsOf, DoneStays DEF PastOf, Untouched
<1>3. ASSUME q \in Messages, kind[q] = "text", pc[q] \in Prepared, NEW x \in before[q],
             NEW row \in Rows(x)', log'[x][row[2]].session = mine[q]
      PROVE  row \in prompt[q]
  <2>1. x \in Runs /\ log'[x] = log[x]
    BY <1>2
  <2>2. row \in Rows(x)
    BY <2>1 DEF Rows
  <2> QED BY <1>f, <1>3, <2>1, <2>2 DEF PromptOf
<1>4. CASE /\ prompt'[q] = prompt[q] /\ mine'[q] = mine[q] /\ kind'[q] = kind[q]
           /\ before'[q] = before[q]
           /\ (pc'[q] \in Prepared <=> pc[q] \in Prepared) \/ kind[q] = "reset"
  <2>1. kind[q] = "reset" => prompt[q] = {}
    BY <1>f DEF PromptOf
  <2>2. pc'[q] \notin Prepared \/ kind'[q] = "reset" => prompt'[q] = {}
    BY <1>f, <1>4 DEF PromptOf
  <2>3. \A row \in prompt'[q] :
          /\ row[1] # q /\ row[2] \in DOMAIN log'[row[1]]
          /\ log'[row[1]][row[2]].session = mine'[q]
    BY <1>1, <1>4
  <2>4. q \in Messages /\ kind'[q] = "text" /\ pc'[q] \in Prepared =>
          \A x \in before'[q] : \A row \in Rows(x)' :
            log'[x][row[2]].session = mine'[q] => row \in prompt'[q]
    BY <1>3, <1>4
  <2> QED BY <2>2, <2>3, <2>4 DEF PromptOf
<1>5. CASE q # r
  <2>1. Untouched(q)
    BY <1>f, <1>5, Frame
  <2> QED BY <1>4, <2>1 DEF Untouched
<1>6. CASE prompt'[q] = {} /\ (pc'[q] \notin Prepared \/ q \in Jobs)
  <2>1. q \in Jobs => q \notin Messages
    BY RunsAssumption
  <2> QED BY <1>6, <2>1 DEF PromptOf
<1>7. CASE q = r /\ pc[r] = "idle"
  <2>1. UNCHANGED prompt \/ prompt'[r] = {}
    BY <1>f, <1>7, PromptStep
  <2>2. prompt[r] = {} /\ pc'[r] \in {"lookup", "done"}
    BY <1>f, <1>7, UnderWay, Begins DEF PromptOf, Prepared
  <2> QED BY <1>6, <1>7, <2>1, <2>2 DEF Prepared
<1>8. CASE q = r /\ pc[r] # "idle" /\ Assemble(r)
  <2>1. /\ pc[r] = "assemble" /\ pc'[r] = "save" /\ UNCHANGED <<ident, mine, log>>
        /\ prompt'[r] = IF r \in Jobs THEN {} ELSE RowsOf(mine[r])
    BY <1>f, <1>8 DEF Assemble, Goto, Functions, store
  <2>2. CASE r \in Jobs
    BY <1>6, <1>8, <2>1, <2>2
  <2>3. CASE r \notin Jobs
    <3>1. log[r] = <<>> /\ kind'[r] = "text"
      BY <1>f, <1>8, <2>1, PartsOf DEF RowsAt, Searching, StageOf, ident
    <3>2. prompt'[r] = RowsOf(mine[r])
      BY <2>1, <2>3
    <3>3. \A row \in prompt'[r] :
            /\ row[1] # r /\ row[2] \in DOMAIN log'[row[1]]
            /\ log'[row[1]][row[2]].session = mine'[r]
      BY <2>1, <3>1, <3>2, Gathered
    <3>4. \A x \in before'[r] : \A row \in Rows(x)' :
            log'[x][row[2]].session = mine'[r] => row \in prompt'[r]
      <4>1. \A x \in Runs : Rows(x)' = Rows(x)
        BY <2>1 DEF Rows
      <4>2. before'[r] \subseteq Runs
        BY <1>f DEF TypeOK, IdentOK
      <4> QED BY <2>1, <3>2, <4>1, <4>2, Gathered
    <3>5. pc'[r] \in Prepared
      BY <2>1 DEF Prepared
    <3> QED BY <1>8, <3>1, <3>3, <3>4, <3>5 DEF PromptOf
  <2> QED BY <2>2, <2>3
<1>9. CASE q = r /\ pc[r] # "idle" /\ ~Assemble(r)
  <2>1. UNCHANGED ident
    BY <1>9, UnderWay
  <2>2. CASE pc'[r] = "done" /\ prompt'[r] = {}
    BY <1>6, <1>9, <2>2 DEF Prepared
  <2>3. CASE UNCHANGED prompt /\ mine'[r] = mine[r]
    <3>1. (pc'[r] \in Prepared <=> pc[r] \in Prepared) \/ kind[r] = "reset" \/ pc'[r] = "done"
      BY <1>9, PromptStep
    <3>2. pc'[r] = "done" => prompt'[r] = {} \/ ((pc'[r] \in Prepared <=> pc[r] \in Prepared) \/ kind[r] = "reset")
      BY <1>9, PromptStep
    <3> QED BY <1>4, <1>9, <2>1, <2>2, <2>3, <3>1, <3>2 DEF ident
  <2>4. CASE UNCHANGED prompt /\ mine'[r] # mine[r]
    <3>1. FindSession(r) \/ (InsertSession(r) /\ mine[r] = 0)
      BY <2>4, MineStep DEF InsertSession
    <3>2. pc[r] \notin Prepared /\ pc'[r] \notin Prepared
      BY <1>f, <3>1 DEF FindSession, InsertSession, Goto, Functions, Prepared
    <3> QED BY <1>f, <1>6, <1>9, <2>4, <3>2 DEF PromptOf
  <2> QED BY <1>9, <2>2, <2>3, <2>4, PromptStep
<1> QED BY <1>5, <1>7, <1>8, <1>9

\* Only a tool sets told.
LEMMA ToldStays ==
  ASSUME IndInv, NEW r \in Runs, Act(r), ~SendUserMessage(r), pc'[r] # "done"
  PROVE  UNCHANGED told
<1>f. Functions
  BY Parts
<1> USE <1>f DEF Functions
<1>1. CASE SendUserMessage(r)
  BY <1>1
<1>2. CASE (r \in Messages /\ Receive(r)) \/ (r \in Jobs /\ Fire(r))
  BY <1>2, Parts, Begins DEF locals
<1>3. CASE StatementFails(r) \/ SendReply(r) \/ NotifyOwner(r)
  BY <1>3 DEF StatementFails, SendReply, NotifyOwner, Return, Goto, Functions
<1>4. CASE FindSession(r) \/ StampSession(r) \/ InsertSession(r) \/ Route(r)
          \/ Assemble(r) \/ SavePrompt(r) \/ ModelRetries(r) \/ ModelFails(r)
          \/ ModelAnswers(r) \/ ModelCallsTools(r) \/ OtherTool(r)
          \/ PersistExchange(r) \/ PersistFails(r) \/ StoreReply(r)
  BY <1>4 DEF FindSession, StampSession, InsertSession, Route, Assemble, SavePrompt,
    ModelRetries, ModelFails, ModelAnswers, ModelCallsTools, OtherTool, PersistExchange,
    PersistFails, StoreReply, locals
<1> QED BY <1>1, <1>2, <1>3, <1>4 DEF Act, Step

LEMMA SendsFrom ==
  ASSUME NEW r \in Runs, Act(r), pc[r] = "send"
  PROVE  SendReply(r) \/ NotifyOwner(r)
BY DEF Act, Step, Receive, Fire, Start, StatementFails, FindSession, StampSession,
   InsertSession, Route, Assemble, SavePrompt, ModelRetries, ModelFails, ModelAnswers,
   ModelCallsTools, OtherTool, SendUserMessage, ToolReturns, PersistExchange, PersistFails,
   StoreReply

\* What one more message of a run leaves of what is sent.
LEMMA SentStep ==
  ASSUME IndInv, NEW r \in Runs, Act(r), NEW q \in Runs, NEW what \in {"tool", "reply"}
  PROVE  /\ q # r \/ outbox' = outbox => Sent(q, what)' = Sent(q, what)
         /\ \A to : Deliver(r, to, what) => Sent(r, what)' # {}
         /\ \A to : \A other \in {"tool", "reply"} :
              Deliver(r, to, other) /\ other # what => Sent(r, what)' = Sent(r, what)
<1>1. q # r \/ outbox' = outbox => Sent(q, what)' = Sent(q, what)
  BY Parts, SharedStep DEF Sent, Deliver
<1>2. \A to : Deliver(r, to, what) => Sent(r, what)' # {}
  <2> SUFFICES ASSUME NEW to, Deliver(r, to, what) PROVE Sent(r, what)' # {}
    OBVIOUS
  <2>1. [by |-> r, to |-> to, what |-> what] \in Sent(r, what)'
    BY DEF Sent, Deliver
  <2> QED BY <2>1
<1>3. \A to : \A other \in {"tool", "reply"} :
        Deliver(r, to, other) /\ other # what => Sent(r, what)' = Sent(r, what)
  BY DEF Sent, Deliver
<1> QED BY <1>1, <1>2, <1>3

\* A job under way has notified nobody and knows whether it told.
LEMMA ToldStep ==
  ASSUME IndInv, NEW r \in Runs, Act(r), r \in Jobs, pc'[r] # "done"
  PROVE  /\ Sent(r, "reply")' = Sent(r, "reply")
         /\ \/ told'[r] = told[r] /\ Sent(r, "tool")' = Sent(r, "tool")
            \/ told'[r] = TRUE /\ Sent(r, "tool")' # {}
<1>f. Functions /\ r \notin Messages
  BY Parts, RunsAssumption
<1>1. SendReply(r) \/ NotifyOwner(r) => pc'[r] = "done"
  BY <1>f DEF SendReply, NotifyOwner, Return, Goto, Functions
<1>2. CASE SendUserMessage(r)
  <2>1. CASE UNCHANGED <<outbox, told>>
    BY <2>1, SentStep
  <2>2. CASE (\E to \in Addresses : Deliver(r, to, "tool")) /\ told' = [told EXCEPT ![r] = TRUE]
    <3>1. told'[r] = TRUE
      BY <1>f, <2>2 DEF Functions
    <3> QED BY <2>2, <3>1, SentStep
  <2> QED BY <1>2, <2>1, <2>2 DEF SendUserMessage
<1>3. CASE ~SendUserMessage(r)
  <2>1. outbox' = outbox
    BY <1>1, <1>3, Parts, SharedStep
  <2>2. UNCHANGED told
    BY <1>1, <1>3, <1>f, ToldStays
  <2> QED BY <2>1, <2>2, SentStep
<1> QED BY <1>2, <1>3

LEMMA ToldKept ==
  ASSUME IndInv, NEW r \in Runs, Act(r), NEW q \in Runs
  PROVE  ToldOf(q)'
<1>1. CASE q # r
  <2>1. Untouched(q) /\ ToldOf(q)
    BY <1>1, Parts, PartsOf, Frame
  <2>2. Sent(q, "reply")' = Sent(q, "reply") /\ Sent(q, "tool")' = Sent(q, "tool")
    BY <1>1, SentStep
  <2> QED BY <2>1, <2>2 DEF ToldOf, Untouched
<1>2. CASE q = r
  <2> SUFFICES ASSUME r \in Jobs, pc'[r] # "done"
               PROVE  Sent(r, "reply")' = {} /\ (told'[r] <=> Sent(r, "tool")' # {})
    BY <1>2 DEF ToldOf
  <2>1. Sent(r, "reply") = {} /\ (told[r] <=> Sent(r, "tool") # {})
    BY PartsOf, UnderWay DEF ToldOf
  <2> QED BY <2>1, ToldStep
<1> QED BY <1>1, <1>2

\* An answer that was seen was stored.
LEMMA SeenKept ==
  ASSUME IndInv, NEW r \in Runs, Act(r)
  PROVE  SeenWasStored'
<1> SUFFICES ASSUME NEW m \in outbox', m.by \in Messages, m.what = "reply" PROVE Closed(m.by)'
  BY DEF SeenWasStored
<1>f. Functions /\ TypeOK /\ StageShape /\ m.by \in Runs /\ RowsAt(m.by) /\ step[m.by] \in Nat
  BY Parts, PartsOf DEF Runs
<1>1. Closed(m.by)
  <2>1. CASE m \in outbox
    BY <2>1, Parts DEF SeenWasStored
  <2>2. CASE m \notin outbox
    <3>1. m.by = r /\ (SendReply(r) \/ NotifyOwner(r))
      BY <1>f, <2>2, SharedStep DEF Deliver
    <3>2. pc[r] = "send" /\ r \notin Jobs
      BY <3>1, RunsAssumption DEF SendReply, NotifyOwner
    <3> QED BY <1>f, <3>1, <3>2 DEF RowsAt
  <2> QED BY <2>1, <2>2
<1>2. CASE m.by # r
  BY <1>f, <1>1, <1>2, Frame, SameRows DEF Untouched
<1>3. CASE m.by = r
  <2>1. ~Open(r) /\ log[r] # <<>>
    <3>1. Len(log[r]) = step[r] + 2
      BY <1>1, <1>3 DEF Closed
    <3> QED BY <1>f, <1>3, <3>1 DEF Open
  <2>2. pc[r] = "send" \/ pc[r] \in {"idle", "lookup", "stamp", "insert", "route", "assemble", "save"}
    BY <1>f, <1>3, <2>1, UnderWay DEF RowsAt, TypeOK, LocalsOK, Stages
  <2>3. pc[r] = "send"
    BY <1>f, <1>3, <2>1, <2>2 DEF RowsAt
  <2>4. SendReply(r) \/ NotifyOwner(r)
    BY <2>3, SendsFrom, Parts
  <2>5. UNCHANGED <<log, step>>
    BY <2>4 DEF SendReply, NotifyOwner, store
  <2> QED BY <1>1, <1>3, <2>5, SameRows DEF Runs
<1> QED BY <1>2, <1>3

LEMMA FaultsStep ==
  ASSUME IndInv, NEW r \in Runs, Act(r)
  PROVE  faults' = faults \/ faults' = faults + 1
<1>1. CASE (r \in Messages /\ Receive(r)) \/ (r \in Jobs /\ Fire(r))
  BY <1>1, Parts, Begins
<1>2. CASE StatementFails(r) \/ FindSession(r) \/ StampSession(r)
          \/ InsertSession(r) \/ Route(r) \/ Assemble(r) \/ SavePrompt(r)
          \/ ModelRetries(r) \/ ModelFails(r) \/ ModelAnswers(r)
          \/ ModelCallsTools(r) \/ OtherTool(r) \/ SendUserMessage(r)
          \/ PersistExchange(r) \/ PersistFails(r) \/ StoreReply(r) \/ SendReply(r)
          \/ NotifyOwner(r)
  BY <1>2 DEF StatementFails, FindSession, StampSession, InsertSession, Route, Assemble,
    SavePrompt, ModelRetries, ModelFails, ModelAnswers, ModelCallsTools, OtherTool,
    SendUserMessage, PersistExchange, PersistFails, StoreReply, SendReply, NotifyOwner, Faulty
<1> QED BY <1>1, <1>2 DEF Act, Step

LEMMA OkFrom ==
  ASSUME IndInv, NEW r \in Runs, Act(r), r \notin Messages, result'[r] = "ok"
  PROVE  NotifyOwner(r)
<1>f. Functions /\ result[r] # "ok"
  BY Parts, UnderWay
<1>1. CASE NotifyOwner(r)
  BY <1>1
<1>2. CASE SendReply(r)
  BY <1>2 DEF SendReply
<1>3. CASE (r \in Messages /\ Receive(r)) \/ (r \in Jobs /\ Fire(r))
  BY <1>f, <1>3, Parts, Begins
<1>4. CASE StatementFails(r)
  BY <1>f, <1>4 DEF StatementFails, Return, Functions
<1>5. CASE FindSession(r) \/ StampSession(r) \/ InsertSession(r) \/ Route(r)
          \/ Assemble(r) \/ SavePrompt(r) \/ ModelRetries(r) \/ ModelFails(r)
          \/ ModelAnswers(r) \/ ModelCallsTools(r) \/ OtherTool(r)
          \/ SendUserMessage(r) \/ PersistExchange(r) \/ PersistFails(r)
          \/ StoreReply(r)
  BY <1>f, <1>5 DEF FindSession, StampSession, InsertSession, Route, Assemble, SavePrompt,
    ModelRetries, ModelFails, ModelAnswers, ModelCallsTools, OtherTool, SendUserMessage,
    PersistExchange, PersistFails, StoreReply
<1> QED BY <1>1, <1>2, <1>3, <1>4, <1>5 DEF Act, Step

LEMMA FiniteKept ==
  ASSUME IndInv, NEW r \in Runs, Act(r)
  PROVE  IsFiniteSet(sessions)'
<1> DEFINE new == [addr |-> addr[r], created |-> stamp[r], by |-> r]
<1>1. IsFiniteSet(sessions) /\ (sessions' = sessions \/ sessions' = sessions \cup {new})
  BY Parts, SharedStep
<1>2. IsFiniteSet(sessions \cup {new})
  BY <1>1, FS_AddElement
<1> HIDE DEF new
<1> QED BY <1>1, <1>2

\* Who is not allowed leaves no trace, and nothing goes where nobody may write.
LEMMA PolicyKept ==
  ASSUME IndInv, NEW r \in Runs, Act(r)
  PROVE  PolicyHolds'
<1>f. Functions /\ TypeOK /\ PolicyHolds
  BY Parts
<1>1. ASSUME NEW q \in Runs, q \in Messages, ~IsAllowed(addr'[q], sender'[q])
      PROVE  /\ \A s \in sessions' : s.by # q
             /\ log'[q] = <<>> /\ Sent(q, "tool")' = {} /\ Sent(q, "reply")' = {}
  <2>1. CASE q # r
    <3>1. Untouched(q)
      BY <1>f, <2>1, Frame
    <3>2. /\ \A s \in sessions : s.by # q
          /\ log[q] = <<>> /\ Sent(q, "tool") = {} /\ Sent(q, "reply") = {}
      BY <1>f, <1>1, <3>1 DEF PolicyHolds, StrangersLeaveNoTrace, Untouched
    <3>3. \A s \in sessions' : s.by # q
      BY <1>f, <2>1, <3>2, SharedStep
    <3> QED BY <2>1, <3>1, <3>2, <3>3, SentStep DEF Untouched
  <2>2. CASE q = r
    <3>1. pc[r] = "idle"
      <4>1. pc[r] \notin {"idle", "done"} => IsAllowed(addr[r], sender[r])
        BY <1>1, <2>2, PartsOf DEF StageOf
      <4>2. pc[r] # "idle" => UNCHANGED ident
        BY UnderWay
      <4>3. pc[r] # "idle" => IsAllowed(addr'[r], sender'[r])
        BY <4>1, <4>2, UnderWay DEF ident
      <4> QED BY <1>1, <2>2, <4>3
    <3>2. UNCHANGED <<sessions, log, outbox>>
      BY <1>f, <3>1, UnderWay, Begins
    <3>3. log[r] = <<>>
      BY <3>1, PartsOf DEF RowsAt, Searching, StageOf
    <3>4. /\ \A s \in sessions : s.by # r
          /\ Sent(r, "tool") = {} /\ Sent(r, "reply") = {}
      BY <3>1, PartsOf DEF PastOf, Sent
    <3> QED BY <2>2, <3>2, <3>3, <3>4, SentStep
  <2> QED BY <2>1, <2>2
<1>2. ASSUME NEW m \in outbox' PROVE OpenTo = {} \/ m.to \in OpenTo
  <2>1. CASE m \in outbox
    BY <1>f, <2>1 DEF PolicyHolds, OnlyOpenConversations
  <2>2. CASE m \notin outbox /\ SendUserMessage(r)
    BY <2>2 DEF SendUserMessage, Deliver, IsAllowed
  <2>3. CASE m \notin outbox /\ (SendReply(r) \/ NotifyOwner(r))
    <3>1. m.to = addr[r] /\ pc[r] = "send"
      BY <2>3 DEF SendReply, NotifyOwner, Deliver
    <3> QED BY <3>1, PartsOf DEF StageOf, IsAllowed, Runs
  <2> QED BY <1>f, <2>1, <2>2, <2>3, SharedStep
<1> QED BY <1>1, <1>2 DEF PolicyHolds, StrangersLeaveNoTrace, OnlyOpenConversations

\* A second session comes of a reset or of an overlap at first contact.
LEMMA SplitKept ==
  ASSUME IndInv, NEW r \in Runs, Act(r)
  PROVE  SplitOnlyAtFirstContact'
<1> SUFFICES ASSUME NEW s \in sessions', NEW t \in sessions', s.addr = t.addr,
                    kind'[s.by] # "reset", t.by \in before'[s.by]
             PROVE  FALSE
  BY DEF SplitOnlyAtFirstContact
<1>f. Functions /\ TypeOK /\ TypeOK' /\ s.by \in Runs /\ s.addr \in Addresses
  BY Parts, TypesKept DEF TypeOK, StoreOK
<1>1. t \in sessions
  BY <1>f, NewSession
<1>2. kind'[s.by] = kind[s.by] /\ before'[s.by] = before[s.by] /\ addr'[s.by] = addr[s.by]
  <2>1. CASE s.by # r
    BY <1>f, <2>1, Frame DEF Untouched
  <2>2. CASE s.by = r
    <3>1. pc[r] # "idle"
      <4>1. CASE s \in sessions
        BY <2>2, <4>1, PartsOf DEF PastOf
      <4>2. CASE s \notin sessions
        BY <1>f, <4>2, SharedStep DEF InsertSession
      <4> QED BY <4>1, <4>2
    <3> QED BY <2>2, <3>1, UnderWay DEF ident
  <2> QED BY <2>1, <2>2
<1>3. CASE s \in sessions
  BY <1>1, <1>2, <1>3, Parts DEF SplitOnlyAtFirstContact
<1>4. CASE s \notin sessions
  <2>1. InsertSession(r) /\ s = [addr |-> addr[r], created |-> stamp[r], by |-> r]
    BY <1>f, <1>4, SharedStep
  <2>2. s.by = r /\ s.addr = addr[r]
    BY <2>1
  <2>3. pc[r] = "insert" /\ kind[r] # "reset" /\ t.by \in before[r] /\ t.addr = addr[r]
    BY <1>2, <2>1, <2>2 DEF InsertSession
  <2>4. mine[r] = 0
    BY <2>3, PartsOf DEF StageOf
  <2> QED BY <1>1, <2>3, <2>4, PartsOf DEF ContactOf
<1> QED BY <1>3, <1>4

\* The owner hears of a run that succeeded from a tool or at the end.
LEMMA OwnerKept ==
  ASSUME IndInv, NEW r \in Runs, Act(r)
  PROVE  OwnerIsToldOnce'
<1> SUFFICES ASSUME NEW q \in Runs, q \in Jobs, result'[q] = "ok", faults' = 0
             PROVE  (Sent(q, "reply")' # {}) = (notify'[q] /\ Sent(q, "tool")' = {})
  BY DEF OwnerIsToldOnce
<1>f. Functions /\ TypeOK /\ q \notin Messages /\ faults = 0
  <2>1. faults \in Nat /\ (faults' = faults \/ faults' = faults + 1)
    BY Parts, FaultsStep, BoundsAssumption DEF TypeOK, OutcomeOK
  <2> QED BY <2>1, Parts, RunsAssumption
<1>1. CASE q # r
  <2>1. result[q] = "ok" /\ notify'[q] = notify[q]
    BY <1>f, <1>1, Frame DEF Untouched
  <2>2. (Sent(q, "reply") # {}) = (notify[q] /\ Sent(q, "tool") = {})
    BY <1>f, <2>1, Parts DEF OwnerIsToldOnce
  <2> QED BY <1>1, <2>1, <2>2, SentStep
<1>2. CASE q = r
  <2>1. NotifyOwner(r)
    BY <1>2, <1>f, UnderWay, OkFrom DEF SendReply
  <2>2. /\ Sent(r, "reply") = {} /\ (told[r] <=> Sent(r, "tool") # {})
        /\ UNCHANGED notify
    BY <1>2, <2>1, PartsOf, UnderWay DEF ToldOf, NotifyOwner, ident
  <2>3. /\ reply[r] \notin {"failure", "limit"}
        /\ IF notify[r] /\ ~told[r] THEN Deliver(r, addr[r], "reply") ELSE outbox' = outbox
    BY <1>f, <1>2, <2>1 DEF NotifyOwner, Return, Functions, Faulty
  <2>4. Sent(r, "tool")' = Sent(r, "tool")
    BY <2>3, SentStep
  <2>5. IF notify[r] /\ ~told[r] THEN Sent(r, "reply")' # {} ELSE Sent(r, "reply")' = {}
    BY <2>2, <2>3, SentStep
  <2>6. notify[r] \in BOOLEAN /\ told[r] \in BOOLEAN
    BY <1>f DEF TypeOK, IdentOK, LocalsOK
  <2> QED BY <1>2, <2>2, <2>4, <2>5, <2>6
<1> QED BY <1>1, <1>2

-----------------------------------------------------------------------------
LEMMA Starts == ASSUME Init PROVE IndInv
<1>1. (CHOOSE a \in Addresses : TRUE) \in Addresses /\ Unknown \in Senders
  BY PolicyAssumption
<1>2. IdentOK
  BY <1>1 DEF Init, IdentOK, Kinds
<1>3. StoreOK
  <2>1. <<>> \in Seq(Row)
    OBVIOUS
  <2> HIDE DEF Row
  <2> QED BY <2>1 DEF Init, StoreOK
<1>4. LocalsOK
  <2> USE BoundsAssumption DEF Init
  <2>1. pc \in [Runs -> Stages] /\ reply \in [Runs -> Replies]
    BY DEF Stages, Replies
  <2>2. mine \in [Runs -> 0..clock] /\ stamp \in [Runs -> 0..clock]
    OBVIOUS
  <2>3. prompt \in [Runs -> SUBSET (Runs \X Nat)] /\ told \in [Runs -> BOOLEAN]
    OBVIOUS
  <2>4. /\ step \in [Runs -> 0..MaxIterations] /\ attempt \in [Runs -> 0..MaxRetries]
        /\ left \in [Runs -> 0..MaxBatch]
    OBVIOUS
  <2> QED BY <2>1, <2>2, <2>3, <2>4 DEF LocalsOK
<1>5. OutcomeOK
  BY BoundsAssumption DEF Init, OutcomeOK
<1>6. IsFiniteSet(sessions)
  BY FS_EmptySet DEF Init
<1>7. ASSUME NEW r \in Runs PROVE RunInv(r)
  <2>1. StageOf(r) /\ ToldOf(r)
    BY DEF Init, StageOf, Prepared, ToldOf, Sent
  <2>2. RowsAt(r)
    BY DEF Init, RowsAt, InSession, Searching
  <2>3. PastOf(r) /\ SessionOf(r) /\ ContactOf(r)
    BY DEF Init, PastOf, SessionOf, ContactOf
  <2>4. ResetOf(r) /\ PromptOf(r)
    BY DEF Init, ResetOf, PromptOf, Prepared
  <2> QED BY <2>1, <2>2, <2>3, <2>4 DEF RunInv
<1>8. SeenWasStored /\ PolicyHolds
  BY DEF Init, SeenWasStored, PolicyHolds, StrangersLeaveNoTrace, OnlyOpenConversations, Sent
<1>9. SplitOnlyAtFirstContact /\ OwnerIsToldOnce
  BY DEF Init, SplitOnlyAtFirstContact, OwnerIsToldOnce
<1> QED BY <1>2, <1>3, <1>4, <1>5, <1>6, <1>7, <1>8, <1>9 DEF IndInv, TypeOK

LEMMA Steps == ASSUME IndInv, [Next]_vars PROVE IndInv'
<1>1. ASSUME NEW r \in Runs, Act(r) PROVE IndInv'
  <2>1. TypeOK' /\ IsFiniteSet(sessions)'
    BY <1>1, Parts, TypesKept, FiniteKept
  <2>2. ASSUME NEW q \in Runs PROVE RunInv(q)'
    <3>1. StageOf(q)' /\ RowsAt(q)' /\ PastOf(q)' /\ SessionOf(q)'
      BY <1>1, StageKept, RowsKept, PastKept, SessionKept
    <3>2. ResetOf(q)'
      <4>1. CASE kind'[q] = "reset" /\ pc'[q] # "idle"
        BY <1>1, <4>1, ResetKept
      <4> QED BY <4>1 DEF ResetOf
    <3> QED BY <1>1, <3>1, <3>2, ContactKept, PromptKept, ToldKept DEF RunInv
  <2>3. SeenWasStored' /\ PolicyHolds' /\ SplitOnlyAtFirstContact' /\ OwnerIsToldOnce'
    BY <1>1, SeenKept, PolicyKept, SplitKept, OwnerKept
  <2> QED BY <2>1, <2>2, <2>3 DEF IndInv
<1>2. CASE UNCHANGED vars
  <2>1. /\ UNCHANGED <<pc, kind, addr, sender, notify, before, logAt, sessions, clock, log>>
        /\ UNCHANGED <<mine, step, stamp, prompt, attempt, left, told, reply>>
        /\ UNCHANGED <<outbox, result, faults>>
    BY <1>2 DEF vars, ident, store, locals
  <2>2. TypeOK'
    BY <2>1 DEF IndInv, TypeOK, IdentOK, StoreOK, LocalsOK, OutcomeOK
  <2>3. ASSUME NEW q \in Runs PROVE RunInv(q)'
    <3>1. RunInv(q)
      BY DEF IndInv
    <3>2. StageOf(q)' /\ ToldOf(q)' /\ PastOf(q)' /\ SessionOf(q)' /\ ContactOf(q)'
      BY <2>1, <3>1 DEF RunInv, StageOf, ToldOf, PastOf, SessionOf, ContactOf, Sent, IsAllowed
    <3>3. RowsAt(q)'
      BY <2>1, <3>1 DEF RunInv, RowsAt, InSession, Open, Closed, Stored
    <3>4. ResetOf(q)' /\ PromptOf(q)'
      BY <2>1, <3>1 DEF RunInv, ResetOf, HiddenBy, PromptOf, Rows
    <3> QED BY <3>2, <3>3, <3>4 DEF RunInv
  <2>4. SeenWasStored' /\ PolicyHolds' /\ SplitOnlyAtFirstContact' /\ OwnerIsToldOnce'
    BY <2>1 DEF IndInv, SeenWasStored, Closed, Stored, PolicyHolds, StrangersLeaveNoTrace,
      OnlyOpenConversations, SplitOnlyAtFirstContact, OwnerIsToldOnce, Sent, IsAllowed
  <2>5. IsFiniteSet(sessions)'
    BY <2>1 DEF IndInv
  <2> QED BY <2>2, <2>3, <2>4, <2>5 DEF IndInv
<1> QED BY <1>1, <1>2 DEF Next, Act, Runs

\* The invariant in parts holds of every state of every instance.
THEOREM Inductive == Spec => []IndInv
<1>1. Init => IndInv
  BY Starts
<1>2. IndInv /\ [Next]_vars => IndInv'
  BY Steps
<1> QED BY <1>1, <1>2, PTL DEF Spec

\* Every variable keeps its type.
THEOREM TypeCorrect == Spec => []TypeOK
<1>1. IndInv => TypeOK
  BY DEF IndInv
<1> QED BY <1>1, Inductive, PTL

\* Whoever the policy does not allow leaves no trace, and every message sent
\* goes to a conversation the policy opens.
THEOREM PolicyIsKept == Spec => []PolicyHolds
<1>1. IndInv => PolicyHolds
  BY DEF IndInv
<1> QED BY <1>1, Inductive, PTL

\* A second session of a conversation comes of a reset or of an overlap at
\* first contact.
THEOREM SplitsAreRare == Spec => []SplitOnlyAtFirstContact
<1>1. IndInv => SplitOnlyAtFirstContact
  BY DEF IndInv
<1> QED BY <1>1, Inductive, PTL

\* The owner of a job hears of each success once.
THEOREM OwnerIsTold == Spec => []OwnerIsToldOnce
<1>1. IndInv => OwnerIsToldOnce
  BY DEF IndInv
<1> QED BY <1>1, Inductive, PTL

-----------------------------------------------------------------------------
RoleSet == {"user", "exchange", "assistant"}

\* A prompt, n exchanges and what follows, as one sequence.
LEMMA Shape ==
  ASSUME NEW n \in Nat, NEW end \in Seq(RoleSet), NEW s \in Seq(RoleSet),
         Len(s) = n + 1 + Len(end), s[1] = "user", \A i \in 2..(n + 1) : s[i] = "exchange",
         \A i \in 1..Len(end) : s[n + 1 + i] = end[i]
  PROVE  s = <<"user">> \o [i \in 1..n |-> "exchange"] \o end
<1> DEFINE U == <<"user">>
           E == [i \in 1..n |-> "exchange"]
<1>1. U \in Seq(RoleSet) /\ Len(U) = 1 /\ U[1] = "user"
  BY DEF RoleSet
<1>2. E \in Seq(RoleSet) /\ Len(E) = n /\ \A i \in 1..n : E[i] = "exchange"
  BY DEF RoleSet
<1> HIDE DEF U, E, RoleSet
<1>3. /\ U \o E \in Seq(RoleSet) /\ Len(U \o E) = 1 + n
      /\ \A i \in 1..(1 + n) : (U \o E)[i] = IF i <= 1 THEN U[i] ELSE E[i - 1]
  <2>1. /\ U \o E \in Seq(RoleSet) /\ Len(U \o E) = Len(U) + Len(E)
        /\ \A i \in 1..Len(U) + Len(E) : (U \o E)[i] = IF i <= Len(U) THEN U[i] ELSE E[i - Len(U)]
    <3>1. U \in Seq(RoleSet) /\ E \in Seq(RoleSet)
      BY <1>1, <1>2
    <3> QED BY <3>1, ConcatProperties
  <2> QED BY <1>1, <1>2, <2>1
<1>4. \A i \in 1..(n + 1) : (U \o E)[i] = s[i]
  <2> TAKE i \in 1..(n + 1)
  <2>1. CASE i = 1
    BY <1>1, <1>3, <2>1
  <2>2. CASE i # 1
    <3>1. i \in 2..(n + 1) /\ i - 1 \in 1..n /\ i \in 1..(1 + n) /\ ~(i <= 1)
      BY <2>2
    <3>2. (U \o E)[i] = E[i - 1]
      BY <1>3, <3>1
    <3> QED BY <1>2, <3>1, <3>2
  <2> QED BY <2>1, <2>2
<1> DEFINE T == U \o E
<1>5. T \in Seq(RoleSet) /\ Len(T) = 1 + n /\ \A i \in 1..(n + 1) : T[i] = s[i]
  BY <1>3, <1>4
<1> HIDE DEF T
<1>6. /\ T \o end \in Seq(RoleSet) /\ Len(T \o end) = 1 + n + Len(end) /\ Len(end) \in Nat
      /\ \A i \in 1..(1 + n + Len(end)) :
           (T \o end)[i] = IF i <= 1 + n THEN T[i] ELSE end[i - (1 + n)]
  <2>1. /\ T \o end \in Seq(RoleSet) /\ Len(T \o end) = Len(T) + Len(end)
        /\ \A i \in 1..Len(T) + Len(end) :
             (T \o end)[i] = IF i <= Len(T) THEN T[i] ELSE end[i - Len(T)]
    BY <1>5, ConcatProperties, Zenon
  <2> QED BY <1>5, <2>1
<1>7. \A i \in 1..Len(s) : s[i] = (T \o end)[i]
  <2> TAKE i \in 1..Len(s)
  <2>1. i \in 1..(1 + n + Len(end))
    BY <1>6
  <2>2. CASE i <= 1 + n
    BY <1>5, <1>6, <2>1, <2>2
  <2>3. CASE ~(i <= 1 + n)
    <3>1. i - (1 + n) \in 1..Len(end) /\ n + 1 + (i - (1 + n)) = i
      BY <1>6, <2>1, <2>3
    <3>2. s[n + 1 + (i - (1 + n))] = end[i - (1 + n)]
      BY <3>1
    <3> QED BY <1>6, <2>1, <2>3, <3>1, <3>2
  <2> QED BY <2>2, <2>3
<1>8. s = T \o end
  <2>1. Len(s) = Len(T \o end)
    BY <1>6
  <2> QED BY <1>6, <1>7, <2>1, SeqEqual
<1> QED BY <1>8 DEF T, U, E

\* The rows of a run, read as a sequence of roles.
LEMMA RolesOf ==
  ASSUME TypeOK, NEW r \in Runs
  PROVE  /\ Roles(r) \in Seq(RoleSet) /\ Len(Roles(r)) = Len(log[r])
         /\ \A i \in 1..Len(log[r]) : Roles(r)[i] = log[r][i].role
         /\ log[r] = <<>> => Roles(r) = <<>>
<1>1. log[r] \in Seq(Row)
  BY DEF TypeOK, StoreOK
<1>2. Len(log[r]) \in Nat /\ DOMAIN log[r] = 1..Len(log[r])
  BY <1>1
<1>3. \A i \in 1..Len(log[r]) : log[r][i] \in Row
  BY <1>1
<1>4. \A i \in 1..Len(log[r]) : log[r][i].role \in RoleSet
  BY <1>3 DEF Row, RoleSet
<1>5. Roles(r) = [i \in 1..Len(log[r]) |-> log[r][i].role]
  BY <1>2 DEF Roles
<1>6. Roles(r) \in [1..Len(log[r]) -> RoleSet]
  BY <1>4, <1>5
<1> HIDE DEF RoleSet
<1>7. Roles(r) \in Seq(RoleSet) /\ Len(Roles(r)) = Len(log[r])
  BY <1>2, <1>6
<1>8. log[r] = <<>> => Roles(r) = <<>>
  <2>1. log[r] = <<>> => Len(Roles(r)) = 0
    BY <1>7
  <2> QED BY <1>7, <2>1, EmptySeq, SeqEqual
<1> QED BY <1>5, <1>7, <1>8

LEMMA HistoryOf ==
  ASSUME IndInv, NEW r \in Runs
  PROVE  Roles(r) \in
             {<<>>} \cup {<<"user">> \o [i \in 1..step[r] |-> "exchange"] \o end :
                              end \in {<<>>, <<"assistant">>}}
<1>f. TypeOK /\ RowsAt(r) /\ step[r] \in Nat
  BY Parts, PartsOf
<1>1. CASE log[r] = <<>>
  BY <1>f, <1>1, RolesOf
<1>2. CASE Open(r)
  <2>1. <<>> \in Seq(RoleSet) /\ Len(<<>>) = 0
    OBVIOUS
  <2>2. /\ Roles(r) \in Seq(RoleSet) /\ Len(Roles(r)) = step[r] + 1 + Len(<<>>)
        /\ Roles(r)[1] = "user" /\ \A i \in 2..(step[r] + 1) : Roles(r)[i] = "exchange"
        /\ \A i \in 1..Len(<<>>) : Roles(r)[step[r] + 1 + i] = <<>>[i]
    BY <1>f, <1>2, <2>1, RolesOf DEF Open, Stored
  <2> HIDE DEF RoleSet
  <2>3. Roles(r) = <<"user">> \o [i \in 1..step[r] |-> "exchange"] \o <<>>
    BY <1>f, <2>1, <2>2, Shape
  <2> QED BY <2>3
<1>3. CASE Closed(r)
  <2> DEFINE end == <<"assistant">>
  <2>1. end \in Seq(RoleSet) /\ Len(end) = 1 /\ end[1] = "assistant"
    BY DEF RoleSet
  <2> HIDE DEF end, RoleSet
  <2>2. /\ Roles(r) \in Seq(RoleSet) /\ Len(Roles(r)) = step[r] + 1 + Len(end)
        /\ Roles(r)[1] = "user" /\ \A i \in 2..(step[r] + 1) : Roles(r)[i] = "exchange"
        /\ Roles(r)[step[r] + 1 + 1] = "assistant"
    <3>1. /\ Len(log[r]) = step[r] + 2 /\ log[r][step[r] + 2].role = "assistant"
          /\ \A i \in 1..(step[r] + 1) : log[r][i].role = IF i = 1 THEN "user" ELSE "exchange"
      BY <1>3 DEF Closed, Stored
    <3>2. /\ Roles(r) \in Seq(RoleSet) /\ Len(Roles(r)) = Len(log[r])
          /\ \A i \in 1..Len(log[r]) : Roles(r)[i] = log[r][i].role
      BY <1>f, RolesOf
    <3>3. \A i \in 1..(step[r] + 1) : Roles(r)[i] = log[r][i].role
      BY <1>f, <3>1, <3>2
    <3>4. Roles(r)[step[r] + 2] = "assistant" /\ step[r] + 2 = step[r] + 1 + 1
      <4>1. step[r] \in Nat
        BY <1>f
      <4>2. step[r] + 2 \in 1..Len(log[r]) /\ step[r] + 2 = step[r] + 1 + 1
        BY <3>1, <4>1
      <4> QED BY <3>1, <3>2, <4>2
    <3>5. Roles(r)[1] = "user"
      <4>1. 1 \in 1..(step[r] + 1)
        BY <1>f
      <4> QED BY <3>1, <3>3, <4>1
    <3>6. \A i \in 2..(step[r] + 1) : Roles(r)[i] = "exchange"
      <4> TAKE i \in 2..(step[r] + 1)
      <4>1. i \in 1..(step[r] + 1) /\ i # 1
        BY <1>f
      <4> QED BY <3>1, <3>3, <4>1
    <3>7. Len(Roles(r)) = step[r] + 1 + Len(end)
      BY <1>f, <2>1, <3>1, <3>2
    <3> QED BY <3>2, <3>4, <3>5, <3>6, <3>7
  <2>3. \A i \in 1..Len(end) : Roles(r)[step[r] + 1 + i] = end[i]
    BY <2>1, <2>2
  <2>4. Roles(r) = <<"user">> \o [i \in 1..step[r] |-> "exchange"] \o end
    BY <1>f, <2>1, <2>2, <2>3, Shape
  <2> QED BY <2>4 DEF end
<1>4. log[r] = <<>> \/ Open(r) \/ Closed(r)
  BY <1>f DEF RowsAt, TypeOK, LocalsOK, Stages
<1> QED BY <1>1, <1>2, <1>3, <1>4

\* The rows of a run are its prompt, its exchanges and at most one reply, in
\* the session it found, and what a person has seen is among them.
THEOREM HistoryIsKept == Spec => []HistoryFollowsRun
<1>1. ASSUME IndInv PROVE HistoryFollowsRun
  <2> SUFFICES ASSUME NEW r \in Runs
               PROVE  /\ \A i \in DOMAIN log[r] : log[r][i].session = mine[r]
                      /\ pc[r] \in {"model", "tools", "persist"} => Len(Roles(r)) = step[r] + 1
                      /\ r \in Messages /\ Sent(r, "reply") # {} =>
                           Roles(r)[Len(log[r])] = "assistant"
    BY <1>1, HistoryOf DEF HistoryFollowsRun
  <2>f. TypeOK /\ RowsAt(r) /\ step[r] \in Nat /\ SeenWasStored
    BY <1>1, Parts, PartsOf
  <2>1. \A i \in DOMAIN log[r] : log[r][i].session = mine[r]
    BY <2>f DEF RowsAt, InSession
  <2>2. pc[r] \in {"model", "tools", "persist"} => Len(Roles(r)) = step[r] + 1
    BY <2>f, RolesOf DEF RowsAt, Open
  <2>3. ASSUME r \in Messages, Sent(r, "reply") # {} PROVE Roles(r)[Len(log[r])] = "assistant"
    <3>1. Closed(r)
      BY <2>f, <2>3 DEF SeenWasStored, Sent
    <3> QED BY <2>f, <3>1, RolesOf DEF Closed
  <2> QED BY <2>1, <2>2, <2>3
<1> QED BY <1>1, Inductive, PTL

\* What the model reads of the history is neither too much nor too little:
\* the message once, nothing a reset forgot, all that earlier runs stored.
THEOREM PromptIsRight == Spec => []PromptIsHistory
<1>1. ASSUME IndInv, NEW r \in Runs PROVE prompt[r] \cap Rows(r) = {}
  BY <1>1, PartsOf DEF PromptOf, Rows
<1>2. ASSUME IndInv, NEW r \in Runs, NEW q \in Runs, q \in before[r], kind[q] = "reset",
             result[q] = "ok", addr[q] = addr[r], NEW row \in prompt[r]
      PROVE  row[2] > logAt[q][row[1]]
  <2>1. /\ row[1] \in Runs /\ row[2] \in Nat /\ row[2] \in DOMAIN log[row[1]]
        /\ log[row[1]][row[2]].session = mine[r]
    BY <1>2, Parts, PartsOf DEF PromptOf, TypeOK, LocalsOK
  <2>2. mine[r] # 0
    BY <1>2, PartsOf DEF PromptOf, StageOf
  <2>3. PICK s \in sessions : s.by = q /\ s.addr = addr[q] /\ HiddenBy(q, s.created)
    BY <1>2, PartsOf DEF ResetOf, PastOf
  <2>4. s.created <= mine[r] /\ s.created \in Nat /\ mine[r] \in Nat
    BY <1>2, <2>2, <2>3, Parts, PartsOf DEF ContactOf, TypeOK, StoreOK
  <2>5. ~(row[2] <= logAt[q][row[1]])
    BY <2>1, <2>3, <2>4 DEF HiddenBy
  <2>6. logAt[q][row[1]] \in Nat
    BY <1>2, <2>1, Parts DEF TypeOK, IdentOK
  <2> QED BY <2>1, <2>5, <2>6
<1>3. ASSUME IndInv, NEW r \in Runs, NEW q \in Runs, q \in before[r], addr[q] = addr[r],
             r \in Messages, pc[r] \in {"save", "model", "tools", "persist", "send"},
             Cardinality({s \in sessions : s.addr = addr[r]}) = 1, NEW row \in Rows(q)
      PROVE  row \in prompt[r]
  <2>1. PICK one : \A s \in sessions : s.addr = addr[r] => s = one
    <3> DEFINE S == {s \in sessions : s.addr = addr[r]}
    <3>1. IsFiniteSet(S)
      BY <1>3, Parts, FS_Subset
    <3>2. \E x : S = {x}
      <4> HIDE DEF S
      <4>1. Cardinality(S) = 1
        BY <1>3 DEF S
      <4> QED BY <3>1, <4>1, FS_Singleton
    <3> QED BY <3>2
  <2>2. row[2] \in DOMAIN log[q] /\ log[q][row[2]].session = mine[q]
    BY <1>3, PartsOf DEF Rows, RowsAt, InSession
  <2>3. mine[q] # 0 /\ mine[r] # 0
    <3>1. log[q][row[2]] \in Row
      BY <1>3, <2>2, Parts DEF TypeOK, StoreOK
    <3>2. mine[q] # 0
      BY <2>2, <3>1 DEF Row
    <3> QED BY <1>3, <3>2, PartsOf DEF StageOf, Prepared
  <2>4. mine[q] = mine[r] /\ one.created = mine[r]
    BY <1>3, <2>1, <2>3, PartsOf DEF SessionOf
  <2>5. kind[r] = "text"
    <3>1. CASE kind[r] = "reset"
      <4>1. pc[r] = "send"
        BY <1>3, <3>1, PartsOf DEF StageOf
      <4>2. \E s \in sessions : s.addr = addr[r] /\ mine[r] < s.created
        BY <1>3, <3>1, <4>1, PartsOf DEF ResetOf
      <4> QED BY <1>3, <2>1, <2>4, <4>2, PartsOf
    <3> QED BY <1>3, <3>1, PartsOf DEF Kinds
  <2> QED BY <1>3, <2>2, <2>4, <2>5, PartsOf DEF PromptOf, Prepared
<1>4. IndInv => PromptIsHistory
  <2> SUFFICES ASSUME IndInv PROVE PromptIsHistory
    OBVIOUS
  <2>1. OncePerRequest
    BY <1>1 DEF OncePerRequest
  <2>2. ResetForgets
    BY <1>2 DEF ResetForgets
  <2>3. NothingForgottenYet
    BY <1>3 DEF NothingForgottenYet
  <2> QED BY <2>1, <2>2, <2>3 DEF PromptIsHistory
<1> QED BY <1>4, Inductive, PTL
=============================================================================
