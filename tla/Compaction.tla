----------------------------- MODULE Compaction -----------------------------
(***************************************************************************)
(* The history of one chat session and its background compaction: the      *)
(* handlers and scheduled runs that store messages, the compaction service *)
(* with its in-memory state, the worker that turns old messages into a     *)
(* summary, and the rows of messages and context_summaries both share.     *)
(*                                                                         *)
(* A message is numbered by its created_at, the order list_messages reads  *)
(* it in.  created_at is taken before the INSERT runs, so a message may be *)
(* stored after messages with a greater number have been read.             *)
(***************************************************************************)
EXTENDS Integers, FiniteSets

CONSTANTS
  Handlers,    \* tasks that write to the session: chat handlers, scheduled runs
  Workers,     \* slots for the compaction tasks that are alive
  Preserve,    \* [context] recent_turns_to_preserve
  MaxRows,     \* bound on the messages
  MaxCrashes   \* bound on the crashes of the process

ASSUME ConstantsAssumption ==
  Preserve \in Nat /\ MaxRows \in Nat /\ MaxCrashes \in Nat

Rows == 1 .. MaxRows

VARIABLES
  stamped,    \* the messages 1 .. stamped have a created_at
  kind,       \* what each of them is
  stored,     \* the messages that have a row
  summaries,  \* the rows of context_summaries
  made,       \* number of summaries ever created: the latest has the last id
  svc,        \* CompactionService.state of the session
  op,         \* what each handler is doing
  worker,     \* what each compaction task is doing
  crashes,    \* counter, only for the bound
  exchanges,  \* history: the <<call, result>> pairs that were stored
  overtaken   \* history: messages stored behind a whole preserve window

rows == <<stamped, kind, stored, exchanges, overtaken>>
db   == <<rows, summaries, made>>
vars == <<db, svc, op, worker, crashes>>

-----------------------------------------------------------------------------
(* Rows and summaries *)

Newer(S, i) == {j \in S : j > i}

\* The coverage of a summary: the messages up to `through` are replaced by
\* its text, which was written from the messages in `gist`.
NoSummary == [id |-> 0, through |-> 0, gist |-> {}]

\* get_latest_summary
IsLatest(s) ==
  IF summaries = {} THEN s = NoSummary
  ELSE s \in summaries /\ \A t \in summaries : t.id <= s.id

\* k belongs to a tool batch of R: a call and the results that follow it.
InBatch(R, k) ==
  \E c \in R : c <= k /\ kind[c] = "call"
               /\ \A i \in R : c < i /\ i <= k => kind[i] = "result"

\* Mutant: every row is a unit of its own.
Mutant_EndsUnit(R, k) == TRUE

\* No unit of R goes on after row k.
EndsUnit(R, k) ==
  ~ \E r \in R : /\ r > k /\ kind[r] = "result" /\ InBatch(R, k)
                 /\ \A i \in R : ~(k < i /\ i < r)

\* The ends of whole units that leave the recent window alone.
Boundaries(R) ==
  {k \in R : EndsUnit(R, k) /\ Cardinality(Newer(R, k)) >= Preserve}

\* A commit of the messages N.  Those that come behind a whole preserve
\* window of stored messages may be behind a boundary already.
Store(N) ==
  /\ stored' = stored \cup N
  /\ overtaken' = overtaken \cup
       {i \in N : Cardinality(Newer(stored, i)) >= Preserve}

-----------------------------------------------------------------------------
(* State shapes *)

Kinds == {"none", "plain", "call", "result"}

\* What a handler serves: a chat message, a command, a scheduled job.
Modes == {"message", "command", "scheduled"}

OpPcs == {"idle", "history", "user", "userInsert", "agent", "exchange",
          "check", "reply", "replyInsert"}

\* A handler at pc with no message of its own yet.
At(pc, m, s) == [pc |-> pc, mode |-> m, row |-> 0, sum |-> s]
NoOp == At("idle", "message", NoSummary)

\* The compaction task at pc, with the summary it read and the one it makes.
WorkerPcs == {"none", "summary", "select", "model", "create", "delete", "finish"}
NoWork == [pc |-> "none", old |-> NoSummary, new |-> NoSummary]
Active(w) == worker[w].pc # "none"

Init ==
  /\ stamped = 0 /\ kind = [i \in Rows |-> "none"] /\ stored = {}
  /\ summaries = {} /\ made = 0
  /\ svc = "Idle"
  /\ op = [h \in Handlers |-> NoOp]
  /\ worker = [w \in Workers |-> NoWork]
  /\ crashes = 0 /\ exchanges = {} /\ overtaken = {}

-----------------------------------------------------------------------------
(* Handlers and scheduled runs *)

Goto(h, pc) == op' = [op EXCEPT ![h].pc = pc]

\* A chat message: the context is assembled from the latest summary ...
StartMessage(h) ==
  /\ op[h] = NoOp
  /\ \E s \in summaries \cup {NoSummary} :
       IsLatest(s) /\ op' = [op EXCEPT ![h] = At("history", "message", s)]
  /\ UNCHANGED <<db, svc, worker, crashes>>

\* ... and the rows after it, before the message itself is stored.
ReadHistory(h) ==
  /\ op[h].pc = "history"
  /\ Goto(h, "user")
  /\ UNCHANGED <<db, svc, worker, crashes>>

\* A command or a scheduled run stores its prompt without reading history.
StartOther(h) ==
  /\ op[h] = NoOp
  /\ \E m \in {"command", "scheduled"} :
       op' = [op EXCEPT ![h] = At("user", m, NoSummary)]
  /\ UNCHANGED <<db, svc, worker, crashes>>

\* The created_at of the next message of handler h, which goes to pc.
Stamp(h, k, pc) ==
  /\ stamped < MaxRows
  /\ stamped' = stamped + 1
  /\ kind' = [kind EXCEPT ![stamped + 1] = k]
  /\ op' = [op EXCEPT ![h].pc = pc, ![h].row = stamped + 1]
  /\ UNCHANGED <<stored, exchanges, overtaken, summaries, made, svc, worker, crashes>>

StampPrompt(h) == op[h].pc = "user"  /\ Stamp(h, "plain", "userInsert")
StampReply(h)  == op[h].pc = "reply" /\ Stamp(h, "plain", "replyInsert")

\* The prompt is stored.  A command, and a message that exceeds the context
\* budget, are answered at once; the rest run the agent.
InsertPrompt(h) ==
  /\ op[h].pc = "userInsert"
  /\ Store({op[h].row})
  /\ \E pc \in (IF op[h].mode = "message" THEN {"agent", "reply"}
                ELSE IF op[h].mode = "command" THEN {"reply"} ELSE {"agent"}) :
       Goto(h, pc)
  /\ UNCHANGED <<stamped, kind, exchanges, summaries, made, svc, worker, crashes>>

InsertReply(h) ==
  /\ op[h].pc = "replyInsert"
  /\ Store({op[h].row})
  /\ op' = [op EXCEPT ![h] = NoOp]
  /\ UNCHANGED <<stamped, kind, exchanges, summaries, made, svc, worker, crashes>>

\* create_tool_exchange: the call is stamped, then its INSERT takes the write
\* lock of the database, the result is stamped and both are committed.
StampCall(h) == op[h].pc = "agent" /\ Stamp(h, "call", "exchange")

CommitExchange(h) ==
  /\ op[h].pc = "exchange"
  /\ stamped < MaxRows
  /\ stamped' = stamped + 1
  /\ kind' = [kind EXCEPT ![stamped + 1] = "result"]
  /\ Store({op[h].row, stamped + 1})
  /\ exchanges' = exchanges \cup {<<op[h].row, stamped + 1>>}
  /\ Goto(h, "agent")
  /\ UNCHANGED <<summaries, made, svc, worker, crashes>>

\* The agent loop ends.  A chat message that used many tokens checks for
\* compaction first; a scheduled run that ends silent stores no reply.
AgentEnds(h) ==
  /\ op[h].pc = "agent"
  /\ \/ op[h].mode = "message" /\ \E pc \in {"check", "reply"} : Goto(h, pc)
     \/ op[h].mode = "scheduled" /\ Goto(h, "reply")
     \/ op[h].mode = "scheduled" /\ op' = [op EXCEPT ![h] = NoOp]
  /\ UNCHANGED <<db, svc, worker, crashes>>

\* check_session finds no pressure, or fails, which is only logged.
CheckBelow(h) ==
  /\ op[h].pc = "check"
  /\ Goto(h, "reply")
  /\ UNCHANGED <<db, svc, worker, crashes>>

\* Mutant: a running compaction does not stop another one from starting.
Mutant_Trigger(h) ==
  /\ op[h].pc = "check"
  /\ svc' = "Running"
  /\ \E w \in Workers :
       /\ ~Active(w)
       /\ worker' = [worker EXCEPT ![w].pc = "summary"]
  /\ Goto(h, "reply")
  /\ UNCHANGED <<db, crashes>>

\* trigger_compaction, under the lock of the state map.
Trigger(h) ==
  /\ op[h].pc = "check"
  /\ \/ /\ svc = "Idle"
        /\ svc' = "Running"
        /\ \E w \in Workers :
             /\ ~Active(w)
             /\ worker' = [worker EXCEPT ![w].pc = "summary"]
     \/ /\ svc # "Idle"
        /\ svc' = "RunningAndDirty"
        /\ UNCHANGED worker
  /\ Goto(h, "reply")
  /\ UNCHANGED <<db, crashes>>

\* A statement fails.  A failed exchange ends the agent loop, which a chat
\* answers with the error; any other failure ends the handler.
HandlerFails(h) ==
  /\ \/ /\ op[h].pc \in {"history", "user", "userInsert", "reply", "replyInsert"}
        /\ op' = [op EXCEPT ![h] = NoOp]
     \/ /\ op[h].pc \in {"agent", "exchange"} /\ op[h].mode = "scheduled"
        /\ op' = [op EXCEPT ![h] = NoOp]
     \/ op[h].pc = "exchange" /\ op[h].mode = "message" /\ Goto(h, "reply")
  /\ UNCHANGED <<db, svc, worker, crashes>>

-----------------------------------------------------------------------------
(* CompactionWorker::compact and the task around it *)

WorkerReads(w) ==
  /\ worker[w].pc = "summary"
  /\ \E s \in summaries \cup {NoSummary} :
       IsLatest(s) /\ worker' = [worker EXCEPT ![w] =
                       [pc |-> "select", old |-> s, new |-> NoSummary]]
  /\ UNCHANGED <<db, svc, op, crashes>>

\* Mutant: the new text is written from the new messages only.
Mutant_WorkerSelects(w) ==
  /\ worker[w].pc = "select"
  /\ LET old == worker[w].old
         R   == Newer(stored, old.through)
     IN \E k \in Boundaries(R) :
          worker' = [worker EXCEPT ![w] = [pc |-> "model", old |-> old,
            new |-> [id |-> 0, through |-> k, gist |-> {i \in R : i <= k}]]]
  /\ UNCHANGED <<db, svc, op, crashes>>

\* The rows are listed and an oldest prefix of whole units is chosen: as much
\* of what precedes the recent window as fits the input budget.
WorkerSelects(w) ==
  /\ worker[w].pc = "select"
  /\ LET old == worker[w].old
         R   == Newer(stored, old.through)
     IN \E k \in Boundaries(R) :
          worker' = [worker EXCEPT ![w] = [pc |-> "model", old |-> old,
            new |-> [id |-> 0, through |-> k,
                     gist |-> old.gist \cup {i \in R : i <= k}]]]
  /\ UNCHANGED <<db, svc, op, crashes>>

ModelReplies(w) ==
  /\ worker[w].pc = "model"
  /\ worker' = [worker EXCEPT ![w].pc = "create"]
  /\ UNCHANGED <<db, svc, op, crashes>>

WorkerCreates(w) ==
  /\ worker[w].pc = "create"
  /\ made' = made + 1
  /\ summaries' = summaries \cup {[worker[w].new EXCEPT !.id = made + 1]}
  /\ worker' = [worker EXCEPT ![w].pc =
                  IF worker[w].old = NoSummary THEN "finish" ELSE "delete"]
  /\ UNCHANGED <<rows, svc, op, crashes>>

\* Mutant: the latest summary is deleted, not the one that was read.
Mutant_WorkerDeletes(w) ==
  /\ worker[w].pc = "delete"
  /\ summaries' = {s \in summaries : ~IsLatest(s)}
  /\ worker' = [worker EXCEPT ![w].pc = "finish"]
  /\ UNCHANGED <<rows, made, svc, op, crashes>>

\* delete_old_summary; a failure leaves the old summary behind.
WorkerDeletes(w) ==
  /\ worker[w].pc = "delete"
  /\ \/ summaries' = summaries \ {worker[w].old}
     \/ UNCHANGED summaries
  /\ worker' = [worker EXCEPT ![w].pc = "finish"]
  /\ UNCHANGED <<rows, made, svc, op, crashes>>

\* A statement or the model fails, or there is nothing to compact.
WorkerStops(w) ==
  /\ worker[w].pc \in {"summary", "select", "model", "create"}
  /\ worker' = [worker EXCEPT ![w].pc = "finish"]
  /\ UNCHANGED <<db, svc, op, crashes>>

\* Mutant: a dirty session is left as it is.
Mutant_WorkerFinishes(w) ==
  /\ worker[w].pc = "finish"
  /\ svc' = IF svc = "RunningAndDirty" THEN svc ELSE "Idle"
  /\ worker' = [worker EXCEPT ![w] = NoWork]
  /\ UNCHANGED <<db, op, crashes>>

\* The state becomes Idle, dirty or not.
WorkerFinishes(w) ==
  /\ worker[w].pc = "finish"
  /\ svc' = "Idle"
  /\ worker' = [worker EXCEPT ![w] = NoWork]
  /\ UNCHANGED <<db, op, crashes>>

-----------------------------------------------------------------------------
(* The process dies and is started again *)

Crash ==
  /\ crashes < MaxCrashes
  /\ crashes' = crashes + 1
  /\ svc' = "Idle"
  /\ op' = [h \in Handlers |-> NoOp]
  /\ worker' = [w \in Workers |-> NoWork]
  /\ UNCHANGED db

HandlerStep(h) ==
  \/ StartMessage(h) \/ ReadHistory(h) \/ StartOther(h)
  \/ StampPrompt(h) \/ InsertPrompt(h) \/ StampReply(h) \/ InsertReply(h)
  \/ StampCall(h) \/ CommitExchange(h) \/ AgentEnds(h)
  \/ CheckBelow(h) \/ Trigger(h) \/ HandlerFails(h)

WorkerStep(w) ==
  \/ WorkerReads(w) \/ WorkerSelects(w) \/ ModelReplies(w) \/ WorkerCreates(w)
  \/ WorkerDeletes(w) \/ WorkerStops(w) \/ WorkerFinishes(w)

Next ==
  \/ \E h \in Handlers : HandlerStep(h)
  \/ \E w \in Workers : WorkerStep(w)
  \/ Crash

Spec == Init /\ [][Next]_vars

\* Nothing is assumed of the users, the handlers and crashes.  The task of a
\* compaction is polled until it ends, if the model answers at all.
Fairness == \A w \in Workers : WF_vars(WorkerStep(w))
FairSpec == Spec /\ Fairness
=============================================================================
