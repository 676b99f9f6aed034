---------------------------- MODULE Conversation ----------------------------
(***************************************************************************)
(* What one message sets off: ChannelMessageHandler (channel/handler.rs)   *)
(* finds the session of the conversation, routes a command or runs the     *)
(* agent loop (agent/agent_loop.rs) and answers; run_scheduled_job         *)
(* (scheduler/runner.rs) runs the same loop for a job.  Every Telegram     *)
(* update and every due job is a task of its own, so several runs of one   *)
(* conversation interleave at every await: each action below ends at one.  *)
(*                                                                         *)
(* A session is named by its creation time, the key later lookups order    *)
(* by; Utc::now is taken to be strictly increasing.  The messages table    *)
(* is kept as one sequence of rows for each run that writes them, a row as *)
(* its session and role.  Texts, the effects of tools, token counts and    *)
(* compaction are left out (see Compaction).                               *)
(***************************************************************************)
EXTENDS Naturals, Sequences, FiniteSets

CONSTANTS
    Messages,        \* inbound messages, each handled by a run of its own
    Jobs,            \* firings of scheduled jobs, likewise
    Addresses,       \* conversations, tool arguments included
    Senders,         \* people, and Unknown
    Unknown,         \* SenderIdentity "unknown" of a run without a sender
    OpenTo,          \* allowed_conversations of the policy; {} opens to all
    OpenFor,         \* allowed_senders of the policy; {} opens for all
    MaxIterations,   \* agent.max_tool_iterations
    MaxRetries,      \* llm.max_retries
    MaxActive,       \* bound: runs under way at a time
    MaxBatch,        \* bound: tool calls in one answer of the model
    MaxFaults        \* bound: failing statements and sends

ASSUME PolicyAssumption ==
    /\ Unknown \in Senders \ OpenFor
    /\ Addresses # {}
    /\ OpenTo \subseteq Addresses
    /\ OpenFor \subseteq Senders
ASSUME RunsAssumption == Messages \cap Jobs = {}
ASSUME BoundsAssumption ==
    /\ MaxIterations \in Nat
    /\ MaxRetries \in Nat
    /\ MaxActive \in Nat \ {0}
    /\ MaxBatch \in Nat \ {0}
    /\ MaxFaults \in Nat

VARIABLES
    pc,        \* the await a run is at
    kind,      \* of a message: "text" for the agent or the command "reset"
    addr,      \* the run's conversation
    sender,
    notify,    \* a job's notify_on_completion
    sessions,  \* table chat_sessions
    clock,     \* time stamps handed out
    mine,      \* the run's session; 0 before it is known
    stamp,     \* created_at of the session a run is about to insert
    log,       \* table messages: the rows each run has stored
    prompt,    \* rows the assembled prompt holds: <<run, index>>
    step,      \* finished iterations of the loop
    attempt,   \* retries of the current model call
    left,      \* tool calls of the batch still to execute
    told,      \* sent_user_message
    reply,     \* what the run will answer; "none" before
    outbox,    \* what the channel accepted: for whom, from which run and how
    result,    \* "ok" or "error" once the run has returned
    faults,
    before,    \* history: runs that had returned when this one started
    logAt      \* history: rows each run had stored when this reset came in

Runs == Messages \cup Jobs

store == <<sessions, clock, log>>
ident == <<kind, addr, sender, notify, before, logAt>>
locals == <<stamp, prompt, attempt, left, told, reply>>
vars == <<pc, ident, store, mine, step, locals, outbox, result, faults>>

Kinds == {"text", "reset"}
Replies == {"none", "text", "silent", "failure", "limit", "oversize", "command"}
Stages == {"idle", "lookup", "stamp", "insert", "route", "assemble", "save",
           "model", "tools", "persist", "reply", "send", "done"}

\* A row of the messages table.
Row == [session : Nat \ {0}, role : {"user", "exchange", "assistant"}]

IdentOK ==
    /\ kind \in [Runs -> Kinds]
    /\ addr \in [Runs -> Addresses]
    /\ sender \in [Runs -> Senders]
    /\ notify \in [Runs -> BOOLEAN]
    /\ before \in [Runs -> SUBSET Runs]
    /\ logAt \in [Runs -> [Runs -> Nat]]

StoreOK ==
    /\ sessions \subseteq [addr : Addresses, created : 1..clock, by : Runs]
    /\ clock \in Nat
    /\ log \in [Runs -> Seq(Row)]

LocalsOK ==
    /\ pc \in [Runs -> Stages]
    /\ mine \in [Runs -> 0..clock]
    /\ stamp \in [Runs -> 0..clock]
    /\ prompt \in [Runs -> SUBSET (Runs \X Nat)]
    /\ step \in [Runs -> 0..MaxIterations]
    /\ attempt \in [Runs -> 0..MaxRetries]
    /\ left \in [Runs -> 0..MaxBatch]
    /\ told \in [Runs -> BOOLEAN]
    /\ reply \in [Runs -> Replies]

OutcomeOK ==
    /\ outbox \subseteq [by : Runs, to : Addresses, what : {"tool", "reply"}]
    /\ result \in [Runs -> {"none", "ok", "error"}]
    /\ faults \in 0..MaxFaults

TypeOK == IdentOK /\ StoreOK /\ LocalsOK /\ OutcomeOK

-----------------------------------------------------------------------------
\* ChannelAccessPolicy::is_allowed: an empty list opens to everyone.
IsAllowed(a, s) ==
    /\ OpenTo = {} \/ a \in OpenTo
    /\ OpenFor = {} \/ s \in OpenFor

\* Mutant: the query without ORDER BY created_at DESC finds the oldest row.
OldestSession(a) ==
    LET rows == {s.created : s \in {t \in sessions : t.addr = a}}
    IN  IF rows = {} THEN 0 ELSE CHOOSE c \in rows : \A d \in rows : c <= d

\* get_session_for_address: the row with the latest created_at; 0 for none.
SessionFor(a) ==
    LET rows == {s.created : s \in {t \in sessions : t.addr = a}}
    IN  IF rows = {} THEN 0 ELSE CHOOSE c \in rows : \A d \in rows : d <= c

Rows(r) == {<<r, i>> : i \in DOMAIN log[r]}

RowsOf(session) ==
    UNION {{row \in Rows(r) : log[r][row[2]].session = session} : r \in Runs}

Init ==
    /\ pc = [r \in Runs |-> "idle"]
    /\ kind = [r \in Runs |-> "text"]
    /\ addr = [r \in Runs |-> CHOOSE a \in Addresses : TRUE]
    /\ sender = [r \in Runs |-> Unknown]
    /\ notify = [r \in Runs |-> FALSE]
    /\ sessions = {} /\ clock = 0 /\ log = [r \in Runs |-> <<>>] /\ outbox = {}
    /\ mine = [r \in Runs |-> 0]
    /\ stamp = [r \in Runs |-> 0]
    /\ prompt = [r \in Runs |-> {}]
    /\ step = [r \in Runs |-> 0]
    /\ attempt = [r \in Runs |-> 0]
    /\ left = [r \in Runs |-> 0]
    /\ told = [r \in Runs |-> FALSE]
    /\ reply = [r \in Runs |-> "none"]
    /\ result = [r \in Runs |-> "none"]
    /\ faults = 0
    /\ before = [r \in Runs |-> {}]
    /\ logAt = [r \in Runs |-> [q \in Runs |-> 0]]

Goto(r, stage) == pc' = [pc EXCEPT ![r] = stage]
Stay(r, stage) == Goto(r, stage) /\ UNCHANGED <<result, locals>>
\* The run's future ends, and its local variables with it.
Return(r, how) ==
    /\ Goto(r, "done")
    /\ result' = [result EXCEPT ![r] = how]
    /\ stamp' = [stamp EXCEPT ![r] = 0]
    /\ prompt' = [prompt EXCEPT ![r] = {}]
    /\ attempt' = [attempt EXCEPT ![r] = 0]
    /\ left' = [left EXCEPT ![r] = 0]
    /\ told' = [told EXCEPT ![r] = FALSE]
    /\ reply' = [reply EXCEPT ![r] = "none"]
\* Mutant: a row is written to the session the conversation has by now.
RecordInNewest(r, role) ==
    log' = [log EXCEPT ![r] = Append(@, [session |-> SessionFor(addr[r]), role |-> role])]

Record(r, role) ==
    log' = [log EXCEPT ![r] = Append(@, [session |-> mine[r], role |-> role])]
Deliver(r, a, what) == outbox' = outbox \cup {[by |-> r, to |-> a, what |-> what]}

\* One more statement or request fails.
Faulty ==
    /\ faults < MaxFaults
    /\ faults' = faults + 1

-----------------------------------------------------------------------------
Start(r, k, a, s) ==
    /\ pc[r] = "idle"
    /\ Cardinality({q \in Runs : pc[q] \notin {"idle", "done"}}) < MaxActive
    /\ kind' = [kind EXCEPT ![r] = k]
    /\ addr' = [addr EXCEPT ![r] = a]
    /\ sender' = [sender EXCEPT ![r] = s]
    /\ before' = [before EXCEPT ![r] = {q \in Runs : pc[q] = "done"}]
    /\ logAt' = IF k = "reset" THEN [logAt EXCEPT ![r] = [q \in Runs |-> Len(log[q])]]
                              ELSE logAt
    /\ UNCHANGED <<store, mine, step, outbox, faults>>

\* handle_rich_message: the allowlist comes before everything else.
Receive(r) ==
    \E k \in {"text", "reset"}, a \in Addresses, s \in Senders \ {Unknown} :
        /\ Start(r, k, a, s)
        /\ IF IsAllowed(a, s)
             THEN Stay(r, "lookup")
             ELSE Return(r, "error")
        /\ UNCHANGED notify

\* run_scheduled_job: a job of an allowed conversation, with no sender.
Fire(r) ==
    \E a \in {b \in Addresses : OpenTo = {} \/ b \in OpenTo}, n \in BOOLEAN :
        /\ Start(r, "text", a, Unknown)
        /\ notify' = [notify EXCEPT ![r] = n]
        /\ Stay(r, "lookup")

\* A failing statement before the loop, or the store of a reply, ends the run
\* with the error: nothing is answered (the ? of handler.rs and runner.rs).
StatementFails(r) ==
    /\ pc[r] \in {"lookup", "insert", "route", "assemble", "save", "reply"}
    /\ Faulty
    /\ Return(r, "error")
    /\ UNCHANGED <<ident, store, mine, step, outbox>>

\* Mutant: every run creates a session of its own.
AlwaysNewSession(r) ==
    /\ pc[r] = "lookup"
    /\ Goto(r, "stamp")
    /\ UNCHANGED <<ident, store, mine, step, locals, outbox, result, faults>>

\* get_session_for_address; with no row create_session follows.
FindSession(r) ==
    /\ pc[r] = "lookup"
    /\ IF SessionFor(addr[r]) = 0
         THEN Goto(r, "stamp") /\ UNCHANGED mine
         ELSE /\ mine' = [mine EXCEPT ![r] = SessionFor(addr[r])]
              /\ Goto(r, IF r \in Jobs THEN "assemble" ELSE "route")
    /\ UNCHANGED <<ident, store, step, locals, outbox, result, faults>>

\* ChatSession::new stamps the row before it is inserted.
StampSession(r) ==
    /\ pc[r] = "stamp"
    /\ clock' = clock + 1
    /\ stamp' = [stamp EXCEPT ![r] = clock + 1]
    /\ Goto(r, "insert")
    /\ UNCHANGED <<ident, sessions, log, mine, step, prompt, attempt, left, told, reply, outbox,
                   result, faults>>

\* The INSERT of create_session: for a first message or job, and for
\* /reset_context, which keeps the old session for its own two messages.
InsertSession(r) ==
    /\ pc[r] = "insert"
    /\ sessions' = sessions \cup {[addr |-> addr[r], created |-> stamp[r], by |-> r]}
    /\ IF mine[r] = 0
         THEN /\ mine' = [mine EXCEPT ![r] = stamp[r]]
              /\ Goto(r, IF r \in Jobs THEN "assemble" ELSE "route")
              /\ UNCHANGED reply
         ELSE /\ reply' = [reply EXCEPT ![r] = "command"]
              /\ Goto(r, "reply")
              /\ UNCHANGED mine
    /\ UNCHANGED <<ident, clock, log, step, stamp, prompt, attempt, left, told, outbox,
                   result, faults>>

\* update_session, then route_rich_message: a command is stored and handled.
Route(r) ==
    /\ pc[r] = "route"
    /\ IF kind[r] = "reset"
         THEN Record(r, "user") /\ Goto(r, "stamp")
         ELSE Goto(r, "assemble") /\ UNCHANGED log
    /\ UNCHANGED <<ident, sessions, clock, mine, step, locals, outbox, result, faults>>

\* assemble_prepared_messages reads the session's rows; the current message
\* is appended to them and not yet stored.  A prompt over the budget is
\* answered without a model call.  A job starts from its own prompt.
Assemble(r) ==
    /\ pc[r] = "assemble"
    /\ prompt' = [prompt EXCEPT ![r] = IF r \in Jobs THEN {} ELSE RowsOf(mine[r])]
    /\ \/ UNCHANGED reply
       \/ r \in Messages /\ reply' = [reply EXCEPT ![r] = "oversize"]
    /\ Goto(r, "save")
    /\ UNCHANGED <<ident, store, mine, stamp, step, attempt, left, told, outbox, result, faults>>

\* The top of the loop: another request, or MaxToolIterationsExceeded.
NextIteration(r, n) ==
    IF n < MaxIterations
      THEN Goto(r, "model") /\ UNCHANGED reply
      ELSE /\ Goto(r, IF r \in Jobs THEN "send" ELSE "reply")
           /\ reply' = [reply EXCEPT ![r] = "limit"]

\* create_message of the user's prompt, before any tool runs.
SavePrompt(r) ==
    /\ pc[r] = "save"
    /\ Record(r, "user")
    /\ IF reply[r] = "oversize"
         THEN Goto(r, "reply") /\ UNCHANGED reply
         ELSE NextIteration(r, 0)
    /\ UNCHANGED <<ident, sessions, clock, mine, step, stamp, prompt, attempt, left, told,
                   outbox, result, faults>>

\* Mutant: one retry more than max_retries.
RetriesOnceMore(r) ==
    /\ pc[r] = "model"
    /\ attempt[r] <= MaxRetries
    /\ attempt' = [attempt EXCEPT ![r] = @ + 1]
    /\ UNCHANGED <<pc, ident, store, mine, stamp, prompt, step, left, told,
                   reply, outbox, result, faults>>

\* LlmClient::complete: a transient error is retried up to max_retries times.
ModelRetries(r) ==
    /\ pc[r] = "model"
    /\ attempt[r] < MaxRetries
    /\ attempt' = [attempt EXCEPT ![r] = @ + 1]
    /\ UNCHANGED <<pc, ident, store, mine, stamp, prompt, step, left, told,
                   reply, outbox, result, faults>>

\* Any other error, or a transient one after the last retry, ends the loop.
ModelFails(r) ==
    /\ pc[r] = "model"
    /\ reply' = [reply EXCEPT ![r] = "failure"]
    /\ Goto(r, IF r \in Jobs THEN "send" ELSE "reply")
    /\ UNCHANGED <<ident, store, mine, step, stamp, prompt, attempt, left, told, outbox,
                   result, faults>>

\* An answer without tool calls: FinalText, or Silent when it has no text.  A
\* silent job stores no reply.
ModelAnswers(r) ==
    /\ pc[r] = "model"
    /\ \E what \in {"text", "silent"} :
        /\ reply' = [reply EXCEPT ![r] = what]
        /\ Goto(r, IF r \in Jobs /\ what = "silent" THEN "send" ELSE "reply")
    /\ UNCHANGED <<ident, store, mine, step, stamp, prompt, attempt, left, told, outbox,
                   result, faults>>

\* An answer with tool calls, after the access test of a run with a sender.
ModelCallsTools(r) ==
    /\ pc[r] = "model"
    /\ r \in Jobs \/ IsAllowed(addr[r], sender[r])
    /\ \E n \in 1..MaxBatch : left' = [left EXCEPT ![r] = n]
    /\ attempt' = [attempt EXCEPT ![r] = 0]
    /\ Goto(r, "tools")
    /\ UNCHANGED <<ident, store, mine, stamp, prompt, step, told, reply, outbox,
                   result, faults>>

\* Calls run one after the other; an error becomes the call's result.
ToolReturns(r) ==
    /\ pc[r] = "tools"
    /\ left' = [left EXCEPT ![r] = @ - 1]
    /\ Goto(r, IF left[r] = 1 THEN "persist" ELSE "tools")

\* Any other tool.
OtherTool(r) ==
    /\ ToolReturns(r)
    /\ UNCHANGED <<ident, store, mine, stamp, prompt, step, attempt, told, reply,
                   outbox, result, faults>>

\* Mutant: the run's own conversation is tested, not the one written to.
SendUnchecked(r) ==
    /\ ToolReturns(r)
    /\ \E to \in Addresses :
        IF IsAllowed(addr[r], sender[r])
          THEN /\ Deliver(r, to, "tool")
               /\ told' = [told EXCEPT ![r] = TRUE]
               /\ UNCHANGED faults
          ELSE UNCHANGED <<outbox, told, faults>>
    /\ UNCHANGED <<ident, store, mine, stamp, prompt, step, attempt, reply, result>>

\* send_user_message to an address of the model's choice or the run's own; a
\* run without a sender is tested as Unknown.
SendUserMessage(r) ==
    /\ ToolReturns(r)
    /\ \E to \in Addresses :
        IF IsAllowed(to, sender[r])
          THEN \/ /\ Deliver(r, to, "tool")
                  /\ told' = [told EXCEPT ![r] = TRUE]
                  /\ UNCHANGED faults
               \/ Faulty /\ UNCHANGED <<outbox, told>>
          ELSE UNCHANGED <<outbox, told, faults>>
    /\ UNCHANGED <<ident, store, mine, stamp, prompt, step, attempt, reply, result>>

\* create_tool_exchange stores the calls and their results in one transaction,
\* before the next request.
PersistExchange(r) ==
    /\ pc[r] = "persist"
    /\ Record(r, "exchange")
    /\ step' = [step EXCEPT ![r] = @ + 1]
    /\ NextIteration(r, step[r] + 1)
    /\ UNCHANGED <<ident, sessions, clock, mine, stamp, prompt, attempt, left, told,
                   outbox, result, faults>>

\* Its failure ends the loop with an error that is answered.
PersistFails(r) ==
    /\ pc[r] = "persist"
    /\ Faulty
    /\ reply' = [reply EXCEPT ![r] = "failure"]
    /\ Goto(r, IF r \in Jobs THEN "send" ELSE "reply")
    /\ UNCHANGED <<ident, store, mine, step, stamp, prompt, attempt, left, told, outbox,
                   result>>

\* The reply is stored before it is sent.
StoreReply(r) ==
    /\ pc[r] = "reply"
    /\ Record(r, "assistant")
    /\ Goto(r, "send")
    /\ UNCHANGED <<ident, sessions, clock, mine, step, locals, outbox, result, faults>>

\* handle_event: the reply goes to the conversation of the message.
SendReply(r) ==
    /\ pc[r] = "send" /\ r \in Messages
    /\ \/ Deliver(r, addr[r], "reply") /\ Return(r, "ok") /\ UNCHANGED faults
       \/ Faulty /\ Return(r, "error") /\ UNCHANGED outbox
    /\ UNCHANGED <<ident, store, mine, step>>

\* Mutant: the owner is notified although the run has written to someone.
NotifyAnyway(r) ==
    /\ pc[r] = "send" /\ r \in Jobs
    /\ Return(r, IF reply[r] \in {"failure", "limit"} THEN "error" ELSE "ok")
    /\ IF notify[r] THEN Deliver(r, addr[r], "reply") ELSE UNCHANGED outbox
    /\ UNCHANGED <<ident, store, mine, step, faults>>

\* The end of run_scheduled_job: a failure is always notified; a success only
\* if asked for and not already told by the run.  A failed send is logged.
NotifyOwner(r) ==
    /\ pc[r] = "send" /\ r \in Jobs
    /\ LET failed == reply[r] \in {"failure", "limit"}
       IN  /\ Return(r, IF failed THEN "error" ELSE "ok")
           /\ IF failed \/ (notify[r] /\ ~told[r])
                THEN \/ Deliver(r, addr[r], "reply") /\ UNCHANGED faults
                     \/ Faulty /\ UNCHANGED outbox
                ELSE UNCHANGED <<outbox, faults>>
    /\ UNCHANGED <<ident, store, mine, step>>

-----------------------------------------------------------------------------
Step(r) ==
    \/ FindSession(r) \/ StampSession(r) \/ InsertSession(r) \/ Route(r)
    \/ Assemble(r) \/ SavePrompt(r)
    \/ ModelRetries(r) \/ ModelFails(r) \/ ModelAnswers(r) \/ ModelCallsTools(r)
    \/ OtherTool(r) \/ SendUserMessage(r) \/ PersistExchange(r) \/ PersistFails(r)
    \/ StoreReply(r) \/ SendReply(r) \/ NotifyOwner(r)

Next ==
    \/ \E r \in Messages : Receive(r)
    \/ \E r \in Jobs : Fire(r)
    \/ \E r \in Runs : Step(r) \/ StatementFails(r)

Spec == Init /\ [][Next]_vars

-----------------------------------------------------------------------------
(***************************************************************************)
(* Properties.                                                             *)
(***************************************************************************)
Returned(r) == pc[r] = "done"
Roles(r) == [i \in DOMAIN log[r] |-> log[r][i].role]
Sent(r, what) == {m \in outbox : m.by = r /\ m.what = what}

\* A message the policy does not allow leaves no trace: no session, no row,
\* nothing sent (the allowlist test of handle_rich_message comes first).
StrangersLeaveNoTrace ==
    \A r \in Runs :
        r \in Messages /\ ~IsAllowed(addr[r], sender[r]) =>
            /\ \A s \in sessions : s.by # r
            /\ log[r] = <<>> /\ Sent(r, "tool") = {} /\ Sent(r, "reply") = {}

\* Every message sent by a tool or as a reply goes to a conversation the
\* policy opens, whoever chose the address.
OnlyOpenConversations ==
    \A m \in outbox : OpenTo = {} \/ m.to \in OpenTo

\* What the access policy promises, of messages in and messages out.
PolicyHolds == StrangersLeaveNoTrace /\ OnlyOpenConversations

\* The rows of a run are its prompt, its exchanges in order and at most one
\* reply, all in the one session it found, whatever other runs and resets do
\* meanwhile; a model call follows the storage of all earlier exchanges, and
\* an answer a person has seen is among them.
HistoryFollowsRun ==
    \A r \in Runs :
        /\ \A i \in DOMAIN log[r] : log[r][i].session = mine[r]
        /\ Roles(r) \in
             {<<>>} \cup {<<"user">> \o [i \in 1..step[r] |-> "exchange"] \o end :
                              end \in {<<>>, <<"assistant">>}}
        /\ pc[r] \in {"model", "tools", "persist"} => Len(Roles(r)) = step[r] + 1
        /\ r \in Messages /\ Sent(r, "reply") # {} => Roles(r)[Len(log[r])] = "assistant"

\* The current message occurs exactly once in the request: the assembled rows
\* hold none of the run's own.
OncePerRequest == \A r \in Runs : prompt[r] \cap Rows(r) = {}

\* /reset_context keeps its word: a message that comes in after the reset was
\* confirmed never gets a row stored before the reset came in.
ResetForgets ==
    \A r, q \in Runs :
        /\ q \in before[r] /\ kind[q] = "reset" /\ result[q] = "ok"
        /\ addr[q] = addr[r]
        => \A row \in prompt[r] : row[2] > logAt[q][row[1]]

\* A conversation gets a second session only by a reset or by runs that
\* overlapped at first contact: never after the creator of the first returned.
SplitOnlyAtFirstContact ==
    \A s, t \in sessions :
        s.addr = t.addr /\ kind[s.by] # "reset" => t.by \notin before[s.by]

\* Where there was neither a split nor a reset, whatever an earlier run stored
\* is in the prompt of a later message.
NothingForgottenYet ==
    \A r, q \in Runs :
        /\ q \in before[r] /\ addr[q] = addr[r] /\ r \in Messages
        /\ pc[r] \in {"save", "model", "tools", "persist", "send"}
        /\ Cardinality({s \in sessions : s.addr = addr[r]}) = 1
        => Rows(q) \subseteq prompt[r]

\* What the model reads of the history is neither too much nor too little.
PromptIsHistory == OncePerRequest /\ ResetForgets /\ NothingForgottenYet

\* The owner of a job that asked for it hears of every run that succeeded,
\* from a tool or from the closing notification and not from both.
OwnerIsToldOnce ==
    \A r \in Runs :
        r \in Jobs /\ result[r] = "ok" /\ faults = 0 =>
            (Sent(r, "reply") # {}) = (notify[r] /\ Sent(r, "tool") = {})
=============================================================================
