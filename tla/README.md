# A verification project for nerdbot

nerdbot is a self-hosted chat agent written in Rust on tokio. It receives
messages from Telegram and Zulip, runs an LLM agent loop with tools, keeps its
history in SQLite, summarises old history in the background, calls MCP servers,
and runs scheduled jobs. This directory models it in TLA+,
model-checks the models on small instances with TLC, and proves the properties
that matter most for every instance with TLAPS. `PROJECT.json` maps every
definition to the lines of the source it stands for.

Paths below are relative to the repository; `service.rs` without a directory is
`src/scheduler/service.rs`.
## The system

| Part | State it keeps | Operations | What makes it correct |
|---|---|---|---|
| Scheduler (`src/scheduler`) | the `scheduled_jobs` table; the background loop, its `Notify`, its shutdown channel and the handles of spawned runs | start with a reload of the enabled rows, the loop (fetch, decide, mark, spawn, wait), the runs, stop | a due job starts once, a cron job stays armed, no wakeup is lost, a delete is final, stop waits for every run |
| Job tools and commands (`src/tools/schedule.rs`, `src/telegram/commands.rs`) | none | create, delete, run now, list | their read-then-write pairs respect what the scheduler does in between |
| Compaction (`src/context/compaction_*.rs`) | `context_summaries`, the per-session state map of the service | pressure check, trigger, background worker | no history leaves the context without being summarised, one worker per session, a boundary never moves back |
| Context and history (`src/context`) | `messages` | assemble a bounded request, normalise tool exchanges, estimate | a request fits the budget and never splits a tool exchange |
| Agent loop (`src/agent`) | the working messages of one run | call the LLM, check access, run tools, persist the exchange, bounded iterations | every persisted exchange is complete, access is checked before tools run, the loop ends |
| Message handler (`src/channel/handler.rs`) | `chat_sessions` | access check, session lookup or creation, command or agent, persist, reply, compaction check | one session per conversation, every accepted message is stored before its tools run and is answered |
| Telegram and Zulip ingress (`src/telegram`, `src/zulip`) | poll offset or event queue, pending buffer, handler tasks | poll, webhook receive, dispatch, retry, drain | a process handles an update once and in order; Telegram loses none, Zulip those of the cases below only; shutdown drains what was accepted |
| Webhook server (`src/webhook.rs`) | bounded queues to the ingress loops | authenticate, enqueue, stop | an acknowledged update reaches its ingress loop |
| MCP client and manager (`src/mcp`) | one session per server behind a mutex, the shutdown flag | connect, call, list tools, reconnect, shut down | a call is dispatched at most once, a broken session is never reused, nothing opens after shutdown |
| Tool registry (`src/tools/registry.rs`) | the tools by name | register a batch, execute | names stay unique, a failed batch leaves nothing |
| Tools: shell, files, web, messaging, calculator, echo | none, or the workspace directory | one execution per call | time-outs, sandbox, access policy |
| LLM client (`src/llm`) | none | complete with retries | only transient errors are retried, at most `max_retries` times |
| Diagnostics (`src/diagnostics`) | a Unix socket | ping, list, show, stop | the socket is not stolen and not left behind |
| Config, onboarding, attachments, markdown, errors | none at run time | parsing, conversion | input-output functions |
| Process life cycle (`src/main.rs`) | the runtime's parts | build, run, graceful shutdown, abnormal exit | parts stop in an order in which none is used after it stopped |

How they interact. `run_runtime` starts the scheduler, then the ingress loops;
each accepted message runs the message handler (Telegram: one task per message;
Zulip: one after the other), which shares the SQLite pool, the tool registry, the
MCP sessions, the scheduler's `Notify` and the compaction service with every other
handler and with the scheduled runs. Nothing but SQLite statements, two mutexes
(the MCP session, the compaction state map) and the loop's channels orders them.

What is hard here: every `await` is a point where another task runs, so a row that
was read is old when it is used; statements fail one at a time; the process may
die between any two statements and the next start reads what is left; shutdown
arrives at any await point.
## Plan

In the order of what matters most to a user of the program. Every module has its
parameters as constants with named assumptions, one action per statement or await
point, and an invariant in named parts in a module of its own.

| Step | Modules | Abstract specification or composition | Theorems | State |
|---|---|---|---|---|
| 1 | `Scheduler` | none | inductive invariant, nine properties | done |
| 2 | `Compaction` | none | inductive invariant, coverage never shrinks | done |
| 3 | `McpClient` | implements `AtMostOnce` | inductive invariant, refinement | done |
| 4 | `Conversation`: session lookup and creation, message handler, agent loop with access checks, retries and iterations, scheduled run | composes with `Compaction` through the order of stores | inductive invariant, all six properties | done |
| 5 | `Ingress`: Telegram and Zulip over polling and webhooks, webhook server, drain, order of shutdown | none | inductive invariant, six properties | done |
| 6 | `Inbound`, `Outbound` with `TextSplit` and `BotApi`, composed in `Channels`: what becomes of a message on its way in and of an answer on its way out | `Tiles`, what a cut of a text must be | `TextIsWhole`, `ResultsAreTrue`, `ForwardedIsSound`, `NothingIsLost` | done |
| 7 | `FileTools`, `Shell`, `Diagnostics`, composed in `Host`: the parts that deal with the operating system | `ref` in `FileTools`, the file as its callers expect it | `FilesAreKept`, `CommandsAreContained`, `NamesAreSafe` | done |
| 8 | `History`: normalisation, bounded prompt assembly, snapshots, re-sending | checked beside `Inbound` and `Outbound` | inductive invariant, protocol, stability and budget of every request | done |
| 9 | tool batch registration, request conversion of the LLM client | none | none | left out, see "What stays outside" |

One run per question would have been too many to keep fast, so the runs are few and
wide. Three conventions make that work:

- A run may be a sum of parts that share no state (`channels`, `host`): a behaviour is
  one of the parts while the others rest at their start. Nothing is lost, since no
  step of one part reads or writes a variable of another.
- A run may hold a disjunction of bounds (`sched`, `comp`, `conversation`): an `MC`
  module's `Scope` or a variable chosen at the start (`pair`) says which
  bound is large in a behaviour, where all of them large at once is out of reach.
- A checked property is often a conjunction of named parts (`TextIsWhole`,
  `PromptIsHistory`, ...), each with its own comment in the module; type invariants of
  the modules with proofs are conjuncts of `IndInv`.

Bounds follow one rule: two of everything that can race, one crash, one failure, and
enough steps for the whole cycle of an operation to happen twice.
## Scheduler

`Scheduler.tla` models `SchedulerService`, the statements of `storage/jobs.rs` it
and the job tools use, the spawned runs, and the callers. One database statement
is one atomic step (SQLite runs each statement in a transaction of its own), and
so is the code between two await points.

| Variable | In the code |
|---|---|
| `created`, `enabled`, `runAt`, `nextRun`, `status` | the rows of `scheduled_jobs`; `status` is `last_status` |
| `loop` | the background task: `pc` names its await point, the rest are its locals `job`, `due` (the fetched `next_run_at`), `next` (the `next_run_at` computed by `get_next_cron_run`) and the handle about to be pushed |
| `permit` | the stored permit of `notifier` (`tokio::sync::Notify`) |
| `shutdownMsg` | the unread message of the broadcast channel `shutdown_tx` |
| `run[r]` | a spawned task; `next` is the captured `next_run_at`, from which `enabled` of the final write follows |
| `inFlight` | `in_flight_tasks` |
| `op[a]` | the second half of a job operation an actor has begun: `DeleteJob`, `RunJobNow` and their commands read a row and write in a second statement, then notify |
| `phase` | where `run_runtime` is: `down`, `up`, `draining` (ingress loops are being drained), `stopping` (`scheduler.stop()` called), `stopped` |
| `deleted`, `tokens` | history variables for the properties only |

The actors of the job operations are the chat handlers and the scheduled runs, whose
own agent has the same tools but no notifier (`runner.rs:104`). A run may call
any number of job tools before it ends. Not in the model: a run whose agent
panics (its final write is then skipped and the handle still ends), and the text of
names, prompts and snapshots.

Abstractions that need a word:

- Time is a counter that advances at any moment, up to `MaxTime`. `CronNext` is a
  constant with the laws of `CronAssumption`; TLC gets two instances (`EvenTicks`,
  and `TwoTicks` which is exhausted at 2).
- A run slot is reused when its run has finished. The number of slots bounds how
  many runs are alive together, not how many there are.
- `StartupReload` is one step although the pass writes one row at a time: nothing
  else runs before `start()` returns. What a failing statement or a crash leaves of
  it is `StartFails`, which stops after any prefix in `next_run_at` order.
- The status `Missed` and the overdue rule for one-shots are in `StartupReload`.

Bounds: `MaxTime` (clock), `MaxBoots` (starts of the process), `MaxFaults` (failing
statements), `MaxAsks` (accepted run-now requests), and the sets of jobs, clients
and run slots. Two boots are enough for every before/after relation of a
crash; a second crash meets the same table states as the first. Two run slots let
two runs of one job overlap, which is what the final write can go wrong with.
The proofs hold without these bounds.

### Runs

| Run | Instance | Question |
|---|---|---|
| `sched` | a one-shot and a cron job, one chat, two run slots, time to 2, two boots; either both jobs and no fault or request, or one job with a failing statement and a run-now request (`Scope`); 1.1 million states | does a cron job stay armed for its next tick (`CronStaysArmed`), is a quiet delete final (`DeletedAtRestIsFinal`), is there no start beyond those owed (`OneShotNotRepeated`), does `stop()` leave no live run (`StopDrainsRuns`), is a due job only withdrawn by what may withdraw it (`DueStaysDue`); `IndInv` contains the types, no lost wakeup (`WakeupCovered`) and no `Running` row after a clean stop (`CleanStopLeavesNoneRunning`) |
| `sched_live` | a one-shot and a cron job whose schedule ends, a failing statement, fairness | a due job is taken up (`DueJobIsTaken`), `stop()` returns (`StopTerminates`) |
| `sched_deleted_revived`, `sched_interrupted` | minimal | the two disagreements below |

`CHECK_DEADLOCK FALSE`: the model really stops when the process has exited for the
last boot and time is up.

Fairness (`Fairness`): weak for the loop, for each operation an actor has begun, for
the clock and for `stop()`, because tokio polls every ready task and every statement
and timer completes; strong for each run (`RunStep`), because a run's agent may call
job tools in between but only `max_tool_iterations` times. The latter assumes that the
model's answer comes or fails: `llm/mod.rs` sets no timeout on its requests, and `stop()`
waits for a run whose request hangs as long as it hangs. Nothing is assumed of
users, crashes or failing statements; `faults` bounds the latter, so "a statement
fails for ever" is outside the liveness claim.

### What the code does that its documents do not say

- `DeletedIsFinal`: deleting a cron job while one of its runs is alive is undone
  by the run's final write, which stores the `enabled = true` it captured at the start.
  The same write may overwrite a run-now request, which is why `DueStaysDue` lists the
  final write of an earlier run among the ways a due job is withdrawn.
- `InterruptedRunIsRecovered`: a one-shot job whose run is cut by a crash stays
  disabled with the status `Running`: the startup pass reads enabled rows only.

`DeletedAtRestIsFinal` and `DueStaysDue` are what does hold, and they are proved.

`CronStaysArmed` is about the next tick from now, not about every tick: a mark written late,
and the reload of a start, compute the next tick from the present and pass over those
that went by meanwhile.

### Proofs

`SchedulerProofs.tla` proves, for all finite or infinite sets of jobs, clients and
run slots and all bounds, from `JobsAssumption`, `TimeAssumption` and `CronAssumption`:

- `Inductive`: `Spec => []IndInv`, the invariant of `SchedulerInvariants.tla`;
- from it `TypeCorrect`, `NoLostWakeup`, `CronNeverSkips`, `OneShotAtMostOnce`,
  `DeleteAtRestFinal`, `StopDrains`, `CleanStop`, and the action property
  `DueWithdrawal`.

Why the invariant is what it is. `Core` (types, and what the loop, a run and an
operation hold at each of their await points) is needed by every other part.
`CronStaysArmed` alone is not inductive: the final write of a run stores a tick
computed long ago, so `CapturedTicks` says that no captured tick is later than the
next tick from now, which the monotonicity of `CronNext` keeps true as time passes. `OneShotNotRepeated`
needs to know which part of the program owes a start (`OneShotOwed`): the enabled row,
the loop holding the job, or a run-now request; the write of `Running` moves the debt
from the row to the loop. `StopDrainsRuns` needs that a live run's handle is in
`in_flight_tasks` or in the loop's hands, and that the loop exits only for the message
of `stop()` (`HandlesKept`). Each lemma treats one part, one step per action.

Liveness (`DueJobIsTaken`, `StopTerminates`) is model-checked only: fairness and
`ENABLED` are out of the prover's reach.
## Compaction and the history of a session

`Compaction.tla` models one chat session: the handlers and scheduled runs that store
its messages, `CompactionService` and `CompactionWorker`, and the tables `messages`
and `context_summaries`.

| Variable | In the code |
|---|---|
| `stamped`, `kind`, `stored` | `messages`. A message is numbered by its `created_at`, the order of `list_messages`; `insert_message` takes it before the INSERT runs, so `stored` may grow in another order |
| `summaries`, `made` | `context_summaries`. `through` is `covers_through_message_id`; `gist` is the set of messages the text was written from, directly or through earlier summaries; a greater `id` is a later `created_at` |
| `svc` | the session's entry of `CompactionService.state`, lost in a crash |
| `op[h]` | a handler (chat message or command) or scheduled run: its await point, the message it is storing, the summary it read |
| `worker[w]` | the spawned compaction task: its await point, the summary it read and the one it makes |
| `exchanges`, `overtaken` | history variables: stored call/result pairs, and messages that were stored when `recent_turns_to_preserve` newer ones already were |

Rows are never deleted from `messages`, so a boundary is always found. How many
tokens a message or a prompt has is a free choice: a check may or may not trigger,
and any whole-unit prefix in front of the recent window may fit the prompt
(`Boundaries`, with `WorkerStops` for "none fits"). The call of an exchange is stamped
(`StampCall`), then its INSERT takes SQLite's write lock, so the result's stamp and
the commit are one step (`CommitExchange`).

Worker slots: two, although the code never uses more than one at a time; that it does not is
the property `OneCompaction`. Bounds: `MaxRows` messages and `MaxCrashes` crashes; with
`Preserve = 1` four messages are enough for a compaction to overlap an exchange and for a late
row to fall behind a boundary, and five for two compactions in a row. The
proofs hold without bounds.

| Run | Question |
|---|---|
| `comp` | is every message a summary hides in its text (`NothingForgotten`), does the recent window survive and do exchanges stay whole (`BoundariesAreSound`), does the coverage of the latest summary never shrink (`BoundaryAdvances`, over compactions in a row, failed deletes and a crash), does every compaction end and release the session (`CompactionEnds`); `IndInv` contains the types and that there is one compaction at a time (`OneCompaction`) |

A behaviour of `comp` has either one handler, five messages, a crash and two worker
slots, or two handlers, four messages and no crash (`pair`): 0.9 million states.

Fairness: the worker's task is polled until it ends, under the assumption that the model
call returns (the code sets no time limit there). Nothing is assumed of handlers, users or
crashes. `CHECK_DEADLOCK FALSE`: when `MaxRows` messages are stamped nothing is left to do.

The exception `overtaken` in `NothingForgotten` is real: a message whose INSERT is
delayed until a whole preserve window of newer messages is stored may be behind the
boundary of a summary that never saw it. With the default window of 30 this needs 30
messages stored between one task's `Utc::now()` and its INSERT.

A disagreement without a run of its own: README.md:365 says that complete tool
exchanges are kept together; that fails when a concurrent handler's
message gets a `created_at` inside an exchange, which the atomic commit does not
prevent, so `AdjacentExchangesWhole` speaks of exchanges whose two rows are neighbours. Also, the comment at compaction_service.rs:63 promises a follow-up of a session
marked dirty; the task that ends clears the mark and starts nothing, so the follow-up
waits for the next message that triggers one. The model does the same.

`CompactionProofs.tla` proves the four safety properties and `TypeOK` for every number of handlers, workers,
rows and every window. Why they need `IndInv`: a summary is made from an older one that was
read earlier, so soundness (`Sound`) is claimed of every summary anybody holds, not only of
those in the table. Storing a message keeps it because a late message behind a
boundary has the whole window between (`SoundAfterStore`, which counts with
`NewerMonotone`); selecting keeps it because a boundary ends a unit (`SelectionSound`).
`Succession` says that what a worker read stays the latest until it creates its own,
which follows from `OneCompaction` and gives `BoundaryAdvances`.

## The MCP client

`McpClient.tla` models one `McpClientHandle`: the session behind a mutex, the calls
that lease it, its replacement after a failure, and `shutdown()`.

| Variable | In the code |
|---|---|
| `call[c]` | a call: the await point of `connection()` or `call_tool()` it is at, the session its request went out on, what its caller was told |
| `lock` | the holder of the `connection` mutex |
| `conn` | the `Option<Session>` in the mutex |
| `opened`, `closing`, `ended` | sessions are numbered; `closing` are those whose `close_with_timeout` runs, spawned by a dropped lease or in `shutdown()` |
| `shut` | `shutdown()`: the watch flag is set once it is signalled; the session it took |
| `pending`, `executed`, `reply` | external: the server and the network |

`Discovery` is the `tools/list` of startup: no tool call exists before it succeeded,
and when it fails the manager shuts the handle down. A call's `discard` flag is set
before the request goes out and cleared by an answer, so `ReturnDiscarding` and
`ReturnKeeping` are the two ways a lease is dropped. A JSON-RPC error keeps the
session, a connection error retires it. Deadlines may pass at every await; time itself
is not modelled. `AcquireLock` may happen after the signal, because the flag is polled
before the mutex: the handle relies on `open()` and on the second test to refuse.

The error a caller gets at `Dispatch` after closure ("tools/call: shut down") is the
one it would get with the request already out, so it counts as `unknown`.

| Run | Question |
|---|---|
| `mcp_client` | discovery, two tool calls, three sessions: is a doubtful session never leased again (`SlotIsClean`), is closure final and no session lost (`NothingAfterShutdown`, `SessionsAccounted`, within `IndInv`), does the handle implement `AtMostOnce.tla` (`CallsAtMostOnce`), does every call and does `shutdown()` return with a server that need not answer (`NothingHangs`) |

Discovery opens the first session; of two calls one can fail while the other queues
behind it and then meets what the first left, and three sessions let each of them
open one. `list_all_tools` may fetch several pages; discovery is one request here,
since a failure on any page has the same effect. Fairness is weak, for
the steps a call or `shutdown()` takes by itself (every await has a deadline) and for
the close of a session (five seconds); nothing is assumed of the server, of new
callers or of cancellation. `CHECK_DEADLOCK FALSE`: all calls have returned.

`AtMostOnce.tla` is what a caller may rely on: calls are sent one at a time, each at
most once and never after closure; a success means one execution, a refusal none.
The refinement maps `sent` to the calls that recorded a session and `closed` to the
moment `shutdown()` takes the slot, not to the signal: a call that tested the flag
just before may still be sent.

`McpClientProofs.tla` proves, for any calls and any number of sessions, from
`McpAssumption`: the type invariant, the three safety properties and the refinement
(`Refines`). `IndInv` adds to them what a call holds at each await point
(`LeaseShape`: the mutex is held exactly between `held` and `sent`), what the server,
the answer and the outcome say of each other (`RequestShape`), and that sessions are
numbered in order (`SessionShape`), which is why no old request is on a new session.

## Ingress and the stop of the process

`Ingress.tla` models the two channel loops over both of their transports, the shared
webhook server and `run_runtime`. The transports are chosen in `Init` and kept in
`mode`, so that one run covers every configuration.

| Variable | In the code |
|---|---|
| `loop[ch]` | where `run_update_loop` is: `init()`, the `select!`, the five-second retry sleep, a Zulip message in the poll arm (`handling`), the drain of Telegram's `JoinSet`, ended |
| `offset[ch]`, `next[ch]` | `TelegramPoll.offset - 1` or `ZulipPoll.last_event_id`, and how far the pending buffer (`pending`, `pending_events`) was read |
| `queue[ch]`, `posting[ch]` | the `mpsc` queue to a webhook loop, and requests that wait in `send().await` |
| `running`, `dispatched` | handlers that run, and messages this process gave to handlers |
| `notified[ch]` | a Ctrl-C reached the listener of the current pass of the `select!`. Every pass makes a new listener, so a signal is lost when another arm is taken, and while Zulip handles a message there is none |
| `phase`, `server` | progress of `run_runtime`; the watch flag is set when `phase` has left `run` |
| `offered`, `confirmed`, `missed`, `acked` | external: what the service has, what it has forgotten because a later poll named it, what a new Zulip event queue skipped and no poll was ever answered with, which requests it saw answered with 200 |
| `started`, `done`, `crashed` | history variables |
| `fetched`, `left` | history variables: what was in an answer to a poll, and what the pending buffer held when a process ended |

The arms of the `select!` are biased: the flag, a finished handler, `poll()`, Ctrl-C.
`Ready` and `Interrupted` state that order where it decides something. An arm that
wins drops the poll future: a request that was on its way changes nothing here,
so the fetch (`Fetch`) is one step with its answer, while its effect on the service
(`Request`) is an earlier one. A buffered batch is one interval of message numbers.
A handler is an interval of time: what it does is in `Conversation` and `Compaction`. `SchedulerStops` and `McpCloses` stand for the shutdowns that `Scheduler` and
`McpClient` model. A panic ends a Telegram task, or the whole Zulip loop (`LoopPanics`).

| Run | Question |
|---|---|
| `ingress` | does polling let Telegram forget only messages a handler has, and Zulip only those, what a new queue skipped and what an ended process left in its buffer (`ConfirmedWasStarted`, a conjunct of `IndInv`, also after a crash and a restart); without a crash, was everything Telegram forgot, and everything fetched from Zulip but what was in the buffer at a stop, handled to the end when the process exits, over restarts (`StopLosesOnlyZulipBuffer`) and did the last handler end before the scheduler and the MCP sessions stopped (`HandlersEndFirst`, which follows from `PhaseShape` and `LoopShape` in `IndInv`); is an acknowledged webhook message kept while its loop runs (`AcknowledgedIsKept`); does a process hand out polled messages once and in order although polls are dropped (`PolledInOrder`); does one ended loop end the process (`ShutdownCompletes`) |

Bounds: three messages for the two channels together (two and one, so that a batch
of two and the other channel's message race), two webhook requests on a queue
of one (so that one waits), one Ctrl-C, one restart. Fairness is weak for the steps
of `main` and for the tasks as a whole: tokio keeps polling, handlers and `init()`
return (an agent's handler waits for the model, whose requests have no timeout);
nothing is assumed of the services, of the operator or of which task runs first.
`CHECK_DEADLOCK FALSE`: the process ends.

Disagreement: README.md:315 says that accepted Zulip webhook requests are acknowledged
and answered asynchronously, and README.md:182 that shutdown drains what was accepted. The
acknowledgement is given when the message is in the queue, and a loop that sees the
flag or Ctrl-C, or whose `init()` fails, returns without receiving the rest of it
(no property claims that it does; the model shows it). Polling Telegram has no such gap on a
graceful stop: what was not handed out was not confirmed, and is fetched again after
the restart, as is what was handled and not confirmed yet. Polling Zulip has one. A loop that sees the flag returns with
messages in `pending_events` (`zulip/update/poll.rs:29`); they die with the process, and the
next one registers a new event queue (`poll.rs:57-62`, `120-123`), which starts after them. They were fetched and
reach no handler. README.md:182 speaks of accepted handlers, so this contradicts no document; `left` records these
messages, apart from `missed`, and `StopLosesOnlyZulipBuffer` says that a stop loses no others.

`StopLosesOnlyZulipBuffer` says of a crash nothing, and cannot: handlers are not persisted, and a
message from Telegram whose handler a crash cut is confirmed by the next poll only if that
poll happened before the crash; otherwise it is handled a second time.

### Proofs

`IngressProofs.tla` proves, for every number of messages and requests, every queue
length and every bound, `Inductive` (`Spec => []IndInv`, the invariant of
`IngressInvariants.tla`) and from it `TypeCorrect`, `ConfirmedStarted`,
`AcknowledgedStays`, `HandlersEnd`, `StopsLoseOnlyZulipBuffer` and the action property
`PolledOrder`. Why the properties need a strengthening: that what was confirmed was started
rests on the offset never running ahead of what was read (`PollShape`) and on what was read
having been handed out (`HandledShape`), and for Zulip on where everything fetched is: with a
handler, in the buffer, or `left` (`FetchShape`, which also keeps `missed` and `fetched` apart); that a
stop loses nothing else rests on a loop that has ended having no handlers left (`LoopShape`) and on `run_runtime`
reaching its later phases only when both loops have ended (`PhaseShape`); that an
acknowledged message stays rests on what a waiting or accepted request says of the queue
(`RequestShape`). `ShutdownCompletes` is model-checked only.

## A message, a job and the agent loop

`Conversation.tla` models what one message or one due job sets off:
`ChannelMessageHandler` (`channel/handler.rs`), the session lookup of
`storage/sessions.rs`, `/reset_context`, the agent loop (`agent/agent_loop.rs`) with the
retries of `llm/mod.rs`, the tool `send_user_message`, and `run_scheduled_job`
(`scheduler/runner.rs`). Each inbound message and each firing of a job is a run, a
task of its own.

| Variable | In the code |
|---|---|
| `pc[r]` | the await the run is at |
| `kind`, `addr`, `sender`, `notify` | the message or job: agent text or `/reset_context`, its conversation, its sender (`Unknown` for a job), `notify_on_completion` |
| `sessions`, `clock` | `chat_sessions`; a session is named by its `created_at`, by which `get_session_for_address` orders |
| `log[r]` | the rows of `messages` that run r has stored, each with its session and role |
| `mine`, `stamp`, `prompt`, `step`, `attempt`, `left`, `told`, `reply` | locals of the handler, the loop and the client: the session found, a session's time stamp before its INSERT, the history that was read, iterations, retries, calls left in the batch, `sent_user_message`, the answer |
| `outbox` | external: what the channels accepted |
| `before`, `logAt` | history variables: runs that had returned when this one began, rows stored when a reset began |

What tools do, how long a prompt is and what the model answers are free choices; the
one tool whose address matters, `send_user_message`, is an action. A statement before
the loop, the store of the reply or a send may fail (`StatementFails`, `SendReply`); a
failing store of an exchange ends the loop with an error that is answered
(`PersistFails`).

| Run | Question |
|---|---|
| `conversation` | do strangers leave no trace, and goes everything to conversations the policy opens, whoever chose the address (`PolicyHolds`); are the rows of a run its own, in order, in one session, with every exchange stored before the next model call and no answer seen that was not stored (`HistoryFollowsRun`); does the prompt hold the current message once, nothing from before a confirmed reset and all earlier rows otherwise (`PromptIsHistory`); does a conversation get a second session only by a reset or by runs that overlapped at first contact (`SplitOnlyAtFirstContact`); does a job's owner hear of a success once (`OwnerIsToldOnce`) |

Bounds: two messages and a job, two of them under way at a time, two conversations of
which the policy opens one, one sender, one failing statement or send. `Scope` allows
either a message and the job with two iterations and their retries, or all three runs
without retries and with one batch of tools or one failure among them. 1.2 million states.
A third run is what it takes to see a split or a reset from a later message. No
liveness is claimed: the loop ends because `step` and `attempt` are bounded, and every
await of it outside the model's scope (a tool, the provider) has its own time limit or
none. `CHECK_DEADLOCK FALSE`: all runs have returned.

What the run showed of the code, none of it contradicted by a document:

- Two first messages of a conversation that overlap create two sessions; from then
  on only the younger is found, and the rows of the other are out of sight
  (`handler.rs:227`). `SplitOnlyAtFirstContact` is exactly that and no more.
- A message that overlaps a reset may still be stored in the old session; only runs
  that begin after the reset was confirmed are sure not to see it (`ResetForgets`).
- A scheduled run has no sender. With `allowed_senders` set, its `send_user_message`
  is refused for every address (`tools/messaging.rs` tests it as "unknown"), so its owner
  hears only the closing notification.
- The reply is stored before it is sent; a failing send leaves a reply in the history
  that nobody saw. The converse, a reply seen and not stored, is excluded by
  `HistoryFollowsRun`.

### Proofs

`ConversationProofs.tla` proves all six properties of the run for any set of messages,
jobs, conversations and people, any policy and any bounds: `Inductive`
(`Spec => []IndInv`, the invariant of `ConversationInvariants.tla`), and from it
`TypeCorrect`, `PolicyIsKept`, `HistoryIsKept`, `PromptIsRight`, `SplitsAreRare` and
`OwnerIsTold`. The assumptions are `PolicyAssumption` ("unknown" is nobody on the
list, the lists name conversations and people there are), `RunsAssumption` (a run is a
message or a job) and `BoundsAssumption`.

The argument goes run by run. `Frame` shows once that a step of one run leaves every
variable of another alone, `SharedStep` and `LogStep` what it may add to the sessions, the
outbox and the log; each part of the invariant then needs one step per action of the
run that moves. The parts, and what they are for:

- `StageOf`: what each await may rely on, above all that nobody who is not allowed
  gets past the first test and that only a reset stamps a second session. It carries
  `PolicyHolds`.
- `RowsAt` (`Open`, `Closed`): which rows a run has stored at each await. It carries
  `HistoryFollowsRun`; that a reply seen was stored is `SeenWasStored`.
- `PastOf`, `SessionOf`, `ContactOf`: a run's session is one of its conversation and not
  older than any made by a run that had returned before; a first session is made
  only where those left none. They carry `SplitOnlyAtFirstContact`.
- `ResetOf` (`HiddenBy`): between its stamp and its reply a reset has, or is about to insert,
  a session younger than every row stored when it came in. With `ContactOf` this is
  `ResetForgets`.
- `PromptOf`: a prompt holds only rows of the run's session by others, and all of those
  that earlier runs left there.
- `ToldOf`: a job under way has notified nobody and knows whether it told.

`Lookup` (the lookup finds the latest session and 0 only where there is none) needs the
greatest element of a finite set of numbers, `Greatest`, by well-foundedness of `<`.
`Utc::now` being strictly increasing is part of the model, not proved.
## From rows to requests

`History.tla` follows the rows of one session into the requests to the model. It models
`history_units` as the loop it is (one action per branch: `TakeMessage`, `TakeBroken`,
and `OpenBatch`, `KeepId`, `ChangeId`, `TakeBatch` for a batch that keeps the protocol), and
everything that calls it: `assemble_prepared_messages` with `bound_messages`, `run_agent` before its
first request and after every batch of tools, `run_scheduled_job` with its snapshot,
`recent_history` in `schedule_job`, and the compaction that moves the boundary. One turn, job
or compaction runs at a time; what happens when several do is the subject of
`Conversation` and `Compaction`, as are statements that fail.

| Variable | In the code |
|---|---|
| `rows`, `boundary`, `snapshot` | the session's `messages`; how many of them the latest summary covers; `creation_context_snapshot` of a job |
| `input`, `out`, `units`, `seen`, `names`, `stop` | locals of `history_units`: its argument, the messages of the units so far and the units as intervals of them, the ids in use, and the new ids of the batch in work with its last row |
| `doing` | who called it: `assemble`, `chat`, `tools`, `snapshotted`, `job`, `snapshot`, `compact` |
| `left`, `request`, `turn` | what is left of the budget, `working_messages` without its leading system messages, iterations |

A message is its role, the ids of its calls and outputs, whether it has other parts, and its
estimate. A rendered message costs `Label` more. Leading system messages count by
their size only (`Fixed`); none of the code here looks inside them.

| Run | Question |
|---|---|
| `channels` | does every request keep the protocol of providers, that is complete exchanges, adjacent, with ids used once (`RequestsAreSound`); is what was chosen or sent before sent again as it was (`RequestsAreResent`); does a chat turn's first request fit the budget as sent (`WithinBudget`) |

`RequestsAreResent` is what `run_agent` silently relies on: it stores the last two messages of
a history it has just normalised afresh (`agent_loop.rs:252`), with a new set of ids in use, and
`tests/history_tests.rs:346` says "Normalization is stable when called at more than one replay
boundary."

Bounds: sessions of up to four rows to begin with, five with what is added (an exchange, prompt and exchange of
a turn), thirteen shapes of them: whole exchanges, one id used twice, an id that looks like
one nerdbot makes up (so that a suffix is needed), and every way to break an exchange. The model
answers with batches that repeat a name, leave it empty, or use an earlier one. The budget holds two
exchanges beside a prompt but not a job's large one, so units are skipped too. Two
iterations let a request be normalised four times. `CHECK_DEADLOCK FALSE`: a session that is
full rests.

`HistoryProofs.tla` proves `RequestsAreSound`, `RequestsAreResent` and `WithinBudget` for every history, batch,
budget and bound, from `HistoryAssumption` alone. The argument:

- `Normal` survives cutting at units and putting together (lemmas about `IsBatch` in
  slices and concatenations), because a unit starts outside a batch and `Closed` says that a
  batch is taken with all its tool rows.
- Ids stay unique because `ScanShape` says that `seen` is exactly the ids of what was taken
  and of the batch in work. Two directions are needed: `seen` has all ids, so a new one is
  new; and has no others, so that ids that are unique already are never changed.
- Stability is the second direction. `Replaying` says that what was sent begins the input
  and comes out unchanged: its batches are answered (so not rendered), its ids are not
  in `seen` when their batch is named (so not renamed), and the first new row is no
  tool row (so the last batch does not grow).
- `Choosing` carries uniqueness through the choice, newest unit first: what is chosen shares no
  id with the units still to be considered.

`WithinBudget` (`RequestsFit`) needs the sum of estimates over a sequence, which `Cost` computes
by a recursive function. The library's induction theorems take a predicate as parameter, which the provers
cannot instantiate. `HistoryProofs` therefore states induction over sets of numbers
(`LeastNatural`, from the well-foundedness of `<`, and `InductiveSet`) and takes for the set the
numbers with the property at hand. From it follow that `Cost` is a sum, that it is additive over
concatenation, and what it is of one message. The invariant `Budgeted` says that during the
assembly of a chat turn's first request the tokens left are exactly what the budget has beside
the fixed part and the units chosen so far. The units are rendered and labelled before they are
chosen, and by `Replaying` the validation before the request changes none of them.

`HistoryAssumption` takes
`Reserved <= Window`: `usable_input_budget` (`budget.rs:42`) subtracts two configured numbers from a
third which nothing compares, and with a reserve beyond the window it panics or wraps around.

## Messages in and answers out

Four modules model what lies between the ingress loops and the servers. `Channels.tla` puts them
beside `History`, one of the three parts per behaviour (`part`), and gives their properties names
of their own; `MCChannels` gives its constants values.

`Inbound.tla` is the way in: `dispatch_update` and `build_inbound_message` of Telegram,
`handle_zulip_message` and `process_inbound_attachments` of Zulip. A message is resolved and
tested against the policy (`Admit`), then its files are fetched one by one
(`Fetch`, `Chunk`, `StreamEnds`) under `max_attachment_bytes`, examined
(`ExamineTelegram`, `ExamineZulip`) and turned into parts of the prompt. A file is the
type its sender claims, the kind of its name, the size announced and, only
once it is fetched, what is in it; the classes of each are those the code tells apart.

`Outbound.tla` is the way out: the choice of channel and rendition, the formatted send
with its fallback to plain text, the pieces, and the typing indicator with its refresh
task. `TextSplit.tla` holds the two algorithms that cut a text, over characters that are
narrow, wide (more than a byte of UTF-8), a space or a newline. `BotApi.tla` says what each
request of both bots returns for each answer a server may give: which rungs
of "the response arrives, its body is read, its status is good, it parses, it says ok, it
has the data" each method tests.

| Variable | In the code |
|---|---|
| `parts` (`pieces` in `Channels`), `sent`, `shown` | the pieces of `split_long_message` or of the Zulip chunks; how many requests succeeded; external: what the conversation shows |
| `task`, `wire`, `lamp` | the indicator's spawned task; external: typing requests under way, and whether the server shows "typing" |
| `last` | the last request: the answer, whether it was carried out, what the method returned |
| `collected`, `fetched`, `infos`, `inParts` | the download buffer; files a request was made for; `attachment_infos`; `attachment_parts` |

| Run | Question |
|---|---|
| `channels` | out: is a text shown once, in order and whole, in pieces no server refuses (`TextIsWhole`); is what a method returns what happened, although responses are lost (`ResultsAreTrue`); does the typing indicator end although a refresh may overtake the stop (`LampGoesOut`). In: do strangers cause no request, does nothing too large or of a false type reach the model (`ForwardedIsSound`); do words, failures and the readers of the answer survive (`NothingIsLost`) |
| `outbound_wide_text` | the disagreement below |

In `ChannelsProofs.tla` all four invariants are proved of `ChannelsSpec` for all
limits with `Limit + PrefixLength <= MaxLength`, every set of texts, participants and numbers of links.

- `TextIsWhole` (`TextStaysWhole`). `SplitLongMessage` computes a recursive function on the
  positions of a text. By induction from the text's end, every rest is cut into pieces within the limit
  (`ShortPieces`) and, without wide characters, into adjacent ones (`Follows`; lemma `SplitsWell`); of
  `FindSplitPoint` only its bounds are needed. `ZulipChunks` is arithmetic on quotients (`ChunksWell`).
  `WellCut` carries this to the state, and `Sending` says that what is shown is exactly the pieces sent so far.
- `ResultsAreTrue` (`ResultsStayTrue`). Lemma `Truthful` goes through the ladder of every method and every
  honest answer; `LastIsTrue` keeps it for the last request, `Sending` for a send of several.
- `ForwardedIsSound` and `NothingIsLost` (`ForwardedStaysSound`, `NothingGetsLost`) share an
  invariant, `InInv`, because the second is about the end and holds only then: on the way there
  every file before `at` is listed and has its link replaced (`Listing`), what became of it is
  told (`Telling`), Zulip's prompt has the words from the start and a reference from the first
  file on, Telegram's has them with a warning (`Prompting`), and the address is that of
  the conversation (`Addressing`). Two lemmas carry the steps: `Advances` for those within the
  work on a file, `Proceeds` for those that end it. TLC checked `InInv` before it was proved.

`LampGoesOut` is liveness and stays with TLC, as does `EveryTextIsWhole`, which is false.

Bounds: `Limit`, `MaxLength` and `ZulipLimit` are 6, 8 and 7 characters (4000, 4096 and 10000 in
the code) and a text is up to 13, with a blank and a wide character at every place that
matters: each side of every window of `find_split_point` and texts of one, two and
three pieces. A file is up to one unit over a limit of two. Zulip messages have up
to two links. Fairness: a request arrives or is lost, and a server forgets a typing notice
that is not repeated; nothing else. `CHECK_DEADLOCK FALSE`: a behaviour is one
message, and a session that is full rests. `NarrowTextIsWhole` is restricted to texts without wide characters, because of this:

Disagreement: `split_long_message` (`telegram/bot.rs:1107`) counts characters and then
slices the text at that many bytes. With one wide character in a chunk the next chunk
repeats part of it, or the slice falls inside a character and the task panics
(`EveryTextIsWhole` is violated). Zulip's chunks are counted in characters throughout, and
`ZulipTextIsWhole` has no such restriction.

`BinariesAreVerified` has an exception for Zulip: four bytes, `RIFF`, make a file a WebP picture
there, so sound or video in the same container is forwarded as a picture
(`zulip/attachment.rs`). Telegram's signature test reads the whole header.

## The parts that touch the host

Three modules model the code that deals with the operating system. They share no state;
`Host.tla` puts them side by side, one of the three per behaviour (`running`), and the runs of
`MCHost` check it.

`FileTools.tla`: `read_file`, `write_file` and `append_file` over
`WorkspaceSandbox`, with the calls of several agent runs interleaving at the system calls.
`node` and `data` are the file system under two paths, one inside the other; `canonical` says
whether `workspace.root` is written as its own canonical path. A content is the number of
the call that wrote it, so a mixture shows. `ref` is the file as callers expect it, and `Torn`
after two calls changed a file at once or one was cut short.

`Shell.tla`: one `shell_execute`. `child` is the process, `behind` what it left
running in the background: with the pipes open (`attached`), which holds the call up, or without
(`detached`, as after `cmd >/dev/null 2>&1 &`), which does not; `report` is what the call returned.
`room` and `timeout` are the clamped limits.

`Diagnostics.tla`: bots that share one socket path (a restart, or a second bot by mistake)
and their clients. `path` is what the name leads to, `listening` and `loop` are the listener and
its accept task, `at` is where `start`, `stop` and `Drop` are.

| Run | Question |
|---|---|
| `host` | does a file hold what was written and appended, within its limits, unless calls overlapped or were cut (`FilesAreKept`); is a successful command's output whole, does its process never outlive the call, and in a sandbox nothing, and does every command get its time (`CommandsAreContained`); does a bot that serves keep its socket and is no other file removed (`NamesAreSafe`); does every shell call return and does every client that asked hear of it (`RequestsEnd`) |
| `workspace_relative` | the disagreement below |

Bounds: three file calls, two at once, one length of content with `max_read_bytes` and
`max_write_bytes` such that one text fits and two appends touch the limit; a time-out
of one or two ticks; two bots with two starts between them, two clients and one permit.
Two starts are enough because a start reads nothing but the name and whether somebody
listens. Fairness: weak for the steps of a bot under way and of its tasks, for the clock, and
for the shell call's own timer; processes, clients and operators owe nothing.
`CHECK_DEADLOCK FALSE`: each part comes to rest.

What the properties except, and why:

- `FilesStaySmall` and `ReadsStaySmall` speak of calls that did not overlap: the length is
  read before the text is added or fetched (`tools/files.rs:349`). Two appends that overlap may both
  fit by their own test and together exceed `max_write_bytes`; nothing in the code prevents it
  and no document excludes it.
- `NothingLeftRunning` of a command without a sandbox speaks of the process itself:
  `kill_on_drop` kills one process, and what it left in the background lives on after a time-out.
  It may also outlive a call that succeeds, when it has let go of the pipes: `cmd.output()`
  (`tools/shell.rs:549`) waits for the process and for the pipes, not for its children.
  `SuccessIsWhole` therefore says that nobody has the pipes open, not that nothing runs.
  With bubblewrap nothing does: the namespace ends with the process.
- `ServingIsReachable` speaks of bots that did not start or stop at the same moment: probe and
  removal are two steps by name. Two that start at once may both find a dead socket, and the later
  removal takes the name from the bot that bound first; the code has no lock against it.
  That a plain file is never removed holds of raced starts and stops, too.

Proved (TLAPS):

`HostProofs.tla` proves the three invariants of `HostSpec`, from `HostAssumption` and
`FileToolsAssumption`.

- `FilesAreKept` (`FilesKeepTheirText`), for any number of calls and any limits. `FileInv` adds what a call
  under way has made sure of (`CallStages`: its directory, its file, its length), that two
  calls on one file of which one changes it know that they overlap (`OverlapsAreKnown`), what
  the file holds when a call is about to put its text (`ReadyToPut`: nothing for a write, the text
  as expected for an append), and that the length a call was allowed with is still the file's
  unless calls overlap (`LengthsHold`). Without the last one `FilesStaySmall` is not
  inductive: the test and the append are two steps.
- `CommandsAreContained` (`CallsAreContained`), for all limits. The invariant
  adds to it which processes there may be at each stage of the call, that nothing is reported
  before its end, and that its clock stops at its time-out.
- `NamesAreSafe` (`SocketsKeepTheirNames`), for any number of bots, clients and starts. The
  invariant says what one bot knows as long as no second one
  starts or stops: past its probe, that nobody serves; from `listen` on, that the name is its
  own; and that a plain file at the path keeps every bot from starting. It takes the assumption that no
  bot is called "none" or "file". Removing the probe breaks the proof where a bot goes on to remove.

`RequestsEnd` needs fairness and is only model-checked.

Disagreement: `WorkspaceSandbox::resolve` compares the canonical form of a path that exists
with the root as configured. With the relative root of README.md:56 a new file is accepted,
and refused from then on (`WrittenIsInside` is violated). Also, the comment at
`tools/shell.rs:36` says the deny list is checked after the allow list; the code checks it
first, with the same result.
## What stays outside

Every invariant and action property of a passing run is a theorem. Left to TLC is what the prover
has no rules for: liveness under fairness and `ENABLED` (`DueJobIsTaken`, `StopTerminates`,
`CompactionEnds`, `NothingHangs`, `ShutdownCompletes`, `LampGoesOut`, `RequestsEnd`). Induction
over data is in reach only as induction over sets of numbers (see `HistoryProofs`); no
definition in a module with proofs is a `RECURSIVE` operator, they are recursive functions.
The four runs that expect a violation check properties the code does not have, so there
is nothing to prove of them.

Not modelled, with reasons in `PROJECT.json`:

- configuration, onboarding, personality and system prompts: input-output before or
  between the steps modelled here;
- the rendering of Markdown (abstracted to "what it becomes may be longer or shorter"),
  of tables, and the text of replies;
- the web tools, the calculator, the fake LLM: no state and no shared resource;
- how an estimate is counted and what the thresholds of the context are: arithmetic on
  characters, which `History` takes as a number per message and `Compaction` as a free choice;
- the conversion of a request to the provider's types (`llm/mod.rs`);
- the pool and migrations of SQLite, and the HTTP transport of MCP: the models take a
  statement as atomic and a request as lost, late or answered;
- registration of tools: it runs once, before anything else does.

Known and without a property: a compaction trigger that arrives while one runs is
remembered as dirty and then forgotten (`compaction_service.rs:189`); the model does the
same, and nothing in the repository says when the follow-up must come.

Assumed although the code does not bound it: the model call of a compaction returns
(`compaction_worker.rs:96` sets no limit of its own); a Ctrl-C while Zulip handles
a message in its loop (`zulip/runtime.rs:217`) may be lost, which `Ingress` models and
`ShutdownCompletes` therefore does not promise to react to.

Common abstractions. Time is a small counter or a nondeterministic choice; text is a
set or a model value; ids are numbers in order of creation. A crash loses everything
but the rows that were committed; SQLite is assumed to execute one statement, or one
transaction, atomically and durably. Tasks of tokio run in parallel on several
threads, so every await point, and every pair of statements between which another
thread can observe the state, is a step of its own.
