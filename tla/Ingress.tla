------------------------------ MODULE Ingress ------------------------------
(***************************************************************************)
(* How messages reach the handler and how the process stops: the Telegram  *)
(* and Zulip ingress loops (telegram/runtime.rs, zulip/runtime.rs) over    *)
(* their polling and webhook transports, the shared webhook server         *)
(* (webhook.rs), and the order in which main.rs stops the parts.           *)
(*                                                                         *)
(* Messages of a channel are numbered as the service gives them out.  The  *)
(* services and the operator are external.                                 *)
(***************************************************************************)
EXTENDS Naturals, Sequences, FiniteSets

CONSTANTS
  MaxMessages,   \* bound: messages the services have, together
  MaxPosts,      \* bound: webhook requests
  QueueCapacity, \* capacity of a webhook queue
  MaxBoots,      \* bound: starts of the process
  MaxSignals     \* bound: times the operator presses Ctrl-C

ASSUME IngressAssumption ==
  /\ MaxMessages \in Nat /\ MaxPosts \in Nat /\ MaxSignals \in Nat
  /\ QueueCapacity \in Nat \ {0} /\ MaxBoots \in Nat \ {0}

Channels == {"telegram", "zulip"}
Messages == 1 .. MaxMessages
Numbers  == 0 .. MaxMessages

VARIABLES
  mode,        \* the configured transport of each channel; never changes
  offered,     \* external: messages the service has had so far
  confirmed,   \* external: the service has forgotten messages up to here
  missed,      \* external: skipped by a new event queue, in no answer ever
  offset,      \* poll: last message fetched (offset - 1, last_event_id)
  next,        \* poll: last message taken from the pending buffer
  queue,       \* webhook: the mpsc queue to the loop
  fetched,     \* history: messages that were in an answer to a poll
  left,        \* history: messages in the pending buffer of a process that ended
  posting,     \* webhook: requests waiting to enqueue
  posts,       \* webhook: number of requests so far
  acked,       \* webhook: messages whose 200 the service has received
  loop,        \* where each ingress loop is
  notified,    \* a Ctrl-C reached the listener of this pass of select!
  running,     \* messages whose handler runs
  dispatched,  \* messages given to a handler by this process
  started,     \* history: messages given to a handler by any process
  done,        \* history: messages whose handler returned
  phase,       \* progress of run_runtime
  server,      \* the webhook server
  boots,       \* starts so far
  signals,     \* Ctrl-C so far
  crashed      \* history: some process died

service == <<offered, confirmed, missed>>
buffers == <<offset, next, queue, fetched, left>>
requests == <<posting, posts, acked>>
handlers == <<running, dispatched, started, done>>
process == <<phase, server, boots, signals, crashed>>
vars == <<mode, service, buffers, requests, loop, notified, handlers, process>>

Pcs    == {"off", "init", "wait", "retry", "handling", "draining", "ended"}
Phases == {"run", "join", "scheduler", "webhook", "mcp", "exit", "down"}

TypeOK ==
  /\ mode \in [Channels -> {"off", "poll", "webhook"}]
  /\ offered \in [Channels -> Numbers]
  /\ confirmed \in [Channels -> Numbers]
  /\ missed \in [Channels -> SUBSET Messages]
  /\ offset \in [Channels -> Numbers]
  /\ next \in [Channels -> Numbers]
  /\ queue \in [Channels -> Seq(Messages)]
  /\ \A ch \in Channels : Len(queue[ch]) <= QueueCapacity
  /\ fetched \in [Channels -> SUBSET Messages]
  /\ left \in [Channels -> SUBSET Messages]
  /\ posting \in [Channels -> SUBSET Messages]
  /\ posts \in 0 .. MaxPosts
  /\ acked \in [Channels -> SUBSET Messages]
  /\ loop \in [Channels -> Pcs]
  /\ notified \in [Channels -> BOOLEAN]
  /\ running \in [Channels -> SUBSET Messages]
  /\ dispatched \in [Channels -> SUBSET Messages]
  /\ started \in [Channels -> SUBSET Messages]
  /\ done \in [Channels -> SUBSET Messages]
  /\ phase \in Phases
  /\ server \in {"none", "up", "stopping"}
  /\ boots \in 1 .. MaxBoots
  /\ signals \in 0 .. MaxSignals
  /\ crashed \in BOOLEAN

Each(x) == [ch \in Channels |-> x]
LoopsAtStart == [ch \in Channels |-> IF mode[ch] = "off" THEN "off" ELSE "init"]
ServerAtStart == IF \E ch \in Channels : mode[ch] = "webhook" THEN "up" ELSE "none"

\* At least one channel is enabled; the webhook server is up before the loops.
Init ==
  /\ mode \in [Channels -> {"off", "poll", "webhook"}]
  /\ \E ch \in Channels : mode[ch] # "off"
  /\ offered = Each(0) /\ confirmed = Each(0) /\ missed = Each({})
  /\ offset = Each(0) /\ next = Each(0) /\ queue = Each(<<>>)
  /\ fetched = Each({}) /\ left = Each({})
  /\ posting = Each({}) /\ posts = 0 /\ acked = Each({})
  /\ loop = LoopsAtStart
  /\ notified = Each(FALSE)
  /\ running = Each({}) /\ dispatched = Each({})
  /\ started = Each({}) /\ done = Each({})
  /\ phase = "run"
  /\ server = ServerAtStart
  /\ boots = 1
  /\ signals = 0
  /\ crashed = FALSE

\* The watch flag of main.rs, set once the first loop has ended.
Flag == phase # "run"

Poll(ch)    == mode[ch] = "poll"
Webhook(ch) == mode[ch] = "webhook"

Goto(ch, pc) == loop' = [loop EXCEPT ![ch] = pc]

\* Every pass of select! makes a new listener for Ctrl-C: a signal that an
\* earlier listener has seen is gone when another arm is taken.
NewPass(ch) == notified' = [notified EXCEPT ![ch] = FALSE]

(***************************************************************************)
(* The ingress loops: init().                                              *)
(***************************************************************************)
\* A Zulip event queue starts at the moment it is registered: what came before
\* is not in it, be it new or in an answer that an earlier process has dropped.
RegisterQueue(ch) ==
  /\ confirmed' = [confirmed EXCEPT ![ch] = offered[ch]]
  /\ missed' = [missed EXCEPT ![ch] =
                  @ \union ((confirmed[ch] + 1 .. offered[ch]) \ fetched[ch])]
  /\ offset' = [offset EXCEPT ![ch] = offered[ch]]
  /\ next' = [next EXCEPT ![ch] = offered[ch]]
  /\ UNCHANGED <<offered, queue, fetched, left>>

InitDone(ch) ==
  /\ loop[ch] = "init"
  /\ Goto(ch, "wait")
  /\ IF ch = "zulip" /\ Poll(ch) THEN RegisterQueue(ch) ELSE UNCHANGED <<service, buffers>>
  /\ UNCHANGED <<mode, requests, notified, handlers, process>>

\* set_webhook or the registration of the queue fails: the loop returns.
InitFails(ch) ==
  /\ loop[ch] = "init"
  /\ <<ch, mode[ch]>> \in {<<"telegram", "webhook">>, <<"zulip", "poll">>}
  /\ Goto(ch, "ended")
  /\ UNCHANGED <<mode, service, buffers, requests, notified, handlers, process>>

(***************************************************************************)
(* The ingress loops: one pass of the biased select!.                      *)
(***************************************************************************)
\* Telegram spawns a task per update, Zulip handles the message in the arm.
Dispatch(ch, m) ==
  /\ running' = [running EXCEPT ![ch] = @ \union {m}]
  /\ dispatched' = [dispatched EXCEPT ![ch] = @ \union {m}]
  /\ started' = [started EXCEPT ![ch] = @ \union {m}]
  /\ UNCHANGED done
  /\ Goto(ch, IF ch = "zulip" THEN "handling" ELSE "wait")
  /\ NewPass(ch)

\* Leaving the loop: Telegram drains its tasks, Zulip returns.
Mutant_Leave(ch) == Goto(ch, "ended")
Leave(ch) == Goto(ch, IF ch = "telegram" THEN "draining" ELSE "ended")

StopAtFlag(ch) ==
  /\ loop[ch] \in {"wait", "retry"}
  /\ Flag
  /\ Leave(ch)
  /\ UNCHANGED <<mode, service, buffers, requests, notified, handlers, process>>

Ready(ch) == loop[ch] = "wait" /\ ~Flag

\* poll() returns the next message of its pending buffer.
TakePending(ch) ==
  /\ Ready(ch) /\ Poll(ch)
  /\ next[ch] < offset[ch]
  /\ next' = [next EXCEPT ![ch] = @ + 1]
  /\ Dispatch(ch, next[ch] + 1)
  /\ UNCHANGED <<mode, service, offset, queue, fetched, left, requests, process>>

\* With an empty buffer poll() asks for what follows the offset; the service
\* forgets everything before it when the request arrives.
Mutant_Request(ch) ==
  /\ Ready(ch) /\ Poll(ch)
  /\ offset[ch] > confirmed[ch]
  /\ confirmed' = [confirmed EXCEPT ![ch] = offset[ch]]
  /\ UNCHANGED <<mode, offered, missed, buffers, requests, loop, notified, handlers,
                 process>>

Request(ch) ==
  /\ Ready(ch) /\ Poll(ch)
  /\ next[ch] = offset[ch]
  /\ offset[ch] > confirmed[ch]
  /\ confirmed' = [confirmed EXCEPT ![ch] = offset[ch]]
  /\ UNCHANGED <<mode, offered, missed, buffers, requests, loop, notified, handlers,
                 process>>

\* The answer: the batch goes to the buffer and its first message to a handler.
\* If another arm is taken first, the request is dropped and nothing is lost.
Mutant_Fetch(ch) ==
  /\ Ready(ch) /\ Poll(ch)
  /\ next[ch] = offset[ch]
  /\ \E last \in confirmed[ch] + 1 .. offered[ch] :
       /\ offset' = [offset EXCEPT ![ch] = last]
       /\ next' = [next EXCEPT ![ch] = confirmed[ch] + 1]
       /\ fetched' = [fetched EXCEPT ![ch] = @ \union (confirmed[ch] + 1 .. last)]
       /\ Dispatch(ch, confirmed[ch] + 1)
  /\ UNCHANGED <<mode, service, queue, left, requests, process>>

Fetch(ch) ==
  /\ Ready(ch) /\ Poll(ch)
  /\ next[ch] = offset[ch]
  /\ confirmed[ch] >= offset[ch]
  /\ \E last \in confirmed[ch] + 1 .. offered[ch] :
       /\ offset' = [offset EXCEPT ![ch] = last]
       /\ next' = [next EXCEPT ![ch] = confirmed[ch] + 1]
       /\ fetched' = [fetched EXCEPT ![ch] = @ \union (confirmed[ch] + 1 .. last)]
       /\ Dispatch(ch, confirmed[ch] + 1)
  /\ UNCHANGED <<mode, service, queue, left, requests, process>>

\* A long poll ends without messages; Ctrl-C may have come at the same time.
EmptyAnswer(ch) ==
  /\ Ready(ch) /\ Poll(ch)
  /\ next[ch] = offset[ch]
  /\ confirmed[ch] >= offset[ch]
  /\ notified[ch]
  /\ NewPass(ch)
  /\ UNCHANGED <<mode, service, buffers, requests, loop, handlers, process>>

\* BAD_EVENT_QUEUE_ID: register again; poll() returns None.
QueueExpires(ch) ==
  /\ Ready(ch) /\ Poll(ch) /\ ch = "zulip"
  /\ next[ch] = offset[ch]
  /\ RegisterQueue(ch)
  /\ NewPass(ch)
  /\ UNCHANGED <<mode, requests, loop, handlers, process>>

\* The request or the registration fails: wait five seconds.
PollFails(ch) ==
  /\ Ready(ch) /\ Poll(ch)
  /\ next[ch] = offset[ch]
  /\ Goto(ch, "retry")
  /\ NewPass(ch)
  /\ UNCHANGED <<mode, service, buffers, requests, handlers, process>>

RetryEnds(ch) ==
  /\ loop[ch] = "retry"
  /\ Goto(ch, "wait")
  /\ NewPass(ch)
  /\ UNCHANGED <<mode, service, buffers, requests, handlers, process>>

\* recv() on the webhook queue.
Mutant_Receive(ch) ==
  /\ Ready(ch) /\ Webhook(ch)
  /\ queue[ch] # <<>>
  /\ queue' = [queue EXCEPT ![ch] = Tail(@)]
  /\ \/ Dispatch(ch, Head(queue[ch]))
     \/ NewPass(ch) /\ UNCHANGED <<loop, handlers>>
  /\ UNCHANGED <<mode, service, offset, next, fetched, left, requests, process>>

Receive(ch) ==
  /\ Ready(ch) /\ Webhook(ch)
  /\ queue[ch] # <<>>
  /\ queue' = [queue EXCEPT ![ch] = Tail(@)]
  /\ Dispatch(ch, Head(queue[ch]))
  /\ UNCHANGED <<mode, service, offset, next, fetched, left, requests, process>>

\* The last arm of the select!, taken only if no other is ready; that of the
\* retry sleep is taken in any order.
Interrupted(ch) ==
  /\ notified[ch]
  /\ \/ loop[ch] = "retry"
     \/ Ready(ch) /\ next[ch] = offset[ch] /\ queue[ch] = <<>>
  /\ Leave(ch)
  /\ NewPass(ch)
  /\ UNCHANGED <<mode, service, buffers, requests, handlers, process>>

(***************************************************************************)
(* Handlers, the drain, and a panic.                                       *)
(***************************************************************************)
\* A handler returns, with success or an error (or, for Telegram, a panic).  The
\* Telegram loop joins it, an arm that wins over a Ctrl-C.
HandlerReturns(ch, m) ==
  /\ m \in running[ch]
  /\ running' = [running EXCEPT ![ch] = @ \ {m}]
  /\ done' = [done EXCEPT ![ch] = @ \union {m}]
  /\ IF loop[ch] = "handling" THEN Goto(ch, "wait") ELSE UNCHANGED loop
  /\ IF loop[ch] = "retry" THEN UNCHANGED notified ELSE NewPass(ch)
  /\ UNCHANGED <<mode, service, buffers, requests, dispatched, started, process>>

\* A panic in a Zulip handler is a panic of the loop's task.
LoopPanics ==
  /\ loop["zulip"] = "handling"
  /\ running' = [running EXCEPT !["zulip"] = {}]
  /\ done' = [done EXCEPT !["zulip"] = @ \union running["zulip"]]
  /\ Goto("zulip", "ended")
  /\ UNCHANGED <<mode, service, buffers, requests, notified, dispatched, started, process>>

Drained(ch) ==
  /\ loop[ch] = "draining"
  /\ running[ch] = {}
  /\ Goto(ch, "ended")
  /\ UNCHANGED <<mode, service, buffers, requests, notified, handlers, process>>

(***************************************************************************)
(* The webhook server.  A loop's queue is closed when the loop has ended.  *)
(***************************************************************************)
Post(ch, m) ==
  /\ Webhook(ch) /\ server = "up"
  /\ m <= offered[ch] /\ m \notin acked[ch] \union posting[ch]
  /\ posts < MaxPosts
  /\ posting' = [posting EXCEPT ![ch] = @ \union {m}]
  /\ posts' = posts + 1
  /\ UNCHANGED <<mode, service, buffers, acked, loop, notified, handlers, process>>

\* send(update).await has room; the service may or may not see the answer.
Mutant_Enqueue(ch, m) ==
  /\ m \in posting[ch]
  /\ loop[ch] # "ended"
  /\ queue' = [queue EXCEPT ![ch] = Append(@, m)]
  /\ posting' = [posting EXCEPT ![ch] = @ \ {m}]
  /\ acked' \in {acked, [acked EXCEPT ![ch] = @ \union {m}]}
  /\ UNCHANGED <<mode, service, offset, next, fetched, left, posts, loop, notified, handlers,
                 process>>

Enqueue(ch, m) ==
  /\ m \in posting[ch]
  /\ loop[ch] # "ended"
  /\ Len(queue[ch]) < QueueCapacity
  /\ queue' = [queue EXCEPT ![ch] = Append(@, m)]
  /\ posting' = [posting EXCEPT ![ch] = @ \ {m}]
  /\ acked' \in {acked, [acked EXCEPT ![ch] = @ \union {m}]}
  /\ UNCHANGED <<mode, service, offset, next, fetched, left, posts, loop, notified, handlers,
                 process>>

\* The receiver is gone: 503.
Refuse(ch, m) ==
  /\ m \in posting[ch]
  /\ loop[ch] = "ended"
  /\ posting' = [posting EXCEPT ![ch] = @ \ {m}]
  /\ UNCHANGED <<mode, service, buffers, posts, acked, loop, notified, handlers, process>>

\* The service closes the connection while the request waits for room.
Abandon(ch, m) ==
  /\ m \in posting[ch]
  /\ posting' = [posting EXCEPT ![ch] = @ \ {m}]
  /\ UNCHANGED <<mode, service, buffers, posts, acked, loop, notified, handlers, process>>

(***************************************************************************)
(* run_runtime: join the first loop, signal and join the others, stop the  *)
(* scheduler, the webhook server and the MCP sessions.                     *)
(***************************************************************************)
Enabled == {ch \in Channels : mode[ch] # "off"}

Mutant_FirstLoopEnds ==
  /\ phase = "run"
  /\ \A ch \in Enabled : loop[ch] = "ended"
  /\ phase' = "join"
  /\ UNCHANGED <<mode, service, buffers, requests, loop, notified, handlers, server, boots,
                 signals, crashed>>

FirstLoopEnds ==
  /\ phase = "run"
  /\ \E ch \in Enabled : loop[ch] = "ended"
  /\ phase' = "join"
  /\ UNCHANGED <<mode, service, buffers, requests, loop, notified, handlers, server, boots,
                 signals, crashed>>

\* What dies with the process: nothing of the ingress is persisted, the pending
\* buffers neither.
MemoryLost ==
  /\ loop' = [ch \in Channels |-> IF mode[ch] = "off" THEN "off" ELSE "ended"]
  /\ offset' = Each(0) /\ next' = Each(0) /\ queue' = Each(<<>>)
  /\ left' = [ch \in Channels |-> left[ch] \union (next[ch] + 1 .. offset[ch])]
  /\ posting' = Each({})
  /\ notified' = Each(FALSE)
  /\ running' = Each({}) /\ dispatched' = Each({})
  /\ server' = "none"
  /\ UNCHANGED <<mode, service, fetched, posts, acked, started, done, boots, signals>>

\* scheduler.start() fails before the loops are spawned: run_runtime returns, and
\* the webhook server, which was up already, is dropped with the requests it has.
SchedulerFails ==
  /\ phase = "run"
  /\ \A ch \in Enabled : loop[ch] = "init"
  /\ phase' = "exit"
  /\ MemoryLost
  /\ UNCHANGED crashed

AllLoopsEnd ==
  /\ phase = "join"
  /\ \A ch \in Enabled : loop[ch] = "ended"
  /\ phase' = "scheduler"
  /\ UNCHANGED <<mode, service, buffers, requests, loop, notified, handlers, server, boots,
                 signals, crashed>>

\* scheduler.stop() (see Scheduler), then server.stop() begins, if there is one.
SchedulerStops ==
  /\ phase = "scheduler"
  /\ phase' = IF server = "none" THEN "mcp" ELSE "webhook"
  /\ server' = IF server = "none" THEN "none" ELSE "stopping"
  /\ UNCHANGED <<mode, service, buffers, requests, loop, notified, handlers, boots, signals,
                 crashed>>

\* Graceful: the server answers the requests it has.
ServerStops ==
  /\ phase = "webhook"
  /\ \A ch \in Channels : posting[ch] = {}
  /\ server' = "none"
  /\ phase' = "mcp"
  /\ UNCHANGED <<mode, service, buffers, requests, loop, notified, handlers, boots, signals,
                 crashed>>

\* mcp.shutdown() (see McpClient) and the end of main, with whatever still runs.
McpCloses ==
  /\ phase = "mcp"
  /\ phase' = "exit"
  /\ MemoryLost
  /\ UNCHANGED crashed

\* The process dies; SIGTERM, which nothing handles, is one way.
Crash ==
  /\ phase \notin {"exit", "down"}
  /\ phase' = "down"
  /\ crashed' = TRUE
  /\ MemoryLost

Restart ==
  /\ phase \in {"exit", "down"}
  /\ boots < MaxBoots
  /\ boots' = boots + 1
  /\ phase' = "run"
  /\ loop' = LoopsAtStart
  /\ server' = ServerAtStart
  /\ UNCHANGED <<mode, service, buffers, requests, notified, handlers, signals, crashed>>

(***************************************************************************)
(* External: the services and the operator.                                *)
(***************************************************************************)
Offer(ch) ==
  /\ mode[ch] # "off"
  /\ offered["telegram"] + offered["zulip"] < MaxMessages
  /\ offered' = [offered EXCEPT ![ch] = @ + 1]
  /\ UNCHANGED <<mode, confirmed, missed, buffers, requests, loop, notified, handlers,
                 process>>

\* Only loops that wait with a listener see it.
CtrlC ==
  /\ signals < MaxSignals
  /\ signals' = signals + 1
  /\ notified' = [ch \in Channels |-> notified[ch] \/ loop[ch] \in {"wait", "retry"}]
  /\ UNCHANGED <<mode, service, buffers, requests, loop, handlers, phase, server, boots,
                 crashed>>

LoopStep(ch) ==
  \/ InitDone(ch) \/ InitFails(ch) \/ StopAtFlag(ch) \/ RetryEnds(ch) \/ Drained(ch)

MainStep ==
  FirstLoopEnds \/ AllLoopsEnd \/ SchedulerStops \/ ServerStops \/ McpCloses

Next ==
  \/ \E ch \in Channels :
       \/ LoopStep(ch)
       \/ TakePending(ch) \/ Request(ch) \/ Fetch(ch) \/ EmptyAnswer(ch) \/ QueueExpires(ch)
       \/ PollFails(ch) \/ Receive(ch) \/ Interrupted(ch) \/ Offer(ch)
       \/ \E m \in Messages :
            \/ HandlerReturns(ch, m) \/ Post(ch, m)
            \/ Enqueue(ch, m) \/ Refuse(ch, m) \/ Abandon(ch, m)
  \/ LoopPanics \/ MainStep \/ SchedulerFails \/ Crash \/ Restart \/ CtrlC

Spec == Init /\ [][Next]_vars

\* tokio keeps running the tasks: init() and handlers return, a request to a
\* closed queue is answered.  Nothing is assumed of which task comes first.
TaskStep ==
  \E ch \in Channels :
    LoopStep(ch) \/ \E m \in Messages : HandlerReturns(ch, m) \/ Refuse(ch, m)

Fairness == WF_vars(MainStep) /\ WF_vars(TaskStep)

FairSpec == Spec /\ Fairness

(***************************************************************************)
(* Properties                                                              *)
(***************************************************************************)
\* Telegram never forgets a message before a handler has it, in whatever process.
\* Zulip forgets others of two kinds only: what a new event queue skipped, and
\* what an ended process had fetched and not yet read from its pending buffer.
ConfirmedWasStarted ==
  /\ Poll("telegram") => 1 .. confirmed["telegram"] \subseteq started["telegram"]
  /\ Poll("zulip") =>
       1 .. confirmed["zulip"] \subseteq started["zulip"] \union left["zulip"] \union missed["zulip"]

\* Stopped and started again any number of times without a crash, the process has
\* handled to the end every message that polling made Telegram forget, and every
\* message that polling fetched from Zulip but those its pending buffer held when a
\* process stopped: the drain cuts no handler, and ZulipPoll, which drops
\* pending_events and registers anew, is the one place where a stop loses messages.
StopLosesOnlyZulipBuffer ==
  phase = "exit" /\ ~crashed =>
    /\ Poll("telegram") => 1 .. confirmed["telegram"] \subseteq done["telegram"]
    /\ Poll("zulip") => fetched["zulip"] \subseteq done["zulip"] \union left["zulip"]

\* Message m was given to a handler or waits in the queue of the loop.
Held(ch, m) == m \in started[ch] \/ \E i \in DOMAIN queue[ch] : queue[ch][i] = m

\* A message whose webhook request was answered with 200 is in the queue or was
\* given to a handler, as long as its loop runs and none died before.
AcknowledgedIsKept ==
  \A ch \in Channels : boots = 1 /\ loop[ch] # "ended" => \A m \in acked[ch] : Held(ch, m)

\* When the scheduler and then the MCP sessions are stopped, no handler runs.
HandlersEndFirst ==
  phase \in {"scheduler", "webhook", "mcp", "exit"} =>
    \A ch \in Channels : running[ch] = {}

\* One process gives polled messages to handlers once each, and in order.
PolledInOrder ==
  [][\A ch \in Channels : Poll(ch) =>
       \A m \in running'[ch] \ running[ch] : \A d \in dispatched[ch] : d < m]_vars

\* Once one loop has ended, for whatever reason, the process ends.
ShutdownCompletes ==
  (phase = "run" /\ \E ch \in Enabled : loop[ch] = "ended") ~> phase \in {"exit", "down"}
=============================================================================
