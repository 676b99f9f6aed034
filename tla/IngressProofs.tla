--------------------------- MODULE IngressProofs ---------------------------
(***************************************************************************)
(* Proofs about Ingress, for every number of messages, requests, restarts  *)
(* and signals and every capacity of the queues: the safety properties, by *)
(* the inductive invariant of IngressInvariants.  One lemma per part of    *)
(* the invariant, one step per action.                                     *)
(***************************************************************************)
EXTENDS IngressInvariants, TLAPS

\* A message given to a handler is counted as a message.
LEMMA DispatchTypes ==
  ASSUME TypeOK, NEW ch \in Channels, NEW m \in Messages, Dispatch(ch, m)
  PROVE  /\ running' \in [Channels -> SUBSET Messages]
         /\ dispatched' \in [Channels -> SUBSET Messages]
         /\ started' \in [Channels -> SUBSET Messages]
         /\ done' \in [Channels -> SUBSET Messages]
         /\ loop' \in [Channels -> Pcs] /\ notified' \in [Channels -> BOOLEAN]
<1>1. ASSUME NEW S \in [Channels -> SUBSET Messages]
      PROVE  [S EXCEPT ![ch] = @ \union {m}] \in [Channels -> SUBSET Messages]
  OBVIOUS
<1>2. /\ running \in [Channels -> SUBSET Messages] /\ dispatched \in [Channels -> SUBSET Messages]
      /\ started \in [Channels -> SUBSET Messages] /\ done \in [Channels -> SUBSET Messages]
      /\ loop \in [Channels -> Pcs] /\ notified \in [Channels -> BOOLEAN]
  BY DEF TypeOK
<1>3. loop' \in [Channels -> Pcs] /\ notified' \in [Channels -> BOOLEAN]
  BY <1>2 DEF Dispatch, Goto, NewPass, Pcs
<1> QED BY <1>1, <1>2, <1>3 DEF Dispatch

\* A step of handlers and loops alone.
LEMMA HandlerTypes ==
  ASSUME TypeOK, UNCHANGED <<mode, service, buffers, requests, process>>,
         running' \in [Channels -> SUBSET Messages], dispatched' \in [Channels -> SUBSET Messages],
         started' \in [Channels -> SUBSET Messages], done' \in [Channels -> SUBSET Messages],
         loop' \in [Channels -> Pcs], notified' \in [Channels -> BOOLEAN]
  PROVE  TypeOK'
BY DEF TypeOK, service, buffers, requests, process

\* Types.
LEMMA TypesKept ==
  TypeOK /\ [Next]_vars => TypeOK'
<1> SUFFICES ASSUME TypeOK, [Next]_vars PROVE TypeOK'
  OBVIOUS
<1> USE IngressAssumption DEF TypeOK, Pcs, Phases, Numbers, Messages
<1> USE DEF Goto, NewPass, Leave, Ready, Each
<1>1. ASSUME NEW ch \in Channels, InitDone(ch) PROVE TypeOK'
  <2>1. CASE ch = "zulip" /\ Poll(ch)
    <3>1. /\ RegisterQueue(ch) /\ loop' = [loop EXCEPT ![ch] = "wait"]
          /\ UNCHANGED <<mode, requests, notified, handlers, process>>
      BY <1>1, <2>1 DEF InitDone
    <3> QED BY <3>1 DEF RegisterQueue, requests, handlers, process
  <2>2. CASE ~(ch = "zulip" /\ Poll(ch))
    BY <1>1, <2>2 DEF InitDone, service, buffers, requests, handlers, process
  <2> QED BY <2>1, <2>2
<1>2. ASSUME NEW ch \in Channels, InitFails(ch) PROVE TypeOK'
  BY <1>2 DEF InitFails, service, buffers, requests, handlers, process
<1>3. ASSUME NEW ch \in Channels, StopAtFlag(ch) PROVE TypeOK'
  BY <1>3 DEF StopAtFlag, service, buffers, requests, handlers, process
<1>4. ASSUME NEW ch \in Channels, RetryEnds(ch) PROVE TypeOK'
  BY <1>4 DEF RetryEnds, service, buffers, requests, handlers, process
<1>5. ASSUME NEW ch \in Channels, Drained(ch) PROVE TypeOK'
  BY <1>5 DEF Drained, service, buffers, requests, handlers, process
<1>6. ASSUME NEW ch \in Channels, TakePending(ch) PROVE TypeOK'
  <2>1. next[ch] + 1 \in Messages /\ next' \in [Channels -> Numbers]
        /\ Dispatch(ch, next[ch] + 1)
        /\ UNCHANGED <<mode, service, offset, queue, fetched, left, requests, process>>
    BY <1>6 DEF TakePending
  <2>2. /\ running' \in [Channels -> SUBSET Messages]
        /\ dispatched' \in [Channels -> SUBSET Messages]
        /\ started' \in [Channels -> SUBSET Messages]
        /\ done' \in [Channels -> SUBSET Messages]
        /\ loop' \in [Channels -> Pcs] /\ notified' \in [Channels -> BOOLEAN]
    BY <2>1, DispatchTypes
  <2> QED BY <2>1, <2>2 DEF service, requests, process
<1>7. ASSUME NEW ch \in Channels, Request(ch) PROVE TypeOK'
  BY <1>7 DEF Request, buffers, requests, handlers, process
<1>8. ASSUME NEW ch \in Channels, Fetch(ch) PROVE TypeOK'
  <2>1. PICK last \in confirmed[ch] + 1 .. offered[ch] :
          /\ offset' = [offset EXCEPT ![ch] = last]
          /\ next' = [next EXCEPT ![ch] = confirmed[ch] + 1]
          /\ fetched' = [fetched EXCEPT ![ch] = @ \union (confirmed[ch] + 1 .. last)]
          /\ Dispatch(ch, confirmed[ch] + 1)
          /\ UNCHANGED <<mode, service, queue, left, requests, process>>
    BY <1>8 DEF Fetch
  <2>2. last \in Numbers /\ confirmed[ch] + 1 \in Messages /\ confirmed[ch] + 1 \in Numbers
    OBVIOUS
  <2>3. /\ offset' \in [Channels -> Numbers] /\ next' \in [Channels -> Numbers]
        /\ fetched' \in [Channels -> SUBSET Messages]
    BY <2>1, <2>2
  <2>4. /\ running' \in [Channels -> SUBSET Messages]
        /\ dispatched' \in [Channels -> SUBSET Messages]
        /\ started' \in [Channels -> SUBSET Messages]
        /\ done' \in [Channels -> SUBSET Messages]
        /\ loop' \in [Channels -> Pcs] /\ notified' \in [Channels -> BOOLEAN]
    BY <2>1, <2>2, DispatchTypes
  <2> QED BY <2>1, <2>3, <2>4 DEF service, requests, process
<1>9. ASSUME NEW ch \in Channels, EmptyAnswer(ch) PROVE TypeOK'
  BY <1>9 DEF EmptyAnswer, service, buffers, requests, handlers, process
<1>10. ASSUME NEW ch \in Channels, QueueExpires(ch) PROVE TypeOK'
  BY <1>10 DEF QueueExpires, RegisterQueue, requests, handlers, process
<1>11. ASSUME NEW ch \in Channels, PollFails(ch) PROVE TypeOK'
  BY <1>11 DEF PollFails, service, buffers, requests, handlers, process
<1>12. ASSUME NEW ch \in Channels, Receive(ch) PROVE TypeOK'
  <2>1. /\ queue[ch] # <<>> /\ queue' = [queue EXCEPT ![ch] = Tail(@)]
        /\ Dispatch(ch, Head(queue[ch]))
        /\ UNCHANGED <<mode, service, offset, next, fetched, left, requests, process>>
    BY <1>12 DEF Receive
  <2>2. /\ Head(queue[ch]) \in Messages /\ Tail(queue[ch]) \in Seq(Messages)
        /\ Len(Tail(queue[ch])) <= QueueCapacity
    BY <2>1
  <2>3. /\ queue' \in [Channels -> Seq(Messages)]
        /\ \A k \in Channels : Len(queue'[k]) <= QueueCapacity
    BY <2>1, <2>2
  <2>4. /\ running' \in [Channels -> SUBSET Messages]
        /\ dispatched' \in [Channels -> SUBSET Messages]
        /\ started' \in [Channels -> SUBSET Messages]
        /\ done' \in [Channels -> SUBSET Messages]
        /\ loop' \in [Channels -> Pcs] /\ notified' \in [Channels -> BOOLEAN]
    BY <2>1, <2>2, DispatchTypes
  <2> QED BY <2>1, <2>3, <2>4 DEF service, requests, process
<1>13. ASSUME NEW ch \in Channels, Interrupted(ch) PROVE TypeOK'
  BY <1>13 DEF Interrupted, service, buffers, requests, handlers, process
<1>14. ASSUME NEW ch \in Channels, Offer(ch) PROVE TypeOK'
  <2>1. /\ offered["telegram"] \in Nat /\ offered["zulip"] \in Nat
        /\ offered["telegram"] + offered["zulip"] < MaxMessages
    BY <1>14 DEF Offer, Channels
  <2>2. offered[ch] + 1 \in 0 .. MaxMessages
    BY <2>1 DEF Channels
  <2> QED BY <1>14, <2>2 DEF Offer, buffers, requests, handlers, process
<1>15. ASSUME NEW ch \in Channels, NEW m \in Messages, HandlerReturns(ch, m) PROVE TypeOK'
  <2>1. /\ running' \in [Channels -> SUBSET Messages] /\ done' \in [Channels -> SUBSET Messages]
        /\ loop' \in [Channels -> Pcs] /\ notified' \in [Channels -> BOOLEAN]
    BY <1>15 DEF HandlerReturns
  <2>2. /\ UNCHANGED <<mode, service, buffers, requests, process>>
        /\ dispatched' = dispatched /\ started' = started
    BY <1>15 DEF HandlerReturns
  <2>3. /\ dispatched' \in [Channels -> SUBSET Messages]
        /\ started' \in [Channels -> SUBSET Messages]
    BY <2>2
  <2> QED BY <2>1, <2>2, <2>3, HandlerTypes, Zenon
<1>16. ASSUME NEW ch \in Channels, NEW m \in Messages, Post(ch, m) PROVE TypeOK'
  <2>1. posting' \in [Channels -> SUBSET (1 .. MaxMessages)] /\ posts' \in 0 .. MaxPosts
    BY <1>16 DEF Post
  <2>2. UNCHANGED <<mode, service, buffers, acked, loop, notified, handlers, process>>
    BY <1>16 DEF Post
  <2> QED BY <2>1, <2>2 DEF service, buffers, handlers, process
<1>17. ASSUME NEW ch \in Channels, NEW m \in Messages, Enqueue(ch, m) PROVE TypeOK'
  <2>1. acked' \in [Channels -> SUBSET (1 .. MaxMessages)]
    <3>1. acked' \in {acked, [acked EXCEPT ![ch] = @ \union {m}]}
      BY <1>17 DEF Enqueue
    <3>2. [acked EXCEPT ![ch] = @ \union {m}] \in [Channels -> SUBSET (1 .. MaxMessages)]
      OBVIOUS
    <3> QED BY <3>1, <3>2
  <2>2. /\ queue' \in [Channels -> Seq(1 .. MaxMessages)]
        /\ \A k \in Channels : Len(queue'[k]) <= QueueCapacity
    <3>1. /\ Append(queue[ch], m) \in Seq(1 .. MaxMessages)
          /\ Len(Append(queue[ch], m)) <= QueueCapacity
      BY <1>17 DEF Enqueue
    <3> QED BY <1>17, <3>1 DEF Enqueue
  <2>3. posting' \in [Channels -> SUBSET (1 .. MaxMessages)]
    BY <1>17 DEF Enqueue
  <2> QED BY <1>17, <2>1, <2>2, <2>3 DEF Enqueue, service, handlers, process
<1>18. ASSUME NEW ch \in Channels, NEW m \in Messages, Refuse(ch, m) PROVE TypeOK'
  BY <1>18 DEF Refuse, service, buffers, handlers, process
<1>19. ASSUME NEW ch \in Channels, NEW m \in Messages, Abandon(ch, m) PROVE TypeOK'
  BY <1>19 DEF Abandon, service, buffers, handlers, process
<1>20. ASSUME LoopPanics PROVE TypeOK'
  BY <1>20 DEF LoopPanics, service, buffers, requests, process
<1>21. ASSUME MainStep PROVE TypeOK'
  <2>1. CASE McpCloses
    BY <2>1 DEF McpCloses, MemoryLost, service
  <2>2. CASE FirstLoopEnds \/ AllLoopsEnd \/ SchedulerStops \/ ServerStops
    BY <2>2 DEF FirstLoopEnds, AllLoopsEnd, SchedulerStops, ServerStops, service, buffers,
                requests, handlers
  <2> QED BY <1>21, <2>1, <2>2 DEF MainStep
<1>22. ASSUME SchedulerFails \/ Crash PROVE TypeOK'
  <2>1. MemoryLost => /\ loop' \in [Channels -> Pcs]
                      /\ queue' \in [Channels -> Seq(1 .. MaxMessages)]
                      /\ \A k \in Channels : Len(queue'[k]) <= QueueCapacity
                      /\ left' \in [Channels -> SUBSET (1 .. MaxMessages)]
    BY DEF MemoryLost
  <2>2. CASE SchedulerFails
    BY <2>1, <2>2 DEF SchedulerFails, MemoryLost, service
  <2>3. CASE Crash
    BY <2>1, <2>3 DEF Crash, MemoryLost, service
  <2> QED BY <1>22, <2>2, <2>3
<1>23. ASSUME Restart PROVE TypeOK'
  BY <1>23 DEF Restart, LoopsAtStart, ServerAtStart, service, buffers, requests, handlers
<1>24. ASSUME CtrlC PROVE TypeOK'
  BY <1>24 DEF CtrlC, service, buffers, requests, handlers
<1>25. CASE UNCHANGED vars
  BY <1>25 DEF vars, service, buffers, requests, handlers, process
<1> QED BY <1>1, <1>2, <1>3, <1>4, <1>5, <1>6, <1>7, <1>8, <1>9, <1>10, <1>11, <1>12, <1>13,
           <1>14, <1>15, <1>16, <1>17, <1>18, <1>19, <1>20, <1>21, <1>22, <1>23, <1>24, <1>25
        DEF Next, LoopStep

\* Where requests come from.
LEMMA RequestsKept ==
  TypeOK /\ RequestShape /\ [Next]_vars => RequestShape'
<1> SUFFICES ASSUME TypeOK /\ RequestShape, [Next]_vars PROVE RequestShape'
  OBVIOUS
<1> USE DEF TypeOK, RequestShape, Webhook, Each
<1>1. ASSUME NEW ch \in Channels,
          InitDone(ch) \/ InitFails(ch) \/ StopAtFlag(ch) \/ RetryEnds(ch)
          \/ Drained(ch) \/ TakePending(ch) \/ Request(ch)
       PROVE RequestShape'
  BY <1>1 DEF InitDone, InitFails, StopAtFlag, RetryEnds, Drained, TakePending, Request,
    requests
<1>2. ASSUME NEW ch \in Channels,
          Fetch(ch) \/ EmptyAnswer(ch) \/ QueueExpires(ch) \/ PollFails(ch)
          \/ Receive(ch) \/ Interrupted(ch) \/ Offer(ch)
       PROVE RequestShape'
  BY <1>2 DEF Fetch, EmptyAnswer, QueueExpires, PollFails, Receive, Interrupted, Offer,
    requests
<1>3. ASSUME NEW ch \in Channels, NEW m \in Messages, HandlerReturns(ch, m) PROVE RequestShape'
  BY <1>3 DEF HandlerReturns, requests
<1>4. ASSUME NEW ch \in Channels, NEW m \in Messages,
          Post(ch, m) \/ Enqueue(ch, m) \/ Refuse(ch, m) \/ Abandon(ch, m)
       PROVE RequestShape'
  BY <1>4 DEF Post, Enqueue, Refuse, Abandon
<1>5. ASSUME MainStep PROVE RequestShape'
  BY <1>5 DEF MainStep, FirstLoopEnds, AllLoopsEnd, SchedulerStops, ServerStops,
    McpCloses, MemoryLost, requests
<1>6. ASSUME LoopPanics \/ SchedulerFails \/ Crash \/ Restart \/ CtrlC PROVE RequestShape'
  BY <1>6 DEF LoopPanics, SchedulerFails, MemoryLost, Crash, Restart, CtrlC, requests
<1>7. CASE UNCHANGED vars
  BY <1>7 DEF vars, service, buffers, requests, handlers, process
<1> QED BY <1>1, <1>2, <1>3, <1>4, <1>5, <1>6, <1>7
       DEF Next, LoopStep

\* Where the loops and their handlers are.
LEMMA LoopsKept ==
  TypeOK /\ LoopShape /\ PhaseShape /\ [Next]_vars => LoopShape'
<1> SUFFICES ASSUME TypeOK /\ LoopShape /\ PhaseShape, [Next]_vars PROVE LoopShape'
  OBVIOUS
<1> USE DEF TypeOK, LoopShape, Channels, Goto, Leave
<1>1. ASSUME NEW ch \in Channels, InitDone(ch) PROVE LoopShape'
  BY <1>1 DEF InitDone, handlers
<1>2. ASSUME NEW ch \in Channels, InitFails(ch) PROVE LoopShape'
  BY <1>2 DEF InitFails, handlers
<1>3. ASSUME NEW ch \in Channels, StopAtFlag(ch) PROVE LoopShape'
  BY <1>3 DEF StopAtFlag, handlers
<1>4. ASSUME NEW ch \in Channels, RetryEnds(ch) PROVE LoopShape'
  BY <1>4 DEF RetryEnds, handlers
<1>5. ASSUME NEW ch \in Channels, Drained(ch) PROVE LoopShape'
  BY <1>5 DEF Drained, handlers
<1>6. ASSUME NEW ch \in Channels, TakePending(ch) PROVE LoopShape'
  BY <1>6 DEF TakePending, Dispatch, Ready
<1>7. ASSUME NEW ch \in Channels, Fetch(ch) PROVE LoopShape'
  BY <1>7 DEF Fetch, Dispatch, Ready
<1>8. ASSUME NEW ch \in Channels, Receive(ch) PROVE LoopShape'
  BY <1>8 DEF Receive, Dispatch, Ready
<1>9. ASSUME NEW ch \in Channels,
          Request(ch) \/ EmptyAnswer(ch) \/ QueueExpires(ch) \/ Offer(ch)
       PROVE LoopShape'
  BY <1>9 DEF Request, EmptyAnswer, QueueExpires, Offer, handlers
<1>10. ASSUME NEW ch \in Channels, PollFails(ch) PROVE LoopShape'
  BY <1>10 DEF PollFails, handlers, Ready
<1>11. ASSUME NEW ch \in Channels, Interrupted(ch) PROVE LoopShape'
  BY <1>11 DEF Interrupted, handlers, Ready
<1>12. ASSUME NEW ch \in Channels, NEW m \in Messages, HandlerReturns(ch, m) PROVE LoopShape'
  BY <1>12 DEF HandlerReturns
<1>13. ASSUME NEW ch \in Channels, NEW m \in Messages,
          Post(ch, m) \/ Enqueue(ch, m) \/ Refuse(ch, m) \/ Abandon(ch, m)
       PROVE LoopShape'
  BY <1>13 DEF Post, Enqueue, Refuse, Abandon, handlers
<1>14. ASSUME LoopPanics PROVE LoopShape'
  BY <1>14 DEF LoopPanics
<1>15. ASSUME MainStep PROVE LoopShape'
  BY <1>15 DEF MainStep, FirstLoopEnds, AllLoopsEnd, SchedulerStops, ServerStops,
    McpCloses, MemoryLost, handlers, Each
<1>16. ASSUME SchedulerFails \/ Crash PROVE LoopShape'
  BY <1>16 DEF SchedulerFails, MemoryLost, Crash, Each
<1>17. ASSUME Restart PROVE LoopShape'
  BY <1>17 DEF Restart, PhaseShape, LoopsAtStart, handlers
<1>18. ASSUME CtrlC PROVE LoopShape'
  BY <1>18 DEF CtrlC, handlers
<1>19. CASE UNCHANGED vars
  BY <1>19 DEF vars, service, buffers, requests, handlers, process
<1> QED BY <1>1, <1>2, <1>3, <1>4, <1>5, <1>6, <1>7, <1>8, <1>9, <1>10, <1>11, <1>12,
       <1>13, <1>14, <1>15, <1>16, <1>17, <1>18, <1>19
       DEF Next, LoopStep

\* What run_runtime has waited for.
LEMMA PhasesKept ==
  TypeOK /\ LoopShape /\ PhaseShape /\ [Next]_vars => PhaseShape'
<1> SUFFICES ASSUME TypeOK /\ LoopShape /\ PhaseShape, [Next]_vars PROVE PhaseShape'
  OBVIOUS
<1> USE DEF TypeOK, PhaseShape, Channels, Goto, Leave
<1>1. ASSUME NEW ch \in Channels,
          InitDone(ch) \/ InitFails(ch) \/ RetryEnds(ch) \/ Drained(ch)
       PROVE PhaseShape'
  BY <1>1 DEF InitDone, InitFails, RetryEnds, Drained, process
<1>2. ASSUME NEW ch \in Channels, StopAtFlag(ch) PROVE PhaseShape'
  BY <1>2 DEF StopAtFlag, process
<1>3. ASSUME NEW ch \in Channels, TakePending(ch) \/ Fetch(ch) \/ Receive(ch) PROVE PhaseShape'
  BY <1>3 DEF TakePending, Fetch, Receive, Dispatch, Ready, process
<1>4. ASSUME NEW ch \in Channels,
          Request(ch) \/ EmptyAnswer(ch) \/ QueueExpires(ch) \/ Offer(ch)
       PROVE PhaseShape'
  BY <1>4 DEF Request, EmptyAnswer, QueueExpires, Offer, process
<1>5. ASSUME NEW ch \in Channels, PollFails(ch) \/ Interrupted(ch) PROVE PhaseShape'
  BY <1>5 DEF PollFails, Interrupted, Ready, process
<1>6. ASSUME NEW ch \in Channels, NEW m \in Messages, HandlerReturns(ch, m) PROVE PhaseShape'
  BY <1>6 DEF HandlerReturns, process
<1>7. ASSUME NEW ch \in Channels, NEW m \in Messages,
          Post(ch, m) \/ Enqueue(ch, m) \/ Refuse(ch, m) \/ Abandon(ch, m)
       PROVE PhaseShape'
  BY <1>7 DEF Post, Enqueue, Refuse, Abandon, process
<1>8. ASSUME LoopPanics PROVE PhaseShape'
  BY <1>8 DEF LoopPanics, process
<1>9. ASSUME MainStep PROVE PhaseShape'
  BY <1>9 DEF MainStep, FirstLoopEnds, AllLoopsEnd, SchedulerStops, ServerStops,
    McpCloses, MemoryLost, Enabled, LoopShape
<1>10. ASSUME SchedulerFails \/ Crash PROVE PhaseShape'
  BY <1>10 DEF SchedulerFails, MemoryLost, Crash
<1>11. ASSUME Restart PROVE PhaseShape'
  BY <1>11 DEF Restart
<1>12. ASSUME CtrlC PROVE PhaseShape'
  BY <1>12 DEF CtrlC, process
<1>13. CASE UNCHANGED vars
  BY <1>13 DEF vars, service, buffers, requests, handlers, process
<1> QED BY <1>1, <1>2, <1>3, <1>4, <1>5, <1>6, <1>7, <1>8, <1>9, <1>10, <1>11, <1>12,
       <1>13
       DEF Next, LoopStep

\* No handler is lost without a crash.
LEMMA HandlersKept ==
  TypeOK /\ LoopShape /\ PhaseShape /\ HandledShape /\ [Next]_vars => HandledShape'
<1> SUFFICES ASSUME TypeOK /\ LoopShape /\ PhaseShape /\ HandledShape, [Next]_vars PROVE HandledShape'
  OBVIOUS
<1> USE DEF TypeOK, HandledShape, Channels, Goto, Leave
<1>1. ASSUME NEW ch \in Channels,
          InitDone(ch) \/ InitFails(ch) \/ StopAtFlag(ch) \/ RetryEnds(ch)
          \/ Drained(ch)
       PROVE HandledShape'
  BY <1>1 DEF InitDone, InitFails, StopAtFlag, RetryEnds, Drained, handlers, process
<1>2. ASSUME NEW ch \in Channels, TakePending(ch) \/ Fetch(ch) \/ Receive(ch) PROVE HandledShape'
  BY <1>2 DEF TakePending, Fetch, Receive, Dispatch, process
<1>3. ASSUME NEW ch \in Channels,
          Request(ch) \/ EmptyAnswer(ch) \/ QueueExpires(ch) \/ Offer(ch)
          \/ PollFails(ch) \/ Interrupted(ch)
       PROVE HandledShape'
  BY <1>3 DEF Request, EmptyAnswer, QueueExpires, Offer, PollFails, Interrupted, handlers,
    process
<1>4. ASSUME NEW ch \in Channels, NEW m \in Messages, HandlerReturns(ch, m) PROVE HandledShape'
  BY <1>4 DEF HandlerReturns, process
<1>5. ASSUME NEW ch \in Channels, NEW m \in Messages,
          Post(ch, m) \/ Enqueue(ch, m) \/ Refuse(ch, m) \/ Abandon(ch, m)
       PROVE HandledShape'
  BY <1>5 DEF Post, Enqueue, Refuse, Abandon, handlers, process
<1>6. ASSUME LoopPanics PROVE HandledShape'
  BY <1>6 DEF LoopPanics, process
<1>7. ASSUME MainStep PROVE HandledShape'
  BY <1>7 DEF MainStep, FirstLoopEnds, AllLoopsEnd, SchedulerStops, ServerStops,
    McpCloses, MemoryLost, LoopShape, PhaseShape, handlers, Each
<1>8. ASSUME SchedulerFails PROVE HandledShape'
  BY <1>8 DEF SchedulerFails, MemoryLost, Enabled, LoopShape, Each
<1>9. ASSUME Crash PROVE HandledShape'
  BY <1>9 DEF Crash, MemoryLost
<1>10. ASSUME Restart \/ CtrlC PROVE HandledShape'
  BY <1>10 DEF Restart, CtrlC, handlers, process
<1>11. CASE UNCHANGED vars
  BY <1>11 DEF vars, service, buffers, requests, handlers, process
<1> QED BY <1>1, <1>2, <1>3, <1>4, <1>5, <1>6, <1>7, <1>8, <1>9, <1>10, <1>11
       DEF Next, LoopStep

\* A new queue starts after everything offered.
LEMMA Registered ==
  ASSUME TypeOK, PollShape, NEW ch \in Channels, RegisterQueue(ch),
         UNCHANGED <<mode, handlers>>
  PROVE  PollShape'
<1>1. /\ confirmed' = [confirmed EXCEPT ![ch] = offered[ch]]
      /\ offset' = [offset EXCEPT ![ch] = offered[ch]]
      /\ next' = [next EXCEPT ![ch] = offered[ch]]
      /\ UNCHANGED <<mode, offered, started, dispatched>>
  BY DEF RegisterQueue, handlers
<1>2. ASSUME NEW k \in Channels, Poll(k)'
      PROVE  /\ next'[k] <= offset'[k] /\ offset'[k] <= offered'[k]
             /\ confirmed'[k] + 1 .. next'[k] \subseteq started'[k]
             /\ \A d \in dispatched'[k] : d <= next'[k]
  <2>1. Poll(k)
    BY <1>1, <1>2 DEF Poll
  <2>2. CASE k # ch
    BY <1>1, <2>1, <2>2 DEF TypeOK, PollShape
  <2>3. CASE k = ch
    <3>1. /\ next'[k] = offered[k] /\ offset'[k] = offered[k] /\ confirmed'[k] = offered[k]
          /\ offered[k] \in Nat /\ confirmed[k] \in Nat /\ next[k] \in Nat /\ offset[k] \in Nat
          /\ dispatched[k] \subseteq Nat
      BY <1>1, <2>3, IngressAssumption DEF TypeOK, Numbers, Messages
    <3>2. /\ next[k] <= offset[k] /\ offset[k] <= offered[k]
          /\ \A d \in dispatched[k] : d <= next[k]
      BY <2>1 DEF PollShape
    <3> QED BY <1>1, <3>1, <3>2
  <2> QED BY <2>2, <2>3
<1> QED BY <1>2 DEF PollShape

\* A process that loses its memory polls again from the start of its buffer.
LEMMA PollForgotten ==
  ASSUME TypeOK, PollShape, MemoryLost
  PROVE  PollShape'
<1>1. /\ mode' = mode /\ offered' = offered /\ confirmed' = confirmed /\ started' = started
  BY DEF MemoryLost, service
<1>2. ASSUME NEW ch \in Channels
      PROVE  /\ next'[ch] = 0 /\ offset'[ch] = 0 /\ dispatched'[ch] = {}
             /\ confirmed[ch] \in Nat /\ offered[ch] \in Nat
  <2>1. next'[ch] = 0 /\ offset'[ch] = 0 /\ dispatched'[ch] = {}
    BY DEF MemoryLost, Each
  <2>2. confirmed[ch] \in Nat /\ offered[ch] \in Nat
    BY IngressAssumption DEF TypeOK, Numbers
  <2> QED BY <2>1, <2>2
<1>3. ASSUME NEW ch \in Channels
      PROVE  /\ next'[ch] <= offset'[ch] /\ offset'[ch] <= offered'[ch]
             /\ confirmed'[ch] + 1 .. next'[ch] \subseteq started'[ch]
             /\ \A d \in dispatched'[ch] : d <= next'[ch]
  <2>1. confirmed[ch] + 1 .. 0 = {}
    BY <1>2
  <2> QED BY <1>1, <1>2, <2>1
<1> QED BY <1>3 DEF PollShape

\* What polling has taken from its buffer.
LEMMA PollKept ==
  TypeOK /\ PollShape /\ [Next]_vars => PollShape'
<1> SUFFICES ASSUME TypeOK /\ PollShape, [Next]_vars PROVE PollShape'
  OBVIOUS
<1> USE IngressAssumption DEF TypeOK, PollShape, Poll, Numbers, Messages
<1>1. ASSUME NEW ch \in Channels,
          InitFails(ch) \/ StopAtFlag(ch) \/ RetryEnds(ch) \/ Drained(ch)
       PROVE PollShape'
  BY <1>1 DEF InitFails, StopAtFlag, RetryEnds, Drained, service, buffers, handlers
<1>2. ASSUME NEW ch \in Channels, InitDone(ch) PROVE PollShape'
  <2>1. CASE ch = "zulip" /\ Poll(ch)
    <3>1. RegisterQueue(ch) /\ UNCHANGED <<mode, handlers>>
      BY <1>2, <2>1 DEF InitDone
    <3> QED BY <3>1, Registered
  <2>2. CASE ~(ch = "zulip" /\ Poll(ch))
    BY <1>2, <2>2 DEF InitDone, service, buffers, handlers
  <2> QED BY <2>1, <2>2
<1>3. ASSUME NEW ch \in Channels, TakePending(ch) PROVE PollShape'
  <2>1. /\ Poll(ch) /\ next[ch] < offset[ch] /\ next' = [next EXCEPT ![ch] = @ + 1]
        /\ Dispatch(ch, next[ch] + 1) /\ UNCHANGED <<mode, service, offset>>
    BY <1>3 DEF TakePending
  <2>2. /\ started' = [started EXCEPT ![ch] = @ \union {next[ch] + 1}]
        /\ dispatched' = [dispatched EXCEPT ![ch] = @ \union {next[ch] + 1}]
    BY <2>1 DEF Dispatch
  <2>3. ASSUME NEW k \in Channels, Poll(k)'
        PROVE  /\ next'[k] <= offset'[k] /\ offset'[k] <= offered'[k]
               /\ confirmed'[k] + 1 .. next'[k] \subseteq started'[k]
               /\ \A d \in dispatched'[k] : d <= next'[k]
    <3>1. CASE k # ch
      BY <2>1, <2>2, <2>3, <3>1 DEF service
    <3>2. CASE k = ch
      <4>1. /\ next'[k] = next[k] + 1 /\ offset'[k] = offset[k] /\ offered'[k] = offered[k]
            /\ confirmed'[k] = confirmed[k]
            /\ confirmed[k] \in Nat /\ next[k] \in Nat /\ offset[k] \in Nat
            /\ started'[k] = started[k] \union {next[k] + 1}
            /\ dispatched'[k] = dispatched[k] \union {next[k] + 1}
        BY <2>1, <2>2, <3>2 DEF service
      <4>2. /\ next[k] < offset[k] /\ offset[k] <= offered[k]
            /\ confirmed[k] + 1 .. next[k] \subseteq started[k]
            /\ \A d \in dispatched[k] : d \in Nat /\ d <= next[k]
        BY <2>1, <3>2
      <4> QED BY <4>1, <4>2
    <3> QED BY <3>1, <3>2
  <2> QED BY <2>3 DEF PollShape
<1>4. ASSUME NEW ch \in Channels, Request(ch) PROVE PollShape'
  <2>1. /\ Poll(ch) /\ next[ch] = offset[ch] /\ offset[ch] > confirmed[ch]
        /\ confirmed' = [confirmed EXCEPT ![ch] = offset[ch]]
        /\ UNCHANGED <<mode, offered, next, offset, dispatched, started>>
    BY <1>4 DEF Request, buffers, handlers
  <2>2. ASSUME NEW k \in Channels, Poll(k)'
        PROVE  /\ next'[k] <= offset'[k] /\ offset'[k] <= offered'[k]
               /\ confirmed'[k] + 1 .. next'[k] \subseteq started'[k]
               /\ \A d \in dispatched'[k] : d <= next'[k]
    <3>1. CASE k # ch
      BY <2>1, <2>2, <3>1
    <3>2. CASE k = ch
      <4>1. /\ confirmed'[k] = offset[k] /\ confirmed[k] \in Nat /\ next[k] \in Nat
            /\ next[k] = offset[k] /\ confirmed[k] < offset[k]
        BY <2>1, <3>2
      <4>2. /\ confirmed[k] + 1 .. next[k] \subseteq started[k]
            /\ offset[k] <= offered[k] /\ \A d \in dispatched[k] : d <= next[k]
        BY <2>1, <3>2
      <4> QED BY <2>1, <4>1, <4>2
    <3> QED BY <3>1, <3>2
  <2> QED BY <2>2 DEF PollShape
<1>5. ASSUME NEW ch \in Channels, Fetch(ch) PROVE PollShape'
  <2>1. PICK last \in confirmed[ch] + 1 .. offered[ch] :
               /\ offset' = [offset EXCEPT ![ch] = last]
               /\ next' = [next EXCEPT ![ch] = confirmed[ch] + 1]
               /\ Dispatch(ch, confirmed[ch] + 1)
    BY <1>5 DEF Fetch
  <2>2. Poll(ch) /\ next[ch] = offset[ch] /\ confirmed[ch] >= offset[ch] /\ UNCHANGED <<mode, service>>
    BY <1>5 DEF Fetch
  <2>3. started' = [started EXCEPT ![ch] = @ \union {confirmed[ch] + 1}]
        /\ dispatched' = [dispatched EXCEPT ![ch] = @ \union {confirmed[ch] + 1}]
    BY <2>1 DEF Dispatch
  <2>4. ASSUME NEW k \in Channels, Poll(k)'
        PROVE  /\ next'[k] <= offset'[k] /\ offset'[k] <= offered'[k]
               /\ confirmed'[k] + 1 .. next'[k] \subseteq started'[k]
               /\ \A d \in dispatched'[k] : d <= next'[k]
    <3>1. CASE k # ch
      BY <2>1, <2>2, <2>3, <2>4, <3>1 DEF service
    <3>2. CASE k = ch
      <4>1. /\ next'[k] = confirmed[k] + 1 /\ offset'[k] = last /\ offered'[k] = offered[k]
            /\ confirmed'[k] = confirmed[k] /\ confirmed[k] \in Nat /\ offered[k] \in Nat
            /\ started'[k] = started[k] \union {confirmed[k] + 1}
            /\ dispatched'[k] = dispatched[k] \union {confirmed[k] + 1}
        BY <2>1, <2>2, <2>3, <3>2 DEF service
      <4>2. \A d \in dispatched[k] : d \in Nat /\ d <= confirmed[k]
        BY <2>2, <3>2
      <4> QED BY <2>1, <3>2, <4>1, <4>2
    <3> QED BY <3>1, <3>2
  <2> QED BY <2>4 DEF PollShape
<1>6. ASSUME NEW ch \in Channels, QueueExpires(ch) PROVE PollShape'
  <2>1. RegisterQueue(ch) /\ UNCHANGED <<mode, handlers>>
    BY <1>6 DEF QueueExpires
  <2> QED BY <2>1, Registered
<1>7. ASSUME NEW ch \in Channels, Receive(ch) PROVE PollShape'
  BY <1>7 DEF Receive, Dispatch, service, Webhook
<1>8. ASSUME NEW ch \in Channels,
          EmptyAnswer(ch) \/ PollFails(ch) \/ Interrupted(ch)
       PROVE PollShape'
  BY <1>8 DEF EmptyAnswer, PollFails, Interrupted, service, buffers, handlers
<1>9. ASSUME NEW ch \in Channels, Offer(ch) PROVE PollShape'
  <2>1. UNCHANGED <<mode, confirmed, missed, buffers, handlers>>
    BY <1>9 DEF Offer
  <2>2. ASSUME NEW k \in Channels PROVE offered[k] <= offered'[k] /\ offered'[k] \in Nat
    <3>1. offered' = [offered EXCEPT ![ch] = @ + 1] /\ offered[k] \in Nat
      BY <1>9 DEF Offer
    <3> QED BY <3>1
  <2> QED BY <2>1, <2>2 DEF buffers, handlers
<1>10. ASSUME NEW ch \in Channels, NEW m \in Messages, HandlerReturns(ch, m) PROVE PollShape'
  BY <1>10 DEF HandlerReturns, service, buffers
<1>11. ASSUME NEW ch \in Channels, NEW m \in Messages,
          Post(ch, m) \/ Refuse(ch, m) \/ Abandon(ch, m)
       PROVE PollShape'
  BY <1>11 DEF Post, Refuse, Abandon, service, buffers, handlers
<1>12. ASSUME NEW ch \in Channels, NEW m \in Messages, Enqueue(ch, m) PROVE PollShape'
  BY <1>12 DEF Enqueue, service, handlers
<1>13. ASSUME LoopPanics PROVE PollShape'
  BY <1>13 DEF LoopPanics, service, buffers
<1>14. ASSUME MainStep PROVE PollShape'
  <2>1. CASE McpCloses
    BY <2>1, PollForgotten DEF McpCloses
  <2>2. CASE FirstLoopEnds \/ AllLoopsEnd \/ SchedulerStops \/ ServerStops
    BY <2>2 DEF FirstLoopEnds, AllLoopsEnd, SchedulerStops, ServerStops, service, buffers,
                handlers
  <2> QED BY <1>14, <2>1, <2>2 DEF MainStep
<1>15. ASSUME SchedulerFails \/ Crash PROVE PollShape'
  BY <1>15, PollForgotten DEF SchedulerFails, Crash
<1>16. ASSUME Restart \/ CtrlC PROVE PollShape'
  BY <1>16 DEF Restart, CtrlC, service, buffers, handlers
<1>17. CASE UNCHANGED vars
  BY <1>17 DEF vars, service, buffers, requests, handlers, process
<1> QED BY <1>1, <1>2, <1>3, <1>4, <1>5, <1>6, <1>7, <1>8, <1>9, <1>10, <1>11, <1>12,
       <1>13, <1>14, <1>15, <1>16, <1>17
       DEF Next, LoopStep

\* A step that forgets no message at a service keeps what it forgot with the
\* handlers, the buffers of ended processes and the gaps of new queues.
LEMMA ConfirmedUnmoved ==
  ASSUME ConfirmedWasStarted, mode' = mode, confirmed' = confirmed,
         \A ch \in Channels : /\ started[ch] \subseteq started'[ch]
                              /\ left[ch] \subseteq left'[ch] /\ missed[ch] \subseteq missed'[ch]
  PROVE  ConfirmedWasStarted'
BY DEF ConfirmedWasStarted, Poll, Channels

\* A new queue of Zulip forgets what is with a handler, what is left, what it skips.
LEMMA ConfirmedRegistered ==
  ASSUME TypeOK, FetchShape, ConfirmedWasStarted, Poll("zulip"), RegisterQueue("zulip"),
         next["zulip"] = offset["zulip"], UNCHANGED <<mode, handlers>>
  PROVE  ConfirmedWasStarted'
<1>1. /\ confirmed' = [confirmed EXCEPT !["zulip"] = offered["zulip"]]
      /\ missed' = [missed EXCEPT !["zulip"] =
                      @ \union ((confirmed["zulip"] + 1 .. offered["zulip"]) \ fetched["zulip"])]
      /\ UNCHANGED <<mode, started, left>>
  BY DEF RegisterQueue, handlers
<1>2. /\ "zulip" \in Channels /\ "telegram" \in Channels
      /\ confirmed["zulip"] \in Nat /\ offered["zulip"] \in Nat
      /\ next["zulip"] \in Nat /\ offset["zulip"] \in Nat
      /\ confirmed \in [Channels -> Numbers] /\ missed \in [Channels -> SUBSET Messages]
  BY IngressAssumption DEF TypeOK, Numbers, Channels
<1>3. /\ fetched["zulip"] \subseteq started["zulip"] \union left["zulip"]
                                    \union (next["zulip"] + 1 .. offset["zulip"])
      /\ 1 .. confirmed["zulip"] \subseteq started["zulip"] \union left["zulip"] \union missed["zulip"]
  BY <1>2 DEF FetchShape, ConfirmedWasStarted
<1>4. fetched["zulip"] \subseteq started["zulip"] \union left["zulip"]
  BY <1>2, <1>3
<1>5. 1 .. offered["zulip"] \subseteq 1 .. confirmed["zulip"] \union (confirmed["zulip"] + 1 .. offered["zulip"])
  BY <1>2
<1>6. /\ confirmed'["zulip"] = offered["zulip"] /\ confirmed'["telegram"] = confirmed["telegram"]
      /\ missed'["zulip"] = missed["zulip"] \union
                              ((confirmed["zulip"] + 1 .. offered["zulip"]) \ fetched["zulip"])
  BY <1>1, <1>2
<1>7. 1 .. confirmed'["zulip"] \subseteq started'["zulip"] \union left'["zulip"] \union missed'["zulip"]
  BY <1>1, <1>3, <1>4, <1>5, <1>6
<1> QED BY <1>1, <1>6, <1>7 DEF ConfirmedWasStarted, Poll

\* What the services forget.
LEMMA ConfirmedKept ==
  TypeOK /\ PollShape /\ FetchShape /\ ConfirmedWasStarted /\ [Next]_vars => ConfirmedWasStarted'
<1> SUFFICES ASSUME TypeOK, PollShape, FetchShape, ConfirmedWasStarted, [Next]_vars
             PROVE  ConfirmedWasStarted'
  OBVIOUS
<1>1. ASSUME NEW ch \in Channels, InitDone(ch) PROVE ConfirmedWasStarted'
  <2>1. CASE ch = "zulip" /\ Poll(ch)
    <3>1. RegisterQueue("zulip") /\ loop["zulip"] = "init" /\ UNCHANGED <<mode, handlers>>
      BY <1>1, <2>1 DEF InitDone
    <3>2. next["zulip"] = offset["zulip"]
      BY <2>1, <3>1 DEF FetchShape
    <3> QED BY <2>1, <3>1, <3>2, ConfirmedRegistered
  <2>2. CASE ~(ch = "zulip" /\ Poll(ch))
    BY <1>1, <2>2, ConfirmedUnmoved DEF InitDone, service, buffers, handlers
  <2> QED BY <2>1, <2>2
<1>2. ASSUME NEW ch \in Channels, QueueExpires(ch) PROVE ConfirmedWasStarted'
  <2>1. /\ Poll("zulip") /\ RegisterQueue("zulip") /\ next["zulip"] = offset["zulip"]
        /\ UNCHANGED <<mode, handlers>>
    BY <1>2 DEF QueueExpires
  <2> QED BY <2>1, ConfirmedRegistered
<1>3. ASSUME NEW ch \in Channels, Request(ch) PROVE ConfirmedWasStarted'
  <2>1. /\ Poll(ch) /\ next[ch] = offset[ch] /\ offset[ch] > confirmed[ch]
        /\ confirmed' = [confirmed EXCEPT ![ch] = offset[ch]]
        /\ UNCHANGED <<mode, missed, left, started>>
    BY <1>3 DEF Request, buffers, handlers
  <2>2. confirmed'[ch] = next[ch] /\ \A k \in Channels : k # ch => confirmed'[k] = confirmed[k]
    BY <2>1 DEF TypeOK
  <2>3. confirmed[ch] \in Nat /\ next[ch] \in Nat
    BY IngressAssumption DEF TypeOK, Numbers
  <2>4. confirmed[ch] + 1 .. next[ch] \subseteq started[ch]
    BY <2>1 DEF PollShape
  <2>5. 1 .. confirmed'[ch] \subseteq 1 .. confirmed[ch] \union started[ch]
    BY <2>2, <2>3, <2>4
  <2> QED BY <2>1, <2>2, <2>5 DEF ConfirmedWasStarted, Poll, Channels
<1>4. ASSUME NEW ch \in Channels, TakePending(ch) \/ Fetch(ch) \/ Receive(ch)
      PROVE  ConfirmedWasStarted'
  <2>1. /\ mode' = mode /\ confirmed' = confirmed /\ missed' = missed /\ left' = left
        /\ \E m : started' = [started EXCEPT ![ch] = @ \union {m}]
    BY <1>4 DEF TakePending, Fetch, Receive, Dispatch, service
  <2>2. \A k \in Channels : started[k] \subseteq started'[k]
    BY <2>1 DEF TypeOK
  <2> QED BY <2>1, <2>2, ConfirmedUnmoved
<1>5. ASSUME MemoryLost PROVE ConfirmedWasStarted'
  BY <1>5, ConfirmedUnmoved DEF MemoryLost, service
<1>6. ASSUME NEW ch \in Channels,
             InitFails(ch) \/ StopAtFlag(ch) \/ RetryEnds(ch) \/ Drained(ch) \/ EmptyAnswer(ch)
             \/ PollFails(ch) \/ Interrupted(ch) \/ Offer(ch)
      PROVE  ConfirmedWasStarted'
  BY <1>6, ConfirmedUnmoved DEF InitFails, StopAtFlag, RetryEnds, Drained, EmptyAnswer,
     PollFails, Interrupted, Offer, service, buffers, handlers
<1>7. ASSUME NEW ch \in Channels, NEW m \in Messages,
             HandlerReturns(ch, m) \/ Post(ch, m) \/ Enqueue(ch, m) \/ Refuse(ch, m) \/ Abandon(ch, m)
      PROVE  ConfirmedWasStarted'
  BY <1>7, ConfirmedUnmoved DEF HandlerReturns, Post, Enqueue, Refuse, Abandon, service, buffers,
     handlers
<1>8. ASSUME MainStep PROVE ConfirmedWasStarted'
  BY <1>5, <1>8, ConfirmedUnmoved DEF MainStep, FirstLoopEnds, AllLoopsEnd, SchedulerStops,
     ServerStops, McpCloses, service, buffers, handlers
<1>9. ASSUME LoopPanics \/ SchedulerFails \/ Crash \/ Restart \/ CtrlC PROVE ConfirmedWasStarted'
  BY <1>5, <1>9, ConfirmedUnmoved DEF LoopPanics, SchedulerFails, Crash, Restart, CtrlC, service,
     buffers, handlers
<1>10. CASE UNCHANGED vars
  BY <1>10, ConfirmedUnmoved DEF vars, service, buffers, handlers
<1> QED BY <1>1, <1>2, <1>3, <1>4, <1>6, <1>7, <1>8, <1>9, <1>10 DEF Next, LoopStep

\* What FetchShape says of one polled channel.
FetchedOf(ch) ==
  /\ fetched[ch] \subseteq started[ch] \union left[ch] \union (next[ch] + 1 .. offset[ch])
  /\ confirmed[ch] <= offered[ch] /\ missed[ch] \subseteq 1 .. confirmed[ch]
  /\ fetched[ch] \intersect missed[ch] = {}

\* A process that starts has an empty buffer.
StartsEmpty ==
  /\ phase \in {"exit", "down"} => \A ch \in Channels : next[ch] = offset[ch]
  /\ \A ch \in Channels : loop[ch] = "init" => next[ch] = offset[ch]

LEMMA FetchShapeParts ==
  FetchShape <=> StartsEmpty /\ \A ch \in Channels : Poll(ch) => FetchedOf(ch)
BY DEF FetchShape, StartsEmpty, FetchedOf

\* The start of a process.
LEMMA StartsKept ==
  TypeOK /\ PhaseShape /\ StartsEmpty /\ [Next]_vars => StartsEmpty'
<1> SUFFICES ASSUME TypeOK, PhaseShape, StartsEmpty, [Next]_vars PROVE StartsEmpty'
  OBVIOUS
<1> USE DEF TypeOK, StartsEmpty, Goto, Leave
<1>1. ASSUME NEW ch \in Channels, InitDone(ch) PROVE StartsEmpty'
  <2>1. CASE ch = "zulip" /\ Poll(ch)
    BY <1>1, <2>1 DEF InitDone, RegisterQueue, process
  <2>2. CASE ~(ch = "zulip" /\ Poll(ch))
    BY <1>1, <2>2 DEF InitDone, buffers, process
  <2> QED BY <2>1, <2>2
<1>2. ASSUME NEW ch \in Channels, QueueExpires(ch) PROVE StartsEmpty'
  BY <1>2 DEF QueueExpires, RegisterQueue, process
<1>3. ASSUME NEW ch \in Channels, TakePending(ch) PROVE StartsEmpty'
  BY <1>3 DEF TakePending, Dispatch, Ready, Flag, process
<1>4. ASSUME NEW ch \in Channels, Fetch(ch) PROVE StartsEmpty'
  BY <1>4 DEF Fetch, Dispatch, Ready, Flag, process
<1>5. ASSUME NEW ch \in Channels, Receive(ch) PROVE StartsEmpty'
  BY <1>5 DEF Receive, Dispatch, process
<1>6. ASSUME MemoryLost PROVE StartsEmpty'
  BY <1>6 DEF MemoryLost, Each
<1>7. ASSUME NEW ch \in Channels,
             InitFails(ch) \/ StopAtFlag(ch) \/ RetryEnds(ch) \/ Drained(ch) \/ EmptyAnswer(ch)
             \/ PollFails(ch) \/ Interrupted(ch) \/ Offer(ch) \/ Request(ch)
      PROVE  StartsEmpty'
  BY <1>7 DEF InitFails, StopAtFlag, RetryEnds, Drained, EmptyAnswer, PollFails, Interrupted,
     Offer, Request, buffers, process
<1>8. ASSUME NEW ch \in Channels, NEW m \in Messages,
             HandlerReturns(ch, m) \/ Post(ch, m) \/ Enqueue(ch, m) \/ Refuse(ch, m) \/ Abandon(ch, m)
      PROVE  StartsEmpty'
  BY <1>8 DEF HandlerReturns, Post, Enqueue, Refuse, Abandon, buffers, process
<1>9. ASSUME MainStep PROVE StartsEmpty'
  BY <1>6, <1>9 DEF MainStep, FirstLoopEnds, AllLoopsEnd, SchedulerStops, ServerStops, McpCloses,
     buffers
<1>10. ASSUME LoopPanics \/ SchedulerFails \/ Crash \/ Restart \/ CtrlC PROVE StartsEmpty'
  BY <1>6, <1>10 DEF LoopPanics, SchedulerFails, Crash, Restart, CtrlC, buffers, process
<1>11. CASE UNCHANGED vars
  BY <1>11 DEF vars, buffers, process
<1> QED BY <1>1, <1>2, <1>3, <1>4, <1>5, <1>7, <1>8, <1>9, <1>10, <1>11 DEF Next, LoopStep

\* A step that leaves the buffers and what the service has forgotten.
LEMMA FetchUnmoved ==
  ASSUME NEW k \in Channels, Poll(k) => FetchedOf(k), offered[k] \in Nat,
         UNCHANGED <<mode, confirmed, missed, offset, next, fetched, left>>,
         offered' = offered, started[k] \subseteq started'[k]
  PROVE  Poll(k)' => FetchedOf(k)'
BY DEF FetchedOf, Poll

\* A new queue empties no buffer, and skips only what was in no answer.
LEMMA FetchRegistered ==
  ASSUME TypeOK, NEW k \in Channels, Poll(k) => FetchedOf(k), NEW ch \in Channels, Poll(ch),
         RegisterQueue(ch), next[ch] = offset[ch], UNCHANGED <<mode, handlers>>
  PROVE  Poll(k)' => FetchedOf(k)'
<1>1. /\ confirmed' = [confirmed EXCEPT ![ch] = offered[ch]]
      /\ missed' = [missed EXCEPT ![ch] =
                      @ \union ((confirmed[ch] + 1 .. offered[ch]) \ fetched[ch])]
      /\ offset' = [offset EXCEPT ![ch] = offered[ch]]
      /\ next' = [next EXCEPT ![ch] = offered[ch]]
      /\ UNCHANGED <<mode, offered, fetched, left, started>>
  BY DEF RegisterQueue, handlers
<1>2. /\ confirmed \in [Channels -> Numbers] /\ missed \in [Channels -> SUBSET Messages]
      /\ offset \in [Channels -> Numbers] /\ next \in [Channels -> Numbers]
      /\ confirmed[k] \in Nat /\ offered[k] \in Nat /\ next[k] \in Nat /\ offset[k] \in Nat
  BY IngressAssumption DEF TypeOK, Numbers
<1>3. CASE k = ch
  <2>1. /\ confirmed'[k] = offered[k] /\ offset'[k] = offered[k] /\ next'[k] = offered[k]
        /\ missed'[k] = missed[k] \union ((confirmed[k] + 1 .. offered[k]) \ fetched[k])
    BY <1>1, <1>2, <1>3
  <2>2. /\ fetched[k] \subseteq started[k] \union left[k] \union (next[k] + 1 .. offset[k])
        /\ next[k] = offset[k] /\ confirmed[k] <= offered[k]
        /\ missed[k] \subseteq 1 .. confirmed[k] /\ fetched[k] \intersect missed[k] = {}
    BY <1>3 DEF FetchedOf
  <2>3. fetched[k] \subseteq started[k] \union left[k]
    BY <1>2, <2>2
  <2>4. missed'[k] \subseteq 1 .. offered[k] /\ fetched[k] \intersect missed'[k] = {}
    BY <1>2, <2>1, <2>2
  <2> QED BY <1>1, <1>2, <2>1, <2>3, <2>4 DEF FetchedOf
<1>4. CASE k # ch
  <2>1. /\ confirmed'[k] = confirmed[k] /\ missed'[k] = missed[k] /\ offset'[k] = offset[k]
        /\ next'[k] = next[k]
    BY <1>1, <1>2, <1>4
  <2> QED BY <1>1, <2>1 DEF FetchedOf, Poll
<1> QED BY <1>3, <1>4

\* Where what was fetched is.
LEMMA FetchKept ==
  TypeOK /\ PhaseShape /\ PollShape /\ FetchShape /\ [Next]_vars => FetchShape'
<1> SUFFICES ASSUME TypeOK, PhaseShape, PollShape, FetchShape, [Next]_vars,
                    NEW k \in Channels
             PROVE  Poll(k)' => FetchedOf(k)'
  BY StartsKept, FetchShapeParts DEF FetchShape, StartsEmpty, FetchedOf
<1>a. Poll(k) => FetchedOf(k)
  BY FetchShapeParts
<1>b. /\ confirmed[k] \in Nat /\ offered[k] \in Nat /\ next[k] \in Nat /\ offset[k] \in Nat
      /\ offset \in [Channels -> Numbers] /\ next \in [Channels -> Numbers]
      /\ confirmed \in [Channels -> Numbers] /\ offered \in [Channels -> Numbers]
      /\ started \in [Channels -> SUBSET Messages] /\ fetched \in [Channels -> SUBSET Messages]
  BY IngressAssumption DEF TypeOK, Numbers
<1>1. ASSUME NEW ch \in Channels, InitDone(ch) PROVE Poll(k)' => FetchedOf(k)'
  <2>1. CASE ch = "zulip" /\ Poll(ch)
    <3>1. RegisterQueue(ch) /\ loop[ch] = "init" /\ UNCHANGED <<mode, handlers>>
      BY <1>1, <2>1 DEF InitDone
    <3>2. next[ch] = offset[ch]
      BY <3>1 DEF FetchShape
    <3> QED BY <1>a, <2>1, <3>1, <3>2, FetchRegistered
  <2>2. CASE ~(ch = "zulip" /\ Poll(ch))
    BY <1>1, <1>a, <1>b, <2>2, FetchUnmoved DEF InitDone, service, buffers, handlers
  <2> QED BY <2>1, <2>2
<1>2. ASSUME NEW ch \in Channels, QueueExpires(ch) PROVE Poll(k)' => FetchedOf(k)'
  <2>1. /\ Poll(ch) /\ RegisterQueue(ch) /\ next[ch] = offset[ch] /\ UNCHANGED <<mode, handlers>>
    BY <1>2 DEF QueueExpires
  <2> QED BY <1>a, <2>1, FetchRegistered
<1>3. ASSUME NEW ch \in Channels, TakePending(ch) PROVE Poll(k)' => FetchedOf(k)'
  <2>1. /\ next' = [next EXCEPT ![ch] = @ + 1]
        /\ started' = [started EXCEPT ![ch] = @ \union {next[ch] + 1}]
        /\ UNCHANGED <<mode, offered, confirmed, missed, offset, fetched, left>>
    BY <1>3 DEF TakePending, Dispatch, service
  <2>2. CASE k # ch
    BY <1>a, <1>b, <2>1, <2>2 DEF FetchedOf, Poll
  <2>3. CASE k = ch
    <3>1. next'[k] = next[k] + 1 /\ started'[k] = started[k] \union {next[k] + 1}
      BY <1>b, <2>1, <2>3
    <3>2. next[k] + 1 .. offset[k] \subseteq {next[k] + 1} \union (next'[k] + 1 .. offset[k])
      BY <1>b, <3>1
    <3> QED BY <1>a, <2>1, <3>1, <3>2 DEF FetchedOf, Poll
  <2> QED BY <2>2, <2>3
<1>4. ASSUME NEW ch \in Channels, Fetch(ch) PROVE Poll(k)' => FetchedOf(k)'
  <2>1. PICK last \in confirmed[ch] + 1 .. offered[ch] :
          /\ offset' = [offset EXCEPT ![ch] = last]
          /\ next' = [next EXCEPT ![ch] = confirmed[ch] + 1]
          /\ fetched' = [fetched EXCEPT ![ch] = @ \union (confirmed[ch] + 1 .. last)]
          /\ Dispatch(ch, confirmed[ch] + 1)
    BY <1>4 DEF Fetch
  <2>2. /\ next[ch] = offset[ch] /\ UNCHANGED <<mode, offered, confirmed, missed, left>>
        /\ started' = [started EXCEPT ![ch] = @ \union {confirmed[ch] + 1}]
    BY <1>4, <2>1 DEF Fetch, Dispatch, service
  <2>3. CASE k # ch
    BY <1>a, <1>b, <2>1, <2>2, <2>3 DEF FetchedOf, Poll
  <2>4. CASE k = ch
    <3>1. /\ offset'[k] = last /\ next'[k] = confirmed[k] + 1
          /\ fetched'[k] = fetched[k] \union (confirmed[k] + 1 .. last)
          /\ started'[k] = started[k] \union {confirmed[k] + 1}
          /\ next[k] = offset[k] /\ last \in Nat
      BY <1>b, <2>1, <2>2, <2>4
    <3>2. confirmed[k] + 1 .. last \subseteq {confirmed[k] + 1} \union (next'[k] + 1 .. last)
      BY <1>b, <3>1
    <3>3. next[k] + 1 .. offset[k] = {}
      BY <1>b, <3>1
    <3>4. ASSUME Poll(k) PROVE fetched'[k] \intersect missed[k] = {}
      <4>1. missed[k] \subseteq 1 .. confirmed[k] /\ fetched[k] \intersect missed[k] = {}
        BY <1>a, <3>4 DEF FetchedOf
      <4> QED BY <1>b, <3>1, <4>1
    <3> QED BY <1>a, <2>2, <3>1, <3>2, <3>3, <3>4 DEF FetchedOf, Poll
  <2> QED BY <2>3, <2>4
<1>5. ASSUME NEW ch \in Channels, Request(ch) PROVE Poll(k)' => FetchedOf(k)'
  <2>1. /\ Poll(ch) /\ offset[ch] > confirmed[ch]
        /\ confirmed' = [confirmed EXCEPT ![ch] = offset[ch]]
        /\ UNCHANGED <<mode, offered, missed, next, offset, fetched, left, started>>
    BY <1>5 DEF Request, buffers, handlers
  <2>2. CASE k # ch
    BY <1>a, <1>b, <2>1, <2>2 DEF FetchedOf, Poll
  <2>3. CASE k = ch
    <3>1. confirmed'[k] = offset[k] /\ confirmed[k] < offset[k] /\ offset[k] <= offered[k]
      BY <1>b, <2>1, <2>3 DEF PollShape
    <3>2. 1 .. confirmed[k] \subseteq 1 .. offset[k]
      BY <1>b, <3>1
    <3> QED BY <1>a, <2>1, <3>1, <3>2 DEF FetchedOf, Poll
  <2> QED BY <2>2, <2>3
<1>6. ASSUME NEW ch \in Channels, Receive(ch) PROVE Poll(k)' => FetchedOf(k)'
  <2>1. started[k] \subseteq started'[k]
    BY <1>6, <1>b DEF Receive, Dispatch
  <2> QED BY <1>6, <1>a, <1>b, <2>1, FetchUnmoved DEF Receive, service
<1>7. ASSUME NEW ch \in Channels, Offer(ch) PROVE Poll(k)' => FetchedOf(k)'
  <2>1. /\ UNCHANGED <<mode, confirmed, missed, buffers, handlers>>
        /\ offered' = [offered EXCEPT ![ch] = @ + 1]
    BY <1>7 DEF Offer
  <2>2. offered[k] <= offered'[k] /\ offered'[k] \in Nat
    BY <1>b, <2>1
  <2>3. confirmed[k] <= offered[k] => confirmed[k] <= offered'[k]
    BY <1>b, <2>2
  <2> QED BY <1>a, <2>1, <2>3 DEF FetchedOf, Poll, buffers, handlers
<1>8. ASSUME MemoryLost PROVE Poll(k)' => FetchedOf(k)'
  <2>1. /\ UNCHANGED <<mode, offered, confirmed, missed, fetched, started>>
        /\ left'[k] = left[k] \union (next[k] + 1 .. offset[k])
    BY <1>8 DEF MemoryLost, service
  <2> QED BY <1>a, <2>1 DEF FetchedOf, Poll
<1>9. ASSUME NEW ch \in Channels,
             InitFails(ch) \/ StopAtFlag(ch) \/ RetryEnds(ch) \/ Drained(ch) \/ EmptyAnswer(ch)
             \/ PollFails(ch) \/ Interrupted(ch)
      PROVE  Poll(k)' => FetchedOf(k)'
  BY <1>9, <1>a, <1>b, FetchUnmoved DEF InitFails, StopAtFlag, RetryEnds, Drained, EmptyAnswer,
     PollFails, Interrupted, service, buffers, handlers
<1>10. ASSUME NEW ch \in Channels, NEW m \in Messages,
              HandlerReturns(ch, m) \/ Post(ch, m) \/ Enqueue(ch, m) \/ Refuse(ch, m)
              \/ Abandon(ch, m)
       PROVE  Poll(k)' => FetchedOf(k)'
  BY <1>10, <1>a, <1>b, FetchUnmoved DEF HandlerReturns, Post, Enqueue, Refuse, Abandon, service,
     buffers, handlers
<1>11. ASSUME MainStep PROVE Poll(k)' => FetchedOf(k)'
  BY <1>8, <1>11, <1>a, <1>b, FetchUnmoved DEF MainStep, FirstLoopEnds, AllLoopsEnd,
     SchedulerStops, ServerStops, McpCloses, service, buffers, handlers
<1>12. ASSUME LoopPanics \/ SchedulerFails \/ Crash \/ Restart \/ CtrlC
       PROVE  Poll(k)' => FetchedOf(k)'
  BY <1>8, <1>12, <1>a, <1>b, FetchUnmoved DEF LoopPanics, SchedulerFails, Crash, Restart, CtrlC,
     service, buffers, handlers
<1>13. CASE UNCHANGED vars
  BY <1>13, <1>a, <1>b, FetchUnmoved DEF vars, service, buffers, handlers
<1> QED BY <1>1, <1>2, <1>3, <1>4, <1>5, <1>6, <1>7, <1>9, <1>10, <1>11, <1>12, <1>13
        DEF Next, LoopStep

\* What a webhook request was answered for.
LEMMA AcknowledgedKept ==
  TypeOK /\ LoopShape /\ RequestShape /\ AcknowledgedIsKept /\ [Next]_vars => AcknowledgedIsKept'
<1> SUFFICES ASSUME TypeOK, LoopShape, RequestShape, AcknowledgedIsKept, [Next]_vars,
                    NEW k \in Channels, boots' = 1, loop'[k] # "ended", NEW x \in acked'[k]
             PROVE  Held(k, x)'
  BY DEF AcknowledgedIsKept, Held
<1>a. boots = 1 /\ loop[k] # "ended" /\ x \in acked[k] => Held(k, x)
  BY DEF AcknowledgedIsKept
<1> USE DEF TypeOK, Held, Goto, Leave
<1>1. ASSUME NEW ch \in Channels,
          InitFails(ch) \/ StopAtFlag(ch) \/ RetryEnds(ch) \/ Drained(ch)
       PROVE Held(k, x)'
  BY <1>a, <1>1 DEF InitFails, StopAtFlag, RetryEnds, Drained, service, buffers, requests,
    handlers, process
<1>2. ASSUME NEW ch \in Channels, InitDone(ch) PROVE Held(k, x)'
  BY <1>a, <1>2 DEF InitDone, LoopShape, RegisterQueue, buffers, requests, handlers,
    process
<1>3. ASSUME NEW ch \in Channels, TakePending(ch) \/ Fetch(ch) PROVE Held(k, x)'
  BY <1>a, <1>3 DEF TakePending, Fetch, Dispatch, Ready, service, requests, process
<1>4. ASSUME NEW ch \in Channels, QueueExpires(ch) PROVE Held(k, x)'
  BY <1>a, <1>4 DEF QueueExpires, RegisterQueue, requests, handlers, process
<1>5. ASSUME NEW ch \in Channels, Receive(ch) PROVE Held(k, x)'
  <2>1. boots = 1 /\ loop[k] # "ended" /\ x \in acked[k]
    BY <1>5 DEF Receive, Dispatch, Ready, requests, process
  <2>2. Held(k, x)
    BY <2>1, <1>a
  <2>3. started[k] \subseteq started'[k]
    BY <1>5 DEF Receive, Dispatch
  <2>4. CASE x \in started[k]
    BY <2>3, <2>4
  <2>5. CASE k # ch
    BY <1>5, <2>2, <2>3, <2>5 DEF Receive
  <2>6. CASE k = ch /\ x \notin started[k]
    <3>1. PICK i \in DOMAIN queue[k] : queue[k][i] = x
      BY <2>2, <2>6
    <3>2. CASE i = 1
      BY <1>5, <2>6, <3>1, <3>2 DEF Receive, Dispatch
    <3>3. CASE i # 1
      <4>1. /\ queue[k] \in Seq(Messages) /\ queue[k] # <<>>
            /\ queue'[k] = Tail(queue[k])
        BY <1>5, <2>6 DEF Receive
      <4>2. i - 1 \in DOMAIN Tail(queue[k]) /\ Tail(queue[k])[i - 1] = queue[k][i]
        BY <3>1, <3>3, <4>1
      <4> QED BY <3>1, <4>1, <4>2
    <3> QED BY <3>2, <3>3
  <2> QED BY <2>4, <2>5, <2>6
<1>6. ASSUME NEW ch \in Channels,
          Request(ch) \/ EmptyAnswer(ch) \/ PollFails(ch) \/ Interrupted(ch)
          \/ Offer(ch)
       PROVE Held(k, x)'
  BY <1>a, <1>6 DEF Request, EmptyAnswer, PollFails, Interrupted, Offer, Ready, buffers,
    requests, handlers, process
<1>7. ASSUME NEW ch \in Channels, NEW m \in Messages, HandlerReturns(ch, m) PROVE Held(k, x)'
  BY <1>a, <1>7 DEF HandlerReturns, service, buffers, requests, process
<1>8. ASSUME NEW ch \in Channels, NEW m \in Messages,
          Post(ch, m) \/ Refuse(ch, m) \/ Abandon(ch, m)
       PROVE Held(k, x)'
  BY <1>a, <1>8 DEF Post, Refuse, Abandon, buffers, handlers, process
<1>9. ASSUME NEW ch \in Channels, NEW m \in Messages, Enqueue(ch, m) PROVE Held(k, x)'
  <2>1. boots = 1 /\ loop[k] # "ended" /\ started' = started
    BY <1>9 DEF Enqueue, handlers, process
  <2>2. CASE k # ch
    <3>1. queue'[k] = queue[k] /\ x \in acked[k]
      BY <1>9, <2>2 DEF Enqueue
    <3> QED BY <1>a, <2>1, <3>1
  <2>3. CASE k = ch
    <3>1. /\ queue[k] \in Seq(Messages) /\ queue'[k] = Append(queue[k], m)
          /\ x \in acked[k] \/ x = m
      BY <1>9, <2>3 DEF Enqueue
    <3>2. CASE x = m
      <4>1. Len(queue'[k]) \in DOMAIN queue'[k] /\ queue'[k][Len(queue'[k])] = m
        BY <3>1
      <4> QED BY <3>2, <4>1
    <3>3. CASE x \in acked[k]
      <4>1. \A i \in DOMAIN queue[k] : i \in DOMAIN queue'[k] /\ queue'[k][i] = queue[k][i]
        BY <3>1
      <4> QED BY <1>a, <2>1, <3>3, <4>1
    <3> QED BY <3>1, <3>2, <3>3
  <2> QED BY <2>2, <2>3
<1>10. ASSUME LoopPanics PROVE Held(k, x)'
  BY <1>a, <1>10 DEF LoopPanics, buffers, requests, process
<1>11. ASSUME MainStep PROVE Held(k, x)'
  <2>1. CASE McpCloses
    BY <2>1 DEF McpCloses, MemoryLost, requests, RequestShape, Webhook
  <2>2. CASE FirstLoopEnds \/ AllLoopsEnd \/ SchedulerStops \/ ServerStops
    BY <1>a, <2>2 DEF FirstLoopEnds, AllLoopsEnd, SchedulerStops, ServerStops, service,
                buffers, requests, handlers
  <2> QED BY <1>11, <2>1, <2>2 DEF MainStep
<1>12. ASSUME SchedulerFails \/ Crash PROVE Held(k, x)'
  BY <1>12 DEF SchedulerFails, MemoryLost, Crash, RequestShape, Webhook
<1>13. ASSUME Restart PROVE Held(k, x)'
  BY <1>13 DEF Restart
<1>14. ASSUME CtrlC PROVE Held(k, x)'
  BY <1>a, <1>14 DEF CtrlC, buffers, requests, handlers
<1>15. CASE UNCHANGED vars
  BY <1>a, <1>15 DEF vars, service, buffers, requests, handlers, process
<1> QED BY <1>1, <1>2, <1>3, <1>4, <1>5, <1>6, <1>7, <1>8, <1>9, <1>10, <1>11, <1>12,
       <1>13, <1>14, <1>15
       DEF Next, LoopStep

\* The initial states.
LEMMA InitHolds == Init => IndInv
<1> SUFFICES ASSUME Init PROVE IndInv
  OBVIOUS
<1> USE IngressAssumption DEF Init, Each
<1>1. TypeOK
  <2>1. queue \in [Channels -> Seq(Messages)] /\ \A ch \in Channels : Len(queue[ch]) <= QueueCapacity
    OBVIOUS
  <2>2. loop \in [Channels -> Pcs] /\ server \in {"none", "up", "stopping"}
    BY DEF LoopsAtStart, ServerAtStart, Pcs
  <2>3. /\ posts \in 0 .. MaxPosts /\ boots \in 1 .. MaxBoots /\ signals \in 0 .. MaxSignals
        /\ 0 \in 0 .. MaxMessages
    OBVIOUS
  <2> QED BY <2>1, <2>2, <2>3 DEF TypeOK, Numbers, Messages, Phases
<1>2. LoopShape
  BY DEF LoopShape, LoopsAtStart, Channels
<1>3. PhaseShape /\ HandledShape /\ RequestShape
  BY DEF PhaseShape, HandledShape, RequestShape
<1>4. PollShape /\ FetchShape /\ ConfirmedWasStarted
  BY DEF PollShape, FetchShape, ConfirmedWasStarted, Channels
<1>5. AcknowledgedIsKept
  BY DEF AcknowledgedIsKept
<1> QED BY <1>1, <1>2, <1>3, <1>4, <1>5 DEF IndInv

\* The invariant is inductive and holds in every reachable state.
THEOREM Inductive == Spec => []IndInv
<1>1. IndInv /\ [Next]_vars => IndInv'
  BY TypesKept, LoopsKept, PhasesKept, HandlersKept, PollKept, FetchKept, ConfirmedKept,
     RequestsKept, AcknowledgedKept
     DEF IndInv
<1> QED BY InitHolds, <1>1, PTL DEF Spec

\* Every variable keeps its type.
THEOREM TypeCorrect == Spec => []TypeOK
<1>1. IndInv => TypeOK
  BY DEF IndInv
<1> QED BY Inductive, <1>1, PTL

\* Telegram forgets no polled message before a handler has it; Zulip only what a
\* new queue skips or an ended process had in its buffer.
THEOREM ConfirmedStarted == Spec => []ConfirmedWasStarted
<1>1. IndInv => ConfirmedWasStarted
  BY DEF IndInv
<1> QED BY Inductive, <1>1, PTL

\* A message acknowledged to a webhook is in the queue or with a handler.
THEOREM AcknowledgedStays == Spec => []AcknowledgedIsKept
<1>1. IndInv => AcknowledgedIsKept
  BY DEF IndInv
<1> QED BY Inductive, <1>1, PTL

\* Where handlers end before the scheduler is stopped.
LEMMA EndedLoopsHaveNone == LoopShape /\ PhaseShape => HandlersEndFirst
BY DEF LoopShape, PhaseShape, HandlersEndFirst

\* The scheduler and the MCP sessions are stopped after the last handler.
THEOREM HandlersEnd == Spec => []HandlersEndFirst
<1>1. IndInv => HandlersEndFirst
  BY EndedLoopsHaveNone DEF IndInv
<1> QED BY Inductive, <1>1, PTL

\* Without a crash a stopped process has handled what Telegram forgot, and all
\* that it fetched from Zulip but what its pending buffer held when it stopped.
THEOREM StopsLoseOnlyZulipBuffer == Spec => []StopLosesOnlyZulipBuffer
<1>1. IndInv => StopLosesOnlyZulipBuffer
  <2> SUFFICES ASSUME IndInv, phase = "exit", ~crashed PROVE StopLosesOnlyZulipBuffer
    BY DEF StopLosesOnlyZulipBuffer
  <2>1. \A ch \in Channels : started[ch] \subseteq done[ch]
    BY EndedLoopsHaveNone DEF IndInv, HandlersEndFirst, HandledShape
  <2>2. "telegram" \in Channels /\ "zulip" \in Channels
    BY DEF Channels
  <2>3. Poll("telegram") => 1 .. confirmed["telegram"] \subseteq done["telegram"]
    BY <2>1, <2>2 DEF IndInv, ConfirmedWasStarted
  <2>4. ASSUME Poll("zulip") PROVE fetched["zulip"] \subseteq done["zulip"] \union left["zulip"]
    <3>1. /\ fetched["zulip"] \subseteq started["zulip"] \union left["zulip"]
                                          \union (next["zulip"] + 1 .. offset["zulip"])
          /\ next["zulip"] = offset["zulip"] /\ next["zulip"] \in Nat
      BY <2>2, <2>4, IngressAssumption DEF IndInv, FetchShape, TypeOK, Numbers
    <3>2. next["zulip"] + 1 .. offset["zulip"] = {}
      BY <3>1
    <3> QED BY <2>1, <2>2, <3>1, <3>2
  <2> QED BY <2>3, <2>4 DEF StopLosesOnlyZulipBuffer
<1> QED BY Inductive, <1>1, PTL

\* A step that gives a polled message to a handler gives a later one than all
\* before it in this process.
LEMMA OrderKept ==
  IndInv /\ [Next]_vars =>
    \A ch \in Channels : Poll(ch) =>
      \A m \in running'[ch] \ running[ch] : \A d \in dispatched[ch] : d < m
<1> SUFFICES ASSUME IndInv, [Next]_vars, NEW k \in Channels, Poll(k),
                    NEW x \in running'[k] \ running[k], NEW d \in dispatched[k]
             PROVE  d < x
  OBVIOUS
<1> USE IngressAssumption DEF IndInv, TypeOK, PollShape, Numbers, Messages
<1>1. ASSUME NEW ch \in Channels, TakePending(ch) PROVE d < x
  BY <1>1 DEF TakePending, Dispatch
<1>2. ASSUME NEW ch \in Channels, Fetch(ch) PROVE d < x
  <2>1. k = ch /\ x = confirmed[ch] + 1 /\ next[ch] <= confirmed[ch]
    BY <1>2 DEF Fetch, Dispatch
  <2> QED BY <2>1
<1>3. ASSUME NEW ch \in Channels, Receive(ch) PROVE d < x
  BY <1>3 DEF Receive, Dispatch, Poll, Webhook
<1>4. ASSUME NEW ch \in Channels,
             LoopStep(ch) \/ Request(ch) \/ EmptyAnswer(ch) \/ QueueExpires(ch)
             \/ PollFails(ch) \/ Interrupted(ch) \/ Offer(ch)
      PROVE d < x
  BY <1>4 DEF LoopStep, InitDone, InitFails, StopAtFlag, RetryEnds, Drained, Request,
              EmptyAnswer, QueueExpires, PollFails, Interrupted, Offer, handlers
<1>5. ASSUME NEW ch \in Channels, NEW m \in Messages,
             HandlerReturns(ch, m) \/ Post(ch, m) \/ Enqueue(ch, m) \/ Refuse(ch, m)
             \/ Abandon(ch, m)
      PROVE d < x
  <2>1. running'[k] \subseteq running[k]
    <3>1. CASE HandlerReturns(ch, m)
      BY <3>1 DEF HandlerReturns
    <3>2. CASE ~HandlerReturns(ch, m)
      BY <1>5, <3>2 DEF Post, Enqueue, Refuse, Abandon, handlers
    <3> QED BY <3>1, <3>2
  <2> QED BY <2>1
<1>6. ASSUME LoopPanics \/ MainStep \/ SchedulerFails \/ Crash \/ Restart \/ CtrlC PROVE d < x
  BY <1>6 DEF LoopPanics, MainStep, FirstLoopEnds, AllLoopsEnd, SchedulerStops, ServerStops,
              McpCloses, SchedulerFails, Crash, Restart, CtrlC, MemoryLost, Each, handlers
<1>7. CASE UNCHANGED vars
  BY <1>7 DEF vars, handlers
<1> QED BY <1>1, <1>2, <1>3, <1>4, <1>5, <1>6, <1>7 DEF Next

\* One process gives polled messages to handlers once each, and in order.
THEOREM PolledOrder == Spec => PolledInOrder
<1>1. IndInv /\ [Next]_vars =>
        [\A ch \in Channels : Poll(ch) =>
           \A m \in running'[ch] \ running[ch] : \A d \in dispatched[ch] : d < m]_vars
  BY OrderKept
<1> QED BY Inductive, <1>1, PTL DEF Spec, PolledInOrder
=============================================================================
