----------------------------- MODULE McpClient -----------------------------
(***************************************************************************)
(* McpClientHandle (mcp/client.rs): the session of one MCP server behind a *)
(* mutex, the callers that lease it, its replacement after a failure, and  *)
(* shutdown.  Every await point of a call is a value of its pc; deadlines  *)
(* may pass at any of them and a caller's future may be dropped at any of  *)
(* them.  The server (and the network) is external.                        *)
(***************************************************************************)
EXTENDS Naturals

CONSTANTS
  Calls,         \* the calls made through the handle, each one once
  Discovery,     \* the tools/list of startup, before any tool call
  Nobody,        \* the mutex is free
  MaxSessions    \* bound: sessions ever opened

ASSUME McpAssumption ==
  /\ Discovery \in Calls
  /\ Nobody \notin Calls
  /\ MaxSessions \in Nat \ {0}

VARIABLES
  call,       \* pc, session and result of each call
  lock,       \* the call that holds the connection mutex, or Nobody
  conn,       \* the session in the slot, 0 for None
  opened,     \* number of sessions opened so far
  closing,    \* sessions whose close_with_timeout runs
  ended,      \* sessions that are closed
  shut,       \* progress of shutdown(); the watch flag is set once pc # "no"
  pending,    \* external: requests the server may still act on
  executed,   \* external: how often the server executed each call
  reply       \* external: what has come back for each call

local == <<call, lock, conn, opened, closing, ended, shut>>
server == <<pending, executed, reply>>
vars == <<call, lock, conn, opened, closing, ended, shut, pending, executed, reply>>

Sessions == 1 .. MaxSessions
Pcs == {"idle", "lock", "held", "open", "verify", "ready", "sent", "returned"}
Results == {"none", "ok", "rejected", "refused", "unknown", "cancelled"}
Replies == {"none", "answer", "rejection", "lost"}
IsClosed == shut.pc # "no"

TypeOK ==
  /\ call \in [Calls -> [pc : Pcs, session : {0} \union Sessions, result : Results]]
  /\ lock \in Calls \union {Nobody}
  /\ conn \in {0} \union Sessions
  /\ opened \in {0} \union Sessions
  /\ closing \in SUBSET Sessions
  /\ ended \in SUBSET Sessions
  /\ shut \in [pc : {"no", "waiting", "closing", "done"}, session : {0} \union Sessions]
  /\ pending \in SUBSET Calls
  /\ executed \in [Calls -> Nat]
  /\ reply \in [Calls -> Replies]

\* connect() has stored the first session; nobody else has the handle yet.
Init ==
  /\ call = [c \in Calls |-> [pc |-> "idle", session |-> 0, result |-> "none"]]
  /\ lock = Nobody
  /\ conn = 1
  /\ opened = 1
  /\ closing = {}
  /\ ended = {}
  /\ shut = [pc |-> "no", session |-> 0]
  /\ pending = {}
  /\ executed = [c \in Calls |-> 0]
  /\ reply = [c \in Calls |-> "none"]

At(c, pc) == call[c].pc = pc
Goto(c, pc) == call' = [call EXCEPT ![c].pc = pc]
Return(c, result) == call' = [call EXCEPT ![c].pc = "returned", ![c].result = result]

\* Dropping a lease frees the mutex; with discard set it first takes the
\* session out of the slot and spawns its close.
Discard == conn' = 0 /\ closing' = closing \union ({conn} \ {0})
Keep == UNCHANGED <<conn, closing>>

ReturnKeeping(c, result) ==
  /\ Return(c, result)
  /\ lock' = Nobody
  /\ Keep
  /\ UNCHANGED <<opened, ended, shut, server>>

Mutant_ReturnDiscarding(c, result) ==
  /\ Return(c, result)
  /\ lock' = Nobody
  /\ IF result = "cancelled" THEN Keep ELSE Discard
  /\ UNCHANGED <<opened, ended, shut, server>>

ReturnDiscarding(c, result) ==
  /\ Return(c, result)
  /\ lock' = Nobody
  /\ Discard
  /\ UNCHANGED <<opened, ended, shut, server>>

(***************************************************************************)
(* connection(): wait for the mutex, open a session if there is none.      *)
(***************************************************************************)
\* The proxies that make tool calls exist only after discovery succeeded.
Begin(c) ==
  /\ At(c, "idle")
  /\ c = Discovery \/ call[Discovery].result = "ok"
  /\ Goto(c, "lock")
  /\ UNCHANGED <<lock, conn, opened, closing, ended, shut, server>>

\* The select! polls the watch flag first, but the flag may be set before it
\* polls the mutex, so the mutex may be taken after shutdown was signalled.
AcquireLock(c) ==
  /\ At(c, "lock")
  /\ lock = Nobody
  /\ lock' = c
  /\ Goto(c, "held")
  /\ UNCHANGED <<conn, opened, closing, ended, shut, server>>

\* Shut down or past the deadline while queueing.
LeaveQueue(c) ==
  /\ At(c, "lock")
  /\ Return(c, "refused")
  /\ UNCHANGED <<lock, conn, opened, closing, ended, shut, server>>

UseSession(c) ==
  /\ At(c, "held")
  /\ conn # 0
  /\ Goto(c, "verify")
  /\ UNCHANGED <<lock, conn, opened, closing, ended, shut, server>>

StartHandshake(c) ==
  /\ At(c, "held")
  /\ conn = 0
  /\ ~IsClosed
  /\ opened < MaxSessions
  /\ Goto(c, "open")
  /\ UNCHANGED <<lock, conn, opened, closing, ended, shut, server>>

\* The deadline has passed, or open() finds the flag set at its first poll.
LeaveHeld(c) ==
  /\ At(c, "held")
  /\ ReturnKeeping(c, "refused")

\* The handshake and the flag may become ready together.
HandshakeCompletes(c) ==
  /\ At(c, "open")
  /\ opened' = opened + 1
  /\ conn' = opened + 1
  /\ Goto(c, "verify")
  /\ UNCHANGED <<lock, closing, ended, shut, server>>

\* An error, the deadline or shutdown; the slot is empty, so nothing is
\* discarded.
Mutant_HandshakeFails(c) ==
  /\ At(c, "open")
  /\ reply[c] = "rejection"
  /\ ReturnKeeping(c, "refused")

HandshakeFails(c) ==
  /\ At(c, "open")
  /\ ReturnKeeping(c, "refused")

\* Never lease a session after closure; a deadline that has passed keeps it.
Verify(c) ==
  /\ At(c, "verify")
  /\ \/ IsClosed /\ ReturnDiscarding(c, "refused")
     \/ ~IsClosed /\ ReturnKeeping(c, "refused")
     \/ ~IsClosed /\ Goto(c, "ready")
                  /\ UNCHANGED <<lock, conn, opened, closing, ended, shut, server>>

(***************************************************************************)
(* call_tool() and list_tools(): dispatch once, wait, judge the session.   *)
(***************************************************************************)
\* The first poll of the select!: discard is already set.
Dispatch(c) ==
  /\ At(c, "ready")
  /\ \/ /\ IsClosed
        /\ ReturnDiscarding(c, "unknown")
     \/ /\ ~IsClosed
        /\ call' = [call EXCEPT ![c].pc = "sent", ![c].session = conn]
        /\ pending' = pending \union {c}
        /\ UNCHANGED <<lock, conn, opened, closing, ended, shut, executed, reply>>

\* The session is kept for an answer or a JSON-RPC error; a connection error
\* retires it.
Mutant_Receive(c) ==
  /\ At(c, "sent")
  /\ \/ reply[c] = "answer" /\ ReturnKeeping(c, "ok")
     \/ reply[c] = "rejection" /\ ReturnKeeping(c, "rejected")
     \/ /\ reply[c] = "lost"
        /\ pending' = pending \union {c}
        /\ reply' = [reply EXCEPT ![c] = "none"]
        /\ UNCHANGED <<local, executed>>

Receive(c) ==
  /\ At(c, "sent")
  /\ \/ reply[c] = "answer" /\ ReturnKeeping(c, "ok")
     \/ reply[c] = "rejection" /\ ReturnKeeping(c, "rejected")
     \/ reply[c] = "lost" /\ ReturnDiscarding(c, "unknown")

\* Timeout or shutdown while the request is out.
GiveUp(c) ==
  /\ At(c, "sent")
  /\ ReturnDiscarding(c, "unknown")

\* The future of a tool call is dropped at an await point; discard is set only once
\* the request is out.
Cancel(c) ==
  /\ c # Discovery
  /\ \/ /\ At(c, "lock")
        /\ Return(c, "cancelled")
        /\ UNCHANGED <<lock, conn, opened, closing, ended, shut, server>>
     \/ At(c, "open") /\ ReturnKeeping(c, "cancelled")
     \/ At(c, "sent") /\ ReturnDiscarding(c, "cancelled")

\* The steps of a call that need nothing from the server but its answer, if
\* it comes.
Step(c) ==
  \/ AcquireLock(c) \/ LeaveQueue(c)
  \/ UseSession(c) \/ StartHandshake(c) \/ LeaveHeld(c)
  \/ HandshakeFails(c) \/ Verify(c)
  \/ Dispatch(c) \/ Receive(c) \/ GiveUp(c)

(***************************************************************************)
(* shutdown(): signal, wait for the mutex, take and close the session.     *)
(***************************************************************************)
\* A failed discovery shuts the handle down; so does the end of the process.
Signal ==
  /\ shut.pc = "no"
  /\ call[Discovery].pc = "returned"
  /\ shut' = [shut EXCEPT !.pc = "waiting"]
  /\ UNCHANGED <<call, lock, conn, opened, closing, ended, server>>

Mutant_Take ==
  /\ shut.pc = "waiting"
  /\ shut' = [pc |-> "closing", session |-> conn]
  /\ Discard
  /\ UNCHANGED <<call, lock, opened, ended, server>>

\* The guard lives for one statement, so the mutex is free again.
Take ==
  /\ shut.pc = "waiting"
  /\ lock = Nobody
  /\ shut' = [pc |-> "closing", session |-> conn]
  /\ Discard
  /\ UNCHANGED <<call, lock, opened, ended, server>>

\* close_with_timeout gives up after five seconds.
CloseEnds(s) ==
  /\ s \in closing
  /\ closing' = closing \ {s}
  /\ ended' = ended \union {s}
  /\ UNCHANGED <<call, lock, conn, opened, shut, server>>

ShutdownReturns ==
  /\ shut.pc = "closing"
  /\ shut.session \notin closing
  /\ shut' = [shut EXCEPT !.pc = "done"]
  /\ UNCHANGED <<call, lock, conn, opened, closing, ended, server>>

(***************************************************************************)
(* External: the server and the network, as the handle can observe them.   *)
(***************************************************************************)
ServerExecutes(c) ==
  /\ c \in pending
  /\ pending' = pending \ {c}
  /\ executed' = [executed EXCEPT ![c] = @ + 1]
  /\ UNCHANGED <<local, reply>>

ServerAnswers(c) ==
  /\ At(c, "sent")
  /\ c \notin pending
  /\ executed[c] > 0
  /\ reply[c] = "none"
  /\ reply' = [reply EXCEPT ![c] = "answer"]
  /\ UNCHANGED <<local, pending, executed>>

\* A JSON-RPC error, before or after the execution.
ServerRejects(c) ==
  /\ At(c, "sent")
  /\ reply[c] = "none"
  /\ reply' = [reply EXCEPT ![c] = "rejection"]
  /\ pending' = pending \ {c}
  /\ UNCHANGED <<local, executed>>

\* The connection breaks or the server has forgotten the session: the request
\* may have been lost on the way, or the answer.
ConnectionLost(c) ==
  /\ At(c, "sent")
  /\ reply[c] = "none"
  /\ reply' = [reply EXCEPT ![c] = "lost"]
  /\ pending' \in {pending, pending \ {c}}
  /\ UNCHANGED <<local, executed>>

Next ==
  \/ \E c \in Calls : Begin(c) \/ Step(c) \/ HandshakeCompletes(c) \/ Cancel(c)
  \/ Signal \/ Take \/ ShutdownReturns
  \/ \E s \in Sessions : CloseEnds(s)
  \/ \E c \in Calls :
       ServerExecutes(c) \/ ServerAnswers(c) \/ ServerRejects(c) \/ ConnectionLost(c)

Spec == Init /\ [][Next]_vars

\* tokio polls every task, and every await of a call has a deadline, so a call
\* always has a step; nothing is assumed of the server or of new callers.
Fairness ==
  /\ \A c \in Calls : WF_vars(Step(c))
  /\ WF_vars(Take) /\ WF_vars(ShutdownReturns)
  /\ \A s \in Sessions : WF_vars(CloseEnds(s))

FairSpec == Spec /\ Fairness

(***************************************************************************)
(* Properties                                                              *)
(***************************************************************************)
\* "Transport failures, timeouts, and cancelled calls retire the session": no
\* request is pending on the session in the slot but that of the lease's
\* holder, and every call that returned from it was answered.
SlotIsClean ==
  conn # 0 => \A c \in Calls : call[c].session = conn =>
    IF c = lock THEN At(c, "sent")
    ELSE call[c].result \in {"ok", "rejected"} /\ c \notin pending

\* Once shutdown() has taken the session, no call opens, leases or publishes
\* another one, and none has a request out.
NothingAfterShutdown ==
  shut.pc \in {"closing", "done"} =>
    /\ conn = 0
    /\ \A c \in Calls : call[c].pc \notin {"open", "verify", "ready", "sent"}

\* Every session ever opened is in the slot, being closed, or closed: none is
\* overwritten or forgotten by a lease.
SessionsAccounted ==
  \A s \in 1 .. opened :
    \/ s = conn /\ s \notin closing \union ended
    \/ s # conn /\ s \in closing /\ s \notin ended
    \/ s # conn /\ s \notin closing /\ s \in ended

\* What the handle promises its callers, and how its state shows it.
Promise == INSTANCE AtMostOnce WITH
  outcome <- [c \in Calls |-> call[c].result],
  sent    <- {c \in Calls : call[c].session # 0},
  closed  <- shut.pc \in {"closing", "done"}

\* A call is sent at most once, alone, and never after shutdown; what its
\* caller is told agrees with what the server did.
CallsAtMostOnce == Promise!Spec

\* Every call returns, whatever the server does.
CallsReturn == \A c \in Calls : At(c, "lock") ~> At(c, "returned")

\* shutdown() returns, whoever holds the session when it is signalled.
ShutdownEnds == shut.pc = "waiting" ~> shut.pc = "done"

\* Neither a call nor the shutdown waits for ever for the other.
NothingHangs == CallsReturn /\ ShutdownEnds
=============================================================================
