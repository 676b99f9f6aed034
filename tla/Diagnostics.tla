----------------------------- MODULE Diagnostics -----------------------------
(***************************************************************************)
(* The diagnostics socket (diagnostics/server.rs and client.rs): how a bot *)
(* takes over the socket's path, serves it and gives it up, while another  *)
(* bot on the same path, the next after a restart or a second one by       *)
(* mistake, does the same.  A bound socket is a file whose name outlives   *)
(* its process; connecting tells whether somebody listens.                 *)
(***************************************************************************)
EXTENDS Naturals, FiniteSets

CONSTANTS
    Bots,        \* processes
    Clients,     \* connections, each with one request
    Limit,       \* MAX_CONCURRENT_CONNECTIONS
    MaxStarts    \* bound: starts of all bots together

DiagnosticsAssumption ==
    /\ {"none", "file"} \cap Bots = {}
    /\ Limit \in Nat \ {0} /\ MaxStarts \in Nat

VARIABLES
    path,        \* what the path names: "none", a regular "file" or a bot's socket
    at,          \* where a bot is
    listening,   \* bots whose listener accepts connections
    loop,        \* bots whose accept loop runs
    starts,
    raced,       \* history: two bots were starting or stopping at once
    peer,        \* the bot a client is connected to, "none" before
    conn,        \* what became of the connection
    wrote        \* what the client has sent

bots == <<path, at, listening, loop, starts, raced>>
vars == <<bots, peer, conn, wrote>>

Starting == {"probe", "remove", "bind", "listen", "chmod"}
Stopping == {"stopping", "await", "stopped", "dropping"}
\* "bad": too long, not JSON, no line at all, or a session named by half its
\* address or by both its id and its address.
Requests == {"ping", "list", "show", "bad"}
Answers == {"Pong", "Sessions", "Session", "Error"}

TypeOK ==
    /\ path \in {"none", "file"} \cup Bots
    /\ at \in [Bots -> {"down", "serving"} \cup Starting \cup Stopping]
    /\ listening \subseteq Bots /\ loop \subseteq listening
    /\ starts \in 0..MaxStarts /\ raced \in BOOLEAN
    /\ peer \in [Clients -> Bots \cup {"none"}]
    /\ conn \in [Clients -> {"none", "queued", "served", "failed"} \cup Answers]
    /\ wrote \in [Clients -> {"nothing"} \cup Requests]
    /\ \A b \in Bots : Cardinality({c \in Clients : peer[c] = b /\ conn[c] = "served"}) <= Limit

Init ==
    /\ path \in {"none", "file"}
    /\ at = [b \in Bots |-> "down"] /\ listening = {} /\ loop = {}
    /\ starts = 0 /\ raced = FALSE
    /\ peer = [c \in Clients |-> "none"] /\ conn = [c \in Clients |-> "none"]
    /\ wrote = [c \in Clients |-> "nothing"]

Goto(b, where) ==
    /\ at' = [at EXCEPT ![b] = where]
    /\ raced' = (raced \/ (where \notin {"down", "serving"} /\
                           \E d \in Bots \ {b} : at[d] \notin {"down", "serving"}))

\* Connections to b that end with its listener (queued) or its process (both).
Cut(b, which) ==
    conn' = [c \in Clients |-> IF peer[c] = b /\ conn[c] \in which THEN "failed" ELSE conn[c]]
NoClient == UNCHANGED <<peer, conn, wrote>>

-----------------------------------------------------------------------------
\* prepare_socket_path, its first half: nothing there, a socket to probe, or
\* something it refuses to replace (the bot does not start).
Inspect(b) ==
    /\ at[b] = "down" /\ starts < MaxStarts
    /\ starts' = starts + 1
    /\ CASE path = "none" -> Goto(b, "bind")
         [] path \in Bots -> Goto(b, "probe")
         [] OTHER -> UNCHANGED <<at, raced>>
    /\ UNCHANGED <<path, listening, loop>> /\ NoClient

\* Mutant: the old socket is removed without a probe.
NoProbe(b) ==
    /\ at[b] = "probe"
    /\ Goto(b, "remove")
    /\ UNCHANGED <<path, listening, loop, starts>> /\ NoClient

\* It connects: a socket somebody listens on is in use.  (The bot it connects
\* to reads an empty request.)
Probe(b) ==
    /\ at[b] = "probe"
    /\ Goto(b, IF path \in listening THEN "down" ELSE "remove")
    /\ UNCHANGED <<path, listening, loop, starts>> /\ NoClient

\* remove_file, of whatever is at the path by now.
RemoveOld(b) ==
    /\ at[b] = "remove"
    /\ path' = "none"
    /\ Goto(b, IF path = "none" THEN "down" ELSE "bind")
    /\ UNCHANGED <<listening, loop, starts>> /\ NoClient

\* UnixListener::bind: the name is made, unless there is one, ...
Bind(b) ==
    /\ at[b] = "bind"
    /\ IF path = "none" THEN path' = b /\ Goto(b, "listen")
                        ELSE Goto(b, "down") /\ UNCHANGED path
    /\ UNCHANGED <<listening, loop, starts>> /\ NoClient

\* ... and then it listens.
Listen(b) ==
    /\ at[b] = "listen"
    /\ listening' = listening \cup {b}
    /\ Goto(b, "chmod")
    /\ UNCHANGED <<path, loop, starts>> /\ NoClient

\* set_permissions by name, and the task is spawned.  Where the name is gone
\* the start fails and the listener is closed.
Chmod(b) ==
    /\ at[b] = "chmod"
    /\ IF path = "none"
         THEN /\ Goto(b, "down")
              /\ listening' = listening \ {b}
              /\ Cut(b, {"queued"})
              /\ UNCHANGED loop
         ELSE /\ Goto(b, "serving")
              /\ loop' = loop \cup {b}
              /\ UNCHANGED <<listening, conn>>
    /\ UNCHANGED <<path, starts, peer, wrote>>

-----------------------------------------------------------------------------
\* remove_socket_if_present: any bot's socket.
RemoveSocket == path' = IF path \in Bots THEN "none" ELSE path

\* stop(): the signal; or the server is dropped without stop(), which removes
\* the socket at once.
Stop(b) ==
    /\ at[b] = "serving"
    /\ \/ Goto(b, "await") /\ UNCHANGED path
       \/ Goto(b, "dropping") /\ RemoveSocket
    /\ UNCHANGED <<listening, loop, starts>> /\ NoClient

\* The loop sees the signal: it removes the socket and ends, and with it the
\* listener.
LoopEnds(b) ==
    /\ at[b] \in {"await", "dropping"} /\ b \in loop
    /\ loop' = loop \ {b} /\ listening' = listening \ {b}
    /\ RemoveSocket
    /\ Cut(b, {"queued"})
    /\ UNCHANGED <<at, starts, raced, peer, wrote>>

\* stop() removes it again, and Drop once more at the end of run_runtime.
Stopped(b) ==
    /\ at[b] \in {"await", "stopped"} /\ b \notin loop
    /\ Goto(b, IF at[b] = "await" THEN "stopped" ELSE "dropping")
    /\ RemoveSocket
    /\ UNCHANGED <<listening, loop, starts>> /\ NoClient

\* The process ends, by itself or in a crash, and leaves the name as it is.
Exit(b) ==
    /\ at[b] = "dropping"
    /\ at' = [at EXCEPT ![b] = "down"]
    /\ listening' = listening \ {b} /\ loop' = loop \ {b}
    /\ Cut(b, {"queued", "served"})
    /\ UNCHANGED <<path, starts, raced, peer, wrote>>
Crash(b) ==
    /\ at[b] \notin {"down", "dropping"}
    /\ at' = [at EXCEPT ![b] = "down"]
    /\ listening' = listening \ {b} /\ loop' = loop \ {b}
    /\ Cut(b, {"queued", "served"})
    /\ UNCHANGED <<path, starts, raced, peer, wrote>>

-----------------------------------------------------------------------------
\* send_request: connect, ...
Connect(c) ==
    /\ conn[c] = "none"
    /\ IF path \in listening
         THEN /\ conn' = [conn EXCEPT ![c] = "queued"]
              /\ peer' = [peer EXCEPT ![c] = path]
         ELSE conn' = [conn EXCEPT ![c] = "failed"] /\ UNCHANGED peer
    /\ UNCHANGED <<bots, wrote>>

\* ... and one line.  Somebody else's client may send no line, or nothing.
Write(c) ==
    /\ conn[c] \in {"queued", "served"} /\ wrote[c] = "nothing"
    /\ \E q \in Requests : wrote' = [wrote EXCEPT ![c] = q]
    /\ UNCHANGED <<bots, peer, conn>>

Served(b) == {c \in Clients : peer[c] = b /\ conn[c] = "served"}

\* Mutant: the loop waits for a permit.
AcceptWaits(b, c) ==
    /\ b \in loop /\ conn[c] = "queued" /\ peer[c] = b
    /\ Cardinality(Served(b)) < Limit
    /\ conn' = [conn EXCEPT ![c] = "served"]
    /\ UNCHANGED <<bots, peer, wrote>>

\* The accept loop: a handler, or the connection is dropped at the limit.
Accept(b, c) ==
    /\ b \in loop /\ conn[c] = "queued" /\ peer[c] = b
    /\ conn' = [conn EXCEPT ![c] = IF Cardinality(Served(b)) < Limit THEN "served" ELSE "failed"]
    /\ UNCHANGED <<bots, peer, wrote>>

\* handle_request and show_session, whose statements may fail.
Respond(q) ==
    CASE q = "ping" -> {"Pong"}
      [] q = "list" -> {"Sessions", "Error"}
      [] q = "show" -> {"Session", "Error"}
      [] OTHER -> {"Error"}

\* handle_connection: one line, one answer.  It outlives the accept loop.
Answer(c) ==
    /\ conn[c] = "served" /\ wrote[c] # "nothing"
    /\ \E a \in Respond(wrote[c]) : conn' = [conn EXCEPT ![c] = a]
    /\ UNCHANGED <<bots, peer, wrote>>

BotStep(b) ==
    \/ Probe(b) \/ RemoveOld(b) \/ Bind(b) \/ Listen(b) \/ Chmod(b)
    \/ LoopEnds(b) \/ Stopped(b) \/ Exit(b)
ConnStep == \E c \in Clients : Answer(c) \/ \E b \in Bots : Accept(b, c)

Next ==
    \/ \E b \in Bots : Inspect(b) \/ BotStep(b) \/ Stop(b) \/ Crash(b)
    \/ \E c \in Clients : Connect(c) \/ Write(c)
    \/ ConnStep

\* A bot under way goes on, and its tasks are polled; nobody has to start,
\* stop or write.
Fairness == WF_vars(ConnStep) /\ \A b \in Bots : WF_vars(BotStep(b))
Spec == Init /\ [][Next]_vars /\ Fairness

-----------------------------------------------------------------------------
(***************************************************************************)
(* Properties.                                                             *)
(***************************************************************************)
\* As long as no two bots start or stop at the same time a bot that serves is
\* the one the path leads to, whatever crashed before it.
ServingIsReachable ==
    ~raced => \A b \in Bots : at[b] = "serving" => path = b

\* Starts, stops and crashes take no name from its owner: nobody else's start
\* takes the path from a serving bot and nobody's stop removes it, and a file
\* that is no socket is never removed.
NamesAreSafe ==
    [][ServingIsReachable' /\ (path = "file" => path' = "file")]_vars

\* A client that has sent its request is answered or told, even while idle
\* clients hold all permits, the bot stops or crashes.
TalkersAreTold ==
    \A c \in Clients : wrote[c] # "nothing" ~> conn[c] \notin {"queued", "served"}
=============================================================================
