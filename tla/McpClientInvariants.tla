------------------------ MODULE McpClientInvariants ------------------------
(***************************************************************************)
(* The inductive invariant behind the safety properties of McpClient, in   *)
(* named parts, so that TLC can check what the proofs rest on.             *)
(***************************************************************************)
EXTENDS McpClient

\* The await points and statements at which a call holds the mutex.
Holding == {"held", "open", "verify", "ready", "sent"}

\* The mutex and the lease agree; what a call holds at each point.
LeaseShape ==
  /\ \A c \in Calls : call[c].pc \in Holding <=> lock = c
  /\ \A c \in Calls : At(c, "open") => conn = 0 /\ opened < MaxSessions
  /\ \A c \in Calls : call[c].pc \in {"verify", "ready", "sent"} => conn # 0
  /\ \A c \in Calls : At(c, "sent") => call[c].session = conn
  /\ \A c \in Calls : At(c, "returned") <=> call[c].result # "none"

\* A request is out once its session is recorded; what the server did, what
\* came back and what the caller was told agree.
RequestShape ==
  \A c \in Calls :
    /\ call[c].session = 0 =>
         /\ c \notin pending /\ executed[c] = 0 /\ reply[c] = "none"
         /\ call[c].pc # "sent" /\ call[c].result \notin {"ok", "rejected"}
    /\ call[c].session # 0 =>
         call[c].pc \in {"sent", "returned"} /\ call[c].result # "refused"
    /\ executed[c] <= 1
    /\ c \in pending => executed[c] = 0
    /\ reply[c] = "answer" => executed[c] = 1
    /\ reply[c] \in {"answer", "rejection"} => c \notin pending
    /\ call[c].result = "ok" => executed[c] = 1

\* Session numbers are given out in order; shutdown's own session.
SessionShape ==
  /\ conn <= opened
  /\ closing \union ended \subseteq 1 .. opened
  /\ \A c \in Calls : call[c].session <= opened

IndInv ==
  /\ TypeOK /\ LeaseShape /\ RequestShape /\ SessionShape
  /\ SlotIsClean /\ NothingAfterShutdown /\ SessionsAccounted
=============================================================================
