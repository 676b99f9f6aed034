----------------------- MODULE ConversationInvariants -----------------------
(***************************************************************************)
(* The inductive invariant behind the safety properties of Conversation,   *)
(* in named parts, so that TLC can check what the proofs rest on.          *)
(***************************************************************************)
EXTENDS Conversation

\* Before a run knows its session, and from when it has read its history.
Searching == {"lookup", "stamp", "insert"}
Prepared == {"save", "model", "tools", "persist", "reply", "send"}

\* What a run holds at each await: nobody who is not allowed gets past the
\* first test, a job's conversation is open, a run past its lookup has a
\* session, and one that stamps a second session is a reset.
StageOf(r) ==
  /\ r \in Messages /\ pc[r] \notin {"idle", "done"} => IsAllowed(addr[r], sender[r])
  /\ r \in Jobs => /\ kind[r] = "text" /\ pc[r] # "route"
                   /\ pc[r] # "idle" => OpenTo = {} \/ addr[r] \in OpenTo
  /\ pc[r] \in {"idle", "lookup"} => mine[r] = 0
  /\ pc[r] \in Prepared \cup {"route", "assemble"} => mine[r] >= 1
  /\ pc[r] \in {"stamp", "insert"} /\ mine[r] # 0 => kind[r] = "reset"
  /\ pc[r] = "insert" => mine[r] < stamp[r]
  /\ pc[r] \in {"assemble", "save", "model", "tools", "persist"} => kind[r] = "text"
  /\ pc[r] \in {"model", "tools", "persist"} => step[r] < MaxIterations
  /\ pc[r] = "tools" => left[r] >= 1
  /\ pc[r] # "done" => result[r] = "none"

\* A run has stored its prompt and its exchanges: n rows of them.
Stored(r, n) ==
  /\ Len(log[r]) >= n
  /\ \A i \in 1..n : log[r][i].role = IF i = 1 THEN "user" ELSE "exchange"
Open(r) == Len(log[r]) = step[r] + 1 /\ Stored(r, step[r] + 1)
Closed(r) ==
  /\ Len(log[r]) = step[r] + 2 /\ Stored(r, step[r] + 1)
  /\ log[r][step[r] + 2].role = "assistant"

InSession(r) == \A i \in DOMAIN log[r] : log[r][i].session = mine[r]

\* Which rows a run has stored at each await.
RowsAt(r) ==
  /\ InSession(r)
  /\ pc[r] \in {"idle", "lookup", "stamp", "insert", "route", "assemble", "save"} =>
       /\ step[r] = 0
       /\ IF pc[r] \in Searching /\ mine[r] # 0 THEN Open(r) ELSE log[r] = <<>>
  /\ pc[r] \in {"model", "tools", "persist", "reply"} => Open(r)
  /\ pc[r] = "send" => Closed(r) \/ (r \in Jobs /\ Open(r))
  /\ pc[r] = "done" => log[r] = <<>> \/ Open(r) \/ Closed(r)

\* An answer that was seen was stored.
SeenWasStored == \A m \in outbox : m.by \in Messages /\ m.what = "reply" => Closed(m.by)

\* Runs that had returned stay so; what a run has left is of its making.
PastOf(r) ==
  /\ before[r] \subseteq {q \in Runs : pc[q] = "done"}
  /\ pc[r] = "idle" => /\ before[r] = {} /\ \A s \in sessions : s.by # r
                       /\ \A m \in outbox : m.by # r

\* A run's session is one of its conversation.
SessionOf(r) == mine[r] # 0 => \E s \in sessions : s.addr = addr[r] /\ s.created = mine[r]

\* A run makes a first session only where those who had returned left none;
\* otherwise its session is not older than any of theirs.
ContactOf(r) ==
  \A s \in sessions :
    s.addr = addr[r] /\ s.by \in before[r] =>
      /\ pc[r] \in {"stamp", "insert"} => mine[r] # 0
      /\ mine[r] # 0 => s.created <= mine[r]

\* The rows a reset must hide are all in sessions older than c.
HiddenBy(q, c) ==
  \A p \in Runs : \A i \in DOMAIN log[p] : i <= logAt[q][p] => log[p][i].session < c

\* A reset hides the rows stored before it came in behind a younger session.
ResetOf(q) ==
  kind[q] = "reset" /\ pc[q] # "idle" =>
    /\ \A p \in Runs : logAt[q][p] <= Len(log[p])
    /\ pc[q] = "insert" /\ mine[q] # 0 => HiddenBy(q, stamp[q])
    /\ pc[q] \in {"reply", "send"} \/ result[q] = "ok" =>
         \E s \in sessions : /\ s.by = q /\ s.addr = addr[q]
                             /\ mine[q] < s.created /\ HiddenBy(q, s.created)

\* The prompt holds rows of the run's session by others, and all the rows
\* that earlier runs have stored there.
PromptOf(r) ==
  /\ pc[r] \notin Prepared \/ kind[r] = "reset" => prompt[r] = {}
  /\ \A row \in prompt[r] :
       /\ row[1] # r /\ row[2] \in DOMAIN log[row[1]]
       /\ log[row[1]][row[2]].session = mine[r]
  /\ r \in Messages /\ kind[r] = "text" /\ pc[r] \in Prepared =>
       \A q \in before[r] : \A row \in Rows(q) :
         log[q][row[2]].session = mine[r] => row \in prompt[r]

\* A job that is under way has notified nobody and knows whether it told.
ToldOf(r) ==
  r \in Jobs /\ pc[r] # "done" =>
    Sent(r, "reply") = {} /\ (told[r] <=> Sent(r, "tool") # {})

RunInv(r) ==
  /\ StageOf(r) /\ RowsAt(r) /\ PastOf(r) /\ SessionOf(r) /\ ContactOf(r)
  /\ ResetOf(r) /\ PromptOf(r) /\ ToldOf(r)

IndInv ==
  /\ TypeOK /\ IsFiniteSet(sessions) /\ \A r \in Runs : RunInv(r)
  /\ SeenWasStored /\ PolicyHolds /\ SplitOnlyAtFirstContact /\ OwnerIsToldOnce
=============================================================================
