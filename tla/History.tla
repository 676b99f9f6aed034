------------------------------- MODULE History -------------------------------
(***************************************************************************)
(* What a chat session's rows become in the requests to the model:         *)
(* history_units validates tool exchanges, renames call ids that are used  *)
(* again and renders the rest as text; ContextManager chooses what fits    *)
(* the budget, run_agent validates again before every request, a compaction *)
(* moves the start of the history and a job keeps a snapshot of it.  One   *)
(* turn or job runs at a time; their interleavings are Conversation's and  *)
(* Compaction's.                                                           *)
(*                                                                         *)
(* Of a message only this matters: its role, the ids of its tool calls and *)
(* tool outputs, whether it has other parts, and its estimate in tokens.   *)
(* Leading system messages count only by their size.                       *)
(***************************************************************************)
EXTENDS Integers, Sequences, FiniteSets

CONSTANTS
    Names,          \* call ids a provider gives, "" among them
    Batches,        \* sequences of names: tool calls of one answer
    Histories,      \* rows a session may have, older versions' included
    Sizes,          \* estimates of a prompt in tokens
    Label,          \* what the label of a rendered message adds to them
    Window,         \* context_window_tokens
    Reserved,       \* tokens reserved for the answer and the tool loop
    Fixed,          \* the personality and the summary
    SnapshotRows,   \* 30 in schedule_job
    Preserve,       \* recent_turns_to_preserve
    MaxIterations,  \* max_tool_iterations
    MaxRows         \* bound: rows of a session, but for the answer of its last turn

\* A call id: the provider's own, or "nerdbot_history_{start}_{ordinal}" with
\* a suffix where that is taken too.
Ids == [name : Names \cup {"nerdbot_history"}, start : Nat, ordinal : Nat, suffix : Nat]
Given(name) == [name |-> name, start |-> 0, ordinal |-> 0, suffix |-> 0]
Candidate(start, ordinal, suffix) ==
    [name |-> "nerdbot_history", start |-> start, ordinal |-> ordinal, suffix |-> suffix]

Roles == {"user", "assistant", "tool"}
Messages == [role : Roles, calls : Seq(Ids), outputs : Seq(Ids), other : BOOLEAN, size : Nat]

ASSUME HistoryAssumption ==
    /\ Batches \subseteq Seq(Names) /\ \A b \in Batches : b # <<>>
    /\ \A h \in Histories : h \in Seq(Messages)
    /\ Sizes \subseteq Nat /\ Label \in Nat /\ Fixed \in Nat
    /\ Window \in Nat /\ Reserved \in 0..Window
    /\ SnapshotRows \in Nat /\ Preserve \in Nat
    /\ MaxIterations \in Nat \ {0} /\ MaxRows \in Nat

VARIABLES
    rows,      \* the session's rows, oldest first
    boundary,  \* how many of them the summary covers
    snapshot,  \* creation_context_snapshot of a job
    pc,        \* "idle", "units", "name", "choose" or "model"
    doing,     \* what the history is normalised for
    input,     \* history_units: the messages it is given,
    out,       \* those it has put into units, normalised,
    units,     \* the units as intervals <<first, last>> of them,
    seen,      \* the call ids in use,
    stop,      \* the last row of the batch being named
    names,     \* and the new ids of its calls
    left,      \* tokens left in the budget
    request,   \* the turn's messages: assembled, then as they were last sent
    turn       \* iterations done

scan == <<input, out, units, seen, stop, names>>
vars == <<rows, boundary, snapshot, pc, doing, scan, left, request, turn>>

User(size) == [role |-> "user", calls |-> <<>>, outputs |-> <<>>, other |-> TRUE, size |-> size]
Reply == [User(1) EXCEPT !.role = "assistant"]
\* What run_agent appends after a batch of tools: the answer and its outputs.
Exchange(ids) ==
    << [role |-> "assistant", calls |-> ids, outputs |-> <<>>, other |-> FALSE, size |-> 1],
       [role |-> "tool", calls |-> <<>>, outputs |-> ids, other |-> FALSE, size |-> 1] >>

\* The estimate of a sequence of messages.
Cost(s) ==
    LET upTo[n \in 0..Len(s)] == IF n = 0 THEN 0 ELSE upTo[n - 1] + s[n].size
    IN  upTo[Len(s)]

-----------------------------------------------------------------------------
(***************************************************************************)
(* Tool protocol.                                                          *)
(***************************************************************************)
Opens(m) == m.role = "assistant" /\ m.calls # <<>>
Unsafe(m) == m.role = "tool" \/ m.calls # <<>> \/ m.outputs # <<>>

\* Rows first..last are an answer with calls and all tool rows after it.
IsBatch(s, first, last) ==
    /\ first \in 1..Len(s) /\ last \in first..Len(s) /\ Opens(s[first])
    /\ \A i \in first + 1..last : s[i].role = "tool"
    /\ last < Len(s) => s[last + 1].role # "tool"

\* Ids are unique and not empty, and there is exactly one output per call,
\* in tool rows that hold nothing else.
Answered(b) ==
    /\ \A k \in DOMAIN b[1].calls : b[1].calls[k].name # ""
    /\ \A k, l \in DOMAIN b[1].calls : b[1].calls[k] = b[1].calls[l] => k = l
    /\ b[1].outputs = <<>>
    /\ \A i \in 2..Len(b) : b[i].calls = <<>> /\ ~b[i].other
    /\ \A i \in 2..Len(b) : \A o \in DOMAIN b[i].outputs :
         /\ \E k \in DOMAIN b[1].calls : b[1].calls[k] = b[i].outputs[o]
         /\ \A j \in 2..Len(b) : \A p \in DOMAIN b[j].outputs :
              b[i].outputs[o] = b[j].outputs[p] => i = j /\ o = p
    /\ \A k \in DOMAIN b[1].calls :
         \E i \in 2..Len(b) : \E o \in DOMAIN b[i].outputs : b[i].outputs[o] = b[1].calls[k]

\* render_historical_text: a role that any provider accepts and no protocol.
Plain(m) ==
    [m EXCEPT !.role = IF @ = "tool" THEN "user" ELSE @, !.calls = <<>>, !.outputs = <<>>,
              !.other = TRUE, !.size = @ + Label]

\* The ids of calls become new, in the batch's calls and outputs alike.
NewId(id, calls, new) ==
    IF \E k \in DOMAIN calls : calls[k] = id
    THEN new[CHOOSE k \in DOMAIN calls : calls[k] = id]
    ELSE id
Renamed(m, calls, new) ==
    [m EXCEPT !.calls = [k \in DOMAIN @ |-> NewId(@[k], calls, new)],
              !.outputs = [k \in DOMAIN @ |-> NewId(@[k], calls, new)]]

-----------------------------------------------------------------------------
(***************************************************************************)
(* history_units, one unit at a time.                                      *)
(***************************************************************************)
Normalise(purpose, messages) ==
    /\ pc' = "units" /\ doing' = purpose /\ input' = messages
    /\ out' = <<>> /\ units' = <<>> /\ seen' = {} /\ stop' = 0 /\ names' = <<>>

\* The function's locals are gone.
Leave(next) ==
    /\ pc' = next /\ input' = <<>>
    /\ out' = <<>> /\ units' = <<>> /\ seen' = {} /\ stop' = 0 /\ names' = <<>>
    /\ UNCHANGED doing

session == <<rows, boundary, snapshot>>
turnVars == <<left, request, turn>>

first == Len(out) + 1

TakeUnit(messages) ==
    /\ out' = out \o messages
    /\ units' = Append(units, <<first, Len(out) + Len(messages)>>)
    /\ UNCHANGED <<session, doing, input, turnVars>>

\* A message that opens no batch is a unit of its own.
TakeMessage ==
    /\ pc = "units" /\ Len(out) < Len(input) /\ ~Opens(input[first])
    /\ TakeUnit(<<IF Unsafe(input[first]) THEN Plain(input[first]) ELSE input[first]>>)
    /\ UNCHANGED <<pc, seen, stop, names>>

\* A batch that breaks the protocol becomes text.
TakeBroken ==
    /\ pc = "units"
    /\ \E last \in first..Len(input) :
         /\ IsBatch(input, first, last) /\ ~Answered(SubSeq(input, first, last))
         /\ TakeUnit([i \in 1..last + 1 - first |-> Plain(input[first + i - 1])])
    /\ UNCHANGED <<pc, seen, stop, names>>

\* The calls of one that keeps it get their ids one by one,
OpenBatch ==
    /\ pc = "units"
    /\ \E last \in first..Len(input) :
         /\ IsBatch(input, first, last) /\ Answered(SubSeq(input, first, last))
         /\ stop' = last
    /\ pc' = "name" /\ names' = <<>>
    /\ UNCHANGED <<session, doing, input, out, units, seen, turnVars>>

calls == input[first].calls

Name(id) == names' = Append(names, id) /\ seen' = seen \cup {id}

\* Mutant: an id is kept although it is in use.
KeepAnyId ==
    /\ pc = "name" /\ Len(names) < Len(calls)
    /\ Name(calls[Len(names) + 1])
    /\ UNCHANGED <<session, pc, doing, input, out, units, stop, turnVars>>

KeepId ==
    /\ pc = "name" /\ Len(names) < Len(calls) /\ calls[Len(names) + 1] \notin seen
    /\ Name(calls[Len(names) + 1])
    /\ UNCHANGED <<session, pc, doing, input, out, units, stop, turnVars>>

\* the first candidate that is free if a call's own id is not.
ChangeId ==
    LET new(n) == Candidate(first, Len(names) + 1, n) IN
    /\ pc = "name" /\ Len(names) < Len(calls) /\ calls[Len(names) + 1] \in seen
    /\ \E n \in 0..Cardinality(seen) :
         /\ new(n) \notin seen /\ \A m \in 0..n - 1 : new(m) \in seen
         /\ Name(new(n))
    /\ UNCHANGED <<session, pc, doing, input, out, units, stop, turnVars>>

TakeBatch ==
    /\ pc = "name" /\ Len(names) = Len(calls)
    /\ TakeUnit([i \in 1..stop + 1 - first |-> Renamed(input[first + i - 1], calls, names)])
    /\ pc' = "units" /\ stop' = 0 /\ names' = <<>> /\ UNCHANGED seen

AllTaken == pc = "units" /\ Len(out) = Len(input)

-----------------------------------------------------------------------------
(***************************************************************************)
(* A turn: the prompt is assembled, sent, and sent again after tools.      *)
(***************************************************************************)
Init ==
    /\ rows \in Histories /\ boundary \in 0..Len(rows) /\ snapshot = <<>>
    /\ pc = "idle" /\ doing = "chat"
    /\ input = <<>> /\ out = <<>> /\ units = <<>> /\ seen = {} /\ stop = 0 /\ names = <<>>
    /\ left = 0 /\ request = <<>> /\ turn = 0

Usable == Window - Reserved
Room(n) == Len(rows) + n <= MaxRows

\* A prompt that does not fit beside the system messages is stored and refused.
Refuse ==
    /\ pc = "idle" /\ Room(2)
    /\ \E size \in Sizes : Fixed + size > Usable /\ rows' = rows \o <<User(size), Reply>>
    /\ UNCHANGED <<boundary, snapshot, pc, doing, scan, turnVars>>

Receive ==
    /\ pc = "idle" /\ Room(1)
    /\ \E size \in Sizes :
         /\ Fixed + size <= Usable
         /\ left' = Usable - Fixed - size /\ request' = <<User(size)>>
    /\ turn' = 0
    /\ Normalise("assemble", SubSeq(rows, boundary + 1, Len(rows)))
    /\ UNCHANGED session

\* Mutant: only the newest row of a unit is chosen.
ChosenRow == SubSeq(out, units[Len(units)][2], units[Len(units)][2])

\* The units are considered from the newest to the oldest.
Chosen == SubSeq(out, units[Len(units)][1], units[Len(units)][2])
NextUnit ==
    /\ units' = SubSeq(units, 1, Len(units) - 1)
    /\ UNCHANGED <<rows, boundary, pc, doing, input, out, seen, stop, names, turn>>

Choose ==
    /\ AllTaken /\ doing \in {"assemble", "snapshot"} /\ pc' = "choose"
    /\ UNCHANGED <<session, doing, scan, turnVars>>

\* Mutant: the cost of a unit is that of its rows as they are stored.
KeepUnlabelled ==
    /\ pc = "choose" /\ doing = "assemble" /\ units # <<>>
    /\ \E cost \in 0..left :
         /\ cost = Cost(SubSeq(input, units[Len(units)][1], units[Len(units)][2]))
         /\ left' = left - cost
    /\ request' = Chosen \o request
    /\ NextUnit /\ UNCHANGED snapshot

\* bound_messages keeps a unit that fits and goes on without one that does not.
KeepUnit ==
    /\ pc = "choose" /\ doing = "assemble" /\ units # <<>>
    /\ \E cost \in 0..left : cost = Cost(Chosen) /\ left' = left - cost
    /\ request' = Chosen \o request
    /\ NextUnit /\ UNCHANGED snapshot

SkipUnit ==
    /\ pc = "choose" /\ doing = "assemble" /\ units # <<>>
    /\ Cost(Chosen) \notin 0..left
    /\ NextUnit /\ UNCHANGED <<snapshot, left, request>>

\* The prompt is stored and run_agent validates what it is given.
Assembled ==
    /\ pc = "choose" /\ doing = "assemble" /\ units = <<>>
    /\ rows' = Append(rows, request[Len(request)])
    /\ Normalise("chat", request)
    /\ UNCHANGED <<boundary, snapshot, turnVars>>

\* A job with a snapshot starts from it (until one is taken, this is any other
\* job), and nothing bounds its prompt.
RunJob ==
    /\ pc = "idle" /\ Room(1)
    /\ \E size \in Sizes : request' = <<User(size)>>
    /\ turn' = 0 /\ Normalise("snapshotted", snapshot)
    /\ UNCHANGED <<session, left>>

JobAssembled ==
    /\ AllTaken /\ doing = "snapshotted"
    /\ rows' = rows \o request /\ request' = out \o request
    /\ Normalise("job", out \o request)
    /\ UNCHANGED <<boundary, snapshot, left, turn>>

Send ==
    /\ AllTaken /\ doing \in {"chat", "job"}
    /\ request' = out /\ Leave("model")
    /\ UNCHANGED <<session, left, turn>>

\* A chat turn stores an answer even if the model is silent or fails, a job
\* only what the model said.
ModelEnds ==
    /\ pc = "model"
    /\ rows' = Append(rows, Reply) \/ (doing # "chat" /\ rows' = rows)
    /\ request' = <<>> /\ Leave("idle")
    /\ UNCHANGED <<boundary, snapshot, left, turn>>

CallTools ==
    /\ Room(2)
    /\ \E batch \in Batches :
         Normalise("tools", request \o Exchange([k \in DOMAIN batch |-> Given(batch[k])]))
    /\ UNCHANGED <<session, turnVars>>

ModelCallsTools == pc = "model" /\ CallTools

\* Among them, schedule_job takes a snapshot of all the session's rows,
ModelSchedules ==
    /\ pc = "model" /\ snapshot' = <<>> /\ Normalise("snapshot", rows)
    /\ UNCHANGED <<rows, boundary, turnVars>>

\* recent_history: whole units until there are enough rows.
SnapshotUnit ==
    /\ pc = "choose" /\ doing = "snapshot" /\ units # <<>> /\ Len(snapshot) < SnapshotRows
    /\ snapshot' = Chosen \o snapshot
    /\ NextUnit /\ UNCHANGED <<left, request>>

SnapshotTaken ==
    /\ pc = "choose" /\ doing = "snapshot"
    /\ units = <<>> \/ Len(snapshot) >= SnapshotRows
    /\ CallTools

\* The exchange is stored as it was normalised and sent with the next request;
\* at the limit there is none, and a chat turn is answered with the failure.
Exchanged ==
    LET exchange == <<out[Len(out) - 1], out[Len(out)]>> IN
    /\ AllTaken /\ doing = "tools"
    /\ turn' = turn + 1
    /\ \/ /\ turn + 1 < MaxIterations /\ request' = out /\ Leave("model")
          /\ rows' = rows \o exchange
       \/ /\ turn + 1 >= MaxIterations /\ request' = <<>> /\ Leave("idle")
          /\ rows' = rows \o exchange \/ rows' = rows \o Append(exchange, Reply)
    /\ UNCHANGED <<boundary, snapshot, left>>

\* A compaction covers whole units and leaves the newest rows alone.
Compact ==
    /\ pc = "idle" /\ Normalise("compact", SubSeq(rows, boundary + 1, Len(rows)))
    /\ UNCHANGED <<session, turnVars>>

Compacted ==
    /\ AllTaken /\ doing = "compact" /\ Leave("idle")
    /\ \E cut \in {0} \cup {units[u][2] : u \in DOMAIN units} :
         /\ cut = 0 \/ cut + Preserve <= Len(input)
         /\ boundary' = boundary + cut
    /\ UNCHANGED <<rows, snapshot, turnVars>>

Next ==
    \/ TakeMessage \/ TakeBroken \/ OpenBatch \/ KeepId \/ ChangeId \/ TakeBatch
    \/ Refuse \/ Receive \/ Choose \/ KeepUnit \/ SkipUnit \/ Assembled
    \/ RunJob \/ JobAssembled \/ Send \/ ModelEnds \/ ModelCallsTools \/ ModelSchedules
    \/ SnapshotUnit \/ SnapshotTaken \/ Exchanged \/ Compact \/ Compacted

Spec == Init /\ [][Next]_vars
=============================================================================
