-------------------------- MODULE HistoryInvariants --------------------------
(***************************************************************************)
(* What every request to the model must be, whatever the rows are.         *)
(***************************************************************************)
EXTENDS History

\* Type invariant.
TypeOK ==
    /\ rows \in Seq(Messages) /\ boundary \in 0..Len(rows) /\ snapshot \in Seq(Messages)
    /\ pc \in {"idle", "units", "name", "choose", "model"}
    /\ doing \in {"assemble", "chat", "snapshotted", "job", "tools", "snapshot", "compact"}
    /\ input \in Seq(Messages) /\ out \in Seq(Messages)
    /\ units \in Seq(Nat \X Nat) /\ seen \subseteq Ids
    /\ stop \in Nat /\ names \in Seq(Ids)
    /\ left \in Nat /\ request \in Seq(Messages) /\ turn \in Nat

\* The protocol of providers: every tool row belongs to an answer with calls
\* right before it, every such batch is answered in full, no id is used twice,
\* and nothing else mentions a call.
Normal(s) ==
    /\ \A i \in DOMAIN s : s[i].role = "tool" =>
         i > 1 /\ (s[i - 1].role = "tool" \/ Opens(s[i - 1]))
    /\ \A i \in DOMAIN s : s[i].role # "tool" /\ ~Opens(s[i]) => ~Unsafe(s[i])
    /\ \A i, j \in DOMAIN s : IsBatch(s, i, j) => Answered(SubSeq(s, i, j))
    /\ \A i, j \in DOMAIN s : \A k \in DOMAIN s[i].calls : \A l \in DOMAIN s[j].calls :
         s[i].calls[k] = s[j].calls[l] => i = j

\* Whatever rows a session has, whatever ids the model uses and whatever was
\* chosen, renamed or rendered, a request keeps the protocol, and the first of
\* a turn ends with the prompt.
RequestsAreSound ==
    pc = "model" =>
        /\ Normal(request)
        /\ turn = 0 => request # <<>> /\ request[Len(request)].role = "user"

\* Normalisation is stable: the messages chosen within the budget are sent as
\* they are, a job's as they were recorded, and what was sent is sent again
\* unchanged before anything new, although the ids in use are counted afresh
\* each time.
Resent ==
    /\ pc = "units" /\ pc' = "model" =>
         /\ Len(request') = Len(request) + IF doing = "tools" THEN 2 ELSE 0
         /\ SubSeq(request', 1, Len(request)) = request
    /\ doing = "snapshotted" /\ doing' = "job" => request' = snapshot \o request

RequestsAreResent == [][Resent]_vars

\* The first request of a chat turn fits the budget as it is sent, rendered
\* rows and their labels included.
WithinBudget == pc = "model" /\ doing = "chat" => Fixed + Cost(request) <= Usable

-----------------------------------------------------------------------------
(* The inductive invariant *)

\* The id is that of a call in s.
Uses(s, id) == \E i \in DOMAIN s : \E k \in DOMAIN s[i].calls : s[i].calls[k] = id

\* The units are adjacent intervals of out that begin outside a batch.
Considered == IF units = <<>> THEN 0 ELSE units[Len(units)][2]
UnitsShape ==
    /\ \A u \in DOMAIN units :
         /\ units[u][1] \in 1..units[u][2] /\ units[u][2] <= Len(out)
         /\ out[units[u][1]].role # "tool"
         /\ IF u = 1 THEN units[u][1] = 1 ELSE units[u][1] = units[u - 1][2] + 1
    /\ Considered <= Len(out)
    /\ Considered < Len(out) => out[Considered + 1].role # "tool"
    /\ pc \in {"units", "name"} => Considered = Len(out)

\* What is in units keeps the protocol, and `seen` knows exactly its ids.
ScanShape ==
    /\ Len(out) <= Len(input) /\ Normal(out)
    /\ \A i \in DOMAIN out : \A k \in DOMAIN out[i].calls : out[i].calls[k] \in seen
    /\ pc # "name" => names = <<>>
    /\ \A id \in seen : Uses(out, id) \/ \E k \in DOMAIN names : names[k] = id

\* A batch is taken with all its tool rows.
Closed ==
    out # <<>> /\ Len(out) < Len(input)
    /\ (out[Len(out)].role = "tool" \/ Opens(out[Len(out)]))
        => input[first].role # "tool"

\* The new ids of an answered batch are distinct and nobody else's.
Naming ==
    pc = "name" =>
        /\ IsBatch(input, first, stop) /\ Answered(SubSeq(input, first, stop))
        /\ Len(names) <= Len(calls)
        /\ \A k, l \in DOMAIN names : names[k] = names[l] => k = l
        /\ \A k \in DOMAIN names :
             names[k].name # "" /\ names[k] \in seen /\ ~Uses(out, names[k])

\* What is chosen shares no id with the units still to be considered.
Target == IF doing = "assemble" THEN request ELSE snapshot
Choosing ==
    /\ pc \in {"units", "name"} /\ doing \in {"assemble", "snapshot"} =>
         \A i \in DOMAIN Target : Target[i].calls = <<>>
    /\ pc \in {"units", "name"} /\ doing = "snapshotted" =>
         \A i \in DOMAIN request : request[i].calls = <<>>
    /\ pc = "choose" =>
         /\ doing \in {"assemble", "snapshot"}
         /\ \A i \in 1..Considered : \A k \in DOMAIN out[i].calls :
              ~Uses(Target, out[i].calls[k])

\* What was chosen or sent before begins the input and comes out unchanged.
Base == IF doing = "snapshotted" THEN snapshot ELSE request
Replaying ==
    pc \in {"units", "name"} /\ doing \in {"chat", "job", "tools", "snapshotted"} =>
        /\ Len(input) = Len(Base) + IF doing = "tools" THEN 2 ELSE 0
        /\ \A i \in 1..Len(Base) : input[i] = Base[i] /\ (i <= Len(out) => out[i] = Base[i])
        /\ doing = "tools" => input[Len(Base) + 1].role # "tool"
        /\ pc = "name" /\ first <= Len(Base) =>
             \A k \in DOMAIN names : names[k] = calls[k]

\* Requests and snapshots keep the protocol while they are put together, and
\* a turn's request is there from its first prompt to its end.
Sendable ==
    /\ Normal(request) /\ Normal(snapshot)
    /\ pc = "idle" \/ doing = "compact" => request = <<>>
    /\ pc # "idle" /\ doing # "compact" =>
         /\ request # <<>>
         /\ turn = 0 => request[Len(request)].role = "user"
    /\ doing = "assemble" => turn = 0
    /\ pc = "model" => doing \in {"chat", "job", "tools"}

\* A compaction counts from the boundary, which nothing else moves.
Compacting ==
    doing = "compact" /\ pc \in {"units", "name"} => Len(input) = Len(rows) - boundary

\* While the first request of a chat turn is put together and validated, the
\* tokens left are exactly what the budget has beside it.
Budgeted ==
    doing \in {"assemble", "chat"} /\ pc # "idle" => Fixed + Cost(request) + left = Usable

IndInv ==
    /\ TypeOK /\ UnitsShape /\ ScanShape /\ Naming /\ Choosing
    /\ Replaying /\ Closed /\ Sendable /\ Compacting
=============================================================================
