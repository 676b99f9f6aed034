---------------------------- MODULE ChannelsProofs ----------------------------
(***************************************************************************)
(* Proofs about Channels: a message's way in lets nothing by and loses     *)
(* nothing, an answer's way out cuts no text wrongly and reports what      *)
(* happened, for all limits, texts and participants.                       *)
(***************************************************************************)
EXTENDS Channels, HistoryProofs, FiniteSetTheorems

\* A step of the channels is a step of one part, and none of the others.
LEMMA PartSteps ==
    ASSUME [ChannelsNext]_channelsVars
    PROVE  [In!Next]_(In!vars) /\ [Out!Next]_(Out!vars)
<1>1. /\ UNCHANGED inbound => UNCHANGED In!vars
      /\ UNCHANGED outbound => UNCHANGED Out!vars
    BY DEF inbound, outbound, In!vars, In!message, In!results,
           Out!vars, Out!sending, Out!message, Out!typing
<1> QED BY <1>1 DEF ChannelsNext, channelsVars

-----------------------------------------------------------------------------
(* What requests return *)

\* Success comes only from a request that was carried out, the expired queue is
\* recognised by its name, and markup the server cannot parse is not shown.
LEMMA Truthful ==
    ASSUME NEW c \in Out!Calls, NEW done \in BOOLEAN, NEW a \in Out!Answers,
           Out!Honest(a, done), NEW o \in Out!Outcomes(c, a)
    PROVE  /\ o \in {"ok", "empty", "none"} /\ c # "deleteWebhook" => done
           /\ c = "events" => (o = "expired") = (a.says = "BAD_EVENT_QUEUE_ID")
           /\ o = "parse" => ~done
<1>1. /\ a.got \in {"nothing", "head", "body"} /\ a.status \in BOOLEAN /\ a.json \in BOOLEAN
      /\ a.ok \in BOOLEAN /\ a.data \in BOOLEAN
      /\ a.got # "body" => ~a.json
      /\ ~a.json => ~a.ok /\ a.says = ""
      /\ a.ok => a.says = ""
      /\ ~a.ok => ~a.data
    BY DEF Out!Answers
<1>2. /\ a.ok => done
      /\ a.json /\ ~a.ok => ~done
    BY DEF Out!Honest
<1>3. CASE c = "events"
    BY <1>1, <1>2, <1>3 DEF Out!Outcomes, Out!GetEvents, Out!Accepted, Out!Parsed, Out!Needs
<1>4. CASE c = "sendMessage"
    BY <1>1, <1>2, <1>4 DEF Out!Outcomes, Out!SendMessage, Out!Accepted, Out!Parsed, Out!Needs
<1>5. CASE c = "getUpdates"
    BY <1>1, <1>2, <1>5 DEF Out!Outcomes, Out!GetUpdates, Out!Accepted, Out!Parsed, Out!Needs
<1>6. CASE c = "getFile"
    BY <1>1, <1>2, <1>6 DEF Out!Outcomes, Out!GetFile, Out!Accepted, Out!Parsed, Out!Needs
<1>7. CASE c \in {"setMyCommands", "setWebhook", "sendChatAction", "deleteWebhook", "getMe"}
    BY <1>1, <1>2, <1>7 DEF Out!Outcomes, Out!SetMyCommands, Out!SetWebhook, Out!SendTypingAction,
        Out!DeleteWebhook, Out!GetMe, Out!Accepted, Out!Parsed, Out!Needs
<1>8. CASE c \in {"users/me", "messages", "typing", "presence", "register"}
    BY <1>1, <1>2, <1>8 DEF Out!Outcomes, Out!ZulipGetMe, Out!ZulipSendMessage,
        Out!SendTypingNotification, Out!UpdatePresence, Out!RegisterQueue,
        Out!Accepted, Out!Parsed, Out!Needs
<1> QED BY <1>3, <1>4, <1>5, <1>6, <1>7, <1>8 DEF Out!Calls

-----------------------------------------------------------------------------
(* How a text is cut *)

LEMMA Greatest ==
    ASSUME NEW a \in Nat, NEW b \in Nat, NEW S, S \subseteq a..b, S # {}
    PROVE  Out!Last(S) \in S
<1> DEFINE T == {b - x : x \in S}
<1>1. T \subseteq Nat /\ T # {}
    OBVIOUS
<1>2. PICK y \in T : \A z \in T : y <= z
    <2> HIDE DEF T
    <2> QED BY <1>1, LeastNatural
<1>3. PICK m \in S : y = b - m
    OBVIOUS
<1>4. ASSUME NEW j \in S PROVE j <= m
    <2>1. j \in Nat /\ m \in Nat /\ b - m <= b - j
        BY <1>2, <1>3
    <2> QED BY <2>1
<1>5. \E i \in S : \A j \in S : j <= i
    BY <1>4
<1> QED BY <1>5 DEF Out!Last

\* find_split_point takes something, and no more than the limit.
LEMMA SplitPoint ==
    ASSUME Limit \in Nat \ {0}, NEW t, NEW from
    PROVE  Out!FindSplitPoint(t, from) \in 1..Limit
<1> DEFINE Within(c, start) == {i \in start + 1..Limit : t[from + i - 1] = c}
           newlines == Within("newline", Limit - (Limit \div 3))
           spaces == Within("space", Limit - (Limit \div 5))
<1>1. Limit - (Limit \div 3) \in Nat /\ Limit - (Limit \div 5) \in Nat
    OBVIOUS
<1>2. newlines \subseteq 1..Limit /\ spaces \subseteq 1..Limit
    BY <1>1
<1>3. Out!FindSplitPoint(t, from) =
        IF newlines # {} THEN Out!Last(newlines)
        ELSE IF spaces # {} THEN Out!Last(spaces) ELSE Limit
    BY DEF Out!FindSplitPoint
<1> HIDE DEF newlines, spaces
<1>4. newlines # {} => Out!Last(newlines) \in 1..Limit
    <2> SUFFICES ASSUME newlines # {} PROVE Out!Last(newlines) \in newlines
        BY <1>2
    <2>1. 1 \in Nat /\ Limit \in Nat
        OBVIOUS
    <2> QED BY <1>2, <2>1, Greatest
<1>5. spaces # {} => Out!Last(spaces) \in 1..Limit
    <2> SUFFICES ASSUME spaces # {} PROVE Out!Last(spaces) \in spaces
        BY <1>2
    <2>1. 1 \in Nat /\ Limit \in Nat
        OBVIOUS
    <2> QED BY <1>2, <2>1, Greatest
<1> QED BY <1>3, <1>4, <1>5

\* Where split_long_message may go on after a piece, and what it makes of the
\* text from a character on, if f says what becomes of the rest.
NextCuts(t, from) ==
    {q \in from + 1..from + Out!FindSplitPoint(t, from) :
        Out!Bytes(t, from, q - 1) = Out!FindSplitPoint(t, from)}
CutFrom(t, f, from) ==
    IF from > Len(t) THEN <<>>
    ELSE IF Len(t) + 1 - from <= Limit THEN <<<<from, Len(t)>>>>
    ELSE IF NextCuts(t, from) = {} THEN <<Out!Panic>>
    ELSE <<<<from, from + Out!FindSplitPoint(t, from) - 1>>>> \o f[Out!Last(NextCuts(t, from))]
Cuts(t, f, k) == f = [from \in k..Len(t) + 1 |-> CutFrom(t, f, from)]

\* What comes next is further on, within the text and no further than the
\* limit.
LEMMA NextCut ==
    ASSUME Limit \in Nat \ {0}, NEW t, Len(t) \in Nat, NEW from \in Nat,
           Len(t) + 1 - from > Limit, NextCuts(t, from) # {}
    PROVE  /\ Out!Last(NextCuts(t, from)) \in NextCuts(t, from)
           /\ Out!Last(NextCuts(t, from)) \in from + 1..Len(t)
<1>1. Out!FindSplitPoint(t, from) \in 1..Limit
    BY SplitPoint
<1>2. NextCuts(t, from) \subseteq from + 1..Len(t)
    BY <1>1 DEF NextCuts
<1>3. from + 1 \in Nat
    OBVIOUS
<1>4. Out!Last(NextCuts(t, from)) \in NextCuts(t, from)
    BY <1>2, <1>3, Greatest
<1> QED BY <1>2, <1>4

LEMMA PieceCut ==
    ASSUME NEW t, NEW f, NEW from, ~(from > Len(t)), ~(Len(t) + 1 - from <= Limit),
           NextCuts(t, from) # {}
    PROVE  CutFrom(t, f, from) =
             <<<<from, from + Out!FindSplitPoint(t, from) - 1>>>> \o f[Out!Last(NextCuts(t, from))]
    BY Zenon DEF CutFrom

\* Only the rest of the text matters.
LEMMA CutsAgree ==
    ASSUME Limit \in Nat \ {0}, NEW t, Len(t) \in Nat, NEW from \in Nat,
           NEW f, NEW g, \A q \in from + 1..Len(t) + 1 : f[q] = g[q]
    PROVE  CutFrom(t, f, from) = CutFrom(t, g, from)
<1>1. CASE from > Len(t) \/ Len(t) + 1 - from <= Limit \/ NextCuts(t, from) = {}
    BY <1>1 DEF CutFrom
<1>2. CASE ~(from > Len(t)) /\ Len(t) + 1 - from > Limit /\ NextCuts(t, from) # {}
    <2>1. Out!Last(NextCuts(t, from)) \in from + 1..Len(t)
        BY <1>2, NextCut
    <2>2. f[Out!Last(NextCuts(t, from))] = g[Out!Last(NextCuts(t, from))]
        BY <2>1
    <2> QED BY <1>2, <2>2 DEF CutFrom
<1> QED BY <1>1, <1>2

\* The recursion of split_long_message has a solution, from the end backwards.
LEMMA CutsExist ==
    ASSUME Limit \in Nat \ {0}, NEW t, Len(t) \in Nat
    PROVE  \E f : Cuts(t, f, 1)
<1> DEFINE n == Len(t)
           S == {m \in Nat : m <= n => \E f : Cuts(t, f, n + 1 - m)}
<1>1. 0 \in S
    <2>1. Cuts(t, [from \in n + 1..n + 1 |-> <<>>], n + 1)
        BY DEF Cuts, CutFrom
    <2> QED BY <2>1
<1>2. ASSUME NEW m \in Nat, m \in S PROVE m + 1 \in S
    <2> SUFFICES ASSUME m + 1 <= n PROVE \E f : Cuts(t, f, n + 1 - (m + 1))
        OBVIOUS
    <2>1. PICK f : Cuts(t, f, n + 1 - m)
        BY <1>2
    <2> DEFINE k == n - m
               g == [from \in k..n + 1 |-> IF from = k THEN CutFrom(t, f, k) ELSE f[from]]
    <2>2. k \in Nat /\ k + 1 = n + 1 - m /\ k = n + 1 - (m + 1)
        OBVIOUS
    <2>3. \A q \in k + 1..n + 1 : g[q] = f[q] /\ f[q] = CutFrom(t, f, q)
        <3>1. f = [from \in k + 1..n + 1 |-> CutFrom(t, f, from)]
            BY <2>1, <2>2 DEF Cuts
        <3>2. \A q \in k + 1..n + 1 : q \in k..n + 1 /\ q # k
            BY <2>2
        <3> HIDE DEF k
        <3> QED BY <3>1, <3>2
    <2>4. g[k] = CutFrom(t, f, k)
        BY <2>2
    <2>5. ASSUME NEW from \in k..n + 1 PROVE g[from] = CutFrom(t, g, from)
        <3>1. from \in Nat /\ \A q \in from + 1..n + 1 : q \in k + 1..n + 1
            BY <2>2
        <3>2. \A q \in from + 1..n + 1 : f[q] = g[q]
            BY <2>3, <3>1
        <3> HIDE DEF k, g
        <3>3. CutFrom(t, f, from) = CutFrom(t, g, from)
            BY <3>1, <3>2, CutsAgree
        <3>4. from = k \/ from \in k + 1..n + 1
            BY <2>2
        <3> QED BY <2>3, <2>4, <3>3, <3>4
    <2>6. Cuts(t, g, k)
        <3>1. g = [from \in k..n + 1 |-> g[from]]
            OBVIOUS
        <3> HIDE DEF g, k
        <3> QED BY <2>5, <3>1 DEF Cuts
    <2> HIDE DEF g, k
    <2> QED BY <2>2, <2>6
<1> HIDE DEF S
<1>3. Nat \subseteq S
    BY <1>1, <1>2, InductiveSet
<1>4. n \in S
    BY <1>3
<1> QED BY <1>4 DEF S

LEMMA SplitIsCuts ==
    ASSUME Limit \in Nat \ {0}, NEW t, Len(t) \in Nat
    PROVE  \E f : Cuts(t, f, 1) /\ Out!SplitLongMessage(t) = f[1]
<1> DEFINE f == CHOOSE g : Cuts(t, g, 1)
<1>1. Cuts(t, f, 1)
    BY CutsExist
<1>2. Out!SplitLongMessage(t) = f[1]
    BY DEF Out!SplitLongMessage, Cuts, CutFrom, NextCuts
<1> QED BY <1>1, <1>2

\* Pieces of n characters, no longer than the limit, and those that are the
\* characters a..n, cut.
PiecesOf(n) == ((1..n + 1) \X (0..n)) \cup {Out!Panic}
ShortPieces(p, n, limit) ==
    p \in Seq(PiecesOf(n)) /\ \A i \in 1..Len(p) : p[i][2] + 1 - p[i][1] <= limit
Follows(p, a, n) ==
    /\ p # <<>>
    /\ p[1][1] = a /\ p[Len(p)][2] = n
    /\ \A i \in 1..Len(p) - 1 : p[i + 1][1] = p[i][2] + 1

LEMMA PanicIsShort ==
    ASSUME NEW n \in Nat, NEW limit \in Nat \ {0}
    PROVE  ShortPieces(<<Out!Panic>>, n, limit) /\ ShortPieces(<<>>, n, limit)
    BY DEF ShortPieces, PiecesOf, Out!Panic

LEMMA OnePiece ==
    ASSUME NEW n \in Nat, NEW a \in 1..n + 1, NEW limit \in Nat, n + 1 - a <= limit
    PROVE  ShortPieces(<<<<a, n>>>>, n, limit) /\ Follows(<<<<a, n>>>>, a, n)
<1>1. <<a, n>> \in PiecesOf(n)
    BY DEF PiecesOf
<1> QED BY <1>1 DEF ShortPieces, Follows

LEMMA PieceBefore ==
    ASSUME NEW n \in Nat, NEW a \in 1..n, NEW b \in a + 1..n, NEW limit \in Nat, b - a <= limit,
           NEW p, ShortPieces(p, n, limit)
    PROVE  /\ ShortPieces(<<<<a, b - 1>>>> \o p, n, limit) /\ <<<<a, b - 1>>>> \o p # <<>>
           /\ Follows(p, b, n) => Follows(<<<<a, b - 1>>>> \o p, a, n)
<1> DEFINE head == <<a, b - 1>>
           all == <<head>> \o p
<1>1. head \in PiecesOf(n) /\ head[1] = a /\ head[2] = b - 1
    BY DEF PiecesOf
<1>2. p \in Seq(PiecesOf(n)) /\ Len(p) \in Nat
    BY DEF ShortPieces
<1> HIDE DEF head
<1>3. /\ all \in Seq(PiecesOf(n)) /\ Len(all) = Len(p) + 1
      /\ all[1] = head /\ \A i \in 1..Len(p) : all[i + 1] = p[i]
    BY <1>1, <1>2
<1> HIDE DEF all
<1>4. ASSUME NEW i \in 1..Len(all) PROVE all[i][2] + 1 - all[i][1] <= limit
    <2>1. CASE i = 1
        BY <1>1, <1>3, <2>1
    <2>2. CASE i # 1
        <3>1. i - 1 \in 1..Len(p) /\ i - 1 + 1 = i
            BY <1>2, <1>3, <2>2
        <3>2. all[i] = p[i - 1]
            BY <1>3, <3>1
        <3> QED BY <3>1, <3>2 DEF ShortPieces
    <2> QED BY <2>1, <2>2
<1>5. ASSUME Follows(p, b, n) PROVE Follows(all, a, n)
    <2>1. p # <<>> /\ Len(p) >= 1 /\ p[1][1] = b /\ p[Len(p)][2] = n
          /\ \A i \in 1..Len(p) - 1 : p[i + 1][1] = p[i][2] + 1
        BY <1>2, <1>5 DEF Follows
    <2>2. all # <<>> /\ all[1][1] = a
        BY <1>1, <1>2, <1>3
    <2>3. all[Len(all)] = p[Len(p)]
        BY <1>2, <1>3, <2>1
    <2>4. ASSUME NEW i \in 1..Len(all) - 1 PROVE all[i + 1][1] = all[i][2] + 1
        <3>1. CASE i = 1
            BY <1>1, <1>2, <1>3, <2>1, <3>1
        <3>2. CASE i # 1
            <4>1. i - 1 \in 1..Len(p) - 1 /\ i - 1 \in 1..Len(p) /\ i \in 1..Len(p) /\ i - 1 + 1 = i
                BY <1>2, <1>3, <3>2
            <4>2. all[i] = p[i - 1] /\ all[i + 1] = p[i]
                BY <1>3, <4>1
            <4>3. p[i - 1 + 1][1] = p[i - 1][2] + 1
                BY <2>1, <4>1
            <4> QED BY <4>1, <4>2, <4>3
        <3> QED BY <3>1, <3>2
    <2> QED BY <2>1, <2>2, <2>3, <2>4 DEF Follows
<1>6. all # <<>>
    BY <1>2, <1>3
<1> QED BY <1>3, <1>4, <1>5, <1>6 DEF ShortPieces, all, head

\* A text of narrow characters has as many bytes as characters.
LEMMA NarrowBytes ==
    ASSUME NEW t \in Seq(Out!Chars), \A i \in DOMAIN t : t[i] # "wide",
           NEW from \in 1..Len(t), NEW upto \in from..Len(t)
    PROVE  Out!Bytes(t, from, upto) = upto + 1 - from
<1>1. {i \in from..upto : t[i] = "wide"} = {}
    OBVIOUS
<1>2. Out!Cardinality({}) = 0
    BY FS_EmptySet DEF Cardinality, Out!Cardinality
<1>3. Out!Cardinality({i \in from..upto : t[i] = "wide"}) = 0
    BY <1>1, <1>2
<1>4. Out!Bytes(t, from, upto) = upto + 1 - from + 0
    BY <1>3, Zenon DEF Out!Bytes
<1> QED BY <1>4

\* split_long_message cuts a text into pieces within the limit, and a narrow
\* one without loss or repetition.
LEMMA SplitsWell ==
    ASSUME Limit \in Nat \ {0}, NEW t \in Seq(Out!Chars), Len(t) > 0
    PROVE  /\ ShortPieces(Out!SplitLongMessage(t), Len(t), Limit) /\ Out!SplitLongMessage(t) # <<>>
           /\ (\A i \in DOMAIN t : t[i] # "wide") => Follows(Out!SplitLongMessage(t), 1, Len(t))
<1>0. Len(t) \in Nat
    OBVIOUS
<1>1. PICK f : Cuts(t, f, 1) /\ Out!SplitLongMessage(t) = f[1]
    BY <1>0, SplitIsCuts
<1> DEFINE n == Len(t)
           narrow == \A i \in DOMAIN t : t[i] # "wide"
           Good(from) == /\ ShortPieces(f[from], n, Limit)
                         /\ from <= n => f[from] # <<>>
                         /\ narrow /\ from <= n => Follows(f[from], from, n)
           S == {m \in Nat : \A from \in 1..n + 1 : n + 1 - from <= m => Good(from)}
<1>2. \A from \in 1..n + 1 : f[from] = CutFrom(t, f, from)
    BY <1>1 DEF Cuts
<1>3. 0 \in S
    <2> SUFFICES ASSUME NEW from \in 1..n + 1, n + 1 - from <= 0 PROVE Good(from)
        OBVIOUS
    <2>1. from = n + 1 /\ from > n
        BY <1>0
    <2>2. f[from] = <<>>
        BY <1>2, <2>1 DEF CutFrom
    <2> QED BY <1>0, <2>1, <2>2, PanicIsShort
<1>4. ASSUME NEW m \in Nat, m \in S PROVE m + 1 \in S
    <2> SUFFICES ASSUME NEW from \in 1..n + 1, n + 1 - from <= m + 1 PROVE Good(from)
        OBVIOUS
    <2>0. \A q \in 1..n + 1 : n + 1 - q <= m => Good(q)
        BY <1>4
    <2>c. f[from] = CutFrom(t, f, from)
        BY <1>2
    <2> HIDE DEF Good, S
    <2>1. CASE from > n
        <3>1. n + 1 - from <= m
            BY <1>0, <2>1
        <3> QED BY <2>0, <3>1
    <2>2. CASE from <= n /\ n + 1 - from <= Limit
        <3>1. f[from] = <<<<from, n>>>>
            BY <1>0, <2>c, <2>2 DEF CutFrom
        <3>2. f[from] # <<>> /\ ShortPieces(f[from], n, Limit) /\ Follows(f[from], from, n)
            BY <1>0, <2>2, <3>1, OnePiece
        <3> QED BY <3>2 DEF Good
    <2>3. CASE from <= n /\ n + 1 - from > Limit /\ NextCuts(t, from) = {}
        <3>1. f[from] = <<Out!Panic>>
            BY <1>0, <2>c, <2>3 DEF CutFrom
        <3>2. ~narrow
            <4> SUFFICES ASSUME narrow PROVE FALSE
                OBVIOUS
            <4> DEFINE taken == Out!FindSplitPoint(t, from)
            <4>1. taken \in 1..Limit
                BY SplitPoint
            <4> HIDE DEF taken
            <4>2. from \in 1..n /\ from + taken - 1 \in from..n
                BY <1>0, <2>3, <4>1
            <4>3. Out!Bytes(t, from, from + taken - 1) = from + taken - 1 + 1 - from
                BY <4>2, NarrowBytes
            <4>4. from + taken \in from + 1..from + taken /\ from + taken - 1 + 1 - from = taken
                BY <1>0, <4>1
            <4>5. Out!Bytes(t, from, from + taken - 1) = taken
                BY <4>3, <4>4
            <4>6. NextCuts(t, from) = {q \in from + 1..from + taken : Out!Bytes(t, from, q - 1) = taken}
                BY Zenon DEF NextCuts, taken
            <4> DEFINE x == from + taken
            <4>x. x - 1 = from + taken - 1
                BY <1>0, <4>1
            <4>7. x \in from + 1..from + taken /\ Out!Bytes(t, from, x - 1) = taken
                BY <4>4, <4>5, <4>x
            <4> HIDE DEF x
            <4>8. x \in NextCuts(t, from)
                BY <4>6, <4>7
            <4> QED BY <2>3, <4>8
        <3> QED BY <1>0, <3>1, <3>2, PanicIsShort DEF Good
    <2>4. CASE from <= n /\ n + 1 - from > Limit /\ NextCuts(t, from) # {}
        <3> DEFINE taken == Out!FindSplitPoint(t, from)
                   q == Out!Last(NextCuts(t, from))
                   b == from + taken
        <3>1. taken \in 1..Limit
            BY SplitPoint
        <3>2. q \in NextCuts(t, from) /\ q \in from + 1..n
            BY <1>0, <2>4, NextCut
        <3>3. f[from] = <<<<from, b - 1>>>> \o f[q]
            <4>1. ~(from > Len(t)) /\ ~(Len(t) + 1 - from <= Limit)
                BY <1>0, <2>4
            <4>2. CutFrom(t, f, from) =
                    <<<<from, from + Out!FindSplitPoint(t, from) - 1>>>> \o f[Out!Last(NextCuts(t, from))]
                BY <2>4, <4>1, PieceCut
            <4>3. from + Out!FindSplitPoint(t, from) - 1 = b - 1
                BY <1>0, <3>1
            <4> HIDE DEF b
            <4> QED BY <2>c, <4>2, <4>3
        <3>4. q \in 1..n + 1 /\ n + 1 - q <= m /\ Good(q)
            BY <1>0, <2>0, <3>2
        <3>5. Out!Bytes(t, from, q - 1) = taken
            BY <3>2 DEF NextCuts
        <3> HIDE DEF taken, q
        <3>6. from \in 1..n /\ b \in from + 1..n /\ b - from <= Limit /\ Limit \in Nat
            BY <1>0, <2>4, <3>1
        <3>7. narrow => q = b
            <4>1. q - 1 \in from..n /\ q \in Nat
                BY <1>0, <3>2
            <4>2. narrow => Out!Bytes(t, from, q - 1) = q - 1 + 1 - from
                BY <3>6, <4>1, NarrowBytes
            <4>3. q - 1 + 1 - from = taken => q = from + taken
                BY <3>1, <4>1
            <4> QED BY <3>5, <4>2, <4>3
        <3> HIDE DEF b
        <3>8. ShortPieces(f[q], n, Limit) /\ (narrow => Follows(f[q], q, n))
            BY <3>2, <3>4 DEF Good
        <3>9. /\ ShortPieces(<<<<from, b - 1>>>> \o f[q], n, Limit) /\ <<<<from, b - 1>>>> \o f[q] # <<>>
              /\ Follows(f[q], b, n) => Follows(<<<<from, b - 1>>>> \o f[q], from, n)
            BY <1>0, <3>6, <3>8, PieceBefore
        <3> HIDE DEF narrow
        <3> QED BY <3>3, <3>7, <3>8, <3>9 DEF Good
    <2> QED BY <1>0, <2>1, <2>2, <2>3, <2>4
<1> HIDE DEF S
<1>5. Nat \subseteq S
    BY <1>3, <1>4, InductiveSet
<1>6. Good(1)
    <2>1. n \in S /\ 1 \in 1..n + 1 /\ n + 1 - 1 <= n
        BY <1>0, <1>5
    <2> QED BY <2>1 DEF S
<1> QED BY <1>0, <1>1, <1>6

\* What division by the limit leaves.
LEMMA Divided ==
    ASSUME NEW a \in Nat, NEW z \in Nat \ {0}
    PROVE  /\ a \div z \in Nat
           /\ (a \div z) * z <= a /\ a < (a \div z) * z + z
    OBVIOUS
LEMMA Times ==
    ASSUME NEW a \in Nat, NEW b \in Nat, NEW z \in Nat, a <= b
    PROVE  a * z \in Nat /\ a * z <= b * z /\ (a + 1) * z = a * z + z
    OBVIOUS

LEMMA TimesLess ==
    ASSUME NEW b \in Nat \ {0}, NEW z \in Nat
    PROVE  (b - 1) * z \in Nat /\ b * z = (b - 1) * z + z
    OBVIOUS

\* Zulip's chunks are within the limit and lose and repeat nothing.
LEMMA ChunksWell ==
    ASSUME ZulipLimit \in Nat \ {0}, NEW t \in Seq(Out!Chars)
    PROVE  /\ ShortPieces(Out!ZulipChunks(t), Len(t), ZulipLimit)
           /\ Follows(Out!ZulipChunks(t), 1, Len(t))
<1> DEFINE n == Len(t)
           z == ZulipLimit
           k == (n + z - 1) \div z
           upto(i) == IF i * z < n THEN i * z ELSE n
           chunks == [i \in 1..k |-> <<(i - 1) * z + 1, upto(i)>>]
<1>0. n \in Nat /\ z \in Nat \ {0}
    OBVIOUS
<1>1. CASE n <= z
    <2>1. Out!ZulipChunks(t) = <<<<1, n>>>>
        BY <1>1 DEF Out!ZulipChunks
    <2>2. 1 \in 1..n + 1 /\ n + 1 - 1 <= z
        BY <1>0, <1>1
    <2> QED BY <1>0, <2>1, <2>2, OnePiece
<1>2. CASE n > z
    <2>1. Out!ZulipChunks(t) = chunks
        <3>1. ~(n <= z)
            BY <1>0, <1>2
        <3> QED BY <3>1, Zenon DEF Out!ZulipChunks
    <2> HIDE DEF n, z
    <2>2. k \in Nat /\ k * z <= n + z - 1 /\ n + z - 1 < k * z + z
        <3> DEFINE a == n + z - 1
        <3>1. a \in Nat
            BY <1>0, <1>2
        <3>2. k = a \div z
            OBVIOUS
        <3> HIDE DEF k, a
        <3>3. k \in Nat /\ k * z <= a /\ a < k * z + z
            BY <1>0, <3>1, <3>2, Divided
        <3> QED BY <3>3 DEF a
    <2> HIDE DEF k
    <2>3. k \in Nat \ {0} /\ n <= k * z
        <3>1. k * z \in Nat
            BY <1>0, <2>2, Times
        <3>2. k # 0
            <4>1. k = 0 => k * z = 0
                BY <1>0
            <4> QED BY <1>0, <1>2, <2>2, <3>1, <4>1
        <3> QED BY <1>0, <2>2, <3>1, <3>2
    <2>4. ASSUME NEW i \in 1..k
          PROVE  /\ (i - 1) * z \in Nat /\ (i - 1) * z < n /\ i * z = (i - 1) * z + z
                 /\ i < k => i * z < n
        <3> DEFINE u == (i - 1) * z
                   v == (k - 1) * z
        <3>1. i - 1 \in Nat /\ i - 1 <= k - 1 /\ k - 1 \in Nat /\ i \in Nat \ {0}
            BY <2>3
        <3>2. u \in Nat /\ u <= v
            BY <1>0, <3>1, Times
        <3>3. v \in Nat /\ k * z = v + z /\ i * z = u + z /\ i * z \in Nat
            BY <1>0, <2>3, <3>1, <3>2, TimesLess
        <3>4. ASSUME i < k PROVE i * z <= v
            <4>1. i <= k - 1
                BY <2>3, <3>4
            <4> QED BY <1>0, <3>1, <4>1, Times
        <3> HIDE DEF u, v
        <3>5. v < n
            BY <1>0, <2>2, <3>3
        <3>6. u \in Nat /\ u < n /\ i * z = u + z /\ (i < k => i * z < n)
            BY <1>0, <3>2, <3>3, <3>4, <3>5
        <3> QED BY <3>6 DEF u
    <2>5. ASSUME NEW i \in 1..k
          PROVE  /\ chunks[i][1] = (i - 1) * z + 1 /\ chunks[i][2] = upto(i)
                 /\ chunks[i] \in PiecesOf(n)
                 /\ chunks[i][2] + 1 - chunks[i][1] <= z
        <3> DEFINE w == (i - 1) * z
        <3>1. w \in Nat /\ w < n /\ i * z = w + z
            BY <2>4
        <3> HIDE DEF w
        <3>2. upto(i) \in 0..n /\ w + 1 \in 1..n + 1 /\ upto(i) + 1 - (w + 1) <= z
            BY <1>0, <3>1
        <3>3. chunks[i] = <<w + 1, upto(i)>>
            BY DEF w
        <3> HIDE DEF chunks, upto
        <3>4. chunks[i][1] = w + 1 /\ chunks[i][2] = upto(i)
            BY <3>3
        <3>5. chunks[i] \in PiecesOf(n)
            BY <3>2, <3>3 DEF PiecesOf
        <3>6. chunks[i][2] + 1 - chunks[i][1] <= z
            BY <3>2, <3>4
        <3> QED BY <3>4, <3>5, <3>6 DEF w
    <2>6. chunks \in Seq(PiecesOf(n)) /\ Len(chunks) = k
        <3>1. \A i \in 1..k : <<(i - 1) * z + 1, upto(i)>> \in PiecesOf(n)
            BY <2>5
        <3> HIDE DEF upto
        <3> QED BY <2>3, <3>1
    <2>7. ASSUME NEW i \in 1..k - 1 PROVE chunks[i + 1][1] = chunks[i][2] + 1
        <3>1. i \in 1..k /\ i + 1 \in 1..k /\ i < k /\ i + 1 - 1 = i
            BY <2>3
        <3>2. chunks[i + 1][1] = i * z + 1
            BY <2>5, <3>1
        <3>3. chunks[i][2] = upto(i) /\ i * z < n
            BY <2>4, <2>5, <3>1
        <3> QED BY <3>2, <3>3
    <2>8. chunks[1][1] = 1
        <3>1. 1 \in 1..k /\ (1 - 1) * z + 1 = 1
            BY <1>0, <2>3
        <3> QED BY <2>5, <3>1
    <2>9. chunks[k][2] = n
        <3>1. k \in 1..k /\ k * z \in Nat
            BY <1>0, <2>3, Times
        <3>2. ~(k * z < n)
            BY <1>0, <2>3, <3>1
        <3> QED BY <2>5, <3>1, <3>2
    <2> HIDE DEF chunks
    <2>10. ShortPieces(chunks, n, z)
        BY <2>5, <2>6 DEF ShortPieces
    <2>11. Follows(chunks, 1, n)
        <3>1. chunks # <<>>
            BY <2>3, <2>6
        <3> QED BY <2>6, <2>7, <2>8, <2>9, <3>1 DEF Follows
    <2> QED BY <2>1, <2>10, <2>11 DEF n, z
<1> QED BY <1>0, <1>1, <1>2

-----------------------------------------------------------------------------
(* The way out *)

\* The pieces p of the text t for the place a: each fits a request with its
\* prefix, and together they are the text, unless wide characters are cut for a
\* Telegram chat.
PiecesFit(p, a) ==
    \A i \in 1..Len(p) :
      p[i][2] + 1 - p[i][1] + (IF Len(p) > 1 /\ a = "chat" THEN PrefixLength ELSE 0)
        <= IF a = "chat" THEN MaxLength ELSE ZulipLimit
WellCut(p, a, t) ==
    /\ p # <<>> /\ p \in Seq(PiecesOf(Len(t))) /\ PiecesFit(p, a)
    /\ (\A i \in DOMAIN t : t[i] # "wide") \/ a \in Out!Zulip => Follows(p, 1, Len(t))

\* The stages of a message: nothing is shown before it is cut, the pieces shown
\* are those sent so far, and a piece is left while the call lasts.
Sending ==
    /\ outPc \in {"idle", "formatted"} =>
         pieces = <<>> /\ sent = 0 /\ shown = <<>> /\ longest = 0 /\ result = "none"
    /\ outPc = "formatted" => to = "chat" /\ text \in Texts
    /\ outPc = "pieces" =>
         pieces # <<>> /\ sent < Len(pieces) /\ shown = SubSeq(pieces, 1, sent) /\ result = "none"
    /\ longest <= IF to = "chat" THEN MaxLength ELSE ZulipLimit
    /\ pieces # <<>> => WellCut(pieces, to, text)

SendTypes ==
    /\ outPc \in {"idle", "formatted", "pieces", "done"}
    /\ to \in Out!Places /\ format \in Out!Formats /\ text \in {<<>>} \cup Texts
    /\ pieces \in Seq(PiecesOf(Len(text))) /\ sent \in 0..Len(pieces)
    /\ shown \in Seq(Nat \X Nat) /\ longest \in Nat
    /\ result \in {"none", "ok", "error", "panic"}
TypingTypes ==
    task \in {"none", "running", "aborted"} /\ wire \subseteq {"start", "stop"} /\ lamp \in BOOLEAN

\* What is known of the last request.
Requests == [call : Out!Calls \cup {"none"}, answer : Out!Answers, done : BOOLEAN,
             outcome : {"none", "ok", "empty", "parse", "expired", "error"}]
LastIsTrue == last \in Requests /\ Out!SuccessIsReal /\ Out!ExpiredQueueIsRecognised

MessageInv == SendTypes /\ Sending /\ Out!ShownOnceInOrder /\ Out!OkShowsEverything
OutInv == MessageInv /\ TypingTypes /\ LastIsTrue

LEMMA OutLimits ==
    /\ Limit \in Nat \ {0} /\ ZulipLimit \in Nat \ {0} /\ MaxLength \in Nat /\ PrefixLength \in Nat
    /\ Limit + PrefixLength <= MaxLength /\ Texts \subseteq Seq(Out!Chars)
    BY ChannelsAssumption DEF Out!OutboundAssumption, Out!LimitAssumption

LEMMA PieceTypes ==
    ASSUME NEW n \in Nat, NEW x \in PiecesOf(n)
    PROVE  x[1] \in Nat /\ x[2] \in Nat
    BY DEF PiecesOf, Out!Panic

\* A piece within the limit fits with what is put before it.
LEMMA FitsWithPrefix ==
    ASSUME NEW u \in Nat, NEW v \in Nat, NEW e \in Nat, NEW l \in Nat, NEW m \in Nat,
           v + 1 - u <= l, l + e <= m
    PROVE  v + 1 - u + e <= m
    OBVIOUS

LEMMA ChatPieces ==
    ASSUME NEW t \in Texts
    PROVE  WellCut(Out!SplitMessage(t), "chat", t)
<1> DEFINE p == Out!SplitMessage(t)
           n == Len(t)
<1>1. t \in Seq(Out!Chars) /\ n \in Nat
    BY OutLimits
<1>2. CASE n <= MaxLength
    <2>1. p = <<<<1, n>>>>
        BY <1>2 DEF Out!SplitMessage
    <2>2. ShortPieces(p, n, MaxLength) /\ Follows(p, 1, n)
        <3>1. 1 \in 1..n + 1 /\ n + 1 - 1 <= MaxLength /\ MaxLength \in Nat
            BY <1>1, <1>2, OutLimits
        <3> QED BY <1>1, <2>1, <3>1, OnePiece
    <2>3. Len(p) = 1 /\ p # <<>>
        BY <2>1
    <2> HIDE DEF p
    <2>4. ASSUME NEW i \in 1..Len(p)
          PROVE  p[i][2] + 1 - p[i][1] + (IF Len(p) > 1 /\ "chat" = "chat" THEN PrefixLength ELSE 0)
                   <= MaxLength
        <3>1. p[i][2] + 1 - p[i][1] <= MaxLength
            BY <2>2 DEF ShortPieces
        <3>2. p[i][1] \in Nat /\ p[i][2] \in Nat
            <4>1. p[i] \in PiecesOf(n)
                BY <2>2 DEF ShortPieces
            <4> QED BY <1>1, <4>1, PieceTypes
        <3>3. MaxLength \in Nat /\ MaxLength + 0 <= MaxLength /\ 0 \in Nat
            BY OutLimits
        <3>4. p[i][2] + 1 - p[i][1] + 0 <= MaxLength
            <4> DEFINE u == p[i][1]
                       v == p[i][2]
            <4>1. u \in Nat /\ v \in Nat /\ v + 1 - u <= MaxLength
                BY <3>1, <3>2
            <4> HIDE DEF u, v
            <4>2. v + 1 - u + 0 <= MaxLength
                BY <3>3, <4>1, FitsWithPrefix
            <4> QED BY <4>2 DEF u, v
        <3> QED BY <2>3, <3>4
    <2>5. PiecesFit(p, "chat")
        BY <2>4 DEF PiecesFit
    <2>6. WellCut(p, "chat", t)
        BY <2>2, <2>3, <2>5, Zenon DEF WellCut, ShortPieces
    <2> QED BY <2>6 DEF p
<1>3. CASE ~(n <= MaxLength)
    <2>1. p = Out!SplitLongMessage(t)
        BY <1>3 DEF Out!SplitMessage
    <2>2. n > 0
        BY <1>1, <1>3, OutLimits
    <2>3. /\ ShortPieces(p, n, Limit) /\ p # <<>>
          /\ (\A i \in DOMAIN t : t[i] # "wide") => Follows(p, 1, n)
        BY <1>1, <2>1, <2>2, OutLimits, SplitsWell
    <2> HIDE DEF p
    <2>4. ASSUME NEW i \in 1..Len(p)
          PROVE  p[i][2] + 1 - p[i][1] + (IF Len(p) > 1 /\ "chat" = "chat" THEN PrefixLength ELSE 0)
                   <= MaxLength
        <3>1. p[i][2] + 1 - p[i][1] <= Limit
            BY <2>3 DEF ShortPieces
        <3>2. p[i][1] \in Nat /\ p[i][2] \in Nat
            <4>1. p[i] \in PiecesOf(n)
                BY <2>3 DEF ShortPieces
            <4> QED BY <1>1, <4>1, PieceTypes
        <3> DEFINE e == IF Len(p) > 1 /\ "chat" = "chat" THEN PrefixLength ELSE 0
        <3>3. e \in Nat /\ Limit \in Nat /\ MaxLength \in Nat /\ Limit + e <= MaxLength
            BY OutLimits
        <3> HIDE DEF e
        <3>4. p[i][2] + 1 - p[i][1] + e <= MaxLength
            <4> DEFINE u == p[i][1]
                       v == p[i][2]
            <4>1. u \in Nat /\ v \in Nat /\ v + 1 - u <= Limit
                BY <3>1, <3>2
            <4> HIDE DEF u, v
            <4>2. v + 1 - u + e <= MaxLength
                BY <3>3, <4>1, FitsWithPrefix
            <4> QED BY <4>2 DEF u, v
        <3> QED BY <3>4 DEF e
    <2>5. "chat" \notin Out!Zulip
        BY DEF Out!Zulip
    <2>6. PiecesFit(p, "chat")
        BY <2>4 DEF PiecesFit
    <2>7. WellCut(p, "chat", t)
        BY <2>3, <2>5, <2>6, Zenon DEF WellCut, ShortPieces
    <2> QED BY <2>7 DEF p
<1> QED BY <1>2, <1>3

LEMMA ZulipPieces ==
    ASSUME NEW t \in Texts, NEW a \in Out!Zulip
    PROVE  WellCut(Out!ZulipChunks(t), a, t)
<1> DEFINE p == Out!ZulipChunks(t)
           n == Len(t)
<1>1. t \in Seq(Out!Chars) /\ n \in Nat
    BY OutLimits
<1>2. ShortPieces(p, n, ZulipLimit) /\ Follows(p, 1, n)
    BY <1>1, OutLimits, ChunksWell
<1>3. a # "chat"
    BY DEF Out!Zulip
<1> HIDE DEF p
<1>4. ASSUME NEW i \in 1..Len(p)
      PROVE  p[i][2] + 1 - p[i][1] + (IF Len(p) > 1 /\ a = "chat" THEN PrefixLength ELSE 0)
               <= IF a = "chat" THEN MaxLength ELSE ZulipLimit
    <2>1. p[i][2] + 1 - p[i][1] <= ZulipLimit
        BY <1>2 DEF ShortPieces
    <2>2. p[i][1] \in Nat /\ p[i][2] \in Nat
        <3>1. p[i] \in PiecesOf(n)
            BY <1>2 DEF ShortPieces
        <3> QED BY <1>1, <3>1, PieceTypes
    <2>3. ZulipLimit \in Nat /\ ZulipLimit + 0 <= ZulipLimit /\ 0 \in Nat
        BY OutLimits
    <2>4. p[i][2] + 1 - p[i][1] + 0 <= ZulipLimit
        <3> DEFINE u == p[i][1]
                   v == p[i][2]
        <3>1. u \in Nat /\ v \in Nat /\ v + 1 - u <= ZulipLimit
            BY <2>1, <2>2
        <3> HIDE DEF u, v
        <3>2. v + 1 - u + 0 <= ZulipLimit
            BY <2>3, <3>1, FitsWithPrefix
        <3> QED BY <3>2 DEF u, v
    <2> QED BY <1>3, <2>4
<1>5. p # <<>>
    BY <1>2 DEF Follows
<1>6. PiecesFit(p, a)
    BY <1>4 DEF PiecesFit
<1>7. WellCut(p, a, t)
    BY <1>2, <1>5, <1>6, Zenon DEF WellCut, ShortPieces
<1> QED BY <1>7 DEF p

\* The invariant says what the properties say.
LEMMA OutInvSuffices == OutInv => TextIsWhole /\ ResultsAreTrue
<1> SUFFICES ASSUME OutInv PROVE TextIsWhole /\ ResultsAreTrue
    OBVIOUS
<1>1. Out!TypeOK
    BY DEF OutInv, MessageInv, SendTypes, TypingTypes, LastIsTrue, Requests, PiecesOf, Out!TypeOK
<1>2. ASSUME pieces # <<>>, (\A i \in DOMAIN text : text[i] # "wide") \/ to \in Out!Zulip
      PROVE  Out!Tiles(pieces, Len(text))
    <2>1. Follows(pieces, 1, Len(text))
        BY <1>2 DEF OutInv, MessageInv, Sending, WellCut
    <2> QED BY <2>1 DEF Follows, Out!Tiles
<1>3. Out!NarrowTextIsWhole /\ Out!ZulipTextIsWhole
    BY <1>2 DEF Out!NarrowTextIsWhole, Out!ZulipTextIsWhole
<1>4. Out!PiecesFit
    <2>1. ASSUME outPc = "pieces", to = "chat" PROVE Out!MessageLength(sent + 1) <= MaxLength
        <3>1. WellCut(pieces, to, text) /\ sent + 1 \in 1..Len(pieces)
            <4>1. sent \in 0..Len(pieces) /\ sent < Len(pieces) /\ Len(pieces) \in Nat /\ pieces # <<>>
                BY <2>1 DEF OutInv, MessageInv, SendTypes, Sending
            <4> QED BY <4>1 DEF OutInv, MessageInv, Sending
        <3> QED BY <2>1, <3>1 DEF WellCut, PiecesFit, Out!MessageLength
    <2>2. longest <= IF to = "chat" THEN MaxLength ELSE ZulipLimit
        BY DEF OutInv, MessageInv, Sending
    <2> QED BY <2>1, <2>2 DEF Out!PiecesFit
<1> QED BY <1>1, <1>3, <1>4 DEF TextIsWhole, ResultsAreTrue, Out!TextIsWhole, Out!ResultsAreTrue,
                                OutInv, MessageInv, LastIsTrue

LEMMA OutStarts == Out!Init => OutInv
<1> SUFFICES ASSUME Out!Init PROVE OutInv
    OBVIOUS
<1>1. MessageInv
    BY OutLimits DEF Out!Init, MessageInv, SendTypes, Sending, Out!ShownOnceInOrder,
                     Out!OkShowsEverything, Out!Places, Out!Formats
<1>2. TypingTypes
    BY DEF Out!Init, TypingTypes
<1>3. LastIsTrue
    BY DEF Out!Init, LastIsTrue, Requests, Out!NoRequest, Out!NoAnswer, Out!Answers,
           Out!SuccessIsReal, Out!ExpiredQueueIsRecognised
<1> QED BY <1>1, <1>2, <1>3 DEF OutInv

\* A request leaves a true record, and success and broken markup tell whether
\* it was carried out.
LEMMA Requested ==
    ASSUME NEW c \in Out!Calls, NEW done \in BOOLEAN,
           NEW o \in {"none", "ok", "empty", "parse", "expired", "error"}, Out!Request(c, done, o)
    PROVE  /\ LastIsTrue'
           /\ o = "ok" /\ c # "deleteWebhook" => done
           /\ o = "parse" => ~done
<1>1. PICK a \in Out!Answers :
        /\ Out!Honest(a, done) /\ o \in Out!Outcomes(c, a)
        /\ last' = [call |-> c, answer |-> a, done |-> done, outcome |-> o]
    BY Zenon DEF Out!Request
<1>2. /\ o \in {"ok", "empty", "none"} /\ c # "deleteWebhook" => done
      /\ c = "events" => (o = "expired") = (a.says = "BAD_EVENT_QUEUE_ID")
      /\ o = "parse" => ~done
    BY <1>1, Truthful
<1>3. /\ last' \in Requests
      /\ last'.call = c /\ last'.answer = a /\ last'.done = done /\ last'.outcome = o
    BY <1>1 DEF Requests
<1> QED BY <1>2, <1>3 DEF LastIsTrue, Out!SuccessIsReal, Out!ExpiredQueueIsRecognised

LEMMA Unrequested ==
    ASSUME last' = Out!NoRequest
    PROVE  LastIsTrue'
<1>1. /\ last'.call = "none" /\ last'.outcome = "none"
      /\ last' \in Requests
    BY DEF Requests, Out!NoRequest, Out!NoAnswer, Out!Answers
<1> QED BY <1>1 DEF LastIsTrue, Out!SuccessIsReal, Out!ExpiredQueueIsRecognised

\* Steps that send nothing of the message.
LEMMA MessageRests ==
    ASSUME MessageInv, UNCHANGED Out!sending
    PROVE  MessageInv'
    BY DEF MessageInv, SendTypes, Sending, Out!ShownOnceInOrder, Out!OkShowsEverything,
           Out!sending, Out!message

LEMMA Typing ==
    ASSUME OutInv, \/ Out!OtherRequest \/ Out!StartTyping \/ Out!Refresh
                   \/ Out!DropIndicator \/ Out!Arrives \/ Out!LampExpires
    PROVE  OutInv'
<1>1. CASE Out!OtherRequest
    <2>1. UNCHANGED <<Out!sending, Out!typing>>
        BY <1>1 DEF Out!OtherRequest
    <2>2. LastIsTrue'
        <3>1. PICK c \in Out!Calls, done \in BOOLEAN,
                   o \in {"ok", "empty", "expired", "none", "error"} : Out!Request(c, done, o)
            BY <1>1, Zenon DEF Out!OtherRequest
        <3>2. o \in {"none", "ok", "empty", "parse", "expired", "error"}
            OBVIOUS
        <3> QED BY <3>1, <3>2, Requested
    <2>3. TypingTypes'
        BY <2>1 DEF Out!typing, OutInv, TypingTypes
    <2> QED BY <2>1, <2>2, <2>3, MessageRests DEF OutInv
<1>2. CASE Out!StartTyping
    <2>1. /\ outPc = "idle" /\ to' \in {"chat", "people"} /\ task' = "running"
          /\ UNCHANGED <<outPc, text, format, pieces, sent, shown, longest, result, wire, lamp>>
          /\ last' = Out!NoRequest
        BY <1>2 DEF Out!StartTyping
    <2>2. MessageInv'
        BY <2>1, OutLimits DEF OutInv, MessageInv, SendTypes, Sending, Out!ShownOnceInOrder,
                               Out!OkShowsEverything, Out!Places
    <2>3. TypingTypes'
        BY <2>1 DEF OutInv, TypingTypes
    <2> QED BY <2>1, <2>2, <2>3, Unrequested DEF OutInv
<1>3. CASE Out!Refresh \/ Out!DropIndicator \/ Out!LampExpires
    <2>1. UNCHANGED Out!sending /\ last' = Out!NoRequest
        BY <1>3 DEF Out!Refresh, Out!DropIndicator, Out!LampExpires
    <2>2. TypingTypes'
        BY <1>3 DEF Out!Refresh, Out!DropIndicator, Out!LampExpires, OutInv, TypingTypes
    <2> QED BY <2>1, <2>2, MessageRests, Unrequested DEF OutInv
<1>4. CASE Out!Arrives
    <2> DEFINE call == IF to = "people" THEN "typing" ELSE "sendChatAction"
    <2>1. PICK w \in wire, done \in BOOLEAN, o \in {"ok", "error"} :
            /\ Out!Request(call, done, o)
            /\ wire' = wire \ {w}
            /\ lamp' = IF done THEN w = "start" ELSE lamp
            /\ UNCHANGED <<Out!sending, task>>
        BY <1>4, Zenon DEF Out!Arrives
    <2>2. LastIsTrue'
        <3>1. call \in Out!Calls /\ o \in {"none", "ok", "empty", "parse", "expired", "error"}
            BY DEF Out!Calls
        <3> HIDE DEF call
        <3> QED BY <2>1, <3>1, Requested
    <2>3. TypingTypes'
        <3>1. (w = "start") \in BOOLEAN
            OBVIOUS
        <3>2. lamp' \in BOOLEAN
            BY <2>1, <3>1 DEF OutInv, TypingTypes
        <3> QED BY <2>1, <3>2 DEF OutInv, TypingTypes
    <2> QED BY <2>1, <2>2, <2>3, MessageRests DEF OutInv
<1> QED BY <1>1, <1>2, <1>3, <1>4

\* The pieces of a message are fixed before the first is sent.
LEMMA StartsPieces ==
    ASSUME NEW p, NEW t \in Texts, NEW a \in Out!Places, WellCut(p, a, t),
           result = "none", sent = 0, shown = <<>>, longest = 0,
           Out!StartPieces(t, p), to' = a, text' = t, format' \in Out!Formats,
           UNCHANGED <<sent, shown, longest>>
    PROVE  MessageInv'
<1>1. /\ pieces' = p /\ sent' = 0 /\ shown' = <<>> /\ longest' = 0
      /\ \/ outPc' = "done" /\ result' = "panic"
         \/ outPc' = "pieces" /\ result' = "none"
    BY DEF Out!StartPieces, Out!Finish
<1>2. p # <<>> /\ p \in Seq(PiecesOf(Len(t))) /\ Len(p) \in Nat /\ Len(p) > 0
    BY DEF WellCut
<1>3. SubSeq(p, 1, 0) = <<>>
    BY <1>2
<1>4. SendTypes'
    BY <1>1, <1>2 DEF SendTypes
<1>5. Sending'
    BY <1>1, <1>2, <1>3, OutLimits DEF Sending
<1>6. Out!ShownOnceInOrder' /\ Out!OkShowsEverything'
    BY <1>1 DEF Out!ShownOnceInOrder, Out!OkShowsEverything
<1> QED BY <1>4, <1>5, <1>6 DEF MessageInv

LEMMA SendsMessage ==
    ASSUME OutInv, Out!Send
    PROVE  OutInv'
<1>1. PICK a \in Out!Places, t \in Texts, f \in Out!Formats, fits \in BOOLEAN :
        /\ to' = a /\ text' = t /\ format' = f
        /\ f # "Markdown" => fits = (f = "MarkdownRaw" /\ Len(t) <= MaxLength)
        /\ \/ a \in {"unknown", "not_a_number"} /\ Out!Finish("error") /\ UNCHANGED pieces
           \/ a \in Out!Zulip /\ Out!StartPieces(t, Out!ZulipChunks(t))
           \/ a = "chat" /\ fits /\ outPc' = "formatted" /\ UNCHANGED <<pieces, result>>
           \/ a = "chat" /\ ~fits /\ Out!StartPieces(t, Out!SplitMessage(t))
    BY Zenon DEF Out!Send
<1>2. outPc = "idle" /\ UNCHANGED <<sent, shown, longest, Out!typing>> /\ last' = Out!NoRequest
    BY DEF Out!Send
<1>3. /\ pieces = <<>> /\ sent = 0 /\ shown = <<>> /\ longest = 0 /\ result = "none"
      /\ sent' = 0 /\ shown' = <<>> /\ longest' = 0
    BY <1>2 DEF OutInv, MessageInv, Sending
<1>4. MessageInv'
    <2>1. CASE a \in {"unknown", "not_a_number"} /\ Out!Finish("error") /\ UNCHANGED pieces
        BY <1>1, <1>3, <2>1, OutLimits DEF Out!Finish, MessageInv, SendTypes, Sending,
            Out!ShownOnceInOrder, Out!OkShowsEverything
    <2>2. CASE a \in Out!Zulip /\ Out!StartPieces(t, Out!ZulipChunks(t))
        BY <1>1, <1>2, <1>3, <2>2, ZulipPieces, StartsPieces
    <2>3. CASE a = "chat" /\ fits /\ outPc' = "formatted" /\ UNCHANGED <<pieces, result>>
        BY <1>1, <1>3, <2>3, OutLimits DEF MessageInv, SendTypes, Sending,
            Out!ShownOnceInOrder, Out!OkShowsEverything
    <2>4. CASE a = "chat" /\ ~fits /\ Out!StartPieces(t, Out!SplitMessage(t))
        BY <1>1, <1>2, <1>3, <2>4, ChatPieces, StartsPieces
    <2> QED BY <1>1, <2>1, <2>2, <2>3, <2>4
<1>5. TypingTypes'
    BY <1>2 DEF Out!typing, OutInv, TypingTypes
<1> QED BY <1>2, <1>4, <1>5, Unrequested DEF OutInv

LEMMA SendsFormatted ==
    ASSUME OutInv, Out!SendFormatted
    PROVE  OutInv'
<1>1. PICK done \in BOOLEAN, o \in {"ok", "parse", "error"} :
        /\ Out!Request("sendMessage", done, o)
        /\ shown' = IF done THEN Append(shown, Out!Formatted) ELSE shown
        /\ IF o = "parse"
             THEN Out!StartPieces(text, Out!SplitMessage(text))
             ELSE Out!Finish(o) /\ UNCHANGED pieces
    BY Zenon DEF Out!SendFormatted
<1>2. outPc = "formatted" /\ UNCHANGED <<to, text, format, sent, longest, Out!typing>>
    BY DEF Out!SendFormatted, Out!message
<1>3. /\ pieces = <<>> /\ sent = 0 /\ shown = <<>> /\ longest = 0 /\ result = "none"
      /\ to = "chat" /\ text \in Texts /\ to \in Out!Places /\ format \in Out!Formats
    BY <1>2 DEF OutInv, MessageInv, Sending, SendTypes
<1>4. LastIsTrue' /\ (o = "ok" => done) /\ (o = "parse" => ~done)
    <2>1. "sendMessage" \in Out!Calls /\ o \in {"none", "ok", "empty", "parse", "expired", "error"}
        BY DEF Out!Calls
    <2> QED BY <1>1, <2>1, Requested
<1>5. MessageInv'
    <2>1. CASE o = "parse"
        <3>1. UNCHANGED shown
            BY <1>1, <1>4, <2>1
        <3>2. WellCut(Out!SplitMessage(text), to, text)
            BY <1>3, ChatPieces
        <3>3. Out!StartPieces(text, Out!SplitMessage(text))
            BY <1>1, <2>1
        <3> QED BY <1>2, <1>3, <3>1, <3>2, <3>3, StartsPieces
    <2>2. CASE o # "parse"
        <3>1. /\ outPc' = "done" /\ result' = o /\ pieces' = <<>> /\ sent' = 0 /\ longest' = 0
              /\ to' = to /\ text' = text /\ format' = format
              /\ shown' = <<>> \/ shown' = <<Out!Formatted>>
              /\ o = "ok" => shown' = <<Out!Formatted>>
            BY <1>1, <1>2, <1>3, <1>4, <2>2 DEF Out!Finish
        <3>2. shown' \in Seq(Nat \X Nat)
            <4>1. <<>> \in Seq(Nat \X Nat) /\ <<Out!Formatted>> \in Seq(Nat \X Nat)
                BY DEF Out!Formatted
            <4> QED BY <3>1, <4>1
        <3>3. SendTypes'
            BY <1>3, <2>2, <3>1, <3>2 DEF SendTypes
        <3>4. Sending'
            BY <1>3, <3>1, OutLimits DEF Sending
        <3>5. Out!ShownOnceInOrder' /\ Out!OkShowsEverything'
            BY <3>1 DEF Out!ShownOnceInOrder, Out!OkShowsEverything
        <3> QED BY <3>3, <3>4, <3>5 DEF MessageInv
    <2> QED BY <2>1, <2>2
<1>6. TypingTypes'
    BY <1>2 DEF Out!typing, OutInv, TypingTypes
<1> QED BY <1>4, <1>5, <1>6 DEF OutInv

\* The first pieces of a message.
LEMMA FirstPieces ==
    ASSUME NEW S, NEW p \in Seq(S), NEW k \in 0..Len(p)
    PROVE  /\ SubSeq(p, 1, k) \in Seq(S) /\ Len(SubSeq(p, 1, k)) = k
           /\ k < Len(p) => Append(SubSeq(p, 1, k), p[k + 1]) = SubSeq(p, 1, k + 1)
           /\ SubSeq(p, 1, Len(p)) = p
<1>1. SubSeq(p, 1, k) \in Seq(S) /\ Len(SubSeq(p, 1, k)) = k
    OBVIOUS
<1>2. ASSUME k < Len(p) PROVE Append(SubSeq(p, 1, k), p[k + 1]) = SubSeq(p, 1, k + 1)
    <2> DEFINE u == Append(SubSeq(p, 1, k), p[k + 1])
               v == SubSeq(p, 1, k + 1)
    <2>1. p[k + 1] \in S
        BY <1>2
    <2>2. u \in Seq(S) /\ Len(u) = k + 1 /\ \A i \in 1..k + 1 : u[i] = p[i]
        BY <1>1, <2>1
    <2>3. v \in Seq(S) /\ Len(v) = k + 1 /\ \A i \in 1..k + 1 : v[i] = p[i]
        BY <1>2
    <2> HIDE DEF u, v
    <2> QED BY <2>2, <2>3, SeqEqual DEF u, v
<1>3. SubSeq(p, 1, Len(p)) = p
    OBVIOUS
<1> QED BY <1>1, <1>2, <1>3

LEMMA RefusesPiece ==
    ASSUME OutInv, Out!TooLong
    PROVE  OutInv'
<1>1. /\ outPc' = "done" /\ result' = "error" /\ last' = Out!NoRequest
      /\ to' = to /\ text' = text /\ format' = format /\ pieces' = pieces /\ sent' = sent
      /\ shown' = shown /\ longest' = longest
      /\ task' = task /\ wire' = wire /\ lamp' = lamp
    BY DEF Out!TooLong, Out!Finish, Out!message, Out!typing
<1>2. SendTypes'
    BY <1>1 DEF OutInv, MessageInv, SendTypes
<1>3. Sending'
    BY <1>1 DEF OutInv, MessageInv, Sending
<1>4. Out!ShownOnceInOrder' /\ Out!OkShowsEverything'
    BY <1>1 DEF OutInv, MessageInv, Out!ShownOnceInOrder, Out!OkShowsEverything
<1>5. TypingTypes'
    BY <1>1 DEF OutInv, TypingTypes
<1> QED BY <1>1, <1>2, <1>3, <1>4, <1>5, Unrequested DEF OutInv, MessageInv

LEMMA SendsPiece ==
    ASSUME OutInv, Out!SendPiece
    PROVE  OutInv'
<1> DEFINE call == IF to = "chat" THEN "sendMessage" ELSE "messages"
           piece == pieces[sent + 1]
           limit == IF to = "chat" THEN MaxLength ELSE ZulipLimit
<1>1. PICK done \in BOOLEAN, o \in {"ok", "parse", "error"} :
        /\ Out!Request(call, done, o)
        /\ shown' = IF done THEN Append(shown, piece) ELSE shown
        /\ IF o = "ok"
             THEN /\ sent' = sent + 1
                  /\ IF sent + 1 = Len(pieces) THEN Out!Finish("ok") ELSE UNCHANGED <<outPc, result>>
             ELSE Out!Finish("error") /\ UNCHANGED sent
    BY Zenon DEF Out!SendPiece
<1>2. /\ outPc = "pieces" /\ Out!Longer(Out!MessageLength(sent + 1))
      /\ to' = to /\ text' = text /\ format' = format /\ pieces' = pieces
      /\ task' = task /\ wire' = wire /\ lamp' = lamp
    BY DEF Out!SendPiece, Out!message, Out!typing
<1>3. LastIsTrue' /\ (o = "ok" => done)
    <2>1. call \in Out!Calls /\ o \in {"none", "ok", "empty", "parse", "expired", "error"}
          /\ call # "deleteWebhook"
        BY DEF Out!Calls
    <2>2. Out!Request(call, done, o)
        BY <1>1
    <2> HIDE DEF call
    <2> QED BY <2>1, <2>2, Requested
<1>4. /\ pieces # <<>> /\ sent \in Nat /\ sent < Len(pieces) /\ Len(pieces) \in Nat
      /\ shown = SubSeq(pieces, 1, sent) /\ result = "none"
      /\ pieces \in Seq(PiecesOf(Len(text))) /\ Len(text) \in Nat /\ longest \in Nat
      /\ longest <= limit /\ limit \in Nat /\ WellCut(pieces, to, text)
    <2>1. text = <<>> \/ text \in Texts
        BY DEF OutInv, MessageInv, SendTypes
    <2>2. text \in Seq(Out!Chars)
        <3>1. <<>> \in Seq(Out!Chars)
            OBVIOUS
        <3>2. Texts \subseteq Seq(Out!Chars)
            BY OutLimits
        <3> QED BY <2>1, <3>1, <3>2, Zenon
    <2> QED BY <1>2, <2>2, OutLimits DEF OutInv, MessageInv, SendTypes, Sending
<1>5. /\ SubSeq(pieces, 1, sent) \in Seq(PiecesOf(Len(text))) /\ Len(SubSeq(pieces, 1, sent)) = sent
      /\ Append(SubSeq(pieces, 1, sent), piece) = SubSeq(pieces, 1, sent + 1)
      /\ SubSeq(pieces, 1, sent + 1) \in Seq(PiecesOf(Len(text)))
      /\ Len(SubSeq(pieces, 1, sent + 1)) = sent + 1
      /\ SubSeq(pieces, 1, Len(pieces)) = pieces
    <2>1. sent \in 0..Len(pieces) /\ sent + 1 \in 0..Len(pieces) /\ pieces \in Seq(PiecesOf(Len(text)))
        BY <1>4
    <2>2. /\ SubSeq(pieces, 1, sent) \in Seq(PiecesOf(Len(text))) /\ Len(SubSeq(pieces, 1, sent)) = sent
          /\ sent < Len(pieces) => Append(SubSeq(pieces, 1, sent), pieces[sent + 1]) = SubSeq(pieces, 1, sent + 1)
          /\ SubSeq(pieces, 1, Len(pieces)) = pieces
        BY <2>1, FirstPieces, Zenon
    <2> DEFINE k == sent + 1
    <2>3. k \in 0..Len(pieces)
        BY <2>1
    <2> HIDE DEF k
    <2>4. SubSeq(pieces, 1, k) \in Seq(PiecesOf(Len(text))) /\ Len(SubSeq(pieces, 1, k)) = k
        BY <2>1, <2>3, FirstPieces, Zenon
    <2> QED BY <1>4, <2>2, <2>4 DEF k
<1> HIDE DEF piece
<1>6. /\ \/ shown' = SubSeq(pieces, 1, sent) \/ shown' = SubSeq(pieces, 1, sent + 1)
      /\ o = "ok" => shown' = SubSeq(pieces, 1, sent + 1)
    BY <1>1, <1>3, <1>4, <1>5
<1>7. longest' \in Nat /\ longest' <= limit
    <2> DEFINE n == Out!MessageLength(sent + 1)
    <2>1. sent + 1 \in 1..Len(pieces) /\ pieces[sent + 1] \in PiecesOf(Len(text))
        BY <1>4
    <2>2. pieces[sent + 1][1] \in Nat /\ pieces[sent + 1][2] \in Nat
        BY <1>4, <2>1, PieceTypes
    <2>3. n \in Int /\ n <= limit
        <3>1. n = pieces[sent + 1][2] + 1 - pieces[sent + 1][1]
                    + (IF Len(pieces) > 1 /\ to = "chat" THEN PrefixLength ELSE 0)
            BY DEF Out!MessageLength
        <3>2. n <= limit
            BY <1>4, <2>1, <3>1 DEF WellCut, PiecesFit
        <3> DEFINE e == IF Len(pieces) > 1 /\ to = "chat" THEN PrefixLength ELSE 0
        <3>3. e \in Nat
            BY OutLimits
        <3> HIDE DEF e, n
        <3>4. n = pieces[sent + 1][2] + 1 - pieces[sent + 1][1] + e
            BY <3>1 DEF e
        <3> QED BY <2>2, <3>2, <3>3, <3>4
    <2>4. longest' = IF n > longest THEN n ELSE longest
        BY <1>2 DEF Out!Longer
    <2> HIDE DEF n, limit
    <2> QED BY <1>4, <2>3, <2>4
<1>8. /\ Out!ShownOnceInOrder'
      /\ shown' \in Seq(Nat \X Nat)
    <2>1. Len(shown') <= Len(pieces) /\ shown' = SubSeq(pieces, 1, Len(shown'))
          /\ shown' \in Seq(PiecesOf(Len(text)))
        BY <1>4, <1>5, <1>6
    <2>2. PiecesOf(Len(text)) \subseteq Nat \X Nat
        BY <1>4 DEF PiecesOf, Out!Panic
    <2>3. shown' \in Seq(Nat \X Nat)
        BY <2>1, <2>2
    <2> QED BY <1>2, <2>1, <2>3 DEF Out!ShownOnceInOrder
<1>9. /\ o = "ok" /\ sent + 1 = Len(pieces) =>
           outPc' = "done" /\ result' = "ok" /\ sent' = sent + 1
      /\ o = "ok" /\ sent + 1 # Len(pieces) =>
           outPc' = "pieces" /\ result' = "none" /\ sent' = sent + 1
      /\ o # "ok" => outPc' = "done" /\ result' = "error" /\ sent' = sent
    BY <1>1, <1>2, <1>4 DEF Out!Finish
<1>10. SendTypes'
    <2>1. sent' \in 0..Len(pieces)
        BY <1>4, <1>9
    <2> QED BY <1>2, <1>7, <1>8, <1>9, <2>1 DEF OutInv, MessageInv, SendTypes
<1>11. Sending'
    <2>1. WellCut(pieces', to', text')
        BY <1>2, <1>4
    <2>2. longest' <= IF to' = "chat" THEN MaxLength ELSE ZulipLimit
        BY <1>2, <1>7
    <2>3. outPc' \in {"pieces", "done"}
        BY <1>9
    <2>4. outPc' = "pieces" =>
            pieces' # <<>> /\ sent' < Len(pieces') /\ shown' = SubSeq(pieces', 1, sent') /\ result' = "none"
        BY <1>2, <1>4, <1>6, <1>9
    <2> QED BY <2>1, <2>2, <2>3, <2>4 DEF Sending
<1>12. Out!OkShowsEverything'
    <2>1. result' = "ok" => shown' = pieces' /\ pieces' # <<>>
        BY <1>2, <1>4, <1>5, <1>6, <1>9
    <2> QED BY <2>1 DEF Out!OkShowsEverything
<1>13. TypingTypes'
    BY <1>2 DEF OutInv, TypingTypes
<1> QED BY <1>3, <1>8, <1>10, <1>11, <1>12, <1>13 DEF OutInv, MessageInv

LEMMA OutStep ==
    ASSUME OutInv, [Out!Next]_(Out!vars)
    PROVE  OutInv'
<1>1. CASE UNCHANGED Out!vars
    <2>1. UNCHANGED Out!sending /\ task' = task /\ wire' = wire /\ lamp' = lamp /\ last' = last
        BY <1>1 DEF Out!vars, Out!typing
    <2>2. TypingTypes' /\ LastIsTrue'
        BY <2>1 DEF OutInv, TypingTypes, LastIsTrue, Out!SuccessIsReal, Out!ExpiredQueueIsRecognised
    <2> QED BY <2>1, <2>2, MessageRests DEF OutInv
<1>2. CASE Out!Next
    BY <1>2, Typing, SendsMessage, SendsFormatted, RefusesPiece, SendsPiece DEF Out!Next
<1> QED BY <1>1, <1>2

LEMMA OutInvariance == ChannelsSpec => []OutInv
<1>1. ChannelsInit => OutInv
    BY OutStarts DEF ChannelsInit
<1>2. OutInv /\ [ChannelsNext]_channelsVars => OutInv'
    BY PartSteps, OutStep
<1> QED BY <1>1, <1>2, PTL DEF ChannelsSpec

\* An answer's pieces fit, come once and in order and, unless a wide character
\* meets split_long_message, lose nothing.
THEOREM TextStaysWhole == ChannelsSpec => []TextIsWhole
    BY OutInvariance, OutInvSuffices, PTL

\* A call that returns success was carried out and has shown everything.
THEOREM ResultsStayTrue == ChannelsSpec => []ResultsAreTrue
    BY OutInvariance, OutInvSuffices, PTL

-----------------------------------------------------------------------------
(* The way in *)

Working == inPc \in {"next", "getFile", "stream", "examine"}
Invited == allowed /\ In!Addressed(kind, sender, mentioned)

MessageTypes ==
    /\ channel \in {"telegram", "zulip"}
    /\ kind \in {"chat", "edited", "stream", "direct", "group"}
    /\ sender \in People \cup {Bot} /\ people \subseteq People \cup {Bot}
    /\ mentioned \in BOOLEAN /\ allowed \in BOOLEAN /\ words \in BOOLEAN
    /\ files \in Seq(In!Files) /\ Len(files) <= MaxFiles

PartRecords == [file : 1..MaxFiles, what : In!Whats, of : In!Contents \cup {"none"}, size : In!Lengths]
InfoRecords == [file : 1..MaxFiles, downloaded : BOOLEAN]
ResultTypes ==
    /\ inPc \in {"idle", "next", "getFile", "stream", "examine", "done"}
    /\ at \in 1..MaxFiles + 1 /\ collected \in 0..MaxBytes
    /\ fetched \subseteq 1..MaxFiles /\ links \subseteq 1..MaxFiles
    /\ prompt \subseteq {"words", "warning", "default", "reference"}
    /\ inParts \in Seq(PartRecords) /\ infos \in Seq(InfoRecords)
    /\ address \subseteq People \cup {Bot}
    /\ outcome \in {"none", "ignored", "denied", "handled"}

\* Work goes on only for a message that was let in, on one of its files.
InStages ==
    /\ inPc = "idle" =>
         at = 1 /\ collected = 0 /\ fetched = {} /\ inParts = <<>> /\ infos = <<>> /\ outcome = "none"
    /\ Working => Invited /\ outcome = "none" /\ at <= Len(files) + 1
    /\ inPc \in {"getFile", "stream", "examine"} => at <= Len(files)
    /\ fetched # {} => Invited

\* A part is within the limit and what it claims to be.
GoodPart(p) ==
    /\ p.size <= MaxBytes
    /\ p.what = "pdf" => p.of = "pdf"
    /\ p.what = "jpeg" => In!Decodable(p.of)
    /\ p.what = "image" => p.of \in {"image", "webp"} \/ (channel = "zulip" /\ p.of = "riff")
PartsAreSound == \A i \in 1..Len(inParts) : GoodPart(inParts[i])

\* The files before the one in work are listed and their links replaced.
Listing ==
    Working =>
        /\ Len(infos) = at - 1 /\ \A i \in 1..at - 1 : infos[i].file = i
        /\ links \subseteq at..Len(files) /\ (inPc # "next" => at \notin links)
        /\ channel = "telegram" => links = {}

\* What became of each of them is told.
Tells(i) ==
    \/ \E j \in 1..Len(inParts) : inParts[j].file = i
    \/ channel = "telegram" /\ "warning" \in prompt
    \/ channel = "zulip" /\ ~infos[i].downloaded /\ "reference" \in prompt
Telling == Working => \A i \in 1..at - 1 : Tells(i)

\* The words are in Zulip's prompt from the start, in Telegram's with a warning.
Prompting ==
    Working =>
        /\ channel = "zulip" => /\ words => "words" \in prompt
                                /\ at > 1 \/ inPc # "next" => "reference" \in prompt
        /\ channel = "telegram" /\ "warning" \in prompt /\ words => "words" \in prompt

Addressing ==
    Working => /\ address = In!AddressOf(kind, sender, people)
               /\ kind \in {"direct", "group"} => sender \in people

InInv ==
    /\ MessageTypes /\ ResultTypes /\ InStages /\ PartsAreSound
    /\ Listing /\ Telling /\ Prompting /\ Addressing /\ In!NothingIsLost

LEMMA InLimits ==
    Bot \notin People /\ MaxBytes \in Nat \ {0} /\ MaxFiles \in Nat \ {0}
    BY ChannelsAssumption DEF In!InboundAssumption

LEMMA InInvSuffices == InInv => ForwardedIsSound /\ NothingIsLost
<1> SUFFICES ASSUME InInv PROVE ForwardedIsSound /\ NothingIsLost
    OBVIOUS
<1>1. In!TypeOK
    BY DEF InInv, MessageTypes, ResultTypes, PartRecords, InfoRecords, In!TypeOK
<1>2. In!StrangersFetchNothing
    BY DEF InInv, InStages, Invited, In!StrangersFetchNothing
<1>3. inParts \in Seq(PartRecords)
    BY DEF InInv, ResultTypes
<1>4. DOMAIN inParts = 1..Len(inParts)
    BY <1>3
<1>5. In!NothingTooLargeIsForwarded /\ In!BinariesAreVerified
    BY <1>4 DEF InInv, PartsAreSound, GoodPart, In!NothingTooLargeIsForwarded, In!BinariesAreVerified
<1> QED BY <1>1, <1>2, <1>5 DEF InInv, ForwardedIsSound, NothingIsLost, In!ForwardedIsSound

LEMMA InStarts == In!Init => InInv
<1> SUFFICES ASSUME In!Init PROVE InInv
    OBVIOUS
<1>1. /\ inPc = "idle" /\ channel = "telegram" /\ kind = "chat" /\ sender = Bot /\ people = {}
      /\ mentioned = FALSE /\ allowed = FALSE /\ words = FALSE /\ files = <<>>
      /\ at = 1 /\ collected = 0 /\ fetched = {} /\ links = {} /\ prompt = {}
      /\ inParts = <<>> /\ infos = <<>> /\ address = {} /\ outcome = "none"
    BY DEF In!Init
<1>2. <<>> \in Seq(In!Files) /\ <<>> \in Seq(PartRecords) /\ <<>> \in Seq(InfoRecords) /\ Len(<<>>) = 0
    OBVIOUS
<1>3. MessageTypes
    <2>1. mentioned \in BOOLEAN /\ allowed \in BOOLEAN /\ words \in BOOLEAN
        BY <1>1
    <2>2. files \in Seq(In!Files) /\ Len(files) <= MaxFiles
        BY <1>1, <1>2, InLimits
    <2>3. /\ channel \in {"telegram", "zulip"}
          /\ kind \in {"chat", "edited", "stream", "direct", "group"}
          /\ sender \in People \cup {Bot} /\ people \subseteq People \cup {Bot}
        BY <1>1
    <2> QED BY <2>1, <2>2, <2>3 DEF MessageTypes
<1>4. ResultTypes
    BY <1>1, <1>2, InLimits DEF ResultTypes
<1>5. InStages /\ ~Working /\ PartsAreSound
    BY <1>1 DEF InStages, Working, PartsAreSound
<1>6. In!NothingIsLost
    BY <1>1 DEF In!NothingIsLost, In!EveryFileIsListed, In!FailuresAreTold, In!WordsSurvive,
                In!AnswersReachTheConversation
<1> QED BY <1>3, <1>4, <1>5, <1>6 DEF InInv, Listing, Telling, Prompting, Addressing

\* A message that is let in is worked on from its first file.
LEMMA Admits ==
    ASSUME InInv, inPc = "idle", In!Admit, MessageTypes',
           links' \subseteq 1..Len(files'), channel' = "telegram" => links' = {},
           prompt' \subseteq {"words"}, channel' = "zulip" /\ words' => "words" \in prompt',
           kind' \in {"direct", "group"} => sender' \in people'
    PROVE  InInv'
<1>1. /\ at' = 1 /\ collected' = 0 /\ fetched' = {} /\ inParts' = <<>> /\ infos' = <<>>
      /\ address' = IF In!Addressed(kind', sender', mentioned')
                      THEN In!AddressOf(kind', sender', people') ELSE {}
      /\ \/ inPc' = "done" /\ outcome' \in {"ignored", "denied"}
         \/ /\ inPc' = "next" /\ outcome' = "none" /\ allowed'
            /\ In!Addressed(kind', sender', mentioned')
    BY DEF In!Admit, InInv, InStages
<1>2. Len(files') \in Nat /\ Len(files') <= MaxFiles
    BY DEF MessageTypes
<1>3. ResultTypes'
    <2>1. links' \subseteq 1..MaxFiles
        BY <1>2, InLimits
    <2>2. In!AddressOf(kind', sender', people') \subseteq People \cup {Bot}
        BY DEF MessageTypes, In!AddressOf
    <2>3. address' \subseteq People \cup {Bot}
        BY <1>1, <2>2
    <2> QED BY <1>1, <2>1, <2>3, InLimits DEF ResultTypes
<1>4. InStages'
    BY <1>1, <1>2 DEF InStages, Working, Invited
<1>5. PartsAreSound' /\ Telling'
    BY <1>1 DEF PartsAreSound, Telling
<1>6. Listing'
    BY <1>1, <1>2 DEF Listing, Working
<1>7. Prompting'
    BY <1>1 DEF Prompting, Working
<1>8. Addressing'
    BY <1>1 DEF Addressing, Working
<1>9. In!NothingIsLost'
    BY <1>1 DEF In!NothingIsLost, In!EveryFileIsListed, In!FailuresAreTold, In!WordsSurvive,
                In!AnswersReachTheConversation
<1> QED BY <1>3, <1>4, <1>5, <1>6, <1>7, <1>8, <1>9 DEF InInv

LEMMA TelegramComes ==
    ASSUME InInv, In!TelegramMessage
    PROVE  InInv'
<1>1. /\ inPc = "idle" /\ channel' = "telegram" /\ kind' \in {"chat", "edited"}
      /\ sender' \in People /\ people' = {} /\ mentioned' = FALSE /\ allowed' \in BOOLEAN
      /\ files' \in {<<>>} \cup {<<f>> : f \in In!TelegramFiles}
      /\ links' = {} /\ prompt' = {} /\ In!Admit
    BY DEF In!TelegramMessage
<1>2. words' \in BOOLEAN
    BY DEF In!TelegramMessage
<1>3. files' \in Seq(In!Files) /\ Len(files') <= 1
    <2>1. In!TelegramFiles \subseteq In!Files
        BY DEF In!TelegramFiles
    <2>2. files' = <<>> \/ \E f \in In!Files : files' = <<f>>
        BY <1>1, <2>1
    <2>3. <<>> \in Seq(In!Files) /\ Len(<<>>) <= 1
        OBVIOUS
    <2>4. \A f \in In!Files : <<f>> \in Seq(In!Files) /\ Len(<<f>>) <= 1
        OBVIOUS
    <2> QED BY <2>2, <2>3, <2>4
<1>4. MessageTypes'
    <2>1. mentioned' \in BOOLEAN /\ allowed' \in BOOLEAN
        BY <1>1
    <2>2. Len(files') <= MaxFiles
        BY <1>3, InLimits
    <2>3. /\ channel' \in {"telegram", "zulip"}
          /\ kind' \in {"chat", "edited", "stream", "direct", "group"}
          /\ sender' \in People \cup {Bot} /\ people' \subseteq People \cup {Bot}
        BY <1>1
    <2> QED BY <1>2, <1>3, <2>1, <2>2, <2>3 DEF MessageTypes
<1>5. links' \subseteq 1..Len(files') /\ prompt' \subseteq {"words"}
    BY <1>1
<1> QED BY <1>1, <1>4, <1>5, Admits

LEMMA ZulipComes ==
    ASSUME InInv, In!ZulipMessage
    PROVE  InInv'
<1>1. /\ inPc = "idle" /\ channel' = "zulip" /\ kind' \in {"stream", "direct", "group"}
      /\ sender' \in People \cup {Bot} /\ mentioned' \in BOOLEAN /\ allowed' \in BOOLEAN
      /\ words' \in BOOLEAN /\ links' = DOMAIN files'
      /\ prompt' = (IF words' THEN {"words"} ELSE {}) /\ In!Admit
    BY DEF In!ZulipMessage
<1>2. PICK others \in SUBSET People :
        people' = IF kind' = "stream" THEN {} ELSE others \cup {sender', Bot}
    BY DEF In!ZulipMessage
<1>3. PICK n \in 0..MaxFiles, name \in [1..MaxFiles -> In!FileNames \ {"none"}] :
        files' = [i \in 1..n |-> [role |-> "link", mime |-> "none", name |-> name[i], size |-> 0]]
    BY Zenon DEF In!ZulipMessage
<1>4. files' \in Seq(In!Files) /\ Len(files') = n /\ n \in Nat /\ n <= MaxFiles /\ DOMAIN files' = 1..n
    <2>1. n \in Nat /\ n <= MaxFiles /\ 0 \in In!Lengths
        BY InLimits DEF In!Lengths
    <2>2. ASSUME NEW i \in 1..n
          PROVE  [role |-> "link", mime |-> "none", name |-> name[i], size |-> 0] \in In!Files
        <3>1. name[i] \in In!FileNames
            BY <2>1, InLimits
        <3> QED BY <2>1, <3>1 DEF In!Files, In!Mimes
    <2> QED BY <1>3, <2>1, <2>2
<1>5. MessageTypes'
    BY <1>1, <1>2, <1>4 DEF MessageTypes
<1>6. kind' \in {"direct", "group"} => sender' \in people'
    BY <1>2
<1> QED BY <1>1, <1>4, <1>5, <1>6, Admits

-----------------------------------------------------------------------------
\* The message in hand does not change while it is worked on.
Kept == UNCHANGED <<channel, kind, sender, people, mentioned, allowed, words, files, address>>

LEMMA KeepsMessage ==
    ASSUME InInv, Kept
    PROVE  MessageTypes' /\ (Invited => Invited')
           /\ In!AddressOf(kind', sender', people') = In!AddressOf(kind, sender, people)
<1>1. /\ channel' = channel /\ kind' = kind /\ sender' = sender /\ people' = people
      /\ (mentioned' <=> mentioned) /\ (allowed' <=> allowed) /\ files' = files
      /\ mentioned' = mentioned /\ allowed' = allowed /\ words' = words
    BY DEF Kept
<1>2. MessageTypes'
    BY <1>1 DEF InInv, MessageTypes
<1>3. Invited => Invited'
    BY <1>1 DEF Invited, In!Addressed
<1> QED BY <1>1, <1>2, <1>3

\* A step within the work on one file: the file is asked for, its link replaced.
LEMMA Advances ==
    ASSUME InInv, Kept, inPc \in {"next", "getFile", "stream"},
           inPc' \in {"getFile", "stream", "examine"},
           at \in 1..Len(files), at' = at, collected' \in 0..MaxBytes,
           fetched' \subseteq fetched \cup {at}, links' = links \ {at},
           inParts' = inParts, infos' = infos, outcome' = outcome,
           prompt \subseteq prompt', prompt' \subseteq prompt \cup {"reference"},
           channel = "zulip" => "reference" \in prompt'
    PROVE  InInv'
<1>1. MessageTypes /\ ResultTypes /\ InStages /\ PartsAreSound
      /\ Listing /\ Telling /\ Prompting /\ Addressing
    BY DEF InInv
<1>2. Len(files) \in Nat /\ Len(files) <= MaxFiles /\ MaxFiles \in Nat
    BY <1>1, InLimits DEF MessageTypes
<1>3. MessageTypes' /\ (Invited => Invited')
      /\ In!AddressOf(kind', sender', people') = In!AddressOf(kind, sender, people)
    BY KeepsMessage
<1>4. Working /\ Invited /\ Working' /\ outcome = "none"
    BY <1>1 DEF InStages, Working
<1>5. /\ channel' = channel /\ files' = files /\ words' = words /\ address' = address
      /\ kind' = kind /\ sender' = sender /\ people' = people
    BY DEF Kept
<1>6. ResultTypes'
    <2>1. fetched' \subseteq 1..MaxFiles /\ links' \subseteq 1..MaxFiles
        BY <1>1, <1>2 DEF ResultTypes
    <2>2. prompt' \subseteq {"words", "warning", "default", "reference"}
        BY <1>1 DEF ResultTypes
    <2> QED BY <1>1, <1>5, <2>1, <2>2 DEF ResultTypes
<1>7. InStages'
    BY <1>2, <1>3, <1>4, <1>5 DEF InStages, Working
<1>8. PartsAreSound'
    BY <1>1, <1>5 DEF PartsAreSound, GoodPart
<1>9. Listing'
    <2>1. links' \subseteq at..Len(files) /\ at \notin links'
        BY <1>1, <1>4 DEF Listing
    <2>2. channel = "telegram" => links' = {}
        BY <1>1, <1>4 DEF Listing
    <2> QED BY <1>1, <1>4, <1>5, <2>1, <2>2 DEF Listing
<1>10. Telling'
    <2>1. ASSUME NEW i \in 1..at - 1
          PROVE  Tells(i)'
        <3>1. Tells(i)
            BY <1>1, <1>4 DEF Telling
        <3> QED BY <3>1, <1>5 DEF Tells
    <2> QED BY <2>1 DEF Telling
<1>11. Prompting'
    BY <1>1, <1>4, <1>5 DEF Prompting
<1>12. Addressing'
    BY <1>1, <1>3, <1>4, <1>5 DEF Addressing
<1>13. In!NothingIsLost'
    BY <1>4 DEF In!NothingIsLost, In!EveryFileIsListed, In!FailuresAreTold, In!WordsSurvive,
                In!AnswersReachTheConversation
<1> QED BY <1>3, <1>6, <1>7, <1>8, <1>9, <1>10, <1>11, <1>12, <1>13 DEF InInv

\* Parts are only added, and sound ones.
Grown ==
    /\ inParts' \in Seq(PartRecords) /\ Len(inParts) <= Len(inParts')
    /\ \A j \in 1..Len(inParts) : inParts'[j] = inParts[j]
    /\ \A j \in Len(inParts) + 1..Len(inParts') : GoodPart(inParts'[j])

LEMMA NoPart ==
    ASSUME InInv, inParts' = inParts
    PROVE  Grown
<1>1. inParts \in Seq(PartRecords)
    BY DEF InInv, ResultTypes
<1>2. Len(inParts) \in Nat
    BY <1>1
<1> QED BY <1>1, <1>2 DEF Grown

LEMMA PartAdded ==
    ASSUME InInv, at \in 1..MaxFiles, NEW w \in In!Whats, NEW o \in In!Contents \cup {"none"},
           NEW z \in In!Lengths, In!Part(w, o, z),
           GoodPart([file |-> at, what |-> w, of |-> o, size |-> z])
    PROVE  Grown /\ \E j \in 1..Len(inParts') : inParts'[j].file = at
<1> DEFINE r == [file |-> at, what |-> w, of |-> o, size |-> z]
<1>1. r \in PartRecords /\ r.file = at
    BY DEF PartRecords
<1>2. inParts \in Seq(PartRecords) /\ inParts' = Append(inParts, r) /\ GoodPart(r)
    BY DEF InInv, ResultTypes, In!Part
<1> HIDE DEF r
<1>3. /\ inParts' \in Seq(PartRecords) /\ Len(inParts) \in Nat /\ Len(inParts') = Len(inParts) + 1
      /\ \A j \in 1..Len(inParts) : inParts'[j] = inParts[j]
      /\ inParts'[Len(inParts) + 1] = r
    BY <1>1, <1>2
<1>4. \A j \in Len(inParts) + 1..Len(inParts') : GoodPart(inParts'[j])
    <2> SUFFICES ASSUME NEW j \in Len(inParts) + 1..Len(inParts') PROVE GoodPart(inParts'[j])
        OBVIOUS
    <2>1. j = Len(inParts) + 1
        BY <1>3
    <2> QED BY <2>1, <1>2, <1>3
<1>5. inParts'[Len(inParts')].file = at /\ Len(inParts') \in 1..Len(inParts')
    BY <1>1, <1>3
<1> QED BY <1>3, <1>4, <1>5 DEF Grown

\* A file is done with: it is listed, and what became of it is told.
Done(d) ==
    \/ \E j \in 1..Len(inParts') : inParts'[j].file = at
    \/ channel = "telegram" /\ "warning" \in prompt'
    \/ channel = "zulip" /\ ~d /\ "reference" \in prompt'

LEMMA Proceeds ==
    ASSUME InInv, Kept, Working, at \in 1..Len(files), at \notin links,
           NEW d \in BOOLEAN, In!Info(d), In!Proceed, Grown, Done(d),
           fetched' = fetched, links' = links, outcome' = outcome,
           prompt \subseteq prompt', prompt' \subseteq prompt \cup {"warning", "words"},
           channel = "zulip" => "reference" \in prompt',
           channel = "telegram" /\ "warning" \in prompt' /\ words => "words" \in prompt'
    PROVE  InInv'
<1>1. MessageTypes /\ ResultTypes /\ InStages /\ PartsAreSound
      /\ Listing /\ Telling /\ Prompting /\ Addressing
    BY DEF InInv
<1>2. Len(files) \in Nat /\ Len(files) <= MaxFiles /\ MaxFiles \in Nat /\ MaxBytes \in Nat
    BY <1>1, InLimits DEF MessageTypes
<1>3. MessageTypes' /\ (Invited => Invited')
      /\ In!AddressOf(kind', sender', people') = In!AddressOf(kind, sender, people)
    BY KeepsMessage
<1>4. inPc' = "next" /\ at' = at + 1 /\ collected' = 0 /\ Working'
    BY DEF In!Proceed, Working
<1>5. /\ channel' = channel /\ files' = files /\ words' = words /\ address' = address
      /\ kind' = kind /\ sender' = sender /\ people' = people
    BY DEF Kept
<1>6. /\ Invited /\ outcome = "none" /\ Len(infos) = at - 1
      /\ \A i \in 1..at - 1 : infos[i].file = i
      /\ links \subseteq at..Len(files) /\ (channel = "telegram" => links = {})
      /\ infos \in Seq(InfoRecords)
    BY <1>1 DEF InStages, Listing, ResultTypes
<1>7. /\ infos' \in Seq(InfoRecords) /\ Len(infos') = at
      /\ \A i \in 1..at - 1 : infos'[i] = infos[i]
      /\ infos'[at].file = at /\ (infos'[at].downloaded <=> d)
    <2> DEFINE r == [file |-> at, downloaded |-> d]
    <2>1. r \in InfoRecords /\ r.file = at /\ (r.downloaded <=> d)
        BY <1>2 DEF InfoRecords
    <2>2. infos' = Append(infos, r)
        BY DEF In!Info
    <2> HIDE DEF r
    <2>3. /\ infos' \in Seq(InfoRecords) /\ Len(infos') = Len(infos) + 1 /\ infos'[Len(infos) + 1] = r
          /\ \A i \in 1..Len(infos) : infos'[i] = infos[i]
        BY <1>6, <2>1, <2>2
    <2>4. Len(infos) + 1 = at
        BY <1>2, <1>6
    <2> QED BY <1>6, <2>1, <2>3, <2>4
<1>8. ResultTypes'
    <2>1. prompt' \subseteq {"words", "warning", "default", "reference"}
        BY <1>1 DEF ResultTypes
    <2>2. at' \in 1..MaxFiles + 1 /\ collected' \in 0..MaxBytes
        BY <1>2, <1>4
    <2> QED BY <1>1, <1>4, <1>5, <1>7, <2>1, <2>2 DEF ResultTypes, Grown
<1>9. InStages'
    BY <1>2, <1>3, <1>4, <1>5, <1>6 DEF InStages, Working
<1>10. PartsAreSound'
    <2>1. inParts \in Seq(PartRecords)
        BY <1>1 DEF ResultTypes
    <2>2. \A i \in 1..Len(inParts') : GoodPart(inParts'[i])
        BY <1>1, <2>1 DEF Grown, PartsAreSound
    <2>3. \A r : GoodPart(r) => GoodPart(r)'
        BY <1>5 DEF GoodPart
    <2> QED BY <2>2, <2>3 DEF PartsAreSound
<1>11. Listing'
    <2>1. links' \subseteq at + 1..Len(files)
        BY <1>2, <1>6
    <2>2. \A i \in 1..at : infos'[i].file = i
        BY <1>2, <1>6, <1>7
    <2> QED BY <1>2, <1>4, <1>5, <1>6, <1>7, <2>1, <2>2 DEF Listing
<1>12. Telling'
    <2>1. \A i \in 1..at' - 1 : i \in 1..at
        BY <1>2, <1>4
    <2>2. ASSUME NEW i \in 1..at, i # at
          PROVE  Tells(i)'
        <3>1. i \in 1..at - 1 /\ infos'[i] = infos[i]
            BY <1>2, <1>7, <2>2
        <3>2. Tells(i)
            BY <1>1, <3>1 DEF Telling
        <3>3. \A j \in 1..Len(inParts) : j \in 1..Len(inParts') /\ inParts'[j] = inParts[j]
            <4>1. inParts \in Seq(PartRecords) /\ inParts' \in Seq(PartRecords)
                BY <1>1 DEF ResultTypes, Grown
            <4>2. Len(inParts) \in Nat /\ Len(inParts') \in Nat
                BY <4>1
            <4> QED BY <4>2 DEF Grown
        <3> QED BY <1>5, <3>1, <3>2, <3>3 DEF Tells
    <2>3. \A i \in 1..at : i = at => Tells(i)'
        BY <1>5, <1>7 DEF Tells, Done
    <2> QED BY <1>4, <2>1, <2>2, <2>3 DEF Telling
<1>13. Prompting'
    BY <1>1, <1>4, <1>5 DEF Prompting
<1>14. Addressing'
    BY <1>1, <1>3, <1>4, <1>5 DEF Addressing
<1>15. In!NothingIsLost'
    BY <1>6 DEF In!NothingIsLost, In!EveryFileIsListed, In!FailuresAreTold, In!WordsSurvive,
                In!AnswersReachTheConversation
<1> QED BY <1>3, <1>8, <1>9, <1>10, <1>11, <1>12, <1>13, <1>14, <1>15 DEF InInv

LEMMA InHand ==
    ASSUME InInv, inPc \in {"getFile", "stream", "examine"}
    PROVE  /\ Working /\ at \in 1..Len(files) /\ at \notin links
           /\ channel = "zulip" => "reference" \in prompt
<1>1. Working
    BY DEF Working
<1>2. at \in Nat /\ at >= 1 /\ Len(files) \in Nat /\ at <= Len(files)
    BY InLimits DEF InInv, MessageTypes, ResultTypes, InStages
<1>3. at \notin links
    BY <1>1 DEF InInv, Listing
<1>4. channel = "zulip" => "reference" \in prompt
    BY <1>1 DEF InInv, Prompting
<1> QED BY <1>1, <1>2, <1>3, <1>4

\* The next file is in hand; Telegram's have no link.
LEMMA NextInHand ==
    ASSUME InInv, inPc = "next", at <= Len(files)
    PROVE  Working /\ at \in 1..Len(files) /\ (channel = "telegram" => at \notin links)
<1>1. Working
    BY DEF Working
<1>2. at \in Nat /\ at >= 1 /\ Len(files) \in Nat
    BY InLimits DEF InInv, MessageTypes, ResultTypes
<1>3. channel = "telegram" => at \notin links
    BY <1>1 DEF InInv, Listing
<1> QED BY <1>1, <1>2, <1>3

\* A file that leaves a sound part.
LEMMA PartProceeds ==
    ASSUME InInv, Kept, Working, at \in 1..Len(files), at \notin links,
           NEW w \in In!Whats, NEW o \in In!Contents \cup {"none"}, NEW z \in 0..MaxBytes,
           In!Part(w, o, z), NEW d \in BOOLEAN, In!Info(d), In!Proceed,
           w = "pdf" => o = "pdf", w = "jpeg" => In!Decodable(o),
           w = "image" => o \in {"image", "webp"} \/ (channel = "zulip" /\ o = "riff"),
           fetched' = fetched, links' = links, prompt' = prompt, outcome' = outcome,
           channel = "zulip" => "reference" \in prompt
    PROVE  InInv'
<1>1. Len(files) \in Nat /\ Len(files) <= MaxFiles /\ MaxFiles \in Nat /\ MaxBytes \in Nat
    BY InLimits DEF InInv, MessageTypes
<1>2. at \in 1..MaxFiles /\ z \in In!Lengths
    BY <1>1 DEF In!Lengths
<1>3. GoodPart([file |-> at, what |-> w, of |-> o, size |-> z])
    BY <1>1 DEF GoodPart
<1>4. Grown /\ \E j \in 1..Len(inParts') : inParts'[j].file = at
    BY <1>2, <1>3, PartAdded
<1>5. Done(d)
    BY <1>4 DEF Done
<1>6. channel = "telegram" /\ "warning" \in prompt' /\ words => "words" \in prompt'
    BY DEF InInv, Prompting
<1>7. prompt \subseteq prompt' /\ prompt' \subseteq prompt \cup {"warning", "words"}
      /\ (channel = "zulip" => "reference" \in prompt')
    OBVIOUS
<1> QED BY <1>4, <1>5, <1>6, <1>7, Proceeds

LEMMA WarningProceeds ==
    ASSUME InInv, Kept, Working, at \in 1..Len(files), at \notin links,
           In!Part("warning", "none", 0), NEW d \in BOOLEAN, In!Info(d), In!Proceed,
           fetched' = fetched, links' = links, prompt' = prompt, outcome' = outcome,
           channel = "zulip" => "reference" \in prompt
    PROVE  InInv'
<1>1. "warning" \in In!Whats /\ "none" \in In!Contents \cup {"none"} /\ 0 \in 0..MaxBytes
    BY InLimits DEF In!Whats
<1> QED BY <1>1, PartProceeds

LEMMA UnsupportedStep == ASSUME InInv, In!Unsupported PROVE InInv'
<1>1. /\ inPc = "next" /\ channel = "telegram" /\ at <= Len(files)
      /\ prompt' = prompt \cup {"warning"} \cup (IF words THEN {"words"} ELSE {})
      /\ In!Info(FALSE) /\ In!Proceed
      /\ Kept /\ fetched' = fetched /\ links' = links /\ inParts' = inParts /\ outcome' = outcome
    BY DEF In!Unsupported, In!message, Kept
<1>2. Working /\ at \in 1..Len(files) /\ at \notin links
    BY <1>1, NextInHand
<1>3. Grown
    BY <1>1, NoPart
<1>4. Done(FALSE) /\ FALSE \in BOOLEAN
    BY <1>1 DEF Done
<1>5. /\ prompt \subseteq prompt' /\ prompt' \subseteq prompt \cup {"warning", "words"}
      /\ words => "words" \in prompt'
    BY <1>1
<1> QED BY <1>1, <1>2, <1>3, <1>4, <1>5, Proceeds

LEMMA TooLargeStep == ASSUME InInv, In!TooLarge PROVE InInv'
<1>1. /\ inPc = "next" /\ channel = "telegram" /\ at <= Len(files)
      /\ In!Part("warning", "none", 0) /\ In!Info(FALSE) /\ In!Proceed
      /\ Kept /\ fetched' = fetched /\ links' = links /\ prompt' = prompt /\ outcome' = outcome
    BY DEF In!TooLarge, In!message, Kept
<1>2. Working /\ at \in 1..Len(files) /\ at \notin links
    BY <1>1, NextInHand
<1> QED BY <1>1, <1>2, WarningProceeds

LEMMA FileMissingStep == ASSUME InInv, In!FileMissing PROVE InInv'
<1>1. /\ inPc = "getFile"
      /\ In!Part("warning", "none", 0) /\ In!Info(FALSE) /\ In!Proceed
      /\ Kept /\ fetched' = fetched /\ links' = links /\ prompt' = prompt /\ outcome' = outcome
    BY DEF In!FileMissing, In!message, Kept
<1> QED BY <1>1, InHand, WarningProceeds

LEMMA DownloadFailsStep == ASSUME InInv, In!DownloadFails PROVE InInv'
<1>1. /\ inPc \in {"getFile", "stream"}
      /\ In!Info(FALSE) /\ In!Proceed
      /\ IF channel = "telegram" THEN In!Part("warning", "none", 0) ELSE inParts' = inParts
      /\ Kept /\ fetched' = fetched /\ links' = links /\ prompt' = prompt /\ outcome' = outcome
    BY DEF In!DownloadFails, In!Failed, In!message, Kept
<1>2. /\ Working /\ at \in 1..Len(files) /\ at \notin links
      /\ channel = "zulip" => "reference" \in prompt
    BY <1>1, InHand
<1>3. CASE channel = "telegram"
    BY <1>1, <1>2, <1>3, WarningProceeds
<1>4. CASE channel = "zulip"
    <2>1. Grown
        BY <1>1, <1>4, NoPart
    <2>2. Done(FALSE) /\ FALSE \in BOOLEAN
        BY <1>1, <1>2, <1>4 DEF Done
    <2> QED BY <1>1, <1>2, <1>4, <2>1, <2>2, Proceeds
<1> QED BY <1>3, <1>4 DEF InInv, MessageTypes

LEMMA FetchStep == ASSUME InInv, In!Fetch PROVE InInv'
<1>1. /\ inPc = "next" /\ at <= Len(files) /\ fetched' = fetched \cup {at}
      /\ inPc' = (IF channel = "telegram" THEN "getFile" ELSE "stream")
      /\ links' = links \ {at}
      /\ prompt' = (IF channel = "zulip" THEN prompt \cup {"reference"} ELSE prompt)
      /\ at' = at /\ collected' = collected /\ inParts' = inParts /\ infos' = infos
      /\ outcome' = outcome /\ Kept
    BY DEF In!Fetch, In!message, Kept
<1>2. at \in 1..Len(files) /\ collected' \in 0..MaxBytes
    BY <1>1, NextInHand DEF InInv, ResultTypes
<1>3. /\ prompt \subseteq prompt' /\ prompt' \subseteq prompt \cup {"reference"}
      /\ channel = "zulip" => "reference" \in prompt'
    BY <1>1
<1> QED BY <1>1, <1>2, <1>3, Advances

LEMMA StreamSteps == ASSUME InInv, In!FileFound \/ In!Chunk \/ In!StreamEnds PROVE InInv'
<1>1. /\ inPc \in {"getFile", "stream"} /\ inPc' \in {"getFile", "stream", "examine"}
      /\ at' = at /\ fetched' = fetched /\ links' = links /\ prompt' = prompt
      /\ inParts' = inParts /\ infos' = infos /\ outcome' = outcome /\ Kept
    BY DEF In!FileFound, In!Chunk, In!StreamEnds, In!message, In!results, Kept
<1>2. collected' \in 0..MaxBytes
    BY InLimits DEF InInv, ResultTypes, In!FileFound, In!Chunk, In!StreamEnds
<1>3. /\ at \in 1..Len(files) /\ at \notin links
      /\ channel = "zulip" => "reference" \in prompt
    BY <1>1, InHand
<1>4. fetched' \subseteq fetched \cup {at} /\ links' = links \ {at}
      /\ prompt \subseteq prompt' /\ prompt' \subseteq prompt \cup {"reference"}
      /\ (channel = "zulip" => "reference" \in prompt')
    BY <1>1, <1>3
<1> QED BY <1>1, <1>2, <1>3, <1>4, Advances

\* What HEIC conversion leaves: a picture within the limit or a warning.
LEMMA ConvertProceeds ==
    ASSUME InInv, Kept, Working, at \in 1..Len(files), at \notin links,
           NEW o \in In!Contents, In!Convert(o), In!Proceed,
           fetched' = fetched, links' = links, prompt' = prompt, outcome' = outcome,
           channel = "zulip" => "reference" \in prompt
    PROVE  InInv'
<1>1. \/ /\ In!Decodable(o)
         /\ \E z \in In!Lengths : IF z > MaxBytes THEN In!Part("warning", "none", 0)
                                                 ELSE In!Part("jpeg", o, z)
         /\ In!Info(TRUE)
      \/ In!Part("warning", "none", 0) /\ In!Info(channel = "telegram")
    BY Zenon DEF In!Convert
<1>2. CASE In!Part("warning", "none", 0) /\ In!Info(TRUE)
    BY <1>2, WarningProceeds
<1>3. CASE In!Part("warning", "none", 0) /\ In!Info(channel = "telegram")
    <2> DEFINE d == channel = "telegram"
    <2>1. d \in BOOLEAN /\ In!Info(d)
        BY <1>3
    <2> HIDE DEF d
    <2> QED BY <1>3, <2>1, WarningProceeds
<1>4. ASSUME In!Decodable(o), In!Info(TRUE), NEW z \in 0..MaxBytes, In!Part("jpeg", o, z)
      PROVE  InInv'
    <2>1. "jpeg" \in In!Whats /\ o \in In!Contents \cup {"none"} /\ TRUE \in BOOLEAN
        BY DEF In!Whats
    <2> QED BY <1>4, <2>1, PartProceeds
<1>5. \A z \in In!Lengths : z > MaxBytes \/ z \in 0..MaxBytes
    BY InLimits DEF In!Lengths
<1> QED BY <1>1, <1>2, <1>3, <1>4, <1>5

LEMMA ExamineTelegramStep == ASSUME InInv, In!ExamineTelegram PROVE InInv'
<1>1. /\ inPc = "examine" /\ channel = "telegram" /\ In!Proceed
      /\ Kept /\ fetched' = fetched /\ links' = links /\ prompt' = prompt /\ outcome' = outcome
    BY DEF In!ExamineTelegram, In!message, Kept
<1>2. /\ Working /\ at \in 1..Len(files) /\ at \notin links
      /\ channel = "zulip" => "reference" \in prompt
    BY <1>1, InHand
<1>3. PICK content \in In!Contents :
        \/ In!Convert(content)
        \/ /\ In!Signature(content) # "none"
           /\ In!Part(In!Signature(content), content, collected) /\ In!Info(TRUE)
        \/ In!Part("warning", "none", 0) /\ In!Info(FALSE)
        \/ content = "text" /\ In!Part("text", content, collected) /\ In!Info(TRUE)
    BY Zenon DEF In!ExamineTelegram
<1>4. collected \in 0..MaxBytes /\ content \in In!Contents \cup {"none"}
    BY DEF InInv, ResultTypes
<1>5. CASE In!Convert(content)
    BY <1>1, <1>2, <1>5, ConvertProceeds
<1>6. CASE /\ In!Signature(content) # "none"
           /\ In!Part(In!Signature(content), content, collected) /\ In!Info(TRUE)
    <2>1. \/ In!Signature(content) = "image" /\ content \in {"image", "webp"}
          \/ In!Signature(content) = "pdf" /\ content = "pdf"
        BY <1>6 DEF In!Signature
    <2>2. "image" \in In!Whats /\ "pdf" \in In!Whats /\ TRUE \in BOOLEAN
        BY DEF In!Whats
    <2>3. CASE In!Signature(content) = "image" /\ content \in {"image", "webp"}
        BY <1>1, <1>2, <1>4, <1>6, <2>2, <2>3, PartProceeds
    <2>4. CASE In!Signature(content) = "pdf" /\ content = "pdf"
        BY <1>1, <1>2, <1>4, <1>6, <2>2, <2>4, PartProceeds
    <2> QED BY <2>1, <2>3, <2>4
<1>7. CASE In!Part("warning", "none", 0) /\ In!Info(FALSE)
    BY <1>1, <1>2, <1>7, WarningProceeds
<1>8. CASE In!Part("text", content, collected) /\ In!Info(TRUE)
    <2>1. "text" \in In!Whats /\ TRUE \in BOOLEAN
        BY DEF In!Whats
    <2> QED BY <1>1, <1>2, <1>4, <1>8, <2>1, PartProceeds
<1> QED BY <1>3, <1>5, <1>6, <1>7, <1>8

LEMMA ExamineZulipStep == ASSUME InInv, In!ExamineZulip PROVE InInv'
<1>1. /\ inPc = "examine" /\ channel = "zulip" /\ In!Proceed
      /\ Kept /\ fetched' = fetched /\ links' = links /\ prompt' = prompt /\ outcome' = outcome
    BY DEF In!ExamineZulip, In!message, Kept
<1>2. /\ Working /\ at \in 1..Len(files) /\ at \notin links
      /\ channel = "zulip" => "reference" \in prompt
    BY <1>1, InHand
<1> DEFINE type(content) == In!InferMimeType(files[at].name, content)
<1>3. PICK content \in In!Contents :
        \/ In!Convert(content)
        \/ /\ type(content) \in {"image", "pdf"}
           /\ In!Part(type(content), content, collected) /\ In!Info(TRUE)
        \/ In!Part("warning", "none", 0) /\ In!Info(TRUE)
        \/ In!Part("text", content, collected) /\ In!Info(TRUE)
    <2>1. PICK content \in In!Contents :
            IF type(content) = "text"
              THEN In!Part("text", content, collected) /\ In!Info(TRUE)
              ELSE IF In!IsHeic(type(content), files[at].name, content) THEN In!Convert(content)
              ELSE /\ IF type(content) \in {"image", "pdf"}
                        THEN In!Part(type(content), content, collected)
                        ELSE In!Part("warning", "none", 0)
                   /\ In!Info(TRUE)
        BY Zenon DEF In!ExamineZulip
    <2> HIDE DEF type
    <2> QED BY <2>1
<1>4. collected \in 0..MaxBytes /\ content \in In!Contents \cup {"none"}
    BY DEF InInv, ResultTypes
<1>5. CASE In!Convert(content)
    BY <1>1, <1>2, <1>5, ConvertProceeds
<1>6. CASE /\ type(content) \in {"image", "pdf"}
           /\ In!Part(type(content), content, collected) /\ In!Info(TRUE)
    <2>1. \/ type(content) = "image" /\ content \in {"image", "webp", "riff"}
          \/ type(content) = "pdf" /\ content = "pdf"
        BY <1>6 DEF In!InferMimeType
    <2>2. "image" \in In!Whats /\ "pdf" \in In!Whats /\ TRUE \in BOOLEAN
        BY DEF In!Whats
    <2> HIDE DEF type
    <2>3. CASE type(content) = "image" /\ content \in {"image", "webp", "riff"}
        BY <1>1, <1>2, <1>4, <1>6, <2>2, <2>3, PartProceeds
    <2>4. CASE type(content) = "pdf" /\ content = "pdf"
        BY <1>1, <1>2, <1>4, <1>6, <2>2, <2>4, PartProceeds
    <2> QED BY <2>1, <2>3, <2>4
<1>7. CASE In!Part("warning", "none", 0) /\ In!Info(TRUE)
    BY <1>1, <1>2, <1>7, WarningProceeds
<1>8. CASE In!Part("text", content, collected) /\ In!Info(TRUE)
    <2>1. "text" \in In!Whats /\ TRUE \in BOOLEAN
        BY DEF In!Whats
    <2> QED BY <1>1, <1>2, <1>4, <1>8, <2>1, PartProceeds
<1> QED BY <1>3, <1>5, <1>6, <1>7, <1>8

\* All files are done with: what was said of each holds of the whole message.
LEMMA HandledStep == ASSUME InInv, In!Handled PROVE InInv'
<1>1. /\ inPc = "next" /\ at = Len(files) + 1 /\ inPc' = "done" /\ outcome' = "handled"
      /\ prompt' = (IF channel = "zulip" \/ "warning" \in prompt THEN prompt
                    ELSE IF words THEN {"words"}
                    ELSE IF inParts # <<>> THEN {"default"} ELSE {})
      /\ at' = at /\ collected' = collected /\ fetched' = fetched /\ links' = links
      /\ inParts' = inParts /\ infos' = infos /\ Kept
    BY DEF In!Handled, In!message, Kept
<1>2. MessageTypes /\ ResultTypes /\ InStages /\ PartsAreSound
      /\ Listing /\ Telling /\ Prompting /\ Addressing /\ Working
    BY <1>1 DEF InInv, Working
<1>3. /\ channel' = channel /\ files' = files /\ words' = words /\ address' = address
      /\ kind' = kind /\ sender' = sender /\ people' = people
    BY <1>1 DEF Kept
<1>4. MessageTypes' /\ (Invited => Invited')
    BY <1>1, KeepsMessage
<1>5. ResultTypes'
    <2>1. prompt' \subseteq {"words", "warning", "default", "reference"}
        BY <1>1, <1>2 DEF ResultTypes
    <2> QED BY <1>1, <1>2, <1>3, <2>1 DEF ResultTypes
<1>6. InStages' /\ ~Working'
    BY <1>1, <1>2, <1>4 DEF InStages, Working
<1>7. PartsAreSound'
    BY <1>1, <1>2, <1>3 DEF PartsAreSound, GoodPart
<1>8. Len(files) \in Nat /\ DOMAIN files = 1..Len(files) /\ files \in Seq(In!Files)
      /\ DOMAIN infos = 1..Len(infos) /\ DOMAIN inParts = 1..Len(inParts) /\ Len(inParts) \in Nat
    BY <1>2 DEF MessageTypes, ResultTypes
<1>9. /\ Len(infos) = Len(files) /\ \A i \in 1..Len(files) : infos[i].file = i
      /\ links = {} /\ \A i \in 1..Len(files) : Tells(i)
    <2>1. at - 1 = Len(files)
        BY <1>1, <1>8
    <2>2. links \subseteq Len(files) + 1..Len(files)
        BY <1>1, <1>2 DEF Listing
    <2>3. links = {}
        BY <1>8, <2>2
    <2> QED BY <1>2, <2>1, <2>3 DEF Listing, Telling
<1>10. channel \in {"telegram", "zulip"}
    BY <1>2 DEF MessageTypes
<1>11. In!EveryFileIsListed'
    BY <1>1, <1>3, <1>8, <1>9 DEF In!EveryFileIsListed
<1>12. In!FailuresAreTold'
    <2>1. ASSUME NEW i \in 1..Len(files)
          PROVE  \/ \E j \in DOMAIN inParts : inParts[j].file = i
                 \/ channel = "telegram" /\ "warning" \in prompt'
                 \/ channel = "zulip" /\ ~infos[i].downloaded /\ "reference" \in prompt'
        BY <1>1, <1>8, <1>9 DEF Tells
    <2> QED BY <1>1, <1>3, <1>8, <2>1 DEF In!FailuresAreTold
<1>13. In!WordsSurvive'
    <2>1. words => "words" \in prompt'
        BY <1>1, <1>2, <1>10 DEF Prompting
    <2>2. ASSUME files # <<>> PROVE prompt' # {}
        <3>1. Len(files) >= 1 /\ 1 \in 1..Len(files) /\ at > 1
            BY <1>1, <1>8, <2>2
        <3>2. CASE channel = "zulip"
            BY <1>1, <1>2, <3>1, <3>2 DEF Prompting
        <3>3. CASE channel = "telegram" /\ "warning" \in prompt
            BY <1>1, <3>3
        <3>4. CASE channel = "telegram" /\ "warning" \notin prompt
            <4>1. Tells(1)
                BY <1>9, <3>1
            <4>2. PICK j \in 1..Len(inParts) : inParts[j].file = 1
                BY <3>4, <4>1 DEF Tells
            <4>3. inParts # <<>>
                BY <1>8, <4>2
            <4> QED BY <1>1, <3>4, <4>3
        <3> QED BY <1>10, <3>2, <3>3, <3>4
    <2> QED BY <1>3, <2>1, <2>2 DEF In!WordsSurvive
<1>14. In!AnswersReachTheConversation'
    <2>1. ASSUME kind \in {"direct", "group"}
          PROVE  address = people \ {Bot} /\ sender \in address
        <3>1. sender # Bot /\ sender \in people
            BY <1>2, <2>1 DEF InStages, Invited, In!Addressed, Addressing
        <3> QED BY <1>2, <2>1, <3>1 DEF Addressing, In!AddressOf
    <2> QED BY <1>3, <2>1 DEF In!AnswersReachTheConversation
<1>15. Listing' /\ Telling' /\ Prompting' /\ Addressing'
    BY <1>6 DEF Listing, Telling, Prompting, Addressing
<1> QED BY <1>4, <1>5, <1>6, <1>7, <1>11, <1>12, <1>13, <1>14, <1>15 DEF InInv, In!NothingIsLost

LEMMA InStep == ASSUME InInv, [In!Next]_(In!vars) PROVE InInv'
<1>1. CASE In!Next
    BY <1>1, TelegramComes, ZulipComes, UnsupportedStep, TooLargeStep, FetchStep, StreamSteps,
       FileMissingStep, DownloadFailsStep, ExamineTelegramStep, ExamineZulipStep, HandledStep
       DEF In!Next
<1>2. CASE UNCHANGED In!vars
    <2>1. /\ inPc' = inPc /\ Kept /\ at' = at /\ collected' = collected
          /\ fetched' = fetched /\ links' = links /\ prompt' = prompt /\ inParts' = inParts
          /\ infos' = infos /\ outcome' = outcome
        BY <1>2 DEF In!vars, In!message, In!results, Kept
    <2>2. MessageTypes' /\ ResultTypes' /\ InStages' /\ PartsAreSound'
        BY <2>1 DEF InInv, Kept, MessageTypes, ResultTypes, InStages, Working, Invited,
                    In!Addressed, PartsAreSound, GoodPart
    <2>3. Listing' /\ Telling' /\ Prompting' /\ Addressing'
        BY <2>1 DEF InInv, Kept, Listing, Telling, Tells, Prompting, Addressing, Working, In!AddressOf
    <2>4. In!NothingIsLost'
        BY <2>1 DEF InInv, Kept, In!NothingIsLost, In!EveryFileIsListed, In!FailuresAreTold,
                    In!WordsSurvive, In!AnswersReachTheConversation
    <2> QED BY <2>2, <2>3, <2>4 DEF InInv
<1> QED BY <1>1, <1>2

LEMMA InInvariance == ChannelsSpec => []InInv
<1>1. ChannelsInit => InInv
    BY InStarts DEF ChannelsInit
<1>2. InInv /\ [ChannelsNext]_channelsVars => InInv'
    <2> SUFFICES ASSUME InInv, [ChannelsNext]_channelsVars PROVE InInv'
        OBVIOUS
    <2>1. CASE UNCHANGED inbound
        <3>1. UNCHANGED In!vars
            BY <2>1 DEF inbound, In!vars, In!message, In!results
        <3> QED BY <3>1, InStep
    <2>2. CASE In!Next
        BY <2>2, InStep
    <2> QED BY <2>1, <2>2 DEF ChannelsNext, channelsVars
<1> QED BY <1>1, <1>2, PTL DEF ChannelsSpec

\* What reaches the model from outside was let in by the policy before any
\* request, is within the limit and is what it claims to be, whatever the
\* sender, the server and the decoder say (process_attachment,
\* process_inbound_attachments).
THEOREM ForwardedStaysSound == ChannelsSpec => []ForwardedIsSound
<1> QED BY InInvariance, InInvSuffices, PTL

\* However many files a message has and whichever of them fail: each is listed
\* and told of, the words survive and the answer goes to all the others.
THEOREM NothingGetsLost == ChannelsSpec => []NothingIsLost
<1> QED BY InInvariance, InInvSuffices, PTL
=============================================================================
