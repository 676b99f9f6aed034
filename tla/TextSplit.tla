------------------------------ MODULE TextSplit ------------------------------
(***************************************************************************)
(* How a text that is too long for one message is cut: split_long_message  *)
(* and find_split_point of telegram/bot.rs, and the chunks of              *)
(* zulip/service.rs.  A text is a sequence of characters, of which only    *)
(* this matters: is it a line break, a space, and how many bytes of UTF-8  *)
(* it takes (two where it is wide).  A piece is the interval <<first, last>> of its characters.   *)
(***************************************************************************)
EXTENDS Naturals, Sequences, FiniteSets

CONSTANTS
    Limit,       \* 4000: where split_long_message cuts, in characters
    ZulipLimit   \* ZULIP_MAX_MESSAGE_LENGTH

LimitAssumption == Limit \in Nat \ {0} /\ ZulipLimit \in Nat \ {0}

Chars == {"x", "wide", "space", "newline"}

\* The bytes of characters first..last.
Bytes(text, first, last) ==
    last + 1 - first + Cardinality({i \in first..last : text[i] = "wide"})

Last(S) == CHOOSE i \in S : \A j \in S : j <= i

\* find_split_point for a text longer than Limit: after the last newline of
\* the window's last third, else after the last space of its last fifth, else
\* at Limit.  `from` is the first character of what is left of the text.
FindSplitPoint(text, from) ==
    LET In(c, start) == {i \in start + 1..Limit : text[from + i - 1] = c}
        newlines == In("newline", Limit - (Limit \div 3))
        spaces == In("space", Limit - (Limit \div 5))
    IN  IF newlines # {} THEN Last(newlines)
        ELSE IF spaces # {} THEN Last(spaces)
        ELSE Limit

Panic == <<0, 0>>   \* slicing inside a character

\* Mutant: the character after a piece is taken for the blank and skipped.
SplitSkipsBlank(text) ==
    LET n == Len(text)
        rest[from \in 1..n + 2] ==
            IF from > n THEN <<>>
            ELSE IF n + 1 - from <= Limit THEN <<<<from, n>>>>
            ELSE LET taken == FindSplitPoint(text, from)
                 IN  <<<<from, from + taken - 1>>>> \o rest[from + taken + 1]
    IN  rest[1]

\* split_long_message.  The characters taken are counted, and the rest of the
\* text is sliced at that many BYTES: where a taken character is wide the rest
\* begins too early, or inside a character.
SplitLongMessage(text) ==
    LET n == Len(text)
        rest[from \in 1..n + 1] ==
            IF from > n THEN <<>>
            ELSE IF n + 1 - from <= Limit THEN <<<<from, n>>>>
            ELSE LET taken == FindSplitPoint(text, from)
                     next == {q \in from + 1..from + taken : Bytes(text, from, q - 1) = taken}
                 IN  IF next = {}
                       THEN <<Panic>>
                       ELSE <<<<from, from + taken - 1>>>> \o rest[Last(next)]
    IN  rest[1]

\* ZulipService::send_message cuts every ZulipLimit characters.
ZulipChunks(text) ==
    LET n == Len(text)
    IN  IF n <= ZulipLimit THEN <<<<1, n>>>>
        ELSE [i \in 1..(n + ZulipLimit - 1) \div ZulipLimit |->
                <<(i - 1) * ZulipLimit + 1, IF i * ZulipLimit < n THEN i * ZulipLimit ELSE n>>]

\* The pieces are the text, cut: they follow one another from its first
\* character to its last.
Tiles(pieces, n) ==
    /\ pieces # <<>>
    /\ pieces[1][1] = 1 /\ pieces[Len(pieces)][2] = n
    /\ \A i \in 1..Len(pieces) - 1 : pieces[i + 1][1] = pieces[i][2] + 1
=============================================================================
