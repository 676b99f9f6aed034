------------------------------ MODULE Outbound ------------------------------
(***************************************************************************)
(* How an answer leaves: ChannelRegistry::send_message picks the channel,  *)
(* TelegramService and ZulipService choose a rendition and cut it into     *)
(* messages, TelegramBot and ZulipBot make the requests, and the typing    *)
(* indicator runs beside it.  The servers are external: a request may be   *)
(* carried out although its response is lost.                              *)
(***************************************************************************)
EXTENDS TextSplit, BotApi

CONSTANTS
    Texts,         \* texts to send
    MaxLength,     \* TELEGRAM_MAX_MESSAGE_LENGTH
    PrefixLength   \* the "[i/n] " before a piece

OutboundAssumption ==
    /\ LimitAssumption
    /\ Texts \subseteq Seq(Chars)
    /\ MaxLength \in Nat /\ PrefixLength \in Nat
    /\ Limit + PrefixLength <= MaxLength

VARIABLES
    pc,        \* "idle", "formatted", "pieces" or "done"
    to,        \* where the message goes
    text,
    format,    \* MessageFormat
    parts,     \* the pieces to send
    sent,      \* pieces whose request succeeded
    shown,     \* what the conversation shows, in order
    longest,   \* longest message put into a request, in characters
    result,
    task,      \* the indicator's refresh task: "none", "running" or "aborted"
    wire,      \* typing requests on their way
    lamp,      \* the server shows "typing"
    last       \* the request of the last step, if any: its answer, whether it
               \* was carried out, and what the method made of it

message == <<to, text, format>>
typing == <<task, wire, lamp>>
sending == <<pc, message, parts, sent, shown, longest, result>>
vars == <<sending, typing, last>>

\* A Telegram chat whose id is a number or not, a Zulip stream, Zulip people
\* with cached ids or without, and a channel nobody configured.
Places == {"chat", "not_a_number", "stream", "people", "strangers", "unknown"}
Formats == {"PlainText", "Markdown", "MarkdownRaw"}
Zulip == {"stream", "people", "strangers"}

TypeOK ==
    /\ pc \in {"idle", "formatted", "pieces", "done"}
    /\ to \in Places /\ format \in Formats
    /\ text \in {<<>>} \cup Texts
    /\ parts \in Seq(((1..Len(text) + 1) \X (0..Len(text))) \cup {Panic})
    /\ sent \in 0..Len(parts)
    /\ shown \in Seq(Nat \X Nat)
    /\ longest \in Nat
    /\ result \in {"none", "ok", "error", "panic"}
    /\ task \in {"none", "running", "aborted"}
    /\ wire \subseteq {"start", "stop"}
    /\ lamp \in BOOLEAN
    /\ last \in [call : Calls \cup {"none"}, answer : Answers, done : BOOLEAN,
                outcome : {"none", "ok", "empty", "parse", "expired", "error"}]

Formatted == <<0, 1>>   \* the formatted rendition, shown as one message
NoAnswer == [got |-> "nothing", status |-> FALSE, json |-> FALSE, ok |-> FALSE,
             data |-> FALSE, says |-> ""]

NoRequest == [call |-> "none", answer |-> NoAnswer, done |-> FALSE, outcome |-> "none"]

Init ==
    /\ pc = "idle" /\ to = "chat" /\ text = <<>> /\ format = "PlainText"
    /\ parts = <<>> /\ sent = 0 /\ shown = <<>> /\ longest = 0 /\ result = "none"
    /\ task = "none" /\ wire = {} /\ lamp = FALSE
    /\ last = NoRequest

\* A request, its answer and what becomes of both.
Request(c, done, outcome) ==
    \E a \in Answers :
        /\ Honest(a, done) /\ outcome \in Outcomes(c, a)
        /\ last' = [call |-> c, answer |-> a, done |-> done, outcome |-> outcome]

-----------------------------------------------------------------------------
\* The requests of start-up and of the update loops.
OtherRequest ==
    /\ pc = "idle" /\ task = "none"
    /\ \E c \in Calls \ {"sendMessage", "messages", "sendChatAction", "typing"}, done \in BOOLEAN,
          o \in {"ok", "empty", "expired", "none", "error"} : Request(c, done, o)
    /\ UNCHANGED <<sending, typing>>

Finish(how) == pc' = "done" /\ result' = how
MessageLength(i) == parts[i][2] + 1 - parts[i][1] + (IF Len(parts) > 1 /\ to = "chat" THEN PrefixLength ELSE 0)
Longer(n) == longest' = IF n > longest THEN n ELSE longest

\* send_split_message: whole, or in pieces; the cutting may panic.
SplitMessage(t) == IF Len(t) <= MaxLength THEN <<<<1, Len(t)>>>> ELSE SplitLongMessage(t)

StartPieces(t, pieces) ==
    /\ parts' = pieces
    /\ IF \E i \in DOMAIN pieces : pieces[i] = Panic
         THEN Finish("panic")
         ELSE pc' = "pieces" /\ UNCHANGED result

\* ChannelRegistry::send_message, ChannelService::send_message and the choice
\* of the rendition by send_message_with_options.  What Markdown becomes may be
\* longer or shorter than its text.  Bound: a behaviour sends a message or
\* shows an indicator; they share nothing.
Send ==
    /\ pc = "idle" /\ task = "none"
    /\ \E a \in Places, t \in Texts, f \in Formats, fits \in BOOLEAN :
        /\ to' = a /\ text' = t /\ format' = f
        /\ f # "Markdown" => fits = (f = "MarkdownRaw" /\ Len(t) <= MaxLength)
        /\ \/ a \in {"unknown", "not_a_number"} /\ Finish("error") /\ UNCHANGED parts
           \/ a \in Zulip /\ StartPieces(t, ZulipChunks(t))
           \/ a = "chat" /\ fits /\ pc' = "formatted" /\ UNCHANGED <<parts, result>>
           \/ a = "chat" /\ ~fits /\ StartPieces(t, SplitMessage(t))
    /\ UNCHANGED <<sent, shown, longest, typing>>
    /\ last' = NoRequest

\* send_formatted_with_parse_fallback: only markup the server cannot parse is
\* sent again, as plain text.
SendFormatted ==
    /\ pc = "formatted"
    /\ \E done \in BOOLEAN, outcome \in {"ok", "parse", "error"} :
        /\ Request("sendMessage", done, outcome)
        /\ shown' = IF done THEN Append(shown, Formatted) ELSE shown
        /\ IF outcome = "parse"
             THEN StartPieces(text, SplitMessage(text))
             ELSE Finish(outcome) /\ UNCHANGED parts
    /\ UNCHANGED <<message, sent, longest, typing>>

\* TelegramBot::send_message refuses what is too long before any request.
TooLong ==
    /\ pc = "pieces" /\ to = "chat"
    /\ MessageLength(sent + 1) > MaxLength
    /\ Finish("error")
    /\ UNCHANGED <<message, parts, sent, shown, longest, typing>>
    /\ last' = NoRequest

\* Mutant: a piece that fails is skipped.
SkipFailedPiece ==
    /\ pc = "pieces"
    /\ to = "chat" => MessageLength(sent + 1) <= MaxLength
    /\ \E done \in BOOLEAN, outcome \in {"ok", "parse", "error"} :
        /\ Request(IF to = "chat" THEN "sendMessage" ELSE "messages", done, outcome)
        /\ shown' = IF done THEN Append(shown, parts[sent + 1]) ELSE shown
        /\ sent' = sent + 1
        /\ IF sent + 1 = Len(parts) THEN Finish("ok") ELSE UNCHANGED <<pc, result>>
    /\ Longer(MessageLength(sent + 1))
    /\ UNCHANGED <<message, parts, typing>>

\* The next piece; the first that fails ends the call (the ? in the loops).
SendPiece ==
    /\ pc = "pieces"
    /\ to = "chat" => MessageLength(sent + 1) <= MaxLength
    /\ \E done \in BOOLEAN, outcome \in {"ok", "parse", "error"} :
        /\ Request(IF to = "chat" THEN "sendMessage" ELSE "messages", done, outcome)
        /\ shown' = IF done THEN Append(shown, parts[sent + 1]) ELSE shown
        /\ IF outcome = "ok"
             THEN /\ sent' = sent + 1
                  /\ IF sent + 1 = Len(parts) THEN Finish("ok") ELSE UNCHANGED <<pc, result>>
             ELSE Finish("error") /\ UNCHANGED sent
    /\ Longer(MessageLength(sent + 1))
    /\ UNCHANGED <<message, parts, typing>>

-----------------------------------------------------------------------------
\* start_typing: for a Telegram chat, and for Zulip people whose ids are
\* cached (cache_typing_recipient_ids).
StartTyping ==
    /\ pc = "idle" /\ task = "none"
    /\ \E a \in {"chat", "people"} : to' = a
    /\ task' = "running"
    /\ UNCHANGED <<pc, text, format, parts, sent, shown, longest, result, wire, lamp>>
    /\ last' = NoRequest

\* Mutant: dropping the indicator does not abort its task.
RefreshForever ==
    /\ task # "none"
    /\ wire = {}
    /\ wire' = {"start"}
    /\ UNCHANGED <<sending, task, lamp>>
    /\ last' = NoRequest

\* The task's loop: a request and its response, then a pause of 4 or 8 seconds.
Refresh ==
    /\ task = "running"
    /\ wire = {}
    /\ wire' = {"start"}
    /\ UNCHANGED <<sending, task, lamp>>
    /\ last' = NoRequest

\* ChannelTypingIndicator::drop aborts the task; for Zulip it spawns "stop".
\* The aborted request may be on its way already.
DropIndicator ==
    /\ task = "running"
    /\ task' = "aborted"
    /\ wire' = IF to = "people" THEN wire \cup {"stop"} ELSE wire
    /\ UNCHANGED <<sending, lamp>>
    /\ last' = NoRequest

\* A typing request arrives, in any order, or is lost; an error is logged.
Arrives ==
    \E w \in wire, done \in BOOLEAN, outcome \in {"ok", "error"} :
        /\ Request(IF to = "people" THEN "typing" ELSE "sendChatAction", done, outcome)
        /\ wire' = wire \ {w}
        /\ lamp' = IF done THEN w = "start" ELSE lamp
        /\ UNCHANGED <<sending, task>>

\* The server forgets a typing notice that is not repeated.
LampExpires ==
    /\ lamp /\ lamp' = FALSE
    /\ UNCHANGED <<sending, task, wire>>
    /\ last' = NoRequest

Next ==
    \/ OtherRequest \/ Send \/ SendFormatted \/ TooLong \/ SendPiece
    \/ StartTyping \/ Refresh \/ DropIndicator \/ Arrives \/ LampExpires

\* Requests arrive or are lost, and the server's notices expire.
Fairness == WF_vars(Arrives) /\ WF_vars(LampExpires)
Spec == Init /\ [][Next]_vars /\ Fairness

-----------------------------------------------------------------------------
(***************************************************************************)
(* Properties.                                                             *)
(***************************************************************************)
\* Nobody reads an answer twice: the formatted rendition and the plain one are
\* never both shown, and no piece is repeated or shown out of its turn.
ShownOnceInOrder ==
    \/ shown \in {<<>>, <<Formatted>>}
    \/ /\ Len(shown) <= Len(parts)
       /\ shown = SubSeq(parts, 1, Len(shown))

\* A call that returns Ok has shown everything it meant to show.
OkShowsEverything ==
    result = "ok" => shown = <<Formatted>> \/ (parts # <<>> /\ shown = parts)

\* Text without wide characters is cut without loss or repetition, whatever
\* the rendition and the channel.
NarrowTextIsWhole ==
    (\A i \in DOMAIN text : text[i] # "wide") /\ parts # <<>> => Tiles(parts, Len(text))

\* Zulip's chunks, counted in characters throughout, are whole for every text.
ZulipTextIsWhole == to \in Zulip /\ parts # <<>> => Tiles(parts, Len(text))

\* No request exceeds the channel's limit, and no piece is refused for its
\* length: the headroom of split_long_message covers the prefix.
PiecesFit ==
    /\ longest <= IF to = "chat" THEN MaxLength ELSE ZulipLimit
    /\ pc = "pieces" /\ to = "chat" => MessageLength(sent + 1) <= MaxLength

\* What a reader sees is the text: its pieces fit, lose nothing and come once
\* and in order, whatever fails or is refused on the way.
TextIsWhole == ShownOnceInOrder /\ NarrowTextIsWhole /\ ZulipTextIsWhole /\ PiecesFit

\* A method that reports success had its request carried out, except for
\* delete_webhook, which takes a refusal for "was not set".
SuccessIsReal ==
    last.outcome \in {"ok", "empty", "none"} /\ last.call \notin {"deleteWebhook", "none"} => last.done

\* A body that names the expired queue always reaches ZulipPoll as such, and
\* nothing else does: it registers anew exactly when it must.
ExpiredQueueIsRecognised ==
    last.call = "events" =>
        (last.outcome = "expired") = (last.answer.says = "BAD_EVENT_QUEUE_ID")

\* What a call returns is what happened, whatever the server answered.
ResultsAreTrue == OkShowsEverything /\ SuccessIsReal /\ ExpiredQueueIsRecognised

\* Once the indicator is dropped the conversation stops showing it, even if a
\* refresh overtakes the stop.
LampGoesOut == task = "aborted" ~> [](~lamp /\ wire = {})

\* split_long_message: "Split a long message into chunks that fit Telegram's
\* 4096-char limit", for every text.
EveryTextIsWhole == parts # <<>> => Tiles(parts, Len(text))
=============================================================================
