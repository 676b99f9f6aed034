------------------------------- MODULE BotApi -------------------------------
(***************************************************************************)
(* What the requests of TelegramBot and ZulipBot return.  Every method     *)
(* reads the response by the same ladder: the response arrives, its body   *)
(* is read, its status is a success, its body parses, it says ok (Telegram)*)
(* or "success" (Zulip), and it has the data the method needs.  The        *)
(* methods differ in the rungs they have.                                  *)
(***************************************************************************)

Calls == {"getUpdates", "sendMessage", "setMyCommands", "setWebhook", "sendChatAction",
          "deleteWebhook", "getMe", "getFile",
          "users/me", "messages", "typing", "presence", "register", "events"}

\* An answer: how much of it arrived, its status, whether its body parses,
\* whether that says ok, whether the data is there, and the error it names.
Answers ==
    {a \in [got : {"nothing", "head", "body"}, status : BOOLEAN, json : BOOLEAN,
            ok : BOOLEAN, data : BOOLEAN, says : {"", "parse", "BAD_EVENT_QUEUE_ID"}] :
        /\ a.got # "body" => ~a.json
        /\ a.got = "nothing" => ~a.status
        /\ ~a.json => ~a.ok /\ ~a.data /\ a.says = ""
        /\ a.ok => a.says = ""
        /\ ~a.ok => ~a.data}

\* A server that says ok has carried the request out; one that names an error
\* has not.  Any other answer, or none, leaves it open.
Honest(a, done) ==
    /\ a.ok => done
    /\ a.json /\ ~a.ok => ~done

Parsed(a) == a.got = "body" /\ a.status /\ a.json
Accepted(a) == Parsed(a) /\ a.ok
Needs(condition) == IF condition THEN "ok" ELSE "error"

\* A missing result is an empty list of updates.
GetUpdates(a) == IF Accepted(a) /\ ~a.data THEN "empty" ELSE Needs(Accepted(a))

\* is_telegram_parse_error reads the error's text, which holds the body of a
\* bad status and the description of a result that is not ok.
SendMessage(a) ==
    IF a.got = "body" /\ ~Accepted(a) /\ a.says = "parse" THEN "parse"
    ELSE Needs(Accepted(a) /\ a.data)

SetMyCommands(a) == Needs(Accepted(a))
SetWebhook(a) == Needs(Accepted(a))
SendTypingAction(a) == Needs(Accepted(a))
\* A result that is not ok is only logged: no webhook may have been set.
DeleteWebhook(a) == Needs(Parsed(a))
GetMe(a) == Needs(Accepted(a) /\ a.data)
\* A result without file_path is a file Telegram will not serve.
GetFile(a, path) ==
    IF Accepted(a) /\ a.data /\ ~path THEN "none" ELSE Needs(Accepted(a) /\ a.data)

\* ZulipBot::get_me reads the user without testing "result".
ZulipGetMe(a) == Needs(Parsed(a) /\ a.data)
ZulipSendMessage(a) == Needs(Accepted(a) /\ a.data)
SendTypingNotification(a) == Needs(Accepted(a))
UpdatePresence(a) == Needs(Accepted(a))
\* Success without queue_id or last_event_id is an error.
RegisterQueue(a) == Needs(Accepted(a) /\ a.data)

\* The expired queue is named under a bad status (current servers) or a good one.
GetEvents(a) ==
    IF a.got = "body" /\ a.json /\ ~Accepted(a) /\ a.says = "BAD_EVENT_QUEUE_ID"
      THEN "expired"
      ELSE Needs(Accepted(a))

Outcomes(c, a) ==
    CASE c = "getUpdates" -> {GetUpdates(a)}
      [] c = "sendMessage" -> {SendMessage(a)}
      [] c = "setMyCommands" -> {SetMyCommands(a)}
      [] c = "setWebhook" -> {SetWebhook(a)}
      [] c = "sendChatAction" -> {SendTypingAction(a)}
      [] c = "deleteWebhook" -> {DeleteWebhook(a)}
      [] c = "getMe" -> {GetMe(a)}
      [] c = "getFile" -> {GetFile(a, path) : path \in BOOLEAN}
      [] c = "users/me" -> {ZulipGetMe(a)}
      [] c = "messages" -> {ZulipSendMessage(a)}
      [] c = "typing" -> {SendTypingNotification(a)}
      [] c = "presence" -> {UpdatePresence(a)}
      [] c = "register" -> {RegisterQueue(a)}
      [] c = "events" -> {GetEvents(a)}
=============================================================================
