------------------------------- MODULE Inbound -------------------------------
(***************************************************************************)
(* What becomes of a received message before the agent sees it:            *)
(* dispatch_update and build_inbound_message for Telegram,                 *)
(* handle_zulip_message and process_inbound_attachments for Zulip.  A      *)
(* message is tested against the policy, its files are fetched one after   *)
(* the other under a byte limit, examined and turned into parts of the     *)
(* prompt.                                                                 *)
(*                                                                         *)
(* A file is known by the type its sender claims and the kind of its name; *)
(* what is in it shows only once it is fetched.  Servers and the HEIC      *)
(* decoder are external.                                                   *)
(***************************************************************************)
EXTENDS Naturals, Sequences, FiniteSets

CONSTANTS
    People,     \* participants of private conversations
    Bot,        \* the bot's own account
    MaxBytes,   \* max_attachment_bytes, in units of a chunk
    MaxFiles    \* bound: links in a Zulip message

InboundAssumption ==
    /\ Bot \notin People /\ People # {}
    /\ MaxBytes \in Nat \ {0} /\ MaxFiles \in Nat \ {0}

Lengths == 0..MaxBytes + 1                       \* bound: a unit over the limit
Mimes == {"none", "image", "pdf", "heic", "text", "other"}
\* Kinds of names: .txt, .JSON (a text type in capitals), .heic, .png, .webp ...
FileNames == {"none", "text", "DATA", "heic", "image", "webp", "pdf", "other"}
\* RIFF is the container of WebP, and of sound and video.
Contents == {"image", "webp", "riff", "pdf", "heic", "text", "junk"}
Files == [role : {"photo", "document", "link"}, mime : Mimes, name : FileNames, size : Lengths]

VARIABLES
    pc,         \* "idle", "next", "getFile", "stream", "examine" or "done"
    channel,
    kind,       \* "chat", "stream", "direct", "group", or "edited" (Telegram)
    sender,
    people,     \* participants of a private conversation
    mentioned,  \* the bot is mentioned
    allowed,    \* the policy allows conversation and sender
    words,      \* the message has a caption or text of its own
    files,
    at,         \* the file in work
    collected,  \* bytes of it in memory
    fetched,    \* files a request was made for
    links,      \* links still in the text (Zulip)
    prompt,     \* user_text: a set of "words", "warning", "default", "reference"
    parts,      \* attachment_parts
    infos,      \* attachment_infos
    address,    \* people the answer goes to; {} for a chat or stream
    outcome     \* "none", "ignored", "denied" or "handled"

message == <<channel, kind, sender, people, mentioned, allowed, words, files>>
results == <<links, prompt, parts, infos>>
vars == <<pc, message, at, collected, fetched, results, address, outcome>>

Whats == {"text", "warning", "image", "pdf", "jpeg"}

TypeOK ==
    /\ pc \in {"idle", "next", "getFile", "stream", "examine", "done"}
    /\ channel \in {"telegram", "zulip"}
    /\ kind \in {"chat", "edited", "stream", "direct", "group"}
    /\ sender \in People \cup {Bot} /\ people \subseteq People \cup {Bot}
    /\ mentioned \in BOOLEAN /\ allowed \in BOOLEAN /\ words \in BOOLEAN
    /\ files \in Seq(Files)
    /\ at \in 1..MaxFiles + 1
    /\ collected \in 0..MaxBytes
    /\ fetched \subseteq 1..MaxFiles /\ links \subseteq 1..MaxFiles
    /\ prompt \subseteq {"words", "warning", "default", "reference"}
    /\ parts \in Seq([file : 1..MaxFiles, what : Whats, of : Contents \cup {"none"}, size : Lengths])
    /\ infos \in Seq([file : 1..MaxFiles, downloaded : BOOLEAN])
    /\ address \subseteq People \cup {Bot}
    /\ outcome \in {"none", "ignored", "denied", "handled"}

-----------------------------------------------------------------------------
\* classify_attachment: the type first, then the name.
Classify(f) ==
    IF f.mime \in {"image", "pdf", "heic"} THEN "Binary"
    ELSE IF f.mime = "text" \/ f.name \in {"text", "DATA"} THEN "Text"
    ELSE IF f.name = "heic" THEN "Binary"
    ELSE "Unsupported"

\* inspect_mime_signature, without HEIC, which is converted before.
Signature(content) ==
    CASE content \in {"image", "webp"} -> "image"
      [] content = "pdf" -> "pdf"
      [] OTHER -> "none"

\* Mutant: every extension is trusted.
InferByName(name, content) ==
    CASE name \in {"image", "webp"} -> "image" [] name = "DATA" -> "data"
      [] name = "other" -> "octets" [] OTHER -> name

\* infer_mime_type of Zulip: names of images and PDFs must match the first
\* bytes, four of them for WebP; text is trusted; other names follow the bytes.
InferMimeType(name, content) ==
    LET riff == content \in {"webp", "riff"}
    IN  CASE name = "heic" -> "heic"
          [] name = "image" -> IF content = "image" THEN "image" ELSE "octets"
          [] name = "webp" -> IF riff THEN "image" ELSE "octets"
          [] name = "pdf" -> IF content = "pdf" THEN "pdf" ELSE "octets"
          [] name = "text" -> "text"
          [] name = "DATA" -> "data"
          [] OTHER -> IF content = "heic" THEN "heic"
                      ELSE IF content = "image" \/ riff THEN "image"
                      ELSE IF content = "pdf" THEN "pdf" ELSE "octets"

\* is_heic_mime, is_heic_filename, inspect_heic_signature.
IsHeic(mime, name, content) == "heic" \in {mime, name, content}

\* convert_heic_to_jpeg decodes any image, or fails.
Decodable(content) == content \in {"heic", "image", "webp"}

\* resolve_zulip_address_for_user: everyone but the bot.
AddressOf(k, s, p) ==
    IF k \in {"chat", "stream"} THEN {}
    ELSE IF p \ {Bot} = {} THEN {s} ELSE p \ {Bot}

\* addressed_zulip_content; a Telegram update without message is an edit.
Addressed(k, s, m) ==
    /\ s # Bot /\ k # "edited"
    /\ k \in {"stream", "group"} => m

Part(what, content, size) ==
    parts' = Append(parts, [file |-> at, what |-> what, of |-> content, size |-> size])
Info(downloaded) == infos' = Append(infos, [file |-> at, downloaded |-> downloaded])
Proceed == pc' = "next" /\ at' = at + 1 /\ collected' = 0

Init ==
    /\ pc = "idle" /\ channel = "telegram" /\ kind = "chat" /\ sender = Bot /\ people = {}
    /\ mentioned = FALSE /\ allowed = FALSE /\ words = FALSE /\ files = <<>>
    /\ at = 1 /\ collected = 0 /\ fetched = {} /\ links = {} /\ prompt = {}
    /\ parts = <<>> /\ infos = <<>> /\ address = {} /\ outcome = "none"

\* A message comes in: identity and address are resolved and the policy is
\* tested before anything is fetched.
Admit ==
    /\ address' = IF Addressed(kind', sender', mentioned')
                    THEN AddressOf(kind', sender', people') ELSE {}
    /\ \/ ~Addressed(kind', sender', mentioned') /\ pc' = "done" /\ outcome' = "ignored"
       \/ /\ Addressed(kind', sender', mentioned')
          /\ IF allowed' THEN pc' = "next" /\ UNCHANGED outcome
                         ELSE pc' = "done" /\ outcome' = "denied"
    /\ UNCHANGED <<at, collected, fetched, parts, infos>>

\* A document as its sender describes it; a photo is a JPEG without a name.
TelegramFiles ==
    {f \in Files : f.role = "document"} \cup
    {f \in Files : f.role = "photo" /\ f.mime = "image" /\ f.name = "none"}

\* dispatch_update: a photo (the largest size), a document, or neither.
TelegramMessage ==
    /\ pc = "idle"
    /\ channel' = "telegram" /\ kind' \in {"chat", "edited"}
    /\ sender' \in People /\ people' = {} /\ mentioned' = FALSE
    /\ allowed' \in BOOLEAN
    /\ files' \in {<<>>} \cup {<<f>> : f \in TelegramFiles}
    /\ words' \in IF files' = <<>> THEN {TRUE} ELSE BOOLEAN
    /\ links' = {} /\ prompt' = {}
    /\ Admit

\* handle_zulip_message: links to uploads within the text.
ZulipMessage ==
    /\ pc = "idle"
    /\ channel' = "zulip" /\ kind' \in {"stream", "direct", "group"}
    /\ sender' \in People \cup {Bot}
    /\ \E others \in SUBSET People :
        /\ Cardinality(others \cup ({sender'} \ {Bot})) \in
             (CASE kind' = "direct" -> {1} [] kind' = "group" -> 2..Cardinality(People) [] OTHER -> {0, 1})
        /\ people' = IF kind' = "stream" THEN {} ELSE others \cup {sender', Bot}
    /\ mentioned' \in BOOLEAN /\ allowed' \in BOOLEAN /\ words' \in BOOLEAN
    /\ \E n \in 0..MaxFiles, name \in [1..MaxFiles -> FileNames \ {"none"}] :
        files' = [i \in 1..n |-> [role |-> "link", mime |-> "none", name |-> name[i], size |-> 0]]
    /\ links' = DOMAIN files' /\ prompt' = IF words' THEN {"words"} ELSE {}
    /\ Admit

-----------------------------------------------------------------------------
\* An unsupported document only leaves a warning, put before the words.
Unsupported ==
    /\ pc = "next" /\ channel = "telegram" /\ at <= Len(files)
    /\ Classify(files[at]) = "Unsupported"
    /\ prompt' = prompt \cup {"warning"} \cup (IF words THEN {"words"} ELSE {})
    /\ Info(FALSE)
    /\ Proceed
    /\ UNCHANGED <<message, fetched, links, parts, address, outcome>>

\* A file announced as too large is not fetched.
TooLarge ==
    /\ pc = "next" /\ channel = "telegram" /\ at <= Len(files)
    /\ Classify(files[at]) # "Unsupported" /\ files[at].size > MaxBytes
    /\ Part("warning", "none", 0) /\ Info(FALSE)
    /\ Proceed
    /\ UNCHANGED <<message, fetched, links, prompt, address, outcome>>

\* The first request for a file: get_file, or the download itself.  Zulip's
\* link is replaced in the text whatever follows.
Fetch ==
    /\ pc = "next" /\ at <= Len(files)
    /\ channel = "telegram" =>
         Classify(files[at]) # "Unsupported" /\ files[at].size <= MaxBytes
    /\ fetched' = fetched \cup {at}
    /\ pc' = IF channel = "telegram" THEN "getFile" ELSE "stream"
    /\ links' = links \ {at}
    /\ prompt' = IF channel = "zulip" THEN prompt \cup {"reference"} ELSE prompt
    /\ UNCHANGED <<message, at, collected, parts, infos, address, outcome>>

\* get_file: a path, or none for a file Telegram will not serve.
FileFound ==
    /\ pc = "getFile"
    /\ pc' = "stream"
    /\ UNCHANGED <<message, at, collected, fetched, results, address, outcome>>
FileMissing ==
    /\ pc = "getFile"
    /\ Part("warning", "none", 0) /\ Info(FALSE)
    /\ Proceed
    /\ UNCHANGED <<message, fetched, links, prompt, address, outcome>>

\* Mutant: a failed download leaves nothing to read.
FailedSilently ==
    /\ Info(FALSE)
    /\ Proceed
    /\ UNCHANGED <<message, fetched, links, prompt, parts, address, outcome>>

\* A file that could not be had: Telegram's prompt says so, Zulip's does not.
Failed ==
    /\ Info(FALSE)
    /\ IF channel = "telegram" THEN Part("warning", "none", 0) ELSE UNCHANGED parts
    /\ Proceed
    /\ UNCHANGED <<message, fetched, links, prompt, address, outcome>>

\* get_file or the download fails: no connection, a bad status, a length or
\* a stream over the limit, a broken stream.
DownloadFails ==
    /\ pc \in {"getFile", "stream"}
    /\ Failed

\* A chunk within the limit; one beyond it is DownloadFails.
Chunk ==
    /\ pc = "stream"
    /\ \E n \in 1..MaxBytes :
        /\ collected + n <= MaxBytes
        /\ collected' = collected + n
    /\ UNCHANGED <<pc, message, at, fetched, results, address, outcome>>

StreamEnds ==
    /\ pc = "stream"
    /\ pc' = "examine"
    /\ UNCHANGED <<message, at, collected, fetched, results, address, outcome>>

\* A HEIC picture is forwarded as JPEG or not at all.
Convert(content) ==
    \/ /\ Decodable(content)
       /\ \E size \in Lengths :
            IF size > MaxBytes THEN Part("warning", "none", 0) ELSE Part("jpeg", content, size)
       /\ Info(TRUE)
    \/ Part("warning", "none", 0) /\ Info(channel = "telegram")

\* process_attachment after the download: HEIC, then the signature decides;
\* text must be UTF-8.  (Only a picture or a PDF by type is binary without
\* being HEIC, so the last branch of the code, any other binary, is not taken.)
ExamineTelegram ==
    /\ pc = "examine" /\ channel = "telegram"
    /\ \E content \in Contents :
        LET f == files[at]
            binary == Classify(f) = "Binary"
            heic == binary /\ IsHeic(f.mime, f.name, content)
            type == Signature(content)
        IN  \/ heic /\ Convert(content)
            \/ binary /\ ~heic /\ type # "none" /\ Part(type, content, collected) /\ Info(TRUE)
            \/ binary /\ ~heic /\ type = "none" /\ Part("warning", "none", 0) /\ Info(FALSE)
            \/ ~binary /\ content = "text" /\ Part("text", content, collected) /\ Info(TRUE)
            \/ ~binary /\ content # "text" /\ Part("warning", "none", 0) /\ Info(FALSE)
    /\ Proceed
    /\ UNCHANGED <<message, fetched, links, prompt, address, outcome>>

\* process_inbound_attachments after the download: text by name, then HEIC,
\* image, PDF, and a placeholder for the rest.
ExamineZulip ==
    /\ pc = "examine" /\ channel = "zulip"
    /\ \E content \in Contents :
        LET name == files[at].name
            type == InferMimeType(name, content)
        IN  IF type = "text" THEN Part("text", content, collected) /\ Info(TRUE)
            ELSE IF IsHeic(type, name, content) THEN Convert(content)
            ELSE /\ IF type \in {"image", "pdf"} THEN Part(type, content, collected)
                                                  ELSE Part("warning", "none", 0)
                 /\ Info(TRUE)
    /\ Proceed
    /\ UNCHANGED <<message, fetched, links, prompt, address, outcome>>

\* build_inbound_message: words, else the default prompt for bare files,
\* unless a warning was set, which holds the words already.
Handled ==
    /\ pc = "next" /\ at = Len(files) + 1
    /\ pc' = "done" /\ outcome' = "handled"
    /\ prompt' = IF channel = "zulip" \/ "warning" \in prompt THEN prompt
                 ELSE IF words THEN {"words"}
                 ELSE IF parts # <<>> THEN {"default"} ELSE {}
    /\ UNCHANGED <<message, at, collected, fetched, links, parts, infos, address>>

Next ==
    \/ TelegramMessage \/ ZulipMessage \/ Unsupported \/ TooLarge \/ Fetch
    \/ FileFound \/ FileMissing \/ DownloadFails \/ Chunk \/ StreamEnds
    \/ ExamineTelegram \/ ExamineZulip \/ Handled

Spec == Init /\ [][Next]_vars

-----------------------------------------------------------------------------
(***************************************************************************)
(* Properties.                                                             *)
(***************************************************************************)
\* Whoever the policy does not allow, and whoever does not talk to the bot,
\* causes no request: the test comes before every download.
StrangersFetchNothing ==
    fetched # {} => allowed /\ Addressed(kind, sender, mentioned)

\* Neither a download nor a converted picture exceeds the limit, whatever the
\* sender claims and the decoder makes of it.
NothingTooLargeIsForwarded == \A i \in DOMAIN parts : parts[i].size <= MaxBytes

\* What is forwarded as a picture or a PDF is one, whatever its name and type
\* say; of Zulip's files a RIFF container may also be sound or video.
BinariesAreVerified ==
    \A i \in DOMAIN parts :
        LET p == parts[i]
        IN  /\ p.what = "pdf" => p.of = "pdf"
            /\ p.what = "jpeg" => Decodable(p.of)
            /\ p.what = "image" =>
                 p.of \in {"image", "webp"} \/ (channel = "zulip" /\ p.of = "riff")

\* What reaches the model from outside was let in, fits and is what it claims.
ForwardedIsSound ==
    StrangersFetchNothing /\ NothingTooLargeIsForwarded /\ BinariesAreVerified

\* A handled message has one entry per file, in order, and no link is left.
EveryFileIsListed ==
    outcome = "handled" =>
        /\ Len(infos) = Len(files) /\ \A i \in DOMAIN infos : infos[i].file = i
        /\ links = {}

\* Telegram's prompt names every file that was not forwarded, in a part or in
\* the text; Zulip's names those that were downloaded.
FailuresAreTold ==
    outcome = "handled" =>
        \A i \in DOMAIN files :
            \/ \E j \in DOMAIN parts : parts[j].file = i
            \/ channel = "telegram" /\ "warning" \in prompt
            \/ channel = "zulip" /\ ~infos[i].downloaded /\ "reference" \in prompt

\* The sender's words reach the agent whatever happens to the files, and a
\* message of files alone never becomes an empty prompt.
WordsSurvive ==
    outcome = "handled" =>
        /\ words => "words" \in prompt
        /\ files # <<>> => prompt # {}

\* The answer to a private message goes to exactly the others in it: everyone
\* who wrote to the bot there, and never the bot.
AnswersReachTheConversation ==
    outcome = "handled" /\ kind \in {"direct", "group"} =>
        address = people \ {Bot} /\ sender \in address

\* Neither words, files, failures nor readers of the answer are lost on the way.
NothingIsLost ==
    /\ EveryFileIsListed /\ FailuresAreTold
    /\ WordsSurvive /\ AnswersReachTheConversation
=============================================================================
