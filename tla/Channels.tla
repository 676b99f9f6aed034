------------------------------- MODULE Channels -------------------------------
(***************************************************************************)
(* Inbound, History and Outbound side by side: a message's way in, what    *)
(* the model is sent for it, and an answer's way out.  They share no       *)
(* state, so a behaviour is one of the three while the others rest at      *)
(* their start; every property is about one of them and holds of it at     *)
(* rest.                                                                   *)
(***************************************************************************)
EXTENDS HistoryInvariants

CONSTANTS
    Texts, MaxLength, Limit, ZulipLimit, PrefixLength,   \* as in Outbound
    People, Bot, MaxBytes, MaxFiles                      \* as in Inbound

VARIABLES
    part,   \* the part that runs
    outPc, to, text, format, pieces, sent, shown, longest, result, task, wire, lamp, last,
    inPc, channel, kind, sender, people, mentioned, allowed, words, files, at,
    collected, fetched, links, prompt, inParts, infos, address, outcome

outbound == <<outPc, to, text, format, pieces, sent, shown, longest, result,
              task, wire, lamp, last>>
inbound == <<inPc, channel, kind, sender, people, mentioned, allowed, words, files, at,
             collected, fetched, links, prompt, inParts, infos, address, outcome>>

Out == INSTANCE Outbound WITH pc <- outPc, parts <- pieces
In == INSTANCE Inbound WITH pc <- inPc, parts <- inParts

ASSUME ChannelsAssumption == In!InboundAssumption /\ Out!OutboundAssumption

ChannelsInit ==
    /\ part \in {"in", "history", "out"}
    /\ Init /\ In!Init /\ Out!Init
    /\ part # "history" => rows = <<>>

ChannelsNext ==
    \/ part = "in" /\ In!Next /\ UNCHANGED <<part, vars, outbound>>
    \/ part = "history" /\ Next /\ UNCHANGED <<part, inbound, outbound>>
    \/ part = "out" /\ Out!Next /\ UNCHANGED <<part, vars, inbound>>

channelsVars == <<part, vars, inbound, outbound>>

\* Outbound's fair actions are not enabled while it rests.
ChannelsSpec == ChannelsInit /\ [][ChannelsNext]_channelsVars /\ Out!Fairness

-----------------------------------------------------------------------------
(***************************************************************************)
(* The properties of Inbound and Outbound, under names of their own.       *)
(***************************************************************************)
\* What reaches the model was let in, fits and is what it claims.
ForwardedIsSound == In!TypeOK /\ In!ForwardedIsSound
\* Words, files, failures and readers of the answer survive.
NothingIsLost == In!NothingIsLost
\* An answer's pieces fit, lose nothing and come once and in order.
TextIsWhole == Out!TypeOK /\ Out!TextIsWhole
\* What a call to a channel returns is what happened.
ResultsAreTrue == Out!ResultsAreTrue
\* A dropped typing indicator goes out.
LampGoesOut == Out!LampGoesOut
\* split_long_message cuts every text without loss or repetition.
EveryTextIsWhole == Out!EveryTextIsWhole
=============================================================================
