--------------------------------- MODULE Host ---------------------------------
(***************************************************************************)
(* The parts that deal with the operating system side by side: FileTools,  *)
(* Shell and Diagnostics.  They share no state, so a behaviour is one of   *)
(* them running while the others rest at their start; every property is    *)
(* about its own part and holds of a resting one.                          *)
(***************************************************************************)
EXTENDS FileTools

CONSTANTS
    MinTimeout, MaxTimeout, MinOutput, MaxOutput,   \* as in Shell
    Bots, Clients, Limit, MaxStarts                 \* as in Diagnostics

VARIABLES
    running,   \* the part that runs
    shellStage, mode, timeout, room, elapsed, child, code, behind, printed, report,
    socket, at, listening, loop, starts, raced, peer, conn, wrote

shell == <<shellStage, mode, timeout, room, elapsed, child, code, behind, printed, report>>
diagnostics == <<socket, at, listening, loop, starts, raced, peer, conn, wrote>>

Sh == INSTANCE Shell WITH stage <- shellStage
Di == INSTANCE Diagnostics WITH path <- socket

ASSUME HostAssumption == Sh!ShellAssumption /\ Di!DiagnosticsAssumption

HostInit ==
    /\ running \in {"files", "shell", "diagnostics"}
    /\ Init /\ Sh!Init /\ Di!Init
    /\ running # "files" => canonical
    /\ running # "diagnostics" => socket = "none"

HostNext ==
    \/ running = "files" /\ Next /\ UNCHANGED <<running, shell, diagnostics>>
    \/ running = "shell" /\ Sh!Next /\ UNCHANGED <<running, vars, diagnostics>>
    \/ running = "diagnostics" /\ Di!Next /\ UNCHANGED <<running, vars, shell>>

hostVars == <<running, vars, shell, diagnostics>>

\* No fair action of a resting part is enabled.
HostSpec == HostInit /\ [][HostNext]_hostVars /\ Sh!Fairness /\ Di!Fairness

-----------------------------------------------------------------------------
(***************************************************************************)
(* The properties of each part, under names of their own.                  *)
(***************************************************************************)
\* Files hold what was written to them, within their limits.
FilesAreKept == TypeOK /\ FilesAreSafe
\* What a shell call reports is true, its process has its time and does not outlive
\* it, and in a sandbox nothing else does.
CommandsAreContained == Sh!TypeOK /\ Sh!CommandsAreContained
\* Starts, stops and crashes take no socket or file from its owner.
NamesAreSafe == []Di!TypeOK /\ Di!NamesAreSafe
\* Every shell call returns and every client with a request hears of it.
RequestsEnd == Sh!CallsReturn /\ Di!TalkersAreTold
=============================================================================
