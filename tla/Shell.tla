-------------------------------- MODULE Shell --------------------------------
(***************************************************************************)
(* shell_execute (tools/shell.rs): one call, the process it starts, what   *)
(* that process leaves running behind it, and the timer.  The call ends    *)
(* when the process has exited AND both pipes are closed, or when the time *)
(* is up.  A process left in the background keeps the pipes open unless    *)
(* its output is redirected (cmd >/dev/null 2>&1 &).  Processes and        *)
(* bubblewrap are external.                                                *)
(***************************************************************************)
EXTENDS Integers

CONSTANTS
    MinTimeout, MaxTimeout,   \* 1 and 300 seconds
    MinOutput, MaxOutput      \* 1024 and 10485760 bytes

ShellAssumption ==
    /\ MinTimeout \in Nat \ {0} /\ MaxTimeout \in Nat /\ MinTimeout <= MaxTimeout
    /\ MinOutput \in Nat \ {0} /\ MaxOutput \in Nat /\ MinOutput <= MaxOutput

VARIABLES
    stage,     \* "idle", "spawn", "run", "done" or "dead" (the bot was killed)
    mode,      \* sandbox_mode
    timeout,   \* timeout_secs, clamped
    room,      \* max_output_bytes, clamped
    elapsed,   \* seconds since the process started
    child,     \* the process: "none", "running", "exited" or "killed"
    code,      \* its exit code: 0, 1, or -1 where it has none
    behind,    \* a background process of it: "none", "attached" (it runs and has
               \* the pipes open), "detached" (it runs without them) or "gone"
    printed,   \* bytes in the pipes, which the call collects
    report     \* what the call returned

vars == <<stage, mode, timeout, room, elapsed, child, code, behind, printed, report>>

Sandboxed == mode \in {"bwrap", "bwrap-strict"}
NoReport == [how |-> "none", code |-> 0, length |-> 0, success |-> FALSE]

TypeOK ==
    /\ stage \in {"idle", "spawn", "run", "done", "dead"}
    /\ mode \in {"none", "bwrap", "bwrap-strict", "other"}
    /\ timeout \in MinTimeout..MaxTimeout
    /\ room \in MinOutput..MaxOutput
    /\ elapsed \in 0..MaxTimeout
    /\ child \in {"none", "running", "exited", "killed"}
    /\ code \in {-1, 0, 1}
    /\ behind \in {"none", "attached", "detached", "gone"}
    /\ printed \in 0..MaxOutput + 1
    /\ report \in [how : {"none", "refused", "failed", "completed", "timed out"},
                   code : {-1, 0, 1}, length : 0..MaxOutput, success : BOOLEAN]

Init ==
    /\ stage = "idle" /\ mode = "none" /\ timeout = MinTimeout /\ room = MinOutput
    /\ elapsed = 0 /\ child = "none" /\ code = 0 /\ behind = "none" /\ printed = 0
    /\ report = NoReport

\* u64::clamp.
Clamp(n, low, high) == IF n < low THEN low ELSE IF n > high THEN high ELSE n

\* validate_command: the deny list, then the allow list if there is one.
Validates(allowlist, allowed, denied) == ~denied /\ (allowlist => allowed)

Return(how, exit, length, success) ==
    /\ stage' = "done"
    /\ report' = [how |-> how, code |-> exit, length |-> length, success |-> success]

\* The checks of execute: the command, the working directory, the network
\* policy, the sandbox mode and, for bubblewrap, its presence.
Execute ==
    /\ stage = "idle"
    /\ mode' \in {"none", "bwrap", "bwrap-strict", "other"}
    /\ \E asked \in 0..MaxTimeout + 1 : timeout' = Clamp(asked, MinTimeout, MaxTimeout)
    /\ \E asked \in 0..MaxOutput + 1 : room' = Clamp(asked, MinOutput, MaxOutput)
    /\ \E allowlist, allowed, denied, inside, network, available \in BOOLEAN :
        IF /\ Validates(allowlist, allowed, denied) /\ inside /\ network
           /\ mode' # "other"
           /\ mode' # "none" => available
          THEN stage' = "spawn" /\ UNCHANGED report
          ELSE Return("refused", 0, 0, FALSE)
    /\ UNCHANGED <<elapsed, child, code, behind, printed>>

\* The workspace is made and the process started, or not.
Spawn ==
    /\ stage = "spawn"
    /\ \/ stage' = "run" /\ child' = "running" /\ UNCHANGED report
       \/ Return("failed", 0, 0, FALSE) /\ UNCHANGED child
    /\ UNCHANGED <<mode, timeout, room, elapsed, code, behind, printed>>

-----------------------------------------------------------------------------
\* The process prints, puts a process in the background and exits.  Bound:
\* one byte beyond the largest limit.
Prints ==
    /\ child = "running" \/ behind = "attached"
    /\ stage = "run"
    /\ printed <= MaxOutput
    /\ printed' = printed + 1
    /\ UNCHANGED <<stage, mode, timeout, room, elapsed, child, code, behind, report>>

Forks ==
    /\ child = "running" /\ behind = "none"
    /\ behind' = "attached"
    /\ UNCHANGED <<stage, mode, timeout, room, elapsed, child, code, printed, report>>

\* The background process closes or redirects its output, at its start or later.
Releases ==
    /\ behind = "attached"
    /\ behind' = "detached"
    /\ UNCHANGED <<stage, mode, timeout, room, elapsed, child, code, printed, report>>

InBackground == behind \in {"attached", "detached"}

\* A process that ends takes its PID namespace with it.
Gone == IF Sandboxed /\ InBackground THEN "gone" ELSE behind

\* It exits with a code or dies of a signal.
Exits ==
    /\ child = "running"
    /\ child' = "exited"
    /\ code' \in {-1, 0, 1}
    /\ behind' = Gone
    /\ UNCHANGED <<stage, mode, timeout, room, elapsed, printed, report>>

BackgroundEnds ==
    /\ InBackground
    /\ behind' = "gone"
    /\ UNCHANGED <<stage, mode, timeout, room, elapsed, child, code, printed, report>>

Tick ==
    /\ stage = "run" /\ elapsed < timeout
    /\ elapsed' = elapsed + 1
    /\ UNCHANGED <<stage, mode, timeout, room, child, code, behind, printed, report>>

\* build_tool_output, truncate_output.
Success == code = 0 /\ printed <= room
Length == IF printed > room THEN room ELSE printed

\* Mutant: the output is taken as soon as the process has exited.
CompletesAtExit ==
    /\ stage = "run" /\ child = "exited"
    /\ Return("completed", code, Length, Success)
    /\ UNCHANGED <<mode, timeout, room, elapsed, child, code, behind, printed>>

\* cmd.output(): the exit and the end of both pipes.  A detached background
\* process does not hold the call up, and lives on.
Completes ==
    /\ stage = "run" /\ child = "exited" /\ behind # "attached"
    /\ Return("completed", code, Length, Success)
    /\ UNCHANGED <<mode, timeout, room, elapsed, child, code, behind, printed>>

\* The time is up: the future is dropped, which kills the process itself
\* (kill_on_drop) and what it left behind only in a sandbox.
TimesOut ==
    /\ stage = "run" /\ elapsed = timeout
    /\ Return("timed out", -1, 0, FALSE)
    /\ child' = IF child = "running" THEN "killed" ELSE child
    /\ behind' = Gone
    /\ UNCHANGED <<mode, timeout, room, elapsed, code, printed>>

\* The bot is killed: --die-with-parent ends a sandbox; a process without one
\* lives on.
BotDies ==
    /\ stage = "run"
    /\ stage' = "dead"
    /\ child' = IF Sandboxed /\ child = "running" THEN "killed" ELSE child
    /\ behind' = Gone
    /\ UNCHANGED <<mode, timeout, room, elapsed, code, printed, report>>

Next ==
    \/ Execute \/ Spawn \/ Prints \/ Forks \/ Releases \/ Exits \/ BackgroundEnds
    \/ Tick \/ Completes \/ TimesOut \/ BotDies

\* Time passes and the runtime polls the call; processes owe nothing.
Fairness == WF_vars(Spawn) /\ WF_vars(Tick) /\ WF_vars(TimesOut)
Spec == Init /\ [][Next]_vars /\ Fairness

-----------------------------------------------------------------------------
(***************************************************************************)
(* Properties.                                                             *)
(***************************************************************************)
\* Success means the process exited by itself with 0, nobody has the pipes open
\* to add to its output any more, and all of it is in the report.
SuccessIsWhole ==
    report.success =>
        /\ child = "exited" /\ code = 0 /\ behind # "attached"
        /\ report.length = printed

\* No call that returned leaves its own process running, and a sandboxed one, even
\* when the bot itself is killed, leaves nothing at all.  Without a sandbox a
\* background process may outlive the call, a successful one too.
NothingLeftRunning ==
    /\ stage = "done" => child # "running"
    /\ stage \in {"done", "dead"} /\ Sandboxed => child # "running" /\ ~InBackground

\* A command gets its time, at least a second of it whatever was asked.
TimeIsGiven == report.how = "timed out" => elapsed >= MinTimeout /\ elapsed = timeout

\* What a call reports is true, its process has its time and does not outlive it,
\* and in a sandbox nothing else does.
CommandsAreContained == SuccessIsWhole /\ NothingLeftRunning /\ TimeIsGiven

\* Every call returns, whatever the process and its children do.
CallsReturn == stage = "spawn" ~> stage \in {"done", "dead"}
=============================================================================
