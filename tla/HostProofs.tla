------------------------------ MODULE HostProofs ------------------------------
(***************************************************************************)
(* Proofs about Host: what shell_execute reports and leaves running, that  *)
(* the diagnostics socket keeps its owner, and files what was written to   *)
(* them, for all limits and any number of bots, clients and calls.  Every  *)
(* part has an inductive invariant of its own; the others rest meanwhile.  *)
(***************************************************************************)
EXTENDS Host, FiniteSetTheorems, SequenceTheorems, TLAPS

\* A step of the host is a step of one part, and none of the others.
LEMMA PartSteps ==
    ASSUME [HostNext]_hostVars
    PROVE  [Next]_vars /\ [Sh!Next]_(Sh!vars) /\ [Di!Next]_(Di!vars)
<1>1. /\ UNCHANGED shell => UNCHANGED Sh!vars
      /\ UNCHANGED diagnostics => UNCHANGED Di!vars
    BY DEF shell, diagnostics, Sh!vars, Di!vars, Di!bots
<1> QED BY <1>1 DEF HostNext, hostVars

-----------------------------------------------------------------------------
(* The shell *)

Codes == {-1, 0, 1}
Reports == [how : {"none", "refused", "failed", "completed", "timed out"},
            code : Codes, length : 0..MaxOutput, success : BOOLEAN]

\* A background process that runs, with the pipes or without.
USE DEF Sh!InBackground

\* TypeOK with its two larger sets under names.
ShellTypes ==
    /\ shellStage \in {"idle", "spawn", "run", "done", "dead"}
    /\ mode \in {"none", "bwrap", "bwrap-strict", "other"}
    /\ timeout \in MinTimeout..MaxTimeout /\ room \in MinOutput..MaxOutput
    /\ elapsed \in 0..MaxTimeout /\ printed \in 0..MaxOutput + 1
    /\ child \in {"none", "running", "exited", "killed"}
    /\ behind \in {"none", "attached", "detached", "gone"}
    /\ code \in Codes /\ report \in Reports

\* A report comes with the end of the call and a process with its spawning.
ShellStages ==
    /\ shellStage # "done" => report.how = "none" /\ ~report.success
    /\ shellStage \in {"idle", "spawn"} => child = "none" /\ elapsed = 0
    /\ shellStage = "run" => child \in {"running", "exited"}
    /\ child = "none" => behind = "none"
    /\ Sh!Sandboxed /\ child = "exited" => ~Sh!InBackground

\* A call's clock stops at its time-out.
Clock == elapsed \in Nat /\ timeout \in Nat /\ elapsed <= timeout /\ MinTimeout <= timeout

ShellInv == ShellTypes /\ ShellStages /\ Clock /\ Sh!CommandsAreContained

LEMMA ShellLimits ==
    ASSUME Sh!ShellAssumption
    PROVE  /\ MinTimeout \in Nat /\ MaxTimeout \in Nat /\ MinTimeout <= MaxTimeout
           /\ MinOutput \in Nat /\ MaxOutput \in Nat /\ MinOutput <= MaxOutput
    BY DEF Sh!ShellAssumption

LEMMA NothingPrinted == Sh!ShellAssumption => 0 \in 0..MaxOutput
    BY ShellLimits

LEMMA CodeNames == 0 \in Codes /\ 1 \in Codes /\ -1 \in Codes
    BY DEF Codes

LEMMA ExitCodes ==
    ASSUME Sh!Exits
    PROVE  code' \in Codes
    BY DEF Sh!Exits, Codes

LEMMA ShellTyped ==
    ASSUME ShellTypes
    PROVE  /\ timeout \in MinTimeout..MaxTimeout /\ room \in MinOutput..MaxOutput
           /\ elapsed \in 0..MaxTimeout /\ printed \in 0..MaxOutput + 1
           /\ code \in Codes /\ report \in Reports
    BY DEF ShellTypes

LEMMA ShellTypesAreTypeOK == ShellTypes <=> Sh!TypeOK
    BY DEF ShellTypes, Sh!TypeOK, Codes, Reports

LEMMA ClampedRange ==
    ASSUME NEW n \in Nat, NEW low \in Nat, NEW high \in Nat, low <= high
    PROVE  Sh!Clamp(n, low, high) \in low..high
    BY DEF Sh!Clamp

\* A report with fields of the right types is one.
LEMMA Reported ==
    ASSUME NEW how \in {"none", "refused", "failed", "completed", "timed out"},
           NEW exit \in Codes, NEW length \in 0..MaxOutput, NEW success \in BOOLEAN,
           Sh!Return(how, exit, length, success)
    PROVE  /\ shellStage' = "done" /\ report' \in Reports
           /\ report'.how = how /\ report'.length = length /\ report'.success = success
    BY DEF Sh!Return, Reports

\* What truncate_output keeps is within the limit, and all of it in a success.
LEMMA KeptOutput ==
    ASSUME Sh!ShellAssumption, ShellTypes
    PROVE  /\ Sh!Length \in 0..MaxOutput /\ Sh!Success \in BOOLEAN
           /\ Sh!Success => Sh!Length = printed /\ code = 0
<1>1. printed \in Nat /\ room \in Nat /\ room <= MaxOutput /\ MaxOutput \in Nat
    BY ShellLimits, ShellTyped
<1>2. Sh!Length \in 0..MaxOutput
    BY <1>1 DEF Sh!Length
<1>3. ASSUME Sh!Success PROVE Sh!Length = printed /\ code = 0
    BY <1>1, <1>3 DEF Sh!Length, Sh!Success
<1>4. Sh!Success \in BOOLEAN
    BY DEF Sh!Success
<1> QED BY <1>2, <1>3, <1>4

-----------------------------------------------------------------------------
\* A call starts with nothing running and nothing reported.
LEMMA ShellStarts == Sh!ShellAssumption /\ Sh!Init => ShellInv
<1> SUFFICES ASSUME Sh!ShellAssumption, Sh!Init PROVE ShellInv
    OBVIOUS
<1>1. report \in Reports /\ report.how = "none" /\ report.success = FALSE
    BY ShellLimits, CodeNames DEF Sh!Init, Sh!NoReport, Reports
<1>2. /\ timeout \in MinTimeout..MaxTimeout /\ room \in MinOutput..MaxOutput
      /\ elapsed \in 0..MaxTimeout /\ printed \in 0..MaxOutput + 1 /\ Clock
    BY ShellLimits DEF Sh!Init, Clock
<1>3. ShellTypes
    BY <1>1, <1>2, CodeNames DEF Sh!Init, ShellTypes
<1>4. ShellStages /\ Sh!CommandsAreContained
    BY <1>1 DEF Sh!Init, ShellStages, Sh!CommandsAreContained, Sh!SuccessIsWhole, Sh!NothingLeftRunning,
                Sh!TimeIsGiven, Sh!Sandboxed
<1> QED BY <1>2, <1>3, <1>4 DEF ShellInv

LEMMA Executes == Sh!ShellAssumption /\ ShellInv /\ Sh!Execute => ShellInv'
<1> SUFFICES ASSUME Sh!ShellAssumption, ShellInv, Sh!Execute PROVE ShellInv'
    OBVIOUS
<1>1. /\ shellStage = "idle" /\ mode' \in {"none", "bwrap", "bwrap-strict", "other"}
      /\ \/ shellStage' = "spawn" /\ report' = report
         \/ Sh!Return("refused", 0, 0, FALSE)
      /\ elapsed' = elapsed /\ child' = child /\ code' = code /\ behind' = behind
      /\ printed' = printed
    BY DEF Sh!Execute
<1>2. timeout' \in MinTimeout..MaxTimeout
    BY ShellLimits, ClampedRange DEF Sh!Execute
<1>3. room' \in MinOutput..MaxOutput
    BY ShellLimits, ClampedRange DEF Sh!Execute
<1>4. /\ shellStage' \in {"spawn", "done"} /\ report' \in Reports
      /\ report'.how \in {"none", "refused"} /\ ~report'.success
      /\ shellStage' = "spawn" => report'.how = "none"
    <2>1. report.how = "none" /\ ~report.success
        BY <1>1 DEF ShellInv, ShellStages
    <2>2. CASE shellStage' = "spawn" /\ report' = report
        BY <2>1, <2>2, ShellTyped DEF ShellInv
    <2>3. CASE Sh!Return("refused", 0, 0, FALSE)
        BY <2>3, NothingPrinted, CodeNames DEF Sh!Return, Reports
    <2> QED BY <1>1, <2>2, <2>3
<1>5. ShellTypes'
    BY <1>1, <1>2, <1>3, <1>4 DEF ShellInv, ShellTypes
<1>6. child' = "none" /\ behind' = "none" /\ elapsed' = 0
    <2>1. elapsed = 0
        BY <1>1 DEF ShellInv, ShellStages
    <2> QED BY <1>1, <2>1 DEF ShellInv, ShellStages
<1>7. Clock'
    BY <1>2, <1>6, ShellLimits DEF Clock
<1>8. ShellStages' /\ Sh!CommandsAreContained'
    BY <1>4, <1>6 DEF ShellStages, Sh!CommandsAreContained, Sh!SuccessIsWhole, Sh!NothingLeftRunning, Sh!TimeIsGiven
<1> QED BY <1>5, <1>7, <1>8 DEF ShellInv

LEMMA Spawns == Sh!ShellAssumption /\ ShellInv /\ Sh!Spawn => ShellInv'
<1> SUFFICES ASSUME Sh!ShellAssumption, ShellInv, Sh!Spawn PROVE ShellInv'
    OBVIOUS
<1>1. /\ shellStage = "spawn"
      /\ \/ shellStage' = "run" /\ child' = "running" /\ report' = report
         \/ Sh!Return("failed", 0, 0, FALSE) /\ child' = child
      /\ UNCHANGED <<mode, timeout, room, elapsed, code, behind, printed>>
    BY DEF Sh!Spawn
<1>2. /\ child = "none" /\ behind = "none" /\ elapsed = 0
      /\ report.how = "none" /\ ~report.success
    BY <1>1 DEF ShellInv, ShellStages
<1>3. CASE shellStage' = "run" /\ child' = "running" /\ report' = report
    <2>1. ShellTypes'
        BY <1>1, <1>3 DEF ShellInv, ShellTypes
    <2>2. Clock'
        BY <1>1 DEF ShellInv, Clock
    <2>3. ShellStages' /\ Sh!CommandsAreContained'
        BY <1>1, <1>2, <1>3 DEF ShellStages, Sh!CommandsAreContained, Sh!SuccessIsWhole,
                                Sh!NothingLeftRunning, Sh!TimeIsGiven
    <2> QED BY <2>1, <2>2, <2>3 DEF ShellInv
<1>4. CASE Sh!Return("failed", 0, 0, FALSE) /\ child' = child
    <2>1. /\ shellStage' = "done" /\ report' \in Reports
          /\ report'.how = "failed" /\ ~report'.success
        BY <1>4, NothingPrinted, CodeNames DEF Sh!Return, Reports
    <2>2. ShellTypes'
        BY <1>1, <1>4, <2>1 DEF ShellInv, ShellTypes
    <2>3. Clock'
        BY <1>1 DEF ShellInv, Clock
    <2>4. ShellStages' /\ Sh!CommandsAreContained'
        BY <1>1, <1>2, <1>4, <2>1 DEF ShellStages, Sh!CommandsAreContained, Sh!SuccessIsWhole,
                                      Sh!NothingLeftRunning, Sh!TimeIsGiven
    <2> QED BY <2>2, <2>3, <2>4 DEF ShellInv
<1> QED BY <1>1, <1>3, <1>4

-----------------------------------------------------------------------------
\* What the process and the one it left behind do by themselves.
LEMMA ProcessSteps ==
    Sh!ShellAssumption /\ ShellInv
    /\ (Sh!Prints \/ Sh!Forks \/ Sh!Releases \/ Sh!Exits \/ Sh!BackgroundEnds) => ShellInv'
<1> SUFFICES ASSUME Sh!ShellAssumption, ShellInv
             PROVE  Sh!Prints \/ Sh!Forks \/ Sh!Releases \/ Sh!Exits \/ Sh!BackgroundEnds => ShellInv'
    OBVIOUS
<1>1. ASSUME Sh!Prints PROVE ShellInv'
    <2>1. /\ shellStage = "run" /\ printed <= MaxOutput /\ printed' = printed + 1
          /\ UNCHANGED <<shellStage, mode, timeout, room, elapsed, child, code, behind, report>>
        BY <1>1 DEF Sh!Prints
    <2>2. printed' \in 0..MaxOutput + 1
        BY <2>1, ShellLimits, ShellTyped DEF ShellInv
    <2>3. ShellTypes'
        BY <2>1, <2>2 DEF ShellInv, ShellTypes
    <2>4. ShellStages' /\ Clock' /\ Sh!CommandsAreContained'
        BY <2>1 DEF ShellInv, ShellStages, Clock, Sh!CommandsAreContained, Sh!SuccessIsWhole,
                    Sh!NothingLeftRunning, Sh!TimeIsGiven, Sh!Sandboxed
    <2> QED BY <2>3, <2>4 DEF ShellInv
<1>2. ASSUME Sh!Forks PROVE ShellInv'
    <2>1. /\ child = "running" /\ behind' = "attached"
          /\ UNCHANGED <<shellStage, mode, timeout, room, elapsed, child, code, printed, report>>
        BY <1>2 DEF Sh!Forks
    <2>2. ShellTypes'
        BY <2>1 DEF ShellInv, ShellTypes
    <2>3. ShellStages' /\ Clock' /\ Sh!CommandsAreContained'
        BY <2>1 DEF ShellInv, ShellStages, Clock, Sh!CommandsAreContained, Sh!SuccessIsWhole,
                    Sh!NothingLeftRunning, Sh!TimeIsGiven, Sh!Sandboxed
    <2> QED BY <2>2, <2>3 DEF ShellInv
<1>3. ASSUME Sh!Exits PROVE ShellInv'
    <2>1. /\ child = "running" /\ child' = "exited" /\ code' \in Codes
          /\ behind' \in {behind, "gone"}
          /\ Sh!Sandboxed => behind' \notin {"attached", "detached"}
          /\ UNCHANGED <<shellStage, mode, timeout, room, elapsed, printed, report>>
        BY <1>3, ExitCodes DEF Sh!Exits, Sh!Gone
    <2>2. ShellTypes'
        BY <2>1 DEF ShellInv, ShellTypes
    <2>3. ShellStages' /\ Clock' /\ Sh!CommandsAreContained'
        BY <2>1 DEF ShellInv, ShellStages, Clock, Sh!CommandsAreContained, Sh!SuccessIsWhole,
                    Sh!NothingLeftRunning, Sh!TimeIsGiven, Sh!Sandboxed
    <2> QED BY <2>2, <2>3 DEF ShellInv
<1>4. ASSUME Sh!BackgroundEnds PROVE ShellInv'
    <2>1. /\ behind \in {"attached", "detached"} /\ behind' = "gone"
          /\ UNCHANGED <<shellStage, mode, timeout, room, elapsed, child, code, printed, report>>
        BY <1>4 DEF Sh!BackgroundEnds
    <2>2. ShellTypes'
        BY <2>1 DEF ShellInv, ShellTypes
    <2>3. ShellStages' /\ Clock' /\ Sh!CommandsAreContained'
        BY <2>1 DEF ShellInv, ShellStages, Clock, Sh!CommandsAreContained, Sh!SuccessIsWhole,
                    Sh!NothingLeftRunning, Sh!TimeIsGiven, Sh!Sandboxed
    <2> QED BY <2>2, <2>3 DEF ShellInv
<1>5. ASSUME Sh!Releases PROVE ShellInv'
    <2>1. /\ behind = "attached" /\ behind' = "detached"
          /\ UNCHANGED <<shellStage, mode, timeout, room, elapsed, child, code, printed, report>>
        BY <1>5 DEF Sh!Releases
    <2>2. ShellTypes'
        BY <2>1 DEF ShellInv, ShellTypes
    <2>3. ShellStages' /\ Clock' /\ Sh!CommandsAreContained'
        BY <2>1 DEF ShellInv, ShellStages, Clock, Sh!CommandsAreContained, Sh!SuccessIsWhole,
                    Sh!NothingLeftRunning, Sh!TimeIsGiven, Sh!Sandboxed
    <2> QED BY <2>2, <2>3 DEF ShellInv
<1> QED BY <1>1, <1>2, <1>3, <1>4, <1>5

LEMMA Ticks == Sh!ShellAssumption /\ ShellInv /\ Sh!Tick => ShellInv'
<1> SUFFICES ASSUME Sh!ShellAssumption, ShellInv, Sh!Tick PROVE ShellInv'
    OBVIOUS
<1>1. /\ shellStage = "run" /\ elapsed < timeout /\ elapsed' = elapsed + 1
      /\ UNCHANGED <<shellStage, mode, timeout, room, child, code, behind, printed, report>>
    BY DEF Sh!Tick
<1>2. elapsed' \in 0..MaxTimeout /\ Clock'
    BY <1>1, ShellLimits, ShellTyped DEF ShellInv, Clock
<1>3. ShellTypes'
    BY <1>1, <1>2 DEF ShellInv, ShellTypes
<1>4. ShellStages' /\ Sh!CommandsAreContained'
    BY <1>1 DEF ShellInv, ShellStages, Sh!CommandsAreContained, Sh!SuccessIsWhole, Sh!NothingLeftRunning,
                Sh!TimeIsGiven, Sh!Sandboxed
<1> QED BY <1>2, <1>3, <1>4 DEF ShellInv

-----------------------------------------------------------------------------
\* The three ends: the output is complete, the time is up, the bot is killed.
LEMMA Completing == Sh!ShellAssumption /\ ShellInv /\ Sh!Completes => ShellInv'
<1> SUFFICES ASSUME Sh!ShellAssumption, ShellInv, Sh!Completes PROVE ShellInv'
    OBVIOUS
<1>1. /\ shellStage = "run" /\ child = "exited" /\ behind # "attached"
      /\ Sh!Return("completed", code, Sh!Length, Sh!Success)
      /\ UNCHANGED <<mode, timeout, room, elapsed, child, code, behind, printed>>
    BY DEF Sh!Completes
<1>2. /\ Sh!Length \in 0..MaxOutput /\ Sh!Success \in BOOLEAN /\ code \in Codes
      /\ Sh!Success => Sh!Length = printed /\ code = 0
    BY KeptOutput, ShellTyped DEF ShellInv
<1>3. /\ shellStage' = "done" /\ report' \in Reports /\ report'.how = "completed"
      /\ report'.length = Sh!Length /\ report'.success = Sh!Success
    BY <1>1, <1>2, Reported
<1>4. ShellTypes'
    BY <1>1, <1>3 DEF ShellInv, ShellTypes
<1>5. ShellStages' /\ Clock'
    BY <1>1, <1>3 DEF ShellInv, ShellStages, Clock, Sh!Sandboxed
<1>6. Sh!CommandsAreContained'
    BY <1>1, <1>2, <1>3 DEF ShellInv, ShellStages, Sh!CommandsAreContained, Sh!SuccessIsWhole,
                            Sh!NothingLeftRunning, Sh!TimeIsGiven, Sh!Sandboxed
<1> QED BY <1>4, <1>5, <1>6 DEF ShellInv

LEMMA TimingOut == Sh!ShellAssumption /\ ShellInv /\ Sh!TimesOut => ShellInv'
<1> SUFFICES ASSUME Sh!ShellAssumption, ShellInv, Sh!TimesOut PROVE ShellInv'
    OBVIOUS
<1>1. /\ shellStage = "run" /\ elapsed = timeout /\ Sh!Return("timed out", -1, 0, FALSE)
      /\ child' = IF child = "running" THEN "killed" ELSE child
      /\ behind' = Sh!Gone
      /\ UNCHANGED <<mode, timeout, room, elapsed, code, printed>>
    BY DEF Sh!TimesOut
<1>2. child' \in {"killed", "exited"}
    BY <1>1 DEF ShellInv, ShellStages
<1>3. behind' \in {behind, "gone"} /\ (Sh!Sandboxed => behind' \notin {"attached", "detached"})
    BY <1>1 DEF Sh!Gone
<1>4. /\ shellStage' = "done" /\ report' \in Reports /\ report'.how = "timed out"
      /\ ~report'.success
    BY <1>1, NothingPrinted, CodeNames DEF Sh!Return, Reports
<1>5. ShellTypes'
    BY <1>1, <1>2, <1>3, <1>4 DEF ShellInv, ShellTypes
<1>6. ShellStages' /\ Clock'
    BY <1>1, <1>2, <1>3, <1>4 DEF ShellInv, ShellStages, Clock, Sh!Sandboxed
<1>7. Sh!CommandsAreContained'
    <2>1. elapsed' >= MinTimeout /\ elapsed' = timeout'
        BY <1>1, ShellLimits DEF ShellInv, Clock
    <2> QED BY <1>1, <1>2, <1>3, <1>4, <2>1
            DEF Sh!CommandsAreContained, Sh!SuccessIsWhole, Sh!NothingLeftRunning, Sh!TimeIsGiven, Sh!Sandboxed
<1> QED BY <1>5, <1>6, <1>7 DEF ShellInv

LEMMA Dying == Sh!ShellAssumption /\ ShellInv /\ Sh!BotDies => ShellInv'
<1> SUFFICES ASSUME Sh!ShellAssumption, ShellInv, Sh!BotDies PROVE ShellInv'
    OBVIOUS
<1>1. /\ shellStage = "run" /\ shellStage' = "dead"
      /\ child' = IF Sh!Sandboxed /\ child = "running" THEN "killed" ELSE child
      /\ behind' = Sh!Gone
      /\ UNCHANGED <<mode, timeout, room, elapsed, code, printed, report>>
    BY DEF Sh!BotDies
<1>2. /\ child' \in {"killed", "exited", "running"}
      /\ Sh!Sandboxed => child' # "running"
    BY <1>1 DEF ShellInv, ShellStages
<1>3. behind' \in {behind, "gone"} /\ (Sh!Sandboxed => behind' \notin {"attached", "detached"})
    BY <1>1 DEF Sh!Gone
<1>4. ShellTypes'
    BY <1>1, <1>2, <1>3 DEF ShellInv, ShellTypes
<1>5. report'.how = "none" /\ ~report'.success
    BY <1>1 DEF ShellInv, ShellStages
<1>6. ShellStages' /\ Clock' /\ Sh!CommandsAreContained'
    BY <1>1, <1>2, <1>3, <1>5 DEF ShellInv, ShellStages, Clock, Sh!CommandsAreContained, Sh!SuccessIsWhole,
                                  Sh!NothingLeftRunning, Sh!TimeIsGiven, Sh!Sandboxed
<1> QED BY <1>4, <1>6 DEF ShellInv

-----------------------------------------------------------------------------
LEMMA ShellRests == ShellInv /\ UNCHANGED Sh!vars => ShellInv'
<1> SUFFICES ASSUME ShellInv, UNCHANGED Sh!vars PROVE ShellInv'
    OBVIOUS
<1>1. /\ shellStage' = shellStage /\ mode' = mode /\ timeout' = timeout /\ room' = room
      /\ elapsed' = elapsed /\ child' = child /\ code' = code /\ behind' = behind
      /\ printed' = printed /\ report' = report
    BY DEF Sh!vars
<1>2. ShellTypes'
    <2>1. report' \in Reports /\ code' \in Codes
        BY <1>1, ShellTyped DEF ShellInv
    <2> QED BY <1>1, <2>1 DEF ShellInv, ShellTypes
<1>3. ShellStages' /\ Clock' /\ Sh!CommandsAreContained'
    BY <1>1 DEF ShellInv, ShellStages, Clock, Sh!CommandsAreContained, Sh!SuccessIsWhole, Sh!NothingLeftRunning,
           Sh!TimeIsGiven, Sh!Sandboxed
<1> QED BY <1>2, <1>3 DEF ShellInv

\* For all limits a call leaves no process it started running once it has
\* returned, and in a sandbox nothing at all even when the bot is killed; a
\* reported success is the whole output of a process that exited with 0; and a
\* time-out comes no earlier than asked.  (execute, tools/shell.rs)
THEOREM CallsAreContained == HostSpec => []CommandsAreContained
<1>1. HostInit => ShellInv
    BY HostAssumption, ShellStarts DEF HostInit
<1>2. ShellInv /\ [HostNext]_hostVars => ShellInv'
    <2>1. ShellInv /\ [Sh!Next]_(Sh!vars) => ShellInv'
        BY HostAssumption, Executes, Spawns, ProcessSteps, Ticks, Completing, TimingOut, Dying,
           ShellRests DEF Sh!Next
    <2> QED BY <2>1, PartSteps
<1>3. ShellInv => CommandsAreContained
    BY ShellTypesAreTypeOK DEF ShellInv, CommandsAreContained
<1> QED BY <1>1, <1>2, <1>3, PTL DEF HostSpec

-----------------------------------------------------------------------------
(* The diagnostics socket *)

Rest == {"down", "serving"}
Places == Rest \cup Di!Starting \cup Di!Stopping

\* Only one bot is between its steps, ...
Alone == \A b, d \in Bots : b # d => at[b] \in Rest \/ at[d] \in Rest

\* ... past its probe it knows that no other one serves, ...
NobodyServes == \A b, d \in Bots : at[b] \notin Rest \cup {"probe"} => at[d] # "serving"

\* ... and the name it made is still its own.
Named == \A b \in Bots : at[b] \in {"listen", "chmod", "serving"} => socket = b

ServersListen == \A b \in Bots : at[b] \in {"chmod", "serving"} => b \in listening

\* A file at the path keeps every bot from starting.
FileBars == socket = "file" => \A b \in Bots : at[b] = "down"

SocketInv ==
    /\ at \in [Bots -> Places]
    /\ ~raced => Alone /\ NobodyServes /\ Named
    /\ ServersListen /\ FileBars

LEMMA BotPlaces ==
    Places = {"down", "serving", "probe", "remove", "bind", "listen", "chmod",
              "stopping", "await", "stopped", "dropping"}
    BY DEF Places, Rest, Di!Starting, Di!Stopping

LEMMA NoBotIsAWord == Di!DiagnosticsAssumption => \A b \in Bots : b # "none" /\ b # "file"
    BY DEF Di!DiagnosticsAssumption

\* Where a bot goes: as long as nothing raced, all others are at rest unless
\* it comes to rest itself.
LEMMA Going ==
    ASSUME NEW b \in Bots, NEW where \in Places, SocketInv, Di!Goto(b, where)
    PROVE  /\ at' = [at EXCEPT ![b] = where] /\ at' \in [Bots -> Places]
           /\ at'[b] = where /\ \A d \in Bots \ {b} : at'[d] = at[d]
           /\ ~raced' => ~raced
           /\ ~raced' /\ where \notin Rest => \A d \in Bots \ {b} : at[d] \in Rest
           /\ ~raced' => Alone'
<1>1. at \in [Bots -> Places] /\ at' = [at EXCEPT ![b] = where]
    BY DEF SocketInv, Di!Goto
<1>2. /\ at' \in [Bots -> Places] /\ at'[b] = where
      /\ \A d \in Bots \ {b} : at'[d] = at[d]
    BY <1>1
<1>3. /\ ~raced' => ~raced
      /\ ~raced' /\ where \notin Rest => \A d \in Bots \ {b} : at[d] \in Rest
    BY DEF Di!Goto, Rest
<1>4. ASSUME ~raced' PROVE Alone'
    <2>1. Alone
        BY <1>3, <1>4 DEF SocketInv
    <2> SUFFICES ASSUME NEW x \in Bots, NEW y \in Bots, x # y
                 PROVE  at'[x] \in Rest \/ at'[y] \in Rest
        BY DEF Alone
    <2>2. CASE where \in Rest
        BY <1>2, <2>1, <2>2 DEF Alone
    <2>3. CASE where \notin Rest
        BY <1>2, <1>3, <1>4, <2>3
    <2> QED BY <2>2, <2>3
<1> QED BY <1>1, <1>2, <1>3, <1>4

-----------------------------------------------------------------------------
LEMMA SocketsStart == Di!DiagnosticsAssumption /\ Di!Init => SocketInv
    BY BotPlaces DEF Di!Init, SocketInv, Alone, NobodyServes, Named, ServersListen, FileBars, Rest

LEMMA Inspects ==
    ASSUME Di!DiagnosticsAssumption, SocketInv, NEW b \in Bots, Di!Inspect(b)
    PROVE  SocketInv'
<1>1. /\ at[b] = "down" /\ UNCHANGED <<socket, listening, loop>>
      /\ \/ socket = "none" /\ Di!Goto(b, "bind")
         \/ socket \in Bots /\ Di!Goto(b, "probe")
         \/ UNCHANGED <<at, raced>>
    BY DEF Di!Inspect
<1>2. CASE socket = "none" /\ Di!Goto(b, "bind")
    <2>1. /\ at' \in [Bots -> Places] /\ at'[b] = "bind"
          /\ \A d \in Bots \ {b} : at'[d] = at[d]
          /\ ~raced' => ~raced /\ Alone'
        BY <1>2, Going, BotPlaces
    <2>2. ~raced => \A d \in Bots : at[d] \notin {"listen", "chmod", "serving"}
        BY <1>2, NoBotIsAWord DEF SocketInv, Named
    <2>3. ~raced' => NobodyServes' /\ Named'
        BY <1>1, <1>2, <2>1, <2>2 DEF SocketInv, NobodyServes, Named
    <2>4. ServersListen' /\ FileBars'
        BY <1>1, <1>2, <2>1 DEF SocketInv, ServersListen, FileBars
    <2> QED BY <2>1, <2>3, <2>4 DEF SocketInv
<1>3. CASE socket \in Bots /\ Di!Goto(b, "probe")
    <2>1. /\ at' \in [Bots -> Places] /\ at'[b] = "probe"
          /\ \A d \in Bots \ {b} : at'[d] = at[d]
          /\ ~raced' => ~raced /\ Alone'
        BY <1>3, Going, BotPlaces
    <2>2. ~raced' => NobodyServes' /\ Named'
        BY <1>1, <2>1 DEF SocketInv, NobodyServes, Named, Rest
    <2>3. ServersListen' /\ FileBars'
        BY <1>1, <1>3, <2>1, NoBotIsAWord DEF SocketInv, ServersListen, FileBars
    <2> QED BY <2>1, <2>2, <2>3 DEF SocketInv
<1>4. CASE UNCHANGED <<at, raced>>
    BY <1>1, <1>4 DEF SocketInv, Alone, NobodyServes, Named, ServersListen, FileBars
<1> QED BY <1>1, <1>2, <1>3, <1>4

LEMMA Probes ==
    ASSUME Di!DiagnosticsAssumption, SocketInv, NEW b \in Bots, Di!Probe(b)
    PROVE  SocketInv'
<1> DEFINE where == IF socket \in listening THEN "down" ELSE "remove"
<1>1. at[b] = "probe" /\ Di!Goto(b, where) /\ UNCHANGED <<socket, listening>>
    BY DEF Di!Probe
<1>2. /\ at' \in [Bots -> Places] /\ at'[b] = where
      /\ \A d \in Bots \ {b} : at'[d] = at[d]
      /\ ~raced' => ~raced /\ Alone'
    BY <1>1, Going, BotPlaces
<1>3. where = "remove" /\ ~raced => \A d \in Bots : at[d] # "serving"
    BY DEF SocketInv, Named, ServersListen
<1>4. where \in {"down", "remove"}
    OBVIOUS
<1> HIDE DEF where
<1>5. ~raced' => NobodyServes' /\ Named'
    BY <1>1, <1>2, <1>3, <1>4 DEF SocketInv, NobodyServes, Named, Rest
<1>6. ServersListen' /\ FileBars'
    BY <1>1, <1>2, <1>4 DEF SocketInv, ServersListen, FileBars
<1> QED BY <1>2, <1>5, <1>6 DEF SocketInv

LEMMA RemovesOld ==
    ASSUME Di!DiagnosticsAssumption, SocketInv, NEW b \in Bots, Di!RemoveOld(b)
    PROVE  SocketInv'
<1> DEFINE where == IF socket = "none" THEN "down" ELSE "bind"
<1>1. at[b] = "remove" /\ Di!Goto(b, where) /\ socket' = "none" /\ UNCHANGED listening
    BY DEF Di!RemoveOld
<1>2. /\ at' \in [Bots -> Places] /\ at'[b] = where
      /\ \A d \in Bots \ {b} : at'[d] = at[d]
      /\ ~raced' => ~raced /\ Alone'
    BY <1>1, Going, BotPlaces
<1>3. where \in {"down", "bind"}
    OBVIOUS
<1> HIDE DEF where
<1>4. ~raced => \A d \in Bots : at[d] # "serving"
    BY <1>1 DEF SocketInv, NobodyServes, Rest
<1>5. ~raced => \A d \in Bots \ {b} : at[d] \in Rest
    BY <1>1 DEF SocketInv, Alone, Rest
<1>6. ~raced' => NobodyServes' /\ Named'
    BY <1>2, <1>3, <1>4, <1>5 DEF NobodyServes, Named, Rest
<1>7. ServersListen' /\ FileBars'
    BY <1>1, <1>2, <1>3 DEF SocketInv, ServersListen, FileBars
<1> QED BY <1>2, <1>6, <1>7 DEF SocketInv

LEMMA Binds ==
    ASSUME Di!DiagnosticsAssumption, SocketInv, NEW b \in Bots, Di!Bind(b)
    PROVE  SocketInv'
<1>1. /\ at[b] = "bind" /\ UNCHANGED listening
      /\ \/ socket' = b /\ Di!Goto(b, "listen")
         \/ Di!Goto(b, "down") /\ socket' = socket
    BY DEF Di!Bind
<1>2. ~raced => \A d \in Bots : at[d] # "serving"
    BY <1>1 DEF SocketInv, NobodyServes, Rest
<1>3. ~raced => \A d \in Bots \ {b} : at[d] \in Rest
    BY <1>1 DEF SocketInv, Alone, Rest
<1>4. CASE socket' = b /\ Di!Goto(b, "listen")
    <2>1. /\ at' \in [Bots -> Places] /\ at'[b] = "listen"
          /\ \A d \in Bots \ {b} : at'[d] = at[d]
          /\ ~raced' => ~raced /\ Alone'
        BY <1>4, Going, BotPlaces
    <2>2. ~raced' => NobodyServes' /\ Named'
        BY <1>2, <1>3, <1>4, <2>1 DEF NobodyServes, Named, Rest
    <2>3. ServersListen' /\ FileBars'
        BY <1>1, <1>4, <2>1, NoBotIsAWord DEF SocketInv, ServersListen, FileBars
    <2> QED BY <2>1, <2>2, <2>3 DEF SocketInv
<1>5. CASE Di!Goto(b, "down") /\ socket' = socket
    <2>1. /\ at' \in [Bots -> Places] /\ at'[b] = "down"
          /\ \A d \in Bots \ {b} : at'[d] = at[d]
          /\ ~raced' => ~raced /\ Alone'
        BY <1>5, Going, BotPlaces
    <2>2. ~raced' => NobodyServes' /\ Named'
        BY <1>5, <2>1 DEF SocketInv, NobodyServes, Named, Rest
    <2>3. ServersListen' /\ FileBars'
        BY <1>1, <1>5, <2>1 DEF SocketInv, ServersListen, FileBars
    <2> QED BY <2>1, <2>2, <2>3 DEF SocketInv
<1> QED BY <1>1, <1>4, <1>5

LEMMA Listens ==
    ASSUME Di!DiagnosticsAssumption, SocketInv, NEW b \in Bots, Di!Listen(b)
    PROVE  SocketInv'
<1>1. at[b] = "listen" /\ Di!Goto(b, "chmod") /\ socket' = socket /\ listening' = listening \cup {b}
    BY DEF Di!Listen
<1>2. /\ at' \in [Bots -> Places] /\ at'[b] = "chmod"
      /\ \A d \in Bots \ {b} : at'[d] = at[d]
      /\ ~raced' => ~raced /\ Alone'
    BY <1>1, Going, BotPlaces
<1>3. ~raced => \A d \in Bots : at[d] # "serving"
    BY <1>1 DEF SocketInv, NobodyServes, Rest
<1>4. ~raced' => NobodyServes' /\ Named'
    BY <1>1, <1>2, <1>3 DEF SocketInv, NobodyServes, Named
<1>5. ServersListen' /\ FileBars'
    BY <1>1, <1>2 DEF SocketInv, ServersListen, FileBars
<1> QED BY <1>2, <1>4, <1>5 DEF SocketInv

LEMMA Serves ==
    ASSUME Di!DiagnosticsAssumption, SocketInv, NEW b \in Bots, Di!Chmod(b)
    PROVE  SocketInv'
<1>1. /\ at[b] = "chmod" /\ socket' = socket
      /\ \/ socket = "none" /\ Di!Goto(b, "down") /\ listening' = listening \ {b}
         \/ Di!Goto(b, "serving") /\ listening' = listening
    BY DEF Di!Chmod
<1>2. CASE Di!Goto(b, "down") /\ listening' = listening \ {b}
    <2>1. /\ at' \in [Bots -> Places] /\ at'[b] = "down"
          /\ \A d \in Bots \ {b} : at'[d] = at[d]
          /\ ~raced' => ~raced /\ Alone'
        BY <1>2, Going, BotPlaces
    <2>2. ~raced' => NobodyServes' /\ Named'
        BY <1>1, <2>1 DEF SocketInv, NobodyServes, Named, Rest
    <2>3. ServersListen' /\ FileBars'
        BY <1>1, <1>2, <2>1 DEF SocketInv, ServersListen, FileBars
    <2> QED BY <2>1, <2>2, <2>3 DEF SocketInv
<1>3. CASE Di!Goto(b, "serving") /\ listening' = listening
    <2>1. /\ at' \in [Bots -> Places] /\ at'[b] = "serving"
          /\ \A d \in Bots \ {b} : at'[d] = at[d]
          /\ ~raced' => ~raced /\ Alone'
        BY <1>3, Going, BotPlaces
    <2>2. ~raced => \A d \in Bots \ {b} : at[d] \in Rest
        BY <1>1 DEF SocketInv, Alone, Rest
    <2>3. ~raced' => NobodyServes' /\ Named'
        BY <1>1, <2>1, <2>2 DEF SocketInv, NobodyServes, Named, Rest
    <2>4. ServersListen' /\ FileBars'
        BY <1>1, <1>3, <2>1 DEF SocketInv, ServersListen, FileBars
    <2> QED BY <2>1, <2>3, <2>4 DEF SocketInv
<1> QED BY <1>1, <1>2, <1>3

-----------------------------------------------------------------------------
\* While a bot stops, what it removes is no serving bot's.
LEMMA Stops ==
    ASSUME Di!DiagnosticsAssumption, SocketInv, NEW b \in Bots, Di!Stop(b)
    PROVE  SocketInv'
<1>1. PICK where \in {"await", "dropping"} :
        at[b] = "serving" /\ Di!Goto(b, where) /\ listening' = listening
    BY DEF Di!Stop
<1>2. /\ at' \in [Bots -> Places] /\ at'[b] = where
      /\ \A d \in Bots \ {b} : at'[d] = at[d]
      /\ ~raced' => ~raced /\ Alone' /\ \A d \in Bots \ {b} : at[d] \in Rest
    BY <1>1, Going, BotPlaces DEF Rest
<1>3. ~raced => \A d \in Bots \ {b} : at[d] # "serving"
    BY <1>1 DEF SocketInv, Named
<1>4. socket' # "file"
    BY <1>1, NoBotIsAWord DEF Di!Stop, Di!RemoveSocket, SocketInv, FileBars
<1>5. ~raced' => NobodyServes' /\ Named'
    BY <1>2, <1>3 DEF NobodyServes, Named, Rest
<1>6. ServersListen' /\ FileBars'
    BY <1>1, <1>2, <1>4 DEF SocketInv, ServersListen, FileBars
<1> QED BY <1>2, <1>5, <1>6 DEF SocketInv

LEMMA LoopsEnd ==
    ASSUME Di!DiagnosticsAssumption, SocketInv, NEW b \in Bots, Di!LoopEnds(b)
    PROVE  SocketInv'
<1>1. /\ at[b] \in {"await", "dropping"} /\ UNCHANGED <<at, raced>>
      /\ listening' = listening \ {b}
    BY DEF Di!LoopEnds
<1>2. socket' # "file"
    BY <1>1, NoBotIsAWord DEF Di!LoopEnds, Di!RemoveSocket, SocketInv, FileBars
<1>3. ~raced => /\ \A d \in Bots : at[d] # "serving"
                /\ \A d \in Bots \ {b} : at[d] \in Rest
    BY <1>1 DEF SocketInv, Alone, NobodyServes, Rest
<1>4. ~raced' => Alone' /\ NobodyServes' /\ Named'
    BY <1>1, <1>3 DEF SocketInv, Alone, NobodyServes, Named, Rest
<1>5. ServersListen' /\ FileBars'
    BY <1>1, <1>2 DEF SocketInv, ServersListen, FileBars
<1> QED BY <1>1, <1>4, <1>5 DEF SocketInv

LEMMA Stoppeds ==
    ASSUME Di!DiagnosticsAssumption, SocketInv, NEW b \in Bots, Di!Stopped(b)
    PROVE  SocketInv'
<1>1. PICK where \in {"stopped", "dropping"} :
        at[b] \in {"await", "stopped"} /\ Di!Goto(b, where) /\ listening' = listening
    BY DEF Di!Stopped
<1>2. /\ at' \in [Bots -> Places] /\ at'[b] = where
      /\ \A d \in Bots \ {b} : at'[d] = at[d]
      /\ ~raced' => ~raced /\ Alone' /\ \A d \in Bots \ {b} : at[d] \in Rest
    BY <1>1, Going, BotPlaces DEF Rest
<1>3. ~raced => \A d \in Bots : at[d] # "serving"
    BY <1>1 DEF SocketInv, NobodyServes, Rest
<1>4. socket' # "file"
    BY <1>1, NoBotIsAWord DEF Di!Stopped, Di!RemoveSocket, SocketInv, FileBars
<1>5. ~raced' => NobodyServes' /\ Named'
    BY <1>2, <1>3 DEF NobodyServes, Named, Rest
<1>6. ServersListen' /\ FileBars'
    BY <1>1, <1>2, <1>4 DEF SocketInv, ServersListen, FileBars
<1> QED BY <1>2, <1>5, <1>6 DEF SocketInv

\* A process that ends leaves the name behind and nobody else is disturbed.
LEMMA Falls ==
    ASSUME Di!DiagnosticsAssumption, SocketInv, NEW b \in Bots, Di!Exit(b) \/ Di!Crash(b)
    PROVE  SocketInv'
<1>1. /\ at' = [at EXCEPT ![b] = "down"] /\ listening' = listening \ {b}
      /\ UNCHANGED <<socket, raced>>
    BY DEF Di!Exit, Di!Crash
<1>2. /\ at' \in [Bots -> Places] /\ at'[b] = "down"
      /\ \A d \in Bots \ {b} : at'[d] = at[d]
    BY <1>1, BotPlaces DEF SocketInv
<1>3. ~raced' => Alone' /\ NobodyServes' /\ Named'
    BY <1>1, <1>2 DEF SocketInv, Alone, NobodyServes, Named, Rest
<1>4. ServersListen' /\ FileBars'
    BY <1>1, <1>2 DEF SocketInv, ServersListen, FileBars
<1> QED BY <1>2, <1>3, <1>4 DEF SocketInv

LEMMA BotsUnchanged == SocketInv /\ UNCHANGED Di!bots => SocketInv'
    BY DEF Di!bots, SocketInv, Alone, NobodyServes, Named, ServersListen, FileBars

\* Clients change nothing of a bot.
LEMMA ClientsAreHarmless ==
    ASSUME NEW c \in Clients,
           \/ Di!Connect(c) \/ Di!Write(c) \/ Di!Answer(c)
           \/ \E b \in Bots : Di!Accept(b, c)
    PROVE  UNCHANGED Di!bots
    BY DEF Di!Connect, Di!Write, Di!Answer, Di!Accept

-----------------------------------------------------------------------------
LEMMA SocketsStep == Di!DiagnosticsAssumption /\ SocketInv /\ [Di!Next]_(Di!vars) => SocketInv'
<1> SUFFICES ASSUME Di!DiagnosticsAssumption, SocketInv, [Di!Next]_(Di!vars) PROVE SocketInv'
    OBVIOUS
<1>1. ASSUME NEW b \in Bots, Di!Inspect(b) \/ Di!BotStep(b) \/ Di!Stop(b) \/ Di!Crash(b)
      PROVE  SocketInv'
    BY <1>1, Inspects, Probes, RemovesOld, Binds, Listens, Serves, Stops, LoopsEnd,
       Stoppeds, Falls DEF Di!BotStep
<1>2. ASSUME (\E c \in Clients : Di!Connect(c) \/ Di!Write(c)) \/ Di!ConnStep
      PROVE  SocketInv'
    BY <1>2, ClientsAreHarmless, BotsUnchanged DEF Di!ConnStep
<1>3. CASE UNCHANGED Di!vars
    BY <1>3, BotsUnchanged DEF Di!vars
<1> QED BY <1>1, <1>2, <1>3 DEF Di!Next

\* Where a file is at the path no bot is under way, so nobody removes it.
LEMMA FileStays == Di!DiagnosticsAssumption /\ SocketInv /\ [Di!Next]_(Di!vars) /\ socket = "file" => socket' = "file"
<1> SUFFICES ASSUME Di!DiagnosticsAssumption, SocketInv, [Di!Next]_(Di!vars), socket = "file"
             PROVE  socket' = "file"
    OBVIOUS
<1>1. \A b \in Bots : at[b] = "down"
    BY DEF SocketInv, FileBars
<1>2. ASSUME NEW b \in Bots, Di!Inspect(b) \/ Di!BotStep(b) \/ Di!Stop(b) \/ Di!Crash(b)
      PROVE  socket' = socket
    BY <1>1, <1>2 DEF Di!Inspect, Di!BotStep, Di!Probe, Di!RemoveOld, Di!Bind, Di!Listen, Di!Chmod, Di!LoopEnds,
                      Di!Stopped, Di!Exit, Di!Stop, Di!Crash
<1>3. ASSUME (\E c \in Clients : Di!Connect(c) \/ Di!Write(c)) \/ Di!ConnStep
      PROVE  socket' = socket
    BY <1>3, ClientsAreHarmless DEF Di!ConnStep, Di!bots
<1>4. CASE UNCHANGED Di!vars
    BY <1>4 DEF Di!vars, Di!bots
<1> QED BY <1>2, <1>3, <1>4 DEF Di!Next

-----------------------------------------------------------------------------
(* Its clients, and the limit on those served at a time *)

Conns == {"none", "queued", "served", "failed"} \cup Di!Answers

SocketTypes ==
    /\ socket \in {"none", "file"} \cup Bots
    /\ at \in [Bots -> {"down", "serving"} \cup Di!Starting \cup Di!Stopping]
    /\ listening \subseteq Bots /\ loop \subseteq listening
    /\ starts \in 0..MaxStarts /\ raced \in BOOLEAN

ClientTypes ==
    /\ peer \in [Clients -> Bots \cup {"none"}] /\ conn \in [Clients -> Conns]
    /\ wrote \in [Clients -> {"nothing"} \cup Di!Requests]

FewServed ==
    \A b \in Bots : IsFiniteSet(Di!Served(b)) /\ Cardinality(Di!Served(b)) <= Limit

\* For any number of bots, clients and starts: unless two bots started or
\* stopped at once, a bot that serves is the one its path leads to, whatever
\* started, stopped or crashed before; and a file that is no socket stays.
\* (prepare_socket_path, stop, Drop and the accept loop, diagnostics/server.rs)
LoopsRun == \A b \in loop : at[b] \in {"serving", "await", "dropping"}

SocketKinds == SocketTypes /\ ClientTypes /\ LoopsRun /\ FewServed

LEMMA SameCardinality == \A S : Di!Cardinality(S) = Cardinality(S)
    BY DEF Cardinality, Di!Cardinality

LEMMA SocketKindsAreTypeOK == SocketKinds => Di!TypeOK
<1> SUFFICES ASSUME SocketKinds PROVE Di!TypeOK
    OBVIOUS
<1>1. \A b \in Bots : Cardinality({c \in Clients : peer[c] = b /\ conn[c] = "served"}) <= Limit
    BY DEF SocketKinds, FewServed, Di!Served
<1>2. \A b \in Bots : Di!Cardinality({c \in Clients : peer[c] = b /\ conn[c] = "served"}) <= Limit
    BY <1>1, SameCardinality
<1>3. SocketTypes /\ ClientTypes
    BY DEF SocketKinds
<1> QED BY <1>2, <1>3 DEF SocketTypes, ClientTypes, Conns, Di!TypeOK

LEMMA SocketKindsStart == Di!DiagnosticsAssumption /\ Di!Init => SocketKinds
<1> SUFFICES ASSUME Di!DiagnosticsAssumption, Di!Init PROVE SocketKinds
    OBVIOUS
<1>1. \A b \in Bots : Di!Served(b) = {}
    BY DEF Di!Init, Di!Served
<1>2. FewServed
    BY <1>1, FS_EmptySet DEF FewServed, Di!DiagnosticsAssumption
<1>3. SocketTypes
    <2>1. /\ socket \in {"none", "file"} \cup Bots /\ listening \subseteq Bots
          /\ loop \subseteq listening /\ raced \in BOOLEAN
        BY DEF Di!Init
    <2>2. at \in [Bots -> {"down", "serving"} \cup Di!Starting \cup Di!Stopping]
        BY DEF Di!Init
    <2>3. starts \in 0..MaxStarts
        BY DEF Di!Init, Di!DiagnosticsAssumption
    <2> QED BY <2>1, <2>2, <2>3 DEF SocketTypes
<1>4. ClientTypes /\ LoopsRun
    BY DEF Di!Init, ClientTypes, LoopsRun, Conns
<1> QED BY <1>2, <1>3, <1>4 DEF SocketKinds

\* Where no connection is served anew the limit is kept.
LEMMA NoMoreServed ==
    ASSUME Di!DiagnosticsAssumption, FewServed, NEW b \in Bots,
           Di!Served(b)' \subseteq Di!Served(b)
    PROVE  IsFiniteSet(Di!Served(b)') /\ Cardinality(Di!Served(b)') <= Limit
<1>1. IsFiniteSet(Di!Served(b)) /\ Cardinality(Di!Served(b)) <= Limit /\ Limit \in Nat
    BY DEF FewServed, Di!DiagnosticsAssumption
<1> DEFINE S == Di!Served(b)
           T == Di!Served(b)'
<1>2. T \subseteq S /\ IsFiniteSet(S)
    BY <1>1
<1> HIDE DEF S, T
<1>3. IsFiniteSet(T) /\ Cardinality(T) <= Cardinality(S)
    BY <1>2, FS_Subset
<1>4. Cardinality(T) \in Nat /\ Cardinality(S) \in Nat
    BY <1>2, <1>3, FS_CardinalityType
<1> QED BY <1>1, <1>3, <1>4 DEF S, T

LEMMA GoingRaces ==
    ASSUME SocketTypes, NEW b \in Bots, NEW where, Di!Goto(b, where)
    PROVE  raced' \in BOOLEAN /\ \A d \in Bots \ {b} : at'[d] = at[d]
    BY DEF SocketTypes, Di!Goto

\* What a cut leaves of the connections.
LEMMA Cutting ==
    ASSUME ClientTypes, NEW b \in Bots, NEW which, Di!Cut(b, which)
    PROVE  conn' \in [Clients -> Conns] /\ \A c \in Clients : conn'[c] \in {conn[c], "failed"}
    BY DEF ClientTypes, Di!Cut, Conns

LEMMA BotSteps ==
    ASSUME Di!DiagnosticsAssumption, SocketInv, SocketTypes, LoopsRun, NEW b \in Bots,
           Di!Inspect(b) \/ Di!BotStep(b) \/ Di!Stop(b) \/ Di!Crash(b)
    PROVE  /\ socket' \in {"none", "file"} \cup Bots
           /\ listening' \subseteq Bots /\ loop' \subseteq listening'
           /\ starts' \in 0..MaxStarts /\ raced' \in BOOLEAN /\ LoopsRun'
<1>0. /\ socket \in {"none", "file"} \cup Bots /\ at \in [Bots -> Places]
      /\ listening \subseteq Bots /\ loop \subseteq listening
      /\ starts \in 0..MaxStarts /\ raced \in BOOLEAN
    BY DEF SocketTypes, SocketInv
<1>1. CASE Di!Inspect(b)
    <2>1. /\ at[b] = "down" /\ starts < MaxStarts /\ starts' = starts + 1
          /\ UNCHANGED <<socket, listening, loop>>
          /\ UNCHANGED <<at, raced>> \/ \E where : Di!Goto(b, where)
        BY <1>1 DEF Di!Inspect
    <2>2. raced' \in BOOLEAN /\ \A d \in Bots \ {b} : at'[d] = at[d]
        BY <1>0, <2>1, GoingRaces
    <2>3. starts' \in 0..MaxStarts
        BY <1>0, <2>1 DEF Di!DiagnosticsAssumption
    <2> QED BY <1>0, <2>1, <2>2, <2>3 DEF LoopsRun
<1>2. CASE Di!Probe(b) \/ Di!RemoveOld(b) \/ Di!Bind(b) \/ Di!Listen(b)
    <2>1. /\ at[b] \in {"probe", "remove", "bind", "listen"}
          /\ socket' \in {socket, "none", b} /\ listening' \in {listening, listening \cup {b}}
          /\ UNCHANGED <<loop, starts>> /\ \E where : Di!Goto(b, where)
        BY <1>2 DEF Di!Probe, Di!RemoveOld, Di!Bind, Di!Listen
    <2>2. raced' \in BOOLEAN /\ \A d \in Bots \ {b} : at'[d] = at[d]
        BY <2>1, GoingRaces
    <2> QED BY <1>0, <2>1, <2>2 DEF LoopsRun
<1>3. CASE Di!Chmod(b)
    <2>1. /\ at[b] = "chmod" /\ UNCHANGED <<socket, starts>>
          /\ \/ listening' = listening \ {b} /\ loop' = loop /\ Di!Goto(b, "down")
             \/ listening' = listening /\ loop' = loop \cup {b} /\ Di!Goto(b, "serving")
        BY <1>3 DEF Di!Chmod
    <2>2. raced' \in BOOLEAN /\ \A d \in Bots \ {b} : at'[d] = at[d]
        BY <2>1, GoingRaces
    <2>3. b \in listening /\ b \notin loop
        BY <2>1 DEF SocketInv, ServersListen, LoopsRun
    <2>4. Di!Goto(b, "serving") => at'[b] = "serving"
        BY Going, BotPlaces
    <2> QED BY <1>0, <2>1, <2>2, <2>3, <2>4 DEF LoopsRun
<1>4. CASE Di!Stop(b)
    <2>1. /\ at[b] = "serving" /\ UNCHANGED <<listening, loop, starts>>
          /\ socket' \in {socket, "none"}
          /\ Di!Goto(b, "await") \/ Di!Goto(b, "dropping")
        BY <1>4 DEF Di!Stop, Di!RemoveSocket
    <2>2. raced' \in BOOLEAN /\ \A d \in Bots \ {b} : at'[d] = at[d]
        BY <2>1, GoingRaces
    <2>3. at'[b] \in {"await", "dropping"}
        BY <2>1, Going, BotPlaces
    <2> QED BY <1>0, <2>1, <2>2, <2>3 DEF LoopsRun
<1>5. CASE Di!LoopEnds(b)
    BY <1>0, <1>5 DEF Di!LoopEnds, Di!RemoveSocket, LoopsRun
<1>6. CASE Di!Stopped(b)
    <2>1. /\ b \notin loop /\ UNCHANGED <<listening, loop, starts>>
          /\ socket' \in {socket, "none"} /\ \E where : Di!Goto(b, where)
        BY <1>6 DEF Di!Stopped, Di!RemoveSocket
    <2>2. raced' \in BOOLEAN /\ \A d \in Bots \ {b} : at'[d] = at[d]
        BY <2>1, GoingRaces
    <2> QED BY <1>0, <2>1, <2>2 DEF LoopsRun
<1>7. CASE Di!Exit(b) \/ Di!Crash(b)
    <2>1. /\ at' = [at EXCEPT ![b] = "down"] /\ listening' = listening \ {b}
          /\ loop' = loop \ {b} /\ UNCHANGED <<socket, starts, raced>>
        BY <1>7 DEF Di!Exit, Di!Crash
    <2> QED BY <1>0, <2>1 DEF LoopsRun
<1> QED BY <1>1, <1>2, <1>3, <1>4, <1>5, <1>6, <1>7 DEF Di!BotStep

\* No step of a bot but Accept serves a client.
LEMMA BotsCut ==
    ASSUME ClientTypes, NEW b \in Bots,
           Di!Inspect(b) \/ Di!BotStep(b) \/ Di!Stop(b) \/ Di!Crash(b)
    PROVE  /\ peer' = peer /\ wrote' = wrote /\ conn' \in [Clients -> Conns]
           /\ \A c \in Clients : conn'[c] \in {conn[c], "failed"}
<1>1. peer' = peer /\ wrote' = wrote /\ (conn' = conn \/ \E which : Di!Cut(b, which))
    <2>1. CASE Di!Inspect(b) \/ Di!Probe(b) \/ Di!RemoveOld(b) \/ Di!Bind(b) \/ Di!Listen(b)
               \/ Di!Stop(b) \/ Di!Stopped(b)
        BY <2>1 DEF Di!Inspect, Di!Probe, Di!RemoveOld, Di!Bind, Di!Listen, Di!Stop, Di!Stopped,
           Di!NoClient
    <2>2. CASE Di!Chmod(b)
        BY <2>2 DEF Di!Chmod
    <2>3. CASE Di!LoopEnds(b) \/ Di!Exit(b) \/ Di!Crash(b)
        BY <2>3 DEF Di!LoopEnds, Di!Exit, Di!Crash
    <2> QED BY <2>1, <2>2, <2>3 DEF Di!BotStep
<1>2. CASE conn' = conn
    BY <1>1, <1>2 DEF ClientTypes
<1>3. CASE \E which : Di!Cut(b, which)
    BY <1>1, <1>3, Cutting
<1> QED BY <1>1, <1>2, <1>3

LEMMA ClientSteps ==
    ASSUME Di!DiagnosticsAssumption, SocketTypes, ClientTypes, FewServed, NEW c \in Clients,
           \/ Di!Connect(c) \/ Di!Write(c) \/ Di!Answer(c)
           \/ \E b \in Bots : Di!Accept(b, c)
    PROVE  ClientTypes' /\ FewServed'
<1>0. /\ peer \in [Clients -> Bots \cup {"none"}] /\ conn \in [Clients -> Conns]
      /\ wrote \in [Clients -> {"nothing"} \cup Di!Requests] /\ listening \subseteq Bots
    BY DEF ClientTypes, SocketTypes
<1>1. CASE Di!Connect(c)
    <2>1. conn[c] = "none" /\ wrote' = wrote
          /\ \/ /\ conn' = [conn EXCEPT ![c] = "queued"] /\ peer' = [peer EXCEPT ![c] = socket]
                /\ socket \in Bots
             \/ conn' = [conn EXCEPT ![c] = "failed"] /\ peer' = peer
        BY <1>0, <1>1 DEF Di!Connect
    <2>2. ClientTypes'
        BY <1>0, <2>1 DEF ClientTypes, Conns
    <2>3. \A b \in Bots : Di!Served(b)' \subseteq Di!Served(b)
        BY <1>0, <2>1 DEF Di!Served
    <2> QED BY <2>2, <2>3, NoMoreServed DEF FewServed
<1>2. CASE Di!Write(c)
    <2>1. peer' = peer /\ conn' = conn
          /\ \E q \in Di!Requests : wrote' = [wrote EXCEPT ![c] = q]
        BY <1>2 DEF Di!Write
    <2>2. ClientTypes'
        BY <1>0, <2>1 DEF ClientTypes
    <2>3. \A b \in Bots : Di!Served(b)' \subseteq Di!Served(b)
        BY <2>1 DEF Di!Served
    <2> QED BY <2>2, <2>3, NoMoreServed DEF FewServed
<1>3. CASE Di!Answer(c)
    <2>1. PICK a \in Di!Answers : peer' = peer /\ wrote' = wrote /\ conn' = [conn EXCEPT ![c] = a]
        BY <1>3 DEF Di!Answer, Di!Respond, Di!Answers
    <2>2. a # "served" /\ a \in Conns
        BY DEF Di!Answers, Conns
    <2>3. ClientTypes'
        BY <1>0, <2>1, <2>2 DEF ClientTypes
    <2>4. \A b \in Bots : Di!Served(b)' \subseteq Di!Served(b)
        BY <1>0, <2>1, <2>2 DEF Di!Served
    <2> QED BY <2>3, <2>4, NoMoreServed DEF FewServed
<1>4. CASE \E b \in Bots : Di!Accept(b, c)
    <2>1. PICK b \in Bots : Di!Accept(b, c)
        BY <1>4
    <2>2. /\ conn[c] = "queued" /\ peer[c] = b /\ peer' = peer /\ wrote' = wrote
          /\ conn' = [conn EXCEPT ![c] =
                        IF Cardinality(Di!Served(b)) < Limit THEN "served" ELSE "failed"]
        BY <2>1, SameCardinality DEF Di!Accept
    <2>3. ClientTypes'
        BY <1>0, <2>2 DEF ClientTypes, Conns
    <2>4. \A d \in Bots \ {b} : Di!Served(d)' \subseteq Di!Served(d)
        BY <1>0, <2>2 DEF Di!Served
    <2>5. CASE Cardinality(Di!Served(b)) < Limit
        <3> DEFINE S == Di!Served(b)
        <3>1. Di!Served(b)' = S \cup {c} /\ c \notin S
            BY <1>0, <2>2, <2>5 DEF Di!Served
        <3>2. IsFiniteSet(S) /\ Cardinality(S) < Limit /\ Limit \in Nat
            BY <2>5 DEF FewServed, Di!DiagnosticsAssumption
        <3> HIDE DEF S
        <3>3. IsFiniteSet(S \cup {c}) /\ Cardinality(S \cup {c}) = Cardinality(S) + 1
            BY <3>1, <3>2, FS_AddElement
        <3>4. Cardinality(S) \in Nat
            BY <3>2, FS_CardinalityType
        <3>5. IsFiniteSet(Di!Served(b)') /\ Cardinality(Di!Served(b)') <= Limit
            BY <3>1, <3>2, <3>3, <3>4
        <3> QED BY <2>3, <2>4, <3>5, NoMoreServed DEF FewServed
    <2>6. CASE ~(Cardinality(Di!Served(b)) < Limit)
        <3>1. Di!Served(b)' \subseteq Di!Served(b)
            BY <1>0, <2>2, <2>6 DEF Di!Served
        <3> QED BY <2>3, <2>4, <3>1, NoMoreServed DEF FewServed
    <2> QED BY <2>5, <2>6
<1> QED BY <1>1, <1>2, <1>3, <1>4

LEMMA SocketKindsStay ==
    ASSUME Di!DiagnosticsAssumption, SocketInv, SocketInv', SocketKinds, [Di!Next]_(Di!vars)
    PROVE  SocketKinds'
<1>0. SocketTypes /\ ClientTypes /\ LoopsRun /\ FewServed
    BY DEF SocketKinds
<1>a. at' \in [Bots -> {"down", "serving"} \cup Di!Starting \cup Di!Stopping]
    BY DEF SocketInv, Places, Rest
<1>1. ASSUME NEW b \in Bots, Di!Inspect(b) \/ Di!BotStep(b) \/ Di!Stop(b) \/ Di!Crash(b)
      PROVE  SocketKinds'
    <2>1. SocketTypes' /\ LoopsRun'
        BY <1>0, <1>1, <1>a, BotSteps DEF SocketTypes
    <2>2. /\ peer' = peer /\ wrote' = wrote /\ conn' \in [Clients -> Conns]
          /\ \A c \in Clients : conn'[c] \in {conn[c], "failed"}
        BY <1>0, <1>1, BotsCut
    <2>3. ClientTypes'
        BY <1>0, <2>2 DEF ClientTypes
    <2>4. \A d \in Bots : Di!Served(d)' \subseteq Di!Served(d)
        BY <2>2 DEF Di!Served
    <2>5. FewServed'
        BY <1>0, <2>4, NoMoreServed DEF FewServed
    <2> QED BY <2>1, <2>3, <2>5 DEF SocketKinds
<1>2. ASSUME NEW c \in Clients, \/ Di!Connect(c) \/ Di!Write(c) \/ Di!Answer(c)
                                \/ \E b \in Bots : Di!Accept(b, c)
      PROVE  SocketKinds'
    <2>1. UNCHANGED Di!bots
        BY <1>2, ClientsAreHarmless
    <2>2. SocketTypes' /\ LoopsRun'
        BY <1>0, <2>1 DEF SocketTypes, LoopsRun, Di!bots
    <2> QED BY <1>0, <1>2, <2>2, ClientSteps DEF SocketKinds
<1>3. CASE UNCHANGED Di!vars
    <2>1. SocketTypes' /\ ClientTypes' /\ LoopsRun'
        BY <1>0, <1>3 DEF SocketTypes, ClientTypes, LoopsRun, Di!vars, Di!bots
    <2>2. \A d \in Bots : Di!Served(d)' \subseteq Di!Served(d)
        BY <1>3 DEF Di!Served, Di!vars
    <2> QED BY <1>0, <2>1, <2>2, NoMoreServed DEF FewServed, SocketKinds
<1> QED BY <1>1, <1>2, <1>3 DEF Di!Next, Di!ConnStep

\* For any number of bots, clients and starts: unless two bots started or
\* stopped at once, a bot that serves is the one its path leads to, whatever
\* started, stopped or crashed before; a file that is no socket stays; and no
\* bot serves more clients than its limit.  (prepare_socket_path, stop, Drop
\* and the accept loop, diagnostics/server.rs)
THEOREM SocketsKeepTheirNames == HostSpec => NamesAreSafe
<1>1. HostInit => SocketInv /\ SocketKinds
    BY HostAssumption, SocketsStart, SocketKindsStart DEF HostInit
<1>2. SocketInv /\ SocketKinds /\ [HostNext]_hostVars => (SocketInv /\ SocketKinds)'
    BY HostAssumption, PartSteps, SocketsStep, SocketKindsStay
<1>3. SocketInv /\ SocketInv' /\ [HostNext]_hostVars =>
        [Di!ServingIsReachable' /\ (socket = "file" => socket' = "file")]_(Di!vars)
    <2>1. SocketInv' => Di!ServingIsReachable'
        BY DEF SocketInv, Named, Di!ServingIsReachable
    <2> QED BY <2>1, HostAssumption, PartSteps, FileStays
<1>4. SocketKinds => Di!TypeOK
    BY SocketKindsAreTypeOK
<1> QED BY <1>1, <1>2, <1>3, <1>4, PTL DEF HostSpec, NamesAreSafe, Di!NamesAreSafe

-----------------------------------------------------------------------------
(* The file tools *)

\* What a call under way may be and has already made sure of.
CallStages ==
    \A c \in Calls :
        /\ stage[c] \in {"mkdir", "open", "put"} => op[c] \in {"write", "append"} /\ size[c] <= MaxWrite
        /\ stage[c] = "fetch" => op[c] = "read"
        /\ stage[c] = "idle" => c \notin overlapped
        /\ stage[c] \in {"open", "put"} /\ path[c] = "inner" => node["top"] = "dir"
        /\ stage[c] = "put" => node[path[c]] = "file"

\* Two calls on one file of which one changes it know that they overlap; two
\* that change it have torn it.
OverlapsAreKnown ==
    \A c, d \in Active :
        c # d /\ path[c] = path[d] =>
            /\ op[c] # "read" \/ op[d] # "read" => c \in overlapped
            /\ op[c] # "read" /\ op[d] # "read" => ref[path[c]] = Torn

\* What the file holds when a call is about to put its text.
ReadyToPut ==
    \A c \in Calls : stage[c] = "put" =>
        /\ op[c] = "write" /\ (c \notin overlapped \/ ref[path[c]] # Torn) => data[path[c]] = <<>>
        /\ op[c] = "append" /\ ref[path[c]] # Torn => data[path[c]] = ref[path[c]]

\* The length a call was allowed with is still the file's unless calls overlap.
LengthsHold ==
    \A c \in Active \ overlapped :
        /\ op[c] = "append" => Len(data[path[c]]) + size[c] <= MaxWrite
        /\ op[c] = "read" => Len(data[path[c]]) <= MaxRead

FileInv ==
    /\ TypeOK /\ CallStages /\ OverlapsAreKnown /\ ReadyToPut /\ LengthsHold
    /\ FilesAreWhole /\ FilesStaySmall /\ ReadsStaySmall

\* The types, in the form the steps need them.
LEMMA FileTypes ==
    ASSUME FileInv
    PROVE  /\ canonical \in BOOLEAN
           /\ node \in [Paths -> {"absent", "dir", "file"}] /\ data \in [Paths -> Seq(Calls)]
           /\ stage \in [Calls -> {"idle", "mkdir", "open", "put", "fetch", "done"}]
           /\ op \in [Calls -> {"none", "read", "write", "append"}] /\ path \in [Calls -> Paths]
           /\ arg \in [Calls -> {"relative", "absolute", "outside"}] /\ size \in [Calls -> Sizes]
           /\ outcome \in [Calls -> {"none", "ok", "violation", "refused", "error", "lost"}]
           /\ got \in [Calls -> Seq(Calls)] /\ overlapped \subseteq Calls
           /\ before \in [Calls -> SUBSET Calls] /\ ref \in [Paths -> Seq(Calls \cup {0})]
           /\ \A p \in Paths : data[p] # <<>> => node[p] = "file"
           /\ node["inner"] # "absent" => node["top"] = "dir"
    BY DEF FileInv, TypeOK

\* A call's text, and the part of it that a full disk takes.
LEMMA TextOfCall ==
    ASSUME NEW c \in Calls, size[c] \in Nat, NEW n \in 0..size[c]
    PROVE  /\ Content(c) \in Seq(Calls) /\ Len(Content(c)) = size[c]
           /\ SubSeq(Content(c), 1, n) \in Seq(Calls) /\ Len(SubSeq(Content(c), 1, n)) = n
<1>1. Content(c) \in Seq(Calls) /\ Len(Content(c)) = size[c]
    BY DEF Content
<1> QED BY <1>1

\* What a file holds after a text is put into it.
LEMMA TextPut ==
    ASSUME NEW S, NEW old \in Seq(S), NEW text \in Seq(S)
    PROVE  /\ old \o text \in Seq(S) /\ Len(old \o text) = Len(old) + Len(text)
           /\ text \o SubSeq(old, Len(text) + 1, Len(old)) \in Seq(S)
           /\ old = <<>> => text \o SubSeq(old, Len(text) + 1, Len(old)) = text
           /\ \/ Len(text \o SubSeq(old, Len(text) + 1, Len(old))) = Len(text)
              \/ Len(text \o SubSeq(old, Len(text) + 1, Len(old))) = Len(old)
<1>1. /\ SubSeq(old, Len(text) + 1, Len(old)) \in Seq(S)
      /\ Len(old) \in Nat /\ Len(text) \in Nat
    OBVIOUS
<1>4. Len(SubSeq(old, Len(text) + 1, Len(old))) =
        IF Len(text) + 1 <= Len(old) THEN Len(old) - Len(text) ELSE 0
    OBVIOUS
<1>2. old = <<>> => SubSeq(old, Len(text) + 1, Len(old)) = <<>>
    OBVIOUS
<1>3. text \o <<>> = text
    OBVIOUS
<1> QED BY <1>1, <1>2, <1>3

LEMMA FilesStart == Init => FileInv
<1> SUFFICES ASSUME Init PROVE FileInv
    OBVIOUS
<1>1. /\ data = [p \in Paths |-> <<>>] /\ node = [p \in Paths |-> "absent"]
      /\ stage = [c \in Calls |-> "idle"] /\ got = [c \in Calls |-> <<>>]
      /\ overlapped = {} /\ ref = [p \in Paths |-> <<>>]
    BY DEF Init
<1>2. TypeOK
    <2>1. (CHOOSE n \in Sizes : TRUE) \in Sizes
        BY FileToolsAssumption
    <2>2. <<>> \in Seq(Calls) /\ <<>> \in Seq(Calls \cup {0})
        OBVIOUS
    <2> QED BY <2>1, <2>2 DEF Init, TypeOK, Paths
<1>3. Active = {} /\ \A c \in Calls : stage[c] = "idle" /\ c \notin overlapped /\ Len(got[c]) = 0
    BY <1>1 DEF Active
<1>4. \A p \in Paths : data[p] = ref[p] /\ Len(data[p]) = 0
    BY <1>1
<1>5. CallStages /\ OverlapsAreKnown /\ ReadyToPut /\ LengthsHold
    BY <1>3 DEF CallStages, OverlapsAreKnown, ReadyToPut, LengthsHold
<1>6. FilesAreWhole /\ FilesStaySmall /\ ReadsStaySmall
    BY <1>3, <1>4, FileToolsAssumption DEF FilesAreWhole, FilesStaySmall, ReadsStaySmall
<1> QED BY <1>2, <1>5, <1>6 DEF FileInv

\* What the checks let through.
LEMMA Judged ==
    ASSUME NEW o, NEW p, NEW a, NEW n, Judge(o, p, a, n) = "none", n \in Nat, MaxWrite \in Nat
    PROVE  /\ o # "read" => n <= MaxWrite
           /\ o = "append" => Len(data[p]) + n <= MaxWrite
           /\ o = "read" => Len(data[p]) <= MaxRead
    BY DEF Judge, Fits, AllowsRead

LEMMA Begins ==
    ASSUME FileInv, NEW c \in Calls, Begin(c)
    PROVE  FileInv'
<1>1. PICK o \in {"read", "write", "append"}, p \in Paths,
           a \in {"relative", "absolute", "outside"}, n \in Sizes :
        /\ o = "read" => n = CHOOSE m \in Sizes : TRUE
        /\ a = "outside" => p = "top" /\ o = "read"
        /\ a = "absolute" => ~canonical
        /\ op' = [op EXCEPT ![c] = o] /\ path' = [path EXCEPT ![c] = p]
        /\ arg' = [arg EXCEPT ![c] = a] /\ size' = [size EXCEPT ![c] = n]
        /\ IF Judge(o, p, a, n) # "none" THEN Finish(c, Judge(o, p, a, n))
           ELSE Goto(c, IF o = "read" THEN "fetch" ELSE "mkdir")
        /\ before' = IF outcome'[c] = "violation"
                       THEN [before EXCEPT ![c] = {d \in Calls : outcome[d] = "ok"}] ELSE before
        /\ LET others == {d \in Active : path[d] = p /\ (o # "read" \/ op[d] # "read")}
           IN  IF stage'[c] = "done" \/ others = {} THEN UNCHANGED <<overlapped, ref>>
               ELSE /\ overlapped' = overlapped \cup {c} \cup others
                    /\ ref' = IF o # "read" /\ \E d \in others : op[d] # "read"
                                THEN [ref EXCEPT ![p] = Torn] ELSE ref
    BY Zenon DEF Begin
<1>2. stage[c] = "idle" /\ UNCHANGED <<canonical, node, data, got>>
    BY DEF Begin
<1> DEFINE next == IF Judge(o, p, a, n) # "none" THEN "done"
                   ELSE IF o = "read" THEN "fetch" ELSE "mkdir"
           others == {d \in Active : path[d] = p /\ (o # "read" \/ op[d] # "read")}
<1>3. /\ stage' = [stage EXCEPT ![c] = next]
      /\ outcome' \in [Calls -> {"none", "ok", "violation", "refused", "error", "lost"}]
    <2>1. Judge(o, p, a, n) \in {"none", "refused", "violation"}
        BY DEF Judge
    <2>2. /\ stage' = [stage EXCEPT ![c] = next]
          /\ outcome' = outcome \/ outcome' = [outcome EXCEPT ![c] = Judge(o, p, a, n)]
        <3>1. CASE Judge(o, p, a, n) # "none"
            BY <1>1, <3>1 DEF Finish
        <3>2. CASE Judge(o, p, a, n) = "none"
            BY <1>1, <3>2 DEF Goto
        <3> QED BY <3>1, <3>2
    <2> HIDE DEF next
    <2>3. outcome \in [Calls -> {"none", "ok", "violation", "refused", "error", "lost"}]
        BY FileTypes
    <2> QED BY <2>1, <2>2, <2>3
<1>4. next \in {"done", "fetch", "mkdir"}
    OBVIOUS
<1>j. /\ next # "done" => /\ o # "read" => n <= MaxWrite
                          /\ o = "append" => Len(data[p]) + n <= MaxWrite
                          /\ o = "read" => Len(data[p]) <= MaxRead
      /\ next = "mkdir" => o \in {"write", "append"}
      /\ next = "fetch" => o = "read"
    BY Judged, FileToolsAssumption
<1> HIDE DEF next
<1>5. /\ stage'[c] = next /\ op'[c] = o /\ path'[c] = p /\ size'[c] = n
      /\ \A d \in Calls \ {c} : /\ stage'[d] = stage[d] /\ op'[d] = op[d] /\ path'[d] = path[d]
                                /\ size'[d] = size[d]
    BY <1>1, <1>3, FileTypes
<1>6. c \notin Active /\ Active \subseteq Calls /\ c \notin overlapped
    BY <1>2 DEF Active, FileInv, CallStages
<1>7. Active' = IF next = "done" THEN Active ELSE Active \cup {c}
    BY <1>2, <1>4, <1>5 DEF Active
<1>8. /\ others \subseteq Active /\ \A d \in others : path[d] = p
      /\ \A d \in Active : path[d] = p /\ (o # "read" \/ op[d] # "read") => d \in others
    OBVIOUS
<1>9. \/ (next = "done" \/ others = {}) /\ overlapped' = overlapped /\ ref' = ref
      \/ /\ next # "done" /\ overlapped' = overlapped \cup {c} \cup others
         /\ ref' = IF o # "read" /\ \E d \in others : op[d] # "read"
                     THEN [ref EXCEPT ![p] = Torn] ELSE ref
    BY <1>1, <1>5
<1> HIDE DEF others
<1>10. /\ overlapped \subseteq overlapped' /\ overlapped' \subseteq Calls
       /\ ref' \in [Paths -> Seq(Calls \cup {0})]
       /\ \A q \in Paths : ref'[q] = ref[q] \/ ref'[q] = Torn
    <2>1. Torn \in Seq(Calls \cup {0})
        BY DEF Torn
    <2>2. overlapped \subseteq overlapped' /\ overlapped' \subseteq Calls
        BY <1>6, <1>8, <1>9, FileTypes
    <2>3. ref' = ref \/ ref' = [ref EXCEPT ![p] = Torn]
        BY <1>9
    <2>4. ref \in [Paths -> Seq(Calls \cup {0})]
        BY FileTypes
    <2> HIDE DEF Torn
    <2> QED BY <2>1, <2>2, <2>3, <2>4
<1>11. TypeOK'
    <2>1. before' \in [Calls -> SUBSET Calls]
        BY <1>1, FileTypes
    <2>2. stage' \in [Calls -> {"idle", "mkdir", "open", "put", "fetch", "done"}]
        BY <1>3, <1>4, FileTypes
    <2>3. /\ op' \in [Calls -> {"none", "read", "write", "append"}] /\ path' \in [Calls -> Paths]
          /\ arg' \in [Calls -> {"relative", "absolute", "outside"}] /\ size' \in [Calls -> Sizes]
        BY <1>1, FileTypes
    <2> QED BY <1>2, <1>3, <1>10, <2>1, <2>2, <2>3, FileTypes DEF TypeOK
<1>12. CallStages'
    <2> SUFFICES ASSUME NEW x \in Calls
                 PROVE  /\ stage'[x] \in {"mkdir", "open", "put"} =>
                             op'[x] \in {"write", "append"} /\ size'[x] <= MaxWrite
                        /\ stage'[x] = "fetch" => op'[x] = "read"
                        /\ stage'[x] = "idle" => x \notin overlapped'
                        /\ stage'[x] \in {"open", "put"} /\ path'[x] = "inner" => node'["top"] = "dir"
                        /\ stage'[x] = "put" => node'[path'[x]] = "file"
        BY DEF CallStages
    <2>1. CASE x = c
        BY <1>4, <1>5, <1>j, <2>1
    <2>2. CASE x # c
        <3>1. stage[x] = "idle" => x \notin overlapped /\ x \notin others
            BY <1>8 DEF FileInv, CallStages, Active
        <3> QED BY <1>2, <1>5, <1>9, <2>2, <3>1 DEF FileInv, CallStages
    <2> QED BY <2>1, <2>2
<1>13. OverlapsAreKnown'
    <2> SUFFICES ASSUME NEW x \in Active', NEW y \in Active', x # y, path'[x] = path'[y]
                 PROVE  /\ op'[x] # "read" \/ op'[y] # "read" => x \in overlapped'
                        /\ op'[x] # "read" /\ op'[y] # "read" => ref'[path'[x]] = Torn
        BY DEF OverlapsAreKnown
    <2>1. CASE x # c /\ y # c
        <3>1. x \in Active /\ y \in Active /\ path[x] \in Paths
            BY <1>6, <1>7, <2>1, FileTypes
        <3>2. /\ op[x] # "read" \/ op[y] # "read" => x \in overlapped
              /\ op[x] # "read" /\ op[y] # "read" => ref[path[x]] = Torn
            BY <1>5, <1>6, <2>1, <3>1 DEF FileInv, OverlapsAreKnown
        <3> QED BY <1>5, <1>6, <1>10, <2>1, <3>1, <3>2
    <2>2. CASE x = c \/ y = c
        <3>1. PICK d \in Active : {x, y} = {c, d} /\ d # c
            BY <1>6, <1>7, <2>2
        <3>2. path[d] = p /\ op'[c] = o /\ op'[d] = op[d] /\ path'[x] = p /\ next # "done"
            BY <1>5, <1>6, <1>7, <2>2, <3>1
        <3>3. o # "read" \/ op[d] # "read" => d \in others
            BY <1>8, <3>2
        <3>4. o # "read" \/ op[d] # "read" => c \in overlapped' /\ d \in overlapped'
            BY <1>9, <3>2, <3>3
        <3>5. o # "read" /\ op[d] # "read" => ref'[p] = Torn
            BY <1>9, <3>2, <3>3, FileTypes
        <3> QED BY <3>1, <3>2, <3>4, <3>5
    <2> QED BY <2>1, <2>2
<1>14. ReadyToPut'
    <2> SUFFICES ASSUME NEW x \in Calls, stage'[x] = "put"
                 PROVE  /\ op'[x] = "write" /\ (x \notin overlapped' \/ ref'[path'[x]] # Torn) =>
                             data'[path'[x]] = <<>>
                        /\ op'[x] = "append" /\ ref'[path'[x]] # Torn =>
                             data'[path'[x]] = ref'[path'[x]]
        BY DEF ReadyToPut
    <2>1. x # c /\ stage[x] = "put" /\ op'[x] = op[x] /\ path'[x] = path[x] /\ path[x] \in Paths
        BY <1>4, <1>5, FileTypes
    <2> QED BY <1>2, <1>10, <2>1 DEF FileInv, ReadyToPut
<1>15. LengthsHold'
    <2> SUFFICES ASSUME NEW x \in Active' \ overlapped'
                 PROVE  /\ op'[x] = "append" => Len(data'[path'[x]]) + size'[x] <= MaxWrite
                        /\ op'[x] = "read" => Len(data'[path'[x]]) <= MaxRead
        BY DEF LengthsHold
    <2>1. CASE x = c
        BY <1>2, <1>5, <1>6, <1>7, <1>j, <2>1
    <2>2. CASE x # c
        BY <1>2, <1>5, <1>6, <1>7, <1>10, <2>2 DEF FileInv, LengthsHold
    <2> QED BY <2>1, <2>2
<1>16. FilesAreWhole'
    <2> SUFFICES ASSUME NEW q \in Paths
                 PROVE  \/ ref'[q] = Torn \/ data'[q] = ref'[q]
                        \/ \E x \in Active' : path'[x] = q /\ stage'[x] = "put"
        BY DEF FilesAreWhole
    <2>1. \A x \in Active : x \in Active' /\ path'[x] = path[x] /\ stage'[x] = stage[x]
        BY <1>5, <1>6, <1>7
    <2>2. \/ ref[q] = Torn \/ data[q] = ref[q]
          \/ \E x \in Active : path[x] = q /\ stage[x] = "put"
        BY DEF FileInv, FilesAreWhole
    <2>3. ref'[q] = ref[q] \/ ref'[q] = Torn
        BY <1>10
    <2> QED BY <1>2, <2>1, <2>2, <2>3
<1>17. FilesStaySmall' /\ ReadsStaySmall'
    <2>1. \A x \in overlapped : x \in overlapped' /\ path'[x] = path[x]
        BY <1>5, <1>6, <1>10, FileTypes
    <2> QED BY <1>2, <2>1 DEF FileInv, FilesStaySmall, ReadsStaySmall
<1> QED BY <1>11, <1>12, <1>13, <1>14, <1>15, <1>16, <1>17 DEF FileInv

\* A call that goes on, or is done, leaves the others where they are.
LEMMA Moving ==
    ASSUME FileInv, NEW c \in Calls, stage[c] \notin {"idle", "done"},
           NEW s \in {"mkdir", "open", "put", "fetch", "done"},
           stage' = [stage EXCEPT ![c] = s], request' = request
    PROVE  /\ stage' \in [Calls -> {"idle", "mkdir", "open", "put", "fetch", "done"}]
           /\ stage'[c] = s /\ \A d \in Calls \ {c} : stage'[d] = stage[d]
           /\ c \in Active /\ Active' = IF s = "done" THEN Active \ {c} ELSE Active
           /\ op' = op /\ path' = path /\ arg' = arg /\ size' = size
           /\ path[c] \in Paths /\ size[c] \in Nat /\ MaxWrite \in Nat /\ MaxRead \in Nat
<1>1. stage \in [Calls -> {"idle", "mkdir", "open", "put", "fetch", "done"}]
      /\ path[c] \in Paths /\ size[c] \in Nat
    BY FileTypes, FileToolsAssumption
<1>2. stage' \in [Calls -> {"idle", "mkdir", "open", "put", "fetch", "done"}]
      /\ stage'[c] = s /\ \A d \in Calls \ {c} : stage'[d] = stage[d]
    BY <1>1
<1>3. c \in Active /\ Active' = IF s = "done" THEN Active \ {c} ELSE Active
    BY <1>2 DEF Active
<1> QED BY <1>1, <1>2, <1>3, FileToolsAssumption DEF request

\* Steps that touch no file.
LEMMA NothingPut ==
    ASSUME FileInv, UNCHANGED <<data, ref, request, overlapped>>, Active' \subseteq Active,
           \A x \in Calls : stage'[x] = "put" <=> stage[x] = "put"
    PROVE  OverlapsAreKnown' /\ ReadyToPut' /\ LengthsHold' /\ FilesAreWhole' /\ FilesStaySmall'
<1>0. data' = data /\ ref' = ref /\ overlapped' = overlapped
      /\ op' = op /\ path' = path /\ size' = size
    BY DEF request
<1>1. OverlapsAreKnown'
    BY <1>0 DEF FileInv, OverlapsAreKnown
<1>2. ReadyToPut'
    BY <1>0 DEF FileInv, ReadyToPut
<1>3. LengthsHold'
    BY <1>0 DEF FileInv, LengthsHold
<1>4. FilesAreWhole'
    <2>1. \A x \in Calls : stage[x] = "put" => x \in Active'
        BY DEF Active
    <2> QED BY <1>0, <2>1 DEF FileInv, FilesAreWhole, Active
<1>5. FilesStaySmall'
    BY <1>0 DEF FileInv, FilesStaySmall
<1> QED BY <1>1, <1>2, <1>3, <1>4, <1>5

LEMMA MakesParent ==
    ASSUME FileInv, NEW c \in Calls, Mkdir(c)
    PROVE  FileInv'
<1>1. /\ stage[c] = "mkdir" /\ UNCHANGED <<canonical, data, request, got, overlapped, before, ref>>
      /\ \/ Finish(c, "error") /\ node' = node
         \/ /\ Goto(c, "open") /\ ~(path[c] = "inner" /\ node["top"] = "file")
            /\ node' = IF path[c] = "inner" THEN [node EXCEPT !["top"] = "dir"] ELSE node
    BY DEF Mkdir
<1>2. PICK s \in {"done", "open"} :
        /\ stage' = [stage EXCEPT ![c] = s]
        /\ outcome' = outcome \/ outcome' = [outcome EXCEPT ![c] = "error"]
        /\ s = "done" => node' = node
        /\ s = "open" =>
             /\ ~(path[c] = "inner" /\ node["top"] = "file")
             /\ node' = IF path[c] = "inner" THEN [node EXCEPT !["top"] = "dir"] ELSE node
    BY <1>1 DEF Finish, Goto
<1>3. /\ stage' \in [Calls -> {"idle", "mkdir", "open", "put", "fetch", "done"}]
      /\ stage'[c] = s /\ \A d \in Calls \ {c} : stage'[d] = stage[d]
      /\ Active' \subseteq Active
      /\ op' = op /\ path' = path /\ arg' = arg /\ size' = size
    <2>1. request' = request /\ stage[c] \notin {"idle", "done"}
          /\ s \in {"mkdir", "open", "put", "fetch", "done"}
        BY <1>1
    <2>2. stage' = [stage EXCEPT ![c] = s]
        BY <1>2
    <2>3. /\ stage' \in [Calls -> {"idle", "mkdir", "open", "put", "fetch", "done"}]
          /\ stage'[c] = s /\ \A d \in Calls \ {c} : stage'[d] = stage[d]
          /\ c \in Active /\ Active' = IF s = "done" THEN Active \ {c} ELSE Active
          /\ op' = op /\ path' = path /\ arg' = arg /\ size' = size
          /\ path[c] \in Paths /\ size[c] \in Nat /\ MaxWrite \in Nat /\ MaxRead \in Nat
        BY <2>1, <2>2, Moving, Zenon
    <2> QED BY <2>3
<1>4. /\ node' \in [Paths -> {"absent", "dir", "file"}]
      /\ node'["inner"] = node["inner"]
      /\ node["top"] \in {"dir", "file"} => node'["top"] = node["top"]
      /\ s = "open" /\ path[c] = "inner" => node'["top"] = "dir"
    <2>1. node \in [Paths -> {"absent", "dir", "file"}] /\ "top" \in Paths /\ "inner" \in Paths
        BY FileTypes DEF Paths
    <2> QED BY <1>2, <2>1
<1>5. TypeOK'
    <2>1. outcome' \in [Calls -> {"none", "ok", "violation", "refused", "error", "lost"}]
        BY <1>2, FileTypes
    <2>2. \A p \in Paths : data[p] # <<>> => node'[p] = "file"
        BY <1>4, FileTypes DEF Paths
    <2>3. node'["inner"] # "absent" => node'["top"] = "dir"
        BY <1>4, FileTypes
    <2> QED BY <1>1, <1>3, <1>4, <2>1, <2>2, <2>3, FileTypes DEF TypeOK
<1>6. CallStages'
    <2> SUFFICES ASSUME NEW x \in Calls
                 PROVE  /\ stage'[x] \in {"mkdir", "open", "put"} =>
                             op[x] \in {"write", "append"} /\ size[x] <= MaxWrite
                        /\ stage'[x] = "fetch" => op[x] = "read"
                        /\ stage'[x] = "idle" => x \notin overlapped
                        /\ stage'[x] \in {"open", "put"} /\ path[x] = "inner" => node'["top"] = "dir"
                        /\ stage'[x] = "put" => node'[path[x]] = "file"
        BY <1>1, <1>3 DEF CallStages
    <2>1. path[x] \in {"top", "inner"}
        BY FileTypes DEF Paths
    <2> QED BY <1>1, <1>2, <1>3, <1>4, <2>1 DEF FileInv, CallStages
<1>7. \A x \in Calls : stage'[x] = "put" <=> stage[x] = "put"
    BY <1>1, <1>2, <1>3
<1>8. OverlapsAreKnown' /\ ReadyToPut' /\ LengthsHold' /\ FilesAreWhole' /\ FilesStaySmall'
    BY <1>1, <1>3, <1>7, NothingPut
<1>9. ReadsStaySmall'
    BY <1>1 DEF FileInv, ReadsStaySmall
<1> QED BY <1>5, <1>6, <1>8, <1>9 DEF FileInv

LEMMA Opens ==
    ASSUME FileInv, NEW c \in Calls, Open(c)
    PROVE  FileInv'
<1>1. /\ stage[c] = "open" /\ UNCHANGED <<canonical, request, got, overlapped, before, ref>>
      /\ \/ Finish(c, "error") /\ node' = node /\ data' = data
         \/ /\ Goto(c, "put") /\ node[path[c]] # "dir" /\ node' = [node EXCEPT ![path[c]] = "file"]
            /\ data' = IF op[c] = "write" THEN [data EXCEPT ![path[c]] = <<>>] ELSE data
    BY DEF Open
<1>c. op[c] \in {"write", "append"} /\ (path[c] = "inner" => node["top"] = "dir")
    BY <1>1 DEF FileInv, CallStages
<1>2. CASE Finish(c, "error") /\ node' = node /\ data' = data
    <2>1. stage' = [stage EXCEPT ![c] = "done"] /\ outcome' = [outcome EXCEPT ![c] = "error"]
        BY <1>2 DEF Finish
    <2>2. /\ stage' \in [Calls -> {"idle", "mkdir", "open", "put", "fetch", "done"}]
          /\ stage'[c] = "done" /\ \A d \in Calls \ {c} : stage'[d] = stage[d]
          /\ Active' \subseteq Active
          /\ op' = op /\ path' = path /\ arg' = arg /\ size' = size
        <3>1. request' = request /\ stage[c] \notin {"idle", "done"}
            BY <1>1
        <3> QED BY <2>1, <3>1, Moving
    <2>3. TypeOK'
        BY <1>1, <1>2, <2>1, <2>2, FileTypes DEF TypeOK
    <2>4. CallStages'
        BY <1>1, <1>2, <2>2 DEF FileInv, CallStages
    <2>5. \A x \in Calls : stage'[x] = "put" <=> stage[x] = "put"
        BY <1>1, <2>2
    <2>6. OverlapsAreKnown' /\ ReadyToPut' /\ LengthsHold' /\ FilesAreWhole' /\ FilesStaySmall'
        BY <1>1, <1>2, <2>2, <2>5, NothingPut
    <2>7. ReadsStaySmall'
        BY <1>1 DEF FileInv, ReadsStaySmall
    <2> QED BY <2>3, <2>4, <2>6, <2>7 DEF FileInv
<1>3. CASE /\ Goto(c, "put") /\ node[path[c]] # "dir" /\ node' = [node EXCEPT ![path[c]] = "file"]
           /\ data' = IF op[c] = "write" THEN [data EXCEPT ![path[c]] = <<>>] ELSE data
    <2> DEFINE p == path[c]
    <2>1. stage' = [stage EXCEPT ![c] = "put"] /\ outcome' = outcome
        BY <1>3 DEF Goto
    <2>2. /\ stage' \in [Calls -> {"idle", "mkdir", "open", "put", "fetch", "done"}]
          /\ stage'[c] = "put" /\ \A d \in Calls \ {c} : stage'[d] = stage[d]
          /\ Active' = Active /\ c \in Active
          /\ op' = op /\ path' = path /\ arg' = arg /\ size' = size
          /\ p \in Paths /\ MaxWrite \in Nat
        <3>1. request' = request /\ stage[c] \notin {"idle", "done"}
            BY <1>1
        <3> QED BY <2>1, <3>1, Moving
    <2>3. /\ node' \in [Paths -> {"absent", "dir", "file"}] /\ node'[p] = "file"
          /\ \A q \in Paths \ {p} : node'[q] = node[q]
        BY <1>3, <2>2, FileTypes
    <2>4. /\ data' \in [Paths -> Seq(Calls)]
          /\ data'[p] = IF op[c] = "write" THEN <<>> ELSE data[p]
          /\ \A q \in Paths \ {p} : data'[q] = data[q]
        <3>1. data \in [Paths -> Seq(Calls)] /\ <<>> \in Seq(Calls)
            BY FileTypes
        <3>2. \/ op[c] = "write" /\ data' = [data EXCEPT ![p] = <<>>]
              \/ op[c] # "write" /\ data' = data
            BY <1>3
        <3> HIDE DEF p
        <3> QED BY <2>2, <3>1, <3>2
    <2>5. node[p] # "dir" /\ (p = "inner" => node["top"] = "dir")
        BY <1>3, <1>c
    <2>p. /\ "top" \in Paths /\ "inner" \in Paths /\ p \in {"top", "inner"}
          /\ node["inner"] # "absent" => node["top"] = "dir"
        BY <2>2, FileTypes DEF Paths
    <2>o. ASSUME NEW x \in Active, x # c, path[x] = p
          PROVE  x \in overlapped /\ (op[x] # "read" => ref[p] = Torn)
        <3>1. op[c] # "read" /\ c \in Active
            BY <1>c, <2>2
        <3>o. OverlapsAreKnown
            BY DEF FileInv
        <3>2. path[x] = path[c] => /\ op[x] # "read" \/ op[c] # "read" => x \in overlapped
                                   /\ op[x] # "read" /\ op[c] # "read" => ref[path[x]] = Torn
            BY <2>o, <3>o, <3>1 DEF OverlapsAreKnown
        <3> QED BY <2>o, <3>1, <3>2
    <2> HIDE DEF p
    <2>n. node["top"] = "dir" => node'["top"] = "dir"
        <3>1. CASE p = "top"
            BY <2>5, <3>1
        <3>2. CASE p # "top"
            BY <2>3, <2>p, <3>2
        <3> QED BY <3>1, <3>2
    <2>6. TypeOK'
        <3>1. \A q \in Paths : data'[q] # <<>> => node'[q] = "file"
            BY <2>3, <2>4, FileTypes
        <3>2. node'["inner"] # "absent" => node'["top"] = "dir"
            BY <2>3, <2>5, <2>p, <2>n
        <3> QED BY <1>1, <2>1, <2>2, <2>3, <2>4, <3>1, <3>2, FileTypes DEF TypeOK
    <2>7. CallStages'
        <3> SUFFICES ASSUME NEW x \in Calls
                     PROVE  /\ stage'[x] \in {"mkdir", "open", "put"} =>
                                 op[x] \in {"write", "append"} /\ size[x] <= MaxWrite
                            /\ stage'[x] = "fetch" => op[x] = "read"
                            /\ stage'[x] = "idle" => x \notin overlapped
                            /\ stage'[x] \in {"open", "put"} /\ path[x] = "inner" => node'["top"] = "dir"
                            /\ stage'[x] = "put" => node'[path[x]] = "file"
            BY <1>1, <2>2 DEF CallStages
        <3>1. CASE x = c
            BY <1>1, <2>2, <2>3, <2>5, <2>n, <3>1 DEF FileInv, CallStages, p
        <3>2. CASE x # c
            <4>1. path[x] \in Paths
                BY FileTypes
            <4>2. stage'[x] = stage[x]
                BY <2>2, <3>2
            <4> QED BY <2>3, <2>n, <4>1, <4>2 DEF FileInv, CallStages
        <3> QED BY <3>1, <3>2
    <2>8. OverlapsAreKnown'
        BY <1>1, <2>2 DEF FileInv, OverlapsAreKnown
    <2>9. ReadyToPut'
        <3> SUFFICES ASSUME NEW x \in Calls, stage'[x] = "put"
                     PROVE  /\ op[x] = "write" /\ (x \notin overlapped \/ ref[path[x]] # Torn) =>
                                 data'[path[x]] = <<>>
                            /\ op[x] = "append" /\ ref[path[x]] # Torn =>
                                 data'[path[x]] = ref[path[x]]
            BY <1>1, <2>2 DEF ReadyToPut
        <3>1. CASE x = c
            <4>1. ASSUME ref[p] # Torn PROVE data[p] = ref[p]
                <5>1. ASSUME NEW y \in Active, path[y] = p, stage[y] = "put" PROVE FALSE
                    <6>1. y # c /\ y \in Calls
                        BY <1>1, <5>1 DEF Active
                    <6>2. op[y] # "read"
                        BY <5>1, <6>1 DEF FileInv, CallStages
                    <6> QED BY <2>o, <4>1, <5>1, <6>1, <6>2
                <5> QED BY <2>2, <4>1, <5>1 DEF FileInv, FilesAreWhole
            <4> QED BY <2>4, <3>1, <4>1 DEF p
        <3>2. CASE x # c
            <4>1. stage[x] = "put" /\ x \in Active /\ path[x] \in Paths
                BY <2>2, <3>2, FileTypes DEF Active
            <4>2. op[x] # "read"
                BY <4>1 DEF FileInv, CallStages
            <4>3. CASE path[x] = p
                BY <2>o, <3>2, <4>1, <4>2, <4>3
            <4>4. CASE path[x] # p
                BY <2>4, <4>1, <4>4 DEF FileInv, ReadyToPut
            <4> QED BY <4>3, <4>4
        <3> QED BY <3>1, <3>2
    <2>10. LengthsHold'
        <3> SUFFICES ASSUME NEW x \in Active, x \notin overlapped
                     PROVE  /\ op[x] = "append" => Len(data'[path[x]]) + size[x] <= MaxWrite
                            /\ op[x] = "read" => Len(data'[path[x]]) <= MaxRead
            BY <1>1, <2>2 DEF LengthsHold
        <3>1. CASE x = c
            <4>1. op[c] # "write" => data'[p] = data[p]
                BY <2>4
            <4> QED BY <3>1, <4>1 DEF FileInv, LengthsHold, p
        <3>2. CASE x # c
            <4>1. path[x] # p /\ path[x] \in Paths
                BY <2>o, <3>2, FileTypes DEF Active
            <4> QED BY <2>4, <4>1 DEF FileInv, LengthsHold
        <3> QED BY <3>1, <3>2
    <2>11. FilesAreWhole'
        <3> SUFFICES ASSUME NEW q \in Paths
                     PROVE  \/ ref[q] = Torn \/ data'[q] = ref[q]
                            \/ \E x \in Active : path[x] = q /\ stage'[x] = "put"
            BY <1>1, <2>2 DEF FilesAreWhole
        <3>1. CASE q = p
            BY <2>2, <3>1 DEF p
        <3>2. CASE q # p
            <4>1. data'[q] = data[q]
                BY <2>4, <3>2
            <4>2. \A x \in Active : stage[x] = "put" => stage'[x] = "put"
                BY <1>1, <2>2 DEF Active
            <4> QED BY <4>1, <4>2 DEF FileInv, FilesAreWhole
        <3> QED BY <3>1, <3>2
    <2>12. FilesStaySmall'
        <3> SUFFICES ASSUME NEW q \in Paths, Len(data'[q]) > MaxWrite
                     PROVE  \E x \in overlapped : path[x] = q
            BY <1>1, <2>2 DEF FilesStaySmall
        <3>1. data'[q] = data[q] \/ data'[q] = <<>>
            BY <2>4
        <3>2. Len(<<>>) = 0
            OBVIOUS
        <3>3. data'[q] = data[q]
            BY <2>2, <3>1, <3>2
        <3> QED BY <3>3 DEF FileInv, FilesStaySmall
    <2>13. ReadsStaySmall'
        BY <1>1 DEF FileInv, ReadsStaySmall
    <2> QED BY <2>6, <2>7, <2>8, <2>9, <2>10, <2>11, <2>12, <2>13 DEF FileInv
<1> QED BY <1>1, <1>2, <1>3

\* A call puts its text, or part of it, and ends; `r` is what the file should
\* hold from then on.
LEMMA Puts ==
    ASSUME FileInv, NEW c \in Calls, stage[c] = "put",
           NEW text \in Seq(Calls), Len(text) <= size[c], Put(c, text),
           NEW how \in {"ok", "error"}, Finish(c, how),
           NEW r \in Seq(Calls \cup {0}), ref' = [ref EXCEPT ![path[c]] = r],
           r = Torn \/ data'[path[c]] = r,
           c \in overlapped /\ ref[path[c]] = Torn => r = Torn,
           UNCHANGED <<canonical, node, request, got, overlapped, before>>
    PROVE  FileInv'
<1>1. /\ stage' = [stage EXCEPT ![c] = "done"] /\ outcome' = [outcome EXCEPT ![c] = how]
      /\ request' = request /\ canonical' = canonical /\ node' = node /\ got' = got
      /\ overlapped' = overlapped /\ before' = before
    BY DEF Finish
<1>2. /\ stage' \in [Calls -> {"idle", "mkdir", "open", "put", "fetch", "done"}]
      /\ stage'[c] = "done" /\ \A d \in Calls \ {c} : stage'[d] = stage[d]
      /\ c \in Active /\ Active' = Active \ {c}
      /\ op' = op /\ path' = path /\ arg' = arg /\ size' = size
      /\ path[c] \in Paths /\ size[c] \in Nat /\ MaxWrite \in Nat
    BY <1>1, Moving
<1> DEFINE p == path[c]
<1>3. op[c] \in {"write", "append"} /\ size[c] <= MaxWrite /\ node[p] = "file"
    BY DEF FileInv, CallStages
<1>4. /\ data' \in [Paths -> Seq(Calls)]
      /\ op[c] = "append" => Len(data'[p]) = Len(data[p]) + Len(text)
      /\ op[c] # "append" => Len(data'[p]) = Len(text) \/ Len(data'[p]) = Len(data[p])
      /\ \A q \in Paths \ {p} : data'[q] = data[q]
    <2>1. data \in [Paths -> Seq(Calls)] /\ data[p] \in Seq(Calls) /\ p \in Paths
        BY <1>2, FileTypes
    <2> DEFINE new == IF op[c] = "append" THEN data[p] \o text
                      ELSE text \o SubSeq(data[p], Len(text) + 1, Len(data[p]))
    <2>2. /\ new \in Seq(Calls)
          /\ op[c] = "append" => Len(new) = Len(data[p]) + Len(text)
          /\ op[c] # "append" => Len(new) = Len(text) \/ Len(new) = Len(data[p])
        <3> HIDE DEF p
        <3> QED BY <2>1, TextPut
    <2>3. data' = [data EXCEPT ![p] = new]
        BY DEF Put
    <2> HIDE DEF new, p
    <2> QED BY <2>1, <2>2, <2>3
<1>5. ref' \in [Paths -> Seq(Calls \cup {0})] /\ ref'[p] = r /\ \A q \in Paths \ {p} : ref'[q] = ref[q]
    BY <1>2, FileTypes
<1>o. ASSUME NEW x \in Active, x # c, path[x] = p
      PROVE  /\ x \in overlapped
             /\ op[x] # "read" => r = Torn
    <2>1. op[c] # "read" /\ c \in Active /\ OverlapsAreKnown
        BY <1>2, <1>3 DEF FileInv
    <2>2. path[x] = path[c] => /\ op[x] # "read" \/ op[c] # "read" => x \in overlapped
                               /\ op[x] # "read" /\ op[c] # "read" => ref[path[x]] = Torn
        BY <1>o, <2>1 DEF OverlapsAreKnown
    <2>3. path[c] = path[x] => (op[c] # "read" \/ op[x] # "read" => c \in overlapped)
        BY <1>o, <2>1 DEF OverlapsAreKnown
    <2> QED BY <1>o, <2>1, <2>2, <2>3
<1> HIDE DEF p
<1>6. TypeOK'
    <2>1. outcome' \in [Calls -> {"none", "ok", "violation", "refused", "error", "lost"}]
        BY <1>1, FileTypes
    <2>2. \A q \in Paths : data'[q] # <<>> => node'[q] = "file"
        BY <1>1, <1>3, <1>4, FileTypes
    <2>3. /\ canonical' \in BOOLEAN /\ node' \in [Paths -> {"absent", "dir", "file"}]
          /\ overlapped' \subseteq Calls /\ before' \in [Calls -> SUBSET Calls]
          /\ node'["inner"] # "absent" => node'["top"] = "dir"
        BY <1>1, FileTypes
    <2>4. /\ op' \in [Calls -> {"none", "read", "write", "append"}] /\ path' \in [Calls -> Paths]
          /\ arg' \in [Calls -> {"relative", "absolute", "outside"}] /\ size' \in [Calls -> Sizes]
        BY <1>2, FileTypes
    <2>5. got' \in [Calls -> Seq(Calls)]
        BY <1>1, FileTypes
    <2> QED BY <1>2, <1>4, <1>5, <2>1, <2>2, <2>3, <2>4, <2>5 DEF TypeOK
<1>7. CallStages'
    BY <1>1, <1>2 DEF FileInv, CallStages
<1>8. OverlapsAreKnown'
    <2> SUFFICES ASSUME NEW x \in Active \ {c}, NEW y \in Active \ {c}, x # y, path[x] = path[y]
                 PROVE  /\ op[x] # "read" \/ op[y] # "read" => x \in overlapped
                        /\ op[x] # "read" /\ op[y] # "read" => ref'[path[x]] = Torn
        BY <1>1, <1>2 DEF OverlapsAreKnown
    <2>1. /\ op[x] # "read" \/ op[y] # "read" => x \in overlapped
          /\ op[x] # "read" /\ op[y] # "read" => ref[path[x]] = Torn
        <3>1. OverlapsAreKnown
            BY DEF FileInv
        <3> QED BY <3>1 DEF OverlapsAreKnown
    <2>2. path[x] \in Paths
        BY FileTypes DEF Active
    <2> QED BY <1>5, <1>o, <2>1, <2>2
<1>9. ReadyToPut'
    <2> SUFFICES ASSUME NEW x \in Calls, stage'[x] = "put"
                 PROVE  /\ op[x] = "write" /\ (x \notin overlapped \/ ref'[path[x]] # Torn) =>
                             data'[path[x]] = <<>>
                        /\ op[x] = "append" /\ ref'[path[x]] # Torn =>
                             data'[path[x]] = ref'[path[x]]
        BY <1>1, <1>2 DEF ReadyToPut
    <2>1. x # c /\ stage[x] = "put" /\ x \in Active /\ path[x] \in Paths
        BY <1>2, FileTypes DEF Active
    <2>2. CASE path[x] = p
        <3>1. op[x] # "read"
            BY <2>1 DEF FileInv, CallStages
        <3> QED BY <1>5, <1>o, <2>1, <2>2, <3>1
    <2>3. CASE path[x] # p
        <3>1. ref'[path[x]] = ref[path[x]] /\ data'[path[x]] = data[path[x]]
            BY <1>4, <1>5, <2>1, <2>3
        <3> QED BY <2>1, <3>1 DEF FileInv, ReadyToPut
    <2> QED BY <2>2, <2>3
<1>10. LengthsHold'
    <2> SUFFICES ASSUME NEW x \in Active \ {c}, x \notin overlapped
                 PROVE  /\ op[x] = "append" => Len(data'[path[x]]) + size[x] <= MaxWrite
                        /\ op[x] = "read" => Len(data'[path[x]]) <= MaxRead
        BY <1>1, <1>2 DEF LengthsHold
    <2>1. path[x] # p /\ path[x] \in Paths
        BY <1>o, FileTypes DEF Active
    <2>2. data'[path[x]] = data[path[x]]
        BY <1>4, <2>1
    <2> QED BY <2>2 DEF FileInv, LengthsHold
<1>11. FilesAreWhole'
    <2> SUFFICES ASSUME NEW q \in Paths
                 PROVE  \/ ref'[q] = Torn \/ data'[q] = ref'[q]
                        \/ \E x \in Active \ {c} : path[x] = q /\ stage'[x] = "put"
        BY <1>1, <1>2 DEF FilesAreWhole
    <2>1. CASE q = p
        BY <1>5, <2>1 DEF p
    <2>2. CASE q # p
        <3>1. ref'[q] = ref[q] /\ data'[q] = data[q]
            BY <1>4, <1>5, <2>2
        <3>2. \A x \in Active : path[x] = q => x # c /\ stage'[x] = stage[x]
            BY <1>2, <2>2 DEF p, Active
        <3> QED BY <3>1, <3>2 DEF FileInv, FilesAreWhole
    <2> QED BY <2>1, <2>2
<1>12. FilesStaySmall'
    <2> SUFFICES ASSUME NEW q \in Paths, Len(data'[q]) > MaxWrite
                 PROVE  \E x \in overlapped : path[x] = q
        BY <1>1, <1>2 DEF FilesStaySmall
    <2>1. CASE q # p
        BY <1>4, <2>1 DEF FileInv, FilesStaySmall
    <2>2. CASE q = p /\ op[c] # "append"
        <3>1. Len(text) \in Nat /\ ~(Len(text) > MaxWrite)
            BY <1>2, <1>3
        <3>2. Len(data[q]) > MaxWrite
            BY <1>4, <2>2, <3>1
        <3> QED BY <3>2 DEF FileInv, FilesStaySmall
    <2>3. CASE q = p /\ op[c] = "append"
        <3>1. Len(text) \in Nat /\ Len(data[p]) \in Nat
            BY <2>3, FileTypes
        <3>2. ~(Len(data[p]) + size[c] <= MaxWrite)
            BY <1>2, <1>4, <2>3, <3>1
        <3>3. c \in overlapped
            BY <1>2, <2>3, <3>2 DEF FileInv, LengthsHold, p
        <3> QED BY <2>3, <3>3 DEF p
    <2> QED BY <2>1, <2>2, <2>3
<1>13. ReadsStaySmall'
    BY <1>1 DEF FileInv, ReadsStaySmall
<1> QED BY <1>6, <1>7, <1>8, <1>9, <1>10, <1>11, <1>12, <1>13 DEF FileInv

LEMMA WritesAll ==
    ASSUME FileInv, NEW c \in Calls, WriteAll(c)
    PROVE  FileInv'
<1> DEFINE p == path[c]
           r == IF ref[p] = Torn /\ (op[c] = "append" \/ c \in overlapped) THEN Torn
                ELSE IF op[c] = "append" THEN ref[p] \o Content(c) ELSE Content(c)
<1>1. /\ stage[c] = "put" /\ Put(c, Content(c)) /\ Finish(c, "ok")
      /\ UNCHANGED <<canonical, node, request, got, overlapped, before>>
    BY DEF WriteAll
<1>2. /\ p \in Paths /\ size[c] \in Nat
      /\ data \in [Paths -> Seq(Calls)] /\ ref \in [Paths -> Seq(Calls \cup {0})]
    BY FileTypes, FileToolsAssumption
<1>3. Content(c) \in Seq(Calls) /\ Len(Content(c)) = size[c]
    BY <1>2, TextOfCall
<1>4. ref' = [ref EXCEPT ![p] = r]
    BY <1>2 DEF WriteAll
<1>5. r \in Seq(Calls \cup {0})
    <2>1. Torn \in Seq(Calls \cup {0}) /\ Content(c) \in Seq(Calls \cup {0})
        BY <1>3 DEF Torn
    <2>2. ref[p] \in Seq(Calls \cup {0})
        BY <1>2
    <2>3. ref[p] \o Content(c) \in Seq(Calls \cup {0})
        BY <2>1, <2>2
    <2> QED BY <2>1, <2>3
<1>6. /\ op[c] = "write" /\ (c \notin overlapped \/ ref[p] # Torn) => data[p] = <<>>
      /\ op[c] = "append" /\ ref[p] # Torn => data[p] = ref[p]
      /\ op[c] \in {"write", "append"}
    BY <1>1 DEF FileInv, ReadyToPut, CallStages
<1>7. data'[p] = IF op[c] = "append" THEN data[p] \o Content(c)
                 ELSE Content(c) \o SubSeq(data[p], Len(Content(c)) + 1, Len(data[p]))
    BY <1>1, <1>2 DEF Put
<1>8. r = Torn \/ data'[p] = r
    <2>1. CASE op[c] = "append"
        BY <1>6, <1>7, <2>1
    <2>2. CASE op[c] # "append" /\ data[p] = <<>>
        <3>1. Content(c) \o SubSeq(data[p], Len(Content(c)) + 1, Len(data[p])) = Content(c)
            BY <1>2, <1>3, <2>2, TextPut
        <3> QED BY <1>7, <2>2, <3>1
    <2>3. CASE op[c] # "append" /\ data[p] # <<>>
        BY <1>6, <2>3
    <2> QED BY <2>1, <2>2, <2>3
<1>9. c \in overlapped /\ ref[p] = Torn => r = Torn
    OBVIOUS
<1>10. Len(Content(c)) <= size[c]
    BY <1>2, <1>3
<1> HIDE DEF r
<1> QED BY <1>1, <1>3, <1>4, <1>5, <1>8, <1>9, <1>10, Puts

LEMMA WritesPart ==
    ASSUME FileInv, NEW c \in Calls, WriteFails(c)
    PROVE  FileInv'
<1>1. /\ stage[c] = "put" /\ Finish(c, "error") /\ ref' = [ref EXCEPT ![path[c]] = Torn]
      /\ UNCHANGED <<canonical, node, request, got, overlapped, before>>
    BY DEF WriteFails
<1>2. PICK n \in 0..size[c] : Put(c, SubSeq(Content(c), 1, n))
    BY DEF WriteFails
<1>3. size[c] \in Nat
    BY FileTypes, FileToolsAssumption
<1> DEFINE text == SubSeq(Content(c), 1, n)
<1>4. text \in Seq(Calls) /\ Len(text) = n
    BY <1>3, TextOfCall
<1>5. Len(text) <= size[c] /\ Torn \in Seq(Calls \cup {0})
    BY <1>3, <1>4 DEF Torn
<1>6. Put(c, text)
    BY <1>2
<1> HIDE DEF text
<1> QED BY <1>1, <1>4, <1>5, <1>6, Puts

LEMMA Fetches ==
    ASSUME FileInv, NEW c \in Calls, Fetch(c)
    PROVE  FileInv'
<1>1. /\ stage[c] = "fetch" /\ UNCHANGED <<canonical, node, data, request, overlapped, before, ref>>
      /\ \/ Finish(c, "ok") /\ got' = [got EXCEPT ![c] = data[path[c]]]
         \/ Finish(c, "error") /\ got' = got
    BY DEF Fetch
<1>2. /\ stage' = [stage EXCEPT ![c] = "done"] /\ request' = request
      /\ outcome' = [outcome EXCEPT ![c] = "ok"] \/ outcome' = [outcome EXCEPT ![c] = "error"]
    BY <1>1 DEF Finish
<1>3. /\ stage' \in [Calls -> {"idle", "mkdir", "open", "put", "fetch", "done"}]
      /\ stage'[c] = "done" /\ \A d \in Calls \ {c} : stage'[d] = stage[d]
      /\ c \in Active /\ Active' = Active \ {c}
      /\ op' = op /\ path' = path /\ arg' = arg /\ size' = size
      /\ path[c] \in Paths /\ MaxRead \in Nat
    <2>1. stage[c] \notin {"idle", "done"} /\ request' = request
        BY <1>1
    <2>2. stage' = [stage EXCEPT ![c] = "done"]
        BY <1>2
    <2>3. /\ stage' \in [Calls -> {"idle", "mkdir", "open", "put", "fetch", "done"}]
          /\ stage'[c] = "done" /\ \A d \in Calls \ {c} : stage'[d] = stage[d]
          /\ c \in Active /\ Active' = IF "done" = "done" THEN Active \ {c} ELSE Active
          /\ op' = op /\ path' = path /\ arg' = arg /\ size' = size
          /\ path[c] \in Paths /\ size[c] \in Nat /\ MaxWrite \in Nat /\ MaxRead \in Nat
        BY <2>1, <2>2, Moving, Zenon
    <2> QED BY <2>3
<1>4. got' \in [Calls -> Seq(Calls)]
    <2>1. data[path[c]] \in Seq(Calls) /\ got \in [Calls -> Seq(Calls)]
        BY <1>3, FileTypes
    <2>2. got' = got \/ got' = [got EXCEPT ![c] = data[path[c]]]
        BY <1>1
    <2> QED BY <2>1, <2>2
<1>5. TypeOK'
    <2>1. outcome' \in [Calls -> {"none", "ok", "violation", "refused", "error", "lost"}]
        BY <1>2, FileTypes
    <2>2. /\ \A q \in Paths : data'[q] # <<>> => node'[q] = "file"
          /\ data' \in [Paths -> Seq(Calls)] /\ ref' \in [Paths -> Seq(Calls \cup {0})]
        BY <1>1, FileTypes
    <2>3. /\ canonical' \in BOOLEAN /\ node' \in [Paths -> {"absent", "dir", "file"}]
          /\ overlapped' \subseteq Calls /\ before' \in [Calls -> SUBSET Calls]
          /\ node'["inner"] # "absent" => node'["top"] = "dir"
        BY <1>1, FileTypes
    <2>4. /\ op' \in [Calls -> {"none", "read", "write", "append"}] /\ path' \in [Calls -> Paths]
          /\ arg' \in [Calls -> {"relative", "absolute", "outside"}] /\ size' \in [Calls -> Sizes]
        BY <1>3, FileTypes
    <2> QED BY <1>3, <1>4, <2>1, <2>2, <2>3, <2>4 DEF TypeOK
<1>6. CallStages'
    BY <1>1, <1>3 DEF FileInv, CallStages
<1>7. \A x \in Calls : stage'[x] = "put" <=> stage[x] = "put"
    BY <1>1, <1>3
<1>8. OverlapsAreKnown' /\ ReadyToPut' /\ LengthsHold' /\ FilesAreWhole' /\ FilesStaySmall'
    BY <1>1, <1>3, <1>7, NothingPut
<1>9. ReadsStaySmall'
    <2> SUFFICES ASSUME NEW x \in Calls, Len(got'[x]) > MaxRead
                 PROVE  x \in overlapped
        BY <1>1 DEF ReadsStaySmall
    <2>0. x # c \/ got' = got => got'[x] = got[x]
        BY <1>1, FileTypes
    <2>1. CASE got'[x] = got[x]
        BY <2>1 DEF FileInv, ReadsStaySmall
    <2>2. CASE x = c /\ got'[c] = data[path[c]]
        <3>1. op[c] = "read"
            BY <1>1 DEF FileInv, CallStages
        <3>2. ~(Len(data[path[c]]) <= MaxRead)
            <4>1. data[path[c]] \in Seq(Calls)
                BY <1>3, FileTypes
            <4> QED BY <1>3, <2>2, <4>1
        <3> QED BY <1>3, <2>2, <3>1, <3>2 DEF FileInv, LengthsHold
    <2>3. x = c /\ got' # got => got'[c] = data[path[c]]
        BY <1>1, FileTypes
    <2> QED BY <2>0, <2>1, <2>2, <2>3
<1> QED BY <1>5, <1>6, <1>8, <1>9 DEF FileInv

LEMMA Crashes ==
    ASSUME FileInv, Crash
    PROVE  FileInv'
<1>1. /\ stage' = [c \in Calls |-> IF c \in Active THEN "done" ELSE stage[c]]
      /\ outcome' = [c \in Calls |-> IF c \in Active THEN "lost" ELSE outcome[c]]
      /\ ref' = [p \in Paths |-> IF \E c \in Active : path[c] = p /\ stage[c] = "put" THEN Torn ELSE ref[p]]
      /\ canonical' = canonical /\ node' = node /\ data' = data /\ got' = got
      /\ overlapped' = overlapped /\ before' = before
      /\ op' = op /\ path' = path /\ arg' = arg /\ size' = size
    BY DEF Crash, request
<1>2. \A c \in Calls : stage'[c] \in {"idle", "done"} /\ (stage'[c] = "idle" <=> stage[c] = "idle")
    BY <1>1 DEF Active
<1>3. Active' = {}
    BY <1>2 DEF Active
<1>4. TypeOK'
    <2>1. stage' \in [Calls -> {"idle", "mkdir", "open", "put", "fetch", "done"}]
        BY <1>1, FileTypes
    <2>2. outcome' \in [Calls -> {"none", "ok", "violation", "refused", "error", "lost"}]
        BY <1>1, FileTypes
    <2>3. ref' \in [Paths -> Seq(Calls \cup {0})]
        <3>1. Torn \in Seq(Calls \cup {0}) /\ ref \in [Paths -> Seq(Calls \cup {0})]
            BY FileTypes DEF Torn
        <3> HIDE DEF Torn
        <3> QED BY <1>1, <3>1
    <2>4. /\ canonical' \in BOOLEAN /\ node' \in [Paths -> {"absent", "dir", "file"}]
          /\ overlapped' \subseteq Calls /\ before' \in [Calls -> SUBSET Calls]
          /\ node'["inner"] # "absent" => node'["top"] = "dir"
        BY <1>1, FileTypes
    <2>5. /\ op' \in [Calls -> {"none", "read", "write", "append"}] /\ path' \in [Calls -> Paths]
          /\ arg' \in [Calls -> {"relative", "absolute", "outside"}] /\ size' \in [Calls -> Sizes]
        BY <1>1, FileTypes
    <2>6. /\ \A q \in Paths : data'[q] # <<>> => node'[q] = "file"
          /\ data' \in [Paths -> Seq(Calls)] /\ got' \in [Calls -> Seq(Calls)]
        BY <1>1, FileTypes
    <2> QED BY <2>1, <2>2, <2>3, <2>4, <2>5, <2>6 DEF TypeOK
<1>5. CallStages' /\ OverlapsAreKnown' /\ ReadyToPut' /\ LengthsHold'
    <2>1. CallStages'
        <3>1. \A c \in Calls : stage[c] = "idle" => c \notin overlapped
            BY DEF FileInv, CallStages
        <3> QED BY <1>1, <1>2, <3>1 DEF CallStages
    <2>2. \A c \in Calls : stage'[c] # "put"
        BY <1>2
    <2>3. OverlapsAreKnown'
        BY <1>3 DEF OverlapsAreKnown
    <2>4. ReadyToPut'
        BY <2>2 DEF ReadyToPut
    <2>5. LengthsHold'
        BY <1>3 DEF LengthsHold
    <2> QED BY <2>1, <2>3, <2>4, <2>5
<1>6. FilesAreWhole'
    <2> SUFFICES ASSUME NEW p \in Paths, ref'[p] # Torn
                 PROVE  data[p] = ref'[p]
        BY <1>1 DEF FilesAreWhole
    <2>1. /\ ~ \E c \in Active : path[c] = p /\ stage[c] = "put"
          /\ ref'[p] = ref[p]
        BY <1>1
    <2> QED BY <2>1 DEF FileInv, FilesAreWhole
<1>7. FilesStaySmall' /\ ReadsStaySmall'
    BY <1>1 DEF FileInv, FilesStaySmall, ReadsStaySmall
<1> QED BY <1>4, <1>5, <1>6, <1>7 DEF FileInv

LEMMA FilesStep == FileInv /\ [Next]_vars => FileInv'
<1> SUFFICES ASSUME FileInv, [Next]_vars PROVE FileInv'
    OBVIOUS
<1>1. ASSUME NEW c \in Calls, Begin(c) PROVE FileInv'
    BY <1>1, Begins
<1>2. ASSUME NEW c \in Calls, Mkdir(c) PROVE FileInv'
    BY <1>2, MakesParent
<1>3. ASSUME NEW c \in Calls, Open(c) PROVE FileInv'
    BY <1>3, Opens
<1>4. ASSUME NEW c \in Calls, WriteAll(c) PROVE FileInv'
    BY <1>4, WritesAll
<1>5. ASSUME NEW c \in Calls, WriteFails(c) PROVE FileInv'
    BY <1>5, WritesPart
<1>6. ASSUME NEW c \in Calls, Fetch(c) PROVE FileInv'
    BY <1>6, Fetches
<1>7. ASSUME Crash PROVE FileInv'
    BY <1>7, Crashes
<1>8. ASSUME UNCHANGED vars PROVE FileInv'
    BY <1>8 DEF FileInv, TypeOK, CallStages, OverlapsAreKnown, ReadyToPut, LengthsHold,
                FilesAreWhole, FilesStaySmall, ReadsStaySmall, Active, vars, request
<1> QED BY <1>1, <1>2, <1>3, <1>4, <1>5, <1>6, <1>7, <1>8 DEF Next

\* A file holds what was last written to it and what was appended since, and
\* neither an append nor a read goes beyond its limit, unless calls on the file
\* overlap, one of them was cut short, or one is putting its text.
THEOREM FilesKeepTheirText == HostSpec => []FilesAreKept
<1>1. HostInit => FileInv
    BY FilesStart DEF HostInit
<1>2. FileInv /\ [HostNext]_hostVars => FileInv'
    BY FilesStep, PartSteps
<1>3. FileInv => FilesAreKept
    BY DEF FileInv, FilesAreKept, FilesAreSafe
<1> QED BY <1>1, <1>2, <1>3, PTL DEF HostSpec
=============================================================================
