------------------------------- MODULE Agent --------------------------------
(***************************************************************************)
(* The agent binary, agent/src/main.rs: from the arguments and environment *)
(* through Orchestrator::new to one run of the loop of module AgentLoop,   *)
(* whose variables it shares, and on to the report and the exit status.    *)
(* Of an Orchestrator it keeps the mode and the kinds of the audit entries *)
(* its step writes (module Orchestrator).  Standard output is taken to     *)
(* have a reader: println! would panic otherwise.                          *)
(***************************************************************************)
EXTENDS AgentLoop, SequencesExt

CONSTANTS
    EnvValue,   \* what AUTHZ may hold
    Lowercase,  \* a value trimmed and in lower case
    Unset       \* AUTHZ is not set, or is not Unicode

ASSUME AgentAssumption ==
    /\ Lowercase \in [EnvValue -> EnvValue]
    /\ Unset \notin EnvValue

VARIABLES
    authz, base_url,        \* the environment: AUTHZ, and whether BASE_URL is set
    args,                   \* args.len(); 3 is any more
    calls_file,             \* how many calls the calls file holds, if it is named
    phase,                  \* where main is
    mode,                   \* AuthzMode
    audit_log,              \* the kinds of the entries recorded so far
    report,                 \* what was printed: outcomes and audit log
    exit                    \* the exit status, or Running

environment == <<authz, base_url, args, calls_file>>

processVars == <<vars, environment, phase, mode, audit_log, report, exit>>

Running == -1
NoReport == [printed |-> FALSE, outcomes |-> <<>>, audit_log |-> <<>>]

Decided == {"ALLOWED", "DENIED"}

\* There is no principal yet: the loop is as new as it will be for a live one.
ProcessInit ==
    /\ Init /\ principal = "live"
    /\ authz \in EnvValue \cup {Unset}
    /\ base_url \in BOOLEAN
    /\ args \in 1 .. 3
    /\ calls_file \in ScriptLengths
    /\ phase = "start"
    /\ mode = "Enforced"
    /\ audit_log = <<>>
    /\ report = NoReport
    /\ exit = Running

-----------------------------------------------------------------------------

\* AuthzMode::from_env_value.
OffSwitches == {"off", "0", "false", "no", "bypass"}

FromEnvValue(value) == IF Lowercase[value] \in OffSwitches THEN "Bypassed" ELSE "Enforced"

Exit(status) ==
    /\ phase' = "exited"
    /\ exit' = status

Go(next) ==
    /\ phase' = next
    /\ UNCHANGED exit

\* Mutant: a missing AUTHZ is taken for an empty switch, that is off.
StartOpen ==
    /\ phase = "start"
    /\ mode' = IF authz = Unset THEN "Bypassed" ELSE FromEnvValue(authz)
    /\ IF args < 2 THEN Exit(2) ELSE Go("manifest")
    /\ UNCHANGED <<vars, environment, audit_log, report>>

\* The mode, and the check that a manifest was named.
Start ==
    /\ phase = "start"
    /\ mode' = IF authz = Unset THEN "Enforced" ELSE FromEnvValue(authz)
    /\ IF args < 2 THEN Exit(2) ELSE Go("manifest")
    /\ UNCHANGED <<vars, environment, audit_log, report>>

\* The manifest is read and parsed, or main returns the error.
LoadManifest ==
    /\ phase = "manifest"
    /\ Exit(1) \/ Go("new")
    /\ UNCHANGED <<vars, environment, mode, audit_log, report>>

\* Orchestrator::new: the manifest is refused, its TTL makes mint panic, or
\* there is a root.
NewOrchestrator ==
    /\ phase = "new"
    /\ \/ Exit(1) /\ UNCHANGED audit_log
       \/ Exit(101) /\ UNCHANGED audit_log
       \/ Go("select") /\ audit_log' = <<"ROOT MINTED">>
    /\ UNCHANGED <<vars, environment, mode, report>>

\* The principal run_principal will drive, and its turn budget.
MakePrincipal(kind, calls, budget) ==
    /\ principal' = kind
    /\ scripted' = calls /\ pending' = calls
    /\ max_turns' = budget
    /\ UNCHANGED <<turn, tries, posts, batch, messages, outcomes, pc, result, finished>>

ScriptedRun == MakePrincipal("scripted", calls_file, TurnBudget(calls_file))

LiveRun == MakePrincipal("live", 0, DEFAULT_MAX_TURNS)

\* Mutant: BASE_URL decides before the calls file is looked at.
SelectLiveFirst ==
    /\ phase = "select"
    /\ \/ base_url /\ Go("run") /\ LiveRun
       \/ ~base_url /\ args = 3 /\ Go("run") /\ ScriptedRun
       \/ ~base_url /\ args = 3 /\ Exit(1) /\ UNCHANGED vars
       \/ ~base_url /\ args < 3 /\ Exit(2) /\ UNCHANGED vars
    /\ UNCHANGED <<environment, mode, audit_log, report>>

\* A calls file, which may fail to load, or else BASE_URL, or else usage.
Select ==
    /\ phase = "select"
    /\ \/ args = 3 /\ Go("run") /\ ScriptedRun
       \/ args = 3 /\ Exit(1) /\ UNCHANGED vars
       \/ args < 3 /\ base_url /\ Go("run") /\ LiveRun
       \/ args < 3 /\ ~base_url /\ Exit(2) /\ UNCHANGED vars
    /\ UNCHANGED <<environment, mode, audit_log, report>>

\* The entries step writes for a decision.  A denial may come before or after
\* the attenuation; without enforcement nothing is denied and a failure of the
\* tool is still written as DENIED.
EntriesFor(decision) ==
    LET decided == IF decision = "Allowed" THEN "ALLOWED" ELSE "DENIED" IN
    IF mode = "Bypassed" THEN {<<decided>>}
    ELSE {<<"ATTENUATED", decided>>} \cup IF decision = "Denied" THEN {<<decided>>} ELSE {}

\* One step of the loop; where it serves a call, with the audit entries.
RunLoop ==
    /\ phase = "run"
    /\ Next
    /\ IF Len(outcomes') > Len(outcomes)
       THEN /\ mode = "Bypassed" => Last(outcomes') # "Denied"
            /\ \E entries \in EntriesFor(Last(outcomes')) : audit_log' = audit_log \o entries
       ELSE UNCHANGED audit_log
    /\ UNCHANGED <<environment, phase, mode, report, exit>>

\* Mutant: the error of the loop is returned at once.
LoopReturnsEarly ==
    /\ phase = "run"
    /\ pc = "ended"
    /\ IF result = "Err" THEN Exit(1) ELSE Go("report")
    /\ UNCHANGED <<vars, environment, mode, audit_log, report>>

\* The loop has returned; an error is kept for later.
LoopReturns ==
    /\ phase = "run"
    /\ pc = "ended"
    /\ Go("report")
    /\ UNCHANGED <<vars, environment, mode, audit_log, report>>

\* Mutant: the error of the loop is forgotten after the report.
PrintReportAndForget ==
    /\ phase = "report"
    /\ report' = [printed |-> TRUE, outcomes |-> outcomes, audit_log |-> audit_log]
    /\ Exit(0)
    /\ UNCHANGED <<vars, environment, mode, audit_log>>

\* Outcomes and audit log are printed, then the error is surfaced.
PrintReport ==
    /\ phase = "report"
    /\ report' = [printed |-> TRUE, outcomes |-> outcomes, audit_log |-> audit_log]
    /\ Exit(IF result = "Err" THEN 1 ELSE 0)
    /\ UNCHANGED <<vars, environment, mode, audit_log>>

ProcessNext ==
    \/ Start
    \/ LoadManifest
    \/ NewOrchestrator
    \/ Select
    \/ RunLoop
    \/ LoopReturns
    \/ PrintReport

ProcessSpec == ProcessInit /\ [][ProcessNext]_processVars

-----------------------------------------------------------------------------
(* Properties.                                                             *)

\* The entries that tell what was decided.
Logged(log) == Picked(log, {i \in DOMAIN log : log[i] \in Decided})

\* "we can always report the executed prefix and the full audit log before
\* surfacing any error" (agent/src/main.rs:45-47): once a call was served the
\* process does not exit, in whatever way the loop ended, without having
\* printed every outcome, and the log printed accounts for each of them.
NothingServedUnreported ==
    /\ exit # Running /\ outcomes # <<>> =>
          report.outcomes = outcomes /\ report.audit_log = audit_log
    /\ report.printed =>
          LET told == Logged(report.audit_log) IN
          /\ Len(told) = Len(report.outcomes)
          /\ \A i \in DOMAIN told : told[i] = "ALLOWED" <=> report.outcomes[i] = "Allowed"

\* The exit status tells how main ended: 0 that the loop returned Ok and its
\* outcomes were printed, though not that the principal had finished (see
\* OkMeansFinished); 2 and 101 that nothing was asked of anybody; and 1 with a
\* report that a request failed.
ExitStatusTells ==
    /\ exit = 0 => result = "Ok" /\ report.printed
    /\ exit \in {2, 101} => posts = 0 /\ outcomes = <<>> /\ ~report.printed
    /\ exit = 1 /\ report.printed => result = "Err" /\ principal = "live"

\* "An explicit calls file ALWAYS selects the scripted path - even if BASE_URL
\* is set" (agent/src/main.rs:40-41): however main gets to its end no model was
\* asked, and if it ends well every call of the file has its outcome.
CallsFileWins ==
    args = 3 =>
        /\ posts = 0
        /\ exit = 0 => Len(report.outcomes) = calls_file

\* "Anything that is not an explicit off switch enforces - fail closed"
\* (agent/src/lib.rs:36-37): unless AUTHZ holds one of the five words, in any
\* case and with any blanks around, every call that was let through was
\* attenuated for directly before.
FailsClosed ==
    (authz = Unset \/ Lowercase[authz] \notin OffSwitches) =>
        \A i \in DOMAIN audit_log :
            audit_log[i] = "ALLOWED" => i > 1 /\ audit_log[i - 1] = "ATTENUATED"

=============================================================================
