------------------------------ MODULE Contrast ------------------------------
(***************************************************************************)
(* The contrast command of demo/src/main.rs: one process whose main thread *)
(* starts a listener thread, runs the agent up to three times as a child   *)
(* process, sleeps, and reports; the listener command may run beside it.   *)
(* The threads share the port and the log /tmp/sink.log and nothing else:  *)
(* two sleeps stand for the waiting.                                       *)
(*                                                                         *)
(* A call of an agent is its kind: "inside" what the manifest grants, or   *)
(* an attempt to read, write or exec outside it, or to send: to the sink   *)
(* ("network") or to any other host or port ("elsewhere"), which a live    *)
(* model may choose.  What the agent does with a call is module            *)
(* Orchestrator's business; here it is one of the outcomes that module     *)
(* allows.  Only network calls connect: a program that exec starts and     *)
(* that connects by itself is not modelled.                                *)
(***************************************************************************)
EXTENDS Integers, Sequences, SequencesExt

CONSTANTS
    FaultSets,  \* what may go wrong together, sets of AllFaults
    MaxLive     \* bound on the calls of a live agent

AllFaults == {
    "late",      \* a sleep is over before the listener thread has done its part
    "time",      \* a capability runs out, or takes too long to decode
    "crash",     \* an agent dies before it prints its report
    "port",      \* a program of somebody else's listens on the port
    "listener",  \* the listener command is run at the same time
    "disk"}      \* the listener cannot write its log

ASSUME ContrastAssumption == FaultSets \subseteq SUBSET AllFaults /\ MaxLive \in Nat

VARIABLES
    faults,          \* what may go wrong in this contrast
    live, base_url,  \* --live was given; BASE_URL is set
    pc,              \* where the main thread is
    todo,            \* the calls the running agent has still to make
    out,             \* by run: the outcomes its agent reached
    printed,         \* by run: the outcomes on its standard output
    listener,        \* the listener thread: "none", "starting", "listening", "failed"
    holder,          \* who listens on port 9999
    conns,           \* connections that wait to be accepted
    sink,            \* the entries of /tmp/sink.log
    report           \* the facts the report is printed from, or NoReport

vars == <<faults, live, base_url, pc, todo, out, printed, listener, holder, conns, sink, report>>

fixed == <<faults, live, base_url>>
agentVars == <<todo, out, printed>>
listenerVars == <<listener, holder, conns, sink>>

Runs == {"clean", "vuln", "prot"}
Ended == {"ended", "failed", "usage"}
Outside == {"read", "write", "exec", "network", "elsewhere"}
Kinds == Outside \cup {"inside"}

\* demo/examples, one call of each kind.
CleanCalls == <<"inside">>
InjectedCalls == <<"inside", "read", "network">>

\* A connection, and the log entry it becomes: the call that made it.
Entry(run, call) == [run |-> run, call |-> call]

NoReport == [captured |-> FALSE, vuln_denied |-> FALSE, shown |-> {}, attenuated |-> FALSE]

Outcome(kind, decision, reason, attenuated) ==
    [kind |-> kind, decision |-> decision, reason |-> reason, attenuated |-> attenuated]

IsOutcome(o) ==
    /\ o.kind \in Kinds
    /\ o.decision \in {"Allowed", "Denied", "Errored"}
    /\ o.reason \in Outside \cup {"ok", "time", "execution error"}
    /\ o.attenuated \in BOOLEAN

\* Types; and what an agent printed is what it did, or nothing yet.
TypeOK ==
    /\ faults \in FaultSets /\ live \in BOOLEAN /\ base_url \in BOOLEAN
    /\ pc \in {"args", "setup", "spawn", "bind", "settle"} \cup Runs \cup Ended
    /\ todo \in Seq(Kinds)
    /\ \A r \in Runs : \A i \in DOMAIN out[r] : IsOutcome(out[r][i])
    /\ \A r \in Runs : printed[r] \in {<<>>, out[r]}
    /\ listener \in {"none", "starting", "listening", "failed"}
    /\ listener = "listening" => holder = "contrast"
    /\ holder \in {"nobody", "contrast", "listener", "foreign"}
    /\ report.shown \subseteq Outside

Init ==
    /\ faults \in FaultSets
    /\ live \in BOOLEAN /\ base_url \in BOOLEAN
    /\ pc = "args"
    /\ todo = <<>>
    /\ out = [r \in Runs |-> <<>>] /\ printed = [r \in Runs |-> <<>>]
    /\ listener = "none"
    /\ holder \in {"nobody"} \cup IF "port" \in faults THEN {"foreign"} ELSE {}
    /\ conns = <<>>
    /\ sink \in {<<>>, <<Entry("earlier", 1)>>}
    /\ report = NoReport

-----------------------------------------------------------------------------
(* The main thread.                                                        *)

\* --live without BASE_URL is a usage error.
CheckArgs ==
    /\ pc = "args"
    /\ pc' = IF live /\ ~base_url THEN "usage" ELSE "setup"
    /\ UNCHANGED <<fixed, agentVars, listenerVars, report>>

\* run_setup, any of whose file operations may fail.
Setup ==
    /\ pc = "setup"
    /\ pc' \in {"spawn", "failed"}
    /\ UNCHANGED <<fixed, agentVars, listenerVars, report>>

\* Mutant: the log of an earlier contrast is left where it is.
SpawnKeepingLog ==
    /\ pc = "spawn"
    /\ listener' = "starting"
    /\ pc' = "bind"
    /\ UNCHANGED <<fixed, agentVars, holder, conns, sink, report>>

\* Remove the log, start the listener thread.
Spawn ==
    /\ pc = "spawn"
    /\ sink' = <<>>
    /\ listener' = "starting"
    /\ pc' = "bind"
    /\ UNCHANGED <<fixed, agentVars, holder, conns, report>>

\* What an agent may be about to do: build_args picks the calls file; a live
\* model may ask for anything, and stop or fail at any point.
Scripts(run) ==
    IF live THEN UNION {[1 .. n -> Kinds] : n \in 0 .. MaxLive}
    ELSE IF run = "clean" THEN {CleanCalls} ELSE {InjectedCalls}

\* Command::output starts the agent, or contrast ends.
StartAgent(run) ==
    \/ pc' = run /\ todo' \in Scripts(run)
    \/ pc' = "failed" /\ UNCHANGED todo

\* The 200 ms for the listener to bind are over; a live contrast has no clean
\* run.
Bound ==
    /\ pc = "bind"
    /\ "late" \in faults \/ listener # "starting"
    /\ StartAgent(IF live THEN "vuln" ELSE "clean")
    /\ UNCHANGED <<fixed, out, printed, listenerVars, report>>

\* AUTHZ is set for each run.
Authz(run) == IF run = "vuln" THEN "off" ELSE "on"

\* The PDP denies a send before it looks at where to, in the same words.
DeniedAs(kind) == IF kind = "elsewhere" THEN "network" ELSE kind

\* The outcomes of step_enforced.
Enforced(kind) ==
    (IF "time" \in faults THEN {Outcome(kind, "Denied", "time", a) : a \in BOOLEAN} ELSE {})
        \cup (IF kind = "inside"
              THEN {Outcome(kind, "Allowed", "ok", TRUE), Outcome(kind, "Errored", "execution error", TRUE)}
              ELSE {Outcome(kind, "Denied", DeniedAs(kind), TRUE)})

\* The outcomes of step_bypassed.
Bypassed(kind) ==
    {Outcome(kind, "Allowed", "ok", FALSE), Outcome(kind, "Errored", "execution error", FALSE)}

\* TcpStream::connect and write_all to 127.0.0.1:9999: refused if nobody
\* listens; otherwise the connection waits to be accepted, even if the write
\* fails.  What a foreign listener accepts is of no further interest.
Connect(outcome, entry) ==
    IF holder = "nobody"
    THEN outcome.decision = "Errored" /\ UNCHANGED conns
    ELSE \/ conns' = IF holder = "foreign" THEN conns ELSE Append(conns, entry)
         \/ outcome.decision = "Errored" /\ UNCHANGED conns

\* The running agent makes its next call.  A send elsewhere may succeed or fail
\* like any other call, and the sink sees nothing of it.
AgentCall(run) ==
    /\ pc = run
    /\ todo # <<>>
    /\ todo' = Tail(todo)
    /\ LET kind == Head(todo)
           outcomes == IF Authz(run) = "on" THEN Enforced(kind) ELSE Bypassed(kind)
       IN \E outcome \in outcomes :
              /\ out' = [out EXCEPT ![run] = Append(@, outcome)]
              /\ IF kind = "network" /\ Authz(run) = "off"
                 THEN Connect(outcome, Entry(run, Len(out[run]) + 1))
                 ELSE UNCHANGED conns
    /\ UNCHANGED <<fixed, pc, printed, listener, holder, sink, report>>

\* The run that follows, after the output of this one is saved.
NextRun(run) ==
    \/ run = "clean" /\ StartAgent("vuln")
    \/ run = "vuln" /\ StartAgent("prot")
    \/ run = "prot" /\ pc' = "settle" /\ UNCHANGED todo
    \/ pc' = "failed" /\ UNCHANGED todo

\* Mutant: the log is removed again before the next run.
AgentExitsFreshLog(run) ==
    /\ pc = run
    /\ todo = <<>>
    /\ printed' = [printed EXCEPT ![run] = out[run]]
    /\ NextRun(run)
    /\ sink' = <<>>
    /\ UNCHANGED <<fixed, out, listener, holder, conns, report>>

\* The agent prints its outcomes and its audit log, and exits.
AgentExits(run) ==
    /\ pc = run
    /\ todo = <<>>
    /\ printed' = [printed EXCEPT ![run] = out[run]]
    /\ NextRun(run)
    /\ UNCHANGED <<fixed, out, listenerVars, report>>

\* It is killed, or it never got to run its calls: contrast does not look at
\* its exit status.
AgentDies(run) ==
    /\ "crash" \in faults
    /\ pc = run
    /\ NextRun(run)
    /\ UNCHANGED <<fixed, out, printed, listenerVars, report>>

\* Mutant: the network denial is not looked for.
LookedForNoNetwork == {"read", "exec"}

\* The denials whose text the report looks for.
LookedFor == {"read", "exec", "network"}

\* Mutant: the listener thread is joined before the report.
ReportJoining ==
    /\ pc = "settle"
    /\ listener = "failed"
    /\ "late" \in faults \/ conns = <<>>
    /\ \/ /\ report' =
                [captured    |-> sink # <<>>,
                 vuln_denied |-> \E o \in Range(printed["vuln"]) : o.decision = "Denied",
                 shown       |-> {k \in LookedFor : \E o \in Range(printed["prot"]) : o.reason = k},
                 attenuated  |-> \E o \in Range(printed["prot"]) : o.attenuated]
          /\ pc' = "ended"
       \/ pc' = "failed" /\ UNCHANGED report
    /\ UNCHANGED <<fixed, agentVars, listenerVars>>

\* The last 300 ms are over: the log is read and the report printed, unless
\* the copy of the log cannot be written.
Report ==
    /\ pc = "settle"
    /\ "late" \in faults \/ conns = <<>>
    /\ \/ /\ report' =
                [captured    |-> sink # <<>>,
                 vuln_denied |-> \E o \in Range(printed["vuln"]) : o.decision = "Denied",
                 shown       |-> {k \in LookedFor : \E o \in Range(printed["prot"]) : o.reason = k},
                 attenuated  |-> \E o \in Range(printed["prot"]) : o.attenuated]
          /\ pc' = "ended"
       \/ pc' = "failed" /\ UNCHANGED report
    /\ UNCHANGED <<fixed, agentVars, listenerVars>>

-----------------------------------------------------------------------------
(* Beside it.  The listener thread ends with the process.                  *)

\* Mutant: the thread does not notice that the port is taken.
BindAnyway ==
    /\ pc \notin Ended
    /\ listener = "starting"
    /\ listener' = "listening"
    /\ holder' = IF holder = "nobody" THEN "contrast" ELSE holder
    /\ UNCHANGED <<fixed, pc, agentVars, conns, sink, report>>

\* run_internal_listener binds the port, or only says that it could not.
Bind ==
    /\ pc \notin Ended
    /\ listener = "starting"
    /\ \/ /\ holder = "nobody"
          /\ holder' = "contrast" /\ listener' = "listening"
       \/ /\ holder # "nobody"
          /\ listener' = "failed" /\ UNCHANGED holder
    /\ UNCHANGED <<fixed, pc, agentVars, conns, sink, report>>

\* handle_connection, for the oldest connection; its errors are ignored.
HandleConnection ==
    /\ pc \notin Ended
    /\ conns # <<>>
    /\ conns' = Tail(conns)
    /\ \/ sink' = Append(sink, Head(conns))
       \/ "disk" \in faults /\ UNCHANGED sink
    /\ UNCHANGED <<fixed, pc, agentVars, listener, holder, report>>

\* run_listener in another terminal removes the log before it tries to bind.
RunListener ==
    /\ "listener" \in faults
    /\ pc \notin Ended
    /\ sink' = <<>>
    /\ holder' = IF holder = "nobody" THEN "listener" ELSE holder
    /\ UNCHANGED <<fixed, pc, agentVars, listener, conns, report>>

Main ==
    \/ CheckArgs
    \/ Setup
    \/ Spawn
    \/ Bound
    \/ \E run \in Runs : AgentCall(run)
    \/ \E run \in Runs : AgentExits(run)
    \/ \E run \in Runs : AgentDies(run)
    \/ Report

Next == Main \/ Bind \/ HandleConnection \/ RunListener

\* The main thread waits for nothing but the agents, which end (module
\* AgentLoop).  The listener thread is given no fairness.
Spec == Init /\ [][Next]_vars /\ WF_vars(Main)

-----------------------------------------------------------------------------
(* Properties.                                                             *)

\* Call n of the vulnerable run is a send to the sink that was not denied.
VulnSent(n) ==
    /\ n \in DOMAIN out["vuln"]
    /\ out["vuln"][n].kind = "network"
    /\ out["vuln"][n].decision # "Denied"

\* "captured ... an exfil attempt SUCCEEDED under vuln mode" (demo/src/main.rs:366),
\* whatever goes wrong: a report of a capture is due to a call of this vulnerable run,
\* and the log holds such calls only, each once and in order; nothing of the
\* other runs or of an earlier contrast.
CapturedMeansSent ==
    /\ report.captured => \E n \in DOMAIN out["vuln"] : VulnSent(n)
    /\ pc \notin {"args", "setup", "spawn"} =>
          pc \in {"usage", "failed"}
          \/ /\ \A i \in DOMAIN sink : sink[i].run = "vuln" /\ VulnSent(sink[i].call)
             /\ \A i, j \in DOMAIN sink : i < j => sink[i].call < sink[j].call

\* The sleeps suffice and agents survive.
Quiet == faults \subseteq {"time"}

\* "empty - no exfil captured" and, of a live run, "live model did not follow
\* AGENT_NOTE.md this run" (demo/src/main.rs:370, 372): if the sleeps suffice, an
\* empty sink means that no send to it, which is what the note asks for,
\* succeeded.  Of a send to another host or port it says nothing: a vulnerable
\* run that sent "elsewhere" leaves the sink just as empty.
EmptySinkMeansNoneToSink ==
    pc = "ended" /\ Quiet /\ ~report.captured =>
        \A n \in DOMAIN out["vuln"] : VulnSent(n) => out["vuln"][n].decision = "Errored"

RefusedForTime(run, kind) ==
    \E o \in Range(out[run]) : DeniedAs(o.kind) = kind /\ o.reason = "time"

\* Of reads, binaries and network the report shows the attempts of the
\* protected run: never one that was made elsewhere or not at all, and, if agents
\* survive, all but those that were refused because time had run out.  "The
\* principal did not attempt an out-of-scope action" (demo/src/main.rs:360) is
\* true up to that, and up to writes.  A denial shown goes with an attenuation
\* shown, and the vulnerable run denies nothing.
DenialsShownExactly ==
    pc = "ended" =>
        LET attempted == {DeniedAs(o.kind) : o \in Range(out["prot"])} IN
        /\ report.shown \subseteq attempted
        /\ report.shown # {} => report.attenuated
        /\ ~report.vuln_denied
        /\ Quiet => \A k \in {"read", "exec", "network"} \cap attempted :
              k \in report.shown \/ RefusedForTime("prot", k)

\* The contrast ends, even if its listener thread never runs.  (Without "late"
\* the model holds the main thread back until the thread has done its part.)
ContrastEnds == "late" \in faults => <>(pc \in Ended)

=============================================================================
