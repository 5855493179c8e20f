--------------------------- MODULE ContrastProofs ---------------------------
(***************************************************************************)
(* Proofs about Contrast for agents that make any number of calls and for  *)
(* everything that may go wrong together.                                  *)
(***************************************************************************)
EXTENDS Contrast, TLAPS

-----------------------------------------------------------------------------
(* The inductive invariant.                                                *)

AnyOutcome ==
    [kind : Kinds, decision : {"Allowed", "Denied", "Errored"},
     reason : Outside \cup {"ok", "time", "execution error"}, attenuated : BOOLEAN]

\* What a call of this kind may come to in a run.
OutcomesOf(run, kind) == IF Authz(run) = "on" THEN Enforced(kind) ELSE Bypassed(kind)

Connection == [run : Runs \cup {"earlier"}, call : Nat]

BeforeRuns == {"args", "setup", "spawn", "bind"}

\* Types of what is not an outcome.
ControlInv ==
    /\ faults \in FaultSets /\ live \in BOOLEAN /\ base_url \in BOOLEAN
    /\ pc \in BeforeRuns \cup {"settle"} \cup Runs \cup Ended
    /\ todo \in Seq(Kinds)
    /\ listener \in {"none", "starting", "listening", "failed"}
    /\ listener = "listening" => holder = "contrast"
    /\ holder \in {"nobody", "contrast", "listener", "foreign"}
    /\ report.shown \subseteq Outside

\* The outcomes are those the mode of the run allows, and an agent prints all
\* of them or nothing.
OutcomesInv ==
    /\ out \in [Runs -> Seq(AnyOutcome)] /\ printed \in [Runs -> Seq(AnyOutcome)]
    /\ \A r \in Runs : printed[r] \in {<<>>, out[r]}
    /\ \A r \in Runs : \A i \in DOMAIN out[r] : out[r][i] \in OutcomesOf(r, out[r][i].kind)

\* The runs come in order: none has made a call before its turn, and none
\* has printed before it exits.
RunsInv ==
    /\ pc \in BeforeRuns \cup {"clean"} => out["vuln"] = <<>>
    /\ pc \in BeforeRuns \cup {"clean", "vuln"} => out["prot"] = <<>>
    /\ pc \in BeforeRuns \cup {"clean"} => printed["clean"] = <<>>
    /\ pc \in BeforeRuns \cup {"clean", "vuln"} => printed["vuln"] = <<>>
    /\ pc \in BeforeRuns \cup {"clean", "vuln", "prot"} => printed["prot"] = <<>>
    /\ pc \in BeforeRuns => out["clean"] = <<>>

\* Strictly increasing in the calls.
Ordered(s) == \A i, j \in DOMAIN s : i < j => s[i].call < s[j].call

SentByVuln(s) == \A i \in DOMAIN s : s[i].run = "vuln" /\ VulnSent(s[i].call)

\* What waits to be accepted and what was logged are calls of the vulnerable
\* run, in the order it made them; the log comes first.
Piped ==
    /\ SentByVuln(sink) /\ SentByVuln(conns)
    /\ Ordered(sink) /\ Ordered(conns)
    /\ \A i \in DOMAIN sink, j \in DOMAIN conns : sink[i].call < conns[j].call

PipeInv ==
    /\ conns \in Seq(Connection) /\ sink \in Seq(Connection)
    /\ pc \in {"args", "setup", "spawn"} => conns = <<>>
    /\ pc \in {"bind", "settle", "ended"} \cup Runs => Piped

\* Call n has arrived in the log or waits to.
Arrived(n) ==
    \/ \E i \in DOMAIN sink : sink[i].call = n
    \/ \E i \in DOMAIN conns : conns[i].call = n

AllArrived ==
    \A n \in DOMAIN out["vuln"] :
        VulnSent(n) => out["vuln"][n].decision = "Errored" \/ Arrived(n)

\* If the sleeps suffice and agents survive, the port is this contrast's from
\* the first run on, all that was sent gets there, and what the protected run
\* did is printed.
QuietInv ==
    Quiet =>
        /\ holder \in {"nobody", "contrast"}
        /\ listener # "failed"
        /\ holder = "contrast" <=> listener = "listening"
        /\ pc \in {"args", "setup", "spawn"} => listener = "none"
        /\ pc \in {"bind", "settle", "ended"} \cup Runs => listener # "none"
        /\ pc \in {"settle", "ended"} \cup Runs =>
              holder = "contrast" /\ AllArrived
        /\ pc \in {"settle", "ended"} => printed["prot"] = out["prot"]

\* The facts the report is printed from.
ReportInv ==
    IF pc = "ended"
    THEN /\ report.captured <=> sink # <<>>
         /\ "late" \in faults \/ conns = <<>>
         /\ report.vuln_denied <=> \E o \in Range(printed["vuln"]) : o.decision = "Denied"
         /\ report.shown =
              {k \in {"read", "exec", "network"} : \E o \in Range(printed["prot"]) : o.reason = k}
         /\ report.attenuated <=> \E o \in Range(printed["prot"]) : o.attenuated
    ELSE report = NoReport

Inv == ControlInv /\ OutcomesInv /\ RunsInv /\ PipeInv /\ QuietInv /\ ReportInv

-----------------------------------------------------------------------------
(* Facts that only some steps disturb.                                     *)

\* Every script is a sequence of calls.
LEMMA ScriptsType ==
    ASSUME NEW run, NEW calls \in Scripts(run)
    PROVE  calls \in Seq(Kinds)
<1>1. CASE live
  <2>1. PICK n \in 0 .. MaxLive : calls \in [1 .. n -> Kinds]
    BY <1>1 DEF Scripts
  <2>2. n \in Nat
    BY ContrastAssumption
  <2> QED BY <2>1, <2>2
<1>2. CASE ~live
  <2>1. calls \in {CleanCalls, InjectedCalls}
    BY <1>2 DEF Scripts
  <2>2. CleanCalls \in Seq(Kinds) /\ InjectedCalls \in Seq(Kinds)
    BY DEF CleanCalls, InjectedCalls, Kinds, Outside
  <2> QED BY <2>1, <2>2
<1> QED BY <1>1, <1>2

\* The outcomes of either mode.
LEMMA Outcomes ==
    ASSUME NEW run \in Runs, NEW kind \in Kinds, NEW o \in OutcomesOf(run, kind)
    PROVE  /\ o \in AnyOutcome /\ IsOutcome(o) /\ o.kind = kind
           /\ run = "vuln" => o.decision # "Denied"
           /\ run # "vuln" /\ o.reason \in Outside => o.reason = DeniedAs(kind) /\ o.attenuated
           /\ run # "vuln" /\ kind \in Outside => o.reason \in {DeniedAs(kind), "time"}
<1>1. CASE run = "vuln"
  <2>1. \/ o = Outcome(kind, "Allowed", "ok", FALSE)
        \/ o = Outcome(kind, "Errored", "execution error", FALSE)
    BY <1>1 DEF OutcomesOf, Authz, Bypassed
  <2>2. CASE o = Outcome(kind, "Allowed", "ok", FALSE)
    BY <1>1, <2>2 DEF Outcome, AnyOutcome, IsOutcome
  <2>3. CASE o = Outcome(kind, "Errored", "execution error", FALSE)
    BY <1>1, <2>3 DEF Outcome, AnyOutcome, IsOutcome
  <2> QED BY <2>1, <2>2, <2>3
<1>2. CASE run # "vuln"
  <2>1. \/ \E a \in BOOLEAN : o = Outcome(kind, "Denied", "time", a)
        \/ kind = "inside" /\ o = Outcome(kind, "Allowed", "ok", TRUE)
        \/ kind = "inside" /\ o = Outcome(kind, "Errored", "execution error", TRUE)
        \/ kind # "inside" /\ o = Outcome(kind, "Denied", DeniedAs(kind), TRUE)
    BY <1>2 DEF OutcomesOf, Authz, Enforced
  <2>2. CASE \E a \in BOOLEAN : o = Outcome(kind, "Denied", "time", a)
    BY <1>2, <2>2 DEF Outcome, AnyOutcome, IsOutcome, Outside
  <2>3. CASE kind = "inside" /\ o = Outcome(kind, "Allowed", "ok", TRUE)
    BY <1>2, <2>3 DEF Outcome, AnyOutcome, IsOutcome, Outside
  <2>4. CASE kind = "inside" /\ o = Outcome(kind, "Errored", "execution error", TRUE)
    BY <1>2, <2>4 DEF Outcome, AnyOutcome, IsOutcome, Outside
  <2>5. CASE kind # "inside" /\ o = Outcome(kind, "Denied", DeniedAs(kind), TRUE)
    BY <1>2, <2>5 DEF Outcome, AnyOutcome, IsOutcome, Outside, Kinds, DeniedAs
  <2> QED BY <2>1, <2>2, <2>3, <2>4, <2>5
<1> QED BY <1>1, <1>2

\* What has been sent, logged and accepted is a matter of these three.
LEMMA PipeKept ==
    ASSUME UNCHANGED <<out, sink, conns>>
    PROVE  /\ Piped' <=> Piped
           /\ AllArrived' <=> AllArrived
<1>1. \A n : VulnSent(n)' <=> VulnSent(n)
  BY DEF VulnSent
<1>2. \A n : Arrived(n)' <=> Arrived(n)
  BY DEF Arrived
<1>3. Piped' <=> Piped
  BY <1>1 DEF Piped, SentByVuln, Ordered
<1>4. AllArrived' <=> AllArrived
  BY <1>1, <1>2 DEF AllArrived
<1> QED BY <1>3, <1>4

\* What a call may come to does not depend on the state but for the faults.
LEMMA OutcomesKept ==
    ASSUME OutcomesInv, UNCHANGED <<faults, out, printed>>
    PROVE  OutcomesInv'
<1>1. \A r, k : OutcomesOf(r, k)' = OutcomesOf(r, k)
  BY DEF OutcomesOf, Enforced
<1> QED BY <1>1 DEF OutcomesInv

\* The contrast starts with nothing done.
LEMMA InitInv ==
    ASSUME Init
    PROVE  Inv
<1>1. /\ <<>> \in Seq(AnyOutcome) /\ <<>> \in Seq(Connection) /\ <<>> \in Seq(Kinds)
      /\ DOMAIN <<>> = {}
  OBVIOUS
<1>2. \A r \in Runs : out[r] = <<>> /\ printed[r] = <<>>
  BY DEF Init
<1>3. sink \in Seq(Connection)
  <2>1. <<Entry("earlier", 1)>> \in Seq(Connection)
    BY DEF Entry, Connection
  <2> QED BY <1>1, <2>1 DEF Init
<1>4. out \in [Runs -> Seq(AnyOutcome)] /\ printed \in [Runs -> Seq(AnyOutcome)]
  BY <1>1 DEF Init
<1>5. ControlInv
  <2>1. report.shown \subseteq Outside
    BY DEF Init, NoReport
  <2> QED BY <1>1, <2>1 DEF Init, ControlInv, BeforeRuns
<1>6. OutcomesInv
  BY <1>1, <1>2, <1>4 DEF OutcomesInv
<1>7. RunsInv
  BY <1>2 DEF RunsInv, Runs
<1>8. PipeInv
  BY <1>1, <1>3 DEF PipeInv, Init, Runs
<1>9. QuietInv
  BY DEF QuietInv, Quiet, Init, Runs
<1>10. ReportInv
  BY DEF ReportInv, Init
<1> QED BY <1>5, <1>6, <1>7, <1>8, <1>9, <1>10 DEF Inv

-----------------------------------------------------------------------------
(* The steps.                                                              *)

\* Steps that leave the outcomes and the listener alone, and move on.
LEMMA CheckArgsInv ==
    ASSUME Inv, CheckArgs \/ Setup
    PROVE  Inv'
<1>1. /\ UNCHANGED <<faults, live, base_url, todo, out, printed, listener, holder, conns,
                     sink, report>>
      /\ pc \in {"args", "setup"} /\ pc' \in {"usage", "setup", "spawn", "failed"}
  BY DEF CheckArgs, Setup, fixed, agentVars, listenerVars
<1>2. ControlInv' /\ OutcomesInv'
  BY <1>1, OutcomesKept DEF Inv, ControlInv, Ended, BeforeRuns
<1>3. RunsInv'
  BY <1>1 DEF Inv, RunsInv, BeforeRuns
<1>4. PipeInv'
  BY <1>1 DEF Inv, PipeInv, Runs
<1>5. QuietInv'
  BY <1>1 DEF Inv, QuietInv, Quiet, Runs
<1>6. ReportInv'
  BY <1>1 DEF Inv, ReportInv
<1> QED BY <1>2, <1>3, <1>4, <1>5, <1>6 DEF Inv

\* The log is empty when the listener thread is started.
LEMMA SpawnInv ==
    ASSUME Inv, Spawn
    PROVE  Inv'
<1>1. /\ UNCHANGED <<faults, live, base_url, todo, out, printed, holder, conns, report>>
      /\ pc = "spawn" /\ pc' = "bind" /\ sink' = <<>> /\ listener' = "starting"
  BY DEF Spawn, fixed, agentVars
<1>2. ControlInv' /\ OutcomesInv'
  BY <1>1, OutcomesKept DEF Inv, ControlInv, BeforeRuns
<1>3. RunsInv'
  BY <1>1 DEF Inv, RunsInv, BeforeRuns
<1>4. PipeInv'
  <2>1. <<>> \in Seq(Connection)
    OBVIOUS
  <2> QED BY <1>1, <2>1 DEF Inv, PipeInv, Piped, SentByVuln, Ordered
<1>5. QuietInv'
  <2>1. Quiet => listener = "none" /\ holder = "nobody"
    BY <1>1 DEF Inv, QuietInv
  <2> QED BY <1>1, <2>1 DEF QuietInv, Quiet, Runs
<1>6. ReportInv'
  BY <1>1 DEF Inv, ReportInv
<1> QED BY <1>2, <1>3, <1>4, <1>5, <1>6 DEF Inv

\* The first run starts, or none does.
LEMMA BoundInv ==
    ASSUME Inv, Bound
    PROVE  Inv'
<1>1. /\ UNCHANGED <<faults, live, base_url, out, printed, listener, holder, conns, sink, report>>
      /\ pc = "bind" /\ pc' \in {"clean", "vuln", "failed"}
      /\ todo' = todo \/ \E run \in Runs : todo' \in Scripts(run)
      /\ "late" \in faults \/ listener # "starting"
  BY DEF Bound, StartAgent, fixed, listenerVars, Runs
<1>2. ControlInv' /\ OutcomesInv'
  <2>1. todo' \in Seq(Kinds)
    BY <1>1, ScriptsType DEF Inv, ControlInv
  <2> QED BY <1>1, <2>1, OutcomesKept DEF Inv, ControlInv, Ended, Runs
<1>3. RunsInv'
  BY <1>1 DEF Inv, RunsInv, BeforeRuns
<1>4. PipeInv'
  BY <1>1, PipeKept DEF Inv, PipeInv, Runs
<1>5. QuietInv'
  <2> SUFFICES ASSUME Quiet PROVE QuietInv'
    BY <1>1 DEF QuietInv, Quiet
  <2>1. listener = "listening" /\ holder = "contrast"
    BY <1>1 DEF Quiet, Inv, QuietInv, ControlInv
  <2>2. AllArrived'
    <3>1. out["vuln"] = <<>>
      BY <1>1 DEF Inv, RunsInv, BeforeRuns
    <3> QED BY <1>1, <3>1 DEF AllArrived
  <2> QED BY <1>1, <2>1, <2>2 DEF QuietInv, Quiet, Runs
<1>6. ReportInv'
  BY <1>1 DEF Inv, ReportInv
<1> QED BY <1>2, <1>3, <1>4, <1>5, <1>6 DEF Inv

\* A run is over and the next one starts, or none does.
LEMMA NextRunInv ==
    ASSUME Inv, \E run \in Runs : AgentExits(run) \/ AgentDies(run)
    PROVE  Inv'
<1>1. PICK run \in Runs : AgentExits(run) \/ AgentDies(run)
  OBVIOUS
<1>2. /\ UNCHANGED <<faults, live, base_url, out, listener, holder, conns, sink, report>>
      /\ pc = run
      /\ todo' = todo \/ \E r \in Runs : todo' \in Scripts(r)
      /\ \/ printed' = [printed EXCEPT ![run] = out[run]]
         \/ printed' = printed /\ "crash" \in faults
  BY <1>1 DEF AgentExits, AgentDies, NextRun, StartAgent, fixed, listenerVars, Runs
<1>3. \/ run = "clean" /\ pc' = "vuln"
      \/ run = "vuln" /\ pc' = "prot"
      \/ run = "prot" /\ pc' = "settle"
      \/ pc' = "failed"
  BY <1>1 DEF AgentExits, AgentDies, NextRun, StartAgent
<1>4. printed \in [Runs -> Seq(AnyOutcome)] /\ out \in [Runs -> Seq(AnyOutcome)]
  BY DEF Inv, OutcomesInv
<1>5. /\ printed' \in [Runs -> Seq(AnyOutcome)]
      /\ printed'[run] \in {printed[run], out[run]}
      /\ "crash" \in faults \/ printed'[run] = out[run]
      /\ \A r \in Runs : r # run => printed'[r] = printed[r]
  BY <1>2, <1>4
<1>6. ControlInv' /\ OutcomesInv'
  <2>1. todo' \in Seq(Kinds)
    BY <1>2, ScriptsType DEF Inv, ControlInv
  <2>2. ControlInv'
    BY <1>2, <1>3, <2>1 DEF Inv, ControlInv, Ended, Runs
  <2>3. \A r \in Runs : printed'[r] \in {<<>>, out[r]}
    BY <1>5 DEF Inv, OutcomesInv
  <2>4. \A r, k : OutcomesOf(r, k)' = OutcomesOf(r, k)
    BY <1>2 DEF OutcomesOf, Enforced
  <2> QED BY <1>2, <1>5, <2>2, <2>3, <2>4 DEF Inv, OutcomesInv
<1>7. RunsInv'
  BY <1>2, <1>3, <1>5 DEF Inv, RunsInv, BeforeRuns, Runs
<1>8. PipeInv'
  BY <1>2, <1>3, PipeKept DEF Inv, PipeInv, Runs
<1>9. QuietInv'
  <2>1. Quiet /\ pc' \in {"settle", "ended"} => printed'["prot"] = out["prot"]
    BY <1>2, <1>3, <1>5 DEF Quiet
  <2>2. AllArrived' <=> AllArrived
    BY <1>2, PipeKept
  <2> QED BY <1>2, <1>3, <2>1, <2>2 DEF Inv, QuietInv, Quiet, Runs
<1>10. ReportInv'
  BY <1>2, <1>3 DEF Inv, ReportInv, Runs
<1> QED BY <1>6, <1>7, <1>8, <1>9, <1>10 DEF Inv

\* The report is printed from the log and what the agents printed.
LEMMA ReportStep ==
    ASSUME Inv, Report
    PROVE  Inv'
<1>1. /\ UNCHANGED <<faults, live, base_url, todo, out, printed, listener, holder, conns, sink>>
      /\ pc = "settle" /\ pc' \in {"ended", "failed"}
      /\ "late" \in faults \/ conns = <<>>
  BY DEF Report, fixed, agentVars, listenerVars
<1>2. ReportInv'
  <2>1. CASE pc' = "ended"
    <3>1. report' =
            [captured    |-> sink # <<>>,
             vuln_denied |-> \E o \in Range(printed["vuln"]) : o.decision = "Denied",
             shown       |-> {k \in LookedFor : \E o \in Range(printed["prot"]) : o.reason = k},
             attenuated  |-> \E o \in Range(printed["prot"]) : o.attenuated]
      BY <2>1 DEF Report
    <3> QED BY <1>1, <2>1, <3>1, Zenon DEF ReportInv, LookedFor
  <2>2. CASE pc' = "failed"
    BY <1>1, <2>2 DEF Inv, ReportInv, Report
  <2> QED BY <1>1, <2>1, <2>2
<1>3. report'.shown \subseteq Outside
  <2>1. CASE pc' = "ended"
    BY <1>2, <2>1 DEF ReportInv, Outside
  <2>2. CASE pc' # "ended"
    BY <1>2, <2>2 DEF ReportInv, NoReport
  <2> QED BY <2>1, <2>2
<1>4. ControlInv' /\ OutcomesInv'
  BY <1>1, <1>3, OutcomesKept DEF Inv, ControlInv, Ended
<1>5. RunsInv'
  BY <1>1 DEF Inv, RunsInv, BeforeRuns
<1>6. PipeInv'
  BY <1>1, PipeKept DEF Inv, PipeInv
<1>7. QuietInv'
  BY <1>1, PipeKept DEF Inv, QuietInv, Quiet, Runs
<1> QED BY <1>2, <1>4, <1>5, <1>6, <1>7 DEF Inv

\* The listener thread gets the port, or not.
LEMMA BindInv ==
    ASSUME Inv, Bind
    PROVE  Inv'
<1>1. /\ UNCHANGED <<faults, live, base_url, pc, todo, out, printed, conns, sink, report>>
      /\ pc \notin Ended /\ listener = "starting"
      /\ \/ holder = "nobody" /\ holder' = "contrast" /\ listener' = "listening"
         \/ holder # "nobody" /\ holder' = holder /\ listener' = "failed"
  BY DEF Bind, fixed, agentVars
<1>2. ControlInv' /\ OutcomesInv'
  BY <1>1, OutcomesKept DEF Inv, ControlInv
<1>3. RunsInv'
  BY <1>1 DEF Inv, RunsInv
<1>4. PipeInv'
  BY <1>1, PipeKept DEF Inv, PipeInv
<1>5. QuietInv'
  BY <1>1, PipeKept DEF Inv, QuietInv, Quiet
<1>6. ReportInv'
  BY <1>1 DEF Inv, ReportInv
<1> QED BY <1>2, <1>3, <1>4, <1>5, <1>6 DEF Inv

\* The listener command empties the log and takes the port if it is free.
LEMMA RunListenerInv ==
    ASSUME Inv, RunListener
    PROVE  Inv'
<1>1. /\ UNCHANGED <<faults, live, base_url, pc, todo, out, printed, listener, conns, report>>
      /\ pc \notin Ended /\ "listener" \in faults /\ sink' = <<>>
      /\ holder' = IF holder = "nobody" THEN "listener" ELSE holder
  BY DEF RunListener, fixed, agentVars
<1>2. ControlInv' /\ OutcomesInv'
  BY <1>1, OutcomesKept DEF Inv, ControlInv
<1>3. RunsInv'
  BY <1>1 DEF Inv, RunsInv
<1>4. PipeInv'
  <2>1. <<>> \in Seq(Connection) /\ DOMAIN <<>> = {}
    OBVIOUS
  <2>2. SentByVuln(conns)' <=> SentByVuln(conns)
    BY <1>1 DEF SentByVuln, VulnSent
  <2>3. Ordered(conns)' <=> Ordered(conns)
    BY <1>1 DEF Ordered
  <2>4. SentByVuln(sink)' /\ Ordered(sink)'
    BY <1>1 DEF SentByVuln, Ordered
  <2>5. Piped => Piped'
    BY <1>1, <2>2, <2>3, <2>4 DEF Piped
  <2> QED BY <1>1, <2>1, <2>5 DEF Inv, PipeInv
<1>5. QuietInv'
  BY <1>1 DEF QuietInv, Quiet
<1>6. ReportInv'
  BY <1>1 DEF Inv, ReportInv, Ended
<1> QED BY <1>2, <1>3, <1>4, <1>5, <1>6 DEF Inv

\* A connection goes from the head of the queue to the end of the log.
LEMMA HandleConnectionInv ==
    ASSUME Inv, HandleConnection
    PROVE  Inv'
<1>1. /\ UNCHANGED <<faults, live, base_url, pc, todo, out, printed, listener, holder, report>>
      /\ pc \notin Ended /\ conns # <<>> /\ conns' = Tail(conns)
      /\ sink' = Append(sink, Head(conns)) \/ (sink' = sink /\ "disk" \in faults)
  BY DEF HandleConnection, fixed, agentVars
<1>2. ControlInv' /\ OutcomesInv'
  BY <1>1, OutcomesKept DEF Inv, ControlInv
<1>3. RunsInv'
  BY <1>1 DEF Inv, RunsInv
<1> DEFINE m == Len(conns)
           n == Len(sink)
           c == Head(conns)
<1>4. /\ m \in Nat \ {0} /\ DOMAIN conns = 1 .. m /\ DOMAIN conns' = 1 .. m - 1
      /\ \A i \in 1 .. m - 1 : conns'[i] = conns[i + 1]
      /\ c = conns[1] /\ c \in Connection /\ conns' \in Seq(Connection)
      /\ conns \in Seq(Connection) /\ sink \in Seq(Connection)
  <2>1. conns \in Seq(Connection) /\ sink \in Seq(Connection)
    BY DEF Inv, PipeInv
  <2> QED BY <1>1, <2>1
<1>5. n \in Nat /\ DOMAIN sink = 1 .. n
  BY <1>4
<1> DEFINE t == Append(sink, c)
<1>6. /\ t \in Seq(Connection) /\ DOMAIN t = 1 .. n + 1 /\ t[n + 1] = conns[1]
      /\ \A i \in 1 .. n : t[i] = sink[i]
  BY <1>4, <1>5
<1>7. sink' = t \/ (sink' = sink /\ "disk" \in faults)
  BY <1>1
<1> HIDE DEF t, c
<1>8. 1 \in 1 .. m /\ \A i \in 1 .. m - 1 : i + 1 \in 1 .. m
  BY <1>4
<1>9. \A i \in 1 .. n + 1 : i \in 1 .. n \/ i = n + 1
  BY <1>5
<1>10. \A k : VulnSent(k)' <=> VulnSent(k)
  BY <1>1 DEF VulnSent
<1>11. ASSUME Piped PROVE Piped'
  <2>1. SentByVuln(conns)'
    BY <1>4, <1>8, <1>10, <1>11 DEF Piped, SentByVuln
  <2>2. Ordered(conns)'
    <3>1. \A i, j \in 1 .. m - 1 : i < j => i + 1 < j + 1
      BY <1>4
    <3> QED BY <1>4, <1>8, <1>11, <3>1 DEF Piped, Ordered
  <2>3. \A j \in 1 .. m - 1 : conns[1].call < conns'[j].call
    <3>1. \A j \in 1 .. m - 1 : 1 < j + 1
      BY <1>4
    <3> QED BY <1>4, <1>8, <1>11, <3>1 DEF Piped, Ordered
  <2>4. \A i \in 1 .. n : sink[i].call < conns[1].call
    BY <1>4, <1>5, <1>8, <1>11 DEF Piped
  <2>5. \A i \in 1 .. n, j \in 1 .. m - 1 : sink[i].call < conns'[j].call
    BY <1>4, <1>5, <1>8, <1>11 DEF Piped
  <2>6. CASE sink' = t
    <3>1. SentByVuln(sink)'
      BY <1>4, <1>5, <1>6, <1>8, <1>9, <1>10, <1>11, <2>6 DEF Piped, SentByVuln
    <3>2. Ordered(sink)'
      <4> SUFFICES ASSUME NEW i \in 1 .. n + 1, NEW j \in 1 .. n + 1, i < j
                   PROVE  t[i].call < t[j].call
        BY <1>6, <2>6 DEF Ordered
      <4>1. i \in 1 .. n
        BY <1>5
      <4>2. CASE j \in 1 .. n
        BY <1>5, <1>6, <1>11, <4>1, <4>2 DEF Piped, Ordered
      <4>3. CASE j = n + 1
        BY <1>6, <2>4, <4>1, <4>3
      <4> QED BY <1>9, <4>2, <4>3
    <3>3. \A i \in 1 .. n + 1, j \in 1 .. m - 1 : t[i].call < conns'[j].call
      BY <1>6, <1>9, <2>3, <2>5
    <3> QED BY <1>4, <1>6, <2>1, <2>2, <2>6, <3>1, <3>2, <3>3 DEF Piped
  <2>7. CASE sink' = sink
    <3>1. SentByVuln(sink)' /\ Ordered(sink)'
      BY <1>10, <1>11, <2>7 DEF Piped, SentByVuln, Ordered
    <3> QED BY <1>4, <1>5, <2>1, <2>2, <2>5, <2>7, <3>1 DEF Piped
  <2> QED BY <1>7, <2>6, <2>7
<1>12. PipeInv'
  BY <1>1, <1>4, <1>6, <1>7, <1>11 DEF Inv, PipeInv
<1>13. QuietInv'
  <2> SUFFICES ASSUME Quiet PROVE QuietInv'
    BY <1>1 DEF QuietInv, Quiet
  <2>1. sink' = t
    BY <1>7 DEF Quiet
  <2>2. ASSUME NEW k, Arrived(k) PROVE Arrived(k)'
    <3>1. CASE \E i \in 1 .. n : sink[i].call = k
      <4>1. \A i \in 1 .. n : i \in 1 .. n + 1
        BY <1>5
      <4> QED BY <1>6, <2>1, <3>1, <4>1 DEF Arrived
    <3>2. CASE conns[1].call = k
      <4>1. n + 1 \in 1 .. n + 1
        BY <1>5
      <4> QED BY <1>6, <2>1, <3>2, <4>1 DEF Arrived
    <3>3. ASSUME NEW i \in 1 .. m, i # 1, conns[i].call = k PROVE Arrived(k)'
      <4>1. i - 1 \in 1 .. m - 1 /\ (i - 1) + 1 = i
        BY <1>4, <3>3
      <4>2. conns'[i - 1].call = k
        BY <1>4, <3>3, <4>1
      <4> QED BY <1>4, <4>1, <4>2 DEF Arrived
    <3> QED BY <1>4, <1>5, <2>2, <3>1, <3>2, <3>3 DEF Arrived
  <2>3. AllArrived => AllArrived'
    BY <1>1, <1>10, <2>2 DEF AllArrived
  <2> QED BY <1>1, <2>3 DEF Inv, QuietInv, Quiet
<1>14. ReportInv'
  BY <1>1 DEF Inv, ReportInv, Ended
<1> QED BY <1>2, <1>3, <1>12, <1>13, <1>14 DEF Inv

\* A call appends its outcome, and of the vulnerable run what it sends waits
\* behind all that was sent before.
LEMMA AgentCallInv ==
    ASSUME Inv, NEW run \in Runs, AgentCall(run)
    PROVE  Inv'
<1> DEFINE kind == Head(todo)
           n == Len(out[run])
<1>1. PICK o \in OutcomesOf(run, kind) :
        /\ out' = [out EXCEPT ![run] = Append(@, o)]
        /\ IF kind = "network" /\ Authz(run) = "off"
           THEN Connect(o, Entry(run, Len(out[run]) + 1))
           ELSE UNCHANGED conns
  BY DEF AgentCall, OutcomesOf
<1>2. /\ UNCHANGED <<faults, live, base_url, pc, printed, listener, holder, sink, report>>
      /\ pc = run /\ todo # <<>> /\ todo' = Tail(todo)
  BY DEF AgentCall, fixed
<1>3. kind \in Kinds /\ todo' \in Seq(Kinds)
  BY <1>2 DEF Inv, ControlInv
<1> HIDE DEF kind
<1>4. /\ o \in AnyOutcome /\ o.kind = kind
      /\ run = "vuln" => o.decision # "Denied"
  BY <1>3, Outcomes
<1>5. /\ out \in [Runs -> Seq(AnyOutcome)] /\ out[run] \in Seq(AnyOutcome)
      /\ printed \in [Runs -> Seq(AnyOutcome)]
  BY DEF Inv, OutcomesInv
<1>6. n \in Nat /\ DOMAIN out[run] = 1 .. n
  BY <1>5
<1> DEFINE t == Append(out[run], o)
<1>7. /\ t \in Seq(AnyOutcome) /\ DOMAIN t = 1 .. n + 1 /\ t[n + 1] = o
      /\ \A i \in 1 .. n : t[i] = out[run][i]
  BY <1>4, <1>5, <1>6
<1>8. /\ out' = [out EXCEPT ![run] = t] /\ out'[run] = t
      /\ \A r \in Runs : r # run => out'[r] = out[r]
  BY <1>1, <1>5
<1> HIDE DEF t
<1>9. \A i \in 1 .. n + 1 : i \in 1 .. n \/ i = n + 1
  BY <1>6
<1>10. printed[run] = <<>>
  BY <1>2 DEF Inv, RunsInv, Runs, BeforeRuns
<1>11. ControlInv'
  BY <1>2, <1>3 DEF Inv, ControlInv
<1>12. OutcomesInv'
  <2>1. \A r, k : OutcomesOf(r, k)' = OutcomesOf(r, k)
    BY <1>2 DEF OutcomesOf, Enforced
  <2>2. out' \in [Runs -> Seq(AnyOutcome)]
    BY <1>5, <1>7, <1>8
  <2>3. \A r \in Runs : printed[r] \in {<<>>, out'[r]}
    BY <1>8, <1>10 DEF Inv, OutcomesInv
  <2>4. \A i \in 1 .. n + 1 : t[i] \in OutcomesOf(run, t[i].kind)
    BY <1>4, <1>6, <1>7, <1>9 DEF Inv, OutcomesInv
  <2>5. \A r \in Runs : \A i \in DOMAIN out'[r] : out'[r][i] \in OutcomesOf(r, out'[r][i].kind)
    BY <1>7, <1>8, <2>4 DEF Inv, OutcomesInv
  <2> QED BY <1>2, <1>5, <2>1, <2>2, <2>3, <2>5 DEF OutcomesInv
<1>13. RunsInv'
  BY <1>2, <1>8 DEF Inv, RunsInv, Runs, BeforeRuns
<1>14. ReportInv'
  BY <1>2 DEF Inv, ReportInv, Runs
<1>15. Piped
  BY <1>2 DEF Inv, PipeInv
<1>16. conns \in Seq(Connection) /\ sink \in Seq(Connection)
  BY DEF Inv, PipeInv
<1>17. CASE run # "vuln"
  <2>1. UNCHANGED conns /\ out'["vuln"] = out["vuln"]
    BY <1>1, <1>8, <1>17 DEF Authz, Runs
  <2>2. \A k : VulnSent(k)' <=> VulnSent(k)
    BY <2>1 DEF VulnSent
  <2>3. Piped'
    BY <1>2, <1>15, <2>1, <2>2 DEF Piped, SentByVuln, Ordered
  <2>4. AllArrived => AllArrived'
    BY <1>2, <2>1, <2>2 DEF AllArrived, Arrived
  <2>5. PipeInv'
    BY <1>2, <1>16, <2>1, <2>3 DEF Inv, PipeInv, Runs
  <2>6. QuietInv'
    BY <1>2, <2>4 DEF Inv, QuietInv, Quiet, Runs
  <2> QED BY <1>11, <1>12, <1>13, <1>14, <2>5, <2>6 DEF Inv
<1>18. CASE run = "vuln"
  <2> DEFINE e == Entry("vuln", n + 1)
  <2>1. e \in Connection /\ e.run = "vuln" /\ e.call = n + 1
    BY <1>6 DEF Entry, Connection, Runs
  <2> HIDE DEF e
  <2> DEFINE Sent(k) == k \in 1 .. n + 1 /\ t[k].kind = "network" /\ t[k].decision # "Denied"
             There(k) == \/ \E i \in DOMAIN sink : sink[i].call = k
                         \/ \E i \in DOMAIN conns' : conns'[i].call = k
  <2>20. \A k : VulnSent(k)' <=> Sent(k)
    BY <1>7, <1>8, <1>18 DEF VulnSent
  <2>21. \A k : Arrived(k)' <=> There(k)
    BY <1>2 DEF Arrived
  <2>2. ASSUME NEW k, VulnSent(k) PROVE Sent(k) /\ k \in 1 .. n
    BY <1>6, <1>7, <1>18, <2>2 DEF VulnSent
  <2>3. Sent(n + 1) <=> kind = "network"
    <3>1. n + 1 \in 1 .. n + 1
      BY <1>6
    <3> QED BY <1>4, <1>7, <1>18, <3>1
  <2> HIDE DEF Sent, There
  <2>4. ASSUME NEW s \in Seq(Connection), SentByVuln(s)
        PROVE  \A i \in DOMAIN s : s[i].run = "vuln" /\ Sent(s[i].call) /\ s[i].call < n + 1
    <3> SUFFICES ASSUME NEW i \in DOMAIN s
                 PROVE  s[i].run = "vuln" /\ Sent(s[i].call) /\ s[i].call < n + 1
      OBVIOUS
    <3>1. s[i].run = "vuln" /\ VulnSent(s[i].call)
      BY <2>4 DEF SentByVuln
    <3>2. Sent(s[i].call) /\ s[i].call \in 1 .. n
      BY <2>2, <3>1
    <3> QED BY <1>6, <3>1, <3>2
  <2>5. /\ \A i \in DOMAIN sink : sink[i].run = "vuln" /\ Sent(sink[i].call) /\ sink[i].call < n + 1
        /\ \A i \in DOMAIN conns : conns[i].run = "vuln" /\ Sent(conns[i].call) /\ conns[i].call < n + 1
    <3>1. SentByVuln(sink) /\ SentByVuln(conns)
      BY <1>15 DEF Piped
    <3> QED BY <1>16, <2>4, <3>1, Zenon
  <2>6. conns' = conns \/ (kind = "network" /\ conns' = Append(conns, e))
    BY <1>1, <1>18 DEF Connect, e
  <2> DEFINE q == Append(conns, e)
             m == Len(conns)
  <2>7. /\ m \in Nat /\ DOMAIN conns = 1 .. m /\ q \in Seq(Connection)
        /\ DOMAIN q = 1 .. m + 1 /\ q[m + 1] = e /\ \A i \in 1 .. m : q[i] = conns[i]
    BY <1>16, <2>1
  <2> HIDE DEF q
  <2>8. \A i \in 1 .. m + 1 : i \in 1 .. m \/ i = m + 1
    BY <2>7
  <2>9. Piped'
    <3>1. SentByVuln(sink)' /\ Ordered(sink)'
      BY <1>2, <1>15, <2>5, <2>20 DEF Piped, SentByVuln, Ordered
    <3>2. CASE conns' = conns
      BY <1>2, <1>15, <2>5, <2>20, <3>1, <3>2 DEF Piped, SentByVuln, Ordered
    <3>3. CASE kind = "network" /\ conns' = q
      <4>1. SentByVuln(conns)'
        <5>1. \A i \in 1 .. m + 1 : q[i].run = "vuln" /\ Sent(q[i].call)
          BY <2>1, <2>3, <2>5, <2>7, <2>8, <3>3
        <5> QED BY <2>7, <2>20, <3>3, <5>1 DEF SentByVuln
      <4>2. Ordered(conns)'
        <5> SUFFICES ASSUME NEW i \in 1 .. m + 1, NEW j \in 1 .. m + 1, i < j
                     PROVE  q[i].call < q[j].call
          BY <2>7, <3>3 DEF Ordered
        <5>1. i \in 1 .. m
          BY <2>7
        <5>2. CASE j \in 1 .. m
          BY <1>15, <2>7, <5>1, <5>2 DEF Piped, Ordered
        <5>3. CASE j = m + 1
          BY <2>1, <2>5, <2>7, <5>1, <5>3
        <5> QED BY <2>8, <5>2, <5>3
      <4>3. \A i \in DOMAIN sink, j \in 1 .. m + 1 : sink[i].call < q[j].call
        BY <1>15, <2>1, <2>5, <2>7, <2>8 DEF Piped
      <4> QED BY <1>2, <2>7, <3>1, <3>3, <4>1, <4>2, <4>3 DEF Piped
    <3> QED BY <2>6, <3>2, <3>3 DEF q
  <2>10. PipeInv'
    <3>1. conns' \in Seq(Connection)
      BY <1>16, <2>6, <2>7 DEF q
    <3> QED BY <1>2, <1>16, <2>9, <3>1 DEF PipeInv, Runs
  <2>11. QuietInv'
    <3> SUFFICES ASSUME Quiet PROVE QuietInv'
      BY <1>2 DEF QuietInv, Quiet
    <3>1. holder = "contrast" /\ AllArrived
      BY <1>2 DEF Inv, QuietInv
    <3>2. ASSUME NEW k, Arrived(k) PROVE There(k)
      <4>1. CASE conns' = conns
        BY <3>2, <4>1 DEF Arrived, There
      <4>2. CASE conns' = q
        <5>1. \A i \in 1 .. m : i \in 1 .. m + 1
          BY <2>7
        <5> QED BY <2>7, <3>2, <4>2, <5>1 DEF Arrived, There
      <4> QED BY <2>6, <4>1, <4>2 DEF q
    <3>3. kind = "network" => o.decision = "Errored" \/ There(n + 1)
      <4>1. kind = "network" => conns' = q \/ o.decision = "Errored"
        BY <1>1, <1>18, <3>1 DEF Connect, Authz, q, e
      <4>2. m + 1 \in 1 .. m + 1
        BY <2>7
      <4> QED BY <2>1, <2>7, <4>1, <4>2 DEF There
    <3>4. AllArrived'
      <4> SUFFICES ASSUME NEW k \in 1 .. n + 1, Sent(k)
                   PROVE  t[k].decision = "Errored" \/ There(k)
        BY <1>7, <1>8, <1>18, <2>20, <2>21 DEF AllArrived
      <4>1. CASE k = n + 1
        BY <1>7, <2>3, <3>3, <4>1
      <4>2. CASE k \in 1 .. n
        <5>1. VulnSent(k) /\ t[k] = out["vuln"][k] /\ k \in DOMAIN out["vuln"]
          BY <1>6, <1>7, <1>18, <4>2 DEF VulnSent, Sent
        <5> QED BY <3>1, <3>2, <5>1 DEF AllArrived
      <4> QED BY <1>9, <4>1, <4>2
    <3> QED BY <1>2, <3>4 DEF Inv, QuietInv, Quiet, Runs
  <2> QED BY <1>11, <1>12, <1>13, <1>14, <2>10, <2>11 DEF Inv
<1> QED BY <1>17, <1>18

-----------------------------------------------------------------------------
(* The theorems.                                                           *)

\* The inductive invariant of the contrast.
THEOREM ContrastInvariant == Spec => []Inv
<1>1. Init => Inv
  BY InitInv
<1>2. Inv /\ [Next]_vars => Inv'
  <2> SUFFICES ASSUME Inv, [Next]_vars PROVE Inv'
    OBVIOUS
  <2>1. CASE UNCHANGED vars
    <3>1. /\ UNCHANGED <<faults, live, base_url, pc, todo, out, printed, listener, holder,
                         conns, sink, report>>
      BY <2>1 DEF vars
    <3>2. ControlInv' /\ OutcomesInv'
      BY <3>1, OutcomesKept DEF Inv, ControlInv
    <3>3. RunsInv' /\ PipeInv' /\ QuietInv' /\ ReportInv'
      BY <3>1, PipeKept DEF Inv, RunsInv, PipeInv, QuietInv, Quiet, ReportInv
    <3> QED BY <3>2, <3>3 DEF Inv
  <2>2. CASE Main
    BY <2>2, CheckArgsInv, SpawnInv, BoundInv, AgentCallInv, NextRunInv, ReportStep DEF Main
  <2> QED BY <2>1, <2>2, BindInv, HandleConnectionInv, RunListenerInv DEF Next
<1> QED BY <1>1, <1>2, PTL DEF Spec

\* Types.
THEOREM ContrastTypes == Spec => []TypeOK
<1>1. Inv => TypeOK
  <2> SUFFICES ASSUME ControlInv, OutcomesInv PROVE TypeOK
    BY DEF Inv
  <2>1. ASSUME NEW r \in Runs, NEW i \in DOMAIN out[r] PROVE IsOutcome(out[r][i])
    <3>1. out[r] \in Seq(AnyOutcome)
      BY DEF OutcomesInv
    <3>2. out[r][i] \in AnyOutcome
      BY <3>1
    <3> QED BY <3>2 DEF AnyOutcome, IsOutcome
  <2> QED BY <2>1 DEF TypeOK, ControlInv, OutcomesInv, BeforeRuns
<1> QED BY <1>1, ContrastInvariant, PTL

\* Whatever goes wrong, what is captured was sent by the vulnerable run.
THEOREM CapturesTruthful == Spec => []CapturedMeansSent
<1>1. Inv => CapturedMeansSent
  <2> SUFFICES ASSUME Inv PROVE CapturedMeansSent
    OBVIOUS
  <2>1. ASSUME report.captured PROVE \E n \in DOMAIN out["vuln"] : VulnSent(n)
    <3>1. pc = "ended" /\ sink # <<>>
      BY <2>1 DEF Inv, ReportInv, NoReport
    <3>2. sink \in Seq(Connection) /\ SentByVuln(sink)
      BY <3>1 DEF Inv, PipeInv, Piped
    <3>3. 1 \in DOMAIN sink
      BY <3>1, <3>2
    <3> QED BY <3>2, <3>3 DEF SentByVuln, VulnSent
  <2>2. ASSUME pc \notin {"args", "setup", "spawn"}, pc \notin {"usage", "failed"}
        PROVE  /\ \A i \in DOMAIN sink : sink[i].run = "vuln" /\ VulnSent(sink[i].call)
               /\ \A i, j \in DOMAIN sink : i < j => sink[i].call < sink[j].call
    <3>1. pc \in {"bind", "settle", "ended"} \cup Runs
      BY <2>2 DEF Inv, ControlInv, BeforeRuns, Ended
    <3>2. Piped
      BY <3>1 DEF Inv, PipeInv
    <3> QED BY <3>2 DEF Piped, SentByVuln, Ordered
  <2> QED BY <2>1, <2>2, Zenon DEF CapturedMeansSent
<1> QED BY <1>1, ContrastInvariant, PTL

\* If the sleeps suffice and agents survive, an empty log is a proof that
\* nothing was sent to the sink; what was sent elsewhere is not logged.
THEOREM EmptySinkTruthful == Spec => []EmptySinkMeansNoneToSink
<1>1. Inv => EmptySinkMeansNoneToSink
  <2> SUFFICES ASSUME Inv, pc = "ended", Quiet, ~report.captured,
                      NEW n \in DOMAIN out["vuln"], VulnSent(n)
               PROVE  out["vuln"][n].decision = "Errored"
    BY DEF EmptySinkMeansNoneToSink
  <2>1. sink = <<>> /\ conns = <<>>
    BY DEF Inv, ReportInv, Quiet
  <2>2. ~Arrived(n)
    BY <2>1 DEF Arrived
  <2>3. AllArrived
    BY DEF Inv, QuietInv
  <2> QED BY <2>2, <2>3 DEF AllArrived
<1> QED BY <1>1, ContrastInvariant, PTL

\* The denials the report shows are those of the protected run, and all of
\* them but those that are put down to time.
THEOREM DenialsTruthful == Spec => []DenialsShownExactly
<1>1. Inv => DenialsShownExactly
  <2> SUFFICES ASSUME Inv, pc = "ended"
               PROVE  LET attempted == {DeniedAs(o.kind) : o \in Range(out["prot"])} IN
                      /\ report.shown \subseteq attempted
                      /\ report.shown # {} => report.attenuated
                      /\ ~report.vuln_denied
                      /\ Quiet => \A k \in {"read", "exec", "network"} \cap attempted :
                            k \in report.shown \/ RefusedForTime("prot", k)
    BY DEF DenialsShownExactly
  <2> DEFINE attempted == {DeniedAs(o.kind) : o \in Range(out["prot"])}
  <2>1. /\ out["prot"] \in Seq(AnyOutcome) /\ out["vuln"] \in Seq(AnyOutcome)
        /\ printed["prot"] \in {<<>>, out["prot"]} /\ printed["vuln"] \in {<<>>, out["vuln"]}
    BY DEF Inv, OutcomesInv, Runs
  <2>2. /\ Range(printed["prot"]) \subseteq Range(out["prot"])
        /\ Range(printed["vuln"]) \subseteq Range(out["vuln"])
    BY <2>1 DEF Range
  <2>3. ASSUME NEW r \in {"prot", "vuln"}, NEW o \in Range(out[r])
        PROVE  o \in OutcomesOf(r, o.kind) /\ o.kind \in Kinds /\ r \in Runs
    <3>1. PICK i \in DOMAIN out[r] : o = out[r][i]
      BY <2>3 DEF Range
    <3>2. o \in AnyOutcome
      BY <2>1, <3>1
    <3> QED BY <3>1, <3>2 DEF Inv, OutcomesInv, Runs, AnyOutcome
  <2>4. ASSUME NEW o \in Range(out["prot"])
        PROVE  /\ o.reason \in Outside => o.reason = DeniedAs(o.kind) /\ o.attenuated
               /\ o.kind \in Outside => o.reason \in {DeniedAs(o.kind), "time"}
    BY <2>3, Outcomes
  <2>5. ASSUME NEW o \in Range(out["vuln"]) PROVE o.decision # "Denied"
    BY <2>3, Outcomes
  <2>6. ~report.vuln_denied
    BY <2>2, <2>5 DEF Inv, ReportInv
  <2>7. \A k : k \in report.shown <=>
                 k \in {"read", "exec", "network"} /\ \E o \in Range(printed["prot"]) : o.reason = k
    BY DEF Inv, ReportInv
  <2>8. {"read", "exec", "network"} \subseteq Outside
    BY DEF Outside
  <2>9. ASSUME NEW k \in report.shown PROVE k \in attempted /\ report.attenuated
    <3>1. PICK o \in Range(printed["prot"]) : o.reason = k
      BY <2>7
    <3>2. o \in Range(out["prot"]) /\ k \in Outside
      BY <2>2, <2>7, <2>8
    <3>3. DeniedAs(o.kind) = k /\ o.attenuated
      BY <2>4, <3>1, <3>2
    <3> QED BY <3>1, <3>2, <3>3 DEF Inv, ReportInv
  <2>10. ASSUME Quiet, NEW k \in {"read", "exec", "network"} \cap attempted
         PROVE  k \in report.shown \/ RefusedForTime("prot", k)
    <3>1. PICK o \in Range(out["prot"]) : DeniedAs(o.kind) = k
      BY <2>10
    <3>2. o.reason \in {k, "time"}
      <4>1. o.kind \in Outside
        BY <2>10, <3>1 DEF DeniedAs, Outside
      <4> QED BY <2>4, <3>1, <4>1
    <3>3. printed["prot"] = out["prot"]
      BY <2>10 DEF Inv, QuietInv
    <3>4. CASE o.reason = k
      BY <2>7, <3>3, <3>4
    <3>5. CASE o.reason = "time"
      BY <3>1, <3>5 DEF RefusedForTime
    <3> QED BY <3>2, <3>4, <3>5
  <2> QED BY <2>6, <2>9, <2>10
<1> QED BY <1>1, ContrastInvariant, PTL

=============================================================================
