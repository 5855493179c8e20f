---------------------------- MODULE Orchestrator ----------------------------
(***************************************************************************)
(* Orchestrator::step of agent/src/lib.rs over a list of tool calls, with  *)
(* tools::dispatch and tools::execute.                                     *)
(*                                                                         *)
(* step_enforced reads the clock, consults the disk to attenuate, reads    *)
(* and consults both again to authorise, and the tool consults the disk a  *)
(* third time when it opens the path; these are separate steps here, and   *)
(* the clock and the disk may change between any two of them.              *)
(*                                                                         *)
(* The audit log is the sequence of its events; their timestamps and the   *)
(* hash chain are the subject of module AuditLog.                          *)
(***************************************************************************)
EXTENDS Gate, Audit, Subsequence

CONSTANTS
    Manifests,          \* the manifests a run may start from
    Calls,              \* the tool calls a principal may make
    FsStates,           \* the disks there may be
    CHILD_TTL_SECONDS,
    NoRoot, NoChild,
    MaxCalls,           \* bound on the calls of a run
    MaxNow              \* bound on the clock

\* What matters of a disk: what resolve_existing_ancestor makes of every path;
\* and which paths resolve to a link that points to nothing, with the file that
\* writing to them creates.  Everything else that is read or written is what
\* was resolved: theorems ReadsResolved and WritesResolved of FilesystemProofs.
Disk ==
    [resolve  : Resolution,
     dangling : UNION {[links -> Path] : links \in SUBSET Path}]

ASSUME OrchestratorAssumption ==
    /\ Manifests \subseteq Manifest
    /\ Calls \subseteq ToolCall
    /\ FsStates \subseteq Disk
    /\ CHILD_TTL_SECONDS \in 0 .. DurationMax
    /\ MaxCalls \in Nat /\ 1 .. MaxCalls \subseteq Nonce
    /\ MaxNow \in Time
    /\ NoRoot \notin Capability /\ NoChild \notin Capability

FileTools == {"fs_read", "fs_write"}

\* Calls arrive as JSON text, so their paths are UTF-8.
ASSUME CallsAssumption ==
    \A c \in Calls : c.tool \in FileTools => Lossy[c.target] = c.target

VARIABLES
    mode,               \* AuthzMode
    now,                \* the wall clock
    resolve, dangling,  \* the disk
    root,               \* the root capability
    audit_log,          \* the events recorded
    pc,                 \* what step does next: see Phases
    script,             \* the calls of the run, in order
    at,                 \* the time step_enforced read when it began
    child,              \* the capability attenuated for the call
    outcomes,           \* the StepOutcomes returned
    meant,              \* ghost: the object the call was let through for
    effects             \* ghost: the side effects that took place, with the
                        \* number of the call and the object it reached

vars == <<mode, now, resolve, dangling, root, audit_log, pc, script, at,
          child, outcomes, meant, effects>>

disk == <<resolve, dangling>>
environment == <<now, disk>>
local == <<at, child, meant>>

Phases == {"new", "failed", "idle", "step", "dispatch", "execute", "done"}

Decisions == {"Allowed", "Denied", "Errored"}

\* The sequences of at most MaxCalls calls.
Scripts == UNION {[1 .. n -> Calls] : n \in 0 .. MaxCalls}

\* Types: the root and the child of the call being served are well-formed
\* capabilities, outcomes and effects are about calls of the run.
TypeOK ==
    /\ mode \in {"Enforced", "Bypassed"}
    /\ now \in Time /\ at \in Time
    /\ [resolve |-> resolve, dangling |-> dangling] \in Disk
    /\ root \in Capability \cup {NoRoot}
    /\ pc \in Phases
    /\ script \in Seq(Calls)
    /\ child \in Capability \cup {NoChild}
    /\ meant \in Path \cup Binary \cup {NoTarget}
    /\ \A i \in DOMAIN outcomes :
          outcomes[i].call \in Calls /\ outcomes[i].decision \in Decisions
    /\ \A e \in effects : e.step \in 1 .. MaxCalls /\ e.call \in Calls

Init ==
    /\ mode \in {"Enforced", "Bypassed"}
    /\ now = 0
    /\ \E d \in FsStates : resolve = d.resolve /\ dangling = d.dangling
    /\ root = NoRoot
    /\ audit_log = <<>>
    /\ pc = "new"
    /\ script \in Scripts
    /\ at = 0 /\ child = NoChild /\ meant = NoTarget
    /\ outcomes = <<>>
    /\ effects = {}

-----------------------------------------------------------------------------

\* Uuid::new_v4 for the call being served, and that call.
CallNonce == Len(outcomes) + 1

call == script[CallNonce]

\* record.
Record(event) == audit_log' = Append(audit_log, event)

\* Orchestrator::new.  A manifest whose TTL makes mint panic ends the run as
\* one it refuses does.
New(manifest) ==
    /\ pc = "new"
    /\ \/ /\ MintResult(manifest, now) = "ok"
          /\ root' = MintedRoot(manifest, now, resolve)
          /\ Record(RootMinted)
          /\ pc' = "idle"
       \/ /\ MintResult(manifest, now) # "ok"
          /\ pc' = "failed"
          /\ UNCHANGED <<root, audit_log>>
    /\ UNCHANGED <<mode, environment, script, local, outcomes, effects>>

\* What the path of the call leads to as the disk is now.
Target == IF call.tool \in FileTools THEN resolve[call.target] ELSE call.target

\* step: with enforcement the clock is read first; without, nothing is decided.
Step ==
    \/ /\ mode = "Enforced"
       /\ pc' = "step"
       /\ at' = now
       /\ UNCHANGED meant
    \/ /\ mode = "Bypassed"
       /\ pc' = "execute"
       /\ meant' = Target
       /\ UNCHANGED at

\* Mutant: off by one, the last call is not taken.
TakeCallButLast ==
    /\ pc = "idle"
    /\ CallNonce < Len(script)
    /\ Step
    /\ UNCHANGED <<mode, environment, root, audit_log, script, child, outcomes, effects>>

\* The loop takes the next call, or ends.
TakeCall ==
    /\ pc = "idle"
    /\ CallNonce <= Len(script)
    /\ Step
    /\ UNCHANGED <<mode, environment, root, audit_log, script, child, outcomes, effects>>

Finish ==
    /\ pc = "idle"
    /\ CallNonce > Len(script)
    /\ pc' = "done"
    /\ UNCHANGED <<mode, environment, root, audit_log, script, local, outcomes, effects>>

\* The step returns its outcome to the loop, and its locals are gone.
Return(decision, reason) ==
    /\ outcomes' = Append(outcomes, [call |-> call, decision |-> decision, reason |-> reason])
    /\ pc' = "idle"
    /\ at' = 0 /\ child' = NoChild /\ meant' = NoTarget

\* Mutant: the denial is not recorded.
DenySilently(reason) ==
    /\ Return("Denied", reason)
    /\ UNCHANGED <<audit_log, effects>>

\* deny.
Deny(reason) ==
    /\ Record(ToolDenied(call.tool, reason))
    /\ Return("Denied", reason)
    /\ UNCHANGED effects

\* Mutant: the binding is made with the nonce of the call before.
ChildRequestStaleNonce ==
    [readable_roots  |-> root.permissions.readable_roots,
     writable_roots  |-> root.permissions.writable_roots,
     exec_binaries   |-> root.permissions.exec_binaries,
     ttl_seconds     |-> CHILD_TTL_SECONDS,
     request_binding |-> RequestBindingFor(ToRequest(call), CallNonce - 1)]

\* Mutant: the child lives for a second less.
ChildRequestShortLived ==
    [readable_roots  |-> root.permissions.readable_roots,
     writable_roots  |-> root.permissions.writable_roots,
     exec_binaries   |-> root.permissions.exec_binaries,
     ttl_seconds     |-> CHILD_TTL_SECONDS - 1,
     request_binding |-> RequestBindingFor(ToRequest(call), CallNonce)]

\* The child asked for: the root's own scope, a short life, this request.
ChildRequest ==
    [readable_roots  |-> root.permissions.readable_roots,
     writable_roots  |-> root.permissions.writable_roots,
     exec_binaries   |-> root.permissions.exec_binaries,
     ttl_seconds     |-> CHILD_TTL_SECONDS,
     request_binding |-> RequestBindingFor(ToRequest(call), CallNonce)]

\* Mutant: the attenuation is not recorded.
AttenuateSilently ==
    /\ pc = "step"
    /\ LET verdict == ValidateAttenuation(root, ChildRequest, at, resolve) IN
          \/ /\ verdict = "ok"
             /\ child' = BuildChild(root, ChildRequest, at, resolve)
             /\ pc' = "dispatch"
             /\ UNCHANGED <<audit_log, at, meant, outcomes, effects>>
          \/ /\ verdict # "ok"
             /\ Deny(verdict)
    /\ UNCHANGED <<mode, environment, root, script>>

\* Mutant: the roots of the root capability are resolved anew for every call.
AttenuateRefreshing ==
    /\ pc = "step"
    /\ LET verdict == ValidateAttenuation(root, ChildRequest, at, resolve) IN
          \/ /\ verdict = "ok"
             /\ child' = BuildChild(root, ChildRequest, at, resolve)
             /\ Record(CapabilityAttenuated)
             /\ pc' = "dispatch"
             /\ UNCHANGED <<at, meant, outcomes, effects>>
          \/ /\ verdict # "ok"
             /\ Deny(verdict)
    /\ root' = [root EXCEPT !.permissions.writable_roots = CheckedPaths(resolve, @)]
    /\ UNCHANGED <<mode, environment, script>>

\* step_enforced up to the ATTENUATED entry.  The two looks attenuate takes at
\* the disk are one here; module Capability tells them apart.
Attenuate ==
    /\ pc = "step"
    /\ LET verdict == ValidateAttenuation(root, ChildRequest, at, resolve) IN
          \/ /\ verdict = "ok"
             /\ child' = BuildChild(root, ChildRequest, at, resolve)
             /\ Record(CapabilityAttenuated)
             /\ pc' = "dispatch"
             /\ UNCHANGED <<at, meant, outcomes, effects>>
          \/ /\ verdict # "ok"
             /\ Deny(verdict)
    /\ UNCHANGED <<mode, environment, root, script>>

\* dispatch up to the decision: authorize_only reads the clock anew.  The
\* Datalog queries of decode_state have a time budget and a fact limit; a token
\* they give up on is refused as one that does not verify.
Authorize ==
    /\ pc = "dispatch"
    /\ LET verdict == AuthorizeOnly(child, ToRequest(call), CallNonce, now, resolve) IN
          \/ /\ verdict = "ok"
             /\ pc' = "execute"
             /\ meant' = Target
             /\ UNCHANGED <<audit_log, at, child, outcomes, effects>>
          \/ /\ verdict # "ok"
             /\ Deny(verdict)
          \/ Deny("DatalogLimits")
    /\ UNCHANGED <<mode, environment, root, script>>

\* execute opens the path of the call, not the one the decision resolved.  A
\* write through a link to nothing creates the file the link points to.
ThroughDanglingLink == call.tool = "fs_write" /\ call.target \in DOMAIN dangling

Reached == IF ThroughDanglingLink THEN dangling[call.target] ELSE Target

\* The path leads elsewhere than when it was decided about, or to nothing.
Strayed == Target # meant \/ ThroughDanglingLink

Effect ==
    [step |-> CallNonce, call |-> call, meant |-> meant, reached |-> Reached,
     strayed |-> Strayed]

\* Mutant: an error of the tool is returned as a denial.
ExecuteErrorIsDenial ==
    /\ pc = "execute"
    /\ \/ /\ effects' = effects \cup {Effect}
          /\ Record(ToolAllowed(call.tool))
          /\ Return("Allowed", "ok")
       \/ /\ effects' \in {effects, effects \cup {Effect}}
          /\ Record(ToolDenied(call.tool, "execution error"))
          /\ Return("Denied", "execution error")
    /\ UNCHANGED <<mode, environment, root, script>>

\* execute, in either mode, and the entry that reports it.  It succeeds, fails
\* without having done anything, or fails midway (a short write, a reset
\* connection, a file that is not text).
Execute ==
    /\ pc = "execute"
    /\ \/ /\ effects' = effects \cup {Effect}
          /\ Record(ToolAllowed(call.tool))
          /\ Return("Allowed", "ok")
       \/ /\ effects' \in {effects, effects \cup {Effect}}
          /\ Record(ToolDenied(call.tool, "execution error"))
          /\ Return("Errored", "execution error")
    /\ UNCHANGED <<mode, environment, root, script>>

\* Environment.
ClockChange ==
    /\ now' \in (0 .. MaxNow) \ {now}
    /\ UNCHANGED <<mode, disk, root, audit_log, pc, script, local, outcomes, effects>>

FsChange ==
    /\ \E d \in FsStates : resolve' = d.resolve /\ dangling' = d.dangling
    /\ disk' # disk
    /\ UNCHANGED <<mode, now, root, audit_log, pc, script, local, outcomes, effects>>

Program ==
    \/ \E manifest \in Manifests : New(manifest)
    \/ TakeCall
    \/ Finish
    \/ Attenuate
    \/ Authorize
    \/ Execute

Next == Program \/ ClockChange \/ FsChange

Spec == Init /\ [][Next]_vars

\* The program is one thread that is never blocked except in execute, which
\* is taken to return.
FairSpec == Spec /\ WF_vars(Program)

-----------------------------------------------------------------------------
(* Properties.                                                             *)

\* The decisions in the log.
Told ==
    Picked(audit_log, {i \in DOMAIN audit_log : audit_log[i].kind \in {"ToolAllowed", "ToolDenied"}})

\* The decisions in the log are, in order, the outcomes returned: nothing is
\* reported twice, out of order, or for another tool.  An error in the tool is
\* logged as a denial.
AuditTellsOutcomes ==
    /\ Len(Told) = Len(outcomes)
    /\ \A i \in DOMAIN Told :
          /\ Told[i].tool = outcomes[i].call.tool
          /\ Told[i].kind = "ToolAllowed" <=> outcomes[i].decision = "Allowed"

\* Under enforcement every allowed call was attenuated for immediately before,
\* and the baseline attenuates nothing.
AllowedOnlyAfterAttenuation ==
    /\ mode = "Enforced" =>
          \A i \in DOMAIN audit_log : audit_log[i].kind = "ToolAllowed" =>
              i > 1 /\ audit_log[i - 1].kind = "CapabilityAttenuated"
    /\ mode = "Bypassed" =>
          \A i \in DOMAIN audit_log : audit_log[i].kind # "CapabilityAttenuated"

\* "A denial returns before any side effect occurs" (tools/src/lib.rs:172),
\* and no call has two effects.
DeniedHasNoEffect ==
    /\ \A e \in effects :
          e.step \in DOMAIN outcomes /\ outcomes[e.step].decision # "Denied"
    /\ \A e, f \in effects : e.step = f.step => e = f

\* What effects reach, and which of it the root's scope holds.
Object ==
    [tool : {"fs_read", "fs_write"}, reached : Path]
        \cup [tool : {"exec"}, reached : Binary]
        \cup [tool : {"network"}, reached : {NoTarget}]

InScope(object) ==
    \/ object.tool = "fs_read"  /\ IsUnderAnyRoot(object.reached, root.permissions.readable_roots)
    \/ object.tool = "fs_write" /\ IsUnderAnyRoot(object.reached, root.permissions.writable_roots)
    \/ object.tool = "exec"     /\ object.reached \in root.permissions.exec_binaries

ObjectOf(effect) == [tool |-> effect.call.tool, reached |-> effect.reached]

MeantBy(effect) == [tool |-> effect.call.tool, reached |-> effect.meant]

\* Under enforcement, whatever was let through was an object inside the scope
\* minted from the manifest, and so is what the tool reached, unless it strayed:
\* the path was redirected after the decision, or a file was written through a
\* link to nothing.  Only the file tools can stray.
EffectsInScope ==
    mode = "Enforced" =>
        \A e \in effects :
            /\ InScope(MeantBy(e))
            /\ InScope(ObjectOf(e)) \/ (e.strayed /\ e.call.tool \in FileTools)

\* The paths of a permission set are UTF-8.
IsText(permissions) ==
    \A p \in permissions.readable_roots \cup permissions.writable_roots : Lossy[p] = p

\* What a refusal of a call in scope comes from.
RefusalHasCause ==
    LET refusal == Last(outcomes').reason
        moved(roots) == CheckedPaths(resolve, roots) # roots
        expiry == at + CHILD_TTL_SECONDS
    IN /\ Len(outcomes') > Len(outcomes)
       /\ Last(outcomes').decision = "Denied"
       /\ Decide(root.permissions, ToRequest(call), resolve)
       => \/ refusal \in {"TtlWidened", "TtlOverflow"} /\ expiry > root.expires_at
          \/ refusal = "Expired" /\ expiry <= now
          \/ refusal = "SignatureChain" /\ expiry > Rfc3339Max
          \/ refusal = "DatalogLimits"
          \/ refusal = "ReadScopeWidened" /\ moved(root.permissions.readable_roots)
          \/ refusal = "WriteScopeWidened" /\ moved(root.permissions.writable_roots)
          \/ refusal = "Denied" /\ child.permissions # root.permissions
          \/ refusal = "StateTampered" /\ ~IsText(child.permissions)

\* A call that is in scope as the disk is at that moment is refused only because
\* the root had less than CHILD_TTL_SECONDS left when the step began, because
\* that much time passed before the decision, because the year 9999 is over,
\* because decoding the token hit a limit of the Datalog engine, because a root
\* of the scope itself has been moved by a link since it was minted (it is now,
\* or it was when the child was made), or because a root is not UTF-8.
RefusedInScopeOnlyForCause == [][RefusalHasCause]_vars

\* The refinement mapping.  Granted is what the root's scope holds, or
\* everything without enforcement.
Granted ==
    IF root = NoRoot THEN {}
    ELSE {o \in Object : mode = "Bypassed" \/ InScope(o)}

Status ==
    CASE pc = "new"    -> "starting"
      [] pc = "failed" -> "refused"
      [] pc = "done"   -> "ended"
      [] OTHER         -> "running"

Journal ==
    [i \in DOMAIN Told |-> [tool |-> Told[i].tool, allowed |-> Told[i].kind = "ToolAllowed"]]

Promise == INSTANCE Enforcement WITH
    Call    <- Calls,
    Object  <- Object,
    status  <- Status,
    grant   <- Granted,
    answers <- [i \in DOMAIN outcomes |-> outcomes[i].decision],
    journal <- Journal,
    touched <- {[step |-> e.step, meant |-> MeantBy(e), object |-> ObjectOf(e),
                 strayed |-> e.strayed] : e \in effects}

\* The orchestrator implements Enforcement: however clock and disk move between
\* attenuation, decision and effect, it looks as if every call were answered,
\* journalled and carried out in one step on an object of a grant that never
\* changes; where a file tool reached another object, it is on record as strayed.
ImplementsEnforcement == Promise!Spec

\* Every run ends, and unless the manifest was refused, with one outcome for
\* each of its calls.
EveryCallServed ==
    <>(pc = "failed" \/ (pc = "done" /\ Len(outcomes) = Len(script)))

=============================================================================
