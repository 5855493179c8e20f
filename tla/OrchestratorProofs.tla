------------------------- MODULE OrchestratorProofs -------------------------
(***************************************************************************)
(* Proofs about Orchestrator for every manifest, script, disk and clock,   *)
(* and for runs of any length.                                             *)
(***************************************************************************)
EXTENDS Orchestrator, GateProofs, SubsequenceProofs

-----------------------------------------------------------------------------
(* The inductive invariants.                                               *)

\* The root in use agrees with its token and all its roots were resolved.
RootSound ==
    /\ root \in Capability
    /\ Coherent(root, root)
    /\ root.caveats = <<>>
    /\ root.permissions.readable_roots \cup root.permissions.writable_roots \subseteq SafePath

\* The child a call is decided with is the root's, for this call alone.
ChildSound ==
    /\ child \in Capability
    /\ Coherent(root, child)
    /\ PermissionsNarrower(child.permissions, root.permissions)
    /\ Len(child.caveats) = 1
    /\ child.caveats[1].request_binding = RequestBindingFor(ToRequest(call), CallNonce)
    /\ child.expires_at = at + CHILD_TTL_SECONDS

\* Where the run is, and what there is by then.
ControlInv ==
    /\ TypeOK
    /\ IsSequence(audit_log) /\ IsSequence(outcomes)
    /\ Len(script) <= MaxCalls
    /\ Len(outcomes) <= Len(script)
    /\ pc \in {"step", "dispatch", "execute"} => Len(outcomes) < Len(script)
    /\ mode = "Bypassed" => pc \notin {"step", "dispatch"}
    /\ IF pc \in {"new", "failed"} THEN root = NoRoot /\ effects = {} ELSE RootSound
    /\ pc = "dispatch" => ChildSound

\* What the log tells, and that a call about to be carried out under
\* enforcement was attenuated for just now.
LogInv ==
    /\ AuditTellsOutcomes
    /\ AllowedOnlyAfterAttenuation
    /\ DeniedHasNoEffect
    /\ mode = "Enforced" /\ pc \in {"dispatch", "execute"} =>
          audit_log # <<>> /\ Last(audit_log).kind = "CapabilityAttenuated"

\* What the call about to be carried out was let through for: an object its
\* tool can act on, in scope under enforcement.
Aim == [tool |-> call.tool, reached |-> meant]

ScopeInv ==
    /\ EffectsInScope
    /\ pc = "execute" =>
          /\ Aim \in Object
          /\ call.tool \notin FileTools => meant = call.target
          /\ mode = "Enforced" => InScope(Aim)

-----------------------------------------------------------------------------
(* The log.                                                                *)

Verdicts == {"ToolAllowed", "ToolDenied"}

DecidedIn(log) == {i \in DOMAIN log : log[i].kind \in Verdicts}

\* What record appends is told if it is a decision.
LEMMA RecordStep ==
    ASSUME IsSequence(audit_log), NEW event, Record(event)
    PROVE  /\ IsSequence(audit_log')
           /\ Len(audit_log) \in Nat /\ DOMAIN audit_log = 1 .. Len(audit_log)
           /\ Len(audit_log') = Len(audit_log) + 1
           /\ DOMAIN audit_log' = 1 .. Len(audit_log) + 1
           /\ \A i \in 1 .. Len(audit_log) : audit_log'[i] = audit_log[i]
           /\ audit_log'[Len(audit_log) + 1] = event
           /\ IsSequence(Told)
           /\ event.kind \in Verdicts => Told' = Append(Told, event)
           /\ event.kind \notin Verdicts => Told' = Told
<1> DEFINE n == Len(audit_log)
<1>1. audit_log' = Append(audit_log, event)
  BY DEF Record
<1>3. /\ IsSequence(audit_log')
      /\ n \in Nat /\ DOMAIN audit_log = 1 .. n
      /\ Len(audit_log') = n + 1 /\ DOMAIN audit_log' = 1 .. n + 1
      /\ \A i \in 1 .. n : audit_log'[i] = audit_log[i]
      /\ audit_log'[n + 1] = event
  BY <1>1, AppendSequence
<1>5. Told = Picked(audit_log, DecidedIn(audit_log)) /\ Told' = Picked(audit_log', DecidedIn(audit_log'))
  BY DEF Told, DecidedIn, Verdicts
<1>6. DecidedIn(audit_log) \in SUBSET (1 .. n)
  BY <1>3 DEF DecidedIn
<1>7. /\ IsSequence(Told)
      /\ Picked(audit_log', DecidedIn(audit_log)) = Told
      /\ Picked(audit_log', DecidedIn(audit_log) \cup {n + 1}) = Append(Told, event)
  BY <1>1, <1>5, <1>6, PickedGrows
<1>8. \A i \in 1 .. n : i \in DecidedIn(audit_log') <=> i \in DecidedIn(audit_log)
  BY <1>3 DEF DecidedIn
<1>9. n + 1 \in DecidedIn(audit_log') <=> event.kind \in Verdicts
  BY <1>3 DEF DecidedIn
<1>10. DecidedIn(audit_log') \subseteq 1 .. n + 1
  BY <1>3 DEF DecidedIn
<1>11. /\ event.kind \in Verdicts => DecidedIn(audit_log') = DecidedIn(audit_log) \cup {n + 1}
       /\ event.kind \notin Verdicts => DecidedIn(audit_log') = DecidedIn(audit_log)
  <2>1. \A i \in 1 .. n + 1 : i \in 1 .. n \/ i = n + 1
    BY <1>3
  <2>2. n + 1 \notin DecidedIn(audit_log)
    BY <1>3, <1>6
  <2> QED BY <1>6, <1>8, <1>9, <1>10, <2>1, <2>2
<1> QED BY <1>3, <1>5, <1>7, <1>11

-----------------------------------------------------------------------------
(* Control: what is there when.                                            *)

\* The disk as the operators of Scope see it.
LEMMA DiskTypes ==
    ASSUME TypeOK
    PROVE  resolve \in Resolution /\ \A p \in DOMAIN dangling : dangling[p] \in Path
<1> DEFINE d == [resolve |-> resolve, dangling |-> dangling]
<1>1. d \in Disk
  BY DEF TypeOK
<1>2. PICK links \in SUBSET Path : dangling \in [links -> Path]
  BY <1>1 DEF Disk
<1> QED BY <1>1, <1>2 DEF Disk

\* While a call is being served it is one of the script's, and its nonce is one.
LEMMA CallServed ==
    ASSUME ControlInv, pc \in {"step", "dispatch", "execute"}
    PROVE  /\ Len(outcomes) \in Nat /\ DOMAIN outcomes = 1 .. Len(outcomes)
           /\ CallNonce = Len(outcomes) + 1
           /\ CallNonce \in 1 .. Len(script) /\ CallNonce \in 1 .. MaxCalls
           /\ CallNonce \in Nonce /\ CallNonce # NoNonce
           /\ call \in Calls /\ call \in ToolCall
           /\ root \in Capability
<1>1. Len(outcomes) \in Nat /\ DOMAIN outcomes = 1 .. Len(outcomes)
  BY AppendSequence DEF ControlInv
<1>2. script \in Seq(Calls) /\ Len(outcomes) < Len(script) /\ Len(script) <= MaxCalls
  BY DEF ControlInv, TypeOK
<1>3. Len(script) \in Nat /\ MaxCalls \in Nat
  BY <1>2, OrchestratorAssumption
<1>4. CallNonce \in 1 .. Len(script) /\ CallNonce \in 1 .. MaxCalls
  BY <1>1, <1>2, <1>3 DEF CallNonce
<1>5. CallNonce \in Nonce /\ CallNonce # NoNonce
  BY <1>4, OrchestratorAssumption, BindingAssumption
<1>6. call \in Calls /\ call \in ToolCall
  BY <1>2, <1>4, OrchestratorAssumption DEF call
<1>7. root \in Capability
  BY DEF ControlInv, RootSound
<1> QED BY <1>1, <1>4, <1>5, <1>6, <1>7 DEF CallNonce

\* Returning an outcome ends the service of one call.
LEMMA ReturnControl ==
    ASSUME ControlInv, pc \in {"step", "dispatch", "execute"},
           NEW decision \in Decisions, NEW reason, Return(decision, reason),
           IsSequence(audit_log'), effects' \subseteq effects \cup {Effect},
           UNCHANGED <<mode, environment, root, script>>
    PROVE  ControlInv'
<1> DEFINE outcome == [call |-> call, decision |-> decision, reason |-> reason]
<1>1. /\ outcomes' = Append(outcomes, outcome) /\ pc' = "idle"
      /\ at' = 0 /\ child' = NoChild /\ meant' = NoTarget
  BY DEF Return
<1>2. /\ CallNonce \in 1 .. MaxCalls /\ call \in Calls
      /\ CallNonce = Len(outcomes) + 1 /\ CallNonce \in 1 .. Len(script)
  BY CallServed
<1>3. outcome.call \in Calls /\ outcome.decision \in Decisions
  BY <1>2
<1> HIDE DEF outcome
<1>4. /\ IsSequence(outcomes') /\ Len(outcomes) \in Nat
      /\ Len(outcomes') = Len(outcomes) + 1
      /\ DOMAIN outcomes = 1 .. Len(outcomes)
      /\ DOMAIN outcomes' = 1 .. Len(outcomes) + 1
      /\ \A i \in 1 .. Len(outcomes) : outcomes'[i] = outcomes[i]
      /\ outcomes'[Len(outcomes) + 1] = outcome
  BY <1>1, AppendSequence DEF ControlInv
<1>5. \A i \in DOMAIN outcomes' : outcomes'[i].call \in Calls /\ outcomes'[i].decision \in Decisions
  <2>1. \A i \in 1 .. Len(outcomes) + 1 : i \in 1 .. Len(outcomes) \/ i = Len(outcomes) + 1
    BY <1>4
  <2> QED BY <1>3, <1>4, <2>1 DEF ControlInv, TypeOK
<1>6. \A e \in effects' : e.step \in 1 .. MaxCalls /\ e.call \in Calls
  <2>1. Effect.step \in 1 .. MaxCalls /\ Effect.call \in Calls
    BY <1>2 DEF Effect
  <2> QED BY <2>1 DEF ControlInv, TypeOK
<1>7. TypeOK'
  <2>1. 0 \in Time
    BY TimeAssumption DEF Time
  <2> QED BY <1>1, <1>5, <1>6, <2>1 DEF ControlInv, TypeOK, Phases, environment, disk
<1>8. Len(script) \in Nat /\ Len(outcomes') <= Len(script)
  BY <1>2, <1>4 DEF ControlInv, TypeOK
<1>9. RootSound'
  BY DEF ControlInv, RootSound
<1> QED BY <1>1, <1>4, <1>7, <1>8, <1>9 DEF ControlInv

\* Orchestrator::new mints a root that agrees with its token.
LEMMA NewControl ==
    ASSUME ControlInv, NEW manifest \in Manifests, New(manifest)
    PROVE  ControlInv'
<1>1. manifest \in Manifest /\ now \in Time /\ resolve \in Resolution
  BY OrchestratorAssumption, DiskTypes DEF ControlInv, TypeOK
<1>2. CASE MintResult(manifest, now) # "ok"
  <2>1. pc' = "failed" /\ UNCHANGED <<mode, now, resolve, dangling, root, audit_log, script, at, child, meant, outcomes, effects>>
    BY <1>2 DEF New, environment, disk, local
  <2>2. TypeOK'
    BY <2>1 DEF ControlInv, TypeOK, Phases
  <2> QED BY <2>1, <2>2 DEF ControlInv, New
<1>3. CASE MintResult(manifest, now) = "ok"
  <2>1. /\ root' = MintedRoot(manifest, now, resolve) /\ Record(RootMinted) /\ pc' = "idle"
        /\ UNCHANGED <<mode, now, resolve, dangling, script, at, child, meant, outcomes, effects>>
    BY <1>3 DEF New, environment, disk, local
  <2>2. root' \in Capability /\ Coherent(root', root')
    BY <1>1, <1>3, <2>1, MintedRootType
  <2>3. root'.caveats = <<>>
    BY <2>1 DEF MintedRoot
  <2>4. root'.permissions.readable_roots \cup root'.permissions.writable_roots \subseteq SafePath
    <3>1. PathsAreSafe(manifest.readable_roots \cup manifest.writable_roots)
      BY <1>3 DEF MintResult, ValidateManifest, PathsAreSafe
    <3>2. root'.permissions = FromManifest(manifest, resolve)
      BY <2>1 DEF MintedRoot
    <3> QED BY <1>1, <3>1, <3>2
         DEF FromManifest, CheckedPaths, CheckedPath, PathsAreSafe, PathIsSafe, Resolution
  <2>5. IsSequence(audit_log')
    BY <2>1, RecordStep DEF ControlInv
  <2>6. RootSound'
    BY <2>2, <2>3, <2>4 DEF RootSound
  <2>7. TypeOK'
    BY <2>1, <2>2 DEF ControlInv, TypeOK, Phases
  <2> QED BY <2>1, <2>5, <2>6, <2>7 DEF ControlInv
<1> QED BY <1>2, <1>3

\* The path, binary or peer of a call is what its tool acts on.
LEMMA TargetObject ==
    ASSUME TypeOK, call \in Calls
    PROVE  /\ [tool |-> call.tool, reached |-> Target] \in Object
           /\ Target \in Path \cup Binary \cup {NoTarget}
           /\ call.tool \notin FileTools => Target = call.target
           /\ call.tool \in FileTools => Target \in Path
<1>1. call \in ToolCall /\ resolve \in Resolution
  BY OrchestratorAssumption, DiskTypes
<1>2. CASE call.tool \in FileTools
  <2>1. call.target \in Path
    BY <1>1, <1>2 DEF ToolCall, FileTools
  <2>2. Target \in Path
    BY <1>1, <1>2, <2>1 DEF Target, Resolution
  <2> QED BY <1>2, <2>2 DEF Object, FileTools
<1>3. CASE call.tool = "exec"
  <2>1. call.target \in Binary
    BY <1>1, <1>3 DEF ToolCall
  <2> QED BY <1>3, <2>1 DEF Object, Target, FileTools
<1>4. CASE call.tool = "network"
  <2>1. call.target = NoTarget
    BY <1>1, <1>4 DEF ToolCall
  <2> QED BY <1>4, <2>1 DEF Object, Target, FileTools
<1> QED BY <1>1, <1>2, <1>3, <1>4 DEF ToolCall, FileTools

\* to_request yields a request, and of a call that arrived as text it keeps
\* the target.
LEMMA CallRequest ==
    ASSUME NEW c \in Calls
    PROVE  /\ ToRequest(c) \in Request
           /\ ToRequest(c).tool = c.tool
           /\ ToRequest(c).target = c.target
<1>1. c \in ToolCall
  BY OrchestratorAssumption
<1>2. c.tool \in {"fs_read", "fs_write"} => Lossy[c.target] = c.target
  BY CallsAssumption DEF FileTools
<1>3. ToRequest(c) = [tool |-> c.tool, target |-> c.target]
  BY <1>2 DEF ToRequest
<1>4. [tool |-> c.tool, target |-> c.target] \in Request
  BY <1>1 DEF ToolCall, Request
<1> QED BY <1>3, <1>4

\* The request step_enforced makes of attenuate is well formed.
LEMMA ChildRequestType ==
    ASSUME ControlInv, pc \in {"step", "dispatch", "execute"}
    PROVE  ChildRequest \in AttenuationRequest
<1>1. /\ call \in Calls /\ CallNonce \in Nonce /\ root \in Capability
  BY CallServed
<1>2. RequestBindingFor(ToRequest(call), CallNonce) \in OptionalBinding
  BY <1>1, CallRequest DEF RequestBindingFor, OptionalBinding, RequestBinding
<1>3. CHILD_TTL_SECONDS \in Nat
  BY OrchestratorAssumption, TimeAssumption
<1>4. root.permissions \in Permissions
  BY <1>1 DEF Capability
<1> QED BY <1>2, <1>3, <1>4 DEF ChildRequest, AttenuationRequest, Permissions

\* The child minted for a call.
LEMMA AttenuatedChild ==
    ASSUME ControlInv, pc = "step",
           ValidateAttenuation(root, ChildRequest, at, resolve) = "ok"
    PROVE  LET built == BuildChild(root, ChildRequest, at, resolve) IN
           /\ built \in Capability
           /\ Coherent(root, built)
           /\ PermissionsNarrower(built.permissions, root.permissions)
           /\ Len(built.caveats) = 1
           /\ built.caveats[1].request_binding = RequestBindingFor(ToRequest(call), CallNonce)
           /\ built.expires_at = at + CHILD_TTL_SECONDS
<1> DEFINE built == BuildChild(root, ChildRequest, at, resolve)
           entry == [permissions     |-> RequestedPermissions(ChildRequest, resolve),
                     expires_at      |-> CheckedExpiresAt(at, ChildRequest.ttl_seconds),
                     request_binding |-> ChildRequest.request_binding]
<1>1. /\ root \in Capability /\ Coherent(root, root) /\ root.caveats = <<>>
      /\ at \in Time /\ resolve \in Resolution
      /\ ChildRequest \in AttenuationRequest
  BY ChildRequestType, DiskTypes DEF ControlInv, TypeOK, RootSound
<1>2. ExpiryResult(at, ChildRequest.ttl_seconds) = "ok"
  BY DEF ValidateAttenuation
<1>3. /\ built \in Capability /\ Coherent(root, built)
      /\ built.caveats = Append(root.caveats, entry)
  BY <1>1, <1>2, ChildCoherent
<1>4. built.permissions = RequestedPermissions(ChildRequest, resolve)
  BY DEF BuildChild
<1>5. PermissionsNarrower(built.permissions, root.permissions)
  BY <1>1, <1>4, ChildNarrower
<1>8. built.expires_at = at + CHILD_TTL_SECONDS
  BY DEF BuildChild, CheckedExpiresAt, ChildRequest
<1>6. entry.request_binding = RequestBindingFor(ToRequest(call), CallNonce)
  BY DEF ChildRequest
<1> HIDE DEF built, entry
<1>7. built.caveats = <<entry>>
  BY <1>1, <1>3
<1> QED BY <1>3, <1>5, <1>6, <1>7, <1>8 DEF built

\* attenuate, or the denial when it fails.
LEMMA AttenuateControl ==
    ASSUME ControlInv, Attenuate
    PROVE  ControlInv'
<1> DEFINE verdict == ValidateAttenuation(root, ChildRequest, at, resolve)
<1>1. pc = "step" /\ UNCHANGED <<mode, environment, root, script>>
  BY DEF Attenuate
<1>2. CASE verdict # "ok"
  <2>1. Deny(verdict)
    BY <1>2 DEF Attenuate
  <2>2. IsSequence(audit_log') /\ effects' = effects
    BY <2>1, RecordStep DEF ControlInv, Deny
  <2>3. Return("Denied", verdict)
    BY <2>1 DEF Deny
  <2> QED BY <1>1, <2>2, <2>3, ReturnControl DEF Decisions
<1>3. CASE verdict = "ok"
  <2>1. /\ child' = BuildChild(root, ChildRequest, at, resolve)
        /\ Record(CapabilityAttenuated) /\ pc' = "dispatch"
        /\ UNCHANGED <<mode, now, resolve, dangling, root, script, at, meant, outcomes, effects>>
    BY <1>3 DEF Attenuate, environment, disk
  <2>2. IsSequence(audit_log')
    BY <2>1, RecordStep DEF ControlInv
  <2>3. call' = call /\ CallNonce' = CallNonce
    BY <2>1 DEF call, CallNonce
  <2>4. ChildSound'
    BY <1>1, <1>3, <2>1, <2>3, AttenuatedChild DEF ChildSound
  <2>5. TypeOK'
    BY <2>1, <2>4 DEF ControlInv, TypeOK, Phases, ChildSound
  <2>6. RootSound'
    BY <1>1, <2>1 DEF ControlInv, RootSound
  <2> QED BY <1>1, <2>1, <2>2, <2>4, <2>5, <2>6 DEF ControlInv
<1> QED BY <1>2, <1>3

\* The decision.
LEMMA AuthorizeControl ==
    ASSUME ControlInv, Authorize
    PROVE  ControlInv'
<1>1. pc = "dispatch" /\ UNCHANGED <<mode, environment, root, script>>
  BY DEF Authorize
<1>2. ASSUME NEW reason, Deny(reason) PROVE ControlInv'
  <2>1. IsSequence(audit_log') /\ effects' = effects
    BY <1>2, RecordStep DEF ControlInv, Deny
  <2>2. Return("Denied", reason)
    BY <1>2 DEF Deny
  <2> QED BY <1>1, <2>1, <2>2, ReturnControl DEF Decisions
<1>3. CASE pc' = "execute" /\ meant' = Target /\ UNCHANGED <<audit_log, at, child, outcomes, effects>>
  <2>0. Target \in Path \cup Binary \cup {NoTarget}
    BY <1>1, CallServed, TargetObject DEF ControlInv, Object
  <2>1. TypeOK'
    BY <1>1, <1>3, <2>0 DEF ControlInv, TypeOK, Phases, environment, disk
  <2>2. RootSound'
    BY <1>1 DEF ControlInv, RootSound
  <2> QED BY <1>1, <1>3, <2>1, <2>2 DEF ControlInv
<1> QED BY <1>2, <1>3 DEF Authorize

\* execute and the entry that reports it.
LEMMA ExecuteControl ==
    ASSUME ControlInv, Execute
    PROVE  ControlInv'
<1>1. /\ pc = "execute" /\ UNCHANGED <<mode, environment, root, script>>
      /\ effects' \subseteq effects \cup {Effect}
  BY DEF Execute
<1>2. IsSequence(audit_log')
  <2>1. \E event : Record(event)
    BY DEF Execute
  <2> QED BY <2>1, RecordStep DEF ControlInv
<1>3. \E decision \in Decisions : \E reason : Return(decision, reason)
  BY DEF Execute, Decisions
<1> QED BY <1>1, <1>2, <1>3, ReturnControl

\* The disk and the clock do not disturb what the program holds.
LEMMA EnvironmentControl ==
    ASSUME ControlInv, ClockChange \/ FsChange
    PROVE  ControlInv'
<1>1. /\ now' \in Time /\ [resolve |-> resolve', dangling |-> dangling'] \in Disk
      /\ UNCHANGED <<mode, root, audit_log, pc, script, at, child, meant, outcomes, effects>>
  <2>1. CASE ClockChange
    BY <2>1, OrchestratorAssumption, TimeAssumption
       DEF ClockChange, ControlInv, TypeOK, Time, disk, local
  <2>2. CASE FsChange
    <3>1. PICK d \in FsStates : resolve' = d.resolve /\ dangling' = d.dangling
      BY <2>2 DEF FsChange
    <3>2. d \in Disk
      BY OrchestratorAssumption
    <3>3. d = [resolve |-> d.resolve, dangling |-> d.dangling]
      BY <3>2 DEF Disk
    <3> QED BY <2>2, <3>1, <3>2, <3>3 DEF FsChange, ControlInv, TypeOK, local
  <2> QED BY <2>1, <2>2
<1>2. TypeOK'
  BY <1>1 DEF ControlInv, TypeOK
<1>3. RootSound' = RootSound /\ ChildSound' = ChildSound
  BY <1>1 DEF RootSound, ChildSound, call, CallNonce
<1> QED BY <1>1, <1>2, <1>3 DEF ControlInv

-----------------------------------------------------------------------------
(* What the log tells.                                                     *)

\* An entry keeps AllowedOnlyAfterAttenuation if it may follow the last one.
LEMMA AllowedStep ==
    ASSUME IsSequence(audit_log), AllowedOnlyAfterAttenuation,
           NEW event, Record(event), UNCHANGED mode,
           mode = "Enforced" /\ event.kind = "ToolAllowed" =>
               audit_log # <<>> /\ Last(audit_log).kind = "CapabilityAttenuated",
           mode = "Bypassed" => event.kind # "CapabilityAttenuated"
    PROVE  /\ AllowedOnlyAfterAttenuation'
           /\ audit_log' # <<>> /\ Last(audit_log').kind = event.kind
<1> DEFINE n == Len(audit_log)
<1>1. /\ n \in Nat /\ DOMAIN audit_log = 1 .. n
      /\ Len(audit_log') = n + 1 /\ DOMAIN audit_log' = 1 .. n + 1
      /\ \A i \in 1 .. n : audit_log'[i] = audit_log[i]
      /\ audit_log'[n + 1] = event
  BY RecordStep
<1>2. audit_log' # <<>> /\ Last(audit_log').kind = event.kind
  BY <1>1 DEF Last
<1>3. \A i \in 1 .. n + 1 : i \in 1 .. n \/ i = n + 1
  BY <1>1
<1>4. ASSUME mode = "Bypassed", NEW i \in DOMAIN audit_log'
      PROVE  audit_log'[i].kind # "CapabilityAttenuated"
  BY <1>1, <1>3, <1>4 DEF AllowedOnlyAfterAttenuation
<1>5. ASSUME mode = "Enforced", NEW i \in DOMAIN audit_log',
             audit_log'[i].kind = "ToolAllowed"
      PROVE  i > 1 /\ audit_log'[i - 1].kind = "CapabilityAttenuated"
  <2>1. CASE i \in 1 .. n
    <3>1. i > 1 /\ audit_log[i - 1].kind = "CapabilityAttenuated"
      BY <1>1, <1>5, <2>1 DEF AllowedOnlyAfterAttenuation
    <3>2. i - 1 \in 1 .. n
      BY <1>1, <2>1, <3>1
    <3> QED BY <1>1, <3>1, <3>2
  <2>2. CASE i = n + 1
    <3>1. event.kind = "ToolAllowed"
      BY <1>1, <1>5, <2>2
    <3>2. audit_log # <<>> /\ audit_log[n].kind = "CapabilityAttenuated"
      BY <1>5, <3>1 DEF Last
    <3>3. n # 0
      BY <1>1, <3>2
    <3>4. n \in 1 .. n /\ i > 1 /\ i - 1 = n
      BY <1>1, <2>2, <3>3
    <3> QED BY <1>1, <3>2, <3>4
  <2> QED BY <1>1, <1>3, <2>1, <2>2
<1> QED BY <1>2, <1>4, <1>5 DEF AllowedOnlyAfterAttenuation

\* A decision recorded and returned by the same step keeps log and outcomes
\* in agreement.
LEMMA TellStep ==
    ASSUME ControlInv, pc \in {"step", "dispatch", "execute"},
           AuditTellsOutcomes,
           NEW event, event.kind \in Verdicts, event.tool = call.tool, Record(event),
           NEW decision, NEW reason, Return(decision, reason),
           event.kind = "ToolAllowed" <=> decision = "Allowed"
    PROVE  AuditTellsOutcomes'
<1> DEFINE m == Len(outcomes)
           outcome == [call |-> call, decision |-> decision, reason |-> reason]
<1>1. IsSequence(Told) /\ Told' = Append(Told, event)
  BY RecordStep DEF ControlInv
<1>2. /\ outcome.call.tool = call.tool
      /\ event.kind = "ToolAllowed" <=> outcome.decision = "Allowed"
      /\ event.tool = outcome.call.tool
      /\ outcomes' = Append(outcomes, outcome)
  BY <1>1 DEF Return
<1> HIDE DEF outcome
<1>3. /\ m \in Nat /\ Len(outcomes') = m + 1
      /\ \A i \in 1 .. m : outcomes'[i] = outcomes[i]
      /\ outcomes'[m + 1] = outcome
  BY <1>2, AppendSequence DEF ControlInv
<1>4. Len(Told) = m
  BY DEF AuditTellsOutcomes
<1>5. /\ Len(Told') = m + 1 /\ DOMAIN Told' = 1 .. m + 1 /\ DOMAIN Told = 1 .. m
      /\ \A i \in 1 .. m : Told'[i] = Told[i]
      /\ Told'[m + 1] = event
  BY <1>1, <1>4, AppendSequence
<1>6. \A i \in 1 .. m + 1 : i \in 1 .. m \/ i = m + 1
  BY <1>3
<1>7. ASSUME NEW i \in DOMAIN Told'
      PROVE  /\ Told'[i].tool = outcomes'[i].call.tool
             /\ Told'[i].kind = "ToolAllowed" <=> outcomes'[i].decision = "Allowed"
  <2>1. CASE i \in 1 .. m
    <3>1. Told'[i] = Told[i] /\ outcomes'[i] = outcomes[i] /\ i \in DOMAIN Told
      BY <1>3, <1>5, <2>1
    <3> QED BY <3>1 DEF AuditTellsOutcomes
  <2>2. CASE i = m + 1
    <3>1. Told'[i] = event /\ outcomes'[i] = outcome
      BY <1>3, <1>5, <2>2
    <3> QED BY <1>2, <3>1
  <2> QED BY <1>5, <1>6, <2>1, <2>2
<1> QED BY <1>3, <1>5, <1>7 DEF AuditTellsOutcomes

\* An outcome returned with its effect, if any, keeps denials without effect.
LEMMA EffectStep ==
    ASSUME ControlInv, pc \in {"step", "dispatch", "execute"}, DeniedHasNoEffect,
           NEW decision, NEW reason, Return(decision, reason),
           effects' \in {effects, effects \cup {Effect}},
           decision = "Denied" => effects' = effects
    PROVE  DeniedHasNoEffect'
<1> DEFINE m == Len(outcomes)
           outcome == [call |-> call, decision |-> decision, reason |-> reason]
<1>1. outcomes' = Append(outcomes, outcome) /\ outcome.decision = decision
  BY DEF Return
<1> HIDE DEF outcome
<1>2. /\ m \in Nat /\ DOMAIN outcomes = 1 .. m /\ DOMAIN outcomes' = 1 .. m + 1
      /\ \A i \in 1 .. m : outcomes'[i] = outcomes[i]
      /\ outcomes'[m + 1] = outcome
  BY <1>1, AppendSequence DEF ControlInv
<1>3. Effect.step = m + 1
  BY DEF Effect, CallNonce
<1>4. \A e \in effects : e.step \in 1 .. m
  BY <1>2 DEF DeniedHasNoEffect
<1>5. \A e \in effects : e.step # m + 1 /\ e.step \in 1 .. m + 1
  BY <1>2, <1>4
<1>6. m + 1 \in 1 .. m + 1
  BY <1>2
<1>7. \A e \in effects : e.step \in DOMAIN outcomes' /\ outcomes'[e.step].decision # "Denied"
  BY <1>2, <1>4, <1>5 DEF DeniedHasNoEffect
<1>8. CASE effects' = effects
  BY <1>7, <1>8 DEF DeniedHasNoEffect
<1>9. CASE effects' # effects
  <2>1. effects' = effects \cup {Effect} /\ decision # "Denied"
    BY <1>9
  <2>2. Effect.step \in DOMAIN outcomes' /\ outcomes'[Effect.step].decision # "Denied"
    BY <1>1, <1>2, <1>3, <1>6, <2>1
  <2> QED BY <1>3, <1>5, <1>7, <2>1, <2>2 DEF DeniedHasNoEffect
<1> QED BY <1>8, <1>9

\* A denial at any point of a step keeps what the log tells.
LEMMA DenyLog ==
    ASSUME ControlInv, LogInv, pc \in {"step", "dispatch"}, UNCHANGED mode,
           NEW reason, Deny(reason)
    PROVE  LogInv'
<1> DEFINE event == ToolDenied(call.tool, reason)
<1>1. Record(event) /\ Return("Denied", reason) /\ effects' = effects
  BY DEF Deny
<1>2. event.kind = "ToolDenied" /\ event.tool = call.tool
  BY DEF ToolDenied
<1> HIDE DEF event
<1>3. pc' = "idle"
  BY <1>1 DEF Return
<1>5. AuditTellsOutcomes'
  BY <1>1, <1>2, TellStep DEF LogInv, Verdicts
<1>6. AllowedOnlyAfterAttenuation'
  BY <1>1, <1>2, AllowedStep DEF ControlInv, LogInv
<1>7. DeniedHasNoEffect'
  BY <1>1, EffectStep DEF LogInv
<1> QED BY <1>3, <1>5, <1>6, <1>7 DEF LogInv

\* So does carrying a call out, successfully or not.
LEMMA ExecuteLog ==
    ASSUME ControlInv, LogInv, Execute
    PROVE  LogInv'
<1>0. pc = "execute" /\ UNCHANGED mode
  BY DEF Execute
<1>1. PICK event, decision, reason :
        /\ Record(event) /\ Return(decision, reason)
        /\ event.kind \in Verdicts /\ event.tool = call.tool
        /\ event.kind = "ToolAllowed" <=> decision = "Allowed"
        /\ decision # "Denied"
        /\ effects' \in {effects, effects \cup {Effect}}
  <2>1. CASE /\ effects' = effects \cup {Effect}
             /\ Record(ToolAllowed(call.tool))
             /\ Return("Allowed", "ok")
    <3>1. ToolAllowed(call.tool).kind = "ToolAllowed" /\ ToolAllowed(call.tool).tool = call.tool
      BY DEF ToolAllowed
    <3> QED BY <2>1, <3>1 DEF Verdicts
  <2>2. CASE /\ effects' \in {effects, effects \cup {Effect}}
             /\ Record(ToolDenied(call.tool, "execution error"))
             /\ Return("Errored", "execution error")
    <3> DEFINE event == ToolDenied(call.tool, "execution error")
    <3>1. event.kind = "ToolDenied" /\ event.tool = call.tool
      BY DEF ToolDenied
    <3> HIDE DEF event
    <3> QED BY <2>2, <3>1 DEF Verdicts, event
  <2> QED BY <2>1, <2>2 DEF Execute
<1>2. pc' = "idle"
  BY <1>1 DEF Return
<1>4. AuditTellsOutcomes'
  BY <1>0, <1>1, TellStep DEF LogInv
<1>5. AllowedOnlyAfterAttenuation'
  <2>1. event.kind # "CapabilityAttenuated"
    BY <1>1 DEF Verdicts
  <2> QED BY <1>0, <1>1, <2>1, AllowedStep DEF ControlInv, LogInv
<1>6. DeniedHasNoEffect'
  BY <1>0, <1>1, EffectStep DEF LogInv
<1> QED BY <1>2, <1>4, <1>5, <1>6 DEF LogInv

\* Steps that add no entry, return no outcome and have no effect.
LEMMA QuietLog ==
    ASSUME LogInv, UNCHANGED <<mode, audit_log, outcomes, effects>>,
           pc' \in {"dispatch", "execute"} /\ mode = "Enforced" => pc \in {"dispatch", "execute"}
    PROVE  LogInv'
<1>1. Told' = Told
  BY DEF Told
<1>2. /\ AllowedOnlyAfterAttenuation' /\ DeniedHasNoEffect'
  BY DEF LogInv, AllowedOnlyAfterAttenuation,
         DeniedHasNoEffect
<1>3. AuditTellsOutcomes'
  BY <1>1 DEF LogInv, AuditTellsOutcomes
<1> QED BY <1>2, <1>3 DEF LogInv

\* An entry that is no decision, outside a decision.
LEMMA NoteLog ==
    ASSUME ControlInv, LogInv, NEW event, Record(event),
           event.kind \notin Verdicts,
           mode = "Bypassed" => event.kind # "CapabilityAttenuated",
           UNCHANGED <<mode, outcomes, effects>>,
           pc' \in {"dispatch", "execute"} => event.kind = "CapabilityAttenuated"
    PROVE  LogInv'
<1>1. Told' = Told
  BY RecordStep DEF ControlInv, LogInv
<1>2. /\ AllowedOnlyAfterAttenuation'
      /\ audit_log' # <<>> /\ Last(audit_log').kind = event.kind
  BY AllowedStep DEF ControlInv, LogInv, Verdicts
<1>3. AuditTellsOutcomes'
  BY <1>1 DEF LogInv, AuditTellsOutcomes
<1>4. DeniedHasNoEffect'
  BY DEF LogInv, DeniedHasNoEffect
<1> QED BY <1>1, <1>2, <1>3, <1>4 DEF LogInv

\* Initially nothing has happened.
LEMMA InitInv ==
    ASSUME Init
    PROVE  ControlInv /\ LogInv
<1>1. TypeOK /\ Len(script) <= MaxCalls
  <2>1. script \in Seq(Calls) /\ Len(script) <= MaxCalls
    <3>1. PICK n \in 0 .. MaxCalls : script \in [1 .. n -> Calls]
      BY DEF Init, Scripts
    <3>2. n \in Nat /\ n <= MaxCalls
      BY <3>1, OrchestratorAssumption
    <3>3. script \in Seq(Calls) /\ Len(script) = n
      BY <3>1, <3>2
    <3> QED BY <3>2, <3>3
  <2>2. now \in Time /\ at \in Time
    BY TimeAssumption DEF Init, Time
  <2>3. [resolve |-> resolve, dangling |-> dangling] \in Disk
    <3>1. PICK d \in FsStates : resolve = d.resolve /\ dangling = d.dangling
      BY DEF Init
    <3>2. d \in Disk
      BY OrchestratorAssumption
    <3>3. d = [resolve |-> d.resolve, dangling |-> d.dangling]
      BY <3>2 DEF Disk
    <3> QED BY <3>1, <3>2, <3>3
  <2> QED BY <2>1, <2>2, <2>3 DEF Init, TypeOK, Phases
<1>2. ControlInv
  <2>1. Len(outcomes) = 0 /\ Len(script) \in Nat
    BY <1>1 DEF Init, TypeOK
  <2> QED BY <1>1, <2>1, SequenceOver DEF Init, ControlInv
<1>3. Told = <<>>
  <2>1. {i \in DOMAIN audit_log : audit_log[i].kind \in {"ToolAllowed", "ToolDenied"}} = {}
    BY DEF Init
  <2>2. <<>> \in Seq({}) /\ audit_log = <<>>
    BY DEF Init
  <2> QED BY <2>1, <2>2, PickedNone DEF Told
<1>4. LogInv
  BY <1>3 DEF Init, LogInv, AuditTellsOutcomes,
              AllowedOnlyAfterAttenuation, DeniedHasNoEffect
<1> QED BY <1>2, <1>4

\* Every step keeps control and log.
LEMMA StepInv ==
    ASSUME ControlInv, LogInv, [Next]_vars
    PROVE  ControlInv' /\ LogInv'
<1>1. ASSUME NEW manifest \in Manifests, New(manifest) PROVE ControlInv' /\ LogInv'
  <2>1. ControlInv'
    BY <1>1, NewControl
  <2>2. CASE Record(RootMinted) /\ pc' = "idle"
    <3>1. RootMinted.kind = "RootMinted"
      BY DEF RootMinted
    <3>2. UNCHANGED <<mode, outcomes, effects>>
      BY <1>1 DEF New
    <3> QED BY <2>1, <2>2, <3>1, <3>2, NoteLog DEF Verdicts
  <2>3. CASE pc' = "failed" /\ UNCHANGED audit_log
    BY <1>1, <2>1, <2>3, QuietLog DEF New
  <2> QED BY <1>1, <2>2, <2>3 DEF New
<1>2. CASE TakeCall
  <2>1. /\ UNCHANGED <<mode, now, resolve, dangling, root, audit_log, script, child, outcomes, effects>>
        /\ pc = "idle"
        /\ \/ mode = "Enforced" /\ pc' = "step" /\ at' = now /\ meant' = meant
           \/ mode = "Bypassed" /\ pc' = "execute" /\ at' = at /\ meant' = Target
        /\ CallNonce <= Len(script)
    BY <1>2 DEF TakeCall, Step, environment, disk
  <2>2. Len(outcomes) < Len(script)
    <3>1. Len(outcomes) \in Nat /\ Len(script) \in Nat
      BY AppendSequence DEF ControlInv, TypeOK
    <3> QED BY <2>1, <3>1 DEF CallNonce
  <2>3. TypeOK'
    <3>1. TypeOK /\ call \in Calls
      <4>1. Len(outcomes) \in Nat /\ script \in Seq(Calls)
        BY AppendSequence DEF ControlInv, TypeOK
      <4>2. CallNonce \in 1 .. Len(script)
        BY <2>1, <4>1 DEF CallNonce
      <4> QED BY <4>1, <4>2 DEF ControlInv, call
    <3>2. Target \in Path \cup Binary \cup {NoTarget}
      BY <3>1, TargetObject
    <3> QED BY <2>1, <3>1, <3>2 DEF TypeOK, Phases
  <2>4. ControlInv'
    BY <2>1, <2>2, <2>3 DEF ControlInv, RootSound
  <2> QED BY <2>1, <2>4, QuietLog
<1>3. CASE Finish
  <2>1. /\ UNCHANGED <<mode, now, resolve, dangling, root, audit_log, script, at, child, meant, outcomes, effects>>
        /\ pc = "idle" /\ pc' = "done"
    BY <1>3 DEF Finish, environment, disk, local
  <2>2. TypeOK'
    BY <2>1 DEF ControlInv, TypeOK, Phases
  <2>3. ControlInv'
    BY <2>1, <2>2 DEF ControlInv, RootSound
  <2> QED BY <2>1, <2>3, QuietLog
<1>4. CASE Attenuate
  <2>1. ControlInv'
    BY <1>4, AttenuateControl
  <2>2. pc = "step" /\ UNCHANGED mode
    BY <1>4 DEF Attenuate
  <2>3. CASE \E reason : Deny(reason)
    BY <2>1, <2>2, <2>3, DenyLog
  <2>4. CASE Record(CapabilityAttenuated) /\ UNCHANGED <<outcomes, effects>>
    <3>1. CapabilityAttenuated.kind = "CapabilityAttenuated"
      BY DEF CapabilityAttenuated
    <3>2. mode # "Bypassed"
      BY <2>2 DEF ControlInv
    <3> QED BY <2>1, <2>2, <2>4, <3>1, <3>2, NoteLog DEF Verdicts
  <2> QED BY <1>4, <2>1, <2>3, <2>4 DEF Attenuate
<1>5. CASE Authorize
  <2>1. ControlInv'
    BY <1>5, AuthorizeControl
  <2>2. pc = "dispatch" /\ UNCHANGED mode
    BY <1>5 DEF Authorize
  <2>3. CASE \E reason : Deny(reason)
    BY <2>1, <2>2, <2>3, DenyLog
  <2>4. CASE UNCHANGED <<audit_log, at, child, outcomes, effects>>
    BY <2>1, <2>2, <2>4, QuietLog
  <2> QED BY <1>5, <2>1, <2>3, <2>4 DEF Authorize
<1>6. CASE Execute
  BY <1>6, ExecuteControl, ExecuteLog
<1>7. CASE ClockChange \/ FsChange
  <2>1. UNCHANGED <<mode, audit_log, outcomes, effects, pc>>
    BY <1>7 DEF ClockChange, FsChange
  <2> QED BY <1>7, <2>1, EnvironmentControl, QuietLog
<1>8. CASE UNCHANGED vars
  <2>1. UNCHANGED vars
    BY <1>8
  <2>2. ControlInv'
    BY <2>1 DEF vars, ControlInv, TypeOK, RootSound, ChildSound, call, CallNonce
  <2> QED BY <2>1, <2>2, QuietLog DEF vars
<1> QED BY <1>1, <1>2, <1>3, <1>4, <1>5, <1>6, <1>7, <1>8 DEF Next, Program

\* The inductive invariant of the orchestrator, whatever clock and disk do.
THEOREM Bookkeeping == Spec => [](ControlInv /\ LogInv)
<1>1. Init => ControlInv /\ LogInv
  BY InitInv
<1>2. (ControlInv /\ LogInv) /\ [Next]_vars => (ControlInv /\ LogInv)'
  BY StepInv
<1> QED BY <1>1, <1>2, PTL DEF Spec

\* Type correctness of Orchestrator.
THEOREM OrchestratorTypes == Spec => []TypeOK
<1>1. ControlInv => TypeOK
  BY DEF ControlInv
<1> QED BY <1>1, Bookkeeping, PTL

\* The decisions in the log are the outcomes returned, in order, however many
\* calls there are and whatever becomes of them.
THEOREM LogTellsOutcomes == Spec => []AuditTellsOutcomes
<1>1. LogInv => AuditTellsOutcomes
  BY DEF LogInv
<1> QED BY <1>1, Bookkeeping, PTL

\* step_enforced allows nothing it has not attenuated for immediately before.
THEOREM NothingAllowedUnattenuated == Spec => []AllowedOnlyAfterAttenuation
<1>1. LogInv => AllowedOnlyAfterAttenuation
  BY DEF LogInv
<1> QED BY <1>1, Bookkeeping, PTL

\* A denial returns before any side effect, and no call has two.
THEOREM DenialsHaveNoEffect == Spec => []DeniedHasNoEffect
<1>1. LogInv => DeniedHasNoEffect
  BY DEF LogInv
<1> QED BY <1>1, Bookkeeping, PTL

-----------------------------------------------------------------------------
(* What is reached.                                                        *)

\* What the gate accepts with the child, the root allows.
LEMMA DecisionInScope ==
    ASSUME ControlInv, pc = "dispatch",
           AuthorizeOnly(child, ToRequest(call), CallNonce, now, resolve) = "ok"
    PROVE  Decide(root.permissions, ToRequest(call), resolve)
<1>1. ChildSound /\ root \in Capability /\ call \in Calls /\ resolve \in Resolution
  BY CallServed, DiskTypes DEF ControlInv, TypeOK
<1>2. /\ VerifyAndDecode(child) = "ok"
      /\ Decide(DecodedPermissions(child.token), ToRequest(call), resolve)
  BY AcceptsMeans
<1>3. DecodedPermissions(child.token) = child.permissions
  BY <1>2 DEF VerifyAndDecode
<1>4. /\ child.permissions \in Permissions /\ root.permissions \in Permissions
      /\ PermissionsNarrower(child.permissions, root.permissions)
  BY <1>1 DEF ChildSound, Capability
<1>5. ToRequest(call) \in Request
  BY <1>1, CallRequest
<1> QED BY <1>1, <1>2, <1>3, <1>4, <1>5, DecideMonotone

\* What the decision allows is in scope.
LEMMA DecidedTargetInScope ==
    ASSUME call \in Calls, Decide(root.permissions, ToRequest(call), resolve)
    PROVE  InScope([tool |-> call.tool, reached |-> Target])
<1>2. ToRequest(call).tool = call.tool /\ ToRequest(call).target = call.target
  BY CallRequest
<1>4. CASE call.tool = "fs_read" /\ AllowsRead(root.permissions, resolve, call.target)
  BY <1>4 DEF InScope, Target, FileTools, AllowsRead, CheckedPath
<1>5. CASE call.tool = "fs_write" /\ AllowsWrite(root.permissions, resolve, call.target)
  BY <1>5 DEF InScope, Target, FileTools, AllowsWrite, CheckedPath
<1>6. CASE call.tool = "exec" /\ AllowsExec(root.permissions, call.target)
  BY <1>6 DEF InScope, Target, FileTools, AllowsExec
<1> QED BY <1>2, <1>4, <1>5, <1>6 DEF Decide

\* What execute reaches is an object, and the one the call was let through for
\* unless a file tool strayed.
LEMMA EffectObject ==
    ASSUME ControlInv, ScopeInv, pc = "execute"
    PROVE  /\ MeantBy(Effect) = Aim
           /\ ObjectOf(Effect) = [tool |-> call.tool, reached |-> Reached]
           /\ ObjectOf(Effect) \in Object
           /\ Effect.step = CallNonce /\ Effect.strayed = Strayed /\ Effect.call = call
           /\ ObjectOf(Effect) = Aim \/ (Strayed /\ call.tool \in FileTools)
           /\ Strayed => call.tool \in FileTools
<1>1. call \in Calls /\ call \in ToolCall /\ TypeOK
  BY CallServed DEF ControlInv
<1>2. /\ MeantBy(Effect) = Aim
      /\ ObjectOf(Effect) = [tool |-> call.tool, reached |-> Reached]
      /\ Effect.step = CallNonce /\ Effect.strayed = Strayed /\ Effect.call = call
  BY DEF MeantBy, ObjectOf, Effect, Aim
<1>3. /\ [tool |-> call.tool, reached |-> Target] \in Object
      /\ call.tool \notin FileTools => Target = call.target
  BY <1>1, TargetObject
<1>4. [tool |-> call.tool, reached |-> Reached] \in Object
  <2>1. CASE ThroughDanglingLink
    <3>1. Reached \in Path /\ call.tool = "fs_write"
      BY <1>1, <2>1, DiskTypes DEF Reached, ThroughDanglingLink
    <3> QED BY <3>1 DEF Object
  <2>2. CASE ~ThroughDanglingLink
    BY <1>3, <2>2 DEF Reached
  <2> QED BY <2>1, <2>2
<1>5. Strayed => call.tool \in FileTools
  BY <1>3 DEF Strayed, ThroughDanglingLink, FileTools, ScopeInv
<1>6. ~Strayed => Reached = meant
  BY DEF Strayed, Reached
<1> QED BY <1>2, <1>4, <1>5, <1>6 DEF Aim

\* Every step keeps the scope.
LEMMA ScopeStep ==
    ASSUME ControlInv, ScopeInv, [Next]_vars
    PROVE  ScopeInv'
<1>1. ASSUME NEW manifest \in Manifests, New(manifest) PROVE ScopeInv'
  <2>1. effects' = {} /\ pc' # "execute"
    BY <1>1 DEF New, ControlInv
  <2> QED BY <2>1 DEF ScopeInv, EffectsInScope
<1>0. ASSUME UNCHANGED <<mode, root, effects>> PROVE EffectsInScope'
  BY <1>0 DEF ScopeInv, EffectsInScope, InScope, MeantBy, ObjectOf
<1>2. CASE TakeCall
  <2>1. /\ UNCHANGED <<mode, root, effects, script, outcomes>>
        /\ \/ mode = "Enforced" /\ pc' = "step"
           \/ mode = "Bypassed" /\ pc' = "execute" /\ meant' = Target
        /\ CallNonce <= Len(script)
    BY <1>2 DEF TakeCall, Step
  <2>2. call \in Calls /\ call' = call
    <3>1. Len(outcomes) \in Nat /\ script \in Seq(Calls)
      BY AppendSequence DEF ControlInv, TypeOK
    <3>2. CallNonce \in 1 .. Len(script)
      BY <2>1, <3>1 DEF CallNonce
    <3> QED BY <2>1, <3>1, <3>2 DEF call, CallNonce
  <2>3. /\ [tool |-> call.tool, reached |-> Target] \in Object
        /\ call.tool \notin FileTools => Target = call.target
    BY <2>2, TargetObject DEF ControlInv
  <2>4. EffectsInScope'
    BY <1>0, <2>1
  <2>5. CASE pc' = "step"
    BY <2>4, <2>5 DEF ScopeInv
  <2>6. CASE pc' = "execute"
    <3>1. Aim' = [tool |-> call.tool, reached |-> Target] /\ mode' # "Enforced"
      BY <2>1, <2>2, <2>6 DEF Aim
    <3>2. Object' = Object
      BY DEF Object
    <3> QED BY <2>1, <2>2, <2>3, <2>4, <2>6, <3>1, <3>2 DEF ScopeInv
  <2> QED BY <2>1, <2>5, <2>6
<1>3. CASE Finish \/ Attenuate
  <2>1. UNCHANGED <<mode, root, effects>> /\ pc' # "execute"
    BY <1>3 DEF Finish, Attenuate, Deny, Return
  <2> QED BY <1>0, <2>1 DEF ScopeInv
<1>4. CASE Authorize
  <2>1. pc = "dispatch" /\ UNCHANGED <<mode, root, effects, script, resolve>>
    BY <1>4 DEF Authorize, Deny, environment, disk
  <2>2. EffectsInScope'
    BY <1>0, <2>1
  <2>3. CASE pc' # "execute"
    BY <2>2, <2>3 DEF ScopeInv
  <2>4. CASE pc' = "execute"
    <3>1. /\ AuthorizeOnly(child, ToRequest(call), CallNonce, now, resolve) = "ok"
          /\ UNCHANGED outcomes /\ meant' = Target
      BY <1>4, <2>4 DEF Authorize, Deny, Return
    <3>2. call \in Calls /\ call' = call
      BY <2>1, <3>1, CallServed DEF call, CallNonce
    <3>3. InScope([tool |-> call.tool, reached |-> Target])
      BY <2>1, <3>1, <3>2, DecisionInScope, DecidedTargetInScope
    <3>4. /\ [tool |-> call.tool, reached |-> Target] \in Object
          /\ call.tool \notin FileTools => Target = call.target
      BY <3>2, TargetObject DEF ControlInv
    <3>5. Aim' = [tool |-> call.tool, reached |-> Target]
      BY <3>1, <3>2 DEF Aim
    <3>6. InScope(Aim)'
      BY <2>1, <3>3, <3>5 DEF InScope
    <3> QED BY <2>2, <3>1, <3>2, <3>4, <3>5, <3>6 DEF ScopeInv
  <2> QED BY <2>3, <2>4
<1>5. CASE Execute
  <2>1. /\ pc = "execute" /\ UNCHANGED <<mode, root>> /\ pc' = "idle"
        /\ effects' \subseteq effects \cup {Effect}
    BY <1>5 DEF Execute, Return
  <2>2. mode = "Enforced" =>
          /\ InScope(MeantBy(Effect))
          /\ InScope(ObjectOf(Effect)) \/ (Effect.strayed /\ Effect.call.tool \in FileTools)
    BY <2>1, EffectObject DEF ScopeInv
  <2>3. mode = "Enforced" =>
          \A e \in effects' :
            /\ InScope(MeantBy(e))
            /\ InScope(ObjectOf(e)) \/ (e.strayed /\ e.call.tool \in FileTools)
    BY <2>1, <2>2 DEF ScopeInv, EffectsInScope
  <2>4. EffectsInScope'
    BY <2>1, <2>3 DEF EffectsInScope, InScope, MeantBy, ObjectOf
  <2> QED BY <2>1, <2>4 DEF ScopeInv
<1>6. CASE ClockChange \/ FsChange \/ UNCHANGED vars
  <2>1. UNCHANGED <<mode, root, effects, pc, script, outcomes, meant>>
    BY <1>6 DEF ClockChange, FsChange, local, vars
  <2>2. call' = call
    BY <2>1 DEF call, CallNonce
  <2>3. Aim' = Aim
    BY <2>1, <2>2 DEF Aim
  <2> QED BY <1>0, <2>1, <2>2, <2>3 DEF ScopeInv, InScope
<1> QED BY <1>1, <1>2, <1>3, <1>4, <1>5, <1>6 DEF Next, Program

\* Under enforcement nothing outside the scope minted from the manifest is ever
\* let through, however clock and disk move between attenuation, decision and
\* effect, and nothing outside it is reached but by a file tool that strayed.
THEOREM EffectsStayInScope == Spec => []EffectsInScope
<1>1. Init => ScopeInv
  BY DEF Init, ScopeInv, EffectsInScope
<1>2. ControlInv /\ ScopeInv /\ [Next]_vars => ScopeInv'
  BY ScopeStep
<1>3. ScopeInv => EffectsInScope
  BY DEF ScopeInv
<1> QED BY <1>1, <1>2, <1>3, Bookkeeping, PTL DEF Spec

-----------------------------------------------------------------------------
(* Why a call in scope is refused.                                         *)

\* The reason a denial returns.
LEMMA DenyReason ==
    ASSUME ControlInv, NEW reason, Deny(reason)
    PROVE  Last(outcomes').reason = reason
<1> DEFINE outcome == [call |-> call, decision |-> "Denied", reason |-> reason]
<1>1. outcomes' = Append(outcomes, outcome) /\ outcome.reason = reason
  BY DEF Deny, Return
<1> HIDE DEF outcome
<1> QED BY <1>1, AppendSequence DEF ControlInv, Last

\* Roots that have not moved are contained in themselves.
LEMMA UnmovedRootsContained ==
    ASSUME NEW res \in Resolution, NEW roots \in SUBSET SafePath, CheckedPaths(res, roots) = roots
    PROVE  ContainsAllRoots(roots, res, roots)
<1> SUFFICES ASSUME NEW r \in roots
             PROVE  PathIsSafe(r) /\ \E w \in roots : StartsWith(res[r], w)
  BY DEF ContainsAllRoots, IsUnderAnyRoot, CheckedPath
<1>1. res[r] \in roots
  BY DEF CheckedPaths, CheckedPath
<1>2. res[r] \in Seq(Name)
  BY <1>1, PathAssumption
<1> QED BY <1>1, <1>2, StartsWithReflexive DEF PathIsSafe

\* validate_attenuation refuses the root's own scope only for want of time or
\* because a root moved.
LEMMA ValidationRefuses ==
    ASSUME ControlInv, pc = "step",
           NEW verdict, verdict = ValidateAttenuation(root, ChildRequest, at, resolve),
           verdict # "ok"
    PROVE  \/ verdict \in {"TtlWidened", "TtlOverflow"} /\ at + CHILD_TTL_SECONDS > root.expires_at
           \/ /\ verdict = "ReadScopeWidened"
              /\ CheckedPaths(resolve, root.permissions.readable_roots) # root.permissions.readable_roots
           \/ /\ verdict = "WriteScopeWidened"
              /\ CheckedPaths(resolve, root.permissions.writable_roots) # root.permissions.writable_roots
<1> DEFINE readable == root.permissions.readable_roots
           writable == root.permissions.writable_roots
<1>1. readable \in SUBSET SafePath /\ writable \in SUBSET SafePath /\ resolve \in Resolution
  BY DiskTypes DEF ControlInv, RootSound, TypeOK
<1>2. /\ ChildRequest.readable_roots = readable /\ ChildRequest.writable_roots = writable
      /\ ChildRequest.exec_binaries = root.permissions.exec_binaries
      /\ ChildRequest.ttl_seconds = CHILD_TTL_SECONDS
  BY DEF ChildRequest
<1>3. ContainsAllExec(root.permissions, ChildRequest.exec_binaries)
  BY <1>2 DEF ContainsAllExec
<1>4. \/ ExpiryResult(at, ChildRequest.ttl_seconds) = "ok"
      \/ /\ ExpiryResult(at, ChildRequest.ttl_seconds) = "TtlOverflow"
         /\ at + CHILD_TTL_SECONDS > root.expires_at
  <2>0. /\ root.expires_at \in Nat /\ root.expires_at <= TimeMax /\ TimeMax \in Nat
        /\ at \in Nat /\ CHILD_TTL_SECONDS \in Nat
    BY OrchestratorAssumption, TimeAssumption DEF ControlInv, RootSound, TypeOK, Capability, Time
  <2>1. ~(CHILD_TTL_SECONDS > I64Max) /\ ~(CHILD_TTL_SECONDS > DurationMax)
    BY OrchestratorAssumption, TimeAssumption
  <2> QED BY <1>2, <2>0, <2>1 DEF ExpiryResult
<1>5. ~ContainsAllRoots(readable, resolve, readable) => CheckedPaths(resolve, readable) # readable
  BY <1>1, UnmovedRootsContained
<1>6. ~ContainsAllRoots(writable, resolve, writable) => CheckedPaths(resolve, writable) # writable
  BY <1>1, UnmovedRootsContained
<1>7. CheckedExpiresAt(at, ChildRequest.ttl_seconds) = at + CHILD_TTL_SECONDS
  BY <1>2 DEF CheckedExpiresAt
<1> QED BY <1>2, <1>3, <1>4, <1>5, <1>6, <1>7 DEF ValidateAttenuation

\* The gate refuses the child made for this very call only for want of time,
\* because its scope is not the root's, or because a root is not UTF-8.
LEMMA GateRefuses ==
    ASSUME ControlInv, pc = "dispatch",
           Decide(root.permissions, ToRequest(call), resolve),
           NEW verdict, verdict = AuthorizeOnly(child, ToRequest(call), CallNonce, now, resolve),
           verdict # "ok"
    PROVE  \/ verdict = "Expired" /\ at + CHILD_TTL_SECONDS <= now
           \/ verdict = "SignatureChain" /\ at + CHILD_TTL_SECONDS > Rfc3339Max
           \/ verdict = "Denied" /\ child.permissions # root.permissions
           \/ verdict = "StateTampered" /\ ~IsText(child.permissions)
<1> DEFINE binding == RequestBindingFor(ToRequest(call), CallNonce)
<1>1. /\ child \in Capability /\ Coherent(root, child) /\ root \in Capability
      /\ Len(child.caveats) = 1 /\ child.caveats[1].request_binding = binding
      /\ CallNonce # NoNonce /\ CallNonce \in Nonce /\ call \in Calls
  BY CallServed DEF ControlInv, ChildSound
<1>2. binding # NoBinding
  BY <1>1, CallRequest, BindingAssumption DEF RequestBindingFor, RequestBinding
<1>3. child.caveats \in Seq(Caveat) /\ child.caveats # <<>> /\ DOMAIN child.caveats = {1}
  <2>1. child.caveats \in Seq(Caveat)
    BY <1>1 DEF Capability
  <2> QED BY <1>1, <2>1
<1> HIDE DEF binding
<1>4. MirrorBinding(child.caveats) = binding
  <2>1. {i \in DOMAIN child.caveats : child.caveats[i].request_binding # NoBinding} = {1}
    BY <1>1, <1>2, <1>3
  <2>2. Max({1}) = 1
    BY DEF Max
  <2> QED BY <1>1, <2>1, <2>2 DEF MirrorBinding
<1>5. /\ DecodedPermissions(child.token) =
            [readable_roots |-> LossyPaths(child.permissions.readable_roots),
             writable_roots |-> LossyPaths(child.permissions.writable_roots),
             exec_binaries  |-> child.permissions.exec_binaries]
      /\ DecodedExpiresAt(child.token) = child.expires_at
      /\ DecodedBinding(child.token) = binding
  BY <1>1, <1>3, DecodedChild DEF Last
<1>e. child.expires_at = at + CHILD_TTL_SECONDS
  BY DEF ControlInv, ChildSound
<1>6. IsText(child.permissions) => DecodedPermissions(child.token) = child.permissions
  <2> SUFFICES ASSUME IsText(child.permissions)
               PROVE  DecodedPermissions(child.token) = child.permissions
    OBVIOUS
  <2>1. /\ LossyPaths(child.permissions.readable_roots) = child.permissions.readable_roots
        /\ LossyPaths(child.permissions.writable_roots) = child.permissions.writable_roots
    BY DEF IsText, LossyPaths
  <2>2. child.permissions \in Permissions
    BY <1>1 DEF Capability
  <2> QED BY <1>5, <2>1, <2>2 DEF Permissions
<1>7. CASE VerifyAndDecode(child) = "TokenStateMismatch"
  <2>1. verdict = "StateTampered"
    BY <1>7 DEF AuthorizeOnly, Verify
  <2>2. DecodedPermissions(child.token) # child.permissions
    BY <1>4, <1>5, <1>7 DEF VerifyAndDecode
  <2> QED BY <1>6, <2>1, <2>2
<1>8. CASE VerifyAndDecode(child) = "Biscuit"
  <2>1. verdict = "SignatureChain"
    BY <1>8 DEF AuthorizeOnly, Verify
  <2>2. DecodeResult(child.token) # "ok"
    BY <1>8 DEF VerifyAndDecode
  <2> QED BY <1>5, <1>e, <2>1, <2>2 DEF DecodeResult
<1>9. CASE VerifyAndDecode(child) = "ok"
  <2>1. DecodedPermissions(child.token) = child.permissions
    BY <1>9 DEF VerifyAndDecode
  <2>2. \/ Verify(child, now, binding) = "ok"
        \/ Verify(child, now, binding) = "Expired" /\ at + CHILD_TTL_SECONDS <= now
    BY <1>5, <1>9, <1>e DEF Verify
  <2>3. verdict = IF Verify(child, now, binding) # "ok" THEN Verify(child, now, binding)
                  ELSE IF Decide(DecodedPermissions(child.token), ToRequest(call), resolve)
                  THEN "ok" ELSE "Denied"
    BY <1>1 DEF AuthorizeOnly, binding
  <2> QED BY <2>1, <2>2, <2>3
<1> QED BY <1>7, <1>8, <1>9 DEF VerifyAndDecode

\* Every step that refuses a call in scope has one of the causes named.
LEMMA RefusalStep ==
    ASSUME ControlInv, [Next]_vars
    PROVE  [RefusalHasCause]_vars
<1>1. ASSUME outcomes' = outcomes PROVE RefusalHasCause
  <2>1. ~(Len(outcomes') > Len(outcomes))
    BY <1>1, AppendSequence DEF ControlInv
  <2> QED BY <2>1 DEF RefusalHasCause
<1>2. CASE Attenuate
  <2>1. pc = "step"
    BY <1>2 DEF Attenuate
  <2>2. CASE UNCHANGED outcomes
    BY <1>1, <2>2
  <2>3. ASSUME NEW verdict, verdict = ValidateAttenuation(root, ChildRequest, at, resolve),
               verdict # "ok", Deny(verdict)
        PROVE  RefusalHasCause
    <3>1. Last(outcomes').reason = verdict
      BY <2>3, DenyReason
    <3> QED BY <2>1, <2>3, <3>1, ValidationRefuses DEF RefusalHasCause
  <2> QED BY <1>2, <2>2, <2>3 DEF Attenuate
<1>3. CASE Authorize
  <2>1. pc = "dispatch"
    BY <1>3 DEF Authorize
  <2>2. CASE UNCHANGED outcomes
    BY <1>1, <2>2
  <2>3. ASSUME NEW verdict, verdict = AuthorizeOnly(child, ToRequest(call), CallNonce, now, resolve),
               verdict # "ok", Deny(verdict)
        PROVE  RefusalHasCause
    <3>1. Last(outcomes').reason = verdict
      BY <2>3, DenyReason
    <3> QED BY <2>1, <2>3, <3>1, GateRefuses DEF RefusalHasCause
  <2>4. CASE Deny("DatalogLimits")
    <3>1. Last(outcomes').reason = "DatalogLimits"
      BY <2>4, DenyReason
    <3> QED BY <3>1 DEF RefusalHasCause
  <2> QED BY <1>3, <2>2, <2>3, <2>4 DEF Authorize
<1>4. CASE Execute
  <2>1. PICK decision \in {"Allowed", "Errored"}, reason \in {"ok", "execution error"} :
           Return(decision, reason)
    BY <1>4 DEF Execute
  <2> DEFINE outcome == [call |-> call, decision |-> decision, reason |-> reason]
  <2>2. outcomes' = Append(outcomes, outcome) /\ outcome.decision # "Denied"
    BY <2>1 DEF Return
  <2> HIDE DEF outcome
  <2>3. Len(outcomes') = Len(outcomes) + 1 /\ outcomes'[Len(outcomes) + 1] = outcome
    BY <2>2, AppendSequence DEF ControlInv
  <2>4. Last(outcomes') = outcome
    BY <2>3 DEF Last
  <2> QED BY <2>2, <2>4 DEF RefusalHasCause
<1>5. CASE UNCHANGED outcomes
  BY <1>1, <1>5
<1>6. [Next]_vars => Attenuate \/ Authorize \/ Execute \/ UNCHANGED outcomes
  BY DEF Next, Program, New, TakeCall, Finish, ClockChange, FsChange, vars
<1> QED BY <1>2, <1>3, <1>4, <1>5, <1>6

\* A call in scope is refused only for one of the causes named, in every run.
THEOREM RefusalsHaveCauses == Spec => RefusedInScopeOnlyForCause
<1>1. ControlInv /\ [Next]_vars => [RefusalHasCause]_vars
  BY RefusalStep
<1> QED BY <1>1, Bookkeeping, PTL DEF Spec, RefusedInScopeOnlyForCause

-----------------------------------------------------------------------------
(* The refinement: every step is a step of Enforcement or stutters.        *)

Answers == [i \in DOMAIN outcomes |-> outcomes[i].decision]

Deed(e) ==
    [step |-> e.step, meant |-> MeantBy(e), object |-> ObjectOf(e), strayed |-> e.strayed]

Touched == {[step |-> e.step, meant |-> MeantBy(e), object |-> ObjectOf(e),
             strayed |-> e.strayed] : e \in effects}

\* Returning a decision as it is recorded is answering one call.
LEMMA AnswerPromise ==
    ASSUME ControlInv, LogInv, pc \in {"step", "dispatch", "execute"},
           NEW event, event.kind \in Verdicts, event.tool = call.tool, Record(event),
           NEW decision, NEW reason, Return(decision, reason),
           event.kind = "ToolAllowed" <=> decision = "Allowed",
           UNCHANGED <<mode, root, script>>
    PROVE  Promise!Answer(decision)
<1> DEFINE m == Len(outcomes)
           outcome == [call |-> call, decision |-> decision, reason |-> reason]
           line == [tool |-> call.tool, allowed |-> decision = "Allowed"]
<1>1. /\ outcomes' = Append(outcomes, outcome) /\ pc' = "idle"
      /\ outcome.decision = decision
  BY DEF Return
<1>2. /\ m \in Nat /\ DOMAIN outcomes = 1 .. m /\ CallNonce = m + 1
      /\ CallNonce \in 1 .. Len(script)
  BY CallServed
<1> HIDE DEF outcome
<1>3. /\ DOMAIN outcomes' = 1 .. m + 1
      /\ \A i \in 1 .. m : outcomes'[i] = outcomes[i]
      /\ outcomes'[m + 1] = outcome
  BY <1>1, AppendSequence DEF ControlInv
<1>4. Answers' = Append(Answers, decision) /\ Len(Answers) = m
  <2>1. IsSequence(Answers) /\ Len(Answers) = m
    BY <1>2, FunctionSequence DEF Answers
  <2>2. DOMAIN Answers' = 1 .. m + 1 /\ Answers' = [i \in 1 .. m + 1 |-> Answers'[i]]
    BY <1>3 DEF Answers
  <2>3. IsSequence(Answers') /\ Len(Answers') = m + 1
    BY <1>2, <2>2, FunctionSequence
  <2>4. \A i \in 1 .. m : i \in 1 .. m + 1
    BY <1>2
  <2>5. m + 1 \in 1 .. m + 1
    BY <1>2
  <2>6. \A i \in 1 .. m : Answers'[i] = Answers[i]
    BY <1>2, <1>3, <2>4 DEF Answers
  <2>7. Answers'[m + 1] = decision
    BY <1>1, <1>3, <2>5 DEF Answers
  <2> QED BY <2>1, <2>3, <2>6, <2>7, IsAppend
<1>5. IsSequence(Told) /\ Told' = Append(Told, event)
  BY RecordStep DEF ControlInv, LogInv
<1>6. Len(Told) = m
  BY DEF LogInv, AuditTellsOutcomes
<1>7. /\ DOMAIN Told = 1 .. m /\ DOMAIN Told' = 1 .. m + 1
      /\ \A i \in 1 .. m : Told'[i] = Told[i]
      /\ Told'[m + 1] = event
  BY <1>5, <1>6, AppendSequence
<1>8. Journal' = Append(Journal, line)
  <2>1. Journal = [i \in 1 .. m |-> [tool |-> Told[i].tool,
                                     allowed |-> Told[i].kind = "ToolAllowed"]]
    BY <1>7 DEF Journal
  <2>2. Journal' = [i \in 1 .. m + 1 |-> [tool |-> Told'[i].tool,
                                          allowed |-> Told'[i].kind = "ToolAllowed"]]
    BY <1>7 DEF Journal
  <2>3. IsSequence(Journal) /\ Len(Journal) = m
    <3>1. DOMAIN Journal = 1 .. m /\ Journal = [i \in 1 .. m |-> Journal[i]]
      BY <2>1
    <3> QED BY <1>2, <3>1, FunctionSequence
  <2>4. IsSequence(Journal') /\ Len(Journal') = m + 1
    <3>1. DOMAIN Journal' = 1 .. m + 1 /\ Journal' = [i \in 1 .. m + 1 |-> Journal'[i]]
      BY <2>2
    <3> QED BY <1>2, <3>1, FunctionSequence
  <2>5. \A i \in 1 .. m : i \in 1 .. m + 1
    BY <1>2
  <2>6. m + 1 \in 1 .. m + 1
    BY <1>2
  <2>7. \A i \in 1 .. m : Journal'[i] = Journal[i]
    BY <1>7, <2>1, <2>2, <2>5
  <2>8. Journal'[m + 1] = line
    <3>1. Journal'[m + 1] = [tool |-> event.tool, allowed |-> event.kind = "ToolAllowed"]
      BY <1>7, <2>2, <2>6
    <3>2. event.tool = call.tool
      OBVIOUS
    <3>3. (event.kind = "ToolAllowed") = (decision = "Allowed")
      OBVIOUS
    <3> QED BY <3>1, <3>2, <3>3
  <2> QED BY <2>3, <2>4, <2>7, <2>8, IsAppend
<1>9. Status = "running" /\ Status' = "running"
  BY <1>1 DEF Status
<1>10. Granted' = Granted
  BY DEF Granted, InScope
<1>11. Promise!Turn = m + 1 /\ script[m + 1] = call /\ m + 1 <= Len(script)
  <2>1. script \in Seq(Calls)
    BY DEF ControlInv, TypeOK
  <2>2. Len(script) \in Nat
    BY <2>1
  <2>3. m + 1 <= Len(script)
    BY <1>2, <2>2
  <2>4. Promise!Turn = m + 1
    BY <1>4 DEF Promise!Turn, Answers
  <2> QED BY <1>2, <2>3, <2>4 DEF call
<1> QED BY <1>4, <1>8, <1>9, <1>10, <1>11 DEF Promise!Answer, Answers

\* A denial is Enforcement's.
LEMMA DenyPromise ==
    ASSUME ControlInv, LogInv, pc \in {"step", "dispatch"},
           NEW reason, Deny(reason), UNCHANGED <<mode, root, script>>
    PROVE  Promise!Deny
<1> DEFINE event == ToolDenied(call.tool, reason)
<1>1. Record(event) /\ Return("Denied", reason) /\ effects' = effects
  BY DEF Deny
<1>2. event.kind = "ToolDenied" /\ event.tool = call.tool
  BY DEF ToolDenied
<1> HIDE DEF event
<1>3. Promise!Answer("Denied")
  BY <1>1, <1>2, AnswerPromise DEF Verdicts
<1>4. Touched' = Touched
  BY <1>1 DEF Touched, ObjectOf, MeantBy
<1> QED BY <1>3, <1>4 DEF Promise!Deny, Touched

\* The side effect of a call was meant for an object that was granted.
LEMMA TouchPromise ==
    ASSUME ControlInv, ScopeInv, pc = "execute",
           effects' = effects \cup {Effect}
    PROVE  Promise!Act
<1> DEFINE hit == ObjectOf(Effect)
           deed == [step |-> CallNonce, meant |-> Aim, object |-> hit, strayed |-> Strayed]
<1>1. /\ call \in Calls /\ root \in Capability
      /\ DOMAIN outcomes = 1 .. Len(outcomes) /\ Len(outcomes) \in Nat
  BY CallServed
<1>2. /\ MeantBy(Effect) = Aim /\ hit \in Object
      /\ Effect.step = CallNonce /\ Effect.strayed = Strayed
      /\ hit = Aim \/ Strayed
      /\ Strayed => call.tool \in FileTools
      /\ hit.tool = call.tool /\ Aim.tool = call.tool
  BY EffectObject DEF Aim
<1>3. Aim \in Granted
  <2>1. Aim \in Object /\ (mode = "Bypassed" \/ InScope(Aim))
    BY DEF ScopeInv, ControlInv, TypeOK
  <2>2. root # NoRoot
    BY <1>1, OrchestratorAssumption
  <2> QED BY <2>1, <2>2 DEF Granted
<1>4. Strayed \in BOOLEAN
  BY DEF Strayed
<1>5. Promise!Turn = CallNonce /\ script[CallNonce] = call
  <2>1. Len(Answers) = Len(outcomes)
    BY <1>1, FunctionSequence DEF Answers
  <2> QED BY <2>1 DEF Promise!Turn, Answers, CallNonce, call
<1>6. Touched' = Touched \cup {deed}
  <2>1. Touched' = {Deed(e) : e \in effects \cup {Effect}}
    BY DEF Touched, Deed, ObjectOf, MeantBy
  <2>2. Touched = {Deed(e) : e \in effects}
    BY DEF Touched, Deed
  <2>3. Deed(Effect) = deed
    BY <1>2 DEF Deed
  <2> HIDE DEF deed
  <2> QED BY <2>1, <2>2, <2>3
<1> HIDE DEF hit
<1>7. Promise!Touch(Aim, hit, Strayed)
  BY <1>2, <1>5, <1>6 DEF Promise!Touch, Touched, FileTools
<1> QED BY <1>2, <1>3, <1>4, <1>7 DEF Promise!Act, Promise!Touch, Touched

\* Carrying a call out is Enforcement's Perform or Fail.
LEMMA ExecutePromise ==
    ASSUME ControlInv, LogInv, ScopeInv, Execute
    PROVE  Promise!Perform \/ Promise!Fail
<1>0. pc = "execute" /\ UNCHANGED <<mode, root, script>>
  BY DEF Execute
<1>1. CASE /\ effects' = effects \cup {Effect}
           /\ Record(ToolAllowed(call.tool))
           /\ Return("Allowed", "ok")
  <2> DEFINE event == ToolAllowed(call.tool)
  <2>1. event.kind = "ToolAllowed" /\ event.tool = call.tool /\ Record(event)
    BY <1>1 DEF ToolAllowed
  <2> HIDE DEF event
  <2>2. Promise!Answer("Allowed")
    BY <1>0, <1>1, <2>1, AnswerPromise DEF Verdicts
  <2>3. Promise!Act
    BY <1>0, <1>1, TouchPromise
  <2> QED BY <2>2, <2>3 DEF Promise!Perform
<1>2. CASE /\ effects' \in {effects, effects \cup {Effect}}
           /\ Record(ToolDenied(call.tool, "execution error"))
           /\ Return("Errored", "execution error")
  <2> DEFINE event == ToolDenied(call.tool, "execution error")
  <2>1. event.kind = "ToolDenied" /\ event.tool = call.tool /\ Record(event)
    BY <1>2 DEF ToolDenied
  <2> HIDE DEF event
  <2>2. Promise!Answer("Errored")
    <3>1. /\ event.kind \in Verdicts
          /\ event.kind = "ToolAllowed" <=> "Errored" = "Allowed"
      BY <2>1 DEF Verdicts
    <3>2. Return("Errored", "execution error")
      BY <1>2
    <3> QED BY <1>0, <2>1, <3>1, <3>2, AnswerPromise
  <2>3. CASE effects' = effects
    <3>1. Touched' = Touched
      BY <2>3 DEF Touched, ObjectOf, MeantBy
    <3> QED BY <2>2, <3>1 DEF Promise!Fail, Touched
  <2>4. CASE effects' = effects \cup {Effect}
    <3>1. Promise!Act
      BY <1>0, <2>4, TouchPromise
    <3> QED BY <2>2, <3>1 DEF Promise!Fail
  <2> QED BY <1>2, <2>3, <2>4
<1> QED BY <1>1, <1>2 DEF Execute

\* Steps inside a call, and the clock and the disk, are not seen.
LEMMA QuietPromise ==
    ASSUME UNCHANGED <<mode, root, audit_log, script, outcomes, effects>>,
           Status' = Status
    PROVE  UNCHANGED Promise!vars
<1>1. Told' = Told
  BY DEF Told
<1>2. Journal' = Journal
  BY <1>1 DEF Journal
<1>3. Granted' = Granted
  BY DEF Granted, InScope
<1>4. Touched' = Touched /\ Answers' = Answers
  BY DEF Touched, ObjectOf, MeantBy, Answers
<1> QED BY <1>2, <1>3, <1>4 DEF Promise!vars, Touched, Answers

\* Every step maps to a step of Enforcement or to none.
LEMMA PromiseStep ==
    ASSUME ControlInv, LogInv, ScopeInv, [Next]_vars
    PROVE  [Promise!Next]_(Promise!vars)
<1> USE DEF Promise!Next
<1>1. ASSUME NEW manifest \in Manifests, New(manifest) PROVE Promise!Start \/ Promise!Refuse
  <2>0. Status = "starting" /\ UNCHANGED <<mode, script, outcomes, effects>>
    BY <1>1 DEF New, Status
  <2>1. Touched' = Touched /\ Answers' = Answers
    BY <2>0 DEF Touched, ObjectOf, MeantBy, Answers
  <2>2. CASE Record(RootMinted) /\ pc' = "idle"
    <3>1. Told' = Told
      <4>1. RootMinted.kind \notin Verdicts
        BY DEF RootMinted, Verdicts
      <4> QED BY <2>2, <4>1, RecordStep DEF ControlInv, LogInv
    <3>2. Journal' = Journal
      BY <3>1 DEF Journal
    <3>3. Granted' \subseteq Object
      BY DEF Granted, Object
    <3>4. Status' = "running"
      BY <2>2 DEF Status
    <3> QED BY <2>0, <2>1, <3>2, <3>3, <3>4 DEF Promise!Start, Touched, Answers
  <2>3. CASE pc' = "failed" /\ UNCHANGED <<root, audit_log>>
    <3>1. Told' = Told
      BY <2>3 DEF Told
    <3>2. Journal' = Journal
      BY <3>1 DEF Journal
    <3>3. Granted' = Granted
      BY <2>0, <2>3 DEF Granted, InScope
    <3>4. Status' = "refused"
      BY <2>3 DEF Status
    <3> QED BY <2>0, <2>1, <3>2, <3>3, <3>4 DEF Promise!Refuse, Touched, Answers
  <2> QED BY <1>1, <2>2, <2>3 DEF New
<1>2. CASE TakeCall
  <2>1. UNCHANGED <<mode, root, audit_log, script, outcomes, effects>> /\ Status' = Status
    BY <1>2 DEF TakeCall, Step, Status
  <2> QED BY <2>1, QuietPromise
<1>3. CASE Finish
  <2>1. /\ UNCHANGED <<mode, root, audit_log, script, outcomes, effects>>
        /\ Status = "running" /\ Status' = "ended" /\ CallNonce > Len(script)
    BY <1>3 DEF Finish, Status
  <2>2. Journal' = Journal
    <3>1. Told' = Told
      BY <2>1 DEF Told
    <3> QED BY <3>1 DEF Journal
  <2>3. Granted' = Granted
    BY <2>1 DEF Granted, InScope
  <2>4. Touched' = Touched /\ Answers' = Answers
    BY <2>1 DEF Touched, ObjectOf, MeantBy, Answers
  <2>5. Promise!Turn = CallNonce
    <3>1. Len(outcomes) \in Nat /\ DOMAIN outcomes = 1 .. Len(outcomes)
      BY AppendSequence DEF ControlInv
    <3>2. Len(Answers) = Len(outcomes)
      BY <3>1, FunctionSequence DEF Answers
    <3> QED BY <3>2 DEF Promise!Turn, Answers, CallNonce
  <2>6. Promise!End
    BY <2>1, <2>2, <2>3, <2>4, <2>5 DEF Promise!End, Touched, Answers
  <2> QED BY <2>6
<1>4. CASE Attenuate
  <2>1. pc = "step" /\ UNCHANGED <<mode, root, script>>
    BY <1>4 DEF Attenuate
  <2>2. ASSUME NEW reason, Deny(reason) PROVE Promise!Deny
    BY <2>1, <2>2, DenyPromise
  <2>3. CASE Record(CapabilityAttenuated) /\ pc' = "dispatch" /\ UNCHANGED <<outcomes, effects>>
    <3>1. Told' = Told
      <4>1. CapabilityAttenuated.kind \notin Verdicts
        BY DEF CapabilityAttenuated, Verdicts
      <4> QED BY <2>3, <4>1, RecordStep DEF ControlInv, LogInv
    <3>2. Journal' = Journal
      BY <3>1 DEF Journal
    <3>3. Granted' = Granted
      BY <2>1 DEF Granted, InScope
    <3>4. Touched' = Touched /\ Answers' = Answers
      BY <2>3 DEF Touched, ObjectOf, MeantBy, Answers
    <3>5. Status' = Status
      BY <2>1, <2>3 DEF Status
    <3>6. UNCHANGED Promise!vars
      BY <2>1, <3>2, <3>3, <3>4, <3>5 DEF Promise!vars, Touched, Answers
    <3> QED BY <3>6
  <2> QED BY <1>4, <2>2, <2>3 DEF Attenuate
<1>5. CASE Authorize
  <2>1. pc = "dispatch" /\ UNCHANGED <<mode, root, script>>
    BY <1>5 DEF Authorize
  <2>2. ASSUME NEW reason, Deny(reason) PROVE Promise!Deny
    BY <2>1, <2>2, DenyPromise
  <2>3. CASE pc' = "execute" /\ UNCHANGED <<audit_log, at, child, outcomes, effects>>
    <3>1. Status' = Status
      BY <2>1, <2>3 DEF Status
    <3> QED BY <2>1, <2>3, <3>1, QuietPromise
  <2> QED BY <1>5, <2>2, <2>3 DEF Authorize
<1>6. CASE Execute
  BY <1>6, ExecutePromise
<1>7. CASE ClockChange \/ FsChange
  <2>1. UNCHANGED <<mode, root, audit_log, script, outcomes, effects, pc>>
    BY <1>7 DEF ClockChange, FsChange
  <2>2. Status' = Status
    BY <2>1 DEF Status
  <2> QED BY <2>1, <2>2, QuietPromise
<1>8. CASE UNCHANGED vars
  <2>1. UNCHANGED <<mode, root, audit_log, script, outcomes, effects, pc>>
    BY <1>8 DEF vars
  <2>2. Status' = Status
    BY <2>1 DEF Status
  <2> QED BY <2>1, <2>2, QuietPromise
<1> QED BY <1>1, <1>2, <1>3, <1>4, <1>5, <1>6, <1>7, <1>8 DEF Next, Program

\* An initial state is one of Enforcement's.
LEMMA PromiseInit ==
    ASSUME Init
    PROVE  Promise!Init
<1>1. ControlInv /\ LogInv
  BY InitInv
<1>2. script \in Seq(Calls)
  BY <1>1 DEF ControlInv, TypeOK
<1>3. Status = "starting" /\ Granted = {} /\ Touched = {}
  BY DEF Init, Status, Granted, Touched
<1>4. Answers = <<>>
  BY DEF Init, Answers
<1>5. Journal = <<>>
  <2>1. Len(Told) = 0 /\ IsSequence(Told)
    <3>1. Len(Told) = 0
      BY <1>1 DEF LogInv, AuditTellsOutcomes, Init
    <3>2. Told = <<>>
      <4>1. {i \in DOMAIN audit_log : audit_log[i].kind \in {"ToolAllowed", "ToolDenied"}} = {}
        BY DEF Init
      <4>2. <<>> \in Seq({}) /\ audit_log = <<>>
        BY DEF Init
      <4> QED BY <4>1, <4>2, PickedNone DEF Told
    <3> QED BY <3>1, <3>2, SequenceOver
  <2>2. DOMAIN Told = {}
    BY <2>1, AppendSequence
  <2> QED BY <2>2 DEF Journal
<1> QED BY <1>2, <1>3, <1>4, <1>5 DEF Promise!Init, Touched, Answers

\* The orchestrator implements Enforcement: the grant is fixed before the first
\* call, every call is answered once and in order, answer, journal entry and
\* effect are one step, a refusal touches nothing, and what a tool is let loose
\* on is granted.  What it touches is that, or it is a file tool that strayed.
\* For every manifest, script, clock and disk, both moving at any moment.
THEOREM Implementation == Spec => ImplementsEnforcement
<1>1. Init => Promise!Init /\ ScopeInv
  BY PromiseInit DEF Init, ScopeInv, EffectsInScope
<1>2. ControlInv /\ ScopeInv /\ [Next]_vars => ScopeInv'
  BY ScopeStep
<1>3. ControlInv /\ LogInv /\ ScopeInv /\ [Next]_vars => [Promise!Next]_(Promise!vars)
  BY PromiseStep
<1> QED BY <1>1, <1>2, <1>3, Bookkeeping, PTL DEF Spec, ImplementsEnforcement, Promise!Spec

=============================================================================
