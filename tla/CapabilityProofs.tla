-------------------------- MODULE CapabilityProofs --------------------------
(***************************************************************************)
(* Proofs about Capability for every set of paths, manifests, requests and *)
(* disk states, every number of children and every chain length.           *)
(***************************************************************************)
EXTENDS Capability, GateProofs

-----------------------------------------------------------------------------
(* The inductive invariants.                                               *)

Caps == issued \cup ({root} \ {NoRoot})

\* Holds whatever happens to the disk.
CoherenceInv ==
    /\ TypeOK
    /\ root = NoRoot => issued = {} /\ pending = NoPending
    /\ \A cap \in Caps : Coherent(root, cap)
    /\ \A cap \in issued : cap.caveats # <<>>
    /\ pending # NoPending =>
          /\ pending.parent \in Caps
          /\ ExpiryResult(pending.at, pending.request.ttl_seconds) = "ok"

\* Needs the disk to stand still inside attenuate.
NarrowingInv ==
    /\ CoherenceInv
    /\ \A cap \in Caps : Narrows(Lineage(root, cap))
    /\ pending # NoPending =>
          ValidateAttenuation(pending.parent, pending.request, pending.at, resolve) = "ok"

-----------------------------------------------------------------------------
(* Coherence: every step keeps mirror and token in agreement.              *)

\* mint and attenuate return one of their declared results.
LEMMA ResultTypes ==
    ASSUME NEW m, NEW parent, NEW request, NEW at, NEW res
    PROVE  /\ MintResult(m, at) \in Outcomes
           /\ ValidateAttenuation(parent, request, at, res) \in Outcomes
BY DEF MintResult, ValidateManifest, ValidateAttenuation, ExpiryResult, Outcomes

\* Initially there is no capability, so all agree with their tokens.
LEMMA InitCoherence ==
    ASSUME Init
    PROVE  CoherenceInv
<1>1. now \in Time /\ resolve \in Resolution /\ "ok" \in Outcomes
  BY CapabilityAssumption, TimeAssumption DEF Init, Time, Outcomes
<1>2. Caps = {}
  BY DEF Init, Caps
<1> QED BY <1>1, <1>2 DEF Init, CoherenceInv, TypeOK

\* mint keeps every struct in agreement with its token.
LEMMA MintCoherence ==
    ASSUME CoherenceInv, NEW manifest \in Manifests, Mint(manifest)
    PROVE  CoherenceInv'
<1> USE DEF CoherenceInv, TypeOK, Mint, Caps
<1>1. manifest \in Manifest /\ MintResult(manifest, now) \in Outcomes
  BY CapabilityAssumption, ResultTypes
<1>2. issued = {} /\ pending = NoPending /\ root = NoRoot
  OBVIOUS
<1>3. CASE MintResult(manifest, now) = "ok"
  <2>1. root' = MintedRoot(manifest, now, resolve)
    BY <1>3
  <2>2. root' \in Capability /\ Coherent(root', root')
    BY <1>1, <1>3, <2>1, MintedRootType
  <2> QED BY <1>1, <1>2, <2>2, CapabilityAssumption
<1>4. CASE MintResult(manifest, now) # "ok"
  BY <1>1, <1>2, <1>4
<1> QED BY <1>3, <1>4

\* validate_attenuation remembers a parent that exists and a request that
\* passed, and makes no capability.
LEMMA ValidateCoherence ==
    ASSUME CoherenceInv, NEW request \in Requests, NEW parent \in Caps,
           AttenuateValidate(parent, request)
    PROVE  CoherenceInv'
<1> USE DEF CoherenceInv, TypeOK, AttenuateValidate
<1>1. request \in AttenuationRequest /\ parent \in Capability
  BY CapabilityAssumption DEF Caps
<1>2. ValidateAttenuation(parent, request, now, resolve) \in Outcomes
  BY ResultTypes
<1>3. Caps' = Caps /\ (root = NoRoot => Caps = {})
  BY DEF Caps
<1>4. CASE ValidateAttenuation(parent, request, now, resolve) = "ok"
  <2>1. ExpiryResult(now, request.ttl_seconds) = "ok"
    BY <1>4 DEF ValidateAttenuation
  <2>2. pending' = [parent |-> parent, request |-> request, at |-> now]
    BY <1>4
  <2>3. pending' \in Pending
    BY <1>1, <2>2 DEF Pending
  <2> QED BY <1>2, <1>3, <1>4, <2>1, <2>2, <2>3
<1>5. CASE ValidateAttenuation(parent, request, now, resolve) # "ok"
  BY <1>2, <1>3, <1>5
<1> QED BY <1>4, <1>5

\* The second half of attenuate adds a child that agrees with its token.
LEMMA BuildCoherence ==
    ASSUME CoherenceInv, AttenuateBuild
    PROVE  CoherenceInv'
<1> DEFINE child == BuildChild(pending.parent, pending.request, pending.at, resolve)
<1>1. /\ pending \in Pending
      /\ pending.parent \in Caps
      /\ pending.parent \in Capability
      /\ pending.request \in AttenuationRequest
      /\ pending.at \in Time
      /\ resolve \in Resolution
      /\ root \in Capability
      /\ Coherent(root, pending.parent)
      /\ ExpiryResult(pending.at, pending.request.ttl_seconds) = "ok"
  BY DEF CoherenceInv, TypeOK, AttenuateBuild, Caps, Pending
<1> DEFINE entry == [permissions     |-> RequestedPermissions(pending.request, resolve),
                     expires_at      |-> CheckedExpiresAt(pending.at, pending.request.ttl_seconds),
                     request_binding |-> pending.request.request_binding]
<1>2. /\ child \in Capability
      /\ entry \in Caveat
      /\ Coherent(root, child)
      /\ child.caveats = Append(pending.parent.caveats, entry)
  BY <1>1, ChildCoherent
<1>3. child.caveats # <<>>
  <2>1. pending.parent.caveats \in Seq(Caveat)
    BY <1>1 DEF Capability
  <2> HIDE DEF child, entry
  <2> QED BY <1>2, <2>1
<1> HIDE DEF child, entry
<1>4. /\ issued' = issued \cup {child} /\ pending' = NoPending /\ result' = "ok"
      /\ UNCHANGED <<now, resolve, root>>
  BY DEF AttenuateBuild, child
<1>5. Caps' = Caps \cup {child} /\ TypeOK'
  BY <1>1, <1>2, <1>4 DEF CoherenceInv, TypeOK, Caps, Outcomes
<1>6. \A cap \in Caps' : Coherent(root', cap)
  BY <1>2, <1>4, <1>5 DEF CoherenceInv
<1>7. \A cap \in issued' : cap.caveats # <<>>
  BY <1>3, <1>4 DEF CoherenceInv
<1>8. root' # NoRoot
  BY <1>1, <1>4, CapabilityAssumption
<1> QED BY <1>4, <1>5, <1>6, <1>7, <1>8 DEF CoherenceInv

\* Every step of the state machine keeps CoherenceInv.
LEMMA CoherenceStep ==
    ASSUME CoherenceInv, [Next]_vars
    PROVE  CoherenceInv'
<1>1. ASSUME NEW manifest \in Manifests, Mint(manifest) PROVE CoherenceInv'
  BY <1>1, MintCoherence
<1>2. ASSUME NEW request \in Requests, NEW parent \in issued \cup ({root} \ {NoRoot}),
             AttenuateValidate(parent, request)
      PROVE  CoherenceInv'
  BY <1>2, ValidateCoherence DEF Caps
<1>3. CASE AttenuateBuild
  BY <1>3, BuildCoherence
<1>4. CASE FsChange
  BY <1>4, CapabilityAssumption DEF FsChange, CoherenceInv, TypeOK, Caps
<1>5. CASE ClockChange
  <2>1. now' \in Time
    BY <1>5, CapabilityAssumption, TimeAssumption DEF ClockChange, Time
  <2> QED BY <1>5, <2>1 DEF ClockChange, CoherenceInv, TypeOK, Caps
<1>6. CASE UNCHANGED vars
  BY <1>6 DEF vars, CoherenceInv, TypeOK, Caps
<1> QED BY <1>1, <1>2, <1>3, <1>4, <1>5, <1>6 DEF Next

\* The inductive invariant of the capability state machine, whatever happens
\* to the disk: types, and agreement of every struct with its signed token.
THEOREM Coherence == Spec => []CoherenceInv
<1>1. Init => CoherenceInv
  BY InitCoherence
<1>2. CoherenceInv /\ [Next]_vars => CoherenceInv'
  BY CoherenceStep
<1> QED BY <1>1, <1>2, PTL DEF Spec

\* Type correctness of the mint / attenuate state machine.
THEOREM TypeCorrect == Spec => []TypeOK
<1>1. CoherenceInv => TypeOK
  BY DEF CoherenceInv
<1> QED BY <1>1, Coherence, PTL

-----------------------------------------------------------------------------
(* Narrowing: with the disk still inside attenuate, scopes only shrink.    *)

\* Initially there is no lineage that could widen.
LEMMA InitNarrowing ==
    ASSUME Init
    PROVE  NarrowingInv
<1>1. CoherenceInv
  BY InitCoherence
<1>2. Caps = {} /\ pending = NoPending
  BY DEF Init, Caps
<1> QED BY <1>1, <1>2 DEF NarrowingInv

\* mint starts a lineage and leaves the others alone: there are none.
LEMMA MintNarrowing ==
    ASSUME NarrowingInv, CoherenceInv', NEW manifest \in Manifests, Mint(manifest)
    PROVE  NarrowingInv'
<1>1. root = NoRoot /\ issued' = {} /\ pending' = NoPending
  BY DEF NarrowingInv, CoherenceInv, Mint
<1>2. CASE root' = NoRoot
  BY <1>1, <1>2 DEF NarrowingInv, Caps
<1>3. CASE root' # NoRoot
  <2>1. root' \in Capability
    BY <1>3 DEF CoherenceInv, TypeOK
  <2>2. root'.caveats = <<>>
    BY <1>1, <1>3 DEF Mint, MintedRoot
  <2>3. Narrows(Lineage(root', root'))
    BY <2>1, <2>2, RootNarrows
  <2>4. Caps' = {root'}
    BY <1>1, <1>3 DEF Caps
  <2> QED BY <1>1, <2>3, <2>4 DEF NarrowingInv
<1> QED BY <1>2, <1>3

\* attenuate extends a narrowing lineage to a narrowing one, the disk being
\* what it was at validation.
LEMMA BuildNarrowing ==
    ASSUME NarrowingInv, CoherenceInv', AttenuateBuild
    PROVE  NarrowingInv'
<1> DEFINE child == BuildChild(pending.parent, pending.request, pending.at, resolve)
           up    == Lineage(root, pending.parent)
           entry == [permissions     |-> RequestedPermissions(pending.request, resolve),
                     expires_at      |-> CheckedExpiresAt(pending.at, pending.request.ttl_seconds),
                     request_binding |-> pending.request.request_binding]
<1>1. /\ pending.parent \in Caps
      /\ pending.parent \in Capability
      /\ pending.request \in AttenuationRequest
      /\ pending.at \in Time
      /\ resolve \in Resolution
      /\ root \in Capability
      /\ Coherent(root, pending.parent)
      /\ ExpiryResult(pending.at, pending.request.ttl_seconds) = "ok"
      /\ ValidateAttenuation(pending.parent, pending.request, pending.at, resolve) = "ok"
      /\ Narrows(up)
  BY DEF NarrowingInv, CoherenceInv, TypeOK, AttenuateBuild, Caps, Pending
<1>2. entry \in Caveat /\ Lineage(root, child) = Append(up, entry)
  BY <1>1, ChildCoherent
<1>3. /\ PermissionsNarrower(entry.permissions, pending.parent.permissions)
      /\ entry.expires_at <= pending.parent.expires_at
  BY <1>1, ChildNarrower
<1>4. /\ pending.parent.permissions = up[Len(up)].permissions
      /\ pending.parent.expires_at = up[Len(up)].expires_at
  BY <1>1 DEF Coherent
<1>5. up \in Seq(Caveat) /\ up # <<>>
  BY <1>1, LineageType
<1>6. /\ issued' = issued \cup {child} /\ pending' = NoPending
      /\ root' = root
  BY DEF AttenuateBuild
<1> HIDE DEF child, up, entry
<1>7. Narrows(Lineage(root, child))
  BY <1>1, <1>2, <1>3, <1>4, <1>5, NarrowsAppend
<1>8. Caps' = Caps \cup {child}
  BY <1>6 DEF Caps
<1> QED BY <1>6, <1>7, <1>8 DEF NarrowingInv

\* Every step keeps NarrowingInv, given CoherenceInv before and after it.
LEMMA NarrowingStep ==
    ASSUME ~FsMayChangeDuring, NarrowingInv, [Next]_vars
    PROVE  NarrowingInv'
<1>0. CoherenceInv'
  BY CoherenceStep DEF NarrowingInv
<1>1. ASSUME NEW manifest \in Manifests, Mint(manifest) PROVE NarrowingInv'
  BY <1>0, <1>1, MintNarrowing
<1>2. ASSUME NEW request \in Requests, NEW parent \in issued \cup ({root} \ {NoRoot}),
             AttenuateValidate(parent, request)
      PROVE  NarrowingInv'
  <2>1. Caps' = Caps /\ root' = root /\ resolve' = resolve
    BY <1>2 DEF AttenuateValidate, Caps
  <2>2. pending' # NoPending =>
           /\ pending' = [parent |-> parent, request |-> request, at |-> now]
           /\ ValidateAttenuation(parent, request, now, resolve) = "ok"
    BY <1>2 DEF AttenuateValidate
  <2> QED BY <1>0, <2>1, <2>2 DEF NarrowingInv
<1>3. CASE AttenuateBuild
  BY <1>0, <1>3, BuildNarrowing
<1>4. CASE FsChange
  <2>1. pending' = NoPending /\ Caps' = Caps /\ root' = root
    BY <1>4 DEF FsChange, Caps
  <2> QED BY <1>0, <2>1 DEF NarrowingInv
<1>5. CASE ClockChange
  BY <1>0, <1>5 DEF ClockChange, NarrowingInv, Caps
<1>6. CASE UNCHANGED vars
  BY <1>0, <1>6 DEF vars, NarrowingInv, Caps
<1> QED BY <1>1, <1>2, <1>3, <1>4, <1>5, <1>6 DEF Next

\* The inductive invariant behind Narrowing: issued lineages narrow, and a
\* validated request is still valid against the disk when its child is built.
THEOREM NarrowingInvariant ==
    ASSUME ~FsMayChangeDuring
    PROVE  Spec => []NarrowingInv
<1>1. Init => NarrowingInv
  BY InitNarrowing
<1>2. NarrowingInv /\ [Next]_vars => NarrowingInv'
  BY NarrowingStep
<1> QED BY <1>1, <1>2, PTL DEF Spec

\* However long the chain of attenuations, every capability on it grants at
\* most what each one above it grants, for at most as long, provided the disk
\* does not change between the two resolutions inside attenuate.
THEOREM Narrowing ==
    ASSUME ~FsMayChangeDuring
    PROVE  Spec => []NarrowingChain
<1>1. NarrowingInv => NarrowingChain
  BY DEF NarrowingInv, NarrowingChain, Caps
<1> QED BY <1>1, NarrowingInvariant, PTL

-----------------------------------------------------------------------------
(* Decoding and the gate.                                                  *)

\* Nothing an older block says reaches the gate, for chains of any length and
\* whatever happens to the disk.
THEOREM NewestBlock == Spec => []DecodesNewestBlock
<1>1. CoherenceInv => DecodesNewestBlock
  <2> SUFFICES ASSUME CoherenceInv, NEW cap \in issued
               PROVE  /\ DecodedPermissions(cap.token) = Last(cap.token).permissions
                      /\ DecodedExpiresAt(cap.token) = Last(cap.token).expires_at
                      /\ DecodedBinding(cap.token) = Last(cap.token).request_binding
    BY DEF DecodesNewestBlock
  <2>1. root \in Capability /\ cap \in Capability /\ Coherent(root, cap)
    BY DEF CoherenceInv, TypeOK, Caps
  <2> QED BY <2>1, DecodesLast
<1> QED BY <1>1, Coherence, PTL

\* A token that mint and attenuate made, presented with a plaintext mirror put
\* together from those of any capabilities of the task (pep/src/lib.rs:50-53):
\* what the gate accepts is allowed by every block of the token, the root's
\* included, and no block has expired.
THEOREM MirrorGainsNothing ==
    ASSUME ~FsMayChangeDuring
    PROVE  Spec => []MirrorWidensNothing
<1>1. NarrowingInv => MirrorWidensNothing
  <2> SUFFICES ASSUME NarrowingInv, NEW cap \in issued, NEW shown \in Presentable(cap),
                      NEW invocation \in Invocations, Accepts(shown, invocation),
                      NEW i \in DOMAIN cap.token
               PROVE  /\ Decide(cap.token[i].permissions, invocation[1], resolve)
                      /\ now < cap.token[i].expires_at
    BY DEF MirrorWidensNothing
  <2> DEFINE last == Last(cap.token)
  <2>1. /\ root \in Capability /\ cap \in Capability /\ issued \subseteq Capability
        /\ Coherent(root, cap) /\ Narrows(Lineage(root, cap))
        /\ resolve \in Resolution /\ now \in Nat
    BY TimeAssumption DEF NarrowingInv, CoherenceInv, TypeOK, Caps, Time
  <2>2. shown.token = cap.token
    BY DEF Presentable
  <2>3. invocation[1] \in Request
    BY DEF Invocations
  <2>4. /\ ~(last.expires_at <= now)
        /\ Decide(last.permissions, invocation[1], resolve)
    BY <2>1, <2>2, AcceptsMeans, DecodesLast DEF Accepts
  <2>5. /\ cap.token \in Seq(Block) /\ Len(cap.token) \in DOMAIN cap.token
        /\ last = cap.token[Len(cap.token)]
    BY <2>1, CoherentIds DEF Last
  <2>6. \A b \in Block : b.permissions \in Permissions /\ b.expires_at \in Nat
    BY TimeAssumption DEF Block, Time
  <2>7. last \in Block /\ cap.token[i] \in Block
    BY <2>5
  <2> HIDE DEF last
  <2>8. CASE i = Len(cap.token)
    BY <2>1, <2>4, <2>5, <2>6, <2>7, <2>8
  <2>9. CASE i # Len(cap.token)
    <3>1. /\ PermissionsNarrower(last.permissions, cap.token[i].permissions)
          /\ last.expires_at <= cap.token[i].expires_at
      BY <2>1, <2>9, BlocksNarrow DEF last
    <3>2. Decide(cap.token[i].permissions, invocation[1], resolve)
      BY <2>1, <2>3, <2>4, <2>6, <2>7, <3>1, DecideMonotone
    <3>3. now < cap.token[i].expires_at
      BY <2>1, <2>4, <2>6, <2>7, <3>1
    <3> QED BY <3>2, <3>3
  <2> QED BY <2>8, <2>9
<1> QED BY <1>1, NarrowingInvariant, PTL

\* What the gate accepts with a capability as the library issued it is allowed
\* by the root and by every capability between the root and this one, none of
\* which has expired, although the gate reads the newest block only.
THEOREM WholeLineageAccepts ==
    ASSUME ~FsMayChangeDuring
    PROVE  Spec => []AcceptedByWholeLineage
<1>1. NarrowingInv => AcceptedByWholeLineage
  <2> SUFFICES ASSUME NarrowingInv, NEW cap \in issued,
                      NEW invocation \in Invocations, Accepts(cap, invocation),
                      NEW i \in DOMAIN Lineage(root, cap)
               PROVE  /\ Decide(Lineage(root, cap)[i].permissions, invocation[1], resolve)
                      /\ now < Lineage(root, cap)[i].expires_at
    BY DEF AcceptedByWholeLineage
  <2> DEFINE up == Lineage(root, cap)
             n  == Len(up)
  <2>1. /\ root \in Capability /\ cap \in Capability
        /\ Coherent(root, cap) /\ Narrows(up)
        /\ resolve \in Resolution /\ now \in Nat
    BY TimeAssumption DEF NarrowingInv, CoherenceInv, TypeOK, Caps, Time
  <2>2. invocation[1] \in Request
    BY DEF Invocations
  <2>3. up \in Seq(Caveat) /\ n >= 1 /\ n \in Nat /\ DOMAIN up = 1 .. n
    BY <2>1, LineageType
  <2>4. up[n].permissions = cap.permissions /\ up[n].expires_at = cap.expires_at
    BY <2>1 DEF Coherent
  <2>5. /\ VerifyAndDecode(cap) = "ok"
        /\ ~(DecodedExpiresAt(cap.token) <= now)
        /\ Decide(DecodedPermissions(cap.token), invocation[1], resolve)
    BY AcceptsMeans DEF Accepts
  <2>6. /\ DecodedPermissions(cap.token) = cap.permissions
        /\ DecodedExpiresAt(cap.token) = cap.expires_at
    BY <2>5 DEF VerifyAndDecode
  <2>7. \A c \in Caveat : c.permissions \in Permissions /\ c.expires_at \in Nat
    BY TimeAssumption DEF Caveat, Time
  <2>8. up[n] \in Caveat /\ up[i] \in Caveat /\ i \in 1 .. n
    BY <2>3
  <2> HIDE DEF up, n
  <2>9. CASE i = n
    BY <2>1, <2>4, <2>5, <2>6, <2>7, <2>8, <2>9 DEF up
  <2>10. CASE i < n
    <3>1. /\ PermissionsNarrower(up[n].permissions, up[i].permissions)
          /\ up[n].expires_at <= up[i].expires_at
      BY <2>1, <2>3, <2>8, <2>10 DEF Narrows
    <3>2. Decide(up[i].permissions, invocation[1], resolve)
      BY <2>1, <2>2, <2>4, <2>5, <2>6, <2>7, <2>8, <3>1, DecideMonotone
    <3>3. now < up[i].expires_at
      BY <2>1, <2>4, <2>5, <2>6, <2>7, <2>8, <3>1
    <3> QED BY <3>2, <3>3 DEF up
  <2> QED BY <2>3, <2>8, <2>9, <2>10
<1> QED BY <1>1, NarrowingInvariant, PTL

\* Exactly which issued capabilities the gate can verify, for chains of any
\* length: those whose expiry is before the year 10000, whose roots are UTF-8
\* and whose newest caveat repeats a binding if an older one has one.
THEOREM Verifiable == Spec => []VerifiableExactly
<1>1. CoherenceInv => VerifiableExactly
  <2> SUFFICES ASSUME CoherenceInv, NEW cap \in issued
               PROVE  VerifyAndDecode(cap) = "ok" <=>
                        /\ cap.expires_at <= Rfc3339Max
                        /\ LossyPaths(cap.permissions.readable_roots) = cap.permissions.readable_roots
                        /\ LossyPaths(cap.permissions.writable_roots) = cap.permissions.writable_roots
                        /\ Last(cap.caveats).request_binding = MirrorBinding(cap.caveats)
    BY DEF VerifiableExactly
  <2>1. /\ root \in Capability /\ cap \in Capability /\ Coherent(root, cap)
        /\ cap.caveats # <<>>
    BY DEF CoherenceInv, TypeOK, Caps
  <2>2. /\ DecodedPermissions(cap.token) =
              [readable_roots |-> LossyPaths(cap.permissions.readable_roots),
               writable_roots |-> LossyPaths(cap.permissions.writable_roots),
               exec_binaries  |-> cap.permissions.exec_binaries]
        /\ DecodedExpiresAt(cap.token) = cap.expires_at
        /\ DecodedBinding(cap.token) = Last(cap.caveats).request_binding
    BY <2>1, DecodedChild
  <2>3. cap.permissions = [readable_roots |-> cap.permissions.readable_roots,
                           writable_roots |-> cap.permissions.writable_roots,
                           exec_binaries  |-> cap.permissions.exec_binaries]
    BY <2>1 DEF Capability, Permissions
  <2>4. cap.expires_at \in Nat /\ Rfc3339Max \in Nat
    BY <2>1, TimeAssumption DEF Capability, Time
  <2>5. DecodedPermissions(cap.token) = cap.permissions <=>
          /\ LossyPaths(cap.permissions.readable_roots) = cap.permissions.readable_roots
          /\ LossyPaths(cap.permissions.writable_roots) = cap.permissions.writable_roots
    BY <2>2, <2>3
  <2>6. DecodeResult(cap.token) = "ok" <=> cap.expires_at <= Rfc3339Max
    BY <2>2, <2>4 DEF DecodeResult
  <2> QED BY <2>2, <2>5, <2>6 DEF VerifyAndDecode
<1> QED BY <1>1, Coherence, PTL

\* Whatever mirror a token that mint and attenuate made is presented with, the
\* binding of its newest block and the newest binding the mirror shows are the
\* invocation's, where there are any: for chains of any length, and whatever
\* happens to the disk.
THEOREM BindingKept == Spec => []BindingHolds
<1>1. CoherenceInv => BindingHolds
  <2> SUFFICES ASSUME CoherenceInv, NEW cap \in issued, NEW shown \in Presentable(cap),
                      NEW invocation \in Invocations, Accepts(shown, invocation)
               PROVE  {Last(cap.token).request_binding, MirrorBinding(shown.caveats)}
                          \subseteq {NoBinding, RequestBindingFor(invocation[1], invocation[2])}
    BY DEF BindingHolds
  <2>1. /\ VerifyAndDecode(shown) = "ok"
        /\ \/ DecodedBinding(shown.token) = NoBinding
           \/ DecodedBinding(shown.token) = RequestBindingFor(invocation[1], invocation[2])
    BY AcceptsMeans DEF Accepts
  <2>2. DecodedBinding(shown.token) = MirrorBinding(shown.caveats)
    BY <2>1 DEF VerifyAndDecode
  <2>3. shown.token = cap.token
    BY DEF Presentable
  <2>4. root \in Capability /\ cap \in Capability /\ Coherent(root, cap)
    BY DEF CoherenceInv, TypeOK, Caps
  <2>5. DecodedBinding(cap.token) = Last(cap.token).request_binding
    BY <2>4, DecodesLast
  <2> QED BY <2>1, <2>2, <2>3, <2>5
<1> QED BY <1>1, Coherence, PTL

-----------------------------------------------------------------------------
(* The linter.                                                             *)

\* The root directory lies under no directory but itself.
LEMMA UnderSlash ==
    ASSUME NEW roots \in SUBSET Path
    PROVE  IsUnderAnyRoot(<<>>, roots) <=> <<>> \in roots
<1>1. ASSUME NEW r \in roots PROVE StartsWith(<<>>, r) <=> r = <<>>
  <2> DEFINE slash == <<>>
  <2>1. r \in Seq(Name) /\ slash \in Seq(Name) /\ Len(slash) = 0
    BY PathAssumption
  <2>2. Len(r) \in Nat /\ (Len(r) = 0 => r = slash)
    BY <2>1
  <2> HIDE DEF slash
  <2>3. StartsWith(slash, r) => Len(r) <= Len(slash)
    BY <2>1, StartsWithComponents
  <2>4. StartsWith(slash, slash)
    BY <2>1, StartsWithReflexive
  <2>5. StartsWith(slash, r) <=> r = slash
    BY <2>1, <2>2, <2>3, <2>4
  <2> QED BY <2>5 DEF slash
<1> QED BY <1>1 DEF IsUnderAnyRoot

\* Every path lies under the root directory.
LEMMA EverythingUnderSlash ==
    ASSUME NEW roots \in SUBSET Path, <<>> \in roots, NEW p \in Path
    PROVE  IsUnderAnyRoot(p, roots)
<1> DEFINE slash == <<>>
<1>1. p \in Seq(Name) /\ slash \in Seq(Name) /\ Len(slash) = 0 /\ Len(p) \in Nat
  BY PathAssumption
<1> HIDE DEF slash
<1>2. Len(slash) <= Len(p) /\ \A i \in 1 .. Len(slash) : slash[i] = p[i]
  BY <1>1
<1>3. StartsWith(p, slash)
  BY <1>1, <1>2, StartsWithComponents
<1> QED BY <1>3 DEF IsUnderAnyRoot, slash

\* A finding of the linter says that every path can be read and its absence
\* that some cannot, and a chain that starts without a finding stays without.
\* The root directory is a path of the disk.
THEOREM LinterTells ==
    ASSUME ~FsMayChangeDuring, <<>> \in SafePath
    PROVE  Spec => []LintTellsAlwaysAllow
<1>1. NarrowingInv => LintTellsAlwaysAllow
  <2> SUFFICES ASSUME NarrowingInv PROVE LintTellsAlwaysAllow
    OBVIOUS
  <2>1. resolve \in Resolution /\ \A cap \in Caps : cap \in Capability
    BY DEF NarrowingInv, CoherenceInv, TypeOK, Caps
  <2>2. \A cap \in Caps : Lint(cap.permissions) # {} <=> <<>> \in cap.permissions.readable_roots
    BY DEF Lint
  <2>3. ASSUME NEW cap \in Caps
        PROVE  Lint(cap.permissions) # {} <=>
                   \A p \in SafePath : AllowsRead(cap.permissions, resolve, p)
    <3>1. cap.permissions.readable_roots \in SUBSET Path
      BY <2>1, <2>3 DEF Capability, Permissions
    <3>2. resolve[<<>>] = <<>> /\ \A p \in SafePath : resolve[p] \in Path
      BY <2>1, PathAssumption DEF Resolution
    <3>3. AllowsRead(cap.permissions, resolve, <<>>) => <<>> \in cap.permissions.readable_roots
      BY <3>1, <3>2, UnderSlash DEF AllowsRead, CheckedPath
    <3>4. ASSUME <<>> \in cap.permissions.readable_roots, NEW p \in SafePath
          PROVE  AllowsRead(cap.permissions, resolve, p)
      BY <3>1, <3>2, <3>4, EverythingUnderSlash DEF AllowsRead, CheckedPath, PathIsSafe
    <3> QED BY <2>2, <2>3, <3>3, <3>4
  <2>4. ASSUME NEW cap \in issued, Lint(root.permissions) = {}
        PROVE  Lint(cap.permissions) = {}
    <3> DEFINE up == Lineage(root, cap)
    <3>1. /\ root \in Capability /\ cap \in Capability /\ cap \in Caps /\ root \in Caps
          /\ Coherent(root, cap) /\ Narrows(up)
      BY CapabilityAssumption DEF NarrowingInv, CoherenceInv, TypeOK, Caps
    <3>2. /\ up \in Seq(Caveat) /\ Len(up) \in Nat /\ Len(up) >= 1
          /\ up[1].permissions = root.permissions
          /\ up[Len(up)].permissions = cap.permissions
      <4>1. up \in Seq(Caveat) /\ up # <<>>
        BY <3>1, LineageType
      <4>2. up[Len(up)].permissions = cap.permissions
        BY <3>1 DEF Coherent
      <4>3. up[1].permissions = root.permissions
        BY <3>1 DEF Lineage, Capability
      <4> QED BY <4>1, <4>2, <4>3
    <3>3. PermissionsNarrower(cap.permissions, root.permissions) \/ cap.permissions = root.permissions
      BY <3>1, <3>2 DEF Narrows
    <3>4. /\ cap.permissions.readable_roots \in SUBSET Path
          /\ root.permissions.readable_roots \in SUBSET Path
      BY <3>1 DEF Capability, Permissions
    <3>5. <<>> \in cap.permissions.readable_roots => <<>> \in root.permissions.readable_roots
      BY <3>3, <3>4, UnderSlash DEF PermissionsNarrower, RootsNarrower
    <3> QED BY <2>2, <2>4, <3>1, <3>5
  <2> QED BY <2>3, <2>4 DEF LintTellsAlwaysAllow, Caps
<1> QED BY <1>1, NarrowingInvariant, PTL

=============================================================================
