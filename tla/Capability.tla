----------------------------- MODULE Capability -----------------------------
(***************************************************************************)
(* The life of the capabilities of one task: a root is minted from the     *)
(* manifest, children are attenuated from it and from one another, and any *)
(* of them may be handed to the gate, while the wall clock moves and       *)
(* somebody else changes the file system.                                  *)
(*                                                                         *)
(* attenuate is two steps because it consults the disk twice: once to      *)
(* validate the request (capability/src/lib.rs:259, 300) and once for the  *)
(* roots it stores (263, 304).  Whether the disk can change between the    *)
(* two is the constant FsMayChangeDuring.                                  *)
(*                                                                         *)
(* Assumptions: every token was made by mint and attenuate, under the key  *)
(* of the orchestrator (see module Token); attenuation is only asked of    *)
(* capabilities as the library returned them; a struct whose plaintext     *)
(* mirror was altered is only ever presented to the gate (Presentable).    *)
(***************************************************************************)
EXTENDS Gate

CONSTANTS
    Manifests,          \* the manifests that may be minted
    Requests,           \* the attenuation requests that may be made
    FsStates,           \* the resolutions the disk may show
    FsMayChangeDuring,  \* may the disk change inside attenuate?
    NoRoot, NoPending,  \* no root yet; no attenuation under way
    MaxIssued,          \* bound on the number of children
    MaxNow              \* bound on the clock

ASSUME CapabilityAssumption ==
    /\ Manifests \subseteq Manifest
    /\ Requests \subseteq AttenuationRequest
    /\ FsStates \subseteq Resolution
    /\ FsMayChangeDuring \in BOOLEAN
    /\ NoRoot \notin Capability
    /\ MaxIssued \in Nat
    /\ MaxNow \in Time

VARIABLES
    now,      \* the wall clock, in seconds
    resolve,  \* what the disk makes of every path
    root,     \* the minted root, or NoRoot
    issued,   \* the children attenuated so far
    pending,  \* the attenuation that passed validation, or NoPending
    result    \* what the last operation returned

vars == <<now, resolve, root, issued, pending, result>>

\* An attenuation between its two looks at the disk; `at' is the clock value
\* the caller passed in.
Pending == [parent : Capability, request : AttenuationRequest, at : Time]

ASSUME PendingAssumption == NoPending \notin Pending

\* What mint and attenuate return: Ok, an error, or a panic.
Outcomes ==
    {"ok", "panic", "EmptyTtl", "UnsafePath", "RepoRootNotReadable", "TtlOverflow",
     "ReadScopeWidened", "WriteScopeWidened", "ExecScopeWidened", "TtlWidened"}

\* Types.  In particular every expiry ever stored is one a DateTime can hold,
\* whatever TTL was asked for, and every operation returns a declared result.
TypeOK ==
    /\ now \in Time
    /\ resolve \in Resolution
    /\ root \in Capability \cup {NoRoot}
    /\ issued \subseteq Capability
    /\ pending \in Pending \cup {NoPending}
    /\ result \in Outcomes

Init ==
    /\ now = 0
    /\ resolve \in FsStates
    /\ root = NoRoot
    /\ issued = {}
    /\ pending = NoPending
    /\ result = "ok"

-----------------------------------------------------------------------------

\* A panic ends the process.
Running == result # "panic"

\* RootCapability::mint.
Mint(manifest) ==
    /\ Running
    /\ root = NoRoot
    /\ result' = MintResult(manifest, now)
    /\ root' = IF result' = "ok" THEN MintedRoot(manifest, now, resolve) ELSE NoRoot
    /\ UNCHANGED <<now, resolve, issued, pending>>

\* attenuate up to and including validate_attenuation.
AttenuateValidate(parent, request) ==
    /\ Running
    /\ pending = NoPending
    /\ Cardinality(issued) < MaxIssued
    /\ result' = ValidateAttenuation(parent, request, now, resolve)
    /\ pending' = IF result' = "ok"
                  THEN [parent |-> parent, request |-> request, at |-> now]
                  ELSE NoPending
    /\ UNCHANGED <<now, resolve, root, issued>>

\* The rest of attenuate: resolve the roots again, append the block.
AttenuateBuild ==
    /\ Running
    /\ pending # NoPending
    /\ issued' = issued \cup
           {BuildChild(pending.parent, pending.request, pending.at, resolve)}
    /\ pending' = NoPending
    /\ result' = "ok"
    /\ UNCHANGED <<now, resolve, root>>

\* Environment: files and links appear and disappear.
FsChange ==
    /\ Running
    /\ pending = NoPending \/ FsMayChangeDuring
    /\ resolve' \in FsStates \ {resolve}
    /\ UNCHANGED <<now, root, issued, pending, result>>

\* Environment: the wall clock is set forward or back.
ClockChange ==
    /\ Running
    /\ now' \in (0 .. MaxNow) \ {now}
    /\ UNCHANGED <<resolve, root, issued, pending, result>>

Next ==
    \/ \E manifest \in Manifests : Mint(manifest)
    \/ \E request \in Requests :
          \E parent \in issued \cup ({root} \ {NoRoot}) : AttenuateValidate(parent, request)
    \/ AttenuateBuild
    \/ FsChange
    \/ ClockChange

Spec == Init /\ [][Next]_vars

-----------------------------------------------------------------------------
(* Properties.                                                             *)

\* What an attenuation request must be to its parent: "Every field must be
\* equal to or narrower than the parent" (capability/src/lib.rs:24), for
\* scope and lifetime, and along the whole chain, not only one step up.
NarrowingChain == \A cap \in issued : Narrows(Lineage(root, cap))

\* decode_state, which filters facts by the highest block id over all blocks,
\* reads exactly the block appended last, whatever the chain looks like.
DecodesNewestBlock ==
    \A cap \in issued :
        /\ DecodedPermissions(cap.token) = Last(cap.token).permissions
        /\ DecodedExpiresAt(cap.token) = Last(cap.token).expires_at
        /\ DecodedBinding(cap.token) = Last(cap.token).request_binding

\* The invocations the gate can be asked about.
Invocations == Request \X (Nonce \cup {NoNonce})

Accepts(cap, invocation) ==
    AuthorizeOnly(cap, invocation[1], invocation[2], now, resolve) = "ok"

\* Whatever the gate lets through with a capability the library issued is
\* allowed by the root and by every capability on the way down, none of which
\* has expired: pep::verify and pdp::decide look at the last block only.
AcceptedByWholeLineage ==
    \A cap \in issued : \A invocation \in Invocations :
        Accepts(cap, invocation) =>
            \A i \in DOMAIN Lineage(root, cap) :
                /\ Decide(Lineage(root, cap)[i].permissions, invocation[1], resolve)
                /\ now < Lineage(root, cap)[i].expires_at

\* The structs that can arrive with cap's token.  The plaintext mirror is
\* serialised unsigned: each of its fields may be that of any other capability,
\* the caveats of the root (none) included.
Presentable(cap) ==
    {[permissions |-> p.permissions, expires_at |-> e.expires_at,
      caveats |-> c.caveats, token |-> cap.token] :
        p, e, c \in issued \cup {root}}

\* Altering the mirror gains nothing ("rejects any capability whose in-memory
\* ... fields disagree with the signed token", capability/src/lib.rs:371): with
\* a token mint and attenuate made, whatever mirror is put beside it, what is
\* accepted is allowed by every block of the token and none has expired.
MirrorWidensNothing ==
    \A cap \in issued : \A shown \in Presentable(cap) :
        \A invocation \in Invocations :
            Accepts(shown, invocation) =>
                \A i \in DOMAIN cap.token :
                    /\ Decide(cap.token[i].permissions, invocation[1], resolve)
                    /\ now < cap.token[i].expires_at

\* A capability is accepted for no other invocation than the one its newest
\* block is bound to, whatever mirror it is presented with; nor for another
\* than the newest bound caveat of that mirror names, if there is one.  As the
\* library issued it, re-attenuating does therefore not shed a binding.  (An
\* older binding below an unbound newest block is held by the mirror alone.)
BindingHolds ==
    \A cap \in issued : \A shown \in Presentable(cap) :
        \A invocation \in Invocations :
            Accepts(shown, invocation) =>
                {Last(cap.token).request_binding, MirrorBinding(shown.caveats)}
                    \subseteq {NoBinding, RequestBindingFor(invocation[1], invocation[2])}

\* verify_and_decode accepts a capability the library issued exactly when its
\* expiry parses back, its roots are UTF-8, and its newest caveat is bound if
\* any caveat is.
VerifiableExactly ==
    \A cap \in issued :
        VerifyAndDecode(cap) = "ok" <=>
            /\ cap.expires_at <= Rfc3339Max
            /\ LossyPaths(cap.permissions.readable_roots) = cap.permissions.readable_roots
            /\ LossyPaths(cap.permissions.writable_roots) = cap.permissions.writable_roots
            /\ Last(cap.caveats).request_binding = MirrorBinding(cap.caveats)

\* pdp::linter: a finding AlwaysAllowRead means that every path can be read,
\* and no finding that some cannot, whatever the disk looks like by now; and a
\* root without findings has no child with one, so that it is enough to look at
\* the root, as "at manifest load time" (docs/DESIGN.md:15).
LintTellsAlwaysAllow ==
    /\ \A cap \in issued \cup ({root} \ {NoRoot}) :
          Lint(cap.permissions) # {} <=> \A p \in SafePath : AllowsRead(cap.permissions, resolve, p)
    /\ \A cap \in issued : Lint(root.permissions) = {} => Lint(cap.permissions) = {}

\* "Honestly-constructed capabilities build both from the same `permissions`
\* object, so this only ever fires on tampering" (capability/src/lib.rs:383).
MismatchOnlyOnTampering ==
    \A cap \in issued : VerifyAndDecode(cap) # "TokenStateMismatch"

\* A TTL that cannot be represented is reported as TtlOverflow ("requested TTL
\* cannot be represented safely", capability/src/lib.rs:119), not by a panic.
OverlongTtlIsReported == result # "panic"

=============================================================================
