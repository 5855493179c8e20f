------------------------------- MODULE Token -------------------------------
(***************************************************************************)
(* Capabilities and the signed token inside them: RootCapability and       *)
(* ChildCapability of capability/src/lib.rs and the Datalog codec of       *)
(* capability/src/biscuit_codec.rs.                                        *)
(*                                                                         *)
(* A capability is a struct that says the same thing twice: in plaintext   *)
(* fields (the mirror: permissions, expires_at, caveats) and in the token, *)
(* a sequence of blocks of facts.  Only the token is signed.               *)
(*                                                                         *)
(* Assumptions, which this code does not enforce:                          *)
(*  - a token is made by build_root_token and extended by append_block as  *)
(*    attenuate calls it; decode_state does not check that a block narrows *)
(*    the one before it, so nothing here speaks of a token extended by     *)
(*    other means;                                                         *)
(*  - root_public_key, a serialised field of the struct, is the key of the *)
(*    orchestrator that minted the root.                                   *)
(* Under them the signature check always succeeds and is left out: a token *)
(* is its sequence of blocks.  All capabilities of one model belong to one *)
(* task.                                                                   *)
(***************************************************************************)
EXTENDS Scope

CONSTANTS
    Nonce,        \* the values Uuid::new_v4 yields
    NoNonce,      \* None
    NoBinding,    \* None
    NoTarget,     \* the target of a network request, which has none
    Lossy         \* Path::to_string_lossy, the identity on UTF-8 paths

\* Lossy replaces inside components only, so it keeps prefixes.
ASSUME LossyAssumption ==
    /\ Lossy \in [Path -> Path]
    /\ \A p, r \in Path : StartsWith(p, r) => StartsWith(Lossy[p], Lossy[r])

\* pdp::ToolRequest.
Request ==
    [tool : {"fs_read", "fs_write"}, target : Path]
        \cup [tool : {"exec"}, target : Binary]
        \cup [tool : {"network"}, target : {NoTarget}]

\* RequestBinding.  The argument hash covers the tool name, the serialised
\* request and the nonce; it is collision free, so it is what it hashes.
RequestBinding == [request : Request, nonce : Nonce]

OptionalBinding == RequestBinding \cup {NoBinding}

ASSUME BindingAssumption ==
    /\ NoNonce \notin Nonce
    /\ NoBinding \notin RequestBinding

Time == 0 .. TimeMax

AttenuationRequest ==
    [readable_roots  : SUBSET Path,
     writable_roots  : SUBSET Path,
     exec_binaries   : SUBSET Binary,
     ttl_seconds     : Nat,
     request_binding : OptionalBinding]

Caveat ==
    [permissions     : Permissions,
     expires_at      : Time,
     request_binding : OptionalBinding]

Block == [block_id : Nat, permissions : Permissions, expires_at : Time,
          request_binding : OptionalBinding]

\* RootCapability (no caveats) and ChildCapability.
Capability ==
    [permissions : Permissions, expires_at : Time,
     caveats : Seq(Caveat), token : Seq(Block)]

-----------------------------------------------------------------------------
(* The codec.                                                              *)

LossyPaths(paths) == {Lossy[p] : p \in paths}

\* Mutant: paths are stored byte for byte.
StateFactsBytes(block_id, permissions, expires_at, binding) ==
    [block_id |-> block_id, permissions |-> permissions, expires_at |-> expires_at,
     request_binding |-> binding]

\* state_facts: the facts of one block.  Paths become text and lose what is
\* not UTF-8.
StateFacts(block_id, permissions, expires_at, binding) ==
    [block_id        |-> block_id,
     permissions     |->
        [readable_roots |-> LossyPaths(permissions.readable_roots),
         writable_roots |-> LossyPaths(permissions.writable_roots),
         exec_binaries  |-> permissions.exec_binaries],
     expires_at      |-> expires_at,
     request_binding |-> binding]

BuildRootToken(permissions, expires_at) ==
    <<StateFacts(0, permissions, expires_at, NoBinding)>>

AppendBlock(token, block_id, permissions, expires_at, binding) ==
    Append(token, StateFacts(block_id, permissions, expires_at, binding))

\* decode_state: the queries see the facts of all blocks and keep those that
\* carry the highest id of an expires_at fact.
LatestId(token) == Max({token[i].block_id : i \in DOMAIN token})

LatestBlocks(token) ==
    {token[i] : i \in {j \in DOMAIN token : token[j].block_id = LatestId(token)}}

DecodedPermissions(token) ==
    [readable_roots |-> UNION {b.permissions.readable_roots : b \in LatestBlocks(token)},
     writable_roots |-> UNION {b.permissions.writable_roots : b \in LatestBlocks(token)},
     exec_binaries  |-> UNION {b.permissions.exec_binaries : b \in LatestBlocks(token)}]

DecodedExpiresAt(token) == (CHOOSE b \in LatestBlocks(token) : TRUE).expires_at

\* The binding facts of the latest block, and of no earlier one.
DecodedBinding(token) ==
    LET bound == {b \in LatestBlocks(token) : b.request_binding # NoBinding} IN
    IF bound = {} THEN NoBinding
    ELSE (CHOOSE b \in bound : TRUE).request_binding

\* The expiry is written with to_rfc3339, which gives years after 9999 a sign
\* and a fifth digit that parse_from_rfc3339 refuses.
DecodeResult(token) ==
    IF DecodedExpiresAt(token) > Rfc3339Max THEN "InvalidValue" ELSE "ok"

-----------------------------------------------------------------------------
(* Minting and attenuating.                                                *)

\* RootCapability::mint: its result and the capability it returns.
MintResult(manifest, now) ==
    IF ValidateManifest(manifest) # "ok"
    THEN ValidateManifest(manifest)
    ELSE ExpiryResult(now, manifest.ttl_seconds)

MintedRoot(manifest, now, resolve) ==
    LET permissions == FromManifest(manifest, resolve)
        expires_at  == CheckedExpiresAt(now, manifest.ttl_seconds)
    IN [permissions |-> permissions,
        expires_at  |-> expires_at,
        caveats     |-> <<>>,
        token       |-> BuildRootToken(permissions, expires_at)]

\* validate_attenuation, which reads the parent's plaintext mirror.
ValidateAttenuation(parent, request, now, resolve) ==
    IF ~ContainsAllRoots(parent.permissions.readable_roots, resolve, request.readable_roots)
    THEN "ReadScopeWidened"
    ELSE IF ~ContainsAllRoots(parent.permissions.writable_roots, resolve, request.writable_roots)
    THEN "WriteScopeWidened"
    ELSE IF ~ContainsAllExec(parent.permissions, request.exec_binaries)
    THEN "ExecScopeWidened"
    ELSE IF ExpiryResult(now, request.ttl_seconds) # "ok"
    THEN ExpiryResult(now, request.ttl_seconds)
    ELSE IF CheckedExpiresAt(now, request.ttl_seconds) > parent.expires_at
    THEN "TtlWidened"
    ELSE "ok"

\* The rest of attenuate.  The requested roots are resolved a second time,
\* and what is stored is what this resolution returns.
RequestedPermissions(request, resolve) ==
    [readable_roots |-> CheckedPaths(resolve, request.readable_roots),
     writable_roots |-> CheckedPaths(resolve, request.writable_roots),
     exec_binaries  |-> request.exec_binaries]

\* Mutant: off by one, the id of the parent's own block.
NextBlockIdReused(parent) == Len(parent.caveats)

NextBlockId(parent) == Len(parent.caveats) + 1

BuildChild(parent, request, now, resolve) ==
    LET permissions == RequestedPermissions(request, resolve)
        expires_at  == CheckedExpiresAt(now, request.ttl_seconds)
        caveat      == [permissions     |-> permissions,
                        expires_at      |-> expires_at,
                        request_binding |-> request.request_binding]
    IN [permissions |-> permissions,
        expires_at  |-> expires_at,
        caveats     |-> Append(parent.caveats, caveat),
        token       |-> AppendBlock(parent.token, NextBlockId(parent), permissions,
                                    expires_at, request.request_binding)]

-----------------------------------------------------------------------------
(* Reading a child back.                                                   *)

\* ChildCapability::request_binding: the last caveat that has one.
MirrorBinding(caveats) ==
    LET bound == {i \in DOMAIN caveats : caveats[i].request_binding # NoBinding} IN
    IF bound = {} THEN NoBinding ELSE caveats[Max(bound)].request_binding

\* Mutant: the bindings are not compared.
VerifyAndDecodeAnyBinding(cap) ==
    IF DecodeResult(cap.token) # "ok"
    THEN "Biscuit"
    ELSE IF \/ DecodedPermissions(cap.token) # cap.permissions
            \/ DecodedExpiresAt(cap.token) # cap.expires_at
    THEN "TokenStateMismatch"
    ELSE "ok"

\* verify_and_decode: the mirror must agree with the token.
VerifyAndDecode(cap) ==
    IF DecodeResult(cap.token) # "ok"
    THEN "Biscuit"
    ELSE IF \/ DecodedPermissions(cap.token) # cap.permissions
            \/ DecodedExpiresAt(cap.token) # cap.expires_at
            \/ DecodedBinding(cap.token) # MirrorBinding(cap.caveats)
    THEN "TokenStateMismatch"
    ELSE "ok"

-----------------------------------------------------------------------------
(* The chain a capability descends through.                                *)

\* The scope, expiry and binding a capability descends through: entry 1 is
\* the root's, entry i + 1 caveat i's.
Lineage(top, cap) ==
    <<[permissions |-> top.permissions, expires_at |-> top.expires_at,
       request_binding |-> NoBinding]>> \o cap.caveats

\* Every entry of a lineage is at most as wide, and lives at most as long, as
\* each entry above it.
Narrows(lineage) ==
    \A i, j \in DOMAIN lineage :
        i < j => /\ PermissionsNarrower(lineage[j].permissions, lineage[i].permissions)
                 /\ lineage[j].expires_at <= lineage[i].expires_at

=============================================================================
