----------------------------- MODULE GateProofs ------------------------------
(***************************************************************************)
(* Lemmas about the operators of Scope, Token and Gate, for all values of  *)
(* their constants: the order on scopes, what minting and attenuating      *)
(* build, what decoding reads back and what the gate accepts.              *)
(***************************************************************************)
EXTENDS Gate, TLAPS

-----------------------------------------------------------------------------
(* The order on paths and permission sets.                                 *)

\* A path starts with itself.
LEMMA StartsWithReflexive ==
    ASSUME NEW p \in Seq(Name)
    PROVE  StartsWith(p, p)
BY DEF StartsWith, IsPrefix

\* Component-wise reading of starts_with.
LEMMA StartsWithComponents ==
    ASSUME NEW p \in Seq(Name), NEW r \in Seq(Name)
    PROVE  StartsWith(p, r) <=> /\ Len(r) <= Len(p)
                                /\ \A i \in 1 .. Len(r) : r[i] = p[i]
<1>1. ASSUME StartsWith(p, r)
      PROVE  Len(r) <= Len(p) /\ \A i \in 1 .. Len(r) : r[i] = p[i]
  <2>1. Len(r) <= Len(p) /\ SubSeq(r, 1, Len(r)) = SubSeq(p, 1, Len(r))
    BY <1>1 DEF StartsWith, IsPrefix
  <2>2. \A i \in 1 .. Len(r) : SubSeq(r, 1, Len(r))[i] = r[i] /\ SubSeq(p, 1, Len(r))[i] = p[i]
    BY <2>1
  <2> QED BY <2>1, <2>2
<1>2. ASSUME Len(r) <= Len(p), \A i \in 1 .. Len(r) : r[i] = p[i]
      PROVE  StartsWith(p, r)
  <2>1. SubSeq(r, 1, Len(r)) = SubSeq(p, 1, Len(r))
    BY <1>2
  <2> QED BY <1>2, <2>1 DEF StartsWith, IsPrefix
<1> QED BY <1>1, <1>2

\* starts_with is transitive.
LEMMA StartsWithTransitive ==
    ASSUME NEW p \in Seq(Name), NEW q \in Seq(Name), NEW r \in Seq(Name),
           StartsWith(p, q), StartsWith(q, r)
    PROVE  StartsWith(p, r)
<1>1. Len(q) <= Len(p) /\ \A i \in 1 .. Len(q) : q[i] = p[i]
  BY StartsWithComponents
<1>2. Len(r) <= Len(q) /\ \A i \in 1 .. Len(r) : r[i] = q[i]
  BY StartsWithComponents
<1>3. Len(r) <= Len(p) /\ \A i \in 1 .. Len(r) : r[i] = p[i]
  BY <1>1, <1>2
<1> QED BY <1>3, StartsWithComponents

\* Roots that lie under roots that lie under further roots lie under those.
LEMMA RootsNarrowerTransitive ==
    ASSUME NEW a \in SUBSET Path, NEW b \in SUBSET Path, NEW c \in SUBSET Path,
           RootsNarrower(a, b), RootsNarrower(b, c)
    PROVE  RootsNarrower(a, c)
<1> SUFFICES ASSUME NEW r \in a PROVE \E w \in c : StartsWith(r, w)
  BY DEF RootsNarrower, IsUnderAnyRoot
<1>1. PICK q \in b : StartsWith(r, q)
  BY DEF RootsNarrower, IsUnderAnyRoot
<1>2. PICK t \in c : StartsWith(q, t)
  BY DEF RootsNarrower, IsUnderAnyRoot
<1>3. r \in Seq(Name) /\ q \in Seq(Name) /\ t \in Seq(Name)
  BY PathAssumption
<1> QED BY <1>1, <1>2, <1>3, StartsWithTransitive

\* A permission set narrower than a narrower one is narrower, so one-step
\* checks against the parent add up along a chain.
LEMMA PermissionsNarrowerTransitive ==
    ASSUME NEW a \in Permissions, NEW b \in Permissions, NEW c \in Permissions,
           PermissionsNarrower(a, b), PermissionsNarrower(b, c)
    PROVE  PermissionsNarrower(a, c)
BY RootsNarrowerTransitive DEF PermissionsNarrower, Permissions

\* A path under a narrower set of roots is under the wider one.
LEMMA UnderWiderRoots ==
    ASSUME NEW narrow \in SUBSET Path, NEW wide \in SUBSET Path, NEW p \in Path,
           RootsNarrower(narrow, wide), IsUnderAnyRoot(p, narrow)
    PROVE  IsUnderAnyRoot(p, wide)
<1>1. PICK q \in narrow : StartsWith(p, q)
  BY DEF IsUnderAnyRoot
<1>2. PICK t \in wide : StartsWith(q, t)
  BY DEF RootsNarrower, IsUnderAnyRoot
<1>3. p \in Seq(Name) /\ q \in Seq(Name) /\ t \in Seq(Name)
  BY PathAssumption
<1> QED BY <1>1, <1>2, <1>3, StartsWithTransitive DEF IsUnderAnyRoot

\* pdp::decide is monotone: what a narrower permission set allows, a wider one
\* allows against the same disk.
LEMMA DecideMonotone ==
    ASSUME NEW narrow \in Permissions, NEW wide \in Permissions,
           NEW request \in Request, NEW res \in Resolution,
           PermissionsNarrower(narrow, wide),
           Decide(narrow, request, res)
    PROVE  Decide(wide, request, res)
<1> USE DEF Permissions, PermissionsNarrower
<1>1. CASE request.tool = "fs_read" /\ AllowsRead(narrow, res, request.target)
  <2>1. request.target \in SafePath /\ res[request.target] \in Path
    BY <1>1, PathAssumption DEF AllowsRead, PathIsSafe, Resolution
  <2> QED BY <1>1, <2>1, UnderWiderRoots DEF Decide, AllowsRead, CheckedPath
<1>2. CASE request.tool = "fs_write" /\ AllowsWrite(narrow, res, request.target)
  <2>1. request.target \in SafePath /\ res[request.target] \in Path
    BY <1>2, PathAssumption DEF AllowsWrite, PathIsSafe, Resolution
  <2> QED BY <1>2, <2>1, UnderWiderRoots DEF Decide, AllowsWrite, CheckedPath
<1>3. CASE request.tool = "exec" /\ AllowsExec(narrow, request.target)
  BY <1>3 DEF Decide, AllowsExec
<1> QED BY <1>1, <1>2, <1>3 DEF Decide

\* to_string_lossy keeps one root set under another.
LEMMA LossyKeepsNarrower ==
    ASSUME NEW a \in SUBSET Path, NEW b \in SUBSET Path, RootsNarrower(a, b)
    PROVE  RootsNarrower(LossyPaths(a), LossyPaths(b))
<1> SUFFICES ASSUME NEW r \in a
             PROVE  \E w \in LossyPaths(b) : StartsWith(Lossy[r], w)
  BY DEF RootsNarrower, IsUnderAnyRoot, LossyPaths
<1>1. PICK q \in b : StartsWith(r, q)
  BY DEF RootsNarrower, IsUnderAnyRoot
<1>2. StartsWith(Lossy[r], Lossy[q])
  BY <1>1, LossyAssumption
<1> QED BY <1>2 DEF LossyPaths

-----------------------------------------------------------------------------
(* What mint and attenuate build.                                          *)

\* A capability says the same in its mirror and in its token: block i holds
\* the facts of entry i of the lineage, under the id i - 1, and the mirror's
\* permissions and expiry are those of the last entry.
Coherent(top, cap) ==
    LET lineage == Lineage(top, cap) IN
    /\ Len(cap.token) = Len(lineage)
    /\ \A i \in DOMAIN lineage :
          cap.token[i] = StateFacts(i - 1, lineage[i].permissions,
                                    lineage[i].expires_at, lineage[i].request_binding)
    /\ cap.permissions = lineage[Len(lineage)].permissions
    /\ cap.expires_at = lineage[Len(lineage)].expires_at

\* checked_paths returns paths.
LEMMA CheckedPathsType ==
    ASSUME NEW res \in Resolution, NEW paths \in SUBSET Path
    PROVE  CheckedPaths(res, paths) \in SUBSET Path
BY DEF CheckedPaths, CheckedPath, Resolution

\* state_facts makes a well-formed block of well-formed arguments.
LEMMA StateFactsType ==
    ASSUME NEW id \in Nat, NEW permissions \in Permissions, NEW expires_at \in Time,
           NEW binding \in OptionalBinding
    PROVE  StateFacts(id, permissions, expires_at, binding) \in Block
<1>1. \A paths \in SUBSET Path : LossyPaths(paths) \in SUBSET Path
  BY LossyAssumption DEF LossyPaths
<1> QED BY <1>1 DEF StateFacts, Block, Permissions

\* Where checked_expires_at succeeds its value is a representable time.
LEMMA ExpiryType ==
    ASSUME NEW at \in Time, NEW ttl \in Nat, ExpiryResult(at, ttl) = "ok"
    PROVE  CheckedExpiresAt(at, ttl) \in Time
BY TimeAssumption DEF ExpiryResult, CheckedExpiresAt, Time

\* A successful mint returns a capability whose token is one coherent block.
LEMMA MintedRootType ==
    ASSUME NEW m \in Manifest, NEW at \in Time, NEW res \in Resolution,
           MintResult(m, at) = "ok"
    PROVE  /\ MintedRoot(m, at, res) \in Capability
           /\ Coherent(MintedRoot(m, at, res), MintedRoot(m, at, res))
<1> DEFINE permissions == FromManifest(m, res)
           expires_at  == CheckedExpiresAt(at, m.ttl_seconds)
           cap         == MintedRoot(m, at, res)
<1>1. permissions \in Permissions
  BY CheckedPathsType DEF FromManifest, Permissions, Manifest
<1>2. expires_at \in Time
  <2>1. m.ttl_seconds \in Nat /\ ExpiryResult(at, m.ttl_seconds) = "ok"
    BY DEF MintResult, Manifest
  <2> QED BY <2>1, ExpiryType
<1>3. StateFacts(0, permissions, expires_at, NoBinding) \in Block
  BY <1>1, <1>2, StateFactsType DEF OptionalBinding
<1>4. cap = [permissions |-> permissions, expires_at |-> expires_at, caveats |-> <<>>,
             token |-> <<StateFacts(0, permissions, expires_at, NoBinding)>>]
  BY DEF MintedRoot, BuildRootToken
<1>5. cap \in Capability
  BY <1>1, <1>2, <1>3, <1>4 DEF Capability
<1> DEFINE head == [permissions |-> permissions, expires_at |-> expires_at,
                    request_binding |-> NoBinding]
<1> HIDE DEF permissions, expires_at, cap
<1>6. Lineage(cap, cap) = <<head>>
  BY <1>4 DEF Lineage
<1>7. Coherent(cap, cap)
  <2>1. /\ cap.token = <<StateFacts(0, head.permissions, head.expires_at, head.request_binding)>>
        /\ cap.permissions = head.permissions
        /\ cap.expires_at = head.expires_at
    BY <1>4
  <2> HIDE DEF head
  <2> QED BY <1>6, <2>1 DEF Coherent
<1> QED BY <1>5, <1>7 DEF cap

\* Attenuating extends the lineage by one entry.
LEMMA ChildLineage ==
    ASSUME NEW top, NEW parent \in Capability, NEW caveat \in Caveat,
           NEW cap, cap.caveats = Append(parent.caveats, caveat)
    PROVE  Lineage(top, cap) = Append(Lineage(top, parent), caveat)
<1> DEFINE head == [permissions |-> top.permissions, expires_at |-> top.expires_at,
                    request_binding |-> NoBinding]
<1>1. parent.caveats \in Seq(Caveat)
  BY DEF Capability
<1> HIDE DEF head
<1>2. \A s \in Seq(Caveat) : <<head>> \o Append(s, caveat) = Append(<<head>> \o s, caveat)
  OBVIOUS
<1> QED BY <1>1, <1>2 DEF Lineage, head

\* The child attenuate returns is a capability, and as coherent as its parent.
LEMMA ChildCoherent ==
    ASSUME NEW top \in Capability, NEW parent \in Capability,
           NEW request \in AttenuationRequest,
           NEW at \in Time, NEW res \in Resolution,
           Coherent(top, parent),
           ExpiryResult(at, request.ttl_seconds) = "ok"
    PROVE  LET child == BuildChild(parent, request, at, res)
               entry == [permissions     |-> RequestedPermissions(request, res),
                         expires_at      |-> CheckedExpiresAt(at, request.ttl_seconds),
                         request_binding |-> request.request_binding]
           IN  /\ child \in Capability
               /\ entry \in Caveat
               /\ child.caveats = Append(parent.caveats, entry)
               /\ Lineage(top, child) = Append(Lineage(top, parent), entry)
               /\ Coherent(top, child)
<1> DEFINE permissions == RequestedPermissions(request, res)
           expires_at  == CheckedExpiresAt(at, request.ttl_seconds)
           binding     == request.request_binding
           entry == [permissions |-> permissions, expires_at |-> expires_at,
                     request_binding |-> binding]
           child == BuildChild(parent, request, at, res)
           id    == NextBlockId(parent)
           facts == StateFacts(id, permissions, expires_at, binding)
<1>1. permissions \in Permissions
  BY CheckedPathsType DEF RequestedPermissions, Permissions, AttenuationRequest
<1>2. expires_at \in Time
  BY ExpiryType DEF AttenuationRequest
<1>3. binding \in OptionalBinding
  BY DEF AttenuationRequest
<1>4. entry \in Caveat
  BY <1>1, <1>2, <1>3 DEF Caveat
<1>5. parent.caveats \in Seq(Caveat) /\ parent.token \in Seq(Block)
  BY DEF Capability
<1>6. id \in Nat /\ id = Len(parent.caveats) + 1
  BY <1>5 DEF NextBlockId
<1>7. facts \in Block
  BY <1>1, <1>2, <1>3, <1>6, StateFactsType
<1>8. child = [permissions |-> permissions, expires_at |-> expires_at,
               caveats |-> Append(parent.caveats, entry),
               token |-> Append(parent.token, facts)]
  BY DEF BuildChild, AppendBlock
<1> HIDE DEF permissions, expires_at, binding, id, facts, child
<1>9. child \in Capability
  BY <1>1, <1>2, <1>4, <1>5, <1>7, <1>8 DEF Capability
<1>10. child.caveats = Append(parent.caveats, entry)
  BY <1>8
<1>11. Lineage(top, child) = Append(Lineage(top, parent), entry)
  BY <1>4, <1>10, ChildLineage
<1>12. Coherent(top, child)
  <2> DEFINE up == Lineage(top, parent)
  <2>1. up \in Seq(Caveat) /\ Len(up) = Len(parent.caveats) + 1
    <3> DEFINE head == [permissions |-> top.permissions, expires_at |-> top.expires_at,
                        request_binding |-> NoBinding]
    <3>1. head \in Caveat
      BY DEF Caveat, Capability, OptionalBinding
    <3> HIDE DEF head
    <3>2. <<head>> \o parent.caveats \in Seq(Caveat)
      BY <3>1, <1>5
    <3> QED BY <1>5, <3>1, <3>2 DEF Lineage, head
  <2>2. /\ Len(parent.token) = Len(up)
        /\ \A i \in DOMAIN up :
              parent.token[i] = StateFacts(i - 1, up[i].permissions,
                                           up[i].expires_at, up[i].request_binding)
    BY DEF Coherent
  <2>3. facts = StateFacts(Len(up), entry.permissions, entry.expires_at, entry.request_binding)
    BY <1>6, <2>1 DEF facts
  <2>4. child.permissions = entry.permissions /\ child.expires_at = entry.expires_at
    BY <1>8
  <2>5. child.token = Append(parent.token, facts)
    BY <1>8
  <2> HIDE DEF up, entry
  <2>6. Len(child.token) = Len(Append(up, entry))
    BY <1>5, <1>7, <2>1, <2>2, <2>5
  <2>7. \A i \in DOMAIN Append(up, entry) :
           child.token[i] = StateFacts(i - 1, Append(up, entry)[i].permissions,
                                       Append(up, entry)[i].expires_at,
                                       Append(up, entry)[i].request_binding)
    <3> SUFFICES ASSUME NEW i \in 1 .. Len(up) + 1
                 PROVE  child.token[i] = StateFacts(i - 1, Append(up, entry)[i].permissions,
                                       Append(up, entry)[i].expires_at,
                                       Append(up, entry)[i].request_binding)
      BY <2>1
    <3>1. CASE i = Len(up) + 1
      <4>1. child.token[i] = facts /\ Append(up, entry)[i] = entry /\ i - 1 = Len(up)
        BY <3>1, <1>5, <2>1, <2>2, <2>5
      <4> QED BY <4>1, <2>3
    <3>2. CASE i \in 1 .. Len(up)
      <4>1. child.token[i] = parent.token[i] /\ Append(up, entry)[i] = up[i]
        BY <3>2, <1>5, <2>1, <2>2, <2>5
      <4>2. i \in DOMAIN up
        BY <3>2, <2>1
      <4> QED BY <4>1, <4>2, <2>2
    <3> QED BY <3>1, <3>2, <2>1
  <2>8. Append(up, entry)[Len(Append(up, entry))] = entry
    BY <2>1
  <2>9. Lineage(top, child) = Append(up, entry)
    BY <1>11 DEF up
  <2> QED BY <2>4, <2>6, <2>7, <2>8, <2>9 DEF Coherent
<1> QED BY <1>4, <1>9, <1>10, <1>11, <1>12 DEF child, permissions, expires_at, binding

\* Validated and built against the same disk, the child narrows its parent.
LEMMA ChildNarrower ==
    ASSUME NEW parent \in Capability, NEW request \in AttenuationRequest,
           NEW at \in Time, NEW res \in Resolution,
           ValidateAttenuation(parent, request, at, res) = "ok"
    PROVE  /\ PermissionsNarrower(RequestedPermissions(request, res), parent.permissions)
           /\ CheckedExpiresAt(at, request.ttl_seconds) <= parent.expires_at
<1>1. /\ ContainsAllRoots(parent.permissions.readable_roots, res, request.readable_roots)
      /\ ContainsAllRoots(parent.permissions.writable_roots, res, request.writable_roots)
      /\ ContainsAllExec(parent.permissions, request.exec_binaries)
      /\ ExpiryResult(at, request.ttl_seconds) = "ok"
      /\ ~(CheckedExpiresAt(at, request.ttl_seconds) > parent.expires_at)
  BY DEF ValidateAttenuation
<1>2. RootsNarrower(CheckedPaths(res, request.readable_roots), parent.permissions.readable_roots)
  BY <1>1 DEF ContainsAllRoots, RootsNarrower, CheckedPaths
<1>3. RootsNarrower(CheckedPaths(res, request.writable_roots), parent.permissions.writable_roots)
  BY <1>1 DEF ContainsAllRoots, RootsNarrower, CheckedPaths
<1>4. request.exec_binaries \subseteq parent.permissions.exec_binaries
  BY <1>1 DEF ContainsAllExec
<1>5. CheckedExpiresAt(at, request.ttl_seconds) \in Time /\ parent.expires_at \in Time
  BY <1>1, ExpiryType DEF AttenuationRequest, Capability
<1>6. CheckedExpiresAt(at, request.ttl_seconds) <= parent.expires_at
  BY <1>1, <1>5, TimeAssumption DEF Time
<1> QED BY <1>2, <1>3, <1>4, <1>6 DEF PermissionsNarrower, RequestedPermissions

\* A lineage stays narrowing when an entry at most as wide as its last is
\* added: transitivity carries the comparison up to the root.
LEMMA NarrowsAppend ==
    ASSUME NEW up \in Seq(Caveat), NEW entry \in Caveat, up # <<>>, Narrows(up),
           PermissionsNarrower(entry.permissions, up[Len(up)].permissions),
           entry.expires_at <= up[Len(up)].expires_at
    PROVE  Narrows(Append(up, entry))
<1> DEFINE down == Append(up, entry)
<1>1. /\ Len(up) \in Nat /\ Len(up) >= 1
      /\ DOMAIN down = 1 .. Len(up) + 1
      /\ \A k \in 1 .. Len(up) : down[k] = up[k] /\ up[k] \in Caveat
      /\ down[Len(up) + 1] = entry
  OBVIOUS
<1>t. \A c \in Caveat : c.permissions \in Permissions /\ c.expires_at \in Nat
  BY TimeAssumption DEF Caveat, Time
<1> HIDE DEF down
<1> SUFFICES ASSUME NEW i \in 1 .. Len(up) + 1, NEW j \in 1 .. Len(up) + 1, i < j
             PROVE  /\ PermissionsNarrower(down[j].permissions, down[i].permissions)
                    /\ down[j].expires_at <= down[i].expires_at
  BY <1>1 DEF Narrows, down
<1>2. CASE j <= Len(up)
  BY <1>1, <1>2 DEF Narrows
<1>3. CASE j = Len(up) + 1 /\ i = Len(up)
  BY <1>1, <1>3
<1>4. CASE j = Len(up) + 1 /\ i < Len(up)
  <2>1. /\ PermissionsNarrower(up[Len(up)].permissions, up[i].permissions)
        /\ up[Len(up)].expires_at <= up[i].expires_at
    BY <1>1, <1>4 DEF Narrows
  <2>2. PermissionsNarrower(entry.permissions, up[i].permissions)
    BY <1>1, <1>4, <1>t, <2>1, PermissionsNarrowerTransitive
  <2>3. entry.expires_at <= up[i].expires_at
    BY <1>1, <1>4, <1>t, <2>1
  <2> QED BY <1>1, <1>4, <2>2, <2>3
<1> QED BY <1>1, <1>2, <1>3, <1>4

\* A lineage is a non-empty sequence of caveats.
LEMMA LineageType ==
    ASSUME NEW top \in Capability, NEW cap \in Capability
    PROVE  /\ Lineage(top, cap) \in Seq(Caveat)
           /\ Lineage(top, cap) # <<>>
           /\ Len(Lineage(top, cap)) = Len(cap.caveats) + 1
<1> DEFINE head == [permissions |-> top.permissions, expires_at |-> top.expires_at,
                    request_binding |-> NoBinding]
<1>1. head \in Caveat
  BY DEF Caveat, Capability, OptionalBinding
<1>2. cap.caveats \in Seq(Caveat)
  BY DEF Capability
<1> HIDE DEF head
<1>3. /\ <<head>> \o cap.caveats \in Seq(Caveat)
      /\ Len(<<head>> \o cap.caveats) = Len(cap.caveats) + 1
  BY <1>1, <1>2
<1>4. <<head>> \o cap.caveats # <<>>
  BY <1>1, <1>2, <1>3
<1> QED BY <1>3, <1>4 DEF Lineage, head

\* Minted from scratch, a root's lineage is the root itself.
LEMMA RootNarrows ==
    ASSUME NEW cap \in Capability, cap.caveats = <<>>
    PROVE  Narrows(Lineage(cap, cap))
<1>1. Len(Lineage(cap, cap)) = 1 /\ Lineage(cap, cap) \in Seq(Caveat)
  <2>1. Len(cap.caveats) = 0
    OBVIOUS
  <2>2. Lineage(cap, cap) \in Seq(Caveat) /\ Len(Lineage(cap, cap)) = Len(cap.caveats) + 1
    BY LineageType
  <2> QED BY <2>1, <2>2
<1>2. DOMAIN Lineage(cap, cap) = 1 .. 1
  BY <1>1
<1> QED BY <1>2 DEF Narrows

-----------------------------------------------------------------------------
(* Decoding: the highest block id is that of the newest block.             *)

\* In a coherent capability block i of the token carries id i - 1, as
\* next_block_id assigns them.
LEMMA CoherentIds ==
    ASSUME NEW top \in Capability, NEW cap \in Capability, Coherent(top, cap)
    PROVE  /\ cap.token \in Seq(Block)
           /\ Len(cap.token) \in Nat /\ Len(cap.token) >= 1
           /\ DOMAIN cap.token = 1 .. Len(cap.token)
           /\ Len(cap.token) = Len(Lineage(top, cap))
           /\ DOMAIN cap.token = DOMAIN Lineage(top, cap)
           /\ \A i \in DOMAIN cap.token : cap.token[i].block_id = i - 1
<1>1. cap.token \in Seq(Block)
  BY DEF Capability
<1>2. Lineage(top, cap) \in Seq(Caveat) /\ Lineage(top, cap) # <<>>
  BY LineageType
<1>3. Len(cap.token) = Len(Lineage(top, cap))
  BY DEF Coherent
<1>4. Len(Lineage(top, cap)) >= 1
  BY <1>2
<1>5. DOMAIN cap.token = DOMAIN Lineage(top, cap)
  BY <1>1, <1>2, <1>3
<1>6. \A i \in DOMAIN cap.token : cap.token[i].block_id = i - 1
  <2>1. \A id, p, e, b : StateFacts(id, p, e, b).block_id = id
    BY DEF StateFacts
  <2> QED BY <1>5, <2>1 DEF Coherent
<1> QED BY <1>1, <1>3, <1>4, <1>5, <1>6

\* So the blocks with the highest id are the one appended last.
LEMMA LatestIsLast ==
    ASSUME NEW top \in Capability, NEW cap \in Capability, Coherent(top, cap)
    PROVE  LatestBlocks(cap.token) = {Last(cap.token)}
<1> DEFINE token == cap.token
           ids   == {token[i].block_id : i \in DOMAIN token}
           n     == Len(token)
<1>1. /\ n \in Nat /\ n >= 1 /\ DOMAIN token = 1 .. n
      /\ \A i \in 1 .. n : token[i].block_id = i - 1
  BY CoherentIds
<1> HIDE DEF token, n
<1>2. n - 1 \in ids /\ \A x \in ids : x \in Int /\ x <= n - 1
  <2>1. n \in DOMAIN token /\ token[n].block_id = n - 1
    BY <1>1
  <2>2. \A i \in DOMAIN token : token[i].block_id \in Int /\ token[i].block_id <= n - 1
    BY <1>1
  <2> QED BY <2>1, <2>2
<1>3. LatestId(token) = n - 1
  <2>1. \E x \in ids : \A y \in ids : x >= y
    BY <1>1, <1>2
  <2>2. Max(ids) \in ids /\ \A y \in ids : Max(ids) >= y
    BY <2>1 DEF Max
  <2>3. Max(ids) = n - 1
    <3> HIDE DEF ids
    <3> QED BY <1>1, <1>2, <2>2
  <2> QED BY <2>3 DEF LatestId
<1>4. {j \in DOMAIN token : token[j].block_id = LatestId(token)} = {n}
  BY <1>1, <1>3
<1>5. LatestBlocks(token) = {token[n]}
  BY <1>4 DEF LatestBlocks
<1> QED BY <1>5 DEF token, n, Last

\* What decode_state returns for a coherent capability.
LEMMA DecodesLast ==
    ASSUME NEW top \in Capability, NEW cap \in Capability, Coherent(top, cap)
    PROVE  /\ DecodedPermissions(cap.token) = Last(cap.token).permissions
           /\ DecodedExpiresAt(cap.token) = Last(cap.token).expires_at
           /\ DecodedBinding(cap.token) = Last(cap.token).request_binding
<1> DEFINE last == Last(cap.token)
<1>1. LatestBlocks(cap.token) = {last}
  BY LatestIsLast
<1>2. last \in Block
  BY CoherentIds DEF Last
<1> HIDE DEF last
<1>3. DecodedExpiresAt(cap.token) = last.expires_at
  BY <1>1 DEF DecodedExpiresAt
<1>4. DecodedBinding(cap.token) = last.request_binding
  BY <1>1 DEF DecodedBinding
<1>5. DecodedPermissions(cap.token) = last.permissions
  <2>1. last.permissions = [readable_roots |-> last.permissions.readable_roots,
                            writable_roots |-> last.permissions.writable_roots,
                            exec_binaries  |-> last.permissions.exec_binaries]
    BY <1>2 DEF Block, Permissions
  <2>2. /\ UNION {b.permissions.readable_roots : b \in {last}} = last.permissions.readable_roots
        /\ UNION {b.permissions.writable_roots : b \in {last}} = last.permissions.writable_roots
        /\ UNION {b.permissions.exec_binaries : b \in {last}} = last.permissions.exec_binaries
    OBVIOUS
  <2> QED BY <1>1, <2>1, <2>2 DEF DecodedPermissions
<1> QED BY <1>3, <1>4, <1>5 DEF last

\* What decode_state returns for a child: what its mirror says, except that
\* paths went through text.
LEMMA DecodedChild ==
    ASSUME NEW top \in Capability, NEW cap \in Capability, Coherent(top, cap),
           cap.caveats # <<>>
    PROVE  /\ DecodedPermissions(cap.token) =
                 [readable_roots |-> LossyPaths(cap.permissions.readable_roots),
                  writable_roots |-> LossyPaths(cap.permissions.writable_roots),
                  exec_binaries  |-> cap.permissions.exec_binaries]
           /\ DecodedExpiresAt(cap.token) = cap.expires_at
           /\ DecodedBinding(cap.token) = Last(cap.caveats).request_binding
<1> DEFINE up == Lineage(top, cap)
           n  == Len(up)
<1>2. up \in Seq(Caveat) /\ n = Len(cap.caveats) + 1 /\ cap.caveats \in Seq(Caveat)
  BY LineageType DEF Capability
<1>3. up[n] = Last(cap.caveats)
  <2>1. \A head : \A s \in Seq(Caveat) :
           s # <<>> => (<<head>> \o s)[Len(s) + 1] = s[Len(s)]
    OBVIOUS
  <2> QED BY <1>2, <2>1 DEF Lineage, Last
<1>4. n \in DOMAIN up /\ n = Len(cap.token)
  BY <1>2, CoherentIds
<1>5. Last(cap.token) = StateFacts(n - 1, cap.permissions, cap.expires_at,
                                   Last(cap.caveats).request_binding)
  BY <1>3, <1>4 DEF Coherent, Last
<1> QED BY <1>5, DecodesLast DEF StateFacts

-----------------------------------------------------------------------------
(* The gate.                                                               *)

\* What acceptance by authorize_only means, in terms of the token alone.
LEMMA AcceptsMeans ==
    ASSUME NEW cap, NEW request, NEW nonce, NEW at, NEW res,
           AuthorizeOnly(cap, request, nonce, at, res) = "ok"
    PROVE  /\ VerifyAndDecode(cap) = "ok"
           /\ ~(DecodedExpiresAt(cap.token) <= at)
           /\ Decide(DecodedPermissions(cap.token), request, res)
           /\ \/ DecodedBinding(cap.token) = NoBinding
              \/ /\ nonce # NoNonce
                 /\ DecodedBinding(cap.token) = RequestBindingFor(request, nonce)
<1> DEFINE actual == IF nonce = NoNonce THEN NoBinding ELSE RequestBindingFor(request, nonce)
<1>1. Verify(cap, at, actual) = "ok" /\ Decide(DecodedPermissions(cap.token), request, res)
  BY DEF AuthorizeOnly
<1>2. /\ VerifyAndDecode(cap) = "ok"
      /\ ~(DecodedExpiresAt(cap.token) <= at)
      /\ DecodedBinding(cap.token) = NoBinding \/ DecodedBinding(cap.token) = actual
  BY <1>1 DEF Verify
<1> QED BY <1>1, <1>2

\* Narrowing of the lineage carries over to the blocks, through the text
\* paths are stored as.
LEMMA BlocksNarrow ==
    ASSUME NEW top \in Capability, NEW cap \in Capability, Coherent(top, cap),
           Narrows(Lineage(top, cap)), NEW i \in DOMAIN cap.token
    PROVE  \/ i = Len(cap.token)
           \/ /\ PermissionsNarrower(Last(cap.token).permissions, cap.token[i].permissions)
              /\ Last(cap.token).expires_at <= cap.token[i].expires_at
<1> SUFFICES ASSUME i # Len(cap.token)
             PROVE  /\ PermissionsNarrower(Last(cap.token).permissions, cap.token[i].permissions)
                    /\ Last(cap.token).expires_at <= cap.token[i].expires_at
  OBVIOUS
<1> DEFINE up == Lineage(top, cap)
           n  == Len(cap.token)
<1>1. /\ n \in Nat /\ n >= 1 /\ DOMAIN cap.token = 1 .. n /\ DOMAIN up = 1 .. n
      /\ n = Len(up) /\ up \in Seq(Caveat)
  BY CoherentIds, LineageType
<1>2. i \in 1 .. n /\ n \in 1 .. n /\ i < n
  BY <1>1
<1>3. /\ PermissionsNarrower(up[n].permissions, up[i].permissions)
      /\ up[n].expires_at <= up[i].expires_at
  BY <1>1, <1>2 DEF Narrows
<1>4. /\ cap.token[i] = StateFacts(i - 1, up[i].permissions, up[i].expires_at, up[i].request_binding)
      /\ cap.token[n] = StateFacts(n - 1, up[n].permissions, up[n].expires_at, up[n].request_binding)
  BY <1>1, <1>2 DEF Coherent
<1>5. up[i].permissions \in Permissions /\ up[n].permissions \in Permissions
  <2>1. up[i] \in Caveat /\ up[n] \in Caveat
    BY <1>1, <1>2
  <2> QED BY <2>1 DEF Caveat
<1> HIDE DEF up, n
<1>6. PermissionsNarrower(cap.token[n].permissions, cap.token[i].permissions)
  <2>1. /\ RootsNarrower(LossyPaths(up[n].permissions.readable_roots),
                         LossyPaths(up[i].permissions.readable_roots))
        /\ RootsNarrower(LossyPaths(up[n].permissions.writable_roots),
                         LossyPaths(up[i].permissions.writable_roots))
    BY <1>3, <1>5, LossyKeepsNarrower DEF PermissionsNarrower, Permissions
  <2> QED BY <1>3, <1>4, <2>1 DEF PermissionsNarrower, StateFacts
<1>7. cap.token[n].expires_at <= cap.token[i].expires_at
  BY <1>3, <1>4 DEF StateFacts
<1> QED BY <1>6, <1>7 DEF Last, n

=============================================================================
