-------------------------------- MODULE Gate --------------------------------
(***************************************************************************)
(* The enforcement gate a tool call passes: the policy enforcement point   *)
(* (pep/src/lib.rs), the policy decision point (pdp/src/lib.rs) and the    *)
(* authorisation view of a call (tools/src/lib.rs).                        *)
(***************************************************************************)
EXTENDS Token

CONSTANT Payload  \* file contents, exec arguments, host, port and body sent

\* tools::ToolCall: what is executed.
ToolCall ==
    [tool : {"fs_read"}, target : Path]
        \cup [tool : {"fs_write"}, target : Path, payload : Payload]
        \cup [tool : {"exec"}, target : Binary, payload : Payload]
        \cup [tool : {"network"}, target : {NoTarget}, payload : Payload]

\* ToolCall::to_request: what is authorised.  The payload is dropped and a
\* path is rendered as text.
ToRequest(call) ==
    [tool   |-> call.tool,
     target |-> IF call.tool \in {"fs_read", "fs_write"}
                THEN Lossy[call.target]
                ELSE call.target]

\* request_binding_for.
RequestBindingFor(request, nonce) == [request |-> request, nonce |-> nonce]

\* Mutant: a capability is good through its last second.
VerifyInclusive(cap, now, actual_binding) ==
    IF VerifyAndDecode(cap) # "ok" THEN "SignatureChain"
    ELSE IF DecodedExpiresAt(cap.token) < now THEN "Expired"
    ELSE IF /\ DecodedBinding(cap.token) # NoBinding
            /\ DecodedBinding(cap.token) # actual_binding
    THEN "RequestBindingMismatch"
    ELSE "ok"

\* pep::verify.  An unbound token asks nothing of the invocation.
Verify(cap, now, actual_binding) ==
    IF VerifyAndDecode(cap) = "TokenStateMismatch" THEN "StateTampered"
    ELSE IF VerifyAndDecode(cap) # "ok" THEN "SignatureChain"
    ELSE IF DecodedExpiresAt(cap.token) <= now THEN "Expired"
    ELSE IF /\ DecodedBinding(cap.token) # NoBinding
            /\ DecodedBinding(cap.token) # actual_binding
    THEN "RequestBindingMismatch"
    ELSE "ok"

\* pdp::decide.  Network requests are denied under every policy there is.
Decide(permissions, request, resolve) ==
    \/ request.tool = "fs_read"  /\ AllowsRead(permissions, resolve, request.target)
    \/ request.tool = "fs_write" /\ AllowsWrite(permissions, resolve, request.target)
    \/ request.tool = "exec"     /\ AllowsExec(permissions, request.target)

\* Mutant: the signature is checked and the plaintext mirror believed.
AuthorizeOnlyMirror(cap, request, nonce, now, resolve) ==
    LET actual == IF nonce = NoNonce THEN NoBinding
                  ELSE RequestBindingFor(request, nonce)
        bound  == MirrorBinding(cap.caveats)
    IN IF DecodeResult(cap.token) # "ok" THEN "SignatureChain"
       ELSE IF cap.expires_at <= now THEN "Expired"
       ELSE IF bound \notin {NoBinding, actual} THEN "RequestBindingMismatch"
       ELSE IF Decide(cap.permissions, request, resolve) THEN "ok"
       ELSE "Denied"

\* tools::authorize_only: the PDP sees the permissions the token decodes to.
AuthorizeOnly(cap, request, nonce, now, resolve) ==
    LET actual == IF nonce = NoNonce THEN NoBinding
                  ELSE RequestBindingFor(request, nonce)
        verdict == Verify(cap, now, actual)
    IN IF verdict # "ok" THEN verdict
       ELSE IF Decide(DecodedPermissions(cap.token), request, resolve) THEN "ok"
       ELSE "Denied"

=============================================================================
