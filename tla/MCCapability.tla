---------------------------- MODULE MCCapability ----------------------------
(***************************************************************************)
(* Small instances of Capability.  The disk has a work directory /w with   *)
(* an entry /w/l, and a directory /s outside it; /w/l is either a plain    *)
(* directory or a link to /s.  /w/b stands for a name that is not UTF-8,   *)
(* and /w/.. for a path the checks refuse.                                 *)
(***************************************************************************)
EXTENDS Capability

CONSTANTS make, cat, n1, n2, d1  \* model values

Slash == <<>>
W == <<"w">>
WL == <<"w", "l">>
S == <<"s">>
WB == <<"w", "b">>
WU == <<"w", "u">>
WDots == <<"w", "..">>

MCName == {"w", "l", "s", "b", "u", ".."}
MCSafePath == {W, WL, S}
MCPath == MCSafePath \cup {WDots}
MCLossy == [p \in MCPath |-> p]

\* With a name that is not UTF-8, /w/b rendered as /w/u, and the root directory,
\* to which /w/u may be a link.
EdgePath == {Slash, W, WB, WU}
EdgeSafePath == EdgePath
EdgeLossy == [p \in EdgePath |-> IF p = WB THEN WU ELSE p]
EdgeFsStates == {[p \in EdgePath |-> IF p = WU THEN to ELSE p] : to \in {WU, Slash}}

PlainFs == [p \in MCPath |-> p]
LinkedFs == [p \in MCPath |-> IF p = WL THEN S ELSE p]
MCFsStates == {PlainFs, LinkedFs}

ManifestOf(repo, ttl, read, write, exec) ==
    [repo_root |-> repo, ttl_seconds |-> ttl, readable_roots |-> read,
     writable_roots |-> write, exec_binaries |-> exec]

\* One valid manifest, one that overlaps the link, and one per error.
MCManifests ==
    {ManifestOf(W, 4, {W}, {WL}, {make, cat}),
     ManifestOf(W, 2, {W, S}, {}, {make}),
     ManifestOf(W, 0, {W}, {}, {}),
     ManifestOf(W, 4, {W, WDots}, {}, {}),
     ManifestOf(S, 4, {W}, {}, {})}

OneManifest == {ManifestOf(W, 4, {W}, {}, {make})}

RequestOf(read, write, exec, ttl, binding) ==
    [readable_roots |-> read, writable_roots |-> write, exec_binaries |-> exec,
     ttl_seconds |-> ttl, request_binding |-> binding]

ReadWL == [tool |-> "fs_read", target |-> WL]
RunMake == [tool |-> "exec", target |-> make]

\* Equal scope, narrower scope, wider scope, with and without bindings.
MCRequests ==
    {RequestOf({W}, {WL}, {make}, 3, NoBinding),
     RequestOf({WL}, {}, {make}, 2, [request |-> ReadWL, nonce |-> n1]),
     RequestOf({WL, W}, {}, {make, cat}, 1, [request |-> RunMake, nonce |-> n2]),
     RequestOf({S}, {}, {}, 1, NoBinding),
     RequestOf({}, {W}, {}, 1, NoBinding),
     RequestOf({WDots}, {}, {}, 1, NoBinding),
     RequestOf({WL}, {WL}, {}, 1, NoBinding)}

\* A read root below the link and nothing else.
LinkRequests == {RequestOf({WL}, {}, {}, 2, NoBinding), RequestOf({W}, {}, {}, 2, NoBinding)}

\* Lifetimes on both sides of every limit of the time types, roots that are not
\* UTF-8, and the root directory as a root, by name or behind the link.
EdgeManifests ==
    {ManifestOf(W, t, {W}, {WB}, {make}) : t \in {2, 6, 8, 10, 12}}
        \cup {ManifestOf(W, 2, {W, WU}, {}, {make}),
              ManifestOf(Slash, 2, {Slash}, {WU}, {})}
EdgeRequests ==
    {RequestOf({W}, {}, {make}, t, NoBinding) : t \in {1, 4, 5, 6, 8, 10, 12}}
        \cup {RequestOf({W, WB}, {WB}, {}, 2, NoBinding),
              RequestOf({WU}, {}, {}, 1, NoBinding),
              RequestOf({WB, WU}, {}, {make}, 2, [request |-> RunMake, nonce |-> n1])}

=============================================================================
