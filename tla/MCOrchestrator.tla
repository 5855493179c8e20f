--------------------------- MODULE MCOrchestrator ---------------------------
(***************************************************************************)
(* Small instances of Orchestrator.  The work directory /w is readable,    *)
(* /w/l and /s are writable.  /w/l is at times a link: to /s, to a /w/u    *)
(* that is not there, or to /w/b, a name that is not UTF-8 and is rendered *)
(* as /w/u.                                                                *)
(***************************************************************************)
EXTENDS Orchestrator

CONSTANTS make, data  \* model values

W == <<"w">>
WL == <<"w", "l">>
WB == <<"w", "b">>
WU == <<"w", "u">>
S == <<"s">>
WDots == <<"w", "..">>

MCName == {"w", "l", "b", "u", "s", ".."}
MCSafePath == {W, WL, WB, WU, S}
MCPath == MCSafePath \cup {WDots}
MCLossy == [p \in MCPath |-> IF p = WB THEN WU ELSE p]

\* A disk on which /w/l is a link to another path, or itself for none.
LinkTo(path) == [p \in MCPath |-> IF p = WL THEN path ELSE p]
NoDangling == [p \in {} |-> p]

MCFsStates ==
    {[resolve |-> LinkTo(path), dangling |-> NoDangling] : path \in {WL, S, WB}}
        \cup {[resolve |-> LinkTo(WL), dangling |-> [p \in {WL} |-> WU]]}

ManifestOf(repo, ttl) ==
    [repo_root |-> repo, ttl_seconds |-> ttl, readable_roots |-> {W},
     writable_roots |-> {WL, S}, exec_binaries |-> {make}]

\* A root that lives as long as a child, so that a second later it is too
\* short, with one root that may become a link into another or out of both; and
\* a manifest that is refused.
MCManifests == {ManifestOf(W, 1), ManifestOf(S, 4)}

ReadOf(target) == [tool |-> "fs_read", target |-> target]
CallOf(tool, target) == [tool |-> tool, target |-> target, payload |-> data]

\* Two calls whose outcome and effect depend on the disk, and a program of the
\* list.
MCCalls ==
    {ReadOf(WL), CallOf("fs_write", WL), CallOf("exec", make)}

\* Picked, which proofs can be written about, is SelectSeq.
ASSUME PickedIsSelectSeq ==
    \A n \in 0 .. 4 : \A s \in [1 .. n -> 1 .. 4] :
        Picked(s, {i \in DOMAIN s : s[i] > 2}) = SelectSeq(s, LAMBDA x : x > 2)

=============================================================================
