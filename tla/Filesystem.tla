----------------------------- MODULE Filesystem -----------------------------
(***************************************************************************)
(* resolve_existing_ancestor of capability/src/lib.rs against a disk with  *)
(* directories, files and symbolic links, next to the walk the operating   *)
(* system does when tools::execute opens the same path.  The other modules *)
(* take `resolve' as given; this one says what it is.                      *)
(*                                                                         *)
(* Links hold absolute paths.  Permissions are left out: every directory   *)
(* can be searched.                                                        *)
(***************************************************************************)
EXTENDS Integers, Sequences, SequencesExt, FiniteSets

CONSTANTS
    Name,          \* path components
    MaxDepth,      \* depth of the entries of the disk
    MaxQuery,      \* depth of the paths asked about
    MaxLinks,      \* links the system follows before it gives up
    NotFound,      \* why an open fails: ENOENT or ENOTDIR,
    TooManyLinks   \* or ELOOP

ASSUME FilesystemAssumption ==
    MaxDepth \in Nat \ {0} /\ MaxQuery \in Nat /\ MaxLinks \in Nat

Failure == {NotFound, TooManyLinks}

ASSUME FailureAssumption ==
    NotFound # TooManyLinks /\ Failure \cap Seq(Name) = {}

PathsTo(depth) == UNION {[1 .. n -> Name] : n \in 0 .. depth}

Entry == PathsTo(MaxDepth)
Query == PathsTo(MaxQuery)

Kinds == {"absent", "file", "dir", "link"}

VARIABLES
    kind,    \* what is at each path
    target   \* where the links among them point

vars == <<kind, target>>

Parent(p) == Front(p)

Children(p) == {q \in Entry : q # <<>> /\ Parent(q) = p}

-----------------------------------------------------------------------------
(* The operating system's path walk.                                       *)

KindAt(p) == IF p \in Entry THEN kind[p] ELSE "absent"

\* A walk that has come to `at', with the components `rest' to go and `links'
\* links it may still follow.
Stop(w, why) == [at |-> why, rest |-> <<>>, links |-> w.links]

\* One component.  With create, the last one may be missing, as when a file is
\* opened for writing.
Follow(w, create) ==
    LET next == Append(w.at, Head(w.rest))
        more == Tail(w.rest)
    IN IF w.at \in Failure THEN Stop(w, w.at)
       ELSE IF KindAt(w.at) # "dir" THEN Stop(w, NotFound)
       ELSE IF KindAt(next) = "link"
       THEN IF w.links = 0 THEN Stop(w, TooManyLinks)
            ELSE [at |-> <<>>, rest |-> target[next] \o more, links |-> w.links - 1]
       ELSE IF KindAt(next) # "absent" \/ (create /\ more = <<>>)
       THEN [at |-> next, rest |-> more, links |-> w.links]
       ELSE Stop(w, NotFound)

Step(w, create) == IF w.rest = <<>> THEN w ELSE Follow(w, create)

\* More steps than these there cannot be: a link costs one and adds at most
\* the components of an entry.
Steps(w) == Len(w.rest) + w.links * MaxDepth

Walk(w, create) ==
    LET walked[n \in 0 .. Steps(w)] ==
            IF n = 0 THEN w ELSE Step(walked[n - 1], create)
    IN walked[Steps(w)]

FromRoot(p) == [at |-> <<>>, rest |-> p, links |-> MaxLinks]

\* What opening the path for reading and for writing reaches, or why it fails.
ReachedByRead(p) == Walk(FromRoot(p), FALSE).at

ReachedByWrite(p) == Walk(FromRoot(p), TRUE).at

\* Path::exists and Path::canonicalize follow links; exists() is false for
\* every failure.
Exists(p) == ReachedByRead(p) \notin Failure

Canonicalize(p) == ReachedByRead(p)

-----------------------------------------------------------------------------

\* Mutant: nothing is canonicalised.
ResolveLexically(p) == p

\* Mutant: the search starts at the parent, the last component is kept.
ResolveParentOnly(p) ==
    IF p = <<>> THEN p
    ELSE LET depth == Max({n \in 0 .. Len(p) - 1 : Exists(SubSeq(p, 1, n))})
         IN Canonicalize(SubSeq(p, 1, depth)) \o SubSeq(p, depth + 1, Len(p))

\* Mutant: a link is read once instead of being followed to the end.
ResolveOneLink(p) ==
    LET depth == Max({n \in 0 .. Len(p) : Exists(SubSeq(p, 1, n))})
        head  == SubSeq(p, 1, depth)
    IN (IF KindAt(head) = "link" THEN target[head] ELSE head) \o SubSeq(p, depth + 1, Len(p))

\* resolve_existing_ancestor: the longest prefix that exists, canonical, and
\* the rest of the path as it stands.
ResolveExistingAncestor(p) ==
    LET depth == Max({n \in 0 .. Len(p) : Exists(SubSeq(p, 1, n))})
    IN Canonicalize(SubSeq(p, 1, depth)) \o SubSeq(p, depth + 1, Len(p))

-----------------------------------------------------------------------------
(* Whoever else uses the disk creates and removes entries; the program     *)
(* itself writes files (ToolCall::FsWrite).                                *)

Init ==
    /\ kind = [p \in Entry |-> IF p = <<>> THEN "dir" ELSE "absent"]
    /\ target = [p \in Entry |-> <<>>]

Vacant(p) == p # <<>> /\ kind[p] = "absent" /\ kind[Parent(p)] = "dir"

Create(p, k) ==
    /\ Vacant(p)
    /\ kind' = [kind EXCEPT ![p] = k]
    /\ UNCHANGED target

Link(p, to) ==
    /\ Vacant(p)
    /\ kind' = [kind EXCEPT ![p] = "link"]
    /\ target' = [target EXCEPT ![p] = to]

Delete(p) ==
    /\ p # <<>> /\ kind[p] # "absent"
    /\ \A q \in Children(p) : kind[q] = "absent"
    /\ kind' = [kind EXCEPT ![p] = "absent"]
    /\ target' = [target EXCEPT ![p] = <<>>]

\* std::fs::write creates the file it reaches unless it is there.
FsWrite(p) ==
    /\ ReachedByWrite(p) \in Entry
    /\ KindAt(ReachedByWrite(p)) \in {"absent", "file"}
    /\ kind' = [kind EXCEPT ![ReachedByWrite(p)] = "file"]
    /\ UNCHANGED target

Next ==
    \/ \E p \in Entry, k \in {"file", "dir"} : Create(p, k)
    \/ \E p \in Entry, to \in Entry : Link(p, to)
    \/ \E p \in Entry : Delete(p)
    \/ \E p \in Query : FsWrite(p)

Spec == Init /\ [][Next]_vars

-----------------------------------------------------------------------------
(* Properties.                                                             *)

\* Where a read succeeds, the path the decision was made about is the path
\* that is read, through any number of links.
ReadsWhatWasResolved ==
    \A p \in Query :
        ReachedByRead(p) \notin Failure => ResolveExistingAncestor(p) = ReachedByRead(p)

Dangling(p) == KindAt(p) = "link" /\ ReachedByRead(p) = NotFound

\* Where a write succeeds, so is the path that is written, unless what was
\* resolved is a link that points to nothing: the write makes its target.
WritesWhatWasResolved ==
    \A p \in Query :
        ReachedByWrite(p) \notin Failure =>
            \/ ResolveExistingAncestor(p) = ReachedByWrite(p)
            \/ Dangling(ResolveExistingAncestor(p))

\* Resolving a resolved path changes nothing: the roots stored in a capability
\* still are what they were when they are resolved again for its children.  A
\* path on which the system runs out of links is the exception: from the
\* resolved path on, the same links may suffice.
ResolutionIdempotent ==
    \A p \in Query :
        ReachedByRead(p) # TooManyLinks =>
            ResolveExistingAncestor(ResolveExistingAncestor(p)) = ResolveExistingAncestor(p)

=============================================================================
