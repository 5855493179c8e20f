------------------------------- MODULE Scope -------------------------------
(***************************************************************************)
(* The scopes a capability carries and the path and TTL checks every       *)
(* decision about them is built from: manifest/src/lib.rs and the          *)
(* PermissionSet part of capability/src/lib.rs.                            *)
(*                                                                         *)
(* A path is the sequence of its components.  What the file system makes   *)
(* of it, resolve_existing_ancestor, is the function `resolve' handed to   *)
(* every operator that consults the disk: two calls that pass different    *)
(* functions are two calls between which the disk changed.  The network    *)
(* policy has one value, DenyAll, and is therefore not a field.            *)
(***************************************************************************)
EXTENDS Integers, Sequences, SequencesExt

CONSTANTS
    Name,         \* path components
    Path,         \* the paths that occur, sequences of components
    SafePath,     \* those that are absolute and hold no . or .. component
    Binary,       \* names of executables
    Rfc3339Max,   \* last second whose RFC 3339 text parses back (year 9999)
    TimeMax,      \* last second a DateTime<Utc> can hold
    DurationMax,  \* longest Duration, i64::MAX / 1000 seconds
    I64Max        \* i64::MAX

ASSUME PathAssumption ==
    /\ Path \subseteq Seq(Name)
    /\ SafePath \subseteq Path

ASSUME TimeAssumption ==
    /\ Rfc3339Max \in Nat /\ TimeMax \in Nat
    /\ DurationMax \in Nat /\ I64Max \in Nat
    /\ Rfc3339Max < TimeMax /\ TimeMax < DurationMax /\ DurationMax < I64Max

\* PermissionSet.
Permissions ==
    [readable_roots : SUBSET Path,
     writable_roots : SUBSET Path,
     exec_binaries  : SUBSET Binary]

\* A resolution of every path against one state of the disk; checked_path
\* returns absolute paths without . and .. again, and / for /.
Resolution ==
    {f \in [Path -> Path] :
        \A p \in SafePath : f[p] \in SafePath /\ (p = <<>> => f[p] = <<>>)}

-----------------------------------------------------------------------------
(* Paths.                                                                  *)

\* Path::starts_with compares whole components.
StartsWith(path, root) == IsPrefix(root, path)

IsUnderAnyRoot(path, roots) == \E root \in roots : StartsWith(path, root)

\* checked_path fails on an unsafe path and otherwise resolves it.
PathIsSafe(path) == path \in SafePath

CheckedPath(resolve, path) == resolve[path]

\* checked_paths fails if one path fails.
PathsAreSafe(paths) == \A p \in paths : PathIsSafe(p)

CheckedPaths(resolve, paths) == {CheckedPath(resolve, p) : p \in paths}

-----------------------------------------------------------------------------
(* What a permission set allows.  Every call resolves the path anew.       *)

\* Mutant: the path is compared as it was written, not as it resolves.
AllowsReadUnresolved(permissions, resolve, path) ==
    PathIsSafe(path) /\ IsUnderAnyRoot(path, permissions.readable_roots)

AllowsRead(permissions, resolve, path) ==
    /\ PathIsSafe(path)
    /\ IsUnderAnyRoot(CheckedPath(resolve, path), permissions.readable_roots)

AllowsWrite(permissions, resolve, path) ==
    /\ PathIsSafe(path)
    /\ IsUnderAnyRoot(CheckedPath(resolve, path), permissions.writable_roots)

AllowsExec(permissions, binary) == binary \in permissions.exec_binaries

\* Mutant: requested roots are compared unresolved.
ContainsAllRootsUnresolved(parent_roots, resolve, requested) ==
    \A r \in requested : PathIsSafe(r) /\ IsUnderAnyRoot(r, parent_roots)

ContainsAllRoots(parent_roots, resolve, requested) ==
    \A r \in requested :
        /\ PathIsSafe(r)
        /\ IsUnderAnyRoot(CheckedPath(resolve, r), parent_roots)

ContainsAllExec(permissions, requested) ==
    \A b \in requested : b \in permissions.exec_binaries

\* Mutant: the writable roots are looked at.
LintWritable(permissions) == {r \in permissions.writable_roots : r = <<>>}

\* linter::lint: the readable roots that are the root directory.
Lint(permissions) == {r \in permissions.readable_roots : r = <<>>}

-----------------------------------------------------------------------------
(* Expiry.  A TTL is a u64; it becomes an i64, then a chrono Duration,     *)
(* then is added to a DateTime.  Each conversion has a limit of its own,   *)
(* and the middle one, Duration::seconds, panics instead of failing.       *)

\* Mutant: the addition is not checked.
ExpiryResultUnchecked(now, ttl) ==
    IF ttl > I64Max THEN "TtlOverflow" ELSE IF ttl > DurationMax THEN "panic" ELSE "ok"

ExpiryResult(now, ttl) ==
    IF ttl > I64Max THEN "TtlOverflow"
    ELSE IF ttl > DurationMax THEN "panic"
    ELSE IF now + ttl > TimeMax THEN "TtlOverflow"
    ELSE "ok"

\* Its value when the result is "ok".
CheckedExpiresAt(now, ttl) == now + ttl

-----------------------------------------------------------------------------
(* The manifest.                                                           *)

Manifest ==
    [repo_root      : Path,
     ttl_seconds    : Nat,
     readable_roots : SUBSET Path,
     writable_roots : SUBSET Path,
     exec_binaries  : SUBSET Binary]

\* TaskManifest::validate, its checks in the order of the code.
ValidateManifest(m) ==
    IF m.ttl_seconds = 0 THEN "EmptyTtl"
    ELSE IF ~PathsAreSafe({m.repo_root} \cup m.readable_roots \cup m.writable_roots)
         THEN "UnsafePath"
    ELSE IF m.repo_root \notin m.readable_roots THEN "RepoRootNotReadable"
    ELSE "ok"

\* PermissionSet::from_manifest; validation has ruled unsafe paths out.
FromManifest(m, resolve) ==
    [readable_roots |-> CheckedPaths(resolve, m.readable_roots),
     writable_roots |-> CheckedPaths(resolve, m.writable_roots),
     exec_binaries  |-> m.exec_binaries]

-----------------------------------------------------------------------------
(* The order attenuation moves down: every root of `narrow' lies under a   *)
(* root of `wide', every binary is one of wide's.                          *)

RootsNarrower(narrow, wide) == \A r \in narrow : IsUnderAnyRoot(r, wide)

PermissionsNarrower(narrow, wide) ==
    /\ RootsNarrower(narrow.readable_roots, wide.readable_roots)
    /\ RootsNarrower(narrow.writable_roots, wide.writable_roots)
    /\ narrow.exec_binaries \subseteq wide.exec_binaries

=============================================================================
