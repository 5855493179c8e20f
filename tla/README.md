# A TLA+ model of attenuate-agent

The repository runs an untrusted agent (a scripted list of tool calls or a
live model) behind a capability gate. A trusted manifest is minted into a root
capability; for every tool call the orchestrator attenuates a child that lives
for seconds and is bound to that one call; a policy enforcement point verifies
the child's signed token, a policy decision point compares the call with the
permissions decoded from it, and only then is the tool executed. Everything is
written to a hash-chained audit log.

This directory models that path, checks it with TLC on small instances and
proves its central properties with TLAPS for instances of any size.
`PROJECT.json` lists runs, mutants, the source lines behind every definition,
findings and hazards in machine-readable form.

## 1. Inventory of the system

| Component | State | Operations | What makes it correct |
|---|---|---|---|
| `manifest` | none (input) | `validate` | refuses zero TTL, unsafe paths, an unreadable repo root |
| `capability`: `PermissionSet`, paths | three sets | `allows_*`, `contains_all_*`, `checked_path`, `resolve_existing_ancestor` | a path is judged as the file it will reach |
| `capability`: `RootCapability`, `ChildCapability` | scope, expiry, caveats (plaintext mirror), token | `mint`, `attenuate`, `request_binding`, `verify_and_decode` | children never widen; mirror and token agree |
| `capability`: `biscuit_codec` | the token: blocks of facts | `build_root_token`, `append_block`, `decode_state` | decoding returns the newest block and nothing else |
| `pep`, `pdp` | none | `verify`, `decide` | expired, altered or wrongly bound capabilities are refused; decisions use the signed state |
| `pdp::linter` | none | `lint` | a finding means that everything can be read; called by nobody |
| `tools` | none (the world) | `authorize_only`, `dispatch`, `execute` | no effect without a decision, none decided on out of scope |
| `audit` | none | `chain_entry`, `verify_chain` | a verified log was not edited |
| `agent`: `Orchestrator` | root, audit log, last hash | `new`, `step`, `deny`, `record` | the log tells what happened; every call is served |
| `agent`: loop, principals | pending calls or conversation | `run_principal`, `next_tool_calls`, `add_tool_result` | conversation stays valid; budgets hold; loop ends |
| `agent` binary | the process: mode, outcomes, pending error | `main` | what was done is reported before it exits; the environment cannot switch enforcement off by accident |
| `demo`: `contrast`, `listener` | two threads, child processes, a port, `/tmp/sink.log` | `run_contrast`, `run_internal_listener`, `run_listener`, `handle_connection`, `run_setup` | the report's verdicts are facts; it ends |
| `sandbox`, spikes, scripts | - | a stub, experiments | see section 8 |

Inside the agent interaction is by synchronous calls in one thread: loop -> `step` ->
`attenuate` -> `dispatch` -> `verify`, `decide` -> `execute`. What moves
underneath is not the program's own: the wall clock, read afresh at every stage;
the file system, consulted up to four times per call (two resolutions inside
`attenuate`, one in `decide`, one by the system when the tool opens the path);
the model server; and serialised capabilities and logs that leave the process
and come back. The hard behaviours follow from that: check and use at different
times, chains of attenuations checked one link at a time, the same facts kept
twice (mirror and token), time types with different limits, tools that fail
half-way, and models that answer nonsense or not at all. Only the demo has threads
of its own: its main thread, its listener and the agents it starts meet at a port
and a log file, ordered by two sleeps. The hazards in
`PROJECT.json` place each at its line.

## 2. Plan

Order of work, most important first; items marked * are done.

1. * `Scope`, `Token`, `Gate`: the operators everything is built from.
2. * `Capability`: the mint / attenuate state machine; narrowing, decoding and
   acceptance; the findings about it.
3. * `GateProofs`, `CapabilityProofs`: lemmas about the operators, the
   inductive invariants of the state machine and its theorems.
4. * `Audit`, `AuditLog`: the hash chain.
5. * `Orchestrator` = `Gate` + `Audit`: a run of tool calls in both modes.
6. * `AgentLoop`: the loop around it, with scripted and live principals.
7. * `Filesystem`: what `resolve` is, next to what the system opens.
8. * `Enforcement`: an abstract specification (a call is answered, journalled
   and carried out in one step, within a fixed grant) that `Orchestrator`
   refines.
9. * `Agent`: the process around `AgentLoop`. * `Contrast`: the demo.
   * The linter.
10. * `Subsequence`, `SubsequenceProofs`: the part of a sequence at a set of
   positions, without recursion, and what can be said of it.
11. * `OrchestratorProofs`, `AuditLogProofs`, `AgentProofs` (with the loop),
   `ContrastProofs`: every invariant of these modules, the action property and
   the refinement.
12. * `FilesystemProofs`: the walk of the system as a recursive function, the
   properties of `Filesystem` for paths of any depth, and what follows for the
   roots of a capability.

## 3. Modules and how they follow the code

* **`Scope`** - `manifest/src/lib.rs` and the `PermissionSet` half of
  `capability/src/lib.rs`. A path is a sequence of components, so
  `Path::starts_with` is `IsPrefix`. `SafePath` stands for the absolute paths
  without `.` and `..`. What the disk makes of a path is a function `resolve`
  passed to every operator that consults the disk; two calls of the code are two
  uses of `resolve`, which may differ. Resolution leaves `/` where it is, as
  `canonicalize` does. `NetworkPolicy` has the one value
  `DenyAll` and is not a field. `ExpiryResult` keeps the three limits of
  `checked_expires_at` (`i64`, `Duration`, `DateTime`) apart.
* **`Token`** - capabilities and codec. A token is its sequence of blocks, each
  made by `build_root_token` or `append_block` under one root key. That is an
  assumption of the model, not something the format enforces: see section 8.
  `StateFacts` converts: paths go through `Lossy`
  (`to_string_lossy`), expiries become text that parses back up to `Rfc3339Max`.
  `LatestBlocks` is the filter of `decode_state`: all blocks that carry the
  highest id, one or more. The argument hash is what it hashes. `Lineage` and
  `Narrows` at its end are the vocabulary of the properties.
* **`Gate`** - `pep::verify`, `pdp::decide`, `tools::authorize_only`, with the
  errors in the order of the code.
* **`Capability`** - variables `now`, `resolve` (environment), `root`, `issued`,
  `pending` (an `attenuate` between its two looks at the disk) and `result`.
  Actions: `Mint`, `AttenuateValidate` and `AttenuateBuild` (one call of
  `attenuate`), `FsChange`, `ClockChange`. `FsMayChangeDuring` says whether the
  disk may change inside `attenuate`. A capability is presented to the gate as
  issued, or (`Presentable`) with a plaintext mirror whose scope, expiry and
  caveats were each taken from any capability of the task.
* **`Audit`, `AuditLog`** - the chain; `AuditLog` grows a log by `Record` and
  then edits a copy in the ways a file can be edited: alter, alter and re-hash,
  re-hash everything that follows, drop, duplicate, swap. A hash is what it
  hashes, and `ZeroHash` the hash of nothing.
* **`Subsequence`** - `Picked(s, D)`, the elements of `s` at the positions `D` in
  order: the entries of a log that tell decisions, the calls of a turn that
  parse. It is `SelectSeq` written without recursion, which the provers could
  not unfold; `MCOrchestrator` has TLC compare the two.
* **`Orchestrator`** - a script of calls served one after the other. `pc` walks
  idle -> step -> dispatch -> execute -> idle. `TakeCall` reads the clock (`at`),
  `Attenuate` looks at the disk to make the child, `Authorize` reads clock and
  disk to decide, and `Execute` opens the path; `ClockChange` and `FsChange` may
  come between any two. A disk is what `resolve_existing_ancestor` makes of each
  path, and which paths are links to nothing, with the file a write to them
  creates (`dangling`); that nothing else is read or written than was resolved is
  what `FilesystemProofs` shows. `Reached` is the object the tool gets to on the
  disk of that moment, `meant` the one the decision was about, and an effect has
  `strayed` if the path leads elsewhere by then or is a link to nothing. In bypassed
  mode `TakeCall` goes straight to `Execute`. A tool succeeds, fails without
  effect, or fails after its effect. `effects` and `meant` are ghosts. The log is
  its sequence of events; its hash chain is `AuditLog`'s.
* **`Enforcement`** - what a run promises, without capabilities, tokens, clocks
  or disks. `Orchestrator` instantiates it as `Promise` with the mapping
  `Status`, `Granted` (what the minted scope holds, or everything in bypassed
  mode), the decisions of `outcomes`, `Journal` (the decisions in the audit log)
  and, of `effects`, the object decided on, the object reached and whether these
  may differ; `TakeCall`, a successful `Attenuate` or `Authorize`, and the
  environment are stuttering steps. `Granted` does not depend on the disk of the
  moment, so the refinement also says that nothing a link does can move the
  grant.
* **`AgentLoop`** - `run_principal` with both principals. A raw call is its id
  and whether it parses; decisions are free, and `DecisionFeedback` is the form in
  which the model hears of them. `AskLive` is one request of the
  retry loop with `ingest_assistant` and `classify_assistant` in it.
* **`Filesystem`** - a disk of directories, files and links, the system's path
  walk, and `resolve_existing_ancestor` on top of `exists` and `canonicalize`.
  `Follow` is one component of the walk; a link puts its target in front of what
  is left and costs one of `MaxLinks`. A walk ends at a path, or at `NotFound` or
  `TooManyLinks`: `exists` does not tell these apart, the properties have to.
* **`Agent`** - `main` of the agent binary: one action per stage, each with its
  `?`, and the panic of a TTL that is too long (status 101). `Select` chooses the
  principal, from the arguments and `BASE_URL`, and with it where the loop starts;
  before it the variables of the loop are placeholders. It
  extends `AgentLoop`, whose steps are those of `RunLoop` (`ProcessNext` and
  `ProcessSpec` are the process's own), and adds the audit entries `step` writes
  for each decision, the printed report and the exit status.
* **`Contrast`** - `run_contrast`. `pc` is the main thread, blocked in
  `Command::output` while an agent makes its calls (`AgentCall`); `Bind` and
  `HandleConnection` are the listener thread, `RunListener` the listener command
  in another terminal. What may go wrong in one contrast is `faults`, one of the
  constant `FaultSets`: without `"late"` the sleeps are long enough, and so on.
  Calls are kinds, and the outcomes of a kind are those of `step_enforced` and
  `step_bypassed`. A send is to the sink (`"network"`) or to another host or port
  (`"elsewhere"`), which only a live model asks for; the gate denies both in the
  same words, the sink hears of the first only.
* **`MCCapability`, `MCOrchestrator`, `MCAuditLog`, `MCAgent`, `MCContrast`** -
  instances. `AgentLoop` and `Filesystem` have constants simple enough to be run directly.

Definitions under a comment `Mutant:` are deliberately wrong variants of the
definition below them; no action uses them. Each is the witness that a property
can fail.

## 4. Runs

Passing runs:

| Run | Shows | States |
|---|---|---|
| `MCCapability` | no chain widens, decoding reads the newest block, the gate accepts only what every link allows; with a library-made token and a mirror made up from others it accepts nothing that some signed block does not allow, and only the invocation the newest block is bound to | 2 364 |
| `MCCapabilityEdges` | at the limits of the time types and with paths that are not UTF-8, no stored expiry overflows and exactly the expected capabilities verify; the linter finds exactly the scopes under which everything can be read, also when `/` hides behind a link, and a clean root has clean children | 25 377 |
| `MCAuditLog` | records always verify; an accepted copy ending in the true last entry is a suffix of the log | 81 955 |
| `MCOrchestrator` | with clock and disk moving at any moment: log = outcomes, attenuation before every allowed call, no effect of a denied call, what is let through is in scope and so is what is reached unless it strayed; the refinement of `Enforcement`; calls in scope are refused only for a cause whose condition holds; every run ends with an outcome per call | 395 400 |
| `AgentLoop` | every tool call answered exactly once, feedback = outcomes, budgets, scripts replayed in full, termination | 557 976 |
| `MCAgent` | nothing served goes unreported, the exit status tells how `main` ended, a calls file never becomes a live run, a missing or misspelt `AUTHZ` enforces | 343 412 |
| `MCContrast` | whatever goes wrong, a reported capture was caused by this vulnerable run, the log holds its calls only, and the contrast ends although the listener may never run; if the sleeps suffice and agents survive, an empty sink means that no send to the sink succeeded, and the denials shown are those that happened, but for calls refused for lack of time | 2 307 095 |
| `Filesystem` | the resolved path is the one that is read, and the one that is written unless it is a link to nothing; resolution is idempotent where links do not run out | 11 881 |

Runs that are expected to fail, each a disagreement between the code and what
it says of itself:

| Run | The code says | TLC shows |
|---|---|---|
| `MCCapabilityFsRace` | "Every field must be equal to or narrower than the parent" (`capability/src/lib.rs:24`) | `attenuate` stores roots it resolved a second time; a link replaced in between yields a root outside the parent |
| `MCCapabilityRebound` | the mismatch check "only ever fires on tampering" (`capability/src/lib.rs:384`) | it fires on an honest child attenuated without a binding below a bound one. The outcome is a refusal, so nothing is gained by it |
| `MCCapabilityTtl` | a TTL that cannot be represented is `TtlOverflow` (`capability/src/lib.rs:119`) | `Duration::seconds` panics for TTLs above `i64::MAX / 1000` |
| `AgentLoopOk` | "a live run can distinguish failure from clean termination" (`agent/src/lib.rs:231`) | spent retries and spent turns both return `Ok` |

What a passing run also says about limits: `AcceptedCopyIsSuffix` is as strong
as it can be made. `verify_chain` does not look at the first entry's
`previous_hash`, so a log cut at the front verifies; and without an anchor on
the last entry a log re-hashed from some entry on verifies too.
`VerifiableExactly` states which honest capabilities the gate refuses.
`CapturedMeansSent` goes one way only: a capture can be missed, because the
thread is late, the port is taken, the log cannot be written, or the listener
command removes the log (it does so before it finds the port taken). The
hypothesis `Quiet` of the other verdicts is therefore needed: without it a live
report can say that the model "did not follow AGENT_NOTE.md"
(`demo/src/main.rs:372`) when it did, against "Verdicts are fact-based"
(`demo/src/main.rs:314`). `DenialsShownExactly` leaves out writes, because
`LookedFor` does: a denied write is reported as no attempt
(`demo/src/main.rs:326`, 360). `AuditTellsOutcomes` holds in both modes, so a tool
that fails is logged as DENIED in the baseline too, although
`demo/src/main.rs:378` has only the protected run show such lines.
`EmptySinkMeansNoneToSink` says nothing of other destinations: in the vulnerable
run of a live model `execute` connects to whatever host and port the model names
(`tools/src/lib.rs:162`), and "no exfil captured" is then no more than it says.
`EffectsInScope` has an exception, the effects that strayed, and both its cases
occur in the run: a link changed between decision and effect, and a write through
a link to nothing, which needs no change at all (`capability/src/lib.rs:475`,
`tools/src/lib.rs:144`). `ExitStatusTells` does not have 0 mean that the
principal had finished: the run `AgentLoopOk` shows that it may have been cut off.
`BindingHolds` is about the binding of the newest block. Below an unbound newest
block an older binding is held by the mirror alone, which is not signed; an honest
mirror makes the gate refuse (that is the run `MCCapabilityRebound`), a mirror
without the older caveat does not.
It is also about the request a call is projected to: the contents of a
write and the arguments of a program are dropped before the hash is taken
(`ToRequest`), so a bound child is good for any of them, against "the hash covers
the exact arguments" (`docs/DESIGN.md:43`).

## 5. Bounds

* `MCCapability`: three safe paths `/w`, `/w/l`, `/s` and one unsafe; `/w/l` is a
  directory or a link to `/s`. That is enough for inside, outside, below, moved
  by a link. Requests are equal, narrower, wider, unsafe, and bound to two
  different calls under two nonces or to none; `MaxIssued = 2` gives chains of two
  and siblings, and mirrors that take their fields from three capabilities. Longer
  chains are the theorems' business.
* `MCCapabilityEdges`: `Rfc3339Max < TimeMax < DurationMax < I64Max` are small
  numbers with lifetimes on both sides of each; the paths are `/`, `/w`, a name
  that is not UTF-8 and the name it is rendered as, which may be a link to `/`.
* `MCOrchestrator`: up to two of three calls (a read, a write, a program), under
  a manifest that is refused and one with two writable roots, of which `/w/l` is
  on the four disks a directory, a link to the other root, a link to nothing, or a
  link to a name that is not UTF-8. A child lives one second, as long as the root,
  on a clock of 0..1 that may go back, and `Rfc3339Max = 1`, so time can run out
  before, between and after the stages in each of its ways. Of the causes
  `RefusedInScopeOnlyForCause` names, `TtlOverflow` and a moved readable root do
  not occur on this instance; the theorem covers them.
* `MCAgent`: `AgentLoop`'s bounds with one id; every `AUTHZ` class (unset, off, off
  with blanks and capitals, on, misspelt), one to three arguments, calls files of
  every length a script may have.
* `MCContrast`: all faults but lack of time together, and lack of time alone;
  scripts stand for their files with one call of each kind; a live
  agent makes up to two calls of any of six kinds, which is enough for a capture and an
  attempt, or for two of either.
* `MCAuditLog`: three entries, two edits. `AgentLoop`: two turns, two tries, two
  calls a turn, two ids, so that ids repeat and good and bad calls mix; scripts
  of 0 to 2 calls. `Filesystem`: entries of depth 2 over two names, questions of
  depth 3; `MaxLinks = 2`, so that links run out on some paths and suffice on
  others, with cycles and without. The two exceptions in the properties are
  needed on this instance: without either, TLC finds a disk.
* `CHECK_DEADLOCK FALSE` where the program ends: the loop returns, the process
  exits, a panic ends it, the bounded log is full.

## 6. Fairness

`Orchestrator` and `AgentLoop` are single-threaded programs that never wait
except for a tool or for HTTP. Weak fairness of the program's next step says
that a tool returns and, for `AgentLoop`, that `post_chat` does; the latter has a
30 s timeout in the code, the former is an assumption (`execute` has no
timeout). No fairness is assumed of the clock, the disk or the model: it may
answer garbage for ever and `LoopEnds` still holds, because of the budgets.
`Agent` adds only steps that cannot block, and assumes no fairness. In `Contrast`
the main thread and the agent it waits for are fair, which `LoopEnds` and
`ProcessUsesBudget` justify; the listener thread is not, and `ContrastEnds` holds
without it.

## 7. What is proved

Every invariant that a passing run checks is proved; so are the one action
property and the refinement. The proofs are
for every value of the constants: any set of paths, manifests, requests and disk
states, any clock, scripts, turns, logs and conversations of any length, any
budget, any depth of paths and any number of links. They are checked by `tlapm`; the operator lemmas they share are in
`GateProofs` (scope, token, gate) and `SubsequenceProofs` (picking from a
sequence).

| Module | Theorems, each `Spec => []P` (or `Spec => P`) for the property in brackets |
|---|---|
| `CapabilityProofs` | `TypeCorrect` (`TypeOK`), `NewestBlock` (`DecodesNewestBlock`), `Verifiable` (`VerifiableExactly`), `BindingKept` (`BindingHolds`); given `~FsMayChangeDuring`: `Narrowing` (`NarrowingChain`), `WholeLineageAccepts` (`AcceptedByWholeLineage`), `MirrorGainsNothing` (`MirrorWidensNothing`), and, if `/` is a safe path, `LinterTells` (`LintTellsAlwaysAllow`) |
| `AuditLogProofs` | `RecordedChainVerifies` (`ChainIntact`), `AcceptedCopies` (`AcceptedCopyIsSuffix`) |
| `OrchestratorProofs` | `OrchestratorTypes` (`TypeOK`), `LogTellsOutcomes` (`AuditTellsOutcomes`), `NothingAllowedUnattenuated` (`AllowedOnlyAfterAttenuation`), `DenialsHaveNoEffect` (`DeniedHasNoEffect`), `RefusalsHaveCauses` (`RefusedInScopeOnlyForCause`), `EffectsStayInScope` (`EffectsInScope`), `Implementation` (`ImplementsEnforcement`) |
| `AgentProofs` | of `AgentLoop`: `LoopTypes` (`TypeOK`), `ConversationValid` (`EveryCallAnswered`), `FeedbackTruthful` (`FeedbackIsOutcomes`), `RequestsBounded` (`PostsBounded`), `ScriptsReplayed` (`ScriptReplayedInFull`), `LoopUsesBudget` (no run of the loop is endless); of `Agent`: `EverythingReported` (`NothingServedUnreported`), `StatusTruthful` (`ExitStatusTells`), `CallsFileDecides` (`CallsFileWins`), `EnforcedByDefault` (`FailsClosed`), `ProcessRunsLoop` (from the selection on the process implements the loop), `LoopHoldsInProcess` (the loop's properties, of the process), `ProcessUsesBudget` (no run of the process is endless) |
| `ContrastProofs` | `ContrastTypes` (`TypeOK`), `CapturesTruthful` (`CapturedMeansSent`), `EmptySinkTruthful` (`EmptySinkMeansNoneToSink`), `DenialsTruthful` (`DenialsShownExactly`) |
| `FilesystemProofs` | `StaysATree` (`DiskInv`), `ReadsResolved` (`ReadsWhatWasResolved`), `WritesResolved` (`WritesWhatWasResolved`), `ResolvesOnce` (`ResolutionIdempotent`), `ResolvesAsAssumed` (what `Scope` takes `resolve` for), `RootsHold` (what is allowed and opened lies below a root) |

The arguments, by module.

**Capability.** No property is inductive by itself, since the code checks a
child only against its parent's mirror and reads a token only through its newest
block. `CoherenceInv` says that every struct agrees with its token: block i
holds the facts of entry i of the lineage under the id i - 1, and the mirror is
the last entry. It holds whatever happens to the disk and gives `TypeCorrect`,
`NewestBlock`, `Verifiable` and `BindingKept`. `NarrowingInv` adds that every
lineage narrows and that an attenuation between its two looks at the disk is
still valid against it; the second half is what the hypothesis
`~FsMayChangeDuring` is for, and the run `MCCapabilityFsRace` shows that the
hypothesis is needed. Narrowing is carried from one link to the whole lineage by
transitivity of `PermissionsNarrower`, and to the gate because `Decide` is
monotone and because `Lossy` keeps prefixes, so that blocks narrow where mirrors
do. For the linter: everything is under `/`, and `/` resolves to itself.

**Audit log.** `ChainInv` says that the log consists of entries, that it verifies,
that the orchestrator's copy of the last hash is right, and that the first entry
is chained to the zero hash. The copy needs no invariant but that it consists of
entries: `AcceptedIsSuffix` shows for any sequence of entries, however it came
about, that if `verify_chain` accepts it and it ends in the last entry of the
log, it is a suffix. The two are walked backwards from the common end, one entry
naming the one before; the zero hash, which no entry has, stops the copy from
being longer. `RechainExists` shows that the recomputation of hashes, a recursive
function, has a value.

**Orchestrator.** `ControlInv` ties program counter, outcomes and scope together
(while a call is decided, the child is coherent, narrower than the root, expires
`CHILD_TTL_SECONDS` after the step began, and is bound to that call under its
nonce); `LogInv` joins the log's properties with "a call about to be carried out
was attenuated for just now"; `ScopeInv` says that the object such a call was let
through for is in scope, which later changes of the disk cannot undo because the
object is a resolved path and the scope does not move. Neither it nor the
refinement assumes anything of the disk: what the tool reaches is that object
unless the effect strayed, by definition of straying, and only the file tools
can. The refinement maps each action to a step of
`Enforcement` or a stutter: `New` to the grant, a denial and `Execute` to an
answer. The attempt to prove `RefusedInScopeOnlyForCause` found two causes that
the property had not named and the instance had been too small to show: the
requested roots of a child are resolved once more, so one of them may have moved
while the other has not, and a root that is not UTF-8 makes the gate refuse
every child. Both are in the property now, and the first is in the instance.

**Agent loop.** `BudgetInv` counts the requests of the turns before this one and
of this one apart; `ScriptInv` says that a script takes a turn for each call and
one more. `EveryCallAnswered` is a property of moments between turns; its
inductive form, `ConversationInv`, is a balance: in every turn, for every id,
answers given and answers owed add up to the calls, owed being the calls in the
batch, in the last turn only. A turn of the model opens an account with the calls
that do not parse already paid. `FeedbackIsOutcomes` is inductive with the
types. `StepsLeft` is what `LoopEnds` rests on: the turns left times the most a
turn may take, plus what is left of this one. It is a natural number, and every
step lowers it, whatever the model answers; a turn serves no more calls than the
model may make (`BatchInv`), which `MaxCallsPerTurn` bounds and the code only by
what fits in a response.

**Agent.** `Select` puts the loop into one of its initial states, `RunLoop` takes
its steps, and nothing else touches its state (`ProcessRunsLoop`); so what is
inductive for the loop, `LoopInv`, is kept by the process, and the loop's
properties hold in it. Its fairness is not part of this. `PhaseInv`
says what each phase of `main` leaves, `ModeInv` where the mode comes from,
`LogInv` that the log tells the outcomes and, under enforcement, is closed.
`StepsLeft` and the phases of `main` still to come make a number that every step
of the process lowers.

**Contrast.** `PipeInv` looks at the log and the queue of connections as one
pipe: calls of the vulnerable run, strictly increasing, the log first. `RunsInv`
says that runs come in order and print last; `QuietInv` that, undisturbed, the
port is the contrast's before the first call and everything sent is somewhere
in the pipe; `ReportInv` which facts the report is made of.

**Filesystem.** `Walk` is a recursive function over the number of steps. The first
part of the proofs gets rid of the numbers: `WalkIsTrace` and `TracesAgree` give
the equations of `WalkUnfolds` (a walk is nothing, or one step and a walk) and
`WalkInduction` (a property that steps carry backwards holds of every walker).
With these, by one induction each: a walk along two paths in a row is the walk
along the first, for reading, and on from where it leads (`WalkOn`); a walk that
does not run out of links ends the same with more of them (`MoreLinks`); opening
for writing differs from opening for reading only where nothing is found to be
read (`ReadOrWrite`); a walk ends at a directory or a file, or makes a file in a
directory (`Lands`). What is reached has no link above it, so that a walk along
the canonical path stays on it and spends nothing (`CanonicalStays`). Hence
`FromCanonical`: from the canonical form of a prefix the rest of the path leads
where the path leads, unless this runs out of links, and the three properties
follow for every path, not only those asked about. `DiskInv`, that the disk is
a tree and its root a directory, is inductive; `FsWrite` keeps it by `Lands`.

The attempt to prove idempotence found the exception it now states. If a path
uses up the links, `exists()` is false for it and the search goes on at a shorter
prefix; from the resolved path the same links may suffice, and resolving once
more leads further. It took an instance with few links to see it. The write
property used to be about disks without dangling links at all, and is now about
all disks: the exception is the path that itself resolves to one.

`RootsHold` puts `Scope` and `Filesystem` together: whatever `AllowsRead` lets
through is read below a readable root, if the disk is the one decided on.
`ResolvesAsAssumed` is what the proofs about capabilities need of the disk, so
that `Resolution` there is not an assumption about this disk but a theorem.

Induction over positions (the hash chain, ranks in `Picked`, the recursion of
`Rechain`) uses `InductionUpTo` of `SubsequenceProofs`: it speaks of a set of
numbers, not of a predicate, and rests on the least element of a set of naturals.
The recursions of `Rechain` and `Walk` have a solution by the same induction.

Assumptions used: the named ASSUMEs of the modules, all evaluated by TLC in the
runs. Besides, built into the model: tokens are only made by the library
(section 8), hashes do not collide and none is zero, one task and one root
key, and `attenuate` is asked only of structs as the library returned them
(`attenuate` reads the mirror without checking it; an altered one is caught at
the gate).

Only model-checked: liveness (`EveryCallServed`, `LoopEnds`, `ContrastEnds`),
which is out of the prover's reach. Of `LoopEnds` the theorem `LoopUsesBudget`
gives one half, that no run takes steps for ever (`ProcessUsesBudget` does for the
process); the other, that none stops before its end, needs
ENABLED and fairness and is TLC's. The four runs that expect a
violation show that the properties they check do not hold.

## 8. Assumed or not modelled

* Tokens are made by `build_root_token` and `append_block`, under the key the
  orchestrator minted. The format does not enforce this: a Biscuit can be
  extended by whoever holds it, `decode_state` takes the facts of the highest id
  among all blocks without comparing them with those below
  (`capability/src/biscuit_codec.rs:95-148`), and the key a token is verified with
  is itself a serialised field of the struct (`capability/src/lib.rs:378-380`). So
  `NarrowingChain`, `AcceptedByWholeLineage`, `MirrorWidensNothing` and
  `BindingHolds` speak of chains built through the library, and do not establish
  "never widened, by anyone who holds it" (`README.md:83` of the repository). In
  the agent itself no capability leaves the process.
* The code cannot keep the disk still between the decision and the moment a tool
  opens its path, nor see through a dangling link (`exists()` finds nothing there
  and the write makes the link's target). Both are in the model; the properties
  about effects name them as exceptions, and `WritesWhatWasResolved` and
  `RootsHold` leave the second out.
* `Orchestrator` has one look at the disk for the two of `attenuate`. Where the
  second sees another disk the child may leave its parent, which the run
  `MCCapabilityFsRace` shows; the child of an orchestrator asks for the root's own
  roots.
* `Filesystem`: links hold absolute paths, every directory can be searched, and
  `exists` and `canonicalize` see one disk.
* What a program started by `exec` does, and what its arguments are: the gate
  does not look at either.
* Signatures and the Datalog engine. That its budget of five seconds may refuse a
  valid token is a disjunct of `Authorize`.
* `Agent`: that standard output has a reader (`println!` panics without one).
* `Contrast`: that a program started by `exec` does not itself connect to the
  sink; that `/tmp/sink.log` can be removed (an error is ignored) and that
  no program but the agents connects to the port: an unrelated connection would
  be logged, and count as a capture.
* `sandbox`: a stub that always returns an error. The spikes and scripts are
  experiments outside the product. The `pep` example shows one case of
  `MirrorWidensNothing`, an altered mirror at the gate.
* `fetch_tool_calls_from_model`: stateless and unused by the loop. The tool schema
  and the first messages sent to a model are fixed text.
