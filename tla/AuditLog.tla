------------------------------ MODULE AuditLog ------------------------------
(***************************************************************************)
(* An audit log as Orchestrator::record grows it, and a copy of it that is *)
(* edited somewhere outside before verify_chain is run over it.            *)
(***************************************************************************)
EXTENDS Audit

CONSTANTS
    Event,      \* the events that occur
    Timestamp,  \* wall-clock readings, in no particular order
    MaxLen,     \* bound on the length of the log
    MaxEdits    \* bound on the edits of the copy

ASSUME AuditLogAssumption == MaxLen \in Nat /\ MaxEdits \in Nat

VARIABLES
    log,            \* audit_log
    previous_hash,  \* the hash the next entry will point to
    copy,           \* the log as an auditor receives it
    edits           \* how often the copy was edited

vars == <<log, previous_hash, copy, edits>>

Init ==
    /\ log = <<>>
    /\ previous_hash = ZeroHash
    /\ copy = <<>>
    /\ edits = 0

\* Mutant: previous_hash stays where it was.
RecordUnchained(event, timestamp) ==
    /\ Len(log) < MaxLen /\ edits = 0
    /\ log' = Append(log, ChainEntry(Len(log) + 1, timestamp, event, previous_hash))
    /\ copy' = log'
    /\ UNCHANGED <<previous_hash, edits>>

\* Orchestrator::record, and the auditor's copy made from the result.
Record(event, timestamp) ==
    /\ Len(log) < MaxLen /\ edits = 0
    /\ LET entry == ChainEntry(Len(log) + 1, timestamp, event, previous_hash) IN
          /\ log' = Append(log, entry)
          /\ previous_hash' = entry.entry_hash
          /\ copy' = log'
    /\ UNCHANGED edits

\* External: the copy is edited.
Edit ==
    /\ edits < MaxEdits
    /\ edits' = edits + 1
    /\ UNCHANGED <<log, previous_hash>>

\* An event is replaced and the entry's hash left as it was.
AlterEvent(i, event) ==
    /\ Edit
    /\ event # copy[i].event
    /\ copy' = [copy EXCEPT ![i].event = event]

\* An event is replaced and the entry's hash recomputed.
AlterAndRehash(i, event) ==
    /\ Edit
    /\ event # copy[i].event
    /\ copy' = [copy EXCEPT ![i] =
                   ChainEntry(copy[i].id, copy[i].timestamp, event, copy[i].previous_hash)]

\* An event is replaced and every hash from there on recomputed.
Rechain(i, event) ==
    /\ Edit
    /\ event # copy[i].event
    /\ LET forged[j \in DOMAIN copy] ==
             IF j < i THEN copy[j]
             ELSE IF j = i
             THEN ChainEntry(copy[j].id, copy[j].timestamp, event, copy[j].previous_hash)
             ELSE ChainEntry(copy[j].id, copy[j].timestamp, copy[j].event,
                             forged[j - 1].entry_hash)
       IN copy' = forged

Drop(i) ==
    /\ Edit
    /\ copy' = RemoveAt(copy, i)

Duplicate(i) ==
    /\ Edit
    /\ copy' = InsertAt(copy, i, copy[i])

Swap(i) ==
    /\ Edit
    /\ i + 1 \in DOMAIN copy
    /\ copy' = [copy EXCEPT ![i] = copy[i + 1], ![i + 1] = copy[i]]

Next ==
    \/ \E event \in Event, timestamp \in Timestamp : Record(event, timestamp)
    \/ \E i \in DOMAIN copy, event \in Event : AlterEvent(i, event)
    \/ \E i \in DOMAIN copy, event \in Event : AlterAndRehash(i, event)
    \/ \E i \in DOMAIN copy, event \in Event : Rechain(i, event)
    \/ \E i \in DOMAIN copy : Drop(i)
    \/ \E i \in DOMAIN copy : Duplicate(i)
    \/ \E i \in DOMAIN copy : Swap(i)

Spec == Init /\ [][Next]_vars

-----------------------------------------------------------------------------

\* verify_chain accepts every log record ever built, and the orchestrator's
\* previous_hash is the hash of its last entry.
ChainIntact ==
    /\ VerifyChain(log)
    /\ previous_hash = IF log = <<>> THEN ZeroHash ELSE Last(log).entry_hash

\* "any edit to a past entry invalidates everything after it"
\* (docs/ARCHITECTURE.md:192), anchored at the last entry: a copy verify_chain
\* accepts and that still ends in the log's last entry is the log itself,
\* except that entries may be missing from its front.
AcceptedCopyIsSuffix ==
    (VerifyChain(copy) /\ copy # <<>> /\ log # <<>> /\ Last(copy) = Last(log))
        => IsSuffix(copy, log)

=============================================================================
