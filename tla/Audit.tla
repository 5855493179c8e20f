------------------------------- MODULE Audit -------------------------------
(***************************************************************************)
(* The hash-chained audit log of audit/src/lib.rs.                         *)
(*                                                                         *)
(* blake3 is collision free and every field it is fed is delimited or of   *)
(* fixed length, so a hash is the tuple of what was hashed.                *)
(***************************************************************************)
EXTENDS Integers, Sequences, SequencesExt

\* [0u8; 32], what a log starts from: the hash of no entry.
ZeroHash == <<>>

\* Events.  RootMinted and CapabilityAttenuated name the task, of which there
\* is one; the others name the tool, and a denial its reason.
RootMinted == [kind |-> "RootMinted"]
CapabilityAttenuated == [kind |-> "CapabilityAttenuated"]
ToolAllowed(tool) == [kind |-> "ToolAllowed", tool |-> tool]
ToolDenied(tool, reason) == [kind |-> "ToolDenied", tool |-> tool, reason |-> reason]

\* hash_entry_fields.
HashEntryFields(id, timestamp, event, previous_hash) ==
    <<id, timestamp, event, previous_hash>>

\* chain_entry: id is fresh (Uuid::new_v4).
ChainEntry(id, timestamp, event, previous_hash) ==
    [id            |-> id,
     timestamp     |-> timestamp,
     event         |-> event,
     previous_hash |-> previous_hash,
     entry_hash    |-> HashEntryFields(id, timestamp, event, previous_hash)]

\* verify_chain, entry by entry.  The first entry's previous_hash is not
\* looked at.
HashMatches(entry) ==
    entry.entry_hash =
        HashEntryFields(entry.id, entry.timestamp, entry.event, entry.previous_hash)

\* Mutant: off by one, the second entry's link is skipped too.
LinkHoldsLate(entries, index) ==
    index > 2 => entries[index].previous_hash = entries[index - 1].entry_hash

LinkHolds(entries, index) ==
    index > 1 => entries[index].previous_hash = entries[index - 1].entry_hash

VerifyChain(entries) ==
    \A index \in DOMAIN entries :
        HashMatches(entries[index]) /\ LinkHolds(entries, index)

=============================================================================
