--------------------------- MODULE AuditLogProofs ---------------------------
(***************************************************************************)
(* Proofs about AuditLog for every set of events and clock readings, every *)
(* length of the log and every number of edits of the copy.                *)
(***************************************************************************)
EXTENDS AuditLog, SubsequenceProofs

-----------------------------------------------------------------------------
(* The inductive invariants.                                               *)

\* An entry has the fields of AuditEntry.
IsEntry(entry) ==
    /\ entry = [id |-> entry.id, timestamp |-> entry.timestamp, event |-> entry.event,
                previous_hash |-> entry.previous_hash, entry_hash |-> entry.entry_hash]
    /\ entry.id \in 1 .. MaxLen
    /\ entry.timestamp \in Timestamp
    /\ entry.event \in Event

AreEntries(s) == IsSequence(s) /\ \A i \in DOMAIN s : IsEntry(s[i])

\* The log and its copy are sequences of entries.
EntriesInv ==
    /\ AreEntries(log) /\ AreEntries(copy)
    /\ Len(log) <= MaxLen
    /\ edits \in 0 .. MaxEdits

\* The log is chained from the zero hash to previous_hash.
ChainInv ==
    /\ EntriesInv
    /\ ChainIntact
    /\ log # <<>> => log[1].previous_hash = ZeroHash

-----------------------------------------------------------------------------
(* Verification of a chain, whatever was done to it.                       *)

\* blake3 is collision free: entries whose hashes match and are the same hash
\* are the same entry.
LEMMA SameHashSameEntry ==
    ASSUME NEW a, NEW b, IsEntry(a), IsEntry(b), HashMatches(a), HashMatches(b),
           a.entry_hash = b.entry_hash
    PROVE  a = b
<1>1. /\ a.id = b.id /\ a.timestamp = b.timestamp /\ a.event = b.event
      /\ a.previous_hash = b.previous_hash
  BY DEF HashMatches, HashEntryFields
<1> QED BY <1>1 DEF IsEntry

\* No entry hashes to the zero hash.
LEMMA NoEntryHashesToZero ==
    ASSUME NEW a, HashMatches(a)
    PROVE  a.entry_hash # ZeroHash
BY DEF HashMatches, HashEntryFields, ZeroHash

\* Two chains that verify and end in the same entry agree backwards from
\* there: each entry names the one before it.
LEMMA ChainsAgreeBackwards ==
    ASSUME NEW s, NEW t, AreEntries(s), AreEntries(t), VerifyChain(s), VerifyChain(t),
           s # <<>>, t # <<>>, Last(s) = Last(t),
           NEW k \in Nat, k < Len(s), k < Len(t)
    PROVE  \A j \in 0 .. k : s[Len(s) - j] = t[Len(t) - j]
<1> DEFINE m == Len(s)
           n == Len(t)
           S == {j \in 0 .. k : s[m - j] = t[n - j]}
<1>1. m \in Nat /\ n \in Nat /\ DOMAIN s = 1 .. m /\ DOMAIN t = 1 .. n
  BY AppendSequence DEF AreEntries
<1>2. 0 \in S
  BY <1>1 DEF Last
<1>3. ASSUME NEW j \in 0 .. k, j \in S, j < k
      PROVE  j + 1 \in S
  <2> DEFINE a == s[m - (j + 1)]
             b == t[n - (j + 1)]
  <2>1. /\ m - j \in 1 .. m /\ m - j > 1 /\ (m - j) - 1 = m - (j + 1) /\ m - (j + 1) \in 1 .. m
        /\ n - j \in 1 .. n /\ n - j > 1 /\ (n - j) - 1 = n - (j + 1) /\ n - (j + 1) \in 1 .. n
        /\ j + 1 \in 0 .. k
    BY <1>1, <1>3
  <2>2. s[m - j].previous_hash = a.entry_hash /\ HashMatches(a) /\ IsEntry(a)
    BY <1>1, <2>1 DEF VerifyChain, LinkHolds, AreEntries
  <2>3. t[n - j].previous_hash = b.entry_hash /\ HashMatches(b) /\ IsEntry(b)
    BY <1>1, <2>1 DEF VerifyChain, LinkHolds, AreEntries
  <2>4. s[m - j] = t[n - j]
    BY <1>3
  <2> HIDE DEF a, b
  <2>5. a = b
    BY <2>2, <2>3, <2>4, SameHashSameEntry
  <2> QED BY <2>1, <2>5 DEF a, b
<1> HIDE DEF S
<1>4. \A j \in 0 .. k : j \in S
  BY <1>2, <1>3, InductionUpTo
<1> QED BY <1>4 DEF S

\* Whatever sequence of entries is presented, if verify_chain accepts it and it
\* ends in the last entry of a chain that starts from the zero hash, it is a
\* suffix of that chain.
LEMMA AcceptedIsSuffix ==
    ASSUME NEW s, NEW t, AreEntries(s), AreEntries(t), VerifyChain(s), VerifyChain(t),
           s # <<>>, t # <<>>, Last(s) = Last(t), t[1].previous_hash = ZeroHash
    PROVE  IsSuffix(s, t)
<1> DEFINE m == Len(s)
           n == Len(t)
<1>1. /\ m \in Nat /\ n \in Nat /\ DOMAIN s = 1 .. m /\ DOMAIN t = 1 .. n
      /\ m > 0 /\ n > 0
  <2>1. m \in Nat /\ n \in Nat /\ DOMAIN s = 1 .. m /\ DOMAIN t = 1 .. n
    BY AppendSequence DEF AreEntries
  <2>2. (m = 0 => s = <<>>) /\ (n = 0 => t = <<>>)
    BY DEF AreEntries, IsSequence
  <2> QED BY <2>1, <2>2
<1>2. m <= n
  <2> SUFFICES ASSUME m > n PROVE FALSE
    BY <1>1
  <2>1. /\ n - 1 \in Nat /\ n - 1 < m /\ n - 1 < n /\ n - 1 \in 0 .. n - 1
        /\ m - (n - 1) \in 1 .. m /\ m - (n - 1) > 1 /\ n - (n - 1) = 1
        /\ (m - (n - 1)) - 1 \in 1 .. m
    BY <1>1
  <2>2. s[m - (n - 1)] = t[n - (n - 1)]
    BY <2>1, ChainsAgreeBackwards
  <2>3. /\ s[m - (n - 1)].previous_hash = s[(m - (n - 1)) - 1].entry_hash
        /\ HashMatches(s[(m - (n - 1)) - 1])
    BY <1>1, <2>1 DEF VerifyChain, LinkHolds
  <2> QED BY <2>1, <2>2, <2>3, NoEntryHashesToZero
<1>3. \A j \in 0 .. m - 1 : s[m - j] = t[n - j]
  <2>1. m - 1 \in Nat /\ m - 1 < m /\ m - 1 < n
    BY <1>1, <1>2
  <2> QED BY <2>1, ChainsAgreeBackwards
<1> DEFINE a == Reverse(s)
           b == Reverse(t)
<1>4. /\ a = [i \in 1 .. m |-> s[(m - i) + 1]]
      /\ b = [i \in 1 .. n |-> t[(n - i) + 1]]
  BY DEF Reverse
<1>5. DOMAIN a = 1 .. m /\ DOMAIN b = 1 .. n
  BY <1>4
<1>6. IsSequence(a) /\ IsSequence(b) /\ Len(a) = m /\ Len(b) = n
  BY <1>1, <1>4, <1>5, FunctionSequence
<1>7. ASSUME NEW i \in 1 .. m PROVE a[i] = b[i]
  <2>1. i - 1 \in 0 .. m - 1 /\ m - (i - 1) = (m - i) + 1 /\ n - (i - 1) = (n - i) + 1
        /\ i \in 1 .. n
    BY <1>1, <1>2
  <2> QED BY <1>3, <1>4, <2>1
<1> HIDE DEF a, b
<1>8. SubSeq(a, 1, m) = SubSeq(b, 1, m)
  <2>1. \A i \in 1 .. m : i \in 1 .. n
    BY <1>1, <1>2
  <2> QED BY <1>1, <1>2, <1>5, <1>6, <1>7, <2>1 DEF IsSequence
<1>9. IsPrefix(a, b)
  BY <1>2, <1>6, <1>8 DEF IsPrefix
<1> QED BY <1>9 DEF IsSuffix, a, b

-----------------------------------------------------------------------------
(* What edits make of a sequence of entries.                               *)

\* A sequence over a set of entries is a sequence of entries.
LEMMA OverEntries ==
    ASSUME NEW R, \A e \in R : IsEntry(e), NEW s \in Seq(R)
    PROVE  AreEntries(s)
<1>1. IsSequence(s)
  BY SequenceOver
<1>2. \A i \in DOMAIN s : s[i] \in R
  OBVIOUS
<1> QED BY <1>1, <1>2 DEF AreEntries

\* chain_entry makes an entry, whatever hash it is chained to.
LEMMA ChainEntryType ==
    ASSUME NEW id \in 1 .. MaxLen, NEW timestamp \in Timestamp, NEW event \in Event,
           NEW previous
    PROVE  IsEntry(ChainEntry(id, timestamp, event, previous))
BY DEF IsEntry, ChainEntry

\* Putting an entry in the place of another.
LEMMA ReplacedEntries ==
    ASSUME NEW s, AreEntries(s), NEW i \in DOMAIN s, NEW e, IsEntry(e)
    PROVE  AreEntries([s EXCEPT ![i] = e])
<1> DEFINE R == {s[j] : j \in DOMAIN s} \cup {e}
           t == [s EXCEPT ![i] = e]
<1>1. Len(s) \in Nat /\ DOMAIN s = 1 .. Len(s) /\ s \in [1 .. Len(s) -> R]
  <2>1. s \in Seq({s[j] : j \in DOMAIN s})
    BY DEF AreEntries, IsSequence
  <2> QED BY <2>1
<1>2. \A x \in R : IsEntry(x)
  BY DEF AreEntries
<1>3. t \in [1 .. Len(s) -> R]
  <2>1. e \in R
    OBVIOUS
  <2> HIDE DEF R
  <2> QED BY <1>1, <2>1
<1> HIDE DEF R, t
<1>4. t \in Seq(R)
  BY <1>1, <1>3
<1>5. AreEntries(t)
  BY <1>2, <1>4, OverEntries
<1> QED BY <1>5 DEF t

\* Dropping an entry, and repeating one.
LEMMA DroppedRepeated ==
    ASSUME NEW s, AreEntries(s), NEW i \in DOMAIN s
    PROVE  AreEntries(RemoveAt(s, i)) /\ AreEntries(InsertAt(s, i, s[i]))
<1> DEFINE R == {s[j] : j \in DOMAIN s}
<1>1. s \in Seq(R) /\ \A x \in R : IsEntry(x)
  BY DEF AreEntries, IsSequence
<1>2. s[i] \in R
  OBVIOUS
<1> HIDE DEF R
<1>3. Len(s) \in Nat /\ i \in 1 .. Len(s) /\ \A j \in 1 .. Len(s) : s[j] \in R
  BY <1>1
<1>4. /\ SubSeq(s, 1, i - 1) \in Seq(R) /\ SubSeq(s, i + 1, Len(s)) \in Seq(R)
      /\ SubSeq(s, i, Len(s)) \in Seq(R)
  BY <1>1, <1>3
<1>5. RemoveAt(s, i) \in Seq(R)
  BY <1>4 DEF RemoveAt
<1>6. InsertAt(s, i, s[i]) \in Seq(R)
  <2>1. <<s[i]>> \in Seq(R)
    BY <1>2
  <2>2. SubSeq(s, 1, i - 1) \o <<s[i]>> \in Seq(R)
    BY <1>4, <2>1
  <2> QED BY <1>4, <2>2 DEF InsertAt
<1> QED BY <1>1, <1>5, <1>6, OverEntries

\* The entry Rechain puts at j, given the function that holds the one before.
Relinked(i, event, f, j) ==
    IF j < i THEN copy[j]
    ELSE IF j = i
    THEN ChainEntry(copy[j].id, copy[j].timestamp, event, copy[j].previous_hash)
    ELSE ChainEntry(copy[j].id, copy[j].timestamp, copy[j].event, f[j - 1].entry_hash)

\* Recomputing every hash from an entry on can be done: the recursion of
\* Rechain has a solution, built up one entry at a time.
LEMMA RechainExists ==
    ASSUME AreEntries(copy), NEW i \in DOMAIN copy, NEW event
    PROVE  \E f : f = [j \in DOMAIN copy |-> Relinked(i, event, f, j)]
<1> DEFINE n == Len(copy)
           Solves(f, k) == f = [j \in 1 .. k |-> Relinked(i, event, f, j)]
           S == {k \in 0 .. n : \E f : Solves(f, k)}
<1>1. n \in Nat /\ DOMAIN copy = 1 .. n
  BY AppendSequence DEF AreEntries
<1>2. 0 \in S
  <2> DEFINE f == [j \in 1 .. 0 |-> copy[j]]
  <2>1. Solves(f, 0)
    OBVIOUS
  <2> HIDE DEF f, Solves
  <2>2. \E g : Solves(g, 0)
    BY <2>1, Zenon
  <2> QED BY <1>1, <2>2
<1>3. ASSUME NEW k \in 0 .. n, k \in S, k < n
      PROVE  k + 1 \in S
  <2>1. PICK f : Solves(f, k)
    BY <1>3, Zenon
  <2> DEFINE g == [j \in 1 .. k + 1 |-> IF j <= k THEN f[j] ELSE Relinked(i, event, f, k + 1)]
  <2>2. \A j \in 1 .. k : f[j] = Relinked(i, event, f, j)
    BY <2>1
  <2>3. ASSUME NEW j \in 1 .. k + 1
        PROVE  g[j] = Relinked(i, event, g, j)
    <3>1. i \in 1 .. n
      BY <1>1
    <3>2. j > i => j - 1 \in 1 .. k /\ j - 1 \in 1 .. k + 1 /\ j - 1 <= k
      BY <1>3, <3>1
    <3>3. j > i => g[j - 1] = f[j - 1]
      BY <3>2
    <3>4. Relinked(i, event, g, j) = Relinked(i, event, f, j)
      <4> HIDE DEF g
      <4>1. CASE j < i
        BY <4>1 DEF Relinked
      <4>2. CASE j = i
        BY <4>2 DEF Relinked
      <4>3. CASE j > i
        BY <3>3, <4>3 DEF Relinked
      <4> QED BY <1>3, <3>1, <4>1, <4>2, <4>3
    <3>5. CASE j <= k
      <4>1. j \in 1 .. k /\ g[j] = f[j]
        BY <1>3, <3>5
      <4> HIDE DEF g
      <4> QED BY <2>2, <3>4, <4>1
    <3>6. CASE ~(j <= k)
      <4>1. j = k + 1
        BY <1>3, <3>6
      <4>2. g[j] = Relinked(i, event, f, k + 1)
        BY <1>3, <3>6
      <4> HIDE DEF g
      <4> QED BY <3>4, <4>1, <4>2
    <3> QED BY <3>5, <3>6
  <2>4. Solves(g, k + 1)
    <3>1. g = [j \in 1 .. k + 1 |-> g[j]]
      OBVIOUS
    <3> HIDE DEF g
    <3> QED BY <2>3, <3>1
  <2> HIDE DEF g, Solves
  <2>5. \E h : Solves(h, k + 1)
    BY <2>4, Zenon
  <2> QED BY <1>1, <1>3, <2>5
<1> HIDE DEF S
<1>4. \A k \in 0 .. n : k \in S
  BY <1>1, <1>2, <1>3, InductionUpTo
<1>5. n \in S
  BY <1>1, <1>4
<1>6. PICK f : Solves(f, n)
  BY <1>5, Zenon DEF S
<1>7. f = [j \in DOMAIN copy |-> Relinked(i, event, f, j)]
  BY <1>1, <1>6
<1> QED BY <1>7, Zenon

\* Rechain makes a sequence of entries.
LEMMA RechainedEntries ==
    ASSUME AreEntries(copy), NEW i \in DOMAIN copy, NEW event \in Event, Rechain(i, event)
    PROVE  AreEntries(copy')
<1> DEFINE n == Len(copy)
           forged == CHOOSE f : f = [j \in DOMAIN copy |-> Relinked(i, event, f, j)]
<1>1. n \in Nat /\ DOMAIN copy = 1 .. n /\ \A j \in 1 .. n : IsEntry(copy[j])
  BY AppendSequence DEF AreEntries
<1>2. copy' = forged
  BY DEF Rechain, Relinked
<1>3. forged = [j \in DOMAIN copy |-> Relinked(i, event, forged, j)]
  BY RechainExists, Zenon
<1> HIDE DEF forged
<1>4. ASSUME NEW j \in 1 .. n PROVE IsEntry(Relinked(i, event, forged, j))
  <2>1. IsEntry(copy[j]) /\ copy[j].id \in 1 .. MaxLen /\ copy[j].timestamp \in Timestamp
        /\ copy[j].event \in Event
    BY <1>1 DEF IsEntry
  <2> QED BY <2>1, ChainEntryType DEF Relinked
<1>5. DOMAIN forged = 1 .. n /\ \A j \in 1 .. n : IsEntry(forged[j])
  BY <1>1, <1>3, <1>4
<1>6. IsSequence(forged)
  <2>1. forged = [j \in 1 .. n |-> forged[j]]
    BY <1>1, <1>3
  <2> QED BY <1>1, <1>5, <2>1, FunctionSequence
<1> QED BY <1>2, <1>5, <1>6 DEF AreEntries

-----------------------------------------------------------------------------
(* Every step keeps the invariants.                                        *)

\* record appends an entry that matches and links.
LEMMA RecordKeepsChain ==
    ASSUME ChainInv, NEW event \in Event, NEW timestamp \in Timestamp,
           Record(event, timestamp)
    PROVE  ChainInv'
<1> DEFINE n == Len(log)
           entry == ChainEntry(n + 1, timestamp, event, previous_hash)
<1>1. /\ log' = Append(log, entry) /\ previous_hash' = entry.entry_hash /\ copy' = log'
      /\ edits' = edits /\ n < MaxLen
  BY DEF Record
<1>2. /\ IsSequence(log')
      /\ n \in Nat /\ DOMAIN log = 1 .. n
      /\ Len(log') = n + 1 /\ DOMAIN log' = 1 .. n + 1
      /\ \A i \in 1 .. n : log'[i] = log[i]
      /\ log'[n + 1] = entry
  <2>1. IsSequence(log)
    BY DEF ChainInv, EntriesInv, AreEntries
  <2> HIDE DEF entry
  <2> QED BY <1>1, <2>1, AppendSequence
<1>3. IsEntry(entry) /\ HashMatches(entry) /\ entry.previous_hash = previous_hash
  <2>1. n + 1 \in 1 .. MaxLen
    BY <1>1, <1>2, AuditLogAssumption
  <2>2. IsEntry(entry)
    BY <2>1, ChainEntryType
  <2> QED BY <2>2 DEF ChainEntry, HashMatches
<1> HIDE DEF entry
<1>4. \A i \in 1 .. n + 1 : i \in 1 .. n \/ i = n + 1
  BY <1>2
<1>5. AreEntries(log') /\ AreEntries(copy')
  BY <1>1, <1>2, <1>3, <1>4 DEF ChainInv, EntriesInv, AreEntries
<1>6. EntriesInv'
  <2>1. Len(log)' <= MaxLen
    BY <1>1, <1>2, AuditLogAssumption
  <2> QED BY <1>1, <1>5, <2>1 DEF ChainInv, EntriesInv
<1>7. n = 0 <=> log = <<>>
  BY <1>2 DEF ChainInv, EntriesInv, AreEntries, IsSequence
<1>8. log' # <<>> /\ Last(log') = entry
  BY <1>2 DEF Last
<1>9. ASSUME NEW i \in 1 .. n
      PROVE  HashMatches(log'[i]) /\ LinkHolds(log', i)
  <2>1. HashMatches(log[i]) /\ LinkHolds(log, i)
    BY <1>2 DEF ChainInv, ChainIntact, VerifyChain
  <2>2. i > 1 => i - 1 \in 1 .. n
    BY <1>2
  <2> QED BY <1>2, <2>1, <2>2 DEF LinkHolds
<1>10. LinkHolds(log', n + 1)
  <2>1. CASE n = 0
    BY <2>1 DEF LinkHolds
  <2>2. CASE n # 0
    <3>1. n \in 1 .. n /\ (n + 1) - 1 = n
      BY <1>2, <2>2
    <3>2. previous_hash = log[n].entry_hash
      BY <1>7, <2>2 DEF ChainInv, ChainIntact, Last
    <3> QED BY <1>2, <1>3, <3>1, <3>2 DEF LinkHolds
  <2> QED BY <2>1, <2>2
<1>11. VerifyChain(log')
  BY <1>2, <1>3, <1>4, <1>9, <1>10 DEF VerifyChain
<1>12. ChainIntact'
  BY <1>1, <1>8, <1>11 DEF ChainIntact
<1>13. log'[1].previous_hash = ZeroHash
  <2>1. CASE n = 0
    BY <1>2, <1>3, <1>7, <2>1 DEF ChainInv, ChainIntact
  <2>2. CASE n # 0
    <3>1. 1 \in 1 .. n
      BY <1>2, <2>2
    <3> QED BY <1>2, <1>7, <2>2, <3>1 DEF ChainInv
  <2> QED BY <2>1, <2>2
<1> QED BY <1>6, <1>12, <1>13 DEF ChainInv

\* An edit leaves the log alone and the copy a sequence of entries.
LEMMA EditKeepsChain ==
    ASSUME ChainInv, Edit, AreEntries(copy')
    PROVE  ChainInv'
<1>1. UNCHANGED <<log, previous_hash>> /\ edits' = edits + 1 /\ edits < MaxEdits
  BY DEF Edit
<1>2. edits' \in 0 .. MaxEdits
  BY <1>1, AuditLogAssumption DEF ChainInv, EntriesInv
<1> QED BY <1>1, <1>2 DEF ChainInv, EntriesInv, ChainIntact

\* Every step keeps ChainInv, one case for each kind of edit.
LEMMA ChainStep ==
    ASSUME ChainInv, [Next]_vars
    PROVE  ChainInv'
<1>0. /\ AreEntries(copy)
      /\ \A i \in DOMAIN copy :
            /\ IsEntry(copy[i]) /\ copy[i].id \in 1 .. MaxLen
            /\ copy[i].timestamp \in Timestamp /\ copy[i].event \in Event
  BY DEF ChainInv, EntriesInv, AreEntries, IsEntry
<1>1. ASSUME NEW event \in Event, NEW timestamp \in Timestamp, Record(event, timestamp)
      PROVE  ChainInv'
  BY <1>1, RecordKeepsChain
<1>2. ASSUME NEW i \in DOMAIN copy, NEW event \in Event, AlterEvent(i, event)
      PROVE  ChainInv'
  <2> DEFINE e == [copy[i] EXCEPT !.event = event]
  <2>1. IsEntry(e)
    BY <1>0 DEF IsEntry
  <2>2. copy' = [copy EXCEPT ![i] = e]
    BY <1>2 DEF AlterEvent
  <2> HIDE DEF e
  <2>3. AreEntries(copy')
    BY <1>0, <2>1, <2>2, ReplacedEntries
  <2> QED BY <1>2, <2>3, EditKeepsChain DEF AlterEvent
<1>3. ASSUME NEW i \in DOMAIN copy, NEW event \in Event, AlterAndRehash(i, event)
      PROVE  ChainInv'
  <2> DEFINE e == ChainEntry(copy[i].id, copy[i].timestamp, event, copy[i].previous_hash)
  <2>1. IsEntry(e)
    BY <1>0, ChainEntryType
  <2>2. copy' = [copy EXCEPT ![i] = e]
    BY <1>3 DEF AlterAndRehash
  <2> HIDE DEF e
  <2>3. AreEntries(copy')
    BY <1>0, <2>1, <2>2, ReplacedEntries
  <2> QED BY <1>3, <2>3, EditKeepsChain DEF AlterAndRehash
<1>4. ASSUME NEW i \in DOMAIN copy, NEW event \in Event, Rechain(i, event)
      PROVE  ChainInv'
  <2>1. AreEntries(copy')
    BY <1>0, <1>4, RechainedEntries
  <2>2. Edit
    BY <1>4 DEF Rechain
  <2> QED BY <2>1, <2>2, EditKeepsChain
<1>5. ASSUME NEW i \in DOMAIN copy, Drop(i) PROVE ChainInv'
  <2>1. AreEntries(copy')
    BY <1>0, <1>5, DroppedRepeated DEF Drop
  <2> QED BY <1>5, <2>1, EditKeepsChain DEF Drop
<1>6. ASSUME NEW i \in DOMAIN copy, Duplicate(i) PROVE ChainInv'
  <2>1. AreEntries(copy')
    BY <1>0, <1>6, DroppedRepeated DEF Duplicate
  <2> QED BY <1>6, <2>1, EditKeepsChain DEF Duplicate
<1>7. ASSUME NEW i \in DOMAIN copy, Swap(i) PROVE ChainInv'
  <2> DEFINE once == [copy EXCEPT ![i] = copy[i + 1]]
  <2>1. i + 1 \in DOMAIN copy /\ DOMAIN once = DOMAIN copy
    BY <1>7 DEF Swap
  <2>2. copy' = [once EXCEPT ![i + 1] = copy[i]]
    BY <1>7 DEF Swap
  <2>3. AreEntries(once)
    BY <1>0, <2>1, ReplacedEntries
  <2> HIDE DEF once
  <2>4. AreEntries(copy')
    BY <1>0, <2>1, <2>2, <2>3, ReplacedEntries
  <2> QED BY <1>7, <2>4, EditKeepsChain DEF Swap
<1>8. CASE UNCHANGED vars
  BY <1>8 DEF vars, ChainInv, EntriesInv, ChainIntact
<1> QED BY <1>1, <1>2, <1>3, <1>4, <1>5, <1>6, <1>7, <1>8 DEF Next

\* An empty log and an empty copy.
LEMMA InitChain ==
    ASSUME Init
    PROVE  ChainInv
<1>1. AreEntries(<<>>)
  BY SequenceOver DEF AreEntries
<1>2. Len(<<>>) = 0 /\ Len(<<>>) <= MaxLen /\ 0 \in 0 .. MaxEdits
  BY AuditLogAssumption
<1>3. VerifyChain(<<>>)
  BY DEF VerifyChain
<1> QED BY <1>1, <1>2, <1>3 DEF Init, ChainInv, EntriesInv, ChainIntact

-----------------------------------------------------------------------------
(* The theorems.                                                           *)

\* The inductive invariant of the log and its copy.
THEOREM Chained == Spec => []ChainInv
<1>1. Init => ChainInv
  BY InitChain
<1>2. ChainInv /\ [Next]_vars => ChainInv'
  BY ChainStep
<1> QED BY <1>1, <1>2, PTL DEF Spec

\* verify_chain accepts every log Orchestrator::record builds.
THEOREM RecordedChainVerifies == Spec => []ChainIntact
<1>1. ChainInv => ChainIntact
  BY DEF ChainInv
<1> QED BY <1>1, Chained, PTL

\* A copy that verify_chain accepts and that ends as the log does is a suffix
\* of the log, however long the log and however often the copy was edited.
THEOREM AcceptedCopies == Spec => []AcceptedCopyIsSuffix
<1>1. ChainInv => AcceptedCopyIsSuffix
  BY AcceptedIsSuffix DEF ChainInv, EntriesInv, ChainIntact, AcceptedCopyIsSuffix
<1> QED BY <1>1, Chained, PTL

=============================================================================
