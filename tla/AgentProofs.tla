---------------------------- MODULE AgentProofs -----------------------------
(***************************************************************************)
(* Proofs about AgentLoop, for every model, every number of calls in a     *)
(* turn, every script and every turn and retry budget, and then about      *)
(* Agent: Select sets the loop up, RunLoop takes the loop's steps, and no  *)
(* other action touches its state, so the loop's invariant holds in the    *)
(* process as well.                                                        *)
(***************************************************************************)
EXTENDS Agent, SubsequenceProofs

-----------------------------------------------------------------------------
(* The inductive invariants.                                               *)

\* Types, and that there are calls to serve exactly while they are served.
ControlInv ==
    /\ TypeOK
    /\ max_turns \in Nat /\ posts \in Nat /\ finished \in BOOLEAN
    /\ batch \in Seq(RawCall) /\ messages \in Seq(Message) /\ outcomes \in Seq(Decisions)
    /\ pc = "serve" <=> batch # <<>>
    /\ pc = "ended" <=> result # "running"

\* What the requests of the turns before this one, and of this one, may cost.
BudgetInv ==
    IF pc = "ask"
    THEN turn >= 1 /\ posts <= (turn - 1) * MAX_UNPARSEABLE_RETRIES + tries
    ELSE posts <= turn * MAX_UNPARSEABLE_RETRIES

\* A script takes one turn for each call and one more to end.
ScriptInv ==
    principal = "scripted" =>
        /\ max_turns = scripted + 1
        /\ posts = 0 /\ messages = <<>>
        /\ Len(batch) <= 1
        /\ Len(outcomes) + Len(batch) + pending = scripted
        /\ pc \in {"turn", "serve"} => turn = scripted - pending
        /\ pc \in {"ask", "ended"} => turn = (scripted - pending) + 1
        /\ pc = "ended" => pending = 0 /\ result = "Ok" /\ finished

-----------------------------------------------------------------------------
(* What a turn of the model adds to the conversation.                      *)

Said(calls) == [role |-> "assistant", calls |-> calls]

Errors(calls) ==
    [i \in DOMAIN Garbage(calls) |-> ToolResult(Garbage(calls)[i].id, "unparseable")]

\* A turn's calls are a sequence, and so are those that parse and those that
\* do not.
LEMMA TurnTypes ==
    ASSUME NEW calls \in RawCalls
    PROVE  /\ calls \in Seq(RawCall)
           /\ Runnable(calls) \in Seq(RawCall)
           /\ Garbage(calls) \in Seq(RawCall)
           /\ Errors(calls) \in Seq(Message)
           /\ Len(Errors(calls)) = Len(Garbage(calls))
           /\ \A i \in 1 .. Len(Garbage(calls)) :
                 Errors(calls)[i] = ToolResult(Garbage(calls)[i].id, "unparseable")
<1>1. calls \in Seq(RawCall)
  <2>1. PICK n \in 0 .. MaxCallsPerTurn : calls \in [1 .. n -> RawCall]
    BY DEF RawCalls
  <2>2. n \in Nat
    BY LoopAssumption
  <2> QED BY <2>1, <2>2
<1>2. DOMAIN calls = 1 .. Len(calls)
  BY <1>1
<1>3. Runnable(calls) \in Seq(RawCall)
  <2> DEFINE D == {i \in DOMAIN calls : calls[i].parses}
  <2>1. D \in SUBSET (1 .. Len(calls))
    BY <1>2
  <2> HIDE DEF D
  <2>2. Picked(calls, D) \in Seq(RawCall)
    BY <1>1, <2>1, PickedType
  <2> QED BY <2>2 DEF Runnable, D
<1>4. Garbage(calls) \in Seq(RawCall)
  <2> DEFINE D == {i \in DOMAIN calls : ~calls[i].parses}
  <2>1. D \in SUBSET (1 .. Len(calls))
    BY <1>2
  <2> HIDE DEF D
  <2>2. Picked(calls, D) \in Seq(RawCall)
    BY <1>1, <2>1, PickedType
  <2> QED BY <2>2 DEF Garbage, D
<1> DEFINE g == Len(Garbage(calls))
<1>5. g \in Nat /\ DOMAIN Garbage(calls) = 1 .. g
  BY <1>4
<1>6. ASSUME NEW i \in 1 .. g
      PROVE  ToolResult(Garbage(calls)[i].id, "unparseable") \in Message
  <2>1. Garbage(calls)[i] \in RawCall
    BY <1>4
  <2>2. Garbage(calls)[i].id \in Id
    BY <2>1 DEF RawCall
  <2> QED BY <2>2 DEF ToolResult, Message
<1>7. Errors(calls) \in [1 .. g -> Message]
  BY <1>5, <1>6 DEF Errors
<1>8. Errors(calls) \in Seq(Message) /\ Len(Errors(calls)) = g
  BY <1>5, <1>7
<1>9. \A i \in 1 .. g : Errors(calls)[i] = ToolResult(Garbage(calls)[i].id, "unparseable")
  BY <1>5 DEF Errors
<1> QED BY <1>1, <1>3, <1>4, <1>8, <1>9

\* ingest_assistant on a turn with calls: the turn, then the errors.
LEMMA IngestCalls ==
    ASSUME messages \in Seq(Message), NEW calls \in RawCalls, NEW content \in BOOLEAN,
           calls # <<>>
    PROVE  /\ Said(calls) \in Message
           /\ Ingest(calls, content) = Append(messages, Said(calls)) \o Errors(calls)
           /\ Ingest(calls, content) \in Seq(Message)
<1>1. Said(calls) \in Message
  BY DEF Said, Message
<1>2. Ingest(calls, content) = (messages \o <<Said(calls)>>) \o Errors(calls)
  BY DEF Ingest, Said, Errors
<1>3. Errors(calls) \in Seq(Message)
  BY TurnTypes
<1> HIDE DEF Said
<1>4. messages \o <<Said(calls)>> = Append(messages, Said(calls))
  BY <1>1
<1> QED BY <1>1, <1>2, <1>3, <1>4

\* On a turn without: the turn if it said something, and no errors.
LEMMA IngestNothing ==
    ASSUME messages \in Seq(Message), NEW content \in BOOLEAN, <<>> \in RawCalls
    PROVE  /\ Said(<<>>) \in Message
           /\ Ingest(<<>>, content) \in {messages, Append(messages, Said(<<>>))}
           /\ Ingest(<<>>, content) \in Seq(Message)
<1>1. Said(<<>>) \in Message
  BY DEF Said, Message
<1>2. Errors(<<>>) = <<>>
  <2>1. Garbage(<<>>) = <<>>
    <3>1. {i \in DOMAIN <<>> : ~<<>>[i].parses} = {}
      OBVIOUS
    <3>2. <<>> \in Seq({})
      OBVIOUS
    <3>3. Picked(<<>>, {}) = <<>>
      BY <3>2, PickedNone
    <3> QED BY <3>1, <3>3 DEF Garbage
  <2>2. Errors(<<>>) \in Seq(Message) /\ Len(Errors(<<>>)) = Len(Garbage(<<>>))
    BY TurnTypes
  <2>3. Len(Errors(<<>>)) = 0
    BY <2>1, <2>2
  <2> QED BY <2>2, <2>3
<1>3. CASE content
  <2>1. Ingest(<<>>, content) = (messages \o <<Said(<<>>)>>) \o Errors(<<>>)
    BY <1>3 DEF Ingest, Said, Errors
  <2> HIDE DEF Said
  <2>2. messages \o <<Said(<<>>)>> = Append(messages, Said(<<>>))
    BY <1>1
  <2> QED BY <1>1, <1>2, <2>1, <2>2
<1>4. CASE ~content
  <2>1. Ingest(<<>>, content) = (messages \o <<>>) \o Errors(<<>>)
    BY <1>4 DEF Ingest, Errors
  <2> QED BY <1>1, <1>2, <2>1
<1> QED BY <1>3, <1>4

-----------------------------------------------------------------------------
(* Control, budgets and scripts.                                           *)

Inv == ControlInv /\ BudgetInv /\ ScriptInv

\* Either principal starts with its whole budget and an empty conversation.
LEMMA InitInv ==
    ASSUME Init
    PROVE  Inv
<1>1. scripted \in Nat /\ max_turns \in Nat /\ pending = scripted
  <2>1. \/ scripted \in ScriptLengths /\ max_turns = scripted + 1
        \/ scripted = 0 /\ max_turns = DEFAULT_MAX_TURNS
    BY DEF Init, TurnBudget
  <2>2. scripted \in ScriptLengths => scripted \in Nat
    BY LoopAssumption, Zenon
  <2>3. scripted \in Nat
    BY <2>1, <2>2
  <2>4. max_turns \in Nat
    BY <2>1, <2>3, LoopAssumption
  <2> QED BY <2>3, <2>4 DEF Init
<1>2. /\ <<>> \in Seq(RawCall) /\ <<>> \in Seq(Message) /\ <<>> \in Seq(Decisions)
      /\ Len(<<>>) = 0 /\ DOMAIN <<>> = {}
  OBVIOUS
<1>3. ControlInv
  <2>1. 0 \in 0 .. max_turns /\ 0 \in 0 .. MAX_UNPARSEABLE_RETRIES /\ pending <= scripted
    BY <1>1, LoopAssumption
  <2>2. principal \in {"scripted", "live"}
    BY DEF Init
  <2>3. TypeOK
    BY <1>1, <1>2, <2>1, <2>2 DEF Init, TypeOK
  <2> QED BY <1>1, <1>2, <2>3 DEF Init, ControlInv
<1>4. BudgetInv
  BY LoopAssumption DEF Init, BudgetInv
<1>5. ScriptInv
  BY <1>1, <1>2 DEF Init, ScriptInv, TurnBudget
<1> QED BY <1>3, <1>4, <1>5 DEF Inv

\* The head of the loop: a turn is begun, or there is none left.
LEMMA BeginTurnInv ==
    ASSUME Inv, BeginTurn
    PROVE  Inv'
<1> USE DEF Inv, ControlInv, BeginTurn, End, fixed
<1>0. /\ turn \in Nat /\ max_turns \in Nat /\ tries \in Nat /\ posts \in Nat
      /\ scripted \in Nat /\ pending \in Nat /\ turn <= max_turns
      /\ MAX_UNPARSEABLE_RETRIES \in Nat
      /\ Len(batch) \in Nat /\ Len(outcomes) \in Nat
  BY LoopAssumption DEF TypeOK
<1>1. CASE turn < max_turns /\ turn' = turn + 1 /\ tries' = 0 /\ pc' = "ask" /\ result' = result
  <2>1. ControlInv'
    <3>1. turn' \in 0 .. max_turns' /\ tries' \in 0 .. MAX_UNPARSEABLE_RETRIES
      BY <1>0, <1>1
    <3> QED BY <1>1, <3>1 DEF TypeOK
  <2>2. BudgetInv'
    <3>1. (turn + 1) - 1 = turn
      BY <1>0
    <3>2. posts <= turn * MAX_UNPARSEABLE_RETRIES
      BY DEF BudgetInv
    <3>3. turn * MAX_UNPARSEABLE_RETRIES \in Nat
      BY <1>0
    <3>4. turn' >= 1 /\ posts' <= (turn' - 1) * MAX_UNPARSEABLE_RETRIES + tries'
      BY <1>0, <1>1, <3>1, <3>2, <3>3
    <3> QED BY <1>1, <3>4 DEF BudgetInv
  <2>3. ScriptInv'
    BY <1>0, <1>1 DEF ScriptInv
  <2> QED BY <2>1, <2>2, <2>3
<1>2. CASE /\ turn = max_turns /\ pc' = "ended" /\ result' = "Ok"
           /\ UNCHANGED <<turn, tries>>
  <2>1. ControlInv'
    BY <1>2 DEF TypeOK
  <2>2. BudgetInv'
    BY <1>2 DEF BudgetInv
  <2>3. principal # "scripted"
    BY <1>0, <1>2 DEF ScriptInv
  <2> QED BY <2>1, <2>2, <2>3 DEF ScriptInv
<1> QED BY <1>1, <1>2

\* A scripted principal hands out its next call, or is done.
LEMMA AskScriptedInv ==
    ASSUME Inv, AskScripted
    PROVE  Inv'
<1> USE DEF Inv, ControlInv, AskScripted, End, fixed
<1>0. /\ turn \in Nat /\ max_turns \in Nat /\ tries \in Nat /\ posts \in Nat
      /\ scripted \in Nat /\ pending \in Nat /\ pending <= scripted
      /\ MAX_UNPARSEABLE_RETRIES \in Nat
      /\ Len(outcomes) \in Nat /\ batch = <<>> /\ Len(batch) = 0
  BY LoopAssumption DEF TypeOK
<1>1. BudgetInv'
  <2>1. posts = 0 /\ posts' = 0 /\ turn' = turn /\ pc' # "ask"
    BY DEF ScriptInv
  <2>2. turn * MAX_UNPARSEABLE_RETRIES \in Nat
    BY <1>0
  <2> QED BY <2>1, <2>2 DEF BudgetInv
<1>2. CASE /\ pending > 0 /\ pending' = pending - 1
           /\ \E id \in Id : batch' = <<[id |-> id, parses |-> TRUE]>>
           /\ pc' = "serve" /\ UNCHANGED <<result, finished>>
  <2>1. PICK id \in Id : batch' = <<[id |-> id, parses |-> TRUE]>>
    BY <1>2
  <2>2. [id |-> id, parses |-> TRUE] \in RawCall
    BY DEF RawCall
  <2>3. /\ batch' \in Seq(RawCall) /\ Len(batch') = 1 /\ batch' # <<>>
        /\ \A i \in DOMAIN batch' : batch'[i] \in RawCall
    <3> DEFINE raw == [id |-> id, parses |-> TRUE]
    <3>1. raw \in RawCall /\ batch' = <<raw>>
      BY <2>1, <2>2
    <3> HIDE DEF raw
    <3> QED BY ONLY <3>1
  <2>4. ControlInv'
    <3>1. pending' \in Nat /\ pending' <= scripted
      BY <1>0, <1>2
    <3> QED BY <1>2, <2>3, <3>1 DEF TypeOK
  <2>5. ScriptInv'
    BY <1>0, <1>2, <2>3 DEF ScriptInv
  <2> QED BY <1>1, <2>4, <2>5
<1>3. CASE /\ pending = 0 /\ pc' = "ended" /\ result' = "Ok" /\ finished' = TRUE
           /\ UNCHANGED <<pending, batch>>
  <2>1. ControlInv'
    BY <1>3 DEF TypeOK
  <2>2. ScriptInv'
    BY <1>3 DEF ScriptInv
  <2> QED BY <1>1, <2>1, <2>2
<1> QED BY <1>2, <1>3

\* What remains of the turn's share after one more request.
LEMMA OneMorePost ==
    ASSUME Inv, pc = "ask", tries < MAX_UNPARSEABLE_RETRIES
    PROVE  /\ posts + 1 <= (turn - 1) * MAX_UNPARSEABLE_RETRIES + (tries + 1)
           /\ posts + 1 <= turn * MAX_UNPARSEABLE_RETRIES
           /\ tries + 1 \in 0 .. MAX_UNPARSEABLE_RETRIES
<1> DEFINE R == MAX_UNPARSEABLE_RETRIES
           before == (turn - 1) * R
<1>1. turn \in Nat /\ tries \in Nat /\ posts \in Nat /\ R \in Nat
  BY LoopAssumption DEF Inv, ControlInv, TypeOK
<1>2. turn >= 1 /\ posts <= before + tries
  BY DEF Inv, BudgetInv
<1>3. before \in Nat /\ turn * R = before + R
  BY <1>1, <1>2
<1> HIDE DEF before
<1> QED BY <1>1, <1>2, <1>3 DEF before

\* A request to the model, however it answers.
LEMMA AskLiveInv ==
    ASSUME Inv, NEW calls \in RawCalls, NEW content \in BOOLEAN, AskLive(calls, content)
    PROVE  Inv'
<1>0. /\ pc = "ask" /\ principal = "live" /\ tries < MAX_UNPARSEABLE_RETRIES
      /\ posts' = posts + 1 /\ tries' = tries + 1
      /\ messages' = Ingest(calls, content)
      /\ UNCHANGED <<principal, scripted, max_turns, pending, turn, outcomes>>
  BY DEF AskLive, fixed
<1>1. messages' \in Seq(Message)
  <2>1. messages \in Seq(Message)
    BY DEF Inv, ControlInv
  <2>2. CASE calls # <<>>
    BY <1>0, <2>1, <2>2, IngestCalls
  <2>3. CASE calls = <<>>
    BY <1>0, <2>1, <2>3, IngestNothing
  <2> QED BY <2>2, <2>3
<1>2. /\ posts' <= (turn' - 1) * MAX_UNPARSEABLE_RETRIES + tries'
      /\ posts' <= turn' * MAX_UNPARSEABLE_RETRIES
      /\ tries' \in 0 .. MAX_UNPARSEABLE_RETRIES
      /\ turn' >= 1
  BY <1>0, OneMorePost DEF Inv, BudgetInv
<1>3. BudgetInv'
  BY <1>2 DEF BudgetInv
<1>4. \A i \in DOMAIN messages' : messages'[i] \in Message
  BY <1>1
<1>5. posts' \in Nat
  BY <1>0 DEF Inv, ControlInv
<1>6. ScriptInv'
  BY <1>0 DEF ScriptInv
<1> USE DEF Inv, ControlInv, TypeOK
<1>7. CASE /\ Runnable(calls) # <<>> /\ batch' = Runnable(calls) /\ pc' = "serve"
           /\ UNCHANGED <<result, finished>>
  <2>1. batch' \in Seq(RawCall)
    BY <1>7, TurnTypes
  <2>2. \A i \in DOMAIN batch' : batch'[i] \in RawCall
    BY <2>1
  <2> QED BY <1>0, <1>1, <1>2, <1>3, <1>4, <1>5, <1>6, <1>7, <2>1, <2>2
<1>8. CASE UNCHANGED <<batch, pc, result, finished>>
  BY <1>0, <1>1, <1>2, <1>3, <1>4, <1>5, <1>6, <1>8
<1>9. CASE pc' = "ended" /\ result' = "Ok" /\ finished' = TRUE /\ UNCHANGED batch
  BY <1>0, <1>1, <1>2, <1>3, <1>4, <1>5, <1>6, <1>9
<1> QED BY <1>7, <1>8, <1>9 DEF AskLive, End

\* The retry budget spent, or a request that fails: the run ends.
LEMMA EndLiveInv ==
    ASSUME Inv, GiveUp \/ PostFails
    PROVE  Inv'
<1>0. /\ pc = "ask" /\ principal = "live" /\ pc' = "ended" /\ result' \in {"Ok", "Err"}
      /\ UNCHANGED <<principal, scripted, max_turns, pending, turn, tries, batch, messages,
                     outcomes, finished>>
  BY DEF GiveUp, PostFails, End, fixed
<1>1. posts' \in Nat /\ posts' <= turn * MAX_UNPARSEABLE_RETRIES
  <2>1. CASE GiveUp
    <3> DEFINE R == MAX_UNPARSEABLE_RETRIES
               before == (turn - 1) * R
    <3>1. turn \in Nat /\ posts \in Nat /\ R \in Nat /\ tries = R /\ posts' = posts
      BY <2>1, LoopAssumption DEF GiveUp, Inv, ControlInv, TypeOK
    <3>2. turn >= 1 /\ posts <= before + tries
      BY <1>0 DEF Inv, BudgetInv
    <3>3. before \in Nat /\ turn * R = before + R
      BY <3>1, <3>2
    <3> HIDE DEF before
    <3> QED BY <3>1, <3>2, <3>3
  <2>2. CASE PostFails
    BY <1>0, <2>2, OneMorePost DEF PostFails, Inv, ControlInv
  <2> QED BY <2>1, <2>2
<1>2. BudgetInv'
  BY <1>0, <1>1 DEF BudgetInv
<1>3. ControlInv'
  BY <1>0, <1>1 DEF Inv, ControlInv, TypeOK
<1> QED BY <1>0, <1>2, <1>3 DEF Inv, ScriptInv

\* A call is served.
LEMMA ServeInv ==
    ASSUME Inv, NEW decision \in Decisions, Serve(decision)
    PROVE  Inv'
<1>0. /\ pc = "serve" /\ batch # <<>> /\ batch' = Tail(batch)
      /\ outcomes' = Append(outcomes, decision)
      /\ pc' = (IF batch' = <<>> THEN "turn" ELSE "serve")
      /\ UNCHANGED <<principal, scripted, max_turns, pending, turn, tries, posts, result, finished>>
  BY DEF Serve, fixed
<1>1. /\ batch \in Seq(RawCall) /\ outcomes \in Seq(Decisions) /\ messages \in Seq(Message)
  BY DEF Inv, ControlInv
<1>2. /\ batch' \in Seq(RawCall) /\ outcomes' \in Seq(Decisions)
      /\ Len(batch) \in Nat /\ Len(outcomes) \in Nat
      /\ Len(batch') = Len(batch) - 1 /\ Len(outcomes') = Len(outcomes) + 1
      /\ Head(batch) \in RawCall
  BY <1>0, <1>1
<1>3. messages' \in Seq(Message) /\ (principal = "scripted" => messages' = messages)
  <2>1. ToolResult(Head(batch).id, DecisionFeedback(decision)) \in Message
    <3>1. Head(batch).id \in Id
      BY <1>2 DEF RawCall
    <3>2. DecisionFeedback(decision) \in Feedback
      BY DEF Feedback
    <3> HIDE DEF Feedback
    <3> QED BY <3>1, <3>2 DEF ToolResult, Message
  <2> QED BY <1>1, <2>1 DEF Serve
<1>4. /\ \A i \in DOMAIN batch' : batch'[i] \in RawCall
      /\ \A i \in DOMAIN messages' : messages'[i] \in Message
      /\ \A i \in DOMAIN outcomes' : outcomes'[i] \in Decisions
  BY <1>2, <1>3
<1>5. ControlInv'
  BY <1>0, <1>2, <1>3, <1>4 DEF Inv, ControlInv, TypeOK
<1>6. BudgetInv'
  BY <1>0 DEF Inv, BudgetInv
<1>7. ScriptInv'
  <2> SUFFICES ASSUME principal = "scripted" PROVE ScriptInv'
    BY <1>0 DEF ScriptInv
  <2>1. scripted \in Nat /\ pending \in Nat /\ turn = scripted - pending
        /\ Len(batch) <= 1 /\ Len(outcomes) + Len(batch) + pending = scripted
    BY <1>0 DEF Inv, ControlInv, TypeOK, ScriptInv
  <2>2. Len(outcomes') + Len(batch') + pending' = scripted' /\ Len(batch') <= 1
    <3>1. scripted' = scripted /\ pending' = pending
      BY <1>0
    <3>2. /\ Len(batch) \in Nat /\ Len(outcomes) \in Nat
          /\ Len(batch') = Len(batch) - 1 /\ Len(outcomes') = Len(outcomes) + 1
      BY <1>2
    <3> QED BY ONLY <2>1, <3>1, <3>2
  <2>3. pc' \in {"turn", "serve"} /\ turn' = scripted' - pending'
    BY <1>0, <2>1
  <2> QED BY <1>0, <1>3, <2>2, <2>3 DEF Inv, ScriptInv
<1> QED BY <1>5, <1>6, <1>7 DEF Inv

\* Every step keeps Inv.
LEMMA InvStep ==
    ASSUME Inv, [Next]_vars
    PROVE  Inv'
<1>1. CASE UNCHANGED vars
  BY <1>1 DEF vars, Inv, ControlInv, TypeOK, BudgetInv, ScriptInv
<1> QED BY <1>1, BeginTurnInv, AskScriptedInv, AskLiveInv, EndLiveInv, ServeInv DEF Next

-----------------------------------------------------------------------------
(* Counting the calls and the answers with an id.                          *)

OfId(s, id) == {k \in DOMAIN s : s[k].id = id}

Count(s, id) == Cardinality(OfId(s, id))

\* Sets without a common element.
LEMMA DisjointCount ==
    ASSUME NEW A, NEW B, IsFiniteSet(A), IsFiniteSet(B), A \cap B = {}
    PROVE  /\ IsFiniteSet(A \cup B)
           /\ Cardinality(A) \in Nat /\ Cardinality(B) \in Nat
           /\ Cardinality(A \cup B) = Cardinality(A) + Cardinality(B)
<1>1. Cardinality(A) \in Nat /\ Cardinality(B) \in Nat
  BY FS_CardinalityType
<1>2. Cardinality(A \cap B) = 0
  BY FS_EmptySet
<1>3. IsFiniteSet(A \cup B) /\
      Cardinality(A \cup B) = Cardinality(A) + Cardinality(B) - Cardinality(A \cap B)
  BY FS_Union
<1> QED BY <1>1, <1>2, <1>3

\* Positions moved up by m are as many.
LEMMA ShiftedCount ==
    ASSUME NEW m \in Nat, NEW A \in SUBSET Nat, IsFiniteSet(A)
    PROVE  /\ IsFiniteSet({m + k : k \in A})
           /\ Cardinality({m + k : k \in A}) = Cardinality(A)
<1> DEFINE B == {m + k : k \in A}
           shift == [k \in A |-> m + k]
<1>1. shift \in [A -> B]
  OBVIOUS
<1>2. \A a, b \in A : shift[a] = shift[b] => a = b
  OBVIOUS
<1>3. \A i \in B : \E k \in A : shift[k] = i
  OBVIOUS
<1> HIDE DEF B, shift
<1>4. shift \in Injection(A, B)
  BY <1>1, <1>2 DEF Injection, IsInjective
<1>5. shift \in Surjection(A, B)
  BY <1>1, <1>3 DEF Surjection
<1>6. ExistsBijection(A, B)
  BY <1>4, <1>5 DEF Bijection, ExistsBijection
<1>7. IsFiniteSet(B) /\ Cardinality(B) = Cardinality(A)
  BY <1>6, FS_Bijection
<1> QED BY <1>7 DEF B

\* The positions of a sequence with an id can be counted.
LEMMA CountType ==
    ASSUME NEW S, NEW s \in Seq(S), NEW id
    PROVE  /\ OfId(s, id) \in SUBSET Nat /\ IsFiniteSet(OfId(s, id))
           /\ Count(s, id) \in Nat
<1>1. Len(s) \in Nat /\ DOMAIN s = 1 .. Len(s)
  OBVIOUS
<1>2. OfId(s, id) \in SUBSET (1 .. Len(s))
  BY <1>1 DEF OfId
<1>3. IsFiniteSet(1 .. Len(s))
  BY <1>1, FS_Interval
<1>4. IsFiniteSet(OfId(s, id))
  BY <1>2, <1>3, FS_Subset
<1>5. Count(s, id) \in Nat
  BY <1>4, FS_CardinalityType DEF Count
<1>6. OfId(s, id) \in SUBSET Nat
  BY <1>1, <1>2
<1> QED BY <1>4, <1>5, <1>6

\* A call that is served is no longer waiting.
LEMMA HeadTailCount ==
    ASSUME NEW S, NEW s \in Seq(S), s # <<>>, NEW id
    PROVE  Count(s, id) = Count(<<Head(s)>>, id) + Count(Tail(s), id)
<1> DEFINE t == Tail(s)
           h == <<Head(s)>>
           n == Len(s)
           A == OfId(t, id)
           B == {1 + k : k \in A}
           C == OfId(h, id)
<1>1. /\ t \in Seq(S) /\ h \in Seq(S) /\ n \in Nat /\ n >= 1 /\ Len(t) = n - 1
      /\ DOMAIN s = 1 .. n /\ DOMAIN t = 1 .. n - 1 /\ DOMAIN h = {1}
      /\ h[1] = s[1]
      /\ \A k \in 1 .. n - 1 : t[k] = s[1 + k]
  OBVIOUS
<1>2. A \in SUBSET (1 .. n - 1) /\ A \in SUBSET Nat
  BY <1>1 DEF OfId
<1>3. IsFiniteSet(A) /\ IsFiniteSet(C)
  BY <1>1, CountType
<1>4. C \subseteq {1} /\ (1 \in C <=> s[1].id = id)
  BY <1>1 DEF OfId
<1>5. \A k \in 1 .. n - 1 : k \in A <=> s[1 + k].id = id
  BY <1>1 DEF OfId
<1>6. \A k \in 1 .. n : k \in OfId(s, id) <=> s[k].id = id
  BY <1>1 DEF OfId
<1>7. OfId(s, id) \subseteq 1 .. n
  BY <1>1 DEF OfId
<1> HIDE DEF A, C, t, h, n
<1>8. \A k \in 1 .. n : k \in B <=> k # 1 /\ s[k].id = id
  <2> SUFFICES ASSUME NEW k \in 1 .. n PROVE k \in B <=> k # 1 /\ s[k].id = id
    OBVIOUS
  <2>1. ASSUME k \in B PROVE k # 1 /\ s[k].id = id
    <3>1. PICK j \in A : k = 1 + j
      BY <2>1
    <3> QED BY <1>1, <1>2, <1>5, <3>1
  <2>2. ASSUME k # 1, s[k].id = id PROVE k \in B
    <3>1. k - 1 \in 1 .. n - 1 /\ 1 + (k - 1) = k
      BY <1>1, <2>2
    <3>2. k - 1 \in A
      BY <1>5, <2>2, <3>1
    <3> QED BY <3>1, <3>2
  <2> QED BY <2>1, <2>2
<1>9. B \subseteq 1 .. n
  BY <1>1, <1>2
<1>10. IsFiniteSet(B) /\ Cardinality(B) = Cardinality(A)
  BY <1>2, <1>3, ShiftedCount
<1> HIDE DEF B
<1>11. OfId(s, id) = C \cup B /\ C \cap B = {}
  <2>1. 1 \in 1 .. n
    BY <1>1
  <2> QED BY <1>4, <1>6, <1>7, <1>8, <1>9, <2>1
<1>12. Cardinality(OfId(s, id)) = Cardinality(C) + Cardinality(B)
  BY <1>3, <1>10, <1>11, DisjointCount
<1> QED BY <1>10, <1>12 DEF Count, A, C, t, h

\* Of a turn's calls with an id, each parses or does not.
LEMMA TurnCount ==
    ASSUME NEW calls \in RawCalls, NEW id
    PROVE  /\ Count(calls, id) = Count(Errors(calls), id) + Count(Runnable(calls), id)
           /\ Count(Errors(calls), id) \in Nat /\ Count(Runnable(calls), id) \in Nat
<1> DEFINE V == {raw \in RawCall : raw.id = id}
           P == {i \in DOMAIN calls : calls[i].parses}
           G == {i \in DOMAIN calls : ~calls[i].parses}
           A == At(calls, P, V)
           B == At(calls, G, V)
<1>1. /\ calls \in Seq(RawCall) /\ Runnable(calls) \in Seq(RawCall)
      /\ Garbage(calls) \in Seq(RawCall) /\ Errors(calls) \in Seq(Message)
      /\ Len(Errors(calls)) = Len(Garbage(calls))
      /\ \A i \in 1 .. Len(Garbage(calls)) :
            Errors(calls)[i] = ToolResult(Garbage(calls)[i].id, "unparseable")
  BY TurnTypes
<1>2. DOMAIN calls = 1 .. Len(calls) /\ \A i \in 1 .. Len(calls) : calls[i] \in RawCall
  BY <1>1
<1>3. ASSUME NEW s \in Seq(RawCall) PROVE OfId(s, id) = {k \in DOMAIN s : s[k] \in V}
  <2>1. \A k \in DOMAIN s : s[k] \in RawCall
    BY <1>3
  <2> QED BY <2>1 DEF OfId
<1>4. P \in SUBSET (1 .. Len(calls)) /\ G \in SUBSET (1 .. Len(calls))
  BY <1>2
<1>5. Runnable(calls) = Picked(calls, P) /\ Garbage(calls) = Picked(calls, G)
  BY DEF Runnable, Garbage
<1>6. OfId(calls, id) = A \cup B /\ A \cap B = {}
  <2>1. OfId(calls, id) = {k \in DOMAIN calls : calls[k] \in V}
    BY <1>1, <1>3
  <2> HIDE DEF V
  <2> QED BY <2>1 DEF At
<1> HIDE DEF V, P, G
<1>7. IsFiniteSet(A) /\ Count(Runnable(calls), id) = Cardinality(A)
  <2>1. OfId(Runnable(calls), id) = At(Picked(calls, P), DOMAIN Picked(calls, P), V)
    BY <1>1, <1>3, <1>5 DEF At
  <2>2. /\ IsFiniteSet(A)
        /\ Cardinality(At(Picked(calls, P), DOMAIN Picked(calls, P), V)) = Cardinality(A)
    BY <1>1, <1>4, PickedCount
  <2>3. Count(Runnable(calls), id) = Cardinality(A)
    BY <2>1, <2>2 DEF Count
  <2> QED BY <2>2, <2>3
<1>8. IsFiniteSet(B) /\ Count(Garbage(calls), id) = Cardinality(B)
  <2>1. OfId(Garbage(calls), id) = At(Picked(calls, G), DOMAIN Picked(calls, G), V)
    BY <1>1, <1>3, <1>5 DEF At
  <2>2. /\ IsFiniteSet(B)
        /\ Cardinality(At(Picked(calls, G), DOMAIN Picked(calls, G), V)) = Cardinality(B)
    BY <1>1, <1>4, PickedCount
  <2>3. Count(Garbage(calls), id) = Cardinality(B)
    BY <2>1, <2>2 DEF Count
  <2> QED BY <2>2, <2>3
<1>9. Count(Errors(calls), id) = Count(Garbage(calls), id)
  <2> DEFINE g == Len(Garbage(calls))
  <2>1. DOMAIN Errors(calls) = 1 .. g /\ DOMAIN Garbage(calls) = 1 .. g
    BY <1>1
  <2>2. ASSUME NEW k \in 1 .. g PROVE Errors(calls)[k].id = Garbage(calls)[k].id
    <3>1. Errors(calls)[k] = ToolResult(Garbage(calls)[k].id, "unparseable")
      BY <1>1
    <3> QED BY <3>1 DEF ToolResult
  <2>3. OfId(Errors(calls), id) = OfId(Garbage(calls), id)
    BY <2>1, <2>2 DEF OfId
  <2> QED BY <2>3 DEF Count
<1> HIDE DEF A, B
<1>10. /\ Cardinality(OfId(calls, id)) = Cardinality(A) + Cardinality(B)
       /\ Cardinality(A) \in Nat /\ Cardinality(B) \in Nat
  BY <1>6, <1>7, <1>8, DisjointCount
<1> QED BY <1>7, <1>8, <1>9, <1>10 DEF Count

-----------------------------------------------------------------------------
(* The conversation.  The same as EveryCallAnswered, for any sequence of   *)
(* messages, and with the answers that are still owed to the last turn.    *)

IsTurnOf(ms, i) == ms[i].role = "assistant"

AnswersIn(ms, i) ==
    {j \in DOMAIN ms :
        j > i /\ ~IsTurnOf(ms, j) /\ ~\E k \in DOMAIN ms : i < k /\ k < j /\ IsTurnOf(ms, k)}

AnsweredIn(ms, i, id) == {j \in AnswersIn(ms, i) : ms[j].id = id}

IsLastTurn(ms, i) == \A k \in DOMAIN ms : IsTurnOf(ms, k) => k <= i

Balanced(ms, owed) ==
    \A i \in DOMAIN ms : IsTurnOf(ms, i) =>
        \A id \in Id :
            Cardinality(AnsweredIn(ms, i, id)) + (IF IsLastTurn(ms, i) THEN owed[id] ELSE 0)
                = Count(ms[i].calls, id)

Nothing == [id \in Id |-> 0]

\* The answers to a turn can be counted.
LEMMA AnsweredFinite ==
    ASSUME NEW ms \in Seq(Message), NEW i, NEW id
    PROVE  /\ AnsweredIn(ms, i, id) \in SUBSET (1 .. Len(ms))
           /\ IsFiniteSet(AnsweredIn(ms, i, id))
           /\ Cardinality(AnsweredIn(ms, i, id)) \in Nat
<1>1. Len(ms) \in Nat /\ DOMAIN ms = 1 .. Len(ms)
  OBVIOUS
<1>2. AnsweredIn(ms, i, id) \in SUBSET (1 .. Len(ms))
  BY <1>1 DEF AnsweredIn, AnswersIn
<1>3. IsFiniteSet(1 .. Len(ms))
  BY <1>1, FS_Interval
<1>4. IsFiniteSet(AnsweredIn(ms, i, id))
  BY <1>2, <1>3, FS_Subset
<1>5. Cardinality(AnsweredIn(ms, i, id)) \in Nat
  BY <1>4, FS_CardinalityType
<1> QED BY <1>2, <1>4, <1>5

\* A turn of the model closes the one before it and owes its own calls.
LEMMA TurnAppended ==
    ASSUME NEW ms \in Seq(Message), NEW calls \in RawCalls, Said(calls) \in Message,
           Balanced(ms, Nothing)
    PROVE  Balanced(Append(ms, Said(calls)), [id \in Id |-> Count(calls, id)])
<1> DEFINE new == Append(ms, Said(calls))
           owed == [id \in Id |-> Count(calls, id)]
           m == Len(ms)
<1>1. Said(calls).role = "assistant" /\ Said(calls).calls = calls
  BY DEF Said
<1> HIDE DEF Said
<1>2. /\ m \in Nat /\ DOMAIN ms = 1 .. m /\ DOMAIN new = 1 .. m + 1
      /\ \A i \in 1 .. m : new[i] = ms[i]
      /\ new[m + 1] = Said(calls)
  OBVIOUS
<1>3. \A i \in 1 .. m + 1 : i \in 1 .. m \/ i = m + 1
  BY <1>2
<1> SUFFICES ASSUME NEW i \in 1 .. m + 1, IsTurnOf(new, i), NEW id \in Id
             PROVE  Cardinality(AnsweredIn(new, i, id))
                        + (IF IsLastTurn(new, i) THEN owed[id] ELSE 0)
                      = Count(new[i].calls, id)
  BY <1>2 DEF Balanced
<1>4. IsTurnOf(new, m + 1)
  BY <1>1, <1>2 DEF IsTurnOf
<1> HIDE DEF new
<1>5. CASE i \in 1 .. m
  <2>1. ~IsLastTurn(new, i)
    <3>1. m + 1 \in 1 .. m + 1 /\ ~(m + 1 <= i)
      BY <1>2, <1>5
    <3> QED BY <1>2, <1>4, <3>1 DEF IsLastTurn
  <2>2. IsTurnOf(ms, i)
    BY <1>2, <1>5 DEF IsTurnOf
  <2>3. AnswersIn(new, i) = AnswersIn(ms, i)
    <3>1. \A j \in 1 .. m : IsTurnOf(new, j) <=> IsTurnOf(ms, j)
      BY <1>2 DEF IsTurnOf
    <3>2. \A j \in 1 .. m : ~(m + 1 < j) /\ j \in 1 .. m + 1
      BY <1>2
    <3>3. \A j \in 1 .. m :
             (\E k \in 1 .. m + 1 : i < k /\ k < j /\ IsTurnOf(new, k))
                 <=> (\E k \in 1 .. m : i < k /\ k < j /\ IsTurnOf(ms, k))
      BY <1>3, <3>1, <3>2
    <3> QED BY <1>2, <1>3, <1>4, <3>1, <3>2, <3>3 DEF AnswersIn
  <2>4. AnsweredIn(new, i, id) = AnsweredIn(ms, i, id)
    <3>1. \A j \in AnswersIn(ms, i) : j \in 1 .. m
      BY <1>2 DEF AnswersIn
    <3> QED BY <1>2, <2>3, <3>1 DEF AnsweredIn
  <2>5. Cardinality(AnsweredIn(ms, i, id)) + 0 = Count(ms[i].calls, id)
    <3>1. Nothing[id] = 0
      BY DEF Nothing
    <3> QED BY <1>2, <1>5, <2>2, <3>1 DEF Balanced
  <2> QED BY <1>2, <1>5, <2>1, <2>4, <2>5
<1>6. CASE i = m + 1
  <2>1. AnsweredIn(new, i, id) = {}
    <3>1. \A j \in 1 .. m + 1 : ~(j > i)
      BY <1>2, <1>6
    <3> QED BY <1>2, <3>1 DEF AnsweredIn, AnswersIn
  <2>2. IsLastTurn(new, i)
    <3>1. \A k \in 1 .. m + 1 : k <= i
      BY <1>2, <1>6
    <3> QED BY <1>2, <3>1 DEF IsLastTurn
  <2>3. Cardinality({}) = 0
    BY FS_EmptySet
  <2>4. Count(calls, id) \in Nat
    BY TurnTypes, CountType
  <2>5. owed[id] = Count(calls, id) /\ new[i].calls = calls
    BY <1>1, <1>2, <1>6
  <2> HIDE DEF owed
  <2> QED BY <2>1, <2>2, <2>3, <2>4, <2>5
<1> QED BY <1>3, <1>5, <1>6

\* Tool results answer the last turn and are owed to it no longer.
LEMMA ResultsAppended ==
    ASSUME NEW ms \in Seq(Message), NEW t \in Seq(Message),
           \A k \in 1 .. Len(t) : t[k].role = "tool",
           NEW owed, NEW left,
           \A id \in Id : left[id] \in Nat /\ owed[id] = Count(t, id) + left[id],
           Balanced(ms, owed)
    PROVE  Balanced(ms \o t, left)
<1> DEFINE new == ms \o t
           m == Len(ms)
           n == Len(t)
<1>1. /\ m \in Nat /\ n \in Nat /\ DOMAIN ms = 1 .. m /\ DOMAIN t = 1 .. n
      /\ DOMAIN new = 1 .. m + n
      /\ \A i \in 1 .. m : new[i] = ms[i]
      /\ \A i \in m + 1 .. m + n : new[i] = t[i - m]
  OBVIOUS
<1>2. /\ \A i \in 1 .. m + n : i \in 1 .. m \/ i \in m + 1 .. m + n
      /\ \A i \in m + 1 .. m + n : i - m \in 1 .. n
  BY <1>1
<1>3. \A i \in m + 1 .. m + n : ~IsTurnOf(new, i)
  BY <1>1, <1>2 DEF IsTurnOf
<1>4. \A i \in 1 .. m : IsTurnOf(new, i) <=> IsTurnOf(ms, i)
  BY <1>1 DEF IsTurnOf
<1> SUFFICES ASSUME NEW i \in 1 .. m + n, IsTurnOf(new, i), NEW id \in Id
             PROVE  Cardinality(AnsweredIn(new, i, id))
                        + (IF IsLastTurn(new, i) THEN left[id] ELSE 0)
                      = Count(new[i].calls, id)
  BY <1>1 DEF Balanced
<1> HIDE DEF new
<1>5. i \in 1 .. m /\ IsTurnOf(ms, i) /\ new[i] = ms[i]
  BY <1>1, <1>2, <1>3, <1>4
<1>6. Cardinality(AnsweredIn(ms, i, id)) + (IF IsLastTurn(ms, i) THEN owed[id] ELSE 0)
        = Count(ms[i].calls, id)
  BY <1>1, <1>5 DEF Balanced
<1>7. IsLastTurn(new, i) <=> IsLastTurn(ms, i)
  <2>1. \A k \in 1 .. m : k \in 1 .. m + n
    BY <1>1
  <2> QED BY <1>1, <1>2, <1>3, <1>4, <2>1 DEF IsLastTurn
<1>8. \A j \in 1 .. m :
         (\E k \in 1 .. m + n : i < k /\ k < j /\ IsTurnOf(new, k))
             <=> (\E k \in 1 .. m : i < k /\ k < j /\ IsTurnOf(ms, k))
  <2>1. \A k \in 1 .. m : k \in 1 .. m + n
    BY <1>1
  <2> QED BY <1>2, <1>3, <1>4, <2>1
<1>9. \A j \in 1 .. m : j \in AnsweredIn(new, i, id) <=> j \in AnsweredIn(ms, i, id)
  <2>1. \A j \in 1 .. m : j \in 1 .. m + n
    BY <1>1
  <2> QED BY <1>1, <1>4, <1>8, <2>1 DEF AnsweredIn, AnswersIn
<1>10. /\ AnsweredIn(ms, i, id) \in SUBSET (1 .. m)
       /\ IsFiniteSet(AnsweredIn(ms, i, id))
       /\ Cardinality(AnsweredIn(ms, i, id)) \in Nat
  BY AnsweredFinite
<1>11. AnsweredIn(new, i, id) \subseteq 1 .. m + n
  BY <1>1 DEF AnsweredIn, AnswersIn
<1>12. CASE ~IsLastTurn(ms, i)
  <2>1. PICK k \in 1 .. m : IsTurnOf(ms, k) /\ ~(k <= i)
    BY <1>1, <1>12 DEF IsLastTurn
  <2>2. \A j \in m + 1 .. m + n : i < k /\ k < j /\ IsTurnOf(new, k) /\ k \in 1 .. m + n
    BY <1>1, <1>4, <1>5, <2>1
  <2>3. \A j \in m + 1 .. m + n : j \notin AnsweredIn(new, i, id)
    BY <1>1, <2>2 DEF AnsweredIn, AnswersIn
  <2>4. AnsweredIn(new, i, id) = AnsweredIn(ms, i, id)
    BY <1>2, <1>9, <1>10, <1>11, <2>3
  <2> QED BY <1>5, <1>6, <1>7, <1>12, <2>4
<1>13. CASE IsLastTurn(ms, i)
  <2> DEFINE B == {m + k : k \in OfId(t, id)}
  <2>1. /\ OfId(t, id) \in SUBSET Nat /\ IsFiniteSet(OfId(t, id))
        /\ Count(t, id) \in Nat
    BY CountType
  <2>2. IsFiniteSet(B) /\ Cardinality(B) = Count(t, id)
    BY <1>1, <2>1, ShiftedCount DEF Count
  <2>3. B \subseteq m + 1 .. m + n
    BY <1>1 DEF OfId
  <2>4. \A j \in m + 1 .. m + n : j \in B <=> t[j - m].id = id
    <3> SUFFICES ASSUME NEW j \in m + 1 .. m + n PROVE j \in B <=> t[j - m].id = id
      OBVIOUS
    <3>1. ASSUME j \in B PROVE t[j - m].id = id
      <4>1. PICK k \in OfId(t, id) : j = m + k
        BY <3>1
      <4>2. k \in Nat /\ t[k].id = id /\ j - m = k
        BY <1>1, <2>1, <4>1 DEF OfId
      <4> QED BY <4>2
    <3>2. ASSUME t[j - m].id = id PROVE j \in B
      <4>1. j - m \in OfId(t, id) /\ j = m + (j - m)
        BY <1>1, <1>2, <3>2 DEF OfId
      <4> QED BY <4>1
    <3> QED BY <3>1, <3>2
  <2>5. \A j \in m + 1 .. m + n : j \in AnsweredIn(new, i, id) <=> t[j - m].id = id
    <3>1. \A j \in m + 1 .. m + n : j > i /\ j \in 1 .. m + n
      BY <1>1, <1>5
    <3>2. \A k \in 1 .. m + n : ~(i < k /\ IsTurnOf(new, k))
      BY <1>1, <1>2, <1>3, <1>4, <1>5, <1>13 DEF IsLastTurn
    <3> QED BY <1>1, <1>3, <3>1, <3>2 DEF AnsweredIn, AnswersIn
  <2> HIDE DEF B
  <2>6. AnsweredIn(new, i, id) = AnsweredIn(ms, i, id) \cup B
    <3>1. \A j \in m + 1 .. m + n : j \in AnsweredIn(new, i, id) <=> j \in B
      BY <2>4, <2>5
    <3>2. \A j \in m + 1 .. m + n : j \notin 1 .. m
      BY <1>1
    <3> QED BY <1>2, <1>9, <1>10, <1>11, <2>3, <3>1, <3>2
  <2>7. AnsweredIn(ms, i, id) \cap B = {}
    <3>1. \A j \in m + 1 .. m + n : j \notin 1 .. m
      BY <1>1
    <3> QED BY <1>10, <2>3, <3>1
  <2>8. Cardinality(AnsweredIn(new, i, id)) = Cardinality(AnsweredIn(ms, i, id)) + Count(t, id)
    BY <1>10, <2>2, <2>6, <2>7, DisjointCount
  <2>9. left[id] \in Nat /\ owed[id] = Count(t, id) + left[id]
    OBVIOUS
  <2> QED BY <1>5, <1>6, <1>7, <1>10, <1>13, <2>1, <2>8, <2>9
<1> QED BY <1>12, <1>13

\* The calls of a turn that wait to be served are what is owed to it.
Owed == [id \in Id |-> Count(batch, id)]

ConversationInv ==
    principal = "live" =>
        /\ Balanced(messages, Owed)
        /\ messages # <<>> => IsTurn(1)
        /\ batch # <<>> => messages # <<>>

\* With no call waiting, nothing is owed.
LEMMA NothingOwed ==
    ASSUME NEW b, b = <<>>
    PROVE  [id \in Id |-> Count(b, id)] = Nothing
<1>1. ASSUME NEW id \in Id PROVE Count(b, id) = 0
  <2>1. OfId(b, id) = {}
    BY DEF OfId
  <2> QED BY <2>1, FS_EmptySet DEF Count
<1> QED BY <1>1 DEF Nothing

\* A turn with calls is said, its garbage answered, and the rest owed.
LEMMA AskedWithCalls ==
    ASSUME ControlInv, principal = "live", pc = "ask", ConversationInv,
           NEW calls \in RawCalls, NEW content \in BOOLEAN, calls # <<>>
    PROVE  LET new == Ingest(calls, content) IN
           /\ Balanced(new, [id \in Id |-> Count(Runnable(calls), id)])
           /\ new # <<>> /\ IsTurnOf(new, 1)
<1> DEFINE new == Ingest(calls, content)
           said == Append(messages, Said(calls))
           owed == [id \in Id |-> Count(calls, id)]
           left == [id \in Id |-> Count(Runnable(calls), id)]
<1>1. messages \in Seq(Message) /\ batch = <<>> /\ Balanced(messages, Owed)
  BY DEF ControlInv, ConversationInv
<1>2. Balanced(messages, Nothing)
  BY <1>1, NothingOwed DEF Owed
<1>3. Said(calls) \in Message /\ new = said \o Errors(calls)
  BY <1>1, IngestCalls
<1>4. Balanced(said, owed)
  BY <1>1, <1>2, <1>3, TurnAppended
<1>5. Errors(calls) \in Seq(Message) /\ \A k \in 1 .. Len(Errors(calls)) : Errors(calls)[k].role = "tool"
  <2>1. /\ Errors(calls) \in Seq(Message) /\ Len(Errors(calls)) = Len(Garbage(calls))
        /\ \A i \in 1 .. Len(Garbage(calls)) :
              Errors(calls)[i] = ToolResult(Garbage(calls)[i].id, "unparseable")
    BY TurnTypes
  <2>2. ASSUME NEW k \in 1 .. Len(Errors(calls)) PROVE Errors(calls)[k].role = "tool"
    <3>1. Errors(calls)[k] = ToolResult(Garbage(calls)[k].id, "unparseable")
      BY <2>1
    <3> QED BY <3>1 DEF ToolResult
  <2> QED BY <2>1, <2>2
<1>6. \A id \in Id : left[id] \in Nat /\ owed[id] = Count(Errors(calls), id) + left[id]
  BY TurnCount
<1>7. said \in Seq(Message) /\ Len(said) \in Nat /\ Len(said) >= 1
  <2> HIDE DEF Said
  <2> QED BY <1>1, <1>3
<1>8. IsTurnOf(said, 1)
  <2>1. CASE messages = <<>>
    <3>1. said[1] = Said(calls)
      BY <2>1
    <3> QED BY <3>1 DEF IsTurnOf, Said
  <2>2. CASE messages # <<>>
    <3>1. said[1] = messages[1]
      <4> HIDE DEF Said
      <4> QED BY <1>1, <2>2
    <3>2. IsTurn(1)
      BY <2>2 DEF ConversationInv
    <3> QED BY <3>1, <3>2 DEF IsTurnOf, IsTurn
  <2> QED BY <2>1, <2>2
<1> HIDE DEF said, owed, left
<1>9. Balanced(said \o Errors(calls), left)
  BY <1>4, <1>5, <1>6, <1>7, ResultsAppended
<1>10. (said \o Errors(calls))[1] = said[1] /\ said \o Errors(calls) # <<>>
  BY <1>5, <1>7
<1>11. IsTurnOf(said \o Errors(calls), 1)
  BY <1>8, <1>10 DEF IsTurnOf
<1> QED BY <1>3, <1>9, <1>10, <1>11 DEF left

\* A turn without calls owes nothing.
LEMMA AskedWithout ==
    ASSUME ControlInv, principal = "live", pc = "ask", ConversationInv,
           NEW content \in BOOLEAN, <<>> \in RawCalls
    PROVE  LET new == Ingest(<<>>, content) IN
           /\ Balanced(new, Nothing)
           /\ new # <<>> => IsTurnOf(new, 1)
<1> DEFINE new == Ingest(<<>>, content)
           said == Append(messages, Said(<<>>))
<1>1. messages \in Seq(Message) /\ batch = <<>> /\ Balanced(messages, Owed)
  BY DEF ControlInv, ConversationInv
<1>2. Balanced(messages, Nothing)
  BY <1>1, NothingOwed DEF Owed
<1>3. Said(<<>>) \in Message /\ new \in {messages, said}
  BY <1>1, IngestNothing
<1>4. Balanced(said, Nothing)
  <2>1. Balanced(said, [id \in Id |-> Count(<<>>, id)])
    BY <1>1, <1>2, <1>3, TurnAppended
  <2>2. [id \in Id |-> Count(<<>>, id)] = Nothing
    BY NothingOwed
  <2> QED BY <2>1, <2>2
<1>5. messages # <<>> => IsTurnOf(messages, 1)
  BY DEF ConversationInv, IsTurn, IsTurnOf
<1>6. IsTurnOf(said, 1)
  <2>1. CASE messages = <<>>
    <3>1. said[1] = Said(<<>>)
      BY <2>1
    <3> QED BY <3>1 DEF IsTurnOf, Said
  <2>2. CASE messages # <<>>
    <3>1. said[1] = messages[1]
      <4> HIDE DEF Said
      <4> QED BY <1>1, <1>3, <2>2
    <3> QED BY <1>5, <2>2, <3>1 DEF IsTurnOf
  <2> QED BY <2>1, <2>2
<1> HIDE DEF said, new
<1>7. Balanced(new, Nothing) /\ (new # <<>> => IsTurnOf(new, 1))
  BY <1>2, <1>3, <1>4, <1>5, <1>6
<1> QED BY <1>7 DEF new

\* Every step keeps the conversation in balance.
LEMMA ConversationStep ==
    ASSUME Inv, ConversationInv, [Next]_vars
    PROVE  ConversationInv'
<1> SUFFICES ASSUME principal' = "live"
             PROVE  /\ Balanced(messages', Owed')
                    /\ messages' # <<>> => IsTurnOf(messages', 1)
                    /\ batch' # <<>> => messages' # <<>>
  BY DEF ConversationInv, IsTurn, IsTurnOf
<1>0. /\ principal = "live" /\ ControlInv
      /\ Balanced(messages, Owed)
      /\ messages # <<>> => IsTurnOf(messages, 1)
      /\ batch # <<>> => messages # <<>>
  <2>1. principal = "live"
    BY DEF Next, vars, BeginTurn, AskScripted, AskLive, GiveUp, PostFails, Serve, fixed
  <2> QED BY <2>1 DEF Inv, ConversationInv, IsTurn, IsTurnOf
<1>1. CASE UNCHANGED <<messages, batch>>
  <2>1. Owed' = Owed
    BY <1>1 DEF Owed, Count, OfId
  <2> QED BY <1>0, <1>1, <2>1
<1>2. CASE BeginTurn \/ GiveUp \/ PostFails \/ UNCHANGED vars
  BY <1>1, <1>2 DEF BeginTurn, GiveUp, PostFails, vars
<1>3. CASE AskScripted
  BY <1>0, <1>3 DEF AskScripted
<1>4. ASSUME NEW calls \in RawCalls, NEW content \in BOOLEAN, AskLive(calls, content)
      PROVE  /\ Balanced(messages', Owed')
             /\ messages' # <<>> => IsTurnOf(messages', 1)
             /\ batch' # <<>> => messages' # <<>>
  <2>1. pc = "ask" /\ messages' = Ingest(calls, content) /\ batch = <<>>
    BY <1>0, <1>4 DEF AskLive, ControlInv
  <2>2. CASE calls # <<>>
    <3>1. batch' = Runnable(calls)
      BY <1>4, <2>1, <2>2 DEF AskLive
    <3>2. Owed' = [id \in Id |-> Count(Runnable(calls), id)]
      BY <3>1 DEF Owed
    <3> QED BY <1>0, <2>1, <2>2, <3>2, AskedWithCalls
  <2>3. CASE calls = <<>>
    <3>1. batch' = <<>>
      <4>1. Runnable(<<>>) = <<>>
        <5>1. {i \in DOMAIN <<>> : <<>>[i].parses} = {}
          OBVIOUS
        <5>2. <<>> \in Seq({})
          OBVIOUS
        <5>3. Picked(<<>>, {}) = <<>>
          BY <5>2, PickedNone
        <5> QED BY <5>1, <5>3 DEF Runnable
      <4> QED BY <1>4, <2>1, <2>3, <4>1 DEF AskLive
    <3>2. Owed' = Nothing
      BY <3>1, NothingOwed DEF Owed
    <3> QED BY <1>0, <2>1, <2>3, <3>1, <3>2, AskedWithout
  <2> QED BY <2>2, <2>3
<1>5. ASSUME NEW decision \in Decisions, Serve(decision)
      PROVE  /\ Balanced(messages', Owed')
             /\ messages' # <<>> => IsTurnOf(messages', 1)
             /\ batch' # <<>> => messages' # <<>>
  <2> DEFINE r == ToolResult(Head(batch).id, DecisionFeedback(decision))
             t == <<r>>
  <2>1. /\ messages' = Append(messages, r) /\ batch' = Tail(batch) /\ batch # <<>>
        /\ batch \in Seq(RawCall) /\ messages \in Seq(Message)
    BY <1>0, <1>5 DEF Serve, ControlInv
  <2>2. Head(batch) \in RawCall /\ Tail(batch) \in Seq(RawCall)
    BY <2>1
  <2>3. r \in Message /\ r.role = "tool" /\ r.id = Head(batch).id
    <3>1. Head(batch).id \in Id
      BY <2>2 DEF RawCall
    <3>2. DecisionFeedback(decision) \in Feedback
      BY DEF Feedback
    <3> HIDE DEF Feedback
    <3> QED BY <3>1, <3>2 DEF ToolResult, Message
  <2> HIDE DEF r
  <2>4. /\ t \in Seq(Message) /\ Len(t) = 1 /\ DOMAIN t = {1} /\ t[1] = r
        /\ messages' = messages \o t
    BY <2>1, <2>3
  <2>5. \A k \in 1 .. Len(t) : t[k].role = "tool"
    BY <2>3, <2>4
  <2> HIDE DEF t
  <2>6. \A id \in Id : Count(t, id) = Count(<<Head(batch)>>, id)
    <3>1. DOMAIN <<Head(batch)>> = {1} /\ <<Head(batch)>>[1] = Head(batch)
      OBVIOUS
    <3>2. \A id \in Id : OfId(t, id) = OfId(<<Head(batch)>>, id)
      BY <2>3, <2>4, <3>1 DEF OfId
    <3> QED BY <3>2 DEF Count
  <2>7. \A id \in Id : Owed'[id] \in Nat /\ Owed[id] = Count(t, id) + Owed'[id]
    <3>1. \A id \in Id : Owed'[id] = Count(Tail(batch), id) /\ Owed[id] = Count(batch, id)
      BY <2>1 DEF Owed
    <3>2. \A id \in Id : Count(Tail(batch), id) \in Nat
      BY <2>2, CountType
    <3>3. \A id \in Id : Count(batch, id) = Count(<<Head(batch)>>, id) + Count(Tail(batch), id)
      BY <2>1, HeadTailCount
    <3> QED BY <2>6, <3>1, <3>2, <3>3
  <2>8. Balanced(messages \o t, Owed')
    BY <1>0, <2>1, <2>4, <2>5, <2>7, ResultsAppended
  <2>9. messages # <<>> /\ (messages \o t)[1] = messages[1] /\ messages \o t # <<>>
    BY <1>0, <2>1, <2>4
  <2>10. IsTurnOf(messages \o t, 1)
    BY <1>0, <2>9 DEF IsTurnOf
  <2> QED BY <2>4, <2>8, <2>9, <2>10
<1> QED BY <1>2, <1>3, <1>4, <1>5 DEF Next

-----------------------------------------------------------------------------
(* Feedback.                                                               *)

FeedbackAt(ms) == {i \in DOMAIN ms : ms[i].role = "tool" /\ ms[i].content # "unparseable"}

\* What a turn of the model adds is not feedback.
LEMMA IngestIsNoFeedback ==
    ASSUME messages \in Seq(Message), NEW calls \in RawCalls, NEW content \in BOOLEAN
    PROVE  LET new == Ingest(calls, content) IN
           /\ new \in Seq(Message) /\ Len(messages) <= Len(new)
           /\ \A i \in 1 .. Len(messages) : new[i] = messages[i]
           /\ \A i \in Len(messages) + 1 .. Len(new) : i \notin FeedbackAt(new)
<1> DEFINE new == Ingest(calls, content)
           m == Len(messages)
<1>0. m \in Nat
  OBVIOUS
<1>1. CASE calls # <<>>
  <2> DEFINE said == Append(messages, Said(calls))
  <2>1. Said(calls) \in Message /\ new = said \o Errors(calls) /\ new \in Seq(Message)
    BY <1>1, IngestCalls
  <2>2. /\ Errors(calls) \in Seq(Message) /\ Len(Errors(calls)) = Len(Garbage(calls))
        /\ \A i \in 1 .. Len(Garbage(calls)) :
              Errors(calls)[i] = ToolResult(Garbage(calls)[i].id, "unparseable")
    BY TurnTypes
  <2> DEFINE g == Len(Errors(calls))
  <2> HIDE DEF new
  <2>3. /\ g \in Nat /\ Len(new) = (m + 1) + g
        /\ \A i \in 1 .. m : new[i] = messages[i]
        /\ new[m + 1] = Said(calls)
        /\ \A i \in m + 2 .. (m + 1) + g : new[i] = Errors(calls)[i - (m + 1)]
    <3> HIDE DEF Said
    <3>1. /\ said \in Seq(Message) /\ Len(said) = m + 1
          /\ \A i \in 1 .. m : said[i] = messages[i]
          /\ said[m + 1] = Said(calls)
      BY <2>1
    <3> HIDE DEF said
    <3>11. g \in Nat
      BY <2>2
    <3>12. Len(said \o Errors(calls)) = Len(said) + g
      <4>1. ASSUME NEW a \in Seq(Message), NEW b \in Seq(Message)
            PROVE  Len(a \o b) = Len(a) + Len(b)
        OBVIOUS
      <4> QED BY <2>2, <3>1, <4>1, Zenon
    <3>2. g \in Nat /\ Len(new) = (m + 1) + g
      BY <2>1, <3>11, <3>12, <3>1, Zenon
    <3>3. \A i \in 1 .. m + 1 : new[i] = said[i]
      BY <1>0, <2>1, <2>2, <3>1
    <3>4. \A i \in m + 2 .. (m + 1) + g : new[i] = Errors(calls)[i - (m + 1)]
      BY <1>0, <2>1, <2>2, <3>1
    <3>5. \A i \in 1 .. m : i \in 1 .. m + 1
      BY <1>0
    <3>6. m + 1 \in 1 .. m + 1
      BY <1>0
    <3> QED BY <3>1, <3>2, <3>3, <3>4, <3>5, <3>6
  <2>4. m + 1 \notin FeedbackAt(new)
    BY <2>3 DEF FeedbackAt, Said
  <2>5. ASSUME NEW i \in m + 2 .. (m + 1) + g PROVE i \notin FeedbackAt(new)
    <3>1. i - (m + 1) \in 1 .. g
      BY <1>0, <2>3
    <3>2. new[i] = ToolResult(Garbage(calls)[i - (m + 1)].id, "unparseable")
      BY <2>2, <2>3, <3>1
    <3> QED BY <3>2 DEF ToolResult, FeedbackAt
  <2>6. \A i \in m + 1 .. (m + 1) + g : i = m + 1 \/ i \in m + 2 .. (m + 1) + g
    BY <1>0, <2>3
  <2>7. m <= (m + 1) + g
    BY <1>0, <2>3
  <2> QED BY <2>1, <2>3, <2>4, <2>5, <2>6, <2>7 DEF new
<1>2. CASE calls = <<>>
  <2> DEFINE said == Append(messages, Said(<<>>))
  <2>1. Said(<<>>) \in Message /\ new \in {messages, said} /\ new \in Seq(Message)
    BY <1>2, IngestNothing
  <2> HIDE DEF new
  <2>2. CASE new = messages
    BY <1>0, <2>1, <2>2 DEF new
  <2>3. CASE new = said
    <3>1. /\ Len(new) = m + 1 /\ \A i \in 1 .. m : new[i] = messages[i]
          /\ new[m + 1] = Said(<<>>)
      <4> HIDE DEF Said
      <4> QED BY <2>1, <2>3
    <3>2. m + 1 \notin FeedbackAt(new)
      BY <3>1 DEF FeedbackAt, Said
    <3>3. \A i \in m + 1 .. m + 1 : i = m + 1
      BY <1>0
    <3> QED BY <1>0, <2>1, <3>1, <3>2, <3>3 DEF new
  <2> QED BY <2>1, <2>2, <2>3
<1> QED BY <1>1, <1>2

\* Every step tells the model what it returns to the caller.
LEMMA FeedbackStep ==
    ASSUME Inv, FeedbackIsOutcomes, [Next]_vars
    PROVE  FeedbackIsOutcomes'
<1> DEFINE m == Len(messages)
           D == FeedbackAt(messages)
<1>0. /\ messages \in Seq(Message) /\ outcomes \in Seq(Decisions)
      /\ m \in Nat /\ DOMAIN messages = 1 .. m
      /\ Told = Picked(messages, D) /\ Told' = Picked(messages', FeedbackAt(messages'))
  BY DEF Inv, ControlInv, Told, FeedbackAt
<1>1. D \in SUBSET (1 .. m)
  BY <1>0 DEF FeedbackAt
<1>2. principal' = principal
  BY DEF Next, vars, BeginTurn, AskScripted, AskLive, GiveUp, PostFails, Serve, fixed
<1>3. CASE UNCHANGED <<messages, outcomes>>
  <2>1. Told' = Told
    BY <1>3 DEF Told
  <2> QED BY <1>2, <1>3, <2>1 DEF FeedbackIsOutcomes, DecisionFeedback
<1>4. CASE BeginTurn \/ AskScripted \/ GiveUp \/ PostFails \/ UNCHANGED vars
  BY <1>3, <1>4 DEF BeginTurn, AskScripted, GiveUp, PostFails, vars
<1>5. ASSUME NEW calls \in RawCalls, NEW content \in BOOLEAN, AskLive(calls, content)
      PROVE  FeedbackIsOutcomes'
  <2>1. messages' = Ingest(calls, content) /\ outcomes' = outcomes
    BY <1>5 DEF AskLive
  <2>2. /\ messages' \in Seq(Message) /\ m <= Len(messages')
        /\ \A i \in 1 .. m : messages'[i] = messages[i]
        /\ \A i \in m + 1 .. Len(messages') : i \notin FeedbackAt(messages')
    BY <1>0, <2>1, IngestIsNoFeedback
  <2>3. FeedbackAt(messages') = D
    <3>1. Len(messages') \in Nat /\ DOMAIN messages' = 1 .. Len(messages')
      BY <2>2
    <3>2. \A i \in 1 .. m : i \in FeedbackAt(messages') <=> i \in D
      <4>1. \A i \in 1 .. m : i \in 1 .. Len(messages')
        BY <1>0, <2>2, <3>1
      <4> QED BY <1>0, <2>2, <3>1, <4>1 DEF FeedbackAt
    <3>3. \A i \in 1 .. Len(messages') : i \in 1 .. m \/ i \in m + 1 .. Len(messages')
      BY <1>0, <2>2, <3>1
    <3>4. FeedbackAt(messages') \subseteq 1 .. Len(messages')
      BY <3>1 DEF FeedbackAt
    <3> HIDE DEF D
    <3> QED BY <1>1, <2>2, <3>2, <3>3, <3>4
  <2> HIDE DEF D
  <2>4. Picked(messages', D) = Picked(messages, D)
    BY <1>0, <1>1, <2>2, PickedPrefix
  <2>5. Told' = Told
    BY <1>0, <2>3, <2>4
  <2> QED BY <1>2, <2>1, <2>5 DEF FeedbackIsOutcomes, DecisionFeedback
<1>6. ASSUME NEW decision \in Decisions, Serve(decision)
      PROVE  FeedbackIsOutcomes'
  <2> SUFFICES ASSUME principal = "live" PROVE FeedbackIsOutcomes'
    BY <1>2 DEF FeedbackIsOutcomes
  <2> DEFINE r == ToolResult(Head(batch).id, DecisionFeedback(decision))
  <2>1. /\ messages' = Append(messages, r) /\ outcomes' = Append(outcomes, decision)
        /\ batch # <<>> /\ batch \in Seq(RawCall)
    BY <1>6 DEF Serve, Inv, ControlInv
  <2>2. DecisionFeedback(decision) # "unparseable"
    BY DEF DecisionFeedback, Decisions
  <2>3. r.role = "tool" /\ r.content = DecisionFeedback(decision)
    BY DEF ToolResult
  <2>4. r \in Message
    <3>1. Head(batch) \in RawCall
      BY <2>1
    <3>2. Head(batch).id \in Id
      BY <3>1 DEF RawCall
    <3>3. DecisionFeedback(decision) \in Feedback
      BY DEF Feedback
    <3> HIDE DEF Feedback
    <3> QED BY <3>2, <3>3 DEF ToolResult, Message
  <2> HIDE DEF r
  <2>5. /\ DOMAIN messages' = 1 .. m + 1
        /\ \A i \in 1 .. m : messages'[i] = messages[i]
        /\ messages'[m + 1] = r
    BY <1>0, <2>1, <2>4
  <2>6. FeedbackAt(messages') = D \cup {m + 1}
    <3>1. \A i \in 1 .. m : i \in FeedbackAt(messages') <=> i \in D
      <4>1. \A i \in 1 .. m : i \in 1 .. m + 1
        BY <1>0
      <4> QED BY <1>0, <2>5, <4>1 DEF FeedbackAt
    <3>2. m + 1 \in FeedbackAt(messages')
      <4>1. m + 1 \in 1 .. m + 1
        BY <1>0
      <4> QED BY <2>2, <2>3, <2>5, <4>1 DEF FeedbackAt
    <3>3. \A i \in 1 .. m + 1 : i \in 1 .. m \/ i = m + 1
      BY <1>0
    <3>4. FeedbackAt(messages') \subseteq 1 .. m + 1
      BY <2>5 DEF FeedbackAt
    <3> HIDE DEF D
    <3> QED BY <1>1, <3>1, <3>2, <3>3, <3>4
  <2> HIDE DEF D
  <2>7. Told \in Seq(Message) /\ Len(Told) = Cardinality(D)
    BY <1>0, <1>1, PickedType
  <2>8. Told' = Append(Told, r)
    BY <1>0, <1>1, <2>1, <2>4, <2>6, PickedAppend
  <2> DEFINE n == Len(Told)
  <2>9. /\ n \in Nat /\ n = Len(outcomes) /\ DOMAIN Told = 1 .. n
        /\ \A i \in 1 .. n : Told[i].content = DecisionFeedback(outcomes[i])
    BY <2>7 DEF FeedbackIsOutcomes
  <2>10. /\ Len(Told') = n + 1 /\ DOMAIN Told' = 1 .. n + 1
         /\ \A i \in 1 .. n : Told'[i] = Told[i]
         /\ Told'[n + 1] = r
    BY <2>4, <2>7, <2>8
  <2>11. /\ Len(outcomes') = n + 1 /\ outcomes'[n + 1] = decision
         /\ \A i \in 1 .. n : outcomes'[i] = outcomes[i]
    BY <1>0, <2>1, <2>9
  <2>12. \A i \in 1 .. n + 1 : i \in 1 .. n \/ i = n + 1
    BY <2>9
  <2>13. ASSUME NEW i \in 1 .. n + 1
         PROVE  Told'[i].content = DecisionFeedback(outcomes'[i])
    <3>1. CASE i \in 1 .. n
      <4>1. Told'[i] = Told[i] /\ outcomes'[i] = outcomes[i]
        BY <2>10, <2>11, <3>1
      <4>2. Told[i].content = DecisionFeedback(outcomes[i])
        BY <2>9, <3>1
      <4> QED BY <4>1, <4>2
    <3>2. CASE i = n + 1
      BY <2>3, <2>10, <2>11, <3>2
    <3> QED BY <2>12, <3>1, <3>2
  <2> QED BY <2>10, <2>11, <2>13 DEF FeedbackIsOutcomes, DecisionFeedback
<1> QED BY <1>4, <1>5, <1>6 DEF Next

-----------------------------------------------------------------------------
(* The theorems.                                                           *)

\* A loop that has not begun.
LEMMA LoopStarts == Init => Inv /\ ConversationInv /\ FeedbackIsOutcomes
<1> SUFFICES ASSUME Init PROVE Inv /\ ConversationInv /\ FeedbackIsOutcomes
  OBVIOUS
<1>1. Inv /\ messages = <<>> /\ batch = <<>> /\ outcomes = <<>>
  BY InitInv DEF Init
<1>2. ConversationInv
  BY <1>1 DEF ConversationInv, Balanced
<1>3. Told = <<>>
  <2>1. FeedbackAt(<<>>) = {}
    BY DEF FeedbackAt
  <2>2. <<>> \in Seq({})
    OBVIOUS
  <2>3. Picked(<<>>, {}) = <<>>
    BY <2>2, PickedNone
  <2> QED BY <1>1, <2>1, <2>3 DEF Told, FeedbackAt
<1>4. FeedbackIsOutcomes
  BY <1>1, <1>3 DEF FeedbackIsOutcomes
<1> QED BY <1>1, <1>2, <1>4

\* The inductive invariant of the loop, of whatever takes its steps.
THEOREM LoopInvariant ==
    Init /\ [][Next]_vars => [](Inv /\ ConversationInv /\ FeedbackIsOutcomes)
<1>1. Init => Inv /\ ConversationInv /\ FeedbackIsOutcomes
  BY LoopStarts
<1>2. Inv /\ ConversationInv /\ FeedbackIsOutcomes /\ [Next]_vars
        => (Inv /\ ConversationInv /\ FeedbackIsOutcomes)'
  BY InvStep, ConversationStep, FeedbackStep
<1> QED BY <1>1, <1>2, PTL

\* Type correctness of the loop, its turns and retries within their budgets.
THEOREM LoopTypes == Spec => []TypeOK
<1>1. Inv => TypeOK
  BY DEF Inv, ControlInv
<1> QED BY <1>1, LoopInvariant, PTL DEF Spec

\* Requests posted, out of the budgets.
LEMMA BudgetsHold == Inv => PostsBounded
<1> SUFFICES ASSUME Inv PROVE PostsBounded
  OBVIOUS
<1> DEFINE R == MAX_UNPARSEABLE_RETRIES
           before == (turn - 1) * R
<1>1. /\ turn \in Nat /\ turn <= max_turns /\ posts \in Nat
      /\ R \in Nat /\ tries \in Nat /\ tries <= R
  BY LoopAssumption DEF Inv, ControlInv, TypeOK
<1>2. CASE pc = "ask"
  <2>1. turn >= 1 /\ posts <= before + tries
    BY <1>2 DEF Inv, BudgetInv
  <2>2. before \in Nat /\ turn * R = before + R
    BY <1>1, <2>1
  <2> HIDE DEF before
  <2>3. posts <= turn * R
    BY <1>1, <2>1, <2>2
  <2> QED BY <1>1, <2>3 DEF PostsBounded
<1>3. CASE pc # "ask"
  BY <1>1, <1>3 DEF Inv, BudgetInv, PostsBounded
<1> QED BY <1>2, <1>3

\* However the model behaves, a run posts no more than its budgets allow.
THEOREM RequestsBounded == Spec => []PostsBounded
BY BudgetsHold, LoopInvariant, PTL DEF Spec

\* A script that has ended.
LEMMA ScriptDone == Inv => ScriptReplayedInFull
<1> SUFFICES ASSUME Inv, principal = "scripted", pc = "ended"
             PROVE  Len(outcomes) = scripted /\ result = "Ok" /\ finished
  BY DEF ScriptReplayedInFull
<1>1. batch = <<>> /\ Len(batch) = 0 /\ outcomes \in Seq(Decisions)
  BY DEF Inv, ControlInv
<1>2. Len(outcomes) \in Nat
  BY <1>1
<1>3. /\ Len(outcomes) + Len(batch) + pending = scripted
      /\ pending = 0 /\ result = "Ok" /\ finished
  BY DEF Inv, ScriptInv
<1> QED BY <1>1, <1>2, <1>3

\* Every script is replayed in full, whatever its length, and its run is Ok.
THEOREM ScriptsReplayed == Spec => []ScriptReplayedInFull
BY ScriptDone, LoopInvariant, PTL DEF Spec

\* What the model is told is what the caller gets.
THEOREM FeedbackTruthful == Spec => []FeedbackIsOutcomes
BY LoopInvariant, PTL DEF Spec

\* A conversation that owes nothing has every call answered.
LEMMA BalancedIsAnswered == Inv /\ ConversationInv => EveryCallAnswered
<1> SUFFICES ASSUME Inv, ConversationInv, pc = "ask" PROVE EveryCallAnswered
  BY DEF EveryCallAnswered
<1>1. CASE principal = "scripted"
  <2>1. messages = <<>>
    BY <1>1 DEF Inv, ScriptInv
  <2> QED BY <2>1 DEF EveryCallAnswered
<1>2. CASE principal = "live"
  <2>1. batch = <<>> /\ messages \in Seq(Message)
    BY DEF Inv, ControlInv
  <2>2. Balanced(messages, Nothing) /\ (messages # <<>> => IsTurn(1))
    BY <1>2, <2>1, NothingOwed DEF ConversationInv, Owed
  <2>3. ASSUME NEW i \in DOMAIN messages, IsTurn(i), NEW id \in Id
        PROVE  Cardinality({j \in Answers(i) : messages[j].id = id}) =
                 Cardinality({k \in DOMAIN messages[i].calls : messages[i].calls[k].id = id})
    <3>1. Nothing[id] = 0
      BY DEF Nothing
    <3>2. Cardinality(AnsweredIn(messages, i, id)) + 0 = Count(messages[i].calls, id)
      BY <2>2, <2>3, <3>1 DEF Balanced, IsTurn, IsTurnOf
    <3>3. Cardinality(AnsweredIn(messages, i, id)) \in Nat
      BY <2>1, AnsweredFinite
    <3>4. Answers(i) = AnswersIn(messages, i)
      BY DEF Answers, AnswersIn, IsTurn, IsTurnOf
    <3>5. {j \in Answers(i) : messages[j].id = id} = AnsweredIn(messages, i, id)
      BY <3>4 DEF AnsweredIn
    <3>6. Count(messages[i].calls, id) =
            Cardinality({k \in DOMAIN messages[i].calls : messages[i].calls[k].id = id})
      BY DEF Count, OfId
    <3>7. ASSUME NEW n \in Nat PROVE n + 0 = n
      OBVIOUS
    <3>8. Cardinality(AnsweredIn(messages, i, id)) = Count(messages[i].calls, id)
      BY <3>2, <3>3, <3>7, Zenon
    <3> QED BY <3>5, <3>6, <3>8, Zenon
  <2> QED BY <2>2, <2>3 DEF EveryCallAnswered
<1> QED BY <1>1, <1>2 DEF Inv, ControlInv, TypeOK

\* No request is posted over a conversation with a call left unanswered or
\* answered twice, however many calls a turn has and whatever their ids.
THEOREM ConversationValid == Spec => []EveryCallAnswered
BY BalancedIsAnswered, LoopInvariant, PTL DEF Spec

-----------------------------------------------------------------------------
(* Why the loop ends: a bound on the steps it has left.                    *)

\* What a turn may take: its requests, the calls of the answer (a script hands
\* out one whatever a model may), and the steps between.
StepsOfTurn == MAX_UNPARSEABLE_RETRIES + MaxCallsPerTurn + 3

\* What is left of this turn.
StepsOfThisTurn ==
    CASE pc = "turn"  -> 1
      [] pc = "ask"   -> (MAX_UNPARSEABLE_RETRIES - tries) + MaxCallsPerTurn + 3
      [] pc = "serve" -> Len(batch) + 1
      [] pc = "ended" -> 0

StepsLeft == (max_turns - turn) * StepsOfTurn + StepsOfThisTurn

\* A turn serves no more calls than a model may make, or than a script hands out.
BatchInv == Len(batch) <= MaxCallsPerTurn + 1

\* A turn has no more calls that parse than calls.
LEMMA RunnableBounded ==
    ASSUME NEW calls \in RawCalls
    PROVE  Len(Runnable(calls)) \in 0 .. MaxCallsPerTurn
<1>1. PICK n \in 0 .. MaxCallsPerTurn : calls \in [1 .. n -> RawCall]
  BY DEF RawCalls
<1>2. n \in Nat /\ n <= MaxCallsPerTurn /\ MaxCallsPerTurn \in Nat
  BY LoopAssumption
<1>3. calls \in Seq(RawCall) /\ Len(calls) = n /\ DOMAIN calls = 1 .. n
  BY <1>1, <1>2
<1> DEFINE D == {i \in DOMAIN calls : calls[i].parses}
<1>4. D \in SUBSET (1 .. n)
  BY <1>3
<1>5. Runnable(calls) = Picked(calls, D)
  BY DEF Runnable
<1> HIDE DEF D
<1>6. Len(Picked(calls, D)) = Cardinality(D)
  BY <1>3, <1>4, PickedType
<1>7. IsFiniteSet(1 .. n) /\ Cardinality(1 .. n) = n
  BY <1>2, FS_Interval
<1>8. Cardinality(D) \in Nat /\ Cardinality(D) <= n
  BY <1>4, <1>7, FS_Subset, FS_CardinalityType
<1> QED BY <1>2, <1>5, <1>6, <1>8

LEMMA BatchStep ==
    ASSUME Inv, BatchInv, [Next]_vars
    PROVE  BatchInv'
<1>0. MaxCallsPerTurn \in Nat /\ batch \in Seq(RawCall) /\ Len(batch) \in Nat
  BY LoopAssumption DEF Inv, ControlInv
<1>1. CASE batch' = batch
  BY <1>1 DEF BatchInv
<1>2. ASSUME NEW id \in Id, batch' = <<[id |-> id, parses |-> TRUE]>>
      PROVE  BatchInv'
  <2>1. Len(batch') = 1
    BY <1>2
  <2> QED BY <1>0, <2>1 DEF BatchInv
<1>3. ASSUME NEW calls \in RawCalls, batch' = Runnable(calls)
      PROVE  BatchInv'
  <2>1. Len(batch') \in 0 .. MaxCallsPerTurn
    BY <1>3, RunnableBounded
  <2> QED BY <1>0, <2>1 DEF BatchInv
<1>4. ASSUME NEW decision \in Decisions, Serve(decision)
      PROVE  BatchInv'
  <2>1. batch # <<>> /\ batch' = Tail(batch)
    BY <1>4 DEF Serve
  <2>2. Len(batch') = Len(batch) - 1
    BY <1>0, <2>1
  <2> QED BY <1>0, <2>2 DEF BatchInv
<1>5. CASE BeginTurn \/ GiveUp \/ PostFails \/ UNCHANGED vars
  BY <1>1, <1>5 DEF BeginTurn, GiveUp, PostFails, vars
<1>6. CASE AskScripted
  BY <1>1, <1>2, <1>6 DEF AskScripted
<1>7. ASSUME NEW calls \in RawCalls, NEW content \in BOOLEAN, AskLive(calls, content)
      PROVE  BatchInv'
  BY <1>1, <1>3, <1>7 DEF AskLive
<1> QED BY <1>4, <1>5, <1>6, <1>7 DEF Next

\* The bound is a number, and every step of the loop lowers it.
LEMMA StepsNat ==
    Inv => StepsLeft \in Nat /\ StepsOfTurn \in Nat /\ StepsOfThisTurn \in Nat
<1> SUFFICES ASSUME Inv
             PROVE  StepsLeft \in Nat /\ StepsOfTurn \in Nat /\ StepsOfThisTurn \in Nat
  OBVIOUS
<1>1. /\ MAX_UNPARSEABLE_RETRIES \in Nat /\ MaxCallsPerTurn \in Nat
      /\ max_turns \in Nat /\ turn \in 0 .. max_turns
      /\ tries \in 0 .. MAX_UNPARSEABLE_RETRIES
      /\ pc \in {"turn", "ask", "serve", "ended"} /\ batch \in Seq(RawCall)
  BY LoopAssumption DEF Inv, ControlInv, TypeOK
<1>2. StepsOfTurn \in Nat
  BY <1>1 DEF StepsOfTurn
<1>3. Len(batch) \in Nat
  BY <1>1
<1>4. StepsOfThisTurn \in Nat
  <2>1. CASE pc = "turn"
    BY <2>1 DEF StepsOfThisTurn
  <2>2. CASE pc = "ask"
    BY <1>1, <2>2 DEF StepsOfThisTurn
  <2>3. CASE pc = "serve"
    BY <1>3, <2>3 DEF StepsOfThisTurn
  <2>4. CASE pc = "ended"
    BY <2>4 DEF StepsOfThisTurn
  <2> QED BY <1>1, <2>1, <2>2, <2>3, <2>4
<1>5. max_turns - turn \in Nat
  BY <1>1
<1>6. (max_turns - turn) * StepsOfTurn \in Nat
  BY <1>2, <1>5
<1> QED BY <1>2, <1>4, <1>6 DEF StepsLeft

\* Within a turn it is enough that less of the turn is left.
LEMMA SameTurn ==
    ASSUME Inv, turn' = turn, max_turns' = max_turns,
           StepsOfThisTurn' \in Nat, StepsOfThisTurn' < StepsOfThisTurn
    PROVE  StepsLeft' < StepsLeft
<1> DEFINE later == (max_turns - turn) * StepsOfTurn
<1>1. later \in Nat /\ StepsOfThisTurn \in Nat
  <2>1. StepsOfTurn \in Nat /\ StepsOfThisTurn \in Nat /\ max_turns - turn \in Nat
    BY StepsNat DEF Inv, ControlInv, TypeOK
  <2> QED BY <2>1
<1>2. StepsLeft = later + StepsOfThisTurn /\ StepsLeft' = later + StepsOfThisTurn'
  BY DEF StepsLeft, StepsOfTurn
<1>3. StepsOfThisTurn' \in Nat /\ StepsOfThisTurn' < StepsOfThisTurn
  OBVIOUS
<1>4. \A a, b, c \in Nat : b < c => a + b < a + c
  OBVIOUS
<1>5. later + StepsOfThisTurn' < later + StepsOfThisTurn
  <2> HIDE DEF later
  <2> QED BY <1>1, <1>3, <1>4, Zenon
<1> HIDE DEF later
<1> QED BY <1>2, <1>5, Zenon

LEMMA StepsDecrease ==
    ASSUME Inv, BatchInv, Next
    PROVE  StepsLeft' < StepsLeft
<1> DEFINE R == MAX_UNPARSEABLE_RETRIES
           C == MaxCallsPerTurn
<1>0. /\ R \in Nat /\ C \in Nat /\ max_turns \in Nat /\ turn \in Nat
      /\ tries \in Nat /\ tries <= R /\ batch \in Seq(RawCall) /\ Len(batch) \in Nat
  BY LoopAssumption DEF Inv, ControlInv, TypeOK
<1>1. Inv' /\ BatchInv'
  BY InvStep, BatchStep
<1>2. StepsOfThisTurn' \in Nat /\ batch' \in Seq(RawCall) /\ Len(batch') \in Nat
  <2>1. Inv' => StepsOfThisTurn' \in Nat
    <3>1. Inv' => (StepsLeft \in Nat /\ StepsOfTurn \in Nat /\ StepsOfThisTurn \in Nat)'
      BY StepsNat, PTL
    <3> QED BY <3>1
  <2>2. batch' \in Seq(RawCall)
    BY <1>1 DEF Inv, ControlInv
  <2> QED BY <1>1, <2>1, <2>2
<1>3. CASE BeginTurn
  <2>1. pc = "turn" /\ max_turns' = max_turns
    BY <1>3 DEF BeginTurn, fixed
  <2>2. StepsOfThisTurn = 1
    BY <2>1 DEF StepsOfThisTurn
  <2>3. CASE turn' = turn + 1 /\ tries' = 0 /\ pc' = "ask"
    <3> DEFINE W == StepsOfTurn
               later == (max_turns - (turn + 1)) * W
    <3>1. StepsOfThisTurn' = W
      BY <1>0, <2>3 DEF StepsOfThisTurn, StepsOfTurn
    <3>2. W \in Nat /\ W' = W
      BY <1>0 DEF StepsOfTurn
    <3>3. turn < max_turns
      BY <1>3, <2>3, <1>0 DEF BeginTurn
    <3>4. later \in Nat /\ (max_turns - turn) * W = later + W
      <4> HIDE DEF W
      <4>1. max_turns - (turn + 1) \in Nat
        BY <1>0, <3>3
      <4>2. max_turns - turn = (max_turns - (turn + 1)) + 1
        BY <1>0
      <4> QED BY <3>2, <4>1, <4>2
    <3>5. StepsLeft' = later + W
      BY <2>1, <2>3, <3>1, <3>2 DEF StepsLeft
    <3>6. StepsLeft = (later + W) + 1
      BY <2>2, <3>4 DEF StepsLeft
    <3> HIDE DEF W, later
    <3> QED BY <3>2, <3>4, <3>5, <3>6
  <2>4. CASE turn' = turn /\ pc' = "ended"
    <3>1. StepsOfThisTurn' = 0
      BY <2>4 DEF StepsOfThisTurn
    <3> QED BY <2>1, <2>2, <2>4, <3>1, SameTurn
  <2> QED BY <1>3, <2>3, <2>4 DEF BeginTurn, End
<1>4. CASE pc = "ask"
  <2>1. StepsOfThisTurn = (R - tries) + C + 3
    BY <1>4 DEF StepsOfThisTurn
  <2>2. turn' = turn /\ max_turns' = max_turns
    BY <1>4 DEF Next, BeginTurn, AskScripted, AskLive, GiveUp, PostFails, Serve, fixed
  <2>3. CASE pc' = "ended"
    <3>1. StepsOfThisTurn' = 0
      BY <2>3 DEF StepsOfThisTurn
    <3> QED BY <1>0, <2>1, <2>2, <3>1, SameTurn
  <2>4. CASE pc' = "serve"
    <3>1. StepsOfThisTurn' = Len(batch') + 1
      BY <2>4 DEF StepsOfThisTurn
    <3>2. Len(batch') <= C + 1
      BY <1>1 DEF BatchInv
    <3>3. StepsOfThisTurn' < StepsOfThisTurn
      BY <1>0, <1>2, <2>1, <3>1, <3>2
    <3> QED BY <1>2, <2>2, <3>3, SameTurn
  <2>5. CASE pc' = "ask" /\ tries' = tries + 1
    <3>1. StepsOfThisTurn' = (R - (tries + 1)) + C + 3
      BY <2>5 DEF StepsOfThisTurn
    <3>2. StepsOfThisTurn' < StepsOfThisTurn
      BY <1>0, <2>1, <3>1
    <3> QED BY <1>2, <2>2, <3>2, SameTurn
  <2>6. AskScripted \/ GiveUp \/ PostFails
        \/ \E calls \in RawCalls, content \in BOOLEAN : AskLive(calls, content)
    BY <1>4 DEF Next, BeginTurn, Serve
  <2> QED BY <1>4, <2>3, <2>4, <2>5, <2>6 DEF AskScripted, AskLive, GiveUp, PostFails, End
<1>5. ASSUME NEW decision \in Decisions, Serve(decision)
      PROVE  StepsLeft' < StepsLeft
  <2>1. /\ pc = "serve" /\ batch # <<>> /\ batch' = Tail(batch)
        /\ pc' = (IF batch' = <<>> THEN "turn" ELSE "serve")
        /\ turn' = turn /\ max_turns' = max_turns
    BY <1>5 DEF Serve, fixed
  <2>2. StepsOfThisTurn = Len(batch) + 1
    BY <2>1 DEF StepsOfThisTurn
  <2>3. Len(batch') = Len(batch) - 1 /\ Len(batch) >= 1
    BY <1>0, <2>1
  <2>4. StepsOfThisTurn' <= Len(batch)
    <3>1. CASE pc' = "turn"
      <4>1. StepsOfThisTurn' = 1
        BY <3>1 DEF StepsOfThisTurn
      <4> QED BY <1>0, <2>3, <4>1
    <3>2. CASE pc' = "serve"
      <4>1. StepsOfThisTurn' = Len(batch') + 1
        BY <3>2 DEF StepsOfThisTurn
      <4> QED BY <1>0, <1>2, <2>3, <4>1
    <3> QED BY <2>1, <3>1, <3>2
  <2>5. StepsOfThisTurn' < StepsOfThisTurn
    BY <1>0, <1>2, <2>2, <2>4
  <2> QED BY <1>2, <2>1, <2>5, SameTurn
<1> QED BY <1>3, <1>4, <1>5
        DEF Next, AskScripted, AskLive, GiveUp, PostFails

\* Before the first turn there is no batch.
LEMMA BatchStarts == Init => BatchInv
<1> SUFFICES ASSUME Init PROVE BatchInv
  OBVIOUS
<1>1. batch = <<>> /\ Len(<<>>) = 0
  BY DEF Init
<1> QED BY <1>1, LoopAssumption DEF BatchInv

\* The loop's invariant, with the bound on the batch.
LEMMA LoopBatch == Init /\ [][Next]_vars => [](Inv /\ BatchInv)
<1>1. Init => Inv /\ BatchInv
  BY InitInv, BatchStarts
<1>2. Inv /\ BatchInv /\ [Next]_vars => (Inv /\ BatchInv)'
  BY InvStep, BatchStep
<1> QED BY <1>1, <1>2, PTL

\* Whatever the model answers, every step of the loop uses up some of a
\* number fixed by the budgets, so no run of it is endless (LoopEnds).
THEOREM LoopUsesBudget ==
    Init /\ [][Next]_vars => [](StepsLeft \in Nat) /\ [][StepsLeft' < StepsLeft]_vars
<1>1. Inv /\ BatchInv /\ [Next]_vars => [StepsLeft' < StepsLeft]_vars
  BY StepsDecrease
<1>2. Inv => StepsLeft \in Nat
  BY StepsNat
<1> QED BY <1>1, <1>2, LoopBatch, PTL

-----------------------------------------------------------------------------
(* The loop in the process.                                                *)

\* What is invariant of the loop, taken together.
LoopInv == Inv /\ BatchInv /\ ConversationInv /\ FeedbackIsOutcomes

LEMMA LoopInvStarts == Init => LoopInv
BY LoopStarts, BatchStarts DEF LoopInv

LEMMA LoopInvSteps == LoopInv /\ [Next]_vars => LoopInv'
BY InvStep, BatchStep, ConversationStep, FeedbackStep DEF LoopInv

-----------------------------------------------------------------------------
(* The process.                                                            *)

Kinds == {"ROOT MINTED", "ATTENUATED", "ALLOWED", "DENIED"}

\* The loop has not begun, or was never reached.
BeforeLoop ==
    \/ phase \in {"start", "manifest", "new", "select"}
    \/ phase = "exited" /\ ~report.printed

\* The principal the arguments and the environment call for has been made.
Selected ==
    /\ principal = IF args = 3 THEN "scripted" ELSE "live"
    /\ scripted = IF args = 3 THEN calls_file ELSE 0

\* Where main is, what the loop and the report hold by then, and the status
\* each way out leaves.
PhaseInv ==
    /\ args \in 1 .. 3 /\ calls_file \in ScriptLengths
    /\ phase \in {"start", "manifest", "new", "select"} => Init
    /\ ~BeforeLoop => Selected
    /\ mode \in {"Enforced", "Bypassed"}
    /\ phase \in {"start", "manifest", "new", "select", "run", "report", "exited"}
    /\ exit = Running <=> phase # "exited"
    /\ BeforeLoop => posts = 0 /\ outcomes = <<>>
    /\ IF report.printed
       THEN /\ phase = "exited" /\ exit = IF result = "Err" THEN 1 ELSE 0
            /\ report.outcomes = outcomes /\ report.audit_log = audit_log
       ELSE report = NoReport /\ exit # 0
    /\ phase = "report" \/ report.printed => pc = "ended"

\* Unless AUTHZ holds an off switch, a start leaves the mode Enforced.
ModeInv ==
    phase # "start" /\ (authz = Unset \/ Lowercase[authz] \notin OffSwitches) =>
        mode = "Enforced"

\* Every call let through was attenuated for directly before.
Closed(log) ==
    \A i \in DOMAIN log : log[i] = "ALLOWED" => i > 1 /\ log[i - 1] = "ATTENUATED"

\* The log tells of each outcome in order, and nothing else was decided.
TellsOf(log, decisions) ==
    /\ Len(Logged(log)) = Len(decisions)
    /\ \A i \in 1 .. Len(decisions) : Logged(log)[i] = "ALLOWED" <=> decisions[i] = "Allowed"

LogInv ==
    /\ audit_log \in Seq(Kinds)
    /\ phase = "start" => audit_log = <<>>
    /\ phase \in {"manifest", "new"} => audit_log = <<>>
    /\ mode = "Enforced" => Closed(audit_log)
    /\ TellsOf(audit_log, outcomes)

ProcessInv == PhaseInv /\ ModeInv /\ LogInv

\* A step of the loop keeps the principal and its script, and adds one outcome or none.
LEMMA LoopAdds ==
    ASSUME Inv, Next
    PROVE  /\ UNCHANGED <<principal, scripted>>
           /\ outcomes \in Seq(Decisions)
           /\ \/ outcomes' = outcomes
              \/ \E d \in Decisions : outcomes' = Append(outcomes, d)
<1>1. outcomes \in Seq(Decisions)
  BY DEF Inv, ControlInv, Decisions
<1>2. BeginTurn => UNCHANGED <<principal, scripted>> /\ outcomes' = outcomes
  BY DEF BeginTurn, fixed
<1>3. AskScripted => UNCHANGED <<principal, scripted>> /\ outcomes' = outcomes
  BY DEF AskScripted, fixed
<1>4. ASSUME NEW calls, NEW content, AskLive(calls, content)
      PROVE  UNCHANGED <<principal, scripted>> /\ outcomes' = outcomes
  BY <1>4 DEF AskLive, fixed
<1>5. GiveUp \/ PostFails => UNCHANGED <<principal, scripted>> /\ outcomes' = outcomes
  BY DEF GiveUp, PostFails, fixed
<1>6. ASSUME NEW d \in Decisions, Serve(d)
      PROVE  UNCHANGED <<principal, scripted>> /\ outcomes' = Append(outcomes, d)
  BY <1>6 DEF Serve, fixed
<1> QED BY <1>1, <1>2, <1>3, <1>4, <1>5, <1>6 DEF Next

\* One more entry of the audit log.
LEMMA LoggedAppend ==
    ASSUME NEW log \in Seq(Kinds), NEW e \in Kinds
    PROVE  /\ Append(log, e) \in Seq(Kinds)
           /\ Logged(log) \in Seq(Kinds)
           /\ e \notin Decided => Logged(Append(log, e)) = Logged(log)
           /\ e \in Decided => Logged(Append(log, e)) = Append(Logged(log), e)
<1> DEFINE D(s) == {i \in DOMAIN s : s[i] \in Decided}
           n == Len(log)
           t == Append(log, e)
<1>1. /\ n \in Nat /\ DOMAIN log = 1 .. n /\ DOMAIN t = 1 .. n + 1 /\ t \in Seq(Kinds)
      /\ \A i \in 1 .. n : t[i] = log[i]
      /\ t[n + 1] = e
  OBVIOUS
<1>2. D(log) \in SUBSET (1 .. n)
  BY <1>1
<1>3. Logged(log) = Picked(log, D(log)) /\ Logged(t) = Picked(t, D(t))
  BY DEF Logged
<1>4. \A i \in 1 .. n + 1 : i \in 1 .. n \/ i = n + 1
  BY <1>1
<1>5. e \notin Decided => D(t) = D(log)
  BY <1>1, <1>4
<1>6. e \in Decided => D(t) = D(log) \cup {n + 1}
  BY <1>1, <1>4
<1> HIDE DEF D
<1>7. Logged(log) \in Seq(Kinds)
  BY <1>2, <1>3, PickedType
<1>8. e \notin Decided => Logged(t) = Logged(log)
  BY <1>2, <1>3, <1>5, PickedUnmoved
<1>9. e \in Decided => Logged(t) = Append(Logged(log), e)
  BY <1>2, <1>3, <1>6, PickedAppend
<1> QED BY <1>1, <1>7, <1>8, <1>9

\* What step writes for a decision: the decision, and directly before it, if
\* anything, the attenuation.
LEMMA Entries ==
    ASSUME NEW d \in Decisions, mode \in {"Enforced", "Bypassed"},
           NEW log \in Seq(Kinds), NEW entries \in EntriesFor(d)
    PROVE  LET decided == IF d = "Allowed" THEN "ALLOWED" ELSE "DENIED" IN
           \/ /\ log \o entries = Append(log, decided)
              /\ mode = "Enforced" => decided = "DENIED"
           \/ log \o entries = Append(Append(log, "ATTENUATED"), decided)
<1> DEFINE decided == IF d = "Allowed" THEN "ALLOWED" ELSE "DENIED"
<1>1. decided \in Kinds /\ "ATTENUATED" \in Kinds
  BY DEF Kinds
<1>2. \/ entries = <<decided>> /\ (mode = "Enforced" => decided = "DENIED")
      \/ entries = <<"ATTENUATED", decided>>
  BY DEF EntriesFor
<1> HIDE DEF decided
<1>3. log \o <<decided>> = Append(log, decided)
  BY <1>1
<1>4. log \o <<"ATTENUATED", decided>> = Append(Append(log, "ATTENUATED"), decided)
  BY <1>1
<1>5. CASE entries = <<decided>> /\ (mode = "Enforced" => decided = "DENIED")
  BY <1>3, <1>5 DEF decided
<1>6. CASE entries = <<"ATTENUATED", decided>>
  BY <1>4, <1>6 DEF decided
<1> QED BY <1>2, <1>5, <1>6

\* Appending to a closed log.
LEMMA ClosedAppend ==
    ASSUME NEW log \in Seq(Kinds), NEW e \in Kinds, Closed(log),
           e = "ALLOWED" => Len(log) >= 1 /\ log[Len(log)] = "ATTENUATED"
    PROVE  Closed(Append(log, e))
<1> DEFINE n == Len(log)
           t == Append(log, e)
<1>1. /\ n \in Nat /\ DOMAIN log = 1 .. n /\ DOMAIN t = 1 .. n + 1
      /\ \A i \in 1 .. n : t[i] = log[i]
      /\ t[n + 1] = e
  OBVIOUS
<1> HIDE DEF t
<1> SUFFICES ASSUME NEW i \in 1 .. n + 1, t[i] = "ALLOWED"
             PROVE  i > 1 /\ t[i - 1] = "ATTENUATED"
  BY <1>1 DEF Closed, t
<1>2. CASE i \in 1 .. n
  <2>1. log[i] = "ALLOWED"
    BY <1>1, <1>2
  <2>2. i > 1 /\ log[i - 1] = "ATTENUATED"
    BY <1>1, <1>2, <2>1 DEF Closed
  <2>3. i - 1 \in 1 .. n
    BY <1>1, <1>2, <2>2
  <2> QED BY <1>1, <2>2, <2>3
<1>3. CASE i = n + 1
  <2>1. n >= 1 /\ log[n] = "ATTENUATED"
    BY <1>1, <1>3
  <2>2. n \in 1 .. n /\ i > 1 /\ i - 1 = n
    BY <1>1, <1>3, <2>1
  <2> QED BY <1>1, <2>1, <2>2
<1> QED BY <1>1, <1>2, <1>3

\* A decision and the entry that tells it.
LEMMA TellsAppend ==
    ASSUME NEW log \in Seq(Kinds), NEW decisions \in Seq(Decisions),
           TellsOf(log, decisions), NEW d \in Decisions, NEW e \in Decided,
           e = "ALLOWED" <=> d = "Allowed"
    PROVE  TellsOf(Append(log, e), Append(decisions, d))
<1> DEFINE told == Logged(log)
           n == Len(decisions)
<1>1. e \in Kinds
  BY DEF Decided, Kinds
<1>2. told \in Seq(Kinds) /\ Logged(Append(log, e)) = Append(told, e)
  BY <1>1, LoggedAppend
<1>3. n \in Nat /\ Len(told) = n
  BY DEF TellsOf
<1>4. \A i \in 1 .. n : told[i] = "ALLOWED" <=> decisions[i] = "Allowed"
  BY DEF TellsOf
<1> HIDE DEF told
<1>5. /\ Len(Append(told, e)) = n + 1 /\ Append(told, e)[n + 1] = e
      /\ \A i \in 1 .. n : Append(told, e)[i] = told[i]
  BY <1>1, <1>2, <1>3
<1>6. /\ Len(Append(decisions, d)) = n + 1 /\ Append(decisions, d)[n + 1] = d
      /\ \A i \in 1 .. n : Append(decisions, d)[i] = decisions[i]
  OBVIOUS
<1>7. \A i \in 1 .. n + 1 : i \in 1 .. n \/ i = n + 1
  BY <1>3
<1> QED BY <1>2, <1>4, <1>5, <1>6, <1>7, Zenon DEF TellsOf

-----------------------------------------------------------------------------
(* The steps.                                                              *)

\* The process starts with an empty log and nothing asked.
LEMMA ProcessStarts ==
    ASSUME ProcessInit
    PROVE  ProcessInv
<1>1. posts = 0 /\ outcomes = <<>>
  BY DEF ProcessInit, Init
<1>2. PhaseInv
  BY <1>1 DEF ProcessInit, PhaseInv, BeforeLoop, NoReport, Running
<1>3. ModeInv
  BY DEF ProcessInit, ModeInv
<1>4. LogInv
  <2>1. audit_log = <<>> /\ audit_log \in Seq(Kinds) /\ DOMAIN audit_log = {}
    BY DEF ProcessInit
  <2>2. Logged(<<>>) = <<>>
    <3>1. {i \in DOMAIN <<>> : <<>>[i] \in Decided} = {}
      OBVIOUS
    <3>2. <<>> \in Seq(Kinds)
      OBVIOUS
    <3>3. Picked(<<>>, {}) = <<>>
      BY <3>2, PickedNone
    <3> QED BY <3>1, <3>3 DEF Logged
  <2>3. TellsOf(<<>>, <<>>)
    BY <2>2 DEF TellsOf
  <2> QED BY <1>1, <2>1, <2>3 DEF LogInv, Closed, ProcessInit
<1> QED BY <1>2, <1>3, <1>4 DEF ProcessInv

\* Without an entry and an outcome the log tells what it told.
LEMMA LogKept ==
    ASSUME LogInv, UNCHANGED <<audit_log, outcomes, mode>>, phase' # "start",
           phase' \in {"manifest", "new"} => phase \in {"start", "manifest", "new"}
    PROVE  LogInv'
<1>1. Closed(audit_log)' <=> Closed(audit_log)
  BY DEF Closed
<1>2. TellsOf(audit_log, outcomes)' <=> TellsOf(audit_log, outcomes)
  BY DEF TellsOf, Logged
<1> QED BY <1>1, <1>2 DEF LogInv

\* Outside the loop only the mode and the phase change, and the entry of the
\* root capability is written.
LEMMA OutsideLoop ==
    ASSUME ProcessInv, Inv, UNCHANGED vars, Select => phase' = "exited",
           Start \/ LoadManifest \/ NewOrchestrator \/ Select \/ LoopReturns \/ PrintReport
    PROVE  ProcessInv'
<1>0. PhaseInv /\ ModeInv /\ LogInv
  BY DEF ProcessInv
<1>1. UNCHANGED <<vars, environment>>
  BY DEF Start, LoadManifest, NewOrchestrator, Select, LoopReturns, PrintReport
<1>2. UNCHANGED <<posts, outcomes, principal, scripted, pc, result, authz, args, calls_file>>
  BY <1>1 DEF vars, environment
<1>9. (Init' <=> Init) /\ (Selected' <=> Selected)
  BY <1>1, <1>2 DEF vars, Init, Selected
<1>3. CASE Start
  <2>1. mode' = IF authz = Unset \/ Lowercase[authz] \notin OffSwitches
                THEN "Enforced" ELSE "Bypassed"
    BY <1>3 DEF Start, FromEnvValue
  <2>2. UNCHANGED <<report, audit_log>> /\ audit_log = <<>> /\ phase = "start"
    BY <1>0, <1>3 DEF Start, LogInv
  <2>3. PhaseInv'
    BY <1>0, <1>2, <1>3, <1>9, <2>1 DEF Start, PhaseInv, BeforeLoop, Exit, Go, Running, NoReport
  <2>4. ModeInv'
    BY <1>2, <2>1 DEF ModeInv
  <2>5. Closed(audit_log')
    BY <2>2 DEF Closed
  <2>6. TellsOf(audit_log, outcomes)' <=> TellsOf(audit_log, outcomes)
    BY <1>2, <2>2 DEF TellsOf, Logged
  <2>7. LogInv'
    BY <1>0, <2>2, <2>5, <2>6 DEF LogInv
  <2> QED BY <2>3, <2>4, <2>7 DEF ProcessInv
<1>4. CASE LoadManifest
  <2>1. PhaseInv' /\ ModeInv'
    BY <1>0, <1>2, <1>4, <1>9
    DEF LoadManifest, PhaseInv, ModeInv, BeforeLoop, Exit, Go, Running, NoReport
  <2>2. LogInv'
    BY <1>0, <1>2, <1>4, LogKept DEF LoadManifest, Exit, Go
  <2> QED BY <2>1, <2>2 DEF ProcessInv
<1>5. CASE NewOrchestrator
  <2>1. UNCHANGED <<mode, report>> /\ phase = "new"
    BY <1>5 DEF NewOrchestrator
  <2>2. \/ phase' = "exited" /\ exit' \in {1, 101} /\ audit_log' = audit_log
        \/ phase' = "select" /\ exit' = exit /\ audit_log' = <<"ROOT MINTED">>
    BY <1>5 DEF NewOrchestrator, Exit, Go
  <2>3. report = NoReport /\ ~report.printed
    BY <1>0, <2>1 DEF PhaseInv, NoReport
  <2>4. PhaseInv'
    <3>1. CASE phase' = "exited" /\ exit' \in {1, 101}
      BY <1>0, <1>2, <1>9, <2>1, <2>3, <3>1 DEF PhaseInv, BeforeLoop, Running
    <3>2. CASE phase' = "select" /\ exit' = exit
      BY <1>0, <1>2, <1>9, <2>1, <2>3, <3>2 DEF PhaseInv, BeforeLoop, Running
    <3> QED BY <2>2, <3>1, <3>2
  <2>5. ModeInv'
    BY <1>0, <1>2, <2>1, <2>2 DEF ModeInv
  <2>6. CASE phase' = "exited" /\ audit_log' = audit_log
    BY <1>0, <1>2, <2>1, <2>4, <2>5, <2>6, LogKept DEF ProcessInv
  <2>7. CASE phase' = "select" /\ audit_log' = <<"ROOT MINTED">>
    <3>1. audit_log = <<>>
      BY <1>0, <2>1 DEF LogInv
    <3>2. audit_log \in Seq(Kinds) /\ "ROOT MINTED" \in Kinds /\ "ROOT MINTED" \notin Decided
      BY <1>0 DEF LogInv, Kinds, Decided
    <3>3. Append(<<>>, "ROOT MINTED") = <<"ROOT MINTED">>
      OBVIOUS
    <3>4. audit_log' = Append(audit_log, "ROOT MINTED")
      BY <2>7, <3>1, <3>3
    <3>5. audit_log' \in Seq(Kinds) /\ Logged(audit_log') = Logged(audit_log)
      BY <3>2, <3>4, LoggedAppend
    <3>6. Closed(audit_log)
      BY <3>1 DEF Closed
    <3>7. Closed(audit_log')
      BY <3>2, <3>4, <3>6, ClosedAppend
    <3>8. TellsOf(audit_log', outcomes')
      BY <1>0, <1>2, <3>5 DEF LogInv, TellsOf
    <3>9. LogInv'
      BY <2>7, <3>5, <3>7, <3>8 DEF LogInv
    <3> QED BY <2>4, <2>5, <3>9 DEF ProcessInv
  <2> QED BY <2>2, <2>6, <2>7
<1>6. CASE Select
  <2>1. PhaseInv' /\ ModeInv'
    BY <1>0, <1>2, <1>6, <1>9
    DEF Select, PhaseInv, ModeInv, BeforeLoop, Exit, Go, Running, NoReport
  <2>2. LogInv'
    BY <1>0, <1>2, <1>6, LogKept DEF Select, Exit, Go
  <2> QED BY <2>1, <2>2 DEF ProcessInv
<1>7. CASE LoopReturns
  <2>1. PhaseInv' /\ ModeInv'
    BY <1>0, <1>2, <1>7, <1>9
    DEF LoopReturns, PhaseInv, ModeInv, BeforeLoop, Exit, Go, Running, NoReport
  <2>2. LogInv'
    BY <1>0, <1>2, <1>7, LogKept DEF LoopReturns, Exit, Go
  <2> QED BY <2>1, <2>2 DEF ProcessInv
<1>8. CASE PrintReport
  <2>1. PhaseInv' /\ ModeInv'
    BY <1>0, <1>2, <1>8, <1>9
    DEF PrintReport, PhaseInv, ModeInv, BeforeLoop, Exit, Go, Running, NoReport
  <2>2. LogInv'
    BY <1>0, <1>2, <1>8, LogKept DEF PrintReport, Exit, Go
  <2> QED BY <2>1, <2>2 DEF ProcessInv
<1> QED BY <1>3, <1>4, <1>5, <1>6, <1>7, <1>8

\* Select makes the principal of a loop that has not begun, or main exits.
LEMMA SelectStep ==
    ASSUME PhaseInv, Select
    PROVE  \/ UNCHANGED vars /\ phase' = "exited"
           \/ Init' /\ Selected' /\ phase' = "run"
<1>1. Init /\ args \in 1 .. 3 /\ calls_file \in ScriptLengths
      /\ UNCHANGED <<args, calls_file>>
  BY DEF Select, PhaseInv, environment
<1>2. CASE args = 3 /\ Go("run") /\ ScriptedRun
  BY <1>1, <1>2 DEF ScriptedRun, MakePrincipal, Init, Selected, Go
<1>3. CASE args < 3 /\ Go("run") /\ LiveRun
  BY <1>1, <1>3 DEF LiveRun, MakePrincipal, Init, Selected, Go
<1> QED BY <1>2, <1>3 DEF Select, Exit

\* The process's own invariant when a principal has been made.
LEMMA SelectKeeps ==
    ASSUME ProcessInv, Select, Init', Selected', phase' = "run"
    PROVE  ProcessInv'
<1>0. PhaseInv /\ ModeInv /\ LogInv /\ phase = "select"
  BY DEF ProcessInv, Select
<1>1. /\ UNCHANGED <<authz, args, calls_file, mode, audit_log, report, exit>>
  BY DEF Select, environment, Exit, Go
<1>2. outcomes = <<>> /\ outcomes' = <<>>
  BY <1>0 DEF PhaseInv, Init
<1>3. report = NoReport /\ ~report.printed /\ exit = Running
  BY <1>0 DEF PhaseInv, NoReport
<1>4. PhaseInv'
  BY <1>0, <1>1, <1>3 DEF PhaseInv, BeforeLoop, Running
<1>5. ModeInv'
  BY <1>0, <1>1 DEF ModeInv
<1>6. LogInv'
  BY <1>0, <1>1, <1>2, LogKept
<1> QED BY <1>4, <1>5, <1>6 DEF ProcessInv

\* A step of the loop, with the entries of the call it serves.
LEMMA InLoop ==
    ASSUME ProcessInv, Inv, RunLoop
    PROVE  ProcessInv'
<1>0. /\ PhaseInv /\ ModeInv /\ LogInv /\ Next /\ phase = "run"
      /\ UNCHANGED <<environment, phase, mode, report, exit>>
  BY DEF ProcessInv, RunLoop
<1>1. /\ UNCHANGED <<principal, scripted>>
      /\ outcomes \in Seq(Decisions)
      /\ \/ outcomes' = outcomes
         \/ \E d \in Decisions : outcomes' = Append(outcomes, d)
  BY <1>0, LoopAdds
<1>2. report = NoReport /\ ~report.printed /\ exit = Running
  BY <1>0 DEF PhaseInv, NoReport
<1>3. PhaseInv'
  <2>1. UNCHANGED <<args, calls_file>> /\ ~BeforeLoop /\ ~BeforeLoop'
    BY <1>0, <1>2 DEF BeforeLoop, environment
  <2>2. Selected'
    BY <1>0, <1>1, <2>1 DEF PhaseInv, Selected
  <2> QED BY <1>0, <1>1, <1>2, <2>1, <2>2 DEF PhaseInv, Running
<1>4. ModeInv'
  BY <1>0 DEF ModeInv, environment
<1>5. CASE outcomes' = outcomes
  <2>1. Len(outcomes) \in Nat
    BY <1>1
  <2>2. ~(Len(outcomes') > Len(outcomes))
    BY <1>5, <2>1
  <2>3. audit_log' = audit_log
    BY <2>2 DEF RunLoop
  <2>4. LogInv'
    BY <1>0, <1>5, <2>3, LogKept
  <2> QED BY <1>3, <1>4, <2>4 DEF ProcessInv
<1>6. ASSUME NEW d \in Decisions, outcomes' = Append(outcomes, d)
      PROVE  LogInv'
  <2>1. /\ Len(outcomes) \in Nat /\ Len(outcomes') = Len(outcomes) + 1
        /\ outcomes'[Len(outcomes')] = d
    BY <1>1, <1>6
  <2>2. Len(outcomes') > Len(outcomes)
    BY <2>1
  <2>3. \E entries \in EntriesFor(d) : audit_log' = audit_log \o entries
    BY <2>1, <2>2 DEF RunLoop, Last
  <2>4. PICK entries \in EntriesFor(d) : audit_log' = audit_log \o entries
    BY <2>3
  <2> DEFINE e == IF d = "Allowed" THEN "ALLOWED" ELSE "DENIED"
             attenuated == Append(audit_log, "ATTENUATED")
  <2>5. /\ e \in Decided /\ e \in Kinds /\ (e = "ALLOWED" <=> d = "Allowed")
        /\ "ATTENUATED" \in Kinds /\ "ATTENUATED" \notin Decided /\ "ATTENUATED" # "ALLOWED"
    BY DEF Decided, Kinds
  <2>6. /\ audit_log \in Seq(Kinds) /\ TellsOf(audit_log, outcomes)
        /\ mode = "Enforced" => Closed(audit_log)
        /\ mode \in {"Enforced", "Bypassed"}
    BY <1>0 DEF LogInv, PhaseInv
  <2>7. \/ audit_log' = Append(audit_log, e) /\ (mode = "Enforced" => e = "DENIED")
        \/ audit_log' = Append(attenuated, e)
    BY <2>4, <2>6, Entries
  <2> HIDE DEF e
  <2>8. CASE audit_log' = Append(audit_log, e) /\ (mode = "Enforced" => e = "DENIED")
    <3>1. audit_log' \in Seq(Kinds)
      BY <2>5, <2>6, <2>8, LoggedAppend
    <3>2. TellsOf(audit_log', outcomes')
      BY <1>1, <1>6, <2>5, <2>6, <2>8, TellsAppend
    <3>3. mode = "Enforced" => Closed(audit_log')
      BY <2>5, <2>6, <2>8, ClosedAppend
    <3> QED BY <1>0, <3>1, <3>2, <3>3 DEF LogInv
  <2>9. CASE audit_log' = Append(attenuated, e)
    <3>1. attenuated \in Seq(Kinds) /\ Logged(attenuated) = Logged(audit_log)
      BY <2>5, <2>6, LoggedAppend
    <3>2. audit_log' \in Seq(Kinds)
      BY <2>5, <2>9, <3>1, LoggedAppend
    <3>3. TellsOf(attenuated, outcomes)
      BY <2>6, <3>1 DEF TellsOf
    <3>4. Len(attenuated) >= 1 /\ attenuated[Len(attenuated)] = "ATTENUATED"
      BY <2>6
    <3>5. mode = "Enforced" => Closed(attenuated)
      BY <2>5, <2>6, ClosedAppend
    <3> HIDE DEF attenuated
    <3>6. TellsOf(audit_log', outcomes')
      BY <1>1, <1>6, <2>5, <2>9, <3>1, <3>3, TellsAppend
    <3>7. mode = "Enforced" => Closed(audit_log')
      BY <2>5, <2>9, <3>1, <3>4, <3>5, ClosedAppend
    <3> QED BY <1>0, <3>2, <3>6, <3>7 DEF LogInv
  <2> QED BY <2>7, <2>8, <2>9
<1> QED BY <1>1, <1>3, <1>4, <1>5, <1>6 DEF ProcessInv

\* The loop is set up in Select and moves in RunLoop only.
LEMMA LoopMoves ==
    ASSUME PhaseInv, [ProcessNext]_processVars
    PROVE  [Next \/ (phase = "select" /\ Init')]_vars
<1>1. CASE Select
  BY <1>1, SelectStep DEF Select
<1>2. CASE ~Select
  BY <1>2 DEF ProcessNext, processVars, RunLoop, Start, LoadManifest, NewOrchestrator,
              LoopReturns, PrintReport
<1> QED BY <1>1, <1>2

-----------------------------------------------------------------------------
(* The theorems.                                                           *)

\* Every step keeps the process's invariant.
LEMMA ProcessStep ==
    ASSUME ProcessInv, Inv, [ProcessNext]_processVars
    PROVE  ProcessInv'
<1>1. CASE UNCHANGED processVars
  <2>1. UNCHANGED <<vars, posts, outcomes, principal, scripted, pc, result, authz, args,
                    calls_file, phase, mode, audit_log, report, exit>>
    BY <1>1 DEF processVars, vars, environment
  <2>2. Init' <=> Init
    BY <2>1 DEF vars, Init
  <2> QED BY <2>1, <2>2
          DEF ProcessInv, PhaseInv, ModeInv, LogInv, BeforeLoop, Selected, Closed, TellsOf, Logged
<1>2. CASE Select
  <2>1. CASE UNCHANGED vars /\ phase' = "exited"
    BY <1>2, <2>1, OutsideLoop
  <2>2. CASE Init' /\ Selected' /\ phase' = "run"
    BY <1>2, <2>2, SelectKeeps
  <2> QED BY <1>2, <2>1, <2>2, SelectStep DEF ProcessInv
<1>3. CASE Start \/ LoadManifest \/ NewOrchestrator \/ LoopReturns \/ PrintReport
  <2>1. UNCHANGED vars
    BY <1>3 DEF Start, LoadManifest, NewOrchestrator, LoopReturns, PrintReport
  <2>2. ~Select
    BY <1>3 DEF Start, LoadManifest, NewOrchestrator, LoopReturns, PrintReport, Select
  <2> QED BY <1>3, <2>1, <2>2, OutsideLoop
<1> QED BY <1>1, <1>2, <1>3, InLoop DEF ProcessNext

\* The inductive invariant: the process's own, and the loop's.
THEOREM ProcessInvariant == ProcessSpec => [](ProcessInv /\ LoopInv)
<1>1. ProcessInit => ProcessInv /\ LoopInv
  BY ProcessStarts, LoopInvStarts DEF ProcessInit
<1>2. ProcessInv /\ LoopInv /\ [ProcessNext]_processVars => ProcessInv'
  BY ProcessStep DEF LoopInv
<1>3. ProcessInv /\ [ProcessNext]_processVars => [Next \/ (phase = "select" /\ Init')]_vars
  BY LoopMoves DEF ProcessInv
<1>4. [Next \/ (phase = "select" /\ Init')]_vars => [Next]_vars \/ Init'
  OBVIOUS
<1> QED BY <1>1, <1>2, <1>3, <1>4, LoopInvStarts, LoopInvSteps, PTL DEF ProcessSpec

\* The process runs the loop: its steps are the loop's, or leave it alone, or
\* set it up anew when main selects the principal.
THEOREM ProcessRunsLoop ==
    ProcessSpec => Init /\ [][Next \/ (phase = "select" /\ Init')]_vars
<1>1. ProcessInit => Init
  BY DEF ProcessInit
<1>2. ProcessInv /\ [ProcessNext]_processVars => [Next \/ (phase = "select" /\ Init')]_vars
  BY LoopMoves DEF ProcessInv
<1> QED BY <1>1, <1>2, ProcessInvariant, PTL DEF ProcessSpec

\* So what is proved of the loop holds of it in the process.
THEOREM LoopHoldsInProcess ==
    ProcessSpec => [](/\ PostsBounded /\ ScriptReplayedInFull
                      /\ FeedbackIsOutcomes /\ EveryCallAnswered)
<1>1. LoopInv => /\ PostsBounded /\ ScriptReplayedInFull
                 /\ FeedbackIsOutcomes /\ EveryCallAnswered
  BY BudgetsHold, ScriptDone, BalancedIsAnswered DEF LoopInv
<1> QED BY <1>1, ProcessInvariant, PTL

\* However the loop ends, a process that served a call prints every outcome
\* before it exits, and a log that accounts for each.
THEOREM EverythingReported == ProcessSpec => []NothingServedUnreported
<1>1. ProcessInv => NothingServedUnreported
  <2> SUFFICES ASSUME PhaseInv, LogInv PROVE NothingServedUnreported
    BY DEF ProcessInv
  <2>1. exit # Running /\ outcomes # <<>> =>
          report.outcomes = outcomes /\ report.audit_log = audit_log
    BY DEF PhaseInv, BeforeLoop
  <2>2. ASSUME report.printed
        PROVE  LET told == Logged(report.audit_log) IN
               /\ Len(told) = Len(report.outcomes)
               /\ \A i \in DOMAIN told : told[i] = "ALLOWED" <=> report.outcomes[i] = "Allowed"
    <3>1. report.outcomes = outcomes /\ report.audit_log = audit_log
      BY <2>2 DEF PhaseInv
    <3>2. TellsOf(audit_log, outcomes) /\ audit_log \in Seq(Kinds)
      BY DEF LogInv
    <3>3. "DENIED" \in Kinds
      BY DEF Kinds
    <3>4. Logged(audit_log) \in Seq(Kinds)
      BY <3>2, <3>3, LoggedAppend
    <3>5. DOMAIN Logged(audit_log) = 1 .. Len(Logged(audit_log))
      BY <3>4
    <3> QED BY <3>1, <3>2, <3>5 DEF TellsOf
  <2> QED BY <2>1, <2>2 DEF NothingServedUnreported
<1> QED BY <1>1, ProcessInvariant, PTL

\* What the loop's invariant says of a loop that has ended.
LEMMA EndedLoop ==
    ASSUME Inv, pc = "ended"
    PROVE  /\ result \in {"Ok", "Err"}
           /\ principal = "scripted" => Len(outcomes) = scripted /\ result = "Ok"
<1>1. result \in {"Ok", "Err"} /\ batch = <<>> /\ Len(batch) = 0
  BY DEF Inv, ControlInv, TypeOK
<1>2. outcomes \in Seq(Decisions)
  BY DEF Inv, ControlInv
<1>3. Len(outcomes) \in Nat
  BY <1>2
<1>4. ASSUME principal = "scripted" PROVE Len(outcomes) = scripted /\ result = "Ok"
  <2>1. Len(outcomes) + Len(batch) + pending = scripted /\ pending = 0 /\ result = "Ok"
    BY <1>4 DEF Inv, ScriptInv
  <2> QED BY <1>1, <1>3, <2>1
<1> QED BY <1>1, <1>4

\* The exit status tells how main ended; status 0 does not tell whether the
\* principal had finished.
THEOREM StatusTruthful == ProcessSpec => []ExitStatusTells
<1>1. ProcessInv /\ LoopInv => ExitStatusTells
  <2> SUFFICES ASSUME PhaseInv, Inv PROVE ExitStatusTells
    BY DEF ProcessInv, LoopInv
  <2>1. report.printed => /\ result \in {"Ok", "Err"} /\ exit = IF result = "Err" THEN 1 ELSE 0
                          /\ principal = "scripted" => result = "Ok"
    BY EndedLoop DEF PhaseInv
  <2>2. principal \in {"scripted", "live"} /\ (exit # 0 \/ report.printed)
    BY DEF PhaseInv, Inv, ControlInv, TypeOK
  <2>3. exit \in {2, 101} => posts = 0 /\ outcomes = <<>> /\ ~report.printed
    BY <2>1 DEF PhaseInv, BeforeLoop, Running
  <2> QED BY <2>1, <2>2, <2>3 DEF ExitStatusTells
<1> QED BY <1>1, ProcessInvariant, PTL

\* A calls file that is named is replayed in full and no model is asked,
\* whatever BASE_URL holds.
THEOREM CallsFileDecides == ProcessSpec => []CallsFileWins
<1>1. ProcessInv /\ LoopInv => CallsFileWins
  <2> SUFFICES ASSUME PhaseInv, Inv, args = 3
               PROVE  posts = 0 /\ (exit = 0 => Len(report.outcomes) = calls_file)
    BY DEF ProcessInv, LoopInv, CallsFileWins
  <2>1. CASE BeforeLoop
    <3>1. ~report.printed
      BY <2>1 DEF PhaseInv, BeforeLoop
    <3> QED BY <2>1, <3>1 DEF PhaseInv
  <2>2. CASE ~BeforeLoop
    <3>1. principal = "scripted" /\ scripted = calls_file
      BY <2>2 DEF PhaseInv, Selected
    <3>2. posts = 0
      BY <3>1 DEF Inv, ScriptInv
    <3>3. exit = 0 => Len(report.outcomes) = calls_file
      BY <3>1, EndedLoop DEF PhaseInv
    <3> QED BY <3>2, <3>3
  <2> QED BY <2>1, <2>2
<1> QED BY <1>1, ProcessInvariant, PTL

\* Anything but an off switch enforces, for every value AUTHZ may have.
THEOREM EnforcedByDefault == ProcessSpec => []FailsClosed
<1>1. ProcessInv => FailsClosed
  <2> SUFFICES ASSUME ModeInv, LogInv, authz = Unset \/ Lowercase[authz] \notin OffSwitches
               PROVE  Closed(audit_log)
    BY DEF ProcessInv, FailsClosed, Closed
  <2>1. CASE phase = "start"
    <3>1. audit_log = <<>>
      BY <2>1 DEF LogInv
    <3> QED BY <3>1 DEF Closed
  <2>2. CASE phase # "start"
    BY <2>2 DEF ModeInv, LogInv
  <2> QED BY <2>1, <2>2
<1> QED BY <1>1, ProcessInvariant, PTL

-----------------------------------------------------------------------------
(* Why the process ends.                                                   *)

PhasesLeft ==
    CASE phase = "start"    -> 6
      [] phase = "manifest" -> 5
      [] phase = "new"      -> 4
      [] phase = "select"   -> 3
      [] phase = "run"      -> 2
      [] phase = "report"   -> 1
      [] phase = "exited"   -> 0

\* What the loop has left, or will have when it is set up.
SelectedTurns == IF args = 3 THEN TurnBudget(calls_file) ELSE DEFAULT_MAX_TURNS

LoopStepsLeft ==
    IF phase \in {"start", "manifest", "new", "select"} THEN SelectedTurns * StepsOfTurn + 1
    ELSE IF phase = "exited" THEN 0
    ELSE StepsLeft

ProcessStepsLeft == LoopStepsLeft + PhasesLeft

LEMMA LeftNat ==
    LoopInv /\ ProcessInv =>
        /\ LoopStepsLeft \in Nat /\ PhasesLeft \in Nat
        /\ StepsLeft \in Nat /\ SelectedTurns * StepsOfTurn + 1 \in Nat
<1> SUFFICES ASSUME LoopInv, ProcessInv
             PROVE  /\ LoopStepsLeft \in Nat /\ PhasesLeft \in Nat
                    /\ StepsLeft \in Nat /\ SelectedTurns * StepsOfTurn + 1 \in Nat
  OBVIOUS
<1>1. phase \in {"start", "manifest", "new", "select", "run", "report", "exited"}
  BY DEF ProcessInv, PhaseInv
<1>2. PhasesLeft \in Nat
  BY <1>1 DEF PhasesLeft
<1>3. StepsLeft \in Nat /\ StepsOfTurn \in Nat
  BY StepsNat DEF LoopInv
<1>4. calls_file \in Nat
  <2>1. calls_file \in ScriptLengths
    BY DEF ProcessInv, PhaseInv
  <2> QED BY <2>1, LoopAssumption, Zenon
<1>5. SelectedTurns \in Nat
  BY <1>4, LoopAssumption DEF SelectedTurns, TurnBudget
<1>6. \A a, b \in Nat : a * b + 1 \in Nat
  OBVIOUS
<1>7. SelectedTurns * StepsOfTurn + 1 \in Nat
  BY <1>3, <1>5, <1>6, Zenon
<1> QED BY <1>2, <1>3, <1>7, Zenon DEF LoopStepsLeft

\* A loop that is set up has what main reckoned with.
LEMMA SetUpLeft ==
    ASSUME PhaseInv, Select, phase' = "run"
    PROVE  StepsLeft' = SelectedTurns * StepsOfTurn + 1
<1>1. Init /\ args \in 1 .. 3
  BY DEF Select, PhaseInv
<1>2. /\ max_turns' = SelectedTurns /\ turn' = 0 /\ pc' = "turn"
  BY <1>1 DEF Select, Exit, Go, ScriptedRun, LiveRun, MakePrincipal, SelectedTurns, Init
<1>3. StepsOfThisTurn' = 1
  BY <1>2 DEF StepsOfThisTurn
<1>4. StepsOfTurn' = StepsOfTurn
  BY DEF StepsOfTurn
<1>5. SelectedTurns \in Nat
  <2>1. calls_file \in ScriptLengths
    BY DEF PhaseInv
  <2>2. calls_file \in Nat
    BY <2>1, LoopAssumption, Zenon
  <2> QED BY <2>2, LoopAssumption DEF SelectedTurns, TurnBudget
<1>6. max_turns' - turn' = SelectedTurns
  BY <1>2, <1>5
<1> QED BY <1>3, <1>4, <1>6 DEF StepsLeft

\* Where the loop does not move, main goes on to a later phase.
LEMMA PhaseMoves ==
    ASSUME Start \/ LoadManifest \/ NewOrchestrator \/ Select \/ LoopReturns \/ PrintReport
    PROVE  /\ PhasesLeft' < PhasesLeft
           /\ \/ phase = "start" /\ phase' \in {"exited", "manifest"}
              \/ phase = "manifest" /\ phase' \in {"exited", "new"}
              \/ phase = "new" /\ phase' \in {"exited", "select"}
              \/ phase = "select" /\ phase' \in {"exited", "run"}
              \/ phase = "run" /\ phase' = "report"
              \/ phase = "report" /\ phase' = "exited"
<1>1. \/ phase = "start" /\ phase' \in {"exited", "manifest"}
      \/ phase = "manifest" /\ phase' \in {"exited", "new"}
      \/ phase = "new" /\ phase' \in {"exited", "select"}
      \/ phase = "select" /\ phase' \in {"exited", "run"}
      \/ phase = "run" /\ phase' = "report"
      \/ phase = "report" /\ phase' = "exited"
  BY Zenon DEF Start, LoadManifest, NewOrchestrator, Select, LoopReturns, PrintReport, Exit, Go
<1>2. PhasesLeft' < PhasesLeft
  BY <1>1 DEF PhasesLeft
<1> QED BY <1>1, <1>2

\* Meanwhile the loop has no more left than before.
LEMMA LoopKeepsLeft ==
    ASSUME LoopInv, ProcessInv,
           Start \/ LoadManifest \/ NewOrchestrator \/ Select \/ LoopReturns \/ PrintReport
    PROVE  LoopStepsLeft' <= LoopStepsLeft
<1> DEFINE reckoned == SelectedTurns * StepsOfTurn + 1
           early == {"start", "manifest", "new", "select"}
<1>1. LoopStepsLeft \in Nat /\ StepsLeft \in Nat /\ reckoned \in Nat
  BY LeftNat
<1>2. /\ \/ phase \in early /\ phase' \in early
         \/ phase \in early /\ phase' = "exited"
         \/ phase = "select" /\ phase' = "run"
         \/ phase = "run" /\ phase' = "report"
         \/ phase = "report" /\ phase' = "exited"
  BY PhaseMoves
<1>3. reckoned' = reckoned
  <2>1. UNCHANGED <<args, calls_file>>
    BY DEF Start, LoadManifest, NewOrchestrator, Select, LoopReturns, PrintReport, environment
  <2> QED BY <2>1 DEF SelectedTurns, TurnBudget, StepsOfTurn
<1>4. CASE phase' = "exited"
  <2>1. LoopStepsLeft' = 0
    BY <1>4 DEF LoopStepsLeft
  <2> QED BY <1>1, <2>1
<1>5. CASE phase \in early /\ phase' \in early
  <2>1. LoopStepsLeft = reckoned /\ LoopStepsLeft' = reckoned'
    BY <1>5 DEF LoopStepsLeft
  <2> QED BY <1>1, <1>3, <2>1
<1>6. CASE phase = "select" /\ phase' = "run"
  <2>1. Select
    BY <1>6 DEF Start, LoadManifest, NewOrchestrator, LoopReturns, PrintReport
  <2>2. StepsLeft' = reckoned
    BY <1>6, <2>1, SetUpLeft DEF ProcessInv
  <2>3. LoopStepsLeft = reckoned /\ LoopStepsLeft' = StepsLeft'
    BY <1>6 DEF LoopStepsLeft
  <2> QED BY <1>1, <2>2, <2>3
<1>7. CASE phase = "run" /\ phase' = "report"
  <2>1. UNCHANGED vars
    BY <1>7 DEF Start, LoadManifest, NewOrchestrator, Select, LoopReturns, PrintReport
  <2>2. StepsLeft' = StepsLeft
    BY <2>1 DEF vars, StepsLeft, StepsOfTurn, StepsOfThisTurn
  <2>3. LoopStepsLeft = StepsLeft /\ LoopStepsLeft' = StepsLeft'
    BY <1>7 DEF LoopStepsLeft
  <2> QED BY <1>1, <2>2, <2>3
<1> QED BY <1>2, <1>4, <1>5, <1>6, <1>7

\* Whatever the arguments, the files and the model, every step of the process
\* uses up some of a number fixed when it starts, so it cannot run for ever.
THEOREM ProcessUsesBudget ==
    ProcessSpec => /\ [](ProcessStepsLeft \in Nat)
                   /\ [][ProcessStepsLeft' < ProcessStepsLeft]_processVars
<1>1. LoopInv /\ ProcessInv => ProcessStepsLeft \in Nat
  BY LeftNat DEF ProcessStepsLeft
<1>2. (LoopInv /\ ProcessInv)' => (LoopStepsLeft \in Nat /\ PhasesLeft \in Nat)'
  BY LeftNat, PTL
<1>3. \A a, b, c, d \in Nat : a <= b /\ c < d => a + c < b + d
  OBVIOUS
<1>4. \A a, b, c \in Nat : a < b => a + c < b + c
  OBVIOUS
<1>5. ASSUME LoopInv, ProcessInv, LoopInv', ProcessInv', ProcessNext
      PROVE  ProcessStepsLeft' < ProcessStepsLeft
  <2>1. LoopStepsLeft \in Nat /\ PhasesLeft \in Nat
    BY <1>5, LeftNat
  <2>2. LoopStepsLeft' \in Nat /\ PhasesLeft' \in Nat
    BY <1>2, <1>5
  <2>3. CASE RunLoop
    <3>1. StepsLeft' < StepsLeft
      BY <1>5, <2>3, StepsDecrease DEF RunLoop, LoopInv
    <3>2. PhasesLeft' = PhasesLeft /\ LoopStepsLeft = StepsLeft /\ LoopStepsLeft' = StepsLeft'
      BY <2>3 DEF RunLoop, PhasesLeft, LoopStepsLeft
    <3>3. LoopStepsLeft' + PhasesLeft < LoopStepsLeft + PhasesLeft
      BY <1>4, <2>1, <2>2, <3>1, <3>2, Zenon
    <3> QED BY <3>2, <3>3, Zenon DEF ProcessStepsLeft
  <2>4. CASE ~RunLoop
    <3>1. LoopStepsLeft' <= LoopStepsLeft /\ PhasesLeft' < PhasesLeft
      BY <1>5, <2>4, PhaseMoves, LoopKeepsLeft DEF ProcessNext
    <3> QED BY <1>3, <2>1, <2>2, <3>1, Zenon DEF ProcessStepsLeft
  <2> QED BY <2>3, <2>4
<1>6. /\ LoopInv /\ ProcessInv /\ LoopInv' /\ ProcessInv'
      /\ [ProcessNext]_processVars
      => [ProcessStepsLeft' < ProcessStepsLeft]_processVars
  BY <1>5
<1> QED BY <1>1, <1>6, ProcessInvariant, PTL DEF ProcessSpec

=============================================================================
