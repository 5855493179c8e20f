----------------------------- MODULE AgentLoop ------------------------------
(***************************************************************************)
(* The agentic loop of agent/src/lib.rs: run_principal drives a principal, *)
(* which is a ScriptedPrincipal or an OpenAiPrincipalClient that keeps a   *)
(* conversation with a model behind HTTP.                                  *)
(*                                                                         *)
(* A tool call here is its id and whether parse_raw_tool_call makes a      *)
(* ToolCall of it.  What Orchestrator::step decides about a call is free   *)
(* (module Orchestrator says what it is).  The model may answer anything,  *)
(* repeat an id, or not answer: post_chat then fails, by its 30 s timeout  *)
(* if nothing else.                                                        *)
(***************************************************************************)
EXTENDS Integers, Sequences, FiniteSets, Subsequence

CONSTANTS
    Id,                       \* tool call ids a model may use
    MaxCallsPerTurn,          \* bound on the calls of one model turn
    ScriptLengths,            \* lengths of the scripts replayed
    DEFAULT_MAX_TURNS,
    MAX_UNPARSEABLE_RETRIES

ASSUME LoopAssumption ==
    /\ MaxCallsPerTurn \in Nat
    /\ ScriptLengths \subseteq Nat
    /\ DEFAULT_MAX_TURNS \in Nat \ {0}
    /\ MAX_UNPARSEABLE_RETRIES \in Nat \ {0}

VARIABLES
    principal,  \* "scripted" or "live"
    pending,    \* ScriptedPrincipal.pending: how many calls are left
    scripted,   \* how many there were
    max_turns,  \* the turn budget of this run
    turn,       \* turns begun so far
    tries,      \* requests posted by the current next_tool_calls
    posts,      \* ghost: requests posted by the run
    batch,      \* the calls of this turn still to be served
    messages,   \* the conversation after the initial messages
    outcomes,   \* decisions returned by step
    pc,         \* "turn", "ask", "serve" or "ended"
    result,     \* what run_principal returned
    finished    \* ghost: the principal's last turn asked for no tool

vars == <<principal, pending, scripted, max_turns, turn, tries, posts, batch,
          messages, outcomes, pc, result, finished>>

fixed == <<principal, scripted, max_turns>>

Decisions == {"Allowed", "Denied", "Errored"}

\* What decision_feedback says of a decision: the (possibly shortened) output of
\* the tool, that it was denied, or that it failed.
DecisionFeedback(decision) ==
    CASE decision = "Allowed" -> "output"
      [] decision = "Denied"  -> "DENIED by authorization policy"
      [] decision = "Errored" -> "ERROR executing tool"

Feedback == {DecisionFeedback(d) : d \in Decisions}

RawCall == [id : Id, parses : BOOLEAN]

\* What the model may say in one turn; without calls it may also say nothing.
RawCalls == UNION {[1 .. n -> RawCall] : n \in 0 .. MaxCallsPerTurn}

Message ==
    [role : {"assistant"}, calls : RawCalls]
        \cup [role : {"tool"}, id : Id, content : Feedback \cup {"unparseable"}]

\* Types: turns and tries stay within their budgets, and the conversation
\* holds nothing but assistant turns and tool results.
TypeOK ==
    /\ principal \in {"scripted", "live"}
    /\ pending \in Nat /\ scripted \in Nat /\ pending <= scripted
    /\ turn \in 0 .. max_turns
    /\ tries \in 0 .. MAX_UNPARSEABLE_RETRIES
    /\ \A i \in DOMAIN batch : batch[i] \in RawCall
    /\ \A i \in DOMAIN messages : messages[i] \in Message
    /\ \A i \in DOMAIN outcomes : outcomes[i] \in Decisions
    /\ pc \in {"turn", "ask", "serve", "ended"}
    /\ result \in {"running", "Ok", "Err"}

\* Mutant: no turn is kept for the empty answer that ends the loop.
TurnBudgetTight(calls) == calls

\* ScriptedPrincipal::turn_budget.
TurnBudget(calls) == calls + 1

Init ==
    /\ \/ /\ principal = "scripted"
          /\ scripted \in ScriptLengths
          /\ max_turns = TurnBudget(scripted)
       \/ /\ principal = "live"
          /\ scripted = 0
          /\ max_turns = DEFAULT_MAX_TURNS
    /\ pending = scripted
    /\ turn = 0 /\ tries = 0 /\ posts = 0
    /\ batch = <<>> /\ messages = <<>> /\ outcomes = <<>>
    /\ pc = "turn"
    /\ result = "running"
    /\ finished = FALSE

-----------------------------------------------------------------------------

End(verdict) ==
    /\ pc' = "ended"
    /\ result' = verdict

\* Mutant: off by one, a turn too many.
BeginTurnInclusive ==
    /\ pc = "turn"
    /\ \/ /\ turn <= max_turns
          /\ turn' = turn + 1
          /\ tries' = 0
          /\ pc' = "ask"
          /\ UNCHANGED result
       \/ /\ turn > max_turns
          /\ End("Ok")
          /\ UNCHANGED <<turn, tries>>
    /\ UNCHANGED <<fixed, pending, posts, batch, messages, outcomes, finished>>

\* The head of run_principal's loop.
BeginTurn ==
    /\ pc = "turn"
    /\ \/ /\ turn < max_turns
          /\ turn' = turn + 1
          /\ tries' = 0
          /\ pc' = "ask"
          /\ UNCHANGED result
       \/ /\ turn = max_turns
          /\ End("Ok")
          /\ UNCHANGED <<turn, tries>>
    /\ UNCHANGED <<fixed, pending, posts, batch, messages, outcomes, finished>>

\* ScriptedPrincipal::next_tool_calls: one call, or none and the loop breaks.
AskScripted ==
    /\ pc = "ask" /\ principal = "scripted"
    /\ \/ /\ pending > 0
          /\ pending' = pending - 1
          /\ \E id \in Id : batch' = <<[id |-> id, parses |-> TRUE]>>
          /\ pc' = "serve"
          /\ UNCHANGED <<result, finished>>
       \/ /\ pending = 0
          /\ End("Ok")
          /\ finished' = TRUE
          /\ UNCHANGED <<pending, batch>>
    /\ UNCHANGED <<fixed, turn, tries, posts, messages, outcomes>>

\* The calls of a turn that parse, and those that do not.
Runnable(calls) == Picked(calls, {i \in DOMAIN calls : calls[i].parses})

Garbage(calls) == Picked(calls, {i \in DOMAIN calls : ~calls[i].parses})

ToolResult(id, content) == [role |-> "tool", id |-> id, content |-> content]

\* Mutant: calls that do not parse are left unanswered.
IngestSilently(calls, content) ==
    messages \o IF calls # <<>> \/ content
                THEN <<[role |-> "assistant", calls |-> calls]>> ELSE <<>>

\* ingest_assistant: the turn verbatim, then an error for each call that does
\* not parse.  A turn with neither calls nor content leaves no message.
Ingest(calls, content) ==
    LET said == IF calls # <<>> \/ content
                THEN <<[role |-> "assistant", calls |-> calls]>> ELSE <<>>
    IN messages \o said
           \o [i \in DOMAIN Garbage(calls) |-> ToolResult(Garbage(calls)[i].id, "unparseable")]

\* Mutant: a turn of garbage does not count against the retry budget.
AskLiveUncounted(calls, content) ==
    /\ pc = "ask" /\ principal = "live"
    /\ posts' = posts + 1
    /\ messages' = Ingest(calls, content)
    /\ calls # <<>> /\ Runnable(calls) = <<>>
    /\ UNCHANGED <<fixed, pending, turn, tries, outcomes, batch, pc, result, finished>>

\* OpenAiPrincipalClient::next_tool_calls, one request of its retry loop:
\* post_chat, ingest_assistant, classify_assistant.
AskLive(calls, content) ==
    /\ pc = "ask" /\ principal = "live"
    /\ tries < MAX_UNPARSEABLE_RETRIES
    /\ posts' = posts + 1
    /\ tries' = tries + 1
    /\ messages' = Ingest(calls, content)
    /\ \/ /\ Runnable(calls) # <<>>
          /\ batch' = Runnable(calls)
          /\ pc' = "serve"
          /\ UNCHANGED <<result, finished>>
       \/ /\ Runnable(calls) = <<>> /\ calls # <<>>
          /\ UNCHANGED <<batch, pc, result, finished>>
       \/ /\ calls = <<>>
          /\ End("Ok")
          /\ finished' = TRUE
          /\ UNCHANGED batch
    /\ UNCHANGED <<fixed, pending, turn, outcomes>>

\* The retry budget is spent: no calls are returned, and the loop breaks.
GiveUp ==
    /\ pc = "ask" /\ principal = "live"
    /\ tries = MAX_UNPARSEABLE_RETRIES
    /\ End("Ok")
    /\ UNCHANGED <<fixed, pending, turn, tries, posts, batch, messages, outcomes, finished>>

\* post_chat fails: no connection, an error status, a timeout, no JSON.
PostFails ==
    /\ pc = "ask" /\ principal = "live"
    /\ tries < MAX_UNPARSEABLE_RETRIES
    /\ posts' = posts + 1
    /\ End("Err")
    /\ UNCHANGED <<fixed, pending, turn, tries, batch, messages, outcomes, finished>>

\* Mutant: the model is told that every call was allowed.
ServeTellsAllowed(decision) ==
    /\ pc = "serve"
    /\ batch # <<>>
    /\ batch' = Tail(batch)
    /\ messages' = IF principal = "live"
                   THEN Append(messages, ToolResult(Head(batch).id, "output"))
                   ELSE messages
    /\ outcomes' = Append(outcomes, decision)
    /\ pc' = IF batch' = <<>> THEN "turn" ELSE "serve"
    /\ UNCHANGED <<fixed, pending, turn, tries, posts, result, finished>>

\* Mutant: the loop does not notice that the batch is empty.
ServeForever(decision) ==
    /\ pc = "serve"
    /\ batch # <<>>
    /\ batch' = Tail(batch)
    /\ messages' = IF principal = "live"
                   THEN Append(messages, ToolResult(Head(batch).id, DecisionFeedback(decision)))
                   ELSE messages
    /\ outcomes' = Append(outcomes, decision)
    /\ UNCHANGED <<pc, fixed, pending, turn, tries, posts, result, finished>>

\* One iteration of the inner loop: step, add_tool_result, push the outcome.
\* A ScriptedPrincipal ignores the result.
Serve(decision) ==
    /\ pc = "serve"
    /\ batch # <<>>
    /\ batch' = Tail(batch)
    /\ messages' = IF principal = "live"
                   THEN Append(messages, ToolResult(Head(batch).id, DecisionFeedback(decision)))
                   ELSE messages
    /\ outcomes' = Append(outcomes, decision)
    /\ pc' = IF batch' = <<>> THEN "turn" ELSE "serve"
    /\ UNCHANGED <<fixed, pending, turn, tries, posts, result, finished>>

Next ==
    \/ BeginTurn
    \/ AskScripted
    \/ \E calls \in RawCalls, content \in BOOLEAN : AskLive(calls, content)
    \/ GiveUp
    \/ PostFails
    \/ \E decision \in Decisions : Serve(decision)

\* One thread; post_chat returns within its timeout and step is taken to
\* return, so the loop is never stuck.
Spec == Init /\ [][Next]_vars /\ WF_vars(Next)

-----------------------------------------------------------------------------
(* Properties.                                                             *)

IsTurn(i) == messages[i].role = "assistant"

\* The messages that answer turn i: the tool results up to the next turn.
Answers(i) ==
    {j \in DOMAIN messages :
        j > i /\ ~IsTurn(j) /\ ~\E k \in DOMAIN messages : i < k /\ k < j /\ IsTurn(k)}

\* "so no `tool_call` id is left orphaned - the next request would otherwise be
\* an invalid conversation" (agent/src/lib.rs:686): whenever a request is about
\* to be posted, every call of every earlier turn has exactly one answer, given
\* before the next turn, and there are no other answers, even when a model
\* repeats an id or mixes calls that parse with calls that do not.
EveryCallAnswered ==
    pc = "ask" =>
        /\ \A i \in DOMAIN messages : IsTurn(i) =>
              \A id \in Id :
                  Cardinality({j \in Answers(i) : messages[j].id = id}) =
                      Cardinality({k \in DOMAIN messages[i].calls : messages[i].calls[k].id = id})
        /\ messages # <<>> => IsTurn(1)

\* The results of calls that were decided about.
Told ==
    Picked(messages, {i \in DOMAIN messages :
                         messages[i].role = "tool" /\ messages[i].content # "unparseable"})

\* The model is told of each call what was decided about it, in order: the
\* feedback in the conversation is the outcomes the caller holds, also when
\* the run ends in an error ("the caller still holds the executed prefix",
\* agent/src/lib.rs:229).
FeedbackIsOutcomes ==
    principal = "live" =>
        /\ Len(Told) = Len(outcomes)
        /\ \A i \in DOMAIN Told : Told[i].content = DecisionFeedback(outcomes[i])

\* A model that never stops, or never makes sense, costs at most the retry
\* budget in each turn and the turn budget in all: the requests posted are
\* bounded by the turns begun, and those by the runaway guard.
PostsBounded ==
    /\ posts <= turn * MAX_UNPARSEABLE_RETRIES
    /\ turn <= max_turns

\* run(): the turn budget suffices to replay the whole script, one outcome per
\* call, and its `expect' never fires (agent/src/lib.rs:213-219).
ScriptReplayedInFull ==
    (principal = "scripted" /\ pc = "ended") =>
        Len(outcomes) = scripted /\ result = "Ok" /\ finished

\* The loop ends, whatever the model answers.
LoopEnds == <>(pc = "ended")

\* "a live run can distinguish failure from clean termination"
\* (agent/src/lib.rs:231): Ok means the principal was done.
OkMeansFinished == result = "Ok" => finished

=============================================================================
