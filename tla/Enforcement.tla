---------------------------- MODULE Enforcement -----------------------------
(***************************************************************************)
(* What a run of tool calls promises its user, without capabilities,       *)
(* tokens, clocks or disks: what the manifest grants is fixed before the   *)
(* first call; the calls are answered in order, each once; an answer, its  *)
(* entry in the journal and its effect on the world are one step; a        *)
(* refusal touches nothing; what a tool is let loose on is in the grant,   *)
(* and what it touches is that, unless it is a file tool that strayed.     *)
(* Module Orchestrator implements this.                                    *)
(***************************************************************************)
EXTENDS Integers, Sequences

CONSTANTS
    Call,    \* the calls that may be asked for, records with a field tool
    Object   \* what tools act on, records with a field tool

VARIABLES
    status,   \* "starting", "running", "refused" or "ended"
    script,   \* the calls of the run
    grant,    \* the objects tools may touch
    answers,  \* the answers given so far
    journal,  \* what an auditor reads: the tool and whether it was allowed
    touched   \* the objects meant and touched, with the number of the call

vars == <<status, script, grant, answers, journal, touched>>

Init ==
    /\ status = "starting"
    /\ script \in Seq(Call)
    /\ grant = {}
    /\ answers = <<>> /\ journal = <<>>
    /\ touched = {}

\* The manifest is accepted, and what it grants is settled; or it is refused.
Start ==
    /\ status = "starting"
    /\ status' = "running"
    /\ grant' \subseteq Object
    /\ UNCHANGED <<script, answers, journal, touched>>

Refuse ==
    /\ status = "starting"
    /\ status' = "refused"
    /\ UNCHANGED <<script, grant, answers, journal, touched>>

Turn == Len(answers) + 1

Answer(answer) ==
    /\ status = "running"
    /\ Turn <= Len(script)
    /\ answers' = Append(answers, answer)
    /\ journal' = Append(journal, [tool |-> script[Turn].tool, allowed |-> answer = "Allowed"])
    /\ UNCHANGED <<status, script, grant>>

\* A name may lead a file tool to another object than the one it was let
\* through for, when somebody else moved it or it leads to nothing.
Touch(meant, object, strayed) ==
    /\ meant.tool = script[Turn].tool /\ object.tool = script[Turn].tool
    /\ object = meant \/ strayed
    /\ strayed => object.tool \in {"fs_read", "fs_write"}
    /\ touched' = touched \cup
           {[step |-> Turn, meant |-> meant, object |-> object, strayed |-> strayed]}

Act == \E meant \in grant, object \in Object, strayed \in BOOLEAN : Touch(meant, object, strayed)

Deny ==
    /\ Answer("Denied")
    /\ UNCHANGED touched

Perform ==
    /\ Answer("Allowed")
    /\ Act

\* A tool that fails may have acted.
Fail ==
    /\ Answer("Errored")
    /\ UNCHANGED touched \/ Act

End ==
    /\ status = "running"
    /\ Turn > Len(script)
    /\ status' = "ended"
    /\ UNCHANGED <<script, grant, answers, journal, touched>>

Next == Start \/ Refuse \/ Deny \/ Perform \/ Fail \/ End

Spec == Init /\ [][Next]_vars

=============================================================================
