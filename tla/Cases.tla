------------------------------- MODULE Cases -------------------------------
(* The frame for the pure decision procedures of the code: a question is   *)
(* put once (part says to which procedure) and answered once.  The modules *)
(* that extend this one hold the procedures, the questions worth asking    *)
(* and what every answer must satisfy.                                     *)

VARIABLES
    part,       \* the procedure asked
    given,      \* its arguments
    answers     \* what it returned: no value yet, or one

caseVars == <<part, given, answers>>

Ask(p, questions) == part = p /\ given \in questions /\ answers = <<>>

Answer(p, value) == /\ part = p /\ answers = <<>>
                    /\ answers' = <<value>>
                    /\ UNCHANGED <<part, given>>

Answered(p) == part = p /\ answers # <<>>

answer == answers[1]
=============================================================================
