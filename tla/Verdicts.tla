------------------------------ MODULE Verdicts ------------------------------
(***************************************************************************)
(* Judgement with the algorithms it rests on: the interpreter of functions *)
(* (BoundedCode), which it takes as a parameter, and the count of origins  *)
(* (OriginCount), of which it takes the result.                            *)
(***************************************************************************)
EXTENDS Judgement, BoundedCode, OriginCount

\* Fuel is enough for any program the interpreter finishes.
PythonValue(body, arguments) == Run(<<Block(body)>>, arguments, 4 * MaxSteps)

\* The bounded interpreter agrees with Python on every function a model answered
\* with, in what it returns and in what it refuses, up to its own limits
\* (code_validator.py run_case).
CodeAgrees ==
    request.kind = "python_function" /\ answered > 0 => \A c \in DOMAIN Cases :
        AgreesWithPython(Programs[judged.answer.program], Cases[c].arguments, 4 * MaxSteps)

\* evaluate waits for nothing while it counts, so a count and a solve never overlap:
\* what runs is a count of some reviews or, with none to count, a solve.
VerdictInit == Init /\ CountInit
VerdictNext ==
    \/ CountNext /\ UNCHANGED vars
    \/ reviews = {} /\ Next /\ UNCHANGED cvars

\* None of a count's steps waits.
VerdictSpec == VerdictInit /\ [][VerdictNext]_<<vars, cvars>> /\ WF_cvars(CountNext)
=============================================================================
