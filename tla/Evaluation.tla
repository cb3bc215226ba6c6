----------------------------- MODULE Evaluation ------------------------------
(***************************************************************************)
(* Programs that C++ has a script engine run (ScriptEngine::eval and       *)
(* loadFile of each backend), and a name that both set. Programs call C++  *)
(* functions, which have others run. One engine, one thread.               *)
(***************************************************************************)
EXTENDS Backend

LOCAL INSTANCE SequencesExt

CONSTANTS
  Troubles,   \* which of the cases below the code does not handle are taken
  EvalDepth   \* bound: programs that run inside each other

(* lines     eval of several lines, or of an assignment, fails (Python)    *)
(* syntax    an expression raises a SyntaxError while it runs (Python)     *)
(* shadowing C++ and scripts both assign to the name (Python)              *)
ASSUME EvaluationAssumption ==
  /\ Troubles \subseteq {"lines", "syntax", "shadowing"}
  /\ EvalDepth \in Nat

VARIABLES
  evals,     \* the calls of eval and loadFile, innermost last
  answer,    \* of the last one that has ended
  indicator, \* Python's error indicator
  named      \* what the name is, among the scripts' own and among the built-in names

evalVars == <<backend, evals, answer, indicator, named>>

-----------------------------------------------------------------------------
(* A program: how it looks to PyEngine::eval (an expression or a statement *)
(* of one line; with " = " in it; of several lines), what it gives, how it *)
(* ends, and whether it assigns to the name or declares it. (What QuickJs  *)
(* loads is a module, whose declarations are its own.)                     *)

Null     == "null"
Script   == "script"    \* values of scripts,
Cpp      == "cpp"       \* and of C++
Given(v) == [kind |-> "value", of |-> v]
Error(e) == [kind |-> "exception", of |-> e]
NoError  == "none"
Unanswered == Given(Null)

Program(form, gives, ends, assigns) ==
  [form |-> form, gives |-> gives, ends |-> ends, assigns |-> assigns]

Failures == {"Error", "SyntaxError", "malformed"}
Assigning(form) == {Program(form, << >>, e, TRUE) : e \in Failures \cup {"returns"}}
Failing(form)   == {Program(form, << >>, e, FALSE) : e \in Failures}
Giving(form, n) == {Program(form, [i \in 1..m |-> Script], "returns", FALSE) : m \in 0..n}

Programs ==
  CASE backend = "Python" ->
         Giving("expression", 1) \cup Failing("expression")
         \cup Giving("statement", 0) \cup Failing("statement")
         \cup Assigning("assignment") \cup Assigning("lines") \cup Failing("lines")
    [] backend = "Lua" -> Giving("statement", 2) \cup Failing("statement") \cup Assigning("statement")
    [] OTHER           -> Giving("statement", 1) \cup Failing("statement") \cup Assigning("statement")

(* How Python compiles it, and whether its error indicator is looked at.   *)
Unchecked(op, p) == op = "eval" /\ p.form \in {"assignment", "lines"}
PyMode(op, p) ==
  IF op = "eval" /\ p.form \in {"expression", "statement"} THEN "eval_input" ELSE "file_input"

(* Bounds: the troubles.                                                   *)
Allowed(op, p) ==
  backend = "Python" =>
    /\ Unchecked(op, p) /\ p.ends # "returns" => "lines" \in Troubles
    /\ PyMode(op, p) = "eval_input" /\ p.form = "expression" /\ p.ends = "SyntaxError"
         => "syntax" \in Troubles
    /\ p.assigns => "shadowing" \in Troubles \/ named.builtin = Null

-----------------------------------------------------------------------------
(* The engine's get and set, and what scripts find.                        *)

JsGet  == named.own
LuaGet == named.own
PyGet  == IF named.builtin # Null THEN named.builtin ELSE named.own

Get ==
  CASE backend = "Python" -> PyGet
    [] backend = "Lua"    -> LuaGet
    [] OTHER              -> JsGet

Found == IF named.own # Null THEN named.own ELSE named.builtin

(* ScriptEngine::set by the program, or by a C++ function scripts call.    *)
InCpp == IF evals = << >> THEN TRUE ELSE Last(evals).at = "runs"

SetName ==
  /\ InCpp
  /\ LET scope == IF backend = "Python" THEN "builtin" ELSE "own" IN
     /\ backend = "Python" => "shadowing" \in Troubles \/ named.own = Null
     /\ named' = [named EXCEPT ![scope] = Cpp]
  /\ UNCHANGED <<backend, evals, answer, indicator>>

-----------------------------------------------------------------------------
(* eval and loadFile, and how their program is compiled.                   *)

Call(op) ==
  /\ InCpp /\ Len(evals) < EvalDepth
  /\ \E p \in Programs :
       /\ Allowed(op, p)
       /\ evals' = Append(evals,
            [op |-> op, program |-> p, at |-> "starts", ran |-> 0, error |-> NoError,
             mode |-> IF backend = "Python" THEN PyMode(op, p) ELSE "script"])
  /\ answer' = Unanswered
  /\ UNCHANGED <<backend, indicator, named>>
Eval == Call("eval")
LoadFile == Call("loadFile")

(* loadFile of nothing, or of a file that cannot be read.                  *)
LoadNothing ==
  /\ InCpp
  /\ answer' = Error("no file")
  /\ UNCHANGED <<backend, evals, indicator, named>>

Inmost == Last(evals)
WithInmost(f) == [evals EXCEPT ![Len(evals)] = f]

Compiles(f) ==
  /\ f.program.ends # "malformed"
  /\ f.mode = "eval_input" => f.program.form = "expression"

DoesNotCompile ==
  /\ evals # << >> /\ Inmost.at = "starts" /\ ~Compiles(Inmost)
  /\ evals' = WithInmost([Inmost EXCEPT !.at = "ended", !.error = "SyntaxError"])
  /\ UNCHANGED <<backend, answer, indicator, named>>

Runs ==
  /\ evals # << >> /\ Inmost.at = "starts" /\ Compiles(Inmost)
  /\ evals' = WithInmost([Inmost EXCEPT !.at = "runs", !.ran = @ + 1])
  /\ named' = IF Inmost.program.assigns /\ ~(backend = "QuickJs" /\ Inmost.op = "loadFile")
              THEN [named EXCEPT !.own = Script] ELSE named
  /\ UNCHANGED <<backend, answer, indicator>>

Ends ==
  /\ evals # << >> /\ Inmost.at = "runs"
  /\ LET ends == Inmost.program.ends IN
     evals' = WithInmost([Inmost EXCEPT !.at = "ended",
                                        !.error = IF ends = "returns" THEN NoError ELSE ends])
  /\ UNCHANGED <<backend, answer, indicator, named>>

-----------------------------------------------------------------------------
(* What each backend makes of a program that has ended.                    *)

Single(f) == Given(IF f.program.gives = << >> THEN Null ELSE f.program.gives[1])
OrError(f, value) == IF f.error = NoError THEN value ELSE Error(f.error)

V8Answer(f)   == OrError(f, Single(f))
JscAnswer(f)  == OrError(f, Single(f))
WasmAnswer(f) == OrError(f, Single(f))
(* A file is a module, whose promise is the result.                        *)
QjsAnswer(f)  == OrError(f, IF f.op = "loadFile" THEN Given("promise") ELSE Single(f))
LuaAnswer(f)  == OrError(f, IF Len(f.program.gives) > 1 THEN Given(f.program.gives) ELSE Single(f))

(* Where the indicator is not looked at, a failed program is a null pointer.*)
PyUnchecked(f) == Unchecked(f.op, f.program)
PyFailure(f) == IF f.error # NoError THEN f.error ELSE indicator
PyAnswer(f) ==
  IF PyUnchecked(f) \/ PyFailure(f) = NoError
  THEN IF f.mode = "eval_input" THEN Single(f) ELSE Given(Null)
  ELSE Error(PyFailure(f))

(* Mutant: whatever went wrong, the program may have been no expression.   *)
PyRetriesAny(f) == backend = "Python" /\ f.mode = "eval_input" /\ PyFailure(f) # NoError
PyRetries(f) == backend = "Python" /\ f.mode = "eval_input" /\ PyFailure(f) = "SyntaxError"

Answer(f) ==
  CASE backend = "V8"             -> V8Answer(f)
    [] backend = "QuickJs"        -> QjsAnswer(f)
    [] backend = "JavaScriptCore" -> JscAnswer(f)
    [] backend = "WebAssembly"    -> WasmAnswer(f)
    [] backend = "Lua"            -> LuaAnswer(f)
    [] backend = "Python"         -> PyAnswer(f)

(* The indicator was cleared: it is run again, as a file.                  *)
Again ==
  /\ evals # << >> /\ Inmost.at = "ended" /\ PyRetries(Inmost)
  /\ evals' = WithInmost([Inmost EXCEPT !.at = "starts", !.mode = "file_input", !.error = NoError])
  /\ indicator' = NoError
  /\ UNCHANGED <<backend, answer, named>>

Returns ==
  /\ evals # << >> /\ Inmost.at = "ended" /\ ~PyRetries(Inmost)
  /\ answer' = Answer(Inmost)
  /\ evals' = Front(evals)
  /\ indicator' = IF backend = "Python" /\ PyUnchecked(Inmost) THEN PyFailure(Inmost) ELSE NoError
  /\ UNCHANGED <<backend, named>>

EvalInit ==
  /\ evals = << >> /\ answer = Unanswered
  /\ indicator = NoError
  /\ named = [own |-> Null, builtin |-> Null]

EvalNext ==
  \/ SetName \/ Eval \/ LoadFile \/ LoadNothing
  \/ DoesNotCompile \/ Runs \/ Ends \/ Again \/ Returns

EvalSpec == backend \in BackendNames /\ EvalInit /\ [][EvalNext]_evalVars

-----------------------------------------------------------------------------
EvalTypeOK ==
  /\ Len(evals) <= EvalDepth
  /\ \A i \in 1..Len(evals) : evals[i].program \in Programs /\ evals[i].ran \in 0..2
  /\ indicator \in {NoError, "Error", "SyntaxError"}
  /\ named \in [{"own", "builtin"} -> {Null, Script, Cpp}]

(* The value of a program, of those languages that give programs one.      *)
Promised(f) ==
  LET p == f.program IN
  CASE p.ends = "malformed"                                -> Error("SyntaxError")
    [] p.ends \notin {"malformed", "returns"}              -> Error(p.ends)
    [] p.ends = "returns" /\ f.op = "loadFile" /\ backend = "QuickJs" -> Given("promise")
    [] p.ends = "returns" /\ f.op = "loadFile" /\ backend = "Python"  -> Given(Null)
    [] OTHER -> Given(IF p.gives = << >> THEN Null ELSE IF Len(p.gives) = 1 THEN Script ELSE p.gives)

(* A program that compiles is run once, and its value or its exception is  *)
(* what eval or loadFile gives, whatever ran inside it and whatever the    *)
(* engine had to try (PyEngine.cc:195-203, Engine.h:113-131).              *)
AnswersOnce(f, given) ==
  /\ f.ran = (IF f.program.ends = "malformed" THEN 0 ELSE 1)
  /\ given = Promised(f)
ProgramsAnswer ==
  [][Len(evals') < Len(evals) => AnswersOnce(Last(evals), answer')]_evalVars

(* ScriptEngine::get gives what a script finds under the name, whoever     *)
(* assigned to it last (docs/en/Python.md:26: "use `Engine::get` to get    *)
(* the data of the result variable from the engine after `eval` finished").*)
NamesAgree == Get = Found
=============================================================================
