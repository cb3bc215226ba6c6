----------------------------- MODULE MCInterop ------------------------------
(***************************************************************************)
(* What passes between C++ and scripts, for TLC: calls of bound functions, *)
(* exceptions, classes and their members, what objects and arrays hold,    *)
(* counted Locals, numbers, strings, programs.                             *)
(* One behaviour is about one of these, chosen with the backend in the     *)
(* initial state; the others are at rest.                                  *)
(***************************************************************************)
EXTENDS NativeBinding, Exceptions, ClassRegistry, Evaluation, LocalCounts

VARIABLES
  part,
  cells, pending, valuesResult,                    \* of Values, without holes
  holeCells, holesPending, holesResult,            \* and with them
  variable, number, began, exact, way,             \* of Numbers
  strings, raws, stringHolder, lent, given,        \* of Strings
  define, phase, object, behind, assigned, answered  \* of ClassMembers

valueVars == <<cells, pending, valuesResult>>
holeVars  == <<holeCells, holesPending, holesResult>>
passVars  == <<variable, number, began, exact, way>>
textVars  == <<strings, raws, stringHolder, lent, given>>
classVars == <<define, phase, object, behind, assigned, answered>>
vars == <<part, bindVars, excVars, registryVars, evalVars, valueVars, holeVars, countVars,
          passVars, textVars, classVars>>

CONSTANTS a, b, o, st, x1, x2, m1, m2

TwoSlots == {x1, x2}
TwoTexts == {m1, m2}

(* Four classes in the namespaces n and n.m. Two are defines of one type;  *)
(* one of these is called n, as the namespace. A class without instances   *)
(* has the type of another and the name m.                                 *)
Define(type, path, name, instance) ==
  [type |-> type, path |-> path, name |-> name, instance |-> instance]
FourDefines ==
  {Define("T", <<"n">>, "C", TRUE), Define("T", <<>>, "n", TRUE),
   Define("U", <<"n", "m">>, "C", TRUE), Define("U", <<"n">>, "m", FALSE)}

(* Two objects with one key, or an array; and arrays with holes.           *)
Contained == INSTANCE Values
             WITH result <- valuesResult,
                  Cells <- {1, 2}, Keys <- {"x"}, MaxSize <- 2, Nulls <- FALSE, Misses <- FALSE
Holes == INSTANCE Values
         WITH cells <- holeCells, pending <- holesPending, result <- holesResult,
              Cells <- {1, 2}, Keys <- {"x"}, MaxSize <- 3, Nulls <- TRUE, Misses <- TRUE

(* Bound: a behaviour of LocalCounts is about a string and a byte buffer,  *)
(* or about an object and the array it keeps.                              *)
CountedValues == {st, b, o, a}
OneString == {st}
OneBuffer == {b}
OneArray  == {a}
Followed == IF part = "counts" THEN {st, b} ELSE {o, a}
MostCounts == IF part = "counts" THEN 4 ELSE 3
WithinCounts ==
  \A v \in Counted : heap.counts[v] <= IF v \in Followed THEN MostCounts ELSE 0

(* int16_t, int32_t and int64_t of 3, 4 and 7 bits.                        *)
Numbers == INSTANCE Numbers
           WITH ShortBits <- 3, IntBits <- 4, LongBits <- 7, FloatBits <- 2, DoubleBits <- 5

(* Texts without '\0', and holders that do not outlive what they rely on.  *)
StringsPass == INSTANCE Strings
               WITH Texts <- {<<1>>, <<2, 1>>}, Outlive <- FALSE, holder <- stringHolder

(* One name, of up to two members of a class.                              *)
MembersOfClass ==
  INSTANCE ClassMembers
  WITH Names <- {"x"}, NoName <- NoText, MaxMembers <- 2,
       given <- assigned, answer <- answered

PassingNothing ==
  /\ variable = [type |-> "none", n |-> 0] /\ number = [made |-> FALSE, n |-> 0]
  /\ began = 0 /\ exact = TRUE /\ way = "double"

(* The backends each part is about.                                        *)
Builds ==
  [binding    |-> BackendNames,
   exceptions |-> BackendNames,
   classes    |-> BackendNames,
   values     |-> BackendNames,
   holes      |-> BackendNames,
   counts     |-> {"QuickJs", "Python"},
   stores     |-> {"QuickJs", "Python"},
   numbers    |-> BackendNames,
   strings    |-> BackendNames,
   programs   |-> BackendNames,
   members    |-> BackendNames]

Init ==
  /\ part \in DOMAIN Builds
  /\ backend \in Builds[part]
  /\ BindInit
  /\ ExcInit
  /\ RegistryInit
  /\ Contained!ValuesInit
  /\ Holes!ValuesInit
  /\ CountsInit
  /\ IF part = "numbers" THEN Numbers!NumbersInit
     ELSE PassingNothing
  /\ StringsPass!StringsInit
  /\ EvalInit
  /\ MembersOfClass!MembersInit
  /\ part # "members" => define.named /\ define.typed

Next ==
  /\ UNCHANGED part
  /\ IF part = "binding" THEN BindNext ELSE UNCHANGED bindVars
  /\ IF part = "exceptions" THEN ExcNext ELSE UNCHANGED excVars
  /\ IF part = "classes" THEN RegistryNext ELSE UNCHANGED registryVars
  /\ IF part = "values" THEN Contained!ValuesNext ELSE UNCHANGED valueVars
  /\ IF part = "holes" THEN Holes!ValuesNext ELSE UNCHANGED holeVars
  /\ IF part \in {"counts", "stores"} THEN CountsNext /\ WithinCounts' ELSE UNCHANGED countVars
  /\ IF part = "numbers" THEN Numbers!NumbersNext ELSE UNCHANGED passVars
  /\ IF part = "strings" THEN StringsPass!StringsNext ELSE UNCHANGED textVars
  /\ IF part = "programs" THEN EvalNext ELSE UNCHANGED evalVars
  /\ IF part = "members" THEN MembersOfClass!MembersNext ELSE UNCHANGED classVars
  /\ UNCHANGED backend

Spec == Init /\ [][Next]_vars

-----------------------------------------------------------------------------
(* The properties of the parts, each of which holds of the others at rest. *)

InteropTypesOK ==
  CASE part = "binding"    -> BindTypeOK
    [] part = "exceptions" -> ExcTypeOK
    [] part = "classes"    -> RegistryTypeOK
    [] part = "values"     -> Contained!ValuesTypeOK
    [] part = "holes"      -> Holes!ValuesTypeOK
    [] part = "counts"     -> CountsTypeOK
    [] part = "stores"     -> CountsTypeOK
    [] part = "numbers"    -> Numbers!NumbersTypeOK
    [] part = "strings"    -> StringsPass!StringsTypeOK
    [] part = "programs"   -> EvalTypeOK
    [] part = "members"    -> MembersOfClass!MembersTypeOK

(* A value can be cast to its kind and to no other, a number arrives as    *)
(* the types it travels as allow, and a string as it was, by pointers that *)
(* last; the members of a native class answer as they were defined         *)
(* (Values, Numbers, Strings, ClassMembers).                               *)
ValuesAreRead ==
  /\ part = "values" => Contained!KindsDecideCasts
  /\ part = "numbers" => Numbers!NumbersArrive /\ Numbers!IntegersAreTold
  /\ part = "strings" => StringsPass!StringsArrive /\ StringsPass!HoldersLast
  /\ part = "members" => MembersOfClass!MembersAnswer

(* A registered class can be found, constructed and recognised whatever    *)
(* was tried before, and keeps its name (ClassRegistry).                   *)
RegistryHolds ==
  /\ [](part = "classes" => RegisteredClassesWork /\ LookupsAgree)
  /\ NamesStay

(* A program is run once and answered with its value or its exception, and *)
(* get gives what scripts find under a name (Evaluation).                  *)
ProgramsAreAnswered == []NamesAgree /\ ProgramsAnswer

(* Local<Object> and Local<Array> do the same in every backend (Values,    *)
(* PlainContainers).                                                       *)
ActsAsContainers ==
  /\ Contained!Plain!Init
  /\ [][part = "values" => Contained!Plain!Next]_<<Contained!Contents, valuesResult>>

(* Local<Array>::add keeps what an array has, holes or not (Values).       *)
AddKeepsElements == [][part = "holes" => Holes!KeepsElements]_holeVars
=============================================================================
