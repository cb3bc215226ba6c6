------------------------------- MODULE Strings -------------------------------
(***************************************************************************)
(* Strings that pass between C++ and scripts: String::newString,           *)
(* Local<String> and StringHolder of each backend. One engine, one thread. *)
(***************************************************************************)
EXTENDS Backend

CONSTANTS
  Texts,     \* bound: sequences of 1 (a letter of one byte), 2 (of two) and 0 (NUL)
  Outlive    \* whether a holder is used after its Local where it relies on it

StringLocals == {1, 2}

VARIABLES
  strings,   \* the variables of type Local<String>
  raws,      \* JavaScriptCore's JSStringRefs: their counts and texts
  holder,    \* a StringHolder
  lent,      \* the contents of it that the program has pointers to
  given      \* what it was asked last, and the answer

stringVars == <<backend, strings, raws, holder, lent, given>>

-----------------------------------------------------------------------------
(* Texts.                                                                  *)

Bytes(t) == Len(t) + Cardinality({i \in DOMAIN t : t[i] = 2})
IsNul(t, i) == t[i] = 0
(* What strlen and the like see of a text.                                 *)
Upto(t) ==
  LET Before(n) == \A i \in 1..n : ~IsNul(t, i)
  IN  SubSeq(t, 1, CHOOSE n \in 0..Len(t) : Before(n) /\ (n = Len(t) \/ ~Before(n + 1)))
EndsInNul(t) == t # << >> /\ IsNul(t, Len(t))

-----------------------------------------------------------------------------
(* String::newString of a pointer to char or char8_t, a view of a part of  *)
(* memory (and what follows it there), a std::string or a std::u8string.   *)

Forms == {"pointer", "view", "string", "u8string"}

QjsNew(form, t) == IF form \in {"pointer", "u8string"} THEN Upto(t) ELSE t
V8New(form, t)  == IF form = "pointer" THEN Upto(t) ELSE t
LuaNew(form, t) == IF form = "pointer" THEN Upto(t) ELSE t
PyNew(form, t)  == IF form = "pointer" THEN Upto(t) ELSE t
WasmNew(form, t) == IF form = "pointer" THEN Upto(t) ELSE t
(* A view that does not end in NUL is copied first.                        *)
JscNew(form, t, rest) ==
  IF form = "view" /\ EndsInNul(t) THEN Upto(t \o rest) ELSE Upto(t)

New(form, t, rest) ==
  CASE backend = "QuickJs"        -> QjsNew(form, t)
    [] backend = "V8"             -> V8New(form, t)
    [] backend = "JavaScriptCore" -> JscNew(form, t, rest)
    [] backend = "Lua"            -> LuaNew(form, t)
    [] backend = "Python"         -> PyNew(form, t)
    [] backend = "WebAssembly"    -> WasmNew(form, t)

(* meant is no field: the text that the string was made of. raw and value  *)
(* are StringLocalRef's: a JSStringRef, none if 0, and whether there is a  *)
(* JSValueRef; what other backends have is a value.                        *)
NoString == [made |-> FALSE, text |-> << >>, meant |-> << >>, raw |-> 0, value |-> FALSE]
Unmade   == {l \in StringLocals : ~strings[l].made}
Made     == StringLocals \ Unmade

IsJsc == backend = "JavaScriptCore"
UnusedRaw == CHOOSE r \in DOMAIN raws : raws[r].refs = 0
Retained(rs, r) == IF r = 0 THEN rs ELSE [rs EXCEPT ![r].refs = @ + 1]
Released(rs, r) == IF r = 0 THEN rs ELSE [rs EXCEPT ![r].refs = @ - 1]

NewString ==
  \E l \in Unmade, form \in Forms, t \in Texts, rest \in Texts :
    LET text == New(form, t, rest) IN
    /\ form # "view" => rest = << >>
    /\ strings' = [strings EXCEPT ![l] =
         [made |-> TRUE, text |-> text, meant |-> IF form = "pointer" THEN Upto(t) ELSE t,
          raw |-> IF IsJsc THEN UnusedRaw ELSE 0, value |-> ~IsJsc]]
    /\ raws' = IF IsJsc THEN [raws EXCEPT ![UnusedRaw] = [refs |-> 1, text |-> text]] ELSE raws
    /\ UNCHANGED <<backend, holder, lent, given>>

(* A script's string, from Local<Value>::asString or an argument.          *)
ScriptString ==
  \E l \in Unmade, t \in Texts :
    /\ strings' = [strings EXCEPT ![l] =
         [made |-> TRUE, text |-> t, meant |-> t, raw |-> 0, value |-> TRUE]]
    /\ UNCHANGED <<backend, raws, holder, lent, given>>

(* Lua's, Python's and, before it is read, WebAssembly's holders have the  *)
(* Local's string, which goes with the Local.                              *)
Relied(l) ==
  /\ holder.made /\ holder.from = l
  /\ backend \in {"Lua", "Python"} \/ (backend = "WebAssembly" /\ ~holder.read)
MayEnd(l) == Outlive \/ ~Relied(l)

CopyString ==
  \E l \in Made, k \in Unmade :
    /\ strings' = [strings EXCEPT ![k] = strings[l]]
    /\ raws' = Retained(raws, strings[l].raw)
    /\ UNCHANGED <<backend, holder, lent, given>>

MoveString ==
  \E l \in Made, k \in Unmade :
    /\ MayEnd(l)
    /\ strings' = [strings EXCEPT ![k] = strings[l], ![l] = NoString]
    /\ UNCHANGED <<backend, raws, holder, lent, given>>

AssignReleasing ==                      \* mutant: the new string is not retained
  \E l, k \in Made :
    /\ MayEnd(k)
    /\ strings' = [strings EXCEPT ![k] = strings[l]]
    /\ raws' = Released(raws, strings[k].raw)
    /\ UNCHANGED <<backend, holder, lent, given>>

(* SharedStringRef's assignment retains the new string, then releases.     *)
AssignString ==
  \E l, k \in Made :
    /\ MayEnd(k)
    /\ strings' = [strings EXCEPT ![k] = strings[l]]
    /\ raws' = Released(Retained(raws, strings[l].raw), strings[k].raw)
    /\ UNCHANGED <<backend, holder, lent, given>>

EndString ==
  \E l \in Made :
    /\ MayEnd(l)
    /\ strings' = [strings EXCEPT ![l] = NoString]
    /\ raws' = Released(raws, strings[l].raw)
    /\ UNCHANGED <<backend, holder, lent, given>>

(* StringLocalRef::getValue.                                               *)
AsStringValue ==
  \E l \in Made :
    /\ strings' = [strings EXCEPT ![l].value = TRUE]
    /\ UNCHANGED <<backend, raws, holder, lent, given>>

-----------------------------------------------------------------------------
(* StringHolder: where its text is from, and its fields: read is inited of *)
(* JavaScriptCore and a pointer of WebAssembly that is set, size is        *)
(* data.length (0 is npos), capacity that of stringContent; buffer counts  *)
(* the memory it had. of is no field: the text it is to give.              *)

Unasked == [member |-> "none", of |-> << >>, answer |-> << >>]
NoHolder ==
  [made |-> FALSE, from |-> 1, raw |-> 0, read |-> FALSE, size |-> 0, capacity |-> 0,
   buffer |-> 0, content |-> << >>, of |-> << >>]

ToStringHolder ==
  /\ ~holder.made
  /\ \E l \in Made :
       LET s   == strings[l]
           raw == IF s.raw # 0 THEN s.raw ELSE UnusedRaw
           own == IF s.raw # 0 THEN raws ELSE [raws EXCEPT ![raw] = [refs |-> 1, text |-> s.text]]
       IN  /\ strings' = IF IsJsc THEN [strings EXCEPT ![l].raw = raw] ELSE strings
           /\ raws' = IF IsJsc THEN Retained(own, raw) ELSE raws
           /\ holder' = [NoHolder EXCEPT !.made = TRUE, !.from = l, !.of = s.text, !.content = s.text,
                                         !.raw = IF IsJsc THEN raw ELSE 0]
  /\ UNCHANGED <<backend, lent, given>>

(* What JSStringGetUTF8CString writes into so many bytes.                  *)
Written(t, size) ==
  SubSeq(t, 1, CHOOSE n \in 0..Len(t) : /\ Bytes(SubSeq(t, 1, n)) < size
                                        /\ n = Len(t) \/ Bytes(SubSeq(t, 1, n + 1)) >= size)

(* initString. The copy of a string with much space to spare is one to     *)
(* itself, which gives back no space (and must not: the text is written    *)
(* again after string(), when pointers to it are lent).                    *)
InitString(h) ==
  LET t    == raws[h.raw].text
      size == IF h.size = 0 THEN 3 * Len(t) + 1 ELSE h.size
  IN  IF h.read THEN h
      ELSE [h EXCEPT !.read = TRUE, !.content = Written(t, size), !.size = Bytes(t) + 1,
                     !.capacity = IF size > @ THEN size ELSE @,
                     !.buffer = IF size > h.capacity THEN @ + 1 ELSE @]

(* fillString.                                                             *)
FillString(h) ==
  IF h.read THEN h ELSE [h EXCEPT !.read = TRUE, !.content = Upto(strings[h.from].text)]

Ready(h) ==
  CASE IsJsc                        -> InitString(h)
    [] backend = "WebAssembly"      -> FillString(h)
    [] backend \in {"Lua", "Python"} -> [h EXCEPT !.content = strings[h.from].text]
    [] OTHER                        -> h

Members  == {"length", "c_str", "stringView", "string", "c_u8str", "u8stringView", "u8string"}
Pointers == {"c_str", "stringView", "c_u8str", "u8stringView"}

LuaText(member, h) == IF member \in {"stringView", "string"} THEN Upto(h.content) ELSE h.content
TextOf(member, h) == IF backend = "Lua" THEN LuaText(member, h) ELSE h.content
LengthOf(h) == IF IsJsc THEN h.size - 1 ELSE Bytes(h.content)

Answered(member, h) ==
  CASE member = "length"                -> <<LengthOf(h)>>
    [] member \in {"c_str", "c_u8str"}  -> Upto(h.content)
    [] OTHER                            -> TextOf(member, h)

Ask ==
  /\ holder.made
  /\ \E member \in Members :
       LET h == Ready(holder) IN
       /\ holder' = [h EXCEPT !.read = IF IsJsc /\ member = "string" THEN FALSE ELSE @]
       /\ lent' = IF member \in Pointers THEN lent \cup {h.buffer} ELSE lent
       /\ given' = [member |-> member, of |-> h.of, answer |-> Answered(member, h)]
  /\ UNCHANGED <<backend, strings, raws>>

EndHolder ==
  /\ holder.made
  /\ holder' = NoHolder
  /\ lent' = {}
  /\ given' = Unasked
  /\ raws' = Released(raws, holder.raw)
  /\ UNCHANGED <<backend, strings>>

StringsInit ==
  /\ strings = [l \in StringLocals |-> NoString]
  /\ raws = [r \in 1..3 |-> [refs |-> 0, text |-> << >>]]
  /\ holder = NoHolder /\ lent = {}
  /\ given = Unasked

StringsNext ==
  \/ NewString \/ ScriptString \/ CopyString \/ MoveString \/ AssignString \/ EndString
  \/ AsStringValue \/ ToStringHolder \/ Ask \/ EndHolder

StringsSpec == backend \in BackendNames /\ StringsInit /\ [][StringsNext]_stringVars

-----------------------------------------------------------------------------
StringsTypeOK ==
  /\ \A l \in StringLocals : strings[l].raw \in 0..3 /\ (strings[l].made => strings[l].raw # 0 \/ strings[l].value)
  /\ holder.buffer \in 0..3 /\ holder.read \in BOOLEAN
  /\ lent \subseteq 0..3

Asked(member, t) ==
  CASE member = "length"               -> <<Bytes(t)>>
    [] member \in {"c_str", "c_u8str"} -> Upto(t)
    [] OTHER                           -> t

(* A string is what it was made of, in scripts and again in C++, whichever *)
(* form it comes in, whatever a holder is asked, and in whichever order.   *)
StringsArrive ==
  /\ \A l \in Made : strings[l].text = strings[l].meant
  /\ given.member # "none" => given.answer = Asked(given.member, given.of)

(* What a holder has given a pointer to stays until the holder goes        *)
(* (Utils.h:53-67: "the pointer is valid until this StringHolder instance  *)
(* is destroyed"), and JavaScriptCore's strings are kept as long as a      *)
(* Local or a holder has them and no longer.                               *)
HoldersLast ==
  /\ lent \subseteq {holder.buffer}
  /\ \A r \in DOMAIN raws :
       raws[r].refs = Cardinality({l \in StringLocals : strings[l].raw = r})
                      + (IF holder.raw = r THEN 1 ELSE 0)
=============================================================================
