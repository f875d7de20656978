----------------------------- MODULE JsonParser -----------------------------
(***************************************************************************)
(* neolib::basic_json<json_syntax::Standard>: do_parse(), a table of       *)
(* states and a stack of open values, fed by a generator of the JSON       *)
(* grammar (RFC 8259), whose productions leave their symbols in `goals`.   *)
(* Characters are the tokens of sTokenTable; what they spell is left out,  *)
(* but a word that begins with "c" is none of true, false and null.        *)
(***************************************************************************)
EXTENDS Integers, SequencesExt, TLC

CONSTANTS MaxNesting,  \* bound: arrays and objects open at one time
          EscapesNames \* whether names contain \u escapes, too

JsonParserAssumption == MaxNesting \in Nat /\ EscapesNames \in BOOLEAN

VARIABLES goals, p

vars == <<goals, p>>

----------------------------------------------------------------------------
(* Tokens: the letters of escapes, of hex digits, of both, 'u', 'e' and    *)
(* the others, then the rest of sTokenTable.  "s" is a space and "w" other *)
(* white space, "end" the NUL that do_read() adds.                         *)

Letters == {"n", "h", "x", "u", "e", "c"}
Space == {"s", "w"}
Closers == {"}", "]"}
Tokens == Letters \cup Space \cup Closers \cup
  {"{", "[", ":", ",", "quote", "\\", "+", "-", "digit", ".", "*", "/", "symbol", "end"}

Goes(tokens, state) == [c \in tokens |-> state]

Values == ("{" :> "Object") @@ ("[" :> "Array") @@ ("quote" :> "String") @@
          ("-" :> "IntNeedDigit") @@ ("digit" :> "Int") @@ Goes(Letters, "Keyword")
Names  == ("quote" :> "Name") @@ Goes(Letters, "Keyword")
Ends   == Goes(Closers, "Close") @@ ("," :> "Element") @@ Goes(Space, "Element")
Skips  == Goes(Space, "Ignore")

\* What a string or a name is made of; a control character is an error.
Text(self, closed) ==
  ("quote" :> closed) @@ ("\\" :> "Escaping") @@ Goes(Tokens \ {"w", "end"}, self)

\* sStateTables; what is not listed is state::Error.
StateTable ==
  [ Element       |-> Skips @@ ("end" :> "EndOfParse"),
    Object        |-> Names @@ Skips @@ ("{" :> "Object") @@ ("}" :> "Close") @@ ("," :> "NeedObjectValue"),
    Value         |-> Values @@ Skips @@ Goes(Closers, "Close") @@ ("end" :> "EndOfParse"),
    NeedSeparator |-> Skips @@ Goes(Closers, "Close") @@ ("," :> "Value"),
    NeedValue     |-> Values @@ Skips,
    NeedObjectValueSeparator |-> Skips @@ Goes(Closers, "Close") @@ ("," :> "NeedObjectValue"),
    NeedObjectValue |-> Names @@ Skips,
    Keyword       |-> Ends @@ (":" :> "Element") @@ Goes(Letters \cup {"digit", "."}, "Keyword"),
    Name          |-> Text("Name", "EndName"),
    EndName       |-> Skips @@ (":" :> "Element"),
    String        |-> Text("String", "StringEnd"),
    StringEnd     |-> Ends,
    IntNeedDigit  |-> ("digit" :> "Int"),
    Int           |-> Ends @@ ("digit" :> "Int") @@ ("." :> "FracNeedDigit") @@ ("e" :> "ExpSign"),
    FracNeedDigit |-> ("digit" :> "Frac"),
    Frac          |-> Ends @@ ("digit" :> "Frac") @@ ("e" :> "ExpSign"),
    ExpSign       |-> Goes({"+", "-"}, "ExpNeedDigit") @@ ("digit" :> "Exp"),
    ExpNeedDigit  |-> ("digit" :> "Exp"),
    Exp           |-> Ends @@ ("digit" :> "Exp"),
    Escaping      |-> Goes({"quote", "\\", "/", "n", "x"}, "Escaped") @@ ("u" :> "EscapingUnicode"),
    EscapingUnicode |-> Goes({"digit", "h", "x", "e"}, "Escaped") ]

NextState(state, c) ==
  IF c \in DOMAIN StateTable[state] THEN StateTable[state][c] ELSE "Error"

----------------------------------------------------------------------------
(* do_parse(); p holds its variables: the state, currentElement's type,    *)
(* whether it has a name, the values that are open, and the hex digits.    *)

Start == [state |-> "Value", type |-> "Unknown", named |-> FALSE,
          open |-> <<>>, hex |-> 0, verdict |-> "reading"]

Context(q) == IF q.open = <<>> THEN "none" ELSE Last(q.open)

Failed(q) == [q EXCEPT !.verdict = "failed"]

\* buy_value(), which throws when a member has no name
Buy(q) ==
  CASE Context(q) # "object" -> q
    [] q.named -> [q EXCEPT !.named = FALSE]
    [] OTHER -> Failed(q)

Awaited(q) == Context(q) = "object" /\ ~q.named

\* What Element and Close do with the element that ends.
Bought(q) ==
  CASE q.type = "Unknown" -> q
    [] q.type = "Name" \/ (q.type = "Bare" /\ Awaited(q)) -> [q EXCEPT !.named = @ \/ Awaited(q)]
    [] OTHER -> Buy(q)

\* Mutant: the state after a member is that after an element.
Resumed_AsArray(q, next, c) ==
  CASE Context(q) = "none" -> IF next = "Close" THEN "Value" ELSE next
    [] OTHER -> IF c = "," THEN "NeedValue" ELSE "NeedSeparator"

\* The state that the context gives.
Resumed(q, next, c) ==
  CASE Context(q) = "none"  -> IF next = "Close" THEN "Value" ELSE next
    [] Context(q) = "array" -> IF c = "," THEN "NeedValue" ELSE "NeedSeparator"
    [] q.named -> "NeedValue"
    [] c = ","  -> "NeedObjectValue"
    [] OTHER -> "NeedObjectValueSeparator"

Popped(q, next) == IF next = "Close" THEN [q EXCEPT !.open = Front(@)] ELSE q

Ended(q, next, c) ==
  LET left == Popped(Bought(q), next) IN
  [left EXCEPT !.state = Resumed(left, next, c), !.type = "Unknown"]

Opened(q, kind, next) == [Buy(q) EXCEPT !.open = Append(@, kind), !.state = next]

\* An escape of one character, or a digit of a \u escape
Unescaped(q) ==
  CASE q.state = "Escaping" -> [q EXCEPT !.state = IF q.type = "String" THEN "String" ELSE "Name"]
    [] q.hex < 3 -> [q EXCEPT !.hex = @ + 1]
    [] OTHER -> [q EXCEPT !.hex = 0, !.state = "String"]

Enter(q, next, c) ==
  CASE next \in {"Close", "Element"} -> Ended(q, next, c)
    [] next \in {"String", "Name"}   -> [q EXCEPT !.state = next, !.type = next]
    [] next = "EndName"              -> [q EXCEPT !.state = next, !.named = TRUE]
    [] next \in {"Int", "IntNeedDigit"} -> [q EXCEPT !.state = next, !.type = "Number"]
    [] next = "Array"                -> Opened(q, "array", "Value")
    [] next = "Object"               -> Opened(q, "object", "Object")
    [] next = "Keyword" -> [q EXCEPT !.state = next, !.type = IF c = "c" THEN "Bare" ELSE "Keyword"]
    [] next = "Escaped"              -> Unescaped(q)
    [] OTHER                         -> [q EXCEPT !.state = next]

Parsed(q, c) ==
  LET next == NextState(q.state, c) IN
  CASE next = "Error"      -> Failed(q)
    [] next = "Ignore"     -> q
    [] next = "EndOfParse" -> [q EXCEPT !.verdict = "accepted"]
    [] next = q.state /\ next # "Object" -> q
    [] OTHER -> Enter(q, next, c)

----------------------------------------------------------------------------
(* The grammar.  Numbers may have leading zeros, and a word that is no     *)
(* keyword may stand for a value and, right before its colon, for a name.  *)

Composite == {<<"{", "space", "}">>, <<"{", "members", "}">>,
              <<"[", "space", "]">>, <<"[", "elements", "]">>}

Production ==
  [ space    |-> {<<>>, <<"s">>, <<"w">>},
    element  |-> {<<"space", "value", "space">>},
    value    |-> {<<"quote", "chars", "quote">>, <<"number">>, <<"-", "number">>,
                  <<"n", "u", "e">>, <<"x", "h", "c">>, <<"c", "digit">>} \cup Composite,
    members  |-> {<<"member">>, <<"member", ",", "members">>},
    member   |-> {<<"space", "quote", "name", "quote", "space", ":", "element">>,
                  <<"space", "c", "n", ":", "element">>},
    elements |-> {<<"element">>, <<"element", ",", "elements">>},
    number   |-> {<<"digits", "frac", "exp">>},
    digits   |-> {<<"digit">>, <<"digit", "digits">>},
    frac     |-> {<<>>, <<".", "digits">>},
    exp      |-> {<<>>, <<"e", "digits">>, <<"e", "-", "digits">>, <<"e", "+", "digits">>},
    chars    |-> {<<>>, <<"char", "chars">>, <<"unicode", "chars">>},
    name     |-> {<<>>, <<"char", "name">>} \cup
                 (IF EscapesNames THEN {<<"unicode", "name">>} ELSE {}),
    char     |-> {<<"c">>, <<"s">>, <<"{">>, <<",">>, <<"\\", "n">>, <<"\\", "quote">>, <<"\\", "\\">>},
    unicode  |-> {<<"\\", "u", "digit", "h", "x", "e">>} ]

Bracket == [c \in Closers |-> IF c = "}" THEN "object" ELSE "array"]

\* The arrays and objects that are open in the text so far, outermost first
OpenIn(symbols) ==
  LET closing == SelectSeq(symbols, LAMBDA c : c \in Closers) IN
  [i \in DOMAIN closing |-> Bracket[closing[Len(closing) + 1 - i]]]

Symbol == Head(goals)

Expand ==
  /\ goals # <<>> /\ Symbol \in DOMAIN Production
  /\ \E right \in Production[Symbol] :
       /\ right \in Composite => Len(OpenIn(goals)) < MaxNesting
       /\ goals' = right \o Tail(goals)
  /\ UNCHANGED p

Read ==
  /\ goals # <<>> /\ Symbol \in Tokens /\ p.verdict = "reading"
  /\ p' = Parsed(p, Symbol) /\ goals' = Tail(goals)

\* do_read() ends the text with white space and a NUL.
Init == goals = <<"element", "w", "end">> /\ p = Start

Next == Expand \/ Read

Spec == Init /\ [][Next]_vars

----------------------------------------------------------------------------
TypeOK ==
  /\ p \in [state : DOMAIN StateTable, named : BOOLEAN, open : Seq({"array", "object"}),
            type : {"Unknown", "String", "Name", "Number", "Keyword", "Bare"},
            hex : 0 .. 3, verdict : {"reading", "failed", "accepted"}]
  /\ Len(p.open) <= MaxNesting
  /\ p.hex > 0 => p.state = "EscapingUnicode"
  /\ p.type = "Name" => Context(p) = "object"

\* A JSON text is accepted.
AcceptsJson == p.verdict # "failed" /\ (goals = <<>> => p.verdict = "accepted")

\* The values that the parser holds open are those that are open in the text.
HoldsOpen ==
  p.verdict = "reading" /\ Symbol \notin {"{", "["} => p.open = OpenIn(goals)
=============================================================================
