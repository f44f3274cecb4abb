---------------------------- MODULE JsonGrammar ----------------------------
(***************************************************************************)
(* What a JSON text is: a pushdown automaton that reads it unit by unit    *)
(* and notes the members of the outermost object.  Nothing here is taken   *)
(* from statico; it is the reference its scanner is compared with.         *)
(*                                                                         *)
(* A unit is a string: a structural character, a whole number or literal,  *)
(* an escape's backslash, or a piece of a string's content.                *)
(***************************************************************************)
EXTENDS Integers, Sequences, SequencesExt

Quote == "\""
Backslash == "\\"
Comma == ","
Colon == ":"
Space == " "
Newline == "\n"
LBrace == "{"
RBrace == "}"
LBracket == "["
RBracket == "]"
White == {Space, Newline}
Open  == {LBrace, LBracket}
Close == {RBrace, RBracket}
Scalars == {"1", "null", "true", "-32700", "-32600", "-32601", "-32602"}

(***************************************************************************)
(* So TLA+ has it; but provers do not know what a literal is an element of. *)
(***************************************************************************)
ASSUME UnitAssumption ==
  {Quote, Backslash, Comma, Colon} \cup White \cup Open \cup Close \cup Scalars \subseteq STRING

(***************************************************************************)
(* mode: what is expected next; stack: the brackets that are open; pos:    *)
(* units read; members: those of the outermost object that are complete,   *)
(* their values from..to; key, from: those of the member being read.       *)
(***************************************************************************)
Start == [mode |-> "value", stack |-> <<>>, pos |-> 0,
          key |-> <<>>, from |-> 1, members |-> <<>>]

Outermost(s) == s.stack = <<LBrace>>
In(s, mode) == [s EXCEPT !.mode = mode]

Ended(s) ==
  [s EXCEPT !.mode = IF s.stack = <<>> THEN "end" ELSE "after",
            !.members = IF Outermost(s)
                          THEN Append(@, [key |-> s.key, from |-> s.from, to |-> s.pos])
                          ELSE @]

Opened(s, c) ==
  [s EXCEPT !.mode = IF c = LBrace THEN "firstKey" ELSE "firstItem",
            !.stack = Append(@, c)]

Closed(s, c) ==
  IF s.stack # <<>> /\ <<Last(s.stack), c>> \in {<<LBrace, RBrace>>, <<LBracket, RBracket>>}
    THEN Ended([s EXCEPT !.stack = Front(@)])
    ELSE In(s, "dead")

Value(s, c) ==
  LET begun == IF Outermost(s) THEN [s EXCEPT !.from = s.pos] ELSE s IN
    CASE c = Quote       -> In(begun, "string")
      [] c \in Open      -> Opened(begun, c)
      [] c \in Scalars   -> Ended(begun)
      [] OTHER           -> In(s, "dead")

Key(s, c) ==
  IF c = Quote
    THEN IF Outermost(s) THEN [In(s, "key") EXCEPT !.key = <<>>] ELSE In(s, "key")
    ELSE In(s, "dead")

(***************************************************************************)
(* Inside a string: a raw newline is not allowed, a quote needs an escape. *)
(***************************************************************************)
InString(s, c) ==
  LET t == IF s.mode = "key" /\ Outermost(s) /\ c # Quote
             THEN [s EXCEPT !.key = Append(@, c)] ELSE s IN
    CASE c = Newline   -> In(s, "dead")
      [] c = Backslash -> In(t, IF s.mode = "key" THEN "keyEscape" ELSE "stringEscape")
      [] c = Quote     -> IF s.mode = "key" THEN In(s, "colon") ELSE Ended(s)
      [] OTHER         -> t

(***************************************************************************)
(* Of the escapes, \" and \\ only: they are the ones that move the end of  *)
(* a string.  A text with another one is not legal here.                   *)
(***************************************************************************)
Escaped(s, c) ==
  LET mode == IF s.mode = "keyEscape" THEN "key" ELSE "string" IN
    IF c \notin {Quote, Backslash} THEN In(s, "dead")
    ELSE IF mode = "key" /\ Outermost(s)
      THEN [In(s, mode) EXCEPT !.key = Append(@, c)]
      ELSE In(s, mode)

After(s, c) ==
  IF c = Comma THEN In(s, IF Last(s.stack) = LBrace THEN "nextKey" ELSE "value")
             ELSE Closed(s, c)

Step(before, c) ==
  LET s == [before EXCEPT !.pos = @ + 1] IN
    CASE s.mode \in {"key", "string"}             -> InString(s, c)
      [] s.mode \in {"keyEscape", "stringEscape"} -> Escaped(s, c)
      [] s.mode = "dead"                          -> s
      [] OTHER ->
           IF c \in White THEN s
           ELSE CASE s.mode = "value"     -> Value(s, c)
                  [] s.mode = "firstItem" -> IF c = RBracket THEN Closed(s, c) ELSE Value(s, c)
                  [] s.mode = "firstKey"  -> IF c = RBrace THEN Closed(s, c) ELSE Key(s, c)
                  [] s.mode = "nextKey"   -> Key(s, c)
                  [] s.mode = "colon"     -> In(s, IF c = Colon THEN "value" ELSE "dead")
                  [] s.mode = "after"     -> After(s, c)
                  [] s.mode = "end"       -> In(s, "dead")

Read(s, text) ==
  LET read[i \in 0..Len(text)] == IF i = 0 THEN s ELSE Step(read[i - 1], text[i])
  IN read[Len(text)]

IsJson(text) == Read(Start, text).mode = "end"

IsString(raw) == IsJson(raw) /\ raw[1] = Quote

(***************************************************************************)
(* The value of a member of the object obj: of the last one with that key, *)
(* as most readers of JSON do.  <<>> when there is none.                   *)
(***************************************************************************)
MemberOf(obj, key) ==
  LET ms == Read(Start, obj).members
      i == SelectLastInSeq(ms, LAMBDA m : m.key = <<key>>)
  IN IF i = 0 THEN <<>> ELSE SubSeq(obj, ms[i].from, ms[i].to)

(***************************************************************************)
(* The values of all members with that key.                                *)
(***************************************************************************)
ValuesOf(obj, key) ==
  LET ms == Read(Start, obj).members
  IN {SubSeq(obj, ms[i].from, ms[i].to) : i \in {j \in DOMAIN ms : ms[j].key = <<key>>}}
=============================================================================
