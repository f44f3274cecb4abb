---------------------------- MODULE McpRpc_proofs --------------------------
(***************************************************************************)
(* Proofs about McpRpc, for every lexicon: texts of any length and depth.  *)
(*                                                                         *)
(* The scanner of mcp.rs and the automaton of JsonGrammar read the same    *)
(* text in different ways.  A run is the sequence of the states that the   *)
(* automaton goes through; of each function of the scanner it is shown at  *)
(* which unit of a run it ends.  From this follows that both find the same *)
(* members; and as the value of a member, read by itself, goes through the *)
(* same states as where it stands, it is a JSON text, too.                 *)
(*                                                                         *)
(* An answer is made of fixed units and of such values.  Each value goes   *)
(* through its states there, too, so that an answer is a JSON text whose   *)
(* members are the ones that were put into it.                             *)
(***************************************************************************)
EXTENDS McpRpc, SequenceTheorems, NaturalsInduction, WellFoundedInduction, TLAPS

(* A set of numbers has a least one. *)
LEMMA LeastNumber ==
  ASSUME NEW B \in SUBSET Nat, B # {}
  PROVE  \E n \in B : \A m \in B : n <= m
<1>1. PICK n \in B : \A m \in B : ~(<<m, n>> \in OpToRel(<, Nat))
  BY NatLessThanWellFounded, WFMin
<1>2. \A m \in B : ~(m < n)
  BY <1>1 DEF OpToRel
<1> QED BY <1>2

(***************************************************************************)
(* A recursion whose argument comes closer to its end has a solution.      *)
(* Where it stops its value is known; elsewhere it is made of the value at *)
(* the next argument.                                                      *)
(***************************************************************************)
Shrinks(S, V, N, left, stop, val, next, join) ==
  /\ N \in Nat /\ left \in [S -> 0..N]
  /\ stop \in SUBSET S /\ val \in [S -> V] /\ next \in [S -> S] /\ join \in [S -> [V -> V]]
  /\ \A x \in S \ stop : left[next[x]] < left[x]

(* It has one: by induction over what is left. *)
LEMMA Recursion ==
  ASSUME NEW S, NEW V, NEW N, NEW left, NEW stop, NEW val, NEW next, NEW join,
         Shrinks(S, V, N, left, stop, val, next, join)
  PROVE  \E g \in [S -> V] :
           \A x \in S : g[x] = IF x \in stop THEN val[x] ELSE join[x][g[next[x]]]
<1> USE DEF Shrinks
<1> DEFINE Good(g, n) == /\ g \in [S -> V]
                         /\ \A x \in S : left[x] < n =>
                              g[x] = IF x \in stop THEN val[x] ELSE join[x][g[next[x]]]
           B == {n \in Nat : ~ \E g : Good(g, n)}
<1>1. B = {}
  <2> SUFFICES ASSUME B # {} PROVE FALSE
    OBVIOUS
  <2>1. PICK n \in B : \A m \in B : n <= m
    <3>1. B \in SUBSET Nat
      OBVIOUS
    <3> HIDE DEF B
    <3> QED BY <3>1, LeastNumber
  <2>2. n \in Nat /\ ~ \E g : Good(g, n)
    BY <2>1
  <2>3. n # 0
    <3>1. \A x \in S : ~(left[x] < 0)
      OBVIOUS
    <3>2. Good(val, 0)
      BY <3>1
    <3> QED BY <2>2, <3>2
  <2>4. n - 1 \in Nat /\ n - 1 \notin B
    <3>1. n - 1 \in Nat /\ ~(n <= n - 1)
      BY <2>2, <2>3
    <3> HIDE DEF B
    <3> QED BY <2>1, <3>1
  <2>5. PICK f : Good(f, n - 1)
    BY <2>4
  <2> DEFINE g == [x \in S |-> IF x \in stop THEN val[x] ELSE join[x][f[next[x]]]]
  <2>6. g \in [S -> V]
    BY <2>5
  <2>7. ASSUME NEW x \in S, left[x] < n
        PROVE  g[x] = IF x \in stop THEN val[x] ELSE join[x][g[next[x]]]
    <3>1. CASE x \in stop
      BY <3>1
    <3>2. CASE x \notin stop
      <4>1. next[x] \in S /\ left[next[x]] < n - 1
        BY <2>2, <2>7, <3>2
      <4>2. f[next[x]] = g[next[x]]
        BY <2>5, <4>1
      <4> QED BY <3>2, <4>2
    <3> QED BY <3>1, <3>2
  <2>8. Good(g, n)
    BY <2>6, <2>7
  <2> QED BY <2>2, <2>8
<1>2. N + 1 \notin B
  BY <1>1
<1>3. PICK g : Good(g, N + 1)
  BY <1>2
<1>4. \A x \in S : left[x] < N + 1
  OBVIOUS
<1> QED BY <1>3, <1>4

(***************************************************************************)
(* Automaton runs                                                          *)
(***************************************************************************)
(***************************************************************************)
(* The structural units are different.                                     *)
(***************************************************************************)
LEMMA Units ==
  /\ Quote \notin {Backslash, Comma, Colon, Space, Newline, LBrace, RBrace, LBracket, RBracket}
  /\ Backslash \notin {Comma, Colon, Space, Newline, LBrace, RBrace, LBracket, RBracket}
  /\ Comma \notin {Colon, Space, Newline, LBrace, RBrace, LBracket, RBracket}
  /\ Colon \notin {Space, Newline, LBrace, RBrace, LBracket, RBracket}
  /\ Space \notin {Newline, LBrace, RBrace, LBracket, RBracket}
  /\ Newline \notin {LBrace, RBrace, LBracket, RBracket}
  /\ LBrace \notin {RBrace, LBracket, RBracket}
  /\ RBrace \notin {LBracket, RBracket}
  /\ LBracket # RBracket
BY Zenon DEF Quote, Backslash, Comma, Colon, Space, Newline, LBrace, RBrace, LBracket, RBracket

(* Scalars are no units of the structure. *)
LEMMA ScalarUnits ==
  Scalars \cap {Quote, Backslash, Comma, Colon, Space, Newline, LBrace, RBrace, LBracket, RBracket} = {}
BY Zenon DEF Scalars, Quote, Backslash, Comma, Colon, Space, Newline, LBrace, RBrace, LBracket, RBracket

(* The states of the automaton. *)
Modes == {"value", "firstItem", "firstKey", "nextKey", "key", "keyEscape", "colon",
          "string", "stringEscape", "after", "end", "dead"}
Entries == [key : Seq(STRING), from : Int, to : Int]
State == [mode : Modes, stack : Seq(Open), pos : Int, key : Seq(STRING),
          from : Int, members : Seq(Entries)]

Mk(m, st, p, k, f, ms) ==
  [mode |-> m, stack |-> st, pos |-> p, key |-> k, from |-> f, members |-> ms]

(* A state is made of its fields. *)
LEMMA StateFields ==
  /\ \A s \in State : /\ s = Mk(s.mode, s.stack, s.pos, s.key, s.from, s.members)
                      /\ s.mode \in Modes /\ s.stack \in Seq(Open) /\ s.pos \in Int
                      /\ s.key \in Seq(STRING) /\ s.from \in Int /\ s.members \in Seq(Entries)
  /\ \A m \in Modes, st \in Seq(Open), p \in Int, k \in Seq(STRING), f \in Int,
        ms \in Seq(Entries) : Mk(m, st, p, k, f, ms) \in State
BY DEF State, Mk

(* EXCEPT, under a name for each field that Step changes. *)
SetStack(s, x) == [s EXCEPT !.stack = x]
SetPos(s, x) == [s EXCEPT !.pos = x]
SetKey(s, x) == [s EXCEPT !.key = x]
SetFrom(s, x) == [s EXCEPT !.from = x]
SetMembers(s, x) == [s EXCEPT !.members = x]
SetEnd(s, x, y) == [s EXCEPT !.mode = x, !.members = y]
SetOpen(s, x, y) == [s EXCEPT !.mode = x, !.stack = y]

(* What EXCEPT makes of a state. *)
LEMMA OneField ==
  \A m, st, p, k, f, ms, x :
    /\ In(Mk(m, st, p, k, f, ms), x) = Mk(x, st, p, k, f, ms)
    /\ SetStack(Mk(m, st, p, k, f, ms), x) = Mk(m, x, p, k, f, ms)
    /\ SetPos(Mk(m, st, p, k, f, ms), x) = Mk(m, st, x, k, f, ms)
    /\ SetKey(Mk(m, st, p, k, f, ms), x) = Mk(m, st, p, x, f, ms)
    /\ SetFrom(Mk(m, st, p, k, f, ms), x) = Mk(m, st, p, k, x, ms)
    /\ SetMembers(Mk(m, st, p, k, f, ms), x) = Mk(m, st, p, k, f, x)
BY DEF Mk, In, SetStack, SetPos, SetKey, SetFrom, SetMembers

(* What EXCEPT makes of a state, two fields at a time. *)
LEMMA TwoFields ==
  \A m, st, p, k, f, ms, x, y :
    /\ SetEnd(Mk(m, st, p, k, f, ms), x, y) = Mk(x, st, p, k, f, y)
    /\ SetOpen(Mk(m, st, p, k, f, ms), x, y) = Mk(x, y, p, k, f, ms)
<1>1. \A s, x, y : SetEnd(s, x, y) = SetMembers(In(s, x), y)
  BY DEF In, SetEnd, SetMembers
<1>2. \A s, x, y : SetOpen(s, x, y) = SetStack(In(s, x), y)
  BY DEF In, SetOpen, SetStack
<1> QED BY <1>1, <1>2, OneField

(* The fields of a state that is made of them. *)
LEMMA MkFields ==
  \A m, st, p, k, f, ms :
    /\ Mk(m, st, p, k, f, ms).mode = m
    /\ Mk(m, st, p, k, f, ms).stack = st
    /\ Mk(m, st, p, k, f, ms).pos = p
    /\ Mk(m, st, p, k, f, ms).key = k
    /\ Mk(m, st, p, k, f, ms).from = f
    /\ Mk(m, st, p, k, f, ms).members = ms
BY DEF Mk

(***************************************************************************)
(* The automaton's steps, told by fields.                                  *)
(***************************************************************************)
EndMode(st) == IF st = <<>> THEN "end" ELSE "after"
EndMembers(st, p, k, f, ms) ==
  IF st = <<LBrace>> THEN Append(ms, [key |-> k, from |-> f, to |-> p]) ELSE ms

(* A value ends. *)
LEMMA EndedIs ==
  \A m, st, p, k, f, ms :
    Ended(Mk(m, st, p, k, f, ms)) = Mk(EndMode(st), st, p, k, f, EndMembers(st, p, k, f, ms))
<1>1. \A s : Ended(s) = SetEnd(s, EndMode(s.stack), EndMembers(s.stack, s.pos, s.key, s.from, s.members))
  BY DEF Ended, EndMode, EndMembers, Outermost, SetEnd
<1> QED BY <1>1, TwoFields, MkFields

OpenMode(c) == IF c = LBrace THEN "firstKey" ELSE "firstItem"

(* A bracket opens. *)
LEMMA OpenedIs ==
  \A m, st, p, k, f, ms, c :
    Opened(Mk(m, st, p, k, f, ms), c) = Mk(OpenMode(c), Append(st, c), p, k, f, ms)
<1>1. \A s, c : Opened(s, c) = SetOpen(s, OpenMode(c), Append(s.stack, c))
  BY DEF Opened, SetOpen, OpenMode
<1> QED BY <1>1, TwoFields, MkFields

Matches(st, c) == st # <<>> /\ <<Last(st), c>> \in {<<LBrace, RBrace>>, <<LBracket, RBracket>>}

(* A bracket closes, if it is the right one. *)
LEMMA ClosedIs ==
  \A m, st, p, k, f, ms, c :
    Closed(Mk(m, st, p, k, f, ms), c)
      = IF Matches(st, c)
          THEN Mk(EndMode(Front(st)), Front(st), p, k, f, EndMembers(Front(st), p, k, f, ms))
          ELSE Mk("dead", st, p, k, f, ms)
<1>1. \A s, c : Closed(s, c) = IF Matches(s.stack, c) THEN Ended(SetStack(s, Front(s.stack)))
                                                      ELSE In(s, "dead")
  BY DEF Closed, Matches, SetStack
<1> QED BY <1>1, OneField, MkFields, EndedIs

Began(st, p, f) == IF st = <<LBrace>> THEN p ELSE f

(* A value begins. *)
LEMMA ValueIs ==
  \A m, st, p, k, f, ms, c :
    Value(Mk(m, st, p, k, f, ms), c)
      = CASE c = Quote -> Mk("string", st, p, k, Began(st, p, f), ms)
          [] c \in Open ->
               Mk(OpenMode(c), Append(st, c), p, k, Began(st, p, f), ms)
          [] c \in Scalars ->
               Mk(EndMode(st), st, p, k, Began(st, p, f),
                  EndMembers(st, p, k, Began(st, p, f), ms))
          [] OTHER -> Mk("dead", st, p, k, f, ms)
<1>1. \A s, c : Value(s, c) =
        LET begun == IF Outermost(s) THEN SetFrom(s, s.pos) ELSE s IN
          CASE c = Quote -> In(begun, "string")
                      [] c \in Open -> Opened(begun, c)
                      [] c \in Scalars -> Ended(begun)
                      [] OTHER -> In(s, "dead")
  BY DEF Value, SetFrom
<1> TAKE m, st, p, k, f, ms, c
<1> DEFINE s == Mk(m, st, p, k, f, ms)
           begun == IF Outermost(s) THEN SetFrom(s, s.pos) ELSE s
<1>2. begun = Mk(m, st, p, k, Began(st, p, f), ms)
  <2>1. s.stack = st /\ s.pos = p
    BY MkFields
  <2>2. SetFrom(s, p) = Mk(m, st, p, k, p, ms)
    BY OneField
  <2> HIDE DEF s
  <2>3. CASE st = <<LBrace>>
    BY <2>1, <2>2, <2>3 DEF Outermost, Began
  <2>4. CASE st # <<LBrace>>
    BY <2>1, <2>4 DEF Outermost, Began, s
  <2> QED BY <2>3, <2>4
<1>3. Value(s, c) = CASE c = Quote -> In(begun, "string")
                      [] c \in Open -> Opened(begun, c)
                      [] c \in Scalars -> Ended(begun)
                      [] OTHER -> In(s, "dead")
  BY <1>1
<1> DEFINE g == Began(st, p, f)
<1>4. In(begun, "string") = Mk("string", st, p, k, g, ms)
  BY <1>2, OneField
<1>5. Opened(begun, c) = Mk(OpenMode(c), Append(st, c), p, k, g, ms)
  BY <1>2, OpenedIs
<1>6. Ended(begun) = Mk(EndMode(st), st, p, k, g, EndMembers(st, p, k, g, ms))
  BY <1>2, EndedIs
<1>7. In(s, "dead") = Mk("dead", st, p, k, f, ms)
  BY OneField
<1> HIDE DEF begun, s
<1> QED BY <1>3, <1>4, <1>5, <1>6, <1>7 DEF s
Grown(m, st, k, c) ==
  IF m \in {"key", "keyEscape"} /\ st = <<LBrace>> THEN Append(k, c) ELSE k

EscapeMode(m) == IF m = "key" THEN "keyEscape" ELSE "stringEscape"

Cleared(st, k) == IF st = <<LBrace>> THEN <<>> ELSE k

(* A key begins. *)
LEMMA KeyIs ==
  \A m, st, p, k, f, ms, c :
    Key(Mk(m, st, p, k, f, ms), c)
      = IF c = Quote THEN Mk("key", st, p, Cleared(st, k), f, ms)
                     ELSE Mk("dead", st, p, k, f, ms)
<1>1. \A s, c : Key(s, c) =
         IF c = Quote THEN IF s.stack = <<LBrace>> THEN SetKey(In(s, "key"), <<>>) ELSE In(s, "key")
                      ELSE In(s, "dead")
  BY DEF Key, Outermost, SetKey
<1> TAKE m, st, p, k, f, ms, c
<1> DEFINE s == Mk(m, st, p, k, f, ms)
<1>2. s.stack = st
  BY MkFields
<1>3. In(s, "key") = Mk("key", st, p, k, f, ms) /\ In(s, "dead") = Mk("dead", st, p, k, f, ms)
  BY OneField
<1>4. SetKey(In(s, "key"), <<>>) = Mk("key", st, p, <<>>, f, ms)
  BY <1>3, OneField
<1>5. Key(s, c) = IF c = Quote THEN IF s.stack = <<LBrace>> THEN SetKey(In(s, "key"), <<>>) ELSE In(s, "key")
                      ELSE In(s, "dead")
  BY <1>1
<1> HIDE DEF s
<1> QED BY <1>2, <1>3, <1>4, <1>5 DEF s, Cleared

(* Within a string. *)
LEMMA InStringIs ==
  ASSUME NEW m, NEW st, NEW p, NEW k, NEW f, NEW ms, NEW c, m \in {"key", "string"}
  PROVE  InString(Mk(m, st, p, k, f, ms), c)
           = CASE c = Newline   -> Mk("dead", st, p, k, f, ms)
               [] c = Backslash -> Mk(EscapeMode(m), st, p, Grown(m, st, k, c), f, ms)
               [] c = Quote     -> IF m = "key" THEN Mk("colon", st, p, k, f, ms)
                                   ELSE Mk(EndMode(st), st, p, k, f, EndMembers(st, p, k, f, ms))
               [] OTHER         -> Mk(m, st, p, Grown(m, st, k, c), f, ms)
<1> DEFINE s == Mk(m, st, p, k, f, ms)
           t == IF s.mode = "key" /\ s.stack = <<LBrace>> /\ c # Quote
                  THEN SetKey(s, Append(s.key, c)) ELSE s
<1>1. InString(s, c) = CASE c = Newline   -> In(s, "dead")
                        [] c = Backslash -> In(t, EscapeMode(s.mode))
                        [] c = Quote     -> IF s.mode = "key" THEN In(s, "colon") ELSE Ended(s)
                        [] OTHER         -> t
  BY DEF InString, Outermost, SetKey, EscapeMode
<1>2. s.mode = m /\ s.stack = st /\ s.key = k
  BY MkFields
<1>3. SetKey(s, Append(k, c)) = Mk(m, st, p, Append(k, c), f, ms)
  BY OneField
<1>4. In(s, "dead") = Mk("dead", st, p, k, f, ms) /\ In(s, "colon") = Mk("colon", st, p, k, f, ms)
  BY OneField
<1>5. Ended(s) = Mk(EndMode(st), st, p, k, f, EndMembers(st, p, k, f, ms))
  BY EndedIs
<1> HIDE DEF s
<1>6. ASSUME c # Quote PROVE t = Mk(m, st, p, Grown(m, st, k, c), f, ms)
  <2>1. CASE m = "key" /\ st = <<LBrace>>
    BY <1>2, <1>3, <1>6, <2>1 DEF Grown
  <2>2. CASE ~(m = "key" /\ st = <<LBrace>>)
    BY <1>2, <1>6, <2>2 DEF Grown, s
  <2> QED BY <2>1, <2>2
<1> HIDE DEF t
<1>7. ASSUME c # Quote PROVE In(t, EscapeMode(m)) = Mk(EscapeMode(m), st, p, Grown(m, st, k, c), f, ms)
  BY <1>6, <1>7, OneField
<1>8. Backslash # Quote /\ Newline # Quote /\ Newline # Backslash
  BY Units
<1> QED BY <1>1, <1>2, <1>4, <1>5, <1>6, <1>7, <1>8 DEF s

(* After a backslash. *)
LEMMA EscapedIs ==
  ASSUME NEW m, NEW st, NEW p, NEW k, NEW f, NEW ms, NEW c, m \in {"keyEscape", "stringEscape"}
  PROVE  Escaped(Mk(m, st, p, k, f, ms), c)
           = IF c \in {Quote, Backslash}
               THEN Mk(IF m = "keyEscape" THEN "key" ELSE "string", st, p, Grown(m, st, k, c), f, ms)
               ELSE Mk("dead", st, p, k, f, ms)
<1> DEFINE s == Mk(m, st, p, k, f, ms)
           to == IF m = "keyEscape" THEN "key" ELSE "string"
<1>2. s.mode = m /\ s.stack = st /\ s.key = k
  BY MkFields
<1>1. Escaped(s, c) = IF c \notin {Quote, Backslash} THEN In(s, "dead")
                      ELSE IF to = "key" /\ s.stack = <<LBrace>>
                        THEN SetKey(In(s, to), Append(In(s, to).key, c)) ELSE In(s, to)
  BY <1>2 DEF Escaped, Outermost, SetKey
<1>3. In(s, to) = Mk(to, st, p, k, f, ms) /\ In(s, "dead") = Mk("dead", st, p, k, f, ms)
  BY OneField
<1>4. SetKey(In(s, to), Append(k, c)) = Mk(to, st, p, Append(k, c), f, ms)
  BY <1>3, OneField
<1>5. In(s, to).key = k
  BY <1>3, MkFields
<1> HIDE DEF s
<1>6. CASE m = "keyEscape"
  BY <1>1, <1>2, <1>3, <1>4, <1>5, <1>6 DEF Grown, s
<1>7. CASE m = "stringEscape"
  BY <1>1, <1>2, <1>3, <1>4, <1>5, <1>7 DEF Grown, s
<1> QED BY <1>6, <1>7

NextMode(st) == IF Last(st) = LBrace THEN "nextKey" ELSE "value"

(* After a value. *)
LEMMA AfterIs ==
  \A m, st, p, k, f, ms, c :
    After(Mk(m, st, p, k, f, ms), c)
      = IF c = Comma THEN Mk(NextMode(st), st, p, k, f, ms)
        ELSE IF Matches(st, c)
          THEN Mk(EndMode(Front(st)), Front(st), p, k, f, EndMembers(Front(st), p, k, f, ms))
          ELSE Mk("dead", st, p, k, f, ms)
<1> TAKE m, st, p, k, f, ms, c
<1> DEFINE s == Mk(m, st, p, k, f, ms)
           x == NextMode(st)
<1>1. s.stack = st
  BY MkFields
<1>2. In(s, x) = Mk(x, st, p, k, f, ms)
  BY OneField
<1>3. Closed(s, c) = IF Matches(st, c)
          THEN Mk(EndMode(Front(st)), Front(st), p, k, f, EndMembers(Front(st), p, k, f, ms))
          ELSE Mk("dead", st, p, k, f, ms)
  BY ClosedIs
<1> HIDE DEF s
<1>4. After(s, c) = IF c = Comma THEN In(s, x) ELSE Closed(s, c)
  BY <1>1 DEF After, NextMode
<1> QED BY <1>2, <1>3, <1>4 DEF s

(***************************************************************************)
(* A step by the mode it is taken in.                                      *)
(***************************************************************************)
LEMMA StepBy ==
  ASSUME NEW s \in State, NEW c
  PROVE  LET t == Mk(s.mode, s.stack, s.pos + 1, s.key, s.from, s.members) IN
         Step(s, c) =
           CASE s.mode \in {"key", "string"}             -> InString(t, c)
             [] s.mode \in {"keyEscape", "stringEscape"} -> Escaped(t, c)
             [] s.mode = "dead"                          -> t
             [] OTHER ->
                  IF c \in White THEN t
                  ELSE CASE s.mode = "value"     -> Value(t, c)
                         [] s.mode = "firstItem" -> IF c = RBracket THEN Closed(t, c) ELSE Value(t, c)
                         [] s.mode = "firstKey"  -> IF c = RBrace THEN Closed(t, c) ELSE Key(t, c)
                         [] s.mode = "nextKey"   -> Key(t, c)
                         [] s.mode = "colon"     -> In(t, IF c = Colon THEN "value" ELSE "dead")
                         [] s.mode = "after"     -> After(t, c)
                         [] s.mode = "end"       -> In(t, "dead")
<1> DEFINE t == SetPos(s, s.pos + 1)
<1>1. t = Mk(s.mode, s.stack, s.pos + 1, s.key, s.from, s.members)
  BY StateFields, OneField
<1>2. t.mode = s.mode
  BY <1>1, MkFields
<1>3. Step(s, c) =
           CASE t.mode \in {"key", "string"}             -> InString(t, c)
             [] t.mode \in {"keyEscape", "stringEscape"} -> Escaped(t, c)
             [] t.mode = "dead"                          -> t
             [] OTHER ->
                  IF c \in White THEN t
                  ELSE CASE t.mode = "value"     -> Value(t, c)
                         [] t.mode = "firstItem" -> IF c = RBracket THEN Closed(t, c) ELSE Value(t, c)
                         [] t.mode = "firstKey"  -> IF c = RBrace THEN Closed(t, c) ELSE Key(t, c)
                         [] t.mode = "nextKey"   -> Key(t, c)
                         [] t.mode = "colon"     -> In(t, IF c = Colon THEN "value" ELSE "dead")
                         [] t.mode = "after"     -> After(t, c)
                         [] t.mode = "end"       -> In(t, "dead")
  BY DEF Step, SetPos
<1> HIDE DEF t
<1> QED BY <1>1, <1>2, <1>3

Plain == {"value", "firstItem", "firstKey", "nextKey", "colon", "after", "end"}

(***************************************************************************)
(* What a step from s reads, if the text is not given up, and where it     *)
(* leads: p units have then been read.                                     *)
(***************************************************************************)
Blank(s, c, p) == s.mode \in Plain /\ c \in White
BlankTo(s, c, p) == Mk(s.mode, s.stack, p, s.key, s.from, s.members)

EndTo(s, st, p, f) == Mk(EndMode(st), st, p, s.key, f, EndMembers(st, p, s.key, f, s.members))

TextTo(s, c, p) ==
  CASE c = Backslash -> Mk(EscapeMode(s.mode), s.stack, p, Grown(s.mode, s.stack, s.key, c), s.from, s.members)
    [] c = Quote     -> IF s.mode = "key" THEN Mk("colon", s.stack, p, s.key, s.from, s.members)
                        ELSE EndTo(s, s.stack, p, s.from)
    [] OTHER         -> Mk(s.mode, s.stack, p, Grown(s.mode, s.stack, s.key, c), s.from, s.members)

EscapeTo(s, c, p) ==
  Mk(IF s.mode = "keyEscape" THEN "key" ELSE "string", s.stack, p,
     Grown(s.mode, s.stack, s.key, c), s.from, s.members)

ValueTo(s, c, p) ==
  LET f == Began(s.stack, p, s.from) IN
  CASE c = Quote -> Mk("string", s.stack, p, s.key, f, s.members)
    [] c \in Open -> Mk(OpenMode(c), Append(s.stack, c), p, s.key, f, s.members)
    [] OTHER -> EndTo(s, s.stack, p, f)

KeyTo(s, c, p) == Mk("key", s.stack, p, Cleared(s.stack, s.key), s.from, s.members)

CloseTo(s, c, p) == EndTo(s, Front(s.stack), p, s.from)

WantsValue(s, c) == s.mode = "value" \/ (s.mode = "firstItem" /\ c # RBracket)
WantsKey(s, c) == s.mode = "nextKey" \/ (s.mode = "firstKey" /\ c # RBrace)
Closing(s, c) == \/ s.mode = "firstItem" /\ c = RBracket
                 \/ s.mode = "firstKey" /\ c = RBrace
                 \/ s.mode = "after" /\ c # Comma

(* A text given up stays so. *)
LEMMA StepDead ==
  ASSUME NEW s \in State, NEW c, s.mode = "dead"
  PROVE  Step(s, c).mode = "dead"
<1> DEFINE t == Mk(s.mode, s.stack, s.pos + 1, s.key, s.from, s.members)
<1>1. Step(s, c) = t
  BY StepBy
<1> QED BY <1>1, MkFields

(* Within a key or string. *)
LEMMA StepText ==
  ASSUME NEW s \in State, NEW c, s.mode \in {"key", "string"}, Step(s, c).mode # "dead"
  PROVE  c # Newline /\ Step(s, c) = TextTo(s, c, s.pos + 1)
<1> DEFINE t == Mk(s.mode, s.stack, s.pos + 1, s.key, s.from, s.members)
           dead == Mk("dead", s.stack, s.pos + 1, s.key, s.from, s.members)
<1>0. dead.mode = "dead"
  BY MkFields
<1>1. Step(s, c) = InString(t, c)
  BY StepBy
<1>2. c # Newline
  <2>1. c = Newline => InString(t, c) = dead
    BY InStringIs, Units
  <2> HIDE DEF t, dead
  <2> QED BY <1>0, <1>1, <2>1
<1>3. InString(t, c) = TextTo(s, c, s.pos + 1)
  BY <1>2, InStringIs DEF TextTo, EndTo
<1> QED BY <1>1, <1>2, <1>3

(* After a backslash in it. *)
LEMMA StepEscape ==
  ASSUME NEW s \in State, NEW c, s.mode \in {"keyEscape", "stringEscape"}, Step(s, c).mode # "dead"
  PROVE  c \in {Quote, Backslash} /\ Step(s, c) = EscapeTo(s, c, s.pos + 1)
<1> DEFINE t == Mk(s.mode, s.stack, s.pos + 1, s.key, s.from, s.members)
<1>1. Step(s, c) = Escaped(t, c)
  BY StepBy
<1>2. c \in {Quote, Backslash}
  BY <1>1, EscapedIs, MkFields
<1> QED BY <1>1, <1>2, EscapedIs DEF EscapeTo

(* Blanks elsewhere. *)
LEMMA StepBlank ==
  ASSUME NEW s \in State, NEW c \in White, s.mode \in Plain
  PROVE  Step(s, c) = BlankTo(s, c, s.pos + 1)
BY StepBy DEF BlankTo, Plain

(* Where a value may begin. *)
LEMMA StepValue ==
  ASSUME NEW s \in State, NEW c, c \notin White, WantsValue(s, c), Step(s, c).mode # "dead"
  PROVE  c \in {Quote} \cup Open \cup Scalars /\ Step(s, c) = ValueTo(s, c, s.pos + 1)
<1> DEFINE t == Mk(s.mode, s.stack, s.pos + 1, s.key, s.from, s.members)
           dead == Mk("dead", s.stack, s.pos + 1, s.key, s.from, s.members)
<1>0. dead.mode = "dead"
  BY MkFields
<1>1. Step(s, c) = Value(t, c)
  BY StepBy DEF WantsValue
<1>2. c \in {Quote} \cup Open \cup Scalars
  <2>1. c \notin {Quote} \cup Open \cup Scalars => Value(t, c) = dead
    BY ValueIs
  <2> HIDE DEF t, dead
  <2> QED BY <1>0, <1>1, <2>1
<1>3. Value(t, c) = ValueTo(s, c, s.pos + 1)
  <2>1. c = Quote => c \notin Open /\ c \notin Scalars
    BY Units, ScalarUnits DEF Open
  <2>2. c \in Open => c \notin Scalars
    BY ScalarUnits DEF Open
  <2> QED BY <1>2, <2>1, <2>2, ValueIs DEF ValueTo, EndTo
<1> QED BY <1>1, <1>2, <1>3

(* Where a key may begin. *)
LEMMA StepKey ==
  ASSUME NEW s \in State, NEW c, c \notin White, WantsKey(s, c), Step(s, c).mode # "dead"
  PROVE  c = Quote /\ Step(s, c) = KeyTo(s, c, s.pos + 1)
<1> DEFINE t == Mk(s.mode, s.stack, s.pos + 1, s.key, s.from, s.members)
<1>1. Step(s, c) = Key(t, c)
  BY StepBy DEF WantsKey
<1>2. c = Quote
  BY <1>1, KeyIs, MkFields
<1> QED BY <1>1, <1>2, KeyIs DEF KeyTo

(* After a key. *)
LEMMA StepColon ==
  ASSUME NEW s \in State, NEW c, c \notin White, s.mode = "colon", Step(s, c).mode # "dead"
  PROVE  c = Colon /\ Step(s, c) = Mk("value", s.stack, s.pos + 1, s.key, s.from, s.members)
<1> DEFINE t == Mk(s.mode, s.stack, s.pos + 1, s.key, s.from, s.members)
<1>1. Step(s, c) = In(t, IF c = Colon THEN "value" ELSE "dead")
  BY StepBy
<1>2. In(t, "dead").mode = "dead"
  BY OneField, MkFields
<1> QED BY <1>1, <1>2, OneField

(* Where a bracket may close. *)
LEMMA StepClose ==
  ASSUME NEW s \in State, NEW c, c \notin White, Closing(s, c), Step(s, c).mode # "dead"
  PROVE  Matches(s.stack, c) /\ Step(s, c) = CloseTo(s, c, s.pos + 1)
<1> DEFINE t == Mk(s.mode, s.stack, s.pos + 1, s.key, s.from, s.members)
           dead == Mk("dead", s.stack, s.pos + 1, s.key, s.from, s.members)
<1>0. dead.mode = "dead"
  BY MkFields
<1>1. CASE s.mode = "after"
  <2>1. Step(s, c) = After(t, c) /\ c # Comma
    BY <1>1, StepBy DEF Closing
  <2>2. After(t, c) = IF Matches(s.stack, c) THEN CloseTo(s, c, s.pos + 1) ELSE dead
    BY <2>1, AfterIs DEF CloseTo, EndTo
  <2> HIDE DEF t, dead
  <2> QED BY <1>0, <2>1, <2>2
<1>2. CASE s.mode # "after"
  <2>1. Step(s, c) = Closed(t, c)
    BY <1>2, StepBy DEF Closing
  <2>2. Closed(t, c) = IF Matches(s.stack, c) THEN CloseTo(s, c, s.pos + 1) ELSE dead
    BY <2>1, ClosedIs DEF CloseTo, EndTo
  <2> HIDE DEF t, dead
  <2> QED BY <1>0, <2>1, <2>2
<1> QED BY <1>1, <1>2

(* After a value, a comma. *)
LEMMA StepComma ==
  ASSUME NEW s \in State, s.mode = "after"
  PROVE  Step(s, Comma) = Mk(NextMode(s.stack), s.stack, s.pos + 1, s.key, s.from, s.members)
<1> DEFINE t == Mk(s.mode, s.stack, s.pos + 1, s.key, s.from, s.members)
<1>1. Step(s, Comma) = After(t, Comma)
  BY StepBy, Units DEF White
<1> DEFINE p == s.pos + 1
<1>2. After(Mk(s.mode, s.stack, p, s.key, s.from, s.members), Comma) = Mk(NextMode(s.stack), s.stack, p, s.key, s.from, s.members)
  <2> HIDE DEF p
  <2> QED BY AfterIs
<1> QED BY <1>1, <1>2

(* After the last value, only blanks. *)
LEMMA StepEnd ==
  ASSUME NEW s \in State, NEW c, s.mode = "end", Step(s, c).mode # "dead"
  PROVE  c \in White
<1> DEFINE t == Mk(s.mode, s.stack, s.pos + 1, s.key, s.from, s.members)
<1> SUFFICES ASSUME c \notin White PROVE FALSE
  OBVIOUS
<1>1. Step(s, c) = In(t, "dead")
  BY StepBy
<1> QED BY <1>1, OneField, MkFields

(* States made of fields of the right kind. *)
LEMMA MkIn ==
  ASSUME NEW m \in Modes, NEW st \in Seq(Open), NEW p \in Int, NEW k \in Seq(STRING),
         NEW f \in Int, NEW ms \in Seq(Entries)
  PROVE  /\ Mk(m, st, p, k, f, ms) \in State
         /\ EndMode(st) \in Modes /\ EndMembers(st, p, k, f, ms) \in Seq(Entries)
         /\ Mk(EndMode(st), st, p, k, f, EndMembers(st, p, k, f, ms)) \in State
<1>1. EndMode(st) \in Modes
  BY DEF EndMode, Modes
<1>2. EndMembers(st, p, k, f, ms) \in Seq(Entries)
  <2>1. [key |-> k, from |-> f, to |-> p] \in Entries
    BY DEF Entries
  <2>2. Append(ms, [key |-> k, from |-> f, to |-> p]) \in Seq(Entries)
    BY <2>1
  <2> QED BY <2>2 DEF EndMembers
<1> QED BY <1>1, <1>2, StateFields

(* A stack without its last bracket. *)
LEMMA FrontIn == ASSUME NEW st \in Seq(Open), st # <<>> PROVE Front(st) \in Seq(Open)
BY DEF Front

(* A step leads to a state. *)
LEMMA StepType ==
  ASSUME NEW s \in State, NEW c \in STRING
  PROVE  Step(s, c) \in State
<1> DEFINE st == s.stack
           p == s.pos + 1
           k == s.key
           f == s.from
           ms == s.members
           t == Mk(s.mode, st, p, k, f, ms)
<1>1. /\ s.mode \in Modes /\ st \in Seq(Open) /\ p \in Int
      /\ k \in Seq(STRING) /\ f \in Int /\ ms \in Seq(Entries)
  BY StateFields
<1>2. Step(s, c) =
           CASE s.mode \in {"key", "string"}             -> InString(t, c)
             [] s.mode \in {"keyEscape", "stringEscape"} -> Escaped(t, c)
             [] s.mode = "dead"                          -> t
             [] OTHER ->
                  IF c \in White THEN t
                  ELSE CASE s.mode = "value"     -> Value(t, c)
                         [] s.mode = "firstItem" -> IF c = RBracket THEN Closed(t, c) ELSE Value(t, c)
                         [] s.mode = "firstKey"  -> IF c = RBrace THEN Closed(t, c) ELSE Key(t, c)
                         [] s.mode = "nextKey"   -> Key(t, c)
                         [] s.mode = "colon"     -> In(t, IF c = Colon THEN "value" ELSE "dead")
                         [] s.mode = "after"     -> After(t, c)
                         [] s.mode = "end"       -> In(t, "dead")
  BY StepBy
<1> DEFINE m == s.mode
<1> HIDE DEF m, st, p, k, f, ms
<1>3. \A x \in Modes, kk \in Seq(STRING), ff \in Int : Mk(x, st, p, kk, ff, ms) \in State
  BY <1>1, MkIn
<1>4. {"dead", "string", "key", "colon", "value", "nextKey", "firstKey", "firstItem",
       "keyEscape", "stringEscape"} \subseteq Modes
  BY DEF Modes
<1>5. Append(k, c) \in Seq(STRING)
  BY <1>1
<1>6. Grown(m, st, k, c) \in Seq(STRING) /\ \A x : Grown(x, st, k, c) \in Seq(STRING)
  BY <1>1, <1>5 DEF Grown
<1>7. \A ff \in Int : Mk(EndMode(st), st, p, k, ff, EndMembers(st, p, k, ff, ms)) \in State
  BY <1>1, MkIn
<1>8. \A x : Matches(st, x) => Mk(EndMode(Front(st)), Front(st), p, k, f, EndMembers(Front(st), p, k, f, ms)) \in State
  BY <1>1, MkIn, FrontIn DEF Matches
<1>9. Closed(t, c) \in State
  BY <1>1, <1>3, <1>4, <1>8, ClosedIs
<1>10. After(t, c) \in State
  <2>1. NextMode(st) \in Modes
    BY <1>4 DEF NextMode
  <2> QED BY <1>1, <1>3, <1>4, <1>8, <2>1, AfterIs
<1>11. Value(t, c) \in State
  <2>1. Began(st, p, f) \in Int
    BY <1>1 DEF Began
  <2>2. c \in Open => Append(st, c) \in Seq(Open)
    BY <1>1
  <2>3. OpenMode(c) \in Modes
    BY <1>4 DEF OpenMode
  <2>4. c \in Open => Mk(OpenMode(c), Append(st, c), p, k, Began(st, p, f), ms) \in State
    BY <1>1, <2>1, <2>2, <2>3, MkIn
  <2>5. Mk("string", st, p, k, Began(st, p, f), ms) \in State
    BY <1>1, <1>3, <1>4, <2>1
  <2>6. Mk(EndMode(st), st, p, k, Began(st, p, f), EndMembers(st, p, k, Began(st, p, f), ms)) \in State
    BY <1>7, <2>1
  <2>7. Mk("dead", st, p, k, f, ms) \in State
    BY <1>1, <1>3, <1>4
  <2>8. c = Quote => c \notin Open /\ c \notin Scalars
    BY Units, ScalarUnits DEF Open
  <2>9. c \in Open => c \notin Scalars
    BY ScalarUnits DEF Open
  <2> QED BY <2>4, <2>5, <2>6, <2>7, <2>8, <2>9, ValueIs
<1>12. Key(t, c) \in State
  <2>1. Cleared(st, k) \in Seq(STRING)
    <3>1. <<>> \in Seq(STRING)
      OBVIOUS
    <3> QED BY <1>1, <3>1 DEF Cleared
  <2> QED BY <1>1, <1>3, <1>4, <2>1, KeyIs
<1>13. m \in {"key", "string"} => InString(t, c) \in State
  <2> SUFFICES ASSUME m \in {"key", "string"} PROVE InString(t, c) \in State
    OBVIOUS
  <2>1. EscapeMode(m) \in Modes /\ m \in Modes
    BY <1>4 DEF EscapeMode
  <2>2. InString(t, c)
           = CASE c = Newline   -> Mk("dead", st, p, k, f, ms)
               [] c = Backslash -> Mk(EscapeMode(m), st, p, Grown(m, st, k, c), f, ms)
               [] c = Quote     -> IF m = "key" THEN Mk("colon", st, p, k, f, ms)
                                   ELSE Mk(EndMode(st), st, p, k, f, EndMembers(st, p, k, f, ms))
               [] OTHER         -> Mk(m, st, p, Grown(m, st, k, c), f, ms)
    BY InStringIs DEF m
  <2> QED BY <1>1, <1>3, <1>4, <1>6, <1>7, <2>1, <2>2, Units
<1>14. m \in {"keyEscape", "stringEscape"} => Escaped(t, c) \in State
  <2> SUFFICES ASSUME m \in {"keyEscape", "stringEscape"} PROVE Escaped(t, c) \in State
    OBVIOUS
  <2>1. Escaped(t, c)
           = IF c \in {Quote, Backslash}
               THEN Mk(IF m = "keyEscape" THEN "key" ELSE "string", st, p, Grown(m, st, k, c), f, ms)
               ELSE Mk("dead", st, p, k, f, ms)
    BY EscapedIs DEF m
  <2>2. (IF m = "keyEscape" THEN "key" ELSE "string") \in Modes
    BY <1>4
  <2> QED BY <1>1, <1>3, <1>4, <1>6, <2>1, <2>2
<1>15. t \in State /\ In(t, "dead") \in State /\ In(t, "value") \in State
  BY <1>1, <1>3, <1>4, OneField DEF m
<1>16. m \in Modes
  BY <1>1 DEF m
<1> QED
  BY <1>2, <1>9, <1>10, <1>11, <1>12, <1>13, <1>14, <1>15, <1>16 DEF m, Modes
-----------------------------------------------------------------------------
(***************************************************************************)
(* Runs of the automaton over a text.                                      *)
(***************************************************************************)
Text == Seq(STRING)

Runs(R, s, b) ==
  /\ R \in [0..Len(b) -> State]
  /\ R[0] = s
  /\ \A i \in 1..Len(b) : R[i] = Step(R[i - 1], b[i])

(* There is a run over every text, and Read is where it ends. *)
LEMMA RunExists ==
  ASSUME NEW s \in State, NEW b \in Text
  PROVE  \E R : Runs(R, s, b) /\ Read(s, b) = R[Len(b)]
<1> DEFINE S == 0..Len(b)
           left == [i \in S |-> i]
           val == [i \in S |-> s]
           next == [i \in S |-> IF i = 0 THEN 0 ELSE i - 1]
           join == [i \in S |-> [v \in State |-> IF i = 0 THEN v ELSE Step(v, b[i])]]
           F(g) == [i \in 0..Len(b) |-> IF i = 0 THEN s ELSE Step(g[i - 1], b[i])]
<1>1. \E g \in [S -> State] : \A x \in S : g[x] = IF x \in {0} THEN val[x] ELSE join[x][g[next[x]]]
  <2>1. join \in [S -> [State -> State]]
    <3>1. ASSUME NEW i \in S, NEW v \in State PROVE (IF i = 0 THEN v ELSE Step(v, b[i])) \in State
      <4>1. i # 0 => b[i] \in STRING
        BY DEF Text
      <4> QED BY <4>1, StepType
    <3> QED BY <3>1
  <2>2. left \in [S -> 0..Len(b)] /\ val \in [S -> State] /\ next \in [S -> S] /\ {0} \in SUBSET S /\ Len(b) \in Nat
    BY DEF Text
  <2>3. \A x \in S \ {0} : left[next[x]] < left[x]
    OBVIOUS
  <2> HIDE DEF left, val, next, join, S
  <2> DEFINE zero == {0}
  <2>4. zero \in SUBSET S /\ \A x \in S \ zero : left[next[x]] < left[x]
    BY <2>2, <2>3
  <2> HIDE DEF zero
  <2>5. \E g \in [S -> State] : \A x \in S : g[x] = IF x \in zero THEN val[x] ELSE join[x][g[next[x]]]
    <3> DEFINE N == Len(b)
    <3>1. N \in Nat /\ left \in [S -> 0..N] /\ val \in [S -> State] /\ next \in [S -> S]
      BY <2>2
    <3> HIDE DEF N
    <3>2. Shrinks(S, State, N, left, zero, val, next, join)
      BY <2>1, <2>4, <3>1 DEF Shrinks
    <3> QED BY <3>2, Recursion
  <2> QED BY <2>5 DEF zero
<1>2. PICK g \in [S -> State] : \A x \in S : g[x] = IF x \in {0} THEN val[x] ELSE join[x][g[next[x]]]
  BY <1>1
<1>3. g = F(g)
  <2>1. ASSUME NEW i \in S PROVE g[i] = IF i = 0 THEN s ELSE Step(g[i - 1], b[i])
    <3>1. CASE i = 0
      BY <1>2, <3>1
    <3>2. CASE i # 0
      <4>1. next[i] = i - 1 /\ i - 1 \in S
        BY <3>2
      <4>2. g[i - 1] \in State
        BY <1>2, <4>1
      <4>3. join[i][g[i - 1]] = Step(g[i - 1], b[i])
        BY <3>2, <4>2
      <4> HIDE DEF join, next, val
      <4> QED BY <1>2, <3>2, <4>1, <4>3
    <3> QED BY <3>1, <3>2
  <2> QED BY <2>1
<1> DEFINE read == CHOOSE h : h = F(h)
<1>4. read = F(read)
  BY <1>3
<1>5. Read(s, b) = read[Len(b)]
  BY DEF Read
<1> HIDE DEF read
<1>6. \A i \in S : read[i] = IF i = 0 THEN s ELSE Step(read[i - 1], b[i])
  BY <1>4
<1>7. Len(b) \in Nat
  BY DEF Text
<1>8. DOMAIN read = S /\ read = [i \in S |-> read[i]]
  BY <1>4
<1>9. read \in [S -> State]
  <2> DEFINE Bad == {i \in S : read[i] \notin State}
  <2> SUFFICES ASSUME Bad # {} PROVE FALSE
    BY <1>8
  <2>1. PICK n \in Bad : \A m \in Bad : n <= m
    <3>1. Bad \in SUBSET Nat
      OBVIOUS
    <3> HIDE DEF Bad
    <3> QED BY <3>1, LeastNumber
  <2>2. n \in S /\ n # 0 /\ n - 1 \in S /\ n - 1 \notin Bad
    <3>1. n \in S /\ n # 0
      BY <1>6, <2>1
    <3>2. n - 1 \in S /\ ~(n <= n - 1)
      BY <3>1
    <3> HIDE DEF Bad
    <3> QED BY <2>1, <3>1, <3>2
  <2>3. b[n] \in STRING /\ read[n - 1] \in State /\ read[n] = Step(read[n - 1], b[n])
    BY <1>6, <1>7, <2>2 DEF Text
  <2> QED BY <2>1, <2>3, StepType
<1> QED BY SMTT(30), <1>5, <1>6, <1>7, <1>9 DEF Runs

(* There is only one. *)
LEMMA RunUnique ==
  ASSUME NEW s \in State, NEW b \in Text, NEW R, NEW Q, Runs(R, s, b), Runs(Q, s, b)
  PROVE  \A i \in 0..Len(b) : R[i] = Q[i]
<1> DEFINE Bad == {i \in 0..Len(b) : R[i] # Q[i]}
<1> SUFFICES ASSUME Bad # {} PROVE FALSE
  OBVIOUS
<1>1. PICK n \in Bad : \A m \in Bad : n <= m
  <2>1. Bad \in SUBSET Nat
    OBVIOUS
  <2> HIDE DEF Bad
  <2> QED BY <2>1, LeastNumber
<1>2. n \in 0..Len(b) /\ R[n] # Q[n] /\ n # 0
  BY <1>1 DEF Runs
<1>3. n - 1 \notin Bad
  <2>1. ~(n <= n - 1)
    BY <1>2
  <2> HIDE DEF Bad
  <2> QED BY <1>1, <2>1
<1>4. n \in 1..Len(b) /\ n - 1 \in 0..Len(b)
  BY <1>2 DEF Text
<1>5. R[n - 1] = Q[n - 1]
  BY <1>3, <1>4
<1> QED BY <1>2, <1>4, <1>5 DEF Runs

(* Read is where any run ends. *)
LEMMA ReadRun ==
  ASSUME NEW s \in State, NEW b \in Text, NEW R, Runs(R, s, b)
  PROVE  Read(s, b) = R[Len(b)] /\ Read(s, b) \in State
<1>1. PICK Q : Runs(Q, s, b) /\ Read(s, b) = Q[Len(b)]
  BY RunExists
<1>2. Len(b) \in 0..Len(b)
  BY DEF Text
<1>3. R[Len(b)] = Q[Len(b)]
  BY <1>1, <1>2, RunUnique
<1>4. R[Len(b)] \in State
  BY <1>2 DEF Runs
<1> QED BY <1>1, <1>3, <1>4

(***************************************************************************)
(* Part of a run is the run over that part.                                *)
(***************************************************************************)
LEMMA ReadPart ==
  ASSUME NEW s \in State, NEW b \in Text, NEW R, Runs(R, s, b),
         NEW i \in 1..(Len(b) + 1), NEW j \in (i - 1)..Len(b)
  PROVE  /\ SubSeq(b, i, j) \in Text /\ R[i - 1] \in State
         /\ Runs([k \in 0..(j + 1 - i) |-> R[i - 1 + k]], R[i - 1], SubSeq(b, i, j))
         /\ Read(R[i - 1], SubSeq(b, i, j)) = R[j]
<1> DEFINE c == SubSeq(b, i, j)
           Q == [k \in 0..(j + 1 - i) |-> R[i - 1 + k]]
<1>1. c \in Text /\ Len(c) = j + 1 - i /\ \A k \in 1..(j + 1 - i) : c[k] = b[i - 1 + k]
  <2>1. Len(b) \in Nat
    BY DEF Text
  <2>2. CASE j = i - 1
    BY <2>1, <2>2 DEF Text
  <2>3. CASE j >= i
    BY <2>1, <2>3, SMT DEF Text
  <2> QED BY <2>1, <2>2, <2>3
<1>2. R[i - 1] \in State
  BY DEF Runs
<1> HIDE DEF c
<1>3. Runs(Q, R[i - 1], c)
  <2>1. Q \in [0..Len(c) -> State]
    <3>1. ASSUME NEW k \in 0..Len(c) PROVE i - 1 + k \in 0..Len(b) /\ k \in 0..(j + 1 - i)
      BY <1>1 DEF Text
    <3>2. Len(c) = j + 1 - i
      BY <1>1
    <3>3. R \in [0..Len(b) -> State]
      BY DEF Runs
    <3> QED BY <3>1, <3>2, <3>3
  <2>2. ASSUME NEW k \in 1..Len(c) PROVE Q[k] = Step(Q[k - 1], c[k])
    <3>1. Q[k] = R[i - 1 + k] /\ Q[k - 1] = R[i - 1 + k - 1] /\ c[k] = b[i - 1 + k]
      BY <1>1
    <3>2. i - 1 + k \in 1..Len(b)
      BY <1>1 DEF Text
    <3> QED BY SMTT(30), <3>1, <3>2 DEF Runs
  <2>3. Q[0] = R[i - 1]
    BY <1>1 DEF Text
  <2> QED BY <2>1, <2>2, <2>3 DEF Runs
<1>4. Read(R[i - 1], c) = Q[Len(c)]
  BY <1>1, <1>2, <1>3, ReadRun
<1>5. Q[Len(c)] = R[j]
  BY <1>1 DEF Text
<1> QED BY <1>1, <1>2, <1>3, <1>4, <1>5 DEF c

(* A text in two parts is read one after the other. *)
LEMMA ReadConcat ==
  ASSUME NEW s \in State, NEW a \in Text, NEW b \in Text
  PROVE  /\ Read(s, a) \in State
         /\ Read(s, a \o b) = Read(Read(s, a), b)
<1>1. a \o b \in Text /\ Len(a \o b) = Len(a) + Len(b) /\ Len(a) \in Nat /\ Len(b) \in Nat
  BY DEF Text
<1>2. PICK R : Runs(R, s, a \o b) /\ Read(s, a \o b) = R[Len(a \o b)]
  BY <1>1, RunExists
<1>3. SubSeq(a \o b, 1, Len(a)) = a /\ SubSeq(a \o b, Len(a) + 1, Len(a \o b)) = b
  BY <1>1 DEF Text
<1>4. R[0] = s
  BY <1>2 DEF Runs
<1>5. R[0] \in State /\ Read(R[0], SubSeq(a \o b, 1, Len(a))) = R[Len(a)]
  <2> DEFINE n == 1
  <2>1. n - 1 = 0 /\ n \in 1..(Len(a \o b) + 1) /\ Len(a) \in (n - 1)..Len(a \o b)
    BY <1>1
  <2> HIDE DEF n
  <2>2. R[n - 1] \in State /\ Read(R[n - 1], SubSeq(a \o b, n, Len(a))) = R[Len(a)]
    BY ZenonT(40), <1>1, <1>2, <2>1, ReadPart
  <2> QED BY <2>1, <2>2 DEF n
<1>6. R[Len(a)] \in State /\ Read(R[Len(a)], SubSeq(a \o b, Len(a) + 1, Len(a \o b))) = R[Len(a \o b)]
  <2> DEFINE n == Len(a) + 1
             l == Len(a \o b)
  <2>1. n - 1 = Len(a) /\ n \in 1..(l + 1) /\ l \in (n - 1)..l
    BY <1>1
  <2> HIDE DEF n
  <2>2. R[n - 1] \in State /\ Read(R[n - 1], SubSeq(a \o b, n, l)) = R[l]
    BY <1>1, <1>2, <2>1, ReadPart
  <2> QED BY <2>1, <2>2 DEF n
<1> QED BY <1>2, <1>3, <1>4, <1>5, <1>6

(***************************************************************************)
(* The recursions of the scanner: each goes on from a later position until *)
(* it stops, at the end of the text if not before.                         *)
(***************************************************************************)
Advances(n, stop, val, next) ==
  /\ n \in Nat
  /\ stop \in SUBSET Nat /\ val \in [Nat -> Nat] /\ next \in [Nat -> Nat]
  /\ \A k \in Nat : k \notin stop => k <= n /\ next[k] > k

(* Such a recursion has a solution. *)
LEMMA ScanRecursion ==
  ASSUME NEW n, NEW stop, NEW val, NEW next, Advances(n, stop, val, next)
  PROVE  \E g \in [Nat -> Nat] : \A k \in Nat : g[k] = IF k \in stop THEN val[k] ELSE g[next[k]]
<1> DEFINE N == n + 1
           left == [k \in Nat |-> IF k > n THEN 0 ELSE N - k]
           join == [k \in Nat |-> [v \in Nat |-> v]]
<1>0. n \in Nat /\ N \in Nat
  BY DEF Advances
<1>1. left \in [Nat -> 0..N]
  <2>1. \A k \in Nat : (IF k > n THEN 0 ELSE N - k) \in 0..N
    BY <1>0
  <2> QED BY <2>1
<1>2. \A k \in Nat \ stop : left[next[k]] < left[k]
  <2> TAKE k \in Nat \ stop
  <2>1. k \in Nat /\ next[k] \in Nat /\ k <= n /\ next[k] > k
    BY DEF Advances
  <2> QED BY <1>0, <2>1
<1>3. join \in [Nat -> [Nat -> Nat]]
  OBVIOUS
<1>4. \A k \in Nat, v \in Nat : join[k][v] = v
  OBVIOUS
<1> HIDE DEF N, left, join
<1>5. Shrinks(Nat, Nat, N, left, stop, val, next, join)
  BY <1>0, <1>1, <1>2, <1>3 DEF Shrinks, Advances
<1>6. PICK g \in [Nat -> Nat] : \A x \in Nat : g[x] = IF x \in stop THEN val[x] ELSE join[x][g[next[x]]]
  <2> DEFINE S == Nat
             V == Nat
  <2>1. Shrinks(S, V, N, left, stop, val, next, join)
    BY <1>5
  <2> HIDE DEF S, V
  <2>2. \E g \in [S -> V] : \A x \in S : g[x] = IF x \in stop THEN val[x] ELSE join[x][g[next[x]]]
    BY <2>1, Recursion
  <2> QED BY <2>2 DEF S, V
<1>7. ASSUME NEW k \in Nat PROVE g[k] = IF k \in stop THEN val[k] ELSE g[next[k]]
  <2>1. next[k] \in Nat
    BY DEF Advances
  <2>2. g[next[k]] \in Nat
    BY <2>1
  <2> QED BY <1>4, <1>6, <2>2
<1> QED BY <1>7

(***************************************************************************)
(* What holds of a position if it holds of all later ones holds of all, if *)
(* it holds beyond the end.                                                *)
(***************************************************************************)
LEMMA Backwards ==
  ASSUME NEW n \in Nat, NEW P,
         \A k \in Nat : (k <= n => \A m \in Nat : m > k => m \in P) => k \in P
  PROVE  \A k \in Nat : k \in P
<1> DEFINE Bad == {d \in Nat : \E k \in Nat : k <= n /\ d = n - k /\ k \notin P}
<1>1. \A k \in Nat : k > n => k \in P
  OBVIOUS
<1>2. Bad = {}
  <2> SUFFICES ASSUME Bad # {} PROVE FALSE
    OBVIOUS
  <2>1. PICK d \in Bad : \A e \in Bad : d <= e
    <3>1. Bad \in SUBSET Nat
      OBVIOUS
    <3> HIDE DEF Bad
    <3> QED BY <3>1, LeastNumber
  <2>2. PICK k \in Nat : k <= n /\ d = n - k /\ k \notin P
    BY <2>1
  <2>3. \A m \in Nat : m > k => m \in P
    <3> TAKE m \in Nat
    <3> SUFFICES ASSUME m > k, m \notin P PROVE FALSE
      OBVIOUS
    <3>1. m <= n
      BY <1>1
    <3>2. n - m \in Bad
      BY <3>1
    <3>3. ~(d <= n - m)
      BY <2>2
    <3> HIDE DEF Bad
    <3> QED BY <2>1, <3>2, <3>3
  <2> QED BY <2>2, <2>3
<1>3. \A k \in Nat : k <= n => k \in P
  <2> TAKE k \in Nat
  <2> SUFFICES ASSUME k <= n, k \notin P PROVE FALSE
    OBVIOUS
  <2>1. n - k \in Bad
    OBVIOUS
  <2> QED BY <1>2, <2>1
<1> QED BY <1>1, <1>3

(* SkipWs is such a recursion. *)
LEMMA SkipWsScan ==
  ASSUME NEW b \in Text
  PROVE  \A k \in Nat : SkipWs(b, k) = IF k <= Len(b) /\ b[k] \in White THEN SkipWs(b, k + 1) ELSE k
<1> DEFINE F(g) == [i \in Nat |-> IF i <= Len(b) /\ b[i] \in White THEN g[i + 1] ELSE i]
           stop == {i \in Nat : ~(i <= Len(b) /\ b[i] \in White)}
           val == [i \in Nat |-> i]
           next == [i \in Nat |-> i + 1]
<1>1. PICK g \in [Nat -> Nat] : \A i \in Nat : g[i] = IF i \in stop THEN val[i] ELSE g[next[i]]
  <2> DEFINE n == Len(b)
  <2>1. Advances(n, stop, val, next)
    <3>1. \A k \in Nat : k \notin stop => k <= n /\ next[k] > k
      OBVIOUS
    <3>2. n \in Nat
      BY DEF Text
    <3> QED BY <3>1, <3>2 DEF Advances
  <2> HIDE DEF n, stop, val, next
  <2> QED BY <2>1, ScanRecursion
<1>2. g = F(g)
  BY <1>1
<1> DEFINE scan == CHOOSE h : h = F(h)
<1>3. scan = F(scan)
  BY <1>2
<1>4. \A i : SkipWs(b, i) = scan[i]
  BY DEF SkipWs
<1> HIDE DEF scan
<1>6. \A k \in Nat : scan[k] = IF k <= Len(b) /\ b[k] \in White THEN scan[k + 1] ELSE k
  BY <1>3
<1> TAKE k \in Nat
<1>7. SkipWs(b, k) = scan[k] /\ SkipWs(b, k + 1) = scan[k + 1]
  BY <1>4
<1> QED BY <1>6, <1>7

(* SkipToken is. *)
LEMMA SkipTokenScan ==
  ASSUME NEW b \in Text
  PROVE  \A k \in Nat : SkipToken(b, k) = IF k <= Len(b) /\ b[k] \notin Delimiters THEN SkipToken(b, k + 1) ELSE k
<1> DEFINE F(g) == [i \in Nat |-> IF i <= Len(b) /\ b[i] \notin Delimiters THEN g[i + 1] ELSE i]
           stop == {i \in Nat : ~(i <= Len(b) /\ b[i] \notin Delimiters)}
           val == [i \in Nat |-> i]
           next == [i \in Nat |-> i + 1]
<1>1. PICK g \in [Nat -> Nat] : \A i \in Nat : g[i] = IF i \in stop THEN val[i] ELSE g[next[i]]
  <2> DEFINE n == Len(b)
  <2>1. Advances(n, stop, val, next)
    <3>1. \A k \in Nat : k \notin stop => k <= n /\ next[k] > k
      OBVIOUS
    <3>2. n \in Nat
      BY DEF Text
    <3> QED BY <3>1, <3>2 DEF Advances
  <2> HIDE DEF n, stop, val, next
  <2> QED BY <2>1, ScanRecursion
<1>2. g = F(g)
  BY <1>1
<1> DEFINE scan == CHOOSE h : h = F(h)
<1>3. scan = F(scan)
  BY <1>2
<1>4. \A i : SkipToken(b, i) = scan[i]
  BY DEF SkipToken
<1> HIDE DEF scan
<1>6. \A k \in Nat : scan[k] = IF k <= Len(b) /\ b[k] \notin Delimiters THEN scan[k + 1] ELSE k
  BY <1>3
<1> TAKE k \in Nat
<1>7. SkipToken(b, k) = scan[k] /\ SkipToken(b, k + 1) = scan[k + 1]
  BY <1>4
<1> QED BY <1>6, <1>7

(***************************************************************************)
(* The rest of a string, from behind its first quote or from inside.       *)
(***************************************************************************)
Rest(b) ==
  CHOOSE scan : scan = [k \in Nat |-> IF k > Len(b) THEN 0
                                      ELSE IF b[k] = Backslash THEN scan[k + 2]
                                      ELSE IF b[k] = Quote THEN k + 1
                                      ELSE scan[k + 1]]

(* The rest of a string, in ParseString, is. *)
LEMMA RestScan ==
  ASSUME NEW b \in Text
  PROVE  /\ \A k \in Nat : Rest(b)[k] = IF k > Len(b) THEN 0
                                        ELSE IF b[k] = Backslash THEN Rest(b)[k + 2]
                                        ELSE IF b[k] = Quote THEN k + 1
                                        ELSE Rest(b)[k + 1]
         /\ \A i : ParseString(b, i) = IF i <= Len(b) /\ b[i] = Quote THEN Rest(b)[i + 1] ELSE 0
<1> DEFINE F(g) == [k \in Nat |-> IF k > Len(b) THEN 0
                                      ELSE IF b[k] = Backslash THEN g[k + 2]
                                      ELSE IF b[k] = Quote THEN k + 1
                                      ELSE g[k + 1]]
           stop == {k \in Nat : k > Len(b) \/ b[k] = Quote}
           val == [k \in Nat |-> IF k > Len(b) THEN 0 ELSE k + 1]
           next == [k \in Nat |-> IF k <= Len(b) /\ b[k] = Backslash THEN k + 2 ELSE k + 1]
<1>1. PICK g \in [Nat -> Nat] : \A i \in Nat : g[i] = IF i \in stop THEN val[i] ELSE g[next[i]]
  <2> DEFINE n == Len(b)
  <2>1. Advances(n, stop, val, next)
    <3>2. n \in Nat
      BY DEF Text
    <3>1. \A k \in Nat : k \notin stop => k <= n /\ next[k] > k
      BY <3>2
    <3> QED BY <3>1, <3>2 DEF Advances
  <2> HIDE DEF n, stop, val, next
  <2> QED BY <2>1, ScanRecursion
<1>0. Len(b) \in Nat
  BY DEF Text
<1>2. g = F(g)
  <2>1. \A k \in Nat : g[k] = IF k > Len(b) THEN 0
                                      ELSE IF b[k] = Backslash THEN g[k + 2]
                                      ELSE IF b[k] = Quote THEN k + 1
                                      ELSE g[k + 1]
    <3> TAKE k \in Nat
    <3>1. g[k] = IF k \in stop THEN val[k] ELSE g[next[k]]
      BY <1>1
    <3>2. CASE k > Len(b)
      BY <3>1, <3>2
    <3>3. CASE k <= Len(b) /\ b[k] = Backslash
      <4>1. k \notin stop /\ next[k] = k + 2
        BY SMTT(30), <1>0, <3>3, Units
      <4> QED BY <1>0, <3>1, <3>3, <4>1
    <3>4. CASE k <= Len(b) /\ b[k] # Backslash
      <4>1. b[k] # Quote => k \notin stop
        BY SMTT(30), <1>0, <3>4
      <4>2. next[k] = k + 1
        BY <1>0, <3>4
      <4>3. b[k] = Quote => k \in stop /\ val[k] = k + 1
        BY <1>0, <3>4
      <4> HIDE DEF stop, next, val
      <4>4. CASE b[k] = Quote
        BY <1>0, <3>1, <3>4, <4>3, <4>4
      <4>5. CASE b[k] # Quote
        BY <1>0, <3>1, <3>4, <4>1, <4>2, <4>5
      <4> QED BY <4>4, <4>5
    <3>5. k > Len(b) \/ (k <= Len(b) /\ b[k] = Backslash) \/ (k <= Len(b) /\ b[k] # Backslash)
      BY SMTT(30), <1>0
    <3> QED BY <3>2, <3>3, <3>4, <3>5
  <2> QED BY <2>1
<1>3. Rest(b) = F(Rest(b))
  BY <1>2 DEF Rest
<1>4. \A i : ParseString(b, i) = IF i <= Len(b) /\ b[i] = Quote THEN Rest(b)[i + 1] ELSE 0
  BY DEF ParseString, Rest
<1>5. \A k \in Nat : Rest(b)[k] = F(Rest(b))[k]
  BY <1>3
<1> QED BY <1>4, <1>5

(* The rest of a string goes forward. *)
LEMMA RestAdvances ==
  ASSUME NEW b \in Text
  PROVE  \A k \in Nat : Rest(b)[k] \in Nat /\ (Rest(b)[k] = 0 \/ Rest(b)[k] > k)
<1> DEFINE n == Len(b)
           P == {k \in Nat : Rest(b)[k] \in Nat /\ (Rest(b)[k] = 0 \/ Rest(b)[k] > k)}
<1>1. n \in Nat
  BY DEF Text
<1>2. ASSUME NEW k \in Nat, k <= n => \A m \in Nat : m > k => m \in P PROVE k \in P
  <2>1. CASE k > n
    BY <1>1, <2>1, RestScan
  <2>2. CASE k <= n /\ b[k] = Backslash
    <3>1. Rest(b)[k] = Rest(b)[k + 2]
      BY <1>1, <2>2, RestScan
    <3>2. k + 2 \in P
      BY <1>2, <2>2
    <3> QED BY <3>1, <3>2
  <2>3. CASE k <= n /\ b[k] # Backslash /\ b[k] = Quote
    BY <1>1, <2>3, RestScan
  <2>4. CASE k <= n /\ b[k] # Backslash /\ b[k] # Quote
    <3>1. Rest(b)[k] = Rest(b)[k + 1]
      BY <1>1, <2>4, RestScan
    <3>2. k + 1 \in P
      BY <1>2, <2>4
    <3> QED BY <3>1, <3>2
  <2> QED BY <1>1, <2>1, <2>2, <2>3, <2>4
<1> HIDE DEF n, P
<1>3. \A k \in Nat : k \in P
  BY <1>1, <1>2, Backwards
<1> QED BY <1>3 DEF P

(***************************************************************************)
(* The rest of a value in brackets.                                        *)
(***************************************************************************)
NestBody(g, b, close, k, d) ==
  IF k > Len(b) THEN 0
  ELSE CASE b[k] = Quote ->
              IF ParseString(b, k) = 0 THEN 0 ELSE g[<<ParseString(b, k), d>>]
         [] b[k] \in Open  -> g[<<k + 1, d + 1>>]
         [] b[k] \in Close -> IF b[k] = close /\ d = 1 THEN k + 1 ELSE g[<<k + 1, d - 1>>]
         [] OTHER          -> g[<<k + 1, d>>]

Nest(b, close) ==
  CHOOSE scan : scan = [p \in Nat \X Int |-> NestBody(scan, b, close, p[1], p[2])]

Nested(g, b, close, k, d) ==
  /\ k > Len(b) => g[<<k, d>>] = 0
  /\ k <= Len(b) =>
       /\ b[k] = Quote =>
            g[<<k, d>>] = IF ParseString(b, k) = 0 THEN 0 ELSE g[<<ParseString(b, k), d>>]
       /\ b[k] \in Open => g[<<k, d>>] = g[<<k + 1, d + 1>>]
       /\ b[k] \in Close =>
            g[<<k, d>>] = IF b[k] = close /\ d = 1 THEN k + 1 ELSE g[<<k + 1, d - 1>>]
       /\ b[k] \notin {Quote} \cup Open \cup Close => g[<<k, d>>] = g[<<k + 1, d>>]

(* Quotes, brackets and blanks are different units. *)
LEMMA Brackets ==
  /\ Quote \notin Open /\ Quote \notin Close /\ Open \cap Close = {}
  /\ Quote \notin White /\ Open \cap White = {} /\ Close \cap White = {}
BY Units DEF Open, Close, White

(* SkipBrackets is a recursion over position and depth. *)
LEMMA NestScan ==
  ASSUME NEW b \in Text, NEW close
  PROVE  /\ \A k \in Nat, d \in Int : Nested(Nest(b, close), b, close, k, d)
         /\ \A i : SkipBrackets(b, i, close) = Nest(b, close)[<<i, 1>>]
<1> DEFINE n == Len(b)
           S == Nat \X Int
           PS(k) == ParseString(b, k)
           F(g) == [p \in Nat \X Int |-> NestBody(g, b, close, p[1], p[2])]
           Over(k) == k > n
           Inside(k) == ~Over(k) /\ b[k] = Quote
           Last1(k, d) == ~Over(k) /\ b[k] \in Close /\ b[k] = close /\ d = 1
           stop == {p \in S : Over(p[1]) \/ (Inside(p[1]) /\ PS(p[1]) = 0) \/ Last1(p[1], p[2])}
           val == [p \in S |-> IF Last1(p[1], p[2]) THEN p[1] + 1 ELSE 0]
           To(k) == IF Inside(k) THEN PS(k) ELSE k + 1
           Depth(k, d) == IF ~Over(k) /\ b[k] \in Open THEN d + 1
                          ELSE IF ~Over(k) /\ b[k] \in Close THEN d - 1 ELSE d
           next == [p \in S |-> <<To(p[1]), Depth(p[1], p[2])>>]
           left == [p \in S |-> IF Over(p[1]) THEN 0 ELSE n + 1 - p[1]]
           join == [p \in S |-> [v \in Nat |-> v]]
<1>1. n \in Nat
  BY DEF Text
<1>2. \A k \in Nat : PS(k) \in Nat /\ (PS(k) = 0 \/ PS(k) > k)
  <2> TAKE k \in Nat
  <2>1. k + 1 \in Nat /\ PS(k) = IF k <= Len(b) /\ b[k] = Quote THEN Rest(b)[k + 1] ELSE 0
    BY RestScan
  <2>2. Rest(b)[k + 1] \in Nat /\ (Rest(b)[k + 1] = 0 \/ Rest(b)[k + 1] > k + 1)
    BY <2>1, RestAdvances
  <2> HIDE DEF PS
  <2> QED BY <2>1, <2>2
<1> HIDE DEF PS, n
<1>3. \A k \in Nat : To(k) \in Nat /\ ((Inside(k) /\ PS(k) = 0) \/ To(k) > k)
  BY <1>1, <1>2
<1>4. \A k \in Nat, d \in Int : Depth(k, d) \in Int
  OBVIOUS
<1> HIDE DEF To, Depth
<1>5. next \in [S -> S]
  BY <1>3, <1>4
<1>6. left \in [S -> 0..(n + 1)]
  <2>1. \A p \in S : p[1] \in Nat /\ (IF Over(p[1]) THEN 0 ELSE n + 1 - p[1]) \in 0..(n + 1)
    BY <1>1
  <2> QED BY <2>1
<1>7. \A p \in S \ stop : left[next[p]] < left[p]
  <2> TAKE p \in S \ stop
  <2>1. next[p][1] = To(p[1]) /\ next[p] \in S /\ p[1] \in Nat /\ To(p[1]) \in Nat
    BY <1>3, <1>5
  <2>2. ~Over(p[1]) /\ To(p[1]) > p[1]
    BY <1>3, <2>1
  <2>3. left[p] = n + 1 - p[1] /\ left[p] >= 1
    BY <1>1, <2>1, <2>2
  <2>4. left[next[p]] = IF Over(To(p[1])) THEN 0 ELSE n + 1 - To(p[1])
    BY <2>1
  <2> HIDE DEF left, next
  <2> QED BY <1>1, <2>1, <2>2, <2>3, <2>4
<1>8. val \in [S -> Nat] /\ stop \in SUBSET S /\ join \in [S -> [Nat -> Nat]]
  <2>1. \A p \in S : p[1] \in Nat /\ (IF Last1(p[1], p[2]) THEN p[1] + 1 ELSE 0) \in Nat
    OBVIOUS
  <2> QED BY <2>1
<1>9. \A p \in S, v \in Nat : join[p][v] = v
  OBVIOUS
<1>10. PICK g \in [S -> Nat] : \A p \in S : g[p] = IF p \in stop THEN val[p] ELSE g[next[p]]
  <2> HIDE DEF S, stop, val, next, left, join
  <2> DEFINE V == Nat
             N == n + 1
  <2>1. N \in Nat
    BY <1>1
  <2>2. Shrinks(S, V, N, left, stop, val, next, join)
    BY <1>5, <1>6, <1>7, <1>8, <2>1 DEF Shrinks
  <2> HIDE DEF V, N
  <2>3. PICK g \in [S -> V] : \A p \in S : g[p] = IF p \in stop THEN val[p] ELSE join[p][g[next[p]]]
    BY <2>2, Recursion
  <2>4. ASSUME NEW p \in S PROVE g[p] = IF p \in stop THEN val[p] ELSE g[next[p]]
    <3>1. next[p] \in S
      BY <1>5
    <3>2. g[next[p]] \in Nat
      BY <3>1 DEF V
    <3> QED BY <1>9, <2>3, <3>2
  <2> QED BY <2>4 DEF V
<1>11. ASSUME NEW k \in Nat, NEW d \in Int PROVE Nested(g, b, close, k, d)
  <2> DEFINE p == <<k, d>>
  <2>1. p \in S /\ p[1] = k /\ p[2] = d
    OBVIOUS
  <2>2. g[p] = IF p \in stop THEN val[p] ELSE g[next[p]]
    BY <1>10, <2>1
  <2>3. p \in stop <=> Over(k) \/ (Inside(k) /\ PS(k) = 0) \/ Last1(k, d)
    BY <2>1
  <2>4. val[p] = (IF Last1(k, d) THEN k + 1 ELSE 0) /\ next[p] = <<To(k), Depth(k, d)>>
    BY <2>1
  <2> HIDE DEF p, stop, val, next
  <2>5. ASSUME k > n PROVE g[p] = 0
    BY <1>1, <2>2, <2>3, <2>4, <2>5
  <2>6. ASSUME k <= n, b[k] = Quote PROVE g[p] = IF PS(k) = 0 THEN 0 ELSE g[<<PS(k), d>>]
    <3>1. ~Over(k) /\ Inside(k) /\ ~Last1(k, d) /\ To(k) = PS(k) /\ Depth(k, d) = d
      BY <1>1, <2>6, Brackets DEF To, Depth
    <3> QED BY <2>2, <2>3, <2>4, <3>1
  <2>7. ASSUME k <= n, b[k] \in Open PROVE g[p] = g[<<k + 1, d + 1>>]
    <3>1. ~Over(k) /\ ~Inside(k) /\ ~Last1(k, d) /\ To(k) = k + 1 /\ Depth(k, d) = d + 1
      BY <1>1, <2>7, Brackets DEF To, Depth
    <3> QED BY <2>2, <2>3, <2>4, <3>1
  <2>8. ASSUME k <= n, b[k] \in Close
        PROVE  g[p] = IF b[k] = close /\ d = 1 THEN k + 1 ELSE g[<<k + 1, d - 1>>]
    <3>1. ~Over(k) /\ ~Inside(k) /\ To(k) = k + 1 /\ Depth(k, d) = d - 1
      BY <1>1, <2>8, Brackets DEF To, Depth
    <3>2. CASE b[k] = close /\ d = 1
      <4>1. Last1(k, d)
        BY <2>8, <3>1, <3>2
      <4> QED BY <2>2, <2>3, <2>4, <3>2, <4>1
    <3>3. CASE ~(b[k] = close /\ d = 1)
      <4>1. ~Last1(k, d)
        BY <3>3
      <4> QED BY <2>2, <2>3, <2>4, <3>1, <3>3, <4>1
    <3> QED BY <3>2, <3>3
  <2>9. ASSUME k <= n, b[k] \notin {Quote} \cup Open \cup Close PROVE g[p] = g[<<k + 1, d>>]
    <3>1. ~Over(k) /\ ~Inside(k) /\ ~Last1(k, d) /\ To(k) = k + 1 /\ Depth(k, d) = d
      BY <1>1, <2>9, Brackets DEF To, Depth
    <3> QED BY <2>2, <2>3, <2>4, <3>1
  <2> QED BY <2>5, <2>6, <2>7, <2>8, <2>9 DEF Nested, n, p, PS
<1>12. g = F(g)
  <2>1. ASSUME NEW p \in Nat \X Int PROVE g[p] = F(g)[p]
    <3>1. PICK k \in Nat, d \in Int : p = <<k, d>> /\ p[1] = k /\ p[2] = d
      OBVIOUS
    <3>2. F(g)[p] = NestBody(g, b, close, k, d)
      BY <3>1
    <3>3. Nested(g, b, close, k, d)
      BY <1>11
    <3> HIDE DEF F
    <3>4. CASE k > Len(b)
      BY <3>1, <3>2, <3>3, <3>4 DEF Nested, NestBody
    <3>5. CASE ~(k > Len(b))
      <4>1. k <= Len(b)
        BY <1>1, <3>5 DEF n
      <4> QED BY <3>1, <3>2, <3>3, <3>5, <4>1, Brackets DEF Nested, NestBody
    <3> QED BY <3>4, <3>5
  <2>2. g = [p \in Nat \X Int |-> g[p]]
    BY DEF S
  <2>3. F(g) = [p \in Nat \X Int |-> F(g)[p]]
    OBVIOUS
  <2> HIDE DEF F
  <2> QED BY <2>1, <2>2, <2>3
<1>13. ASSUME NEW h, h = F(h), NEW k \in Nat, NEW d \in Int PROVE Nested(h, b, close, k, d)
  <2>1. <<k, d>> \in Nat \X Int /\ <<k, d>>[1] = k /\ <<k, d>>[2] = d
    OBVIOUS
  <2>2. F(h)[<<k, d>>] = NestBody(h, b, close, k, d)
    BY <2>1
  <2>3. h[<<k, d>>] = F(h)[<<k, d>>]
    BY <1>13
  <2> HIDE DEF F
  <2>4. CASE k > Len(b)
    <3>1. ~(k <= Len(b))
      BY <1>1, <2>4 DEF n
    <3> QED BY <2>2, <2>3, <2>4, <3>1 DEF Nested, NestBody
  <2>5. CASE ~(k > Len(b))
    BY <2>2, <2>3, <2>5, Brackets DEF Nested, NestBody
  <2> QED BY <2>4, <2>5
<1>14. Nest(b, close) = F(Nest(b, close))
  BY <1>12 DEF Nest
<1>15. \A i : SkipBrackets(b, i, close) = Nest(b, close)[<<i, 1>>]
  BY DEF SkipBrackets, Nest, NestBody
<1> HIDE DEF F
<1> QED BY <1>13, <1>14, <1>15

(* Induction over positions, forwards. *)
LEMMA Forwards ==
  ASSUME NEW P, 0 \in P, \A k \in Nat : k \in P => k + 1 \in P
  PROVE  \A k \in Nat : k \in P
<1> DEFINE Bad == {k \in Nat : k \notin P}
<1> SUFFICES ASSUME Bad # {} PROVE FALSE
  OBVIOUS
<1>1. PICK n \in Bad : \A m \in Bad : n <= m
  <2>1. Bad \in SUBSET Nat
    OBVIOUS
  <2> HIDE DEF Bad
  <2> QED BY <2>1, LeastNumber
<1>2. n \in Nat /\ n # 0 /\ n \notin P
  BY <1>1
<1>3. n - 1 \in Nat /\ ~(n <= n - 1) /\ (n - 1) + 1 = n
  BY <1>2
<1>4. n - 1 \in P
  BY <1>1, <1>3
<1> QED BY <1>2, <1>3, <1>4

(***************************************************************************)
(* Where an object is expected to go on, one is open; likewise for arrays. *)
(***************************************************************************)
Fit(s) ==
  /\ s.mode \in {"firstKey", "nextKey", "key", "keyEscape", "colon"} =>
       s.stack # <<>> /\ Last(s.stack) = LBrace
  /\ s.mode = "firstItem" => s.stack # <<>> /\ Last(s.stack) = LBracket
  /\ s.mode = "after" => s.stack # <<>>
  /\ s.mode = "end" => s.stack = <<>>

(* A value ends, and what goes on is open. *)
LEMMA EndToFit ==
  ASSUME NEW s, NEW st, NEW p, NEW f
  PROVE  Fit(EndTo(s, st, p, f)) /\ EndTo(s, st, p, f).pos = p
BY MkFields DEF EndTo, EndMode, Fit

(* Fit, told by fields. *)
LEMMA MkFit ==
  ASSUME NEW m, NEW st, NEW p, NEW k, NEW f, NEW ms
  PROVE  Fit(Mk(m, st, p, k, f, ms)) <=>
           /\ m \in {"firstKey", "nextKey", "key", "keyEscape", "colon"} =>
                st # <<>> /\ Last(st) = LBrace
           /\ m = "firstItem" => st # <<>> /\ Last(st) = LBracket
           /\ m = "after" => st # <<>>
           /\ m = "end" => st = <<>>
BY MkFields DEF Fit

(* Steps keep Fit. *)
LEMMA StepFit ==
  ASSUME NEW s \in State, NEW c \in STRING, Fit(s), Step(s, c).mode # "dead"
  PROVE  Fit(Step(s, c)) /\ Step(s, c).pos = s.pos + 1 /\ s.mode # "dead"
<1> DEFINE p == s.pos + 1
<1> SUFFICES Fit(Step(s, c)) /\ Step(s, c).pos = p
  BY StepDead
<1>0. s.mode # "dead"
  BY StepDead
<1>1. CASE s.mode \in {"key", "string"}
  <2>1. Step(s, c) = TextTo(s, c, p)
    BY <1>1, StepText
  <2>2. Fit(TextTo(s, c, p)) /\ TextTo(s, c, p).pos = p
    <3>1. CASE c = Backslash
      BY <1>1, <3>1, MkFit, MkFields, Units DEF TextTo, Fit, EscapeMode
    <3>2. CASE c = Quote /\ s.mode = "key"
      BY <1>1, <3>2, MkFit, MkFields, Units DEF TextTo, Fit
    <3>3. CASE c = Quote /\ s.mode # "key"
      <4>1. TextTo(s, c, p) = EndTo(s, s.stack, p, s.from)
        BY <3>3, Units DEF TextTo
      <4> QED BY <4>1, EndToFit
    <3>4. CASE c # Quote /\ c # Backslash
      BY <1>1, <3>4, MkFit, MkFields DEF TextTo, Fit
    <3> QED BY <3>1, <3>2, <3>3, <3>4
  <2> QED BY <1>0, <2>1, <2>2
<1>2. CASE s.mode \in {"keyEscape", "stringEscape"}
  <2>1. Step(s, c) = EscapeTo(s, c, p)
    BY <1>2, StepEscape
  <2>2. Fit(EscapeTo(s, c, p)) /\ EscapeTo(s, c, p).pos = p
    BY <1>2, MkFit, MkFields DEF EscapeTo, Fit
  <2> QED BY <1>0, <2>1, <2>2
<1>3. CASE s.mode \in Plain /\ c \in White
  <2>1. Step(s, c) = BlankTo(s, c, p)
    BY <1>3, StepBlank
  <2>2. Fit(BlankTo(s, c, p)) /\ BlankTo(s, c, p).pos = p
    BY MkFit, MkFields DEF BlankTo, Fit
  <2> QED BY <1>0, <2>1, <2>2
<1>4. CASE c \notin White /\ WantsValue(s, c)
  <2>1. Step(s, c) = ValueTo(s, c, p)
    BY <1>4, StepValue
  <2> DEFINE f == Began(s.stack, p, s.from)
  <2>2. CASE c = Quote
    <3>1. ValueTo(s, c, p) = Mk("string", s.stack, p, s.key, f, s.members)
      BY <2>2, Brackets DEF ValueTo
    <3> QED BY <1>0, <2>1, <3>1, MkFit, MkFields
  <2>3. CASE c \in Open
    <3>1. ValueTo(s, c, p) = Mk(OpenMode(c), Append(s.stack, c), p, s.key, f, s.members)
      BY <2>3, Brackets DEF ValueTo
    <3>2. Append(s.stack, c) # <<>> /\ Last(Append(s.stack, c)) = c
      BY <2>3, StateFields DEF Last
    <3>3. \/ OpenMode(c) = "firstKey" /\ c = LBrace
          \/ OpenMode(c) = "firstItem" /\ c = LBracket
      BY <2>3, Units DEF OpenMode, Open
    <3>4. Fit(Mk(OpenMode(c), Append(s.stack, c), p, s.key, f, s.members))
      <4> DEFINE st == Append(s.stack, c)
                 m == OpenMode(c)
      <4>1. /\ st # <<>> /\ Last(st) = c
            /\ (m = "firstKey" /\ c = LBrace) \/ (m = "firstItem" /\ c = LBracket)
        BY <3>2, <3>3
      <4> HIDE DEF st, m, p, f
      <4> QED BY <3>2, <3>3, <4>1, MkFit DEF st, m
    <3> QED BY <2>1, <3>1, <3>4, MkFields
  <2>4. CASE c # Quote /\ c \notin Open
    <3>1. ValueTo(s, c, p) = EndTo(s, s.stack, p, f)
      BY <2>4 DEF ValueTo
    <3> QED BY <1>0, <2>1, <3>1, EndToFit
  <2> QED BY <2>2, <2>3, <2>4
<1>5. CASE c \notin White /\ WantsKey(s, c)
  <2>1. Step(s, c) = KeyTo(s, c, p)
    BY <1>5, StepKey
  <2>2. Fit(KeyTo(s, c, p)) /\ KeyTo(s, c, p).pos = p
    BY <1>5, MkFit, MkFields DEF KeyTo, Fit, WantsKey
  <2> QED BY <1>0, <2>1, <2>2
<1>6. CASE c \notin White /\ s.mode = "colon"
  <2>1. Step(s, c) = Mk("value", s.stack, p, s.key, s.from, s.members)
    BY <1>6, StepColon
  <2> QED BY <1>0, <2>1, MkFit, MkFields
<1>7. CASE c \notin White /\ Closing(s, c)
  <2>1. Step(s, c) = CloseTo(s, c, p)
    BY <1>7, StepClose
  <2> QED BY <1>0, <2>1, EndToFit DEF CloseTo
<1>8. CASE c = Comma /\ s.mode = "after"
  <2>1. Step(s, c) = Mk(NextMode(s.stack), s.stack, p, s.key, s.from, s.members)
    BY <1>8, StepComma
  <2>2. s.stack # <<>> /\ NextMode(s.stack) \in {"nextKey", "value"}
        /\ (NextMode(s.stack) = "nextKey" => Last(s.stack) = LBrace)
    BY <1>8 DEF Fit, NextMode
  <2> QED BY <1>0, <2>1, <2>2, MkFit, MkFields
<1>9. CASE s.mode = "end"
  BY <1>3, <1>9, StepEnd DEF Plain
<1>10. s.mode \in {"key", "string", "keyEscape", "stringEscape"} \cup Plain
  BY <1>0, StateFields DEF Modes, Plain
<1>11. ASSUME s.mode \in Plain, c \notin White
       PROVE  WantsValue(s, c) \/ WantsKey(s, c) \/ s.mode \in {"colon", "end"}
              \/ Closing(s, c) \/ (c = Comma /\ s.mode = "after")
  BY <1>11 DEF Plain, WantsValue, WantsKey, Closing
<1> HIDE DEF p
<1> QED BY <1>1, <1>2, <1>3, <1>4, <1>5, <1>6, <1>7, <1>8, <1>9, <1>10, <1>11
-----------------------------------------------------------------------------
(***************************************************************************)
(* A run over a JSON text.                                                 *)
(***************************************************************************)
Sound(R, b) ==
  /\ b \in Text /\ Runs(R, Start, b) /\ R[Len(b)].mode = "end"
  /\ \A i \in 0..Len(b) : R[i] \in State /\ R[i].mode # "dead" /\ R[i].pos = i /\ Fit(R[i])

(* The first state has it. *)
LEMMA StartFit == Start \in State /\ Fit(Start) /\ Start.pos = 0
<1>1. Start = Mk("value", <<>>, 0, <<>>, 1, <<>>)
  BY DEF Start, Mk
<1>2. <<>> \in Seq(Open) /\ <<>> \in Seq(STRING) /\ <<>> \in Seq(Entries)
  OBVIOUS
<1>3. Start \in State
  <2>1. "value" \in Modes /\ 0 \in Int /\ 1 \in Int
    BY DEF Modes
  <2> QED BY <1>1, <1>2, <2>1, MkIn
<1> QED BY <1>1, <1>3, MkFit, MkFields

(* Every JSON text has a sound run. *)
LEMMA SoundRun ==
  ASSUME NEW b \in Text, IsJson(b)
  PROVE  \E R : Sound(R, b) /\ Read(Start, b) = R[Len(b)]
<1>1. PICK R : Runs(R, Start, b) /\ Read(Start, b) = R[Len(b)]
  BY StartFit, RunExists
<1>2. Len(b) \in Nat /\ R[Len(b)].mode = "end"
  BY <1>1 DEF Text, IsJson
<1>3. \A i \in 0..Len(b) : R[i] \in State
  BY <1>1 DEF Runs
<1> DEFINE n == Len(b)
           P == {k \in Nat : k <= n => R[k].mode # "dead"}
           Q == {k \in Nat : k <= n => R[k].pos = k /\ Fit(R[k])}
<1>4. \A k \in Nat : k \in P
  <2>1. ASSUME NEW k \in Nat, k <= n => \A m \in Nat : m > k => m \in P PROVE k \in P
    <3> SUFFICES ASSUME k <= n, R[k].mode = "dead" PROVE FALSE
      OBVIOUS
    <3>1. k # n
      BY <1>2
    <3>2. k + 1 \in 1..n /\ (k + 1) - 1 = k /\ k + 1 > k /\ k \in 0..n
      BY <1>2, <3>1
    <3>3. R[k + 1] = Step(R[k], b[k + 1])
      BY <1>1, <3>2 DEF Runs
    <3>4. R[k + 1].mode = "dead"
      BY <1>3, <3>2, <3>3, StepDead
    <3>5. k + 1 \in P
      BY <2>1, <3>2
    <3> QED BY <3>2, <3>4, <3>5
  <2> HIDE DEF P
  <2> QED BY <1>2, <2>1, Backwards
<1>5. \A k \in Nat : k \in Q
  <2>1. 0 \in Q
    <3>1. R[0] = Start
      BY <1>1 DEF Runs
    <3> QED BY <3>1, StartFit
  <2>2. ASSUME NEW k \in Nat, k \in Q PROVE k + 1 \in Q
    <3> SUFFICES ASSUME k + 1 <= n PROVE R[k + 1].pos = k + 1 /\ Fit(R[k + 1])
      OBVIOUS
    <3>1. k + 1 \in 1..n /\ (k + 1) - 1 = k /\ k <= n /\ k \in 0..n
      BY <1>2
    <3>2. R[k + 1] = Step(R[k], b[k + 1]) /\ b[k + 1] \in STRING
      BY <1>1, <3>1 DEF Runs, Text
    <3>3. R[k].pos = k /\ Fit(R[k])
      BY <2>2, <3>1
    <3>4. R[k + 1].mode # "dead"
      BY <1>4, <3>1
    <3> QED BY <1>3, <3>1, <3>2, <3>3, <3>4, StepFit
  <2> HIDE DEF Q
  <2> QED BY <2>1, <2>2, Forwards
<1>6. Sound(R, b)
  <2>1. \A i \in 0..Len(b) : i \in Nat /\ i <= n
    BY <1>2
  <2> QED BY <1>1, <1>2, <1>3, <1>4, <1>5, <2>1 DEF Sound
<1> QED BY <1>1, <1>6

(***************************************************************************)
(* A step of a sound run.                                                  *)
(***************************************************************************)
LEMMA SoundStep ==
  ASSUME NEW R, NEW b, Sound(R, b), NEW k \in Nat, k >= 1, k <= Len(b)
  PROVE  /\ b[k] \in STRING /\ R[k] = Step(R[k - 1], b[k])
         /\ R[k - 1] \in State /\ R[k - 1].mode # "dead" /\ R[k - 1].pos + 1 = k /\ Fit(R[k - 1])
         /\ R[k] \in State /\ R[k].mode # "dead" /\ R[k].pos = k /\ Fit(R[k])
<1>1. Len(b) \in Nat /\ k \in 1..Len(b) /\ k \in 0..Len(b) /\ k - 1 \in 0..Len(b)
  BY DEF Sound, Text
<1>2. R[k] = Step(R[k - 1], b[k]) /\ b[k] \in STRING
  BY <1>1 DEF Sound, Runs, Text
<1>3. R[k - 1].pos = k - 1 /\ R[k] \in State
  BY <1>1 DEF Sound
<1> QED BY <1>1, <1>2, <1>3 DEF Sound

(* A text is not over before its last value ends. *)
LEMMA NotOver ==
  ASSUME NEW R, NEW b, Sound(R, b), NEW k \in Nat, k >= 1, k <= Len(b) + 1, R[k - 1].mode # "end"
  PROVE  k <= Len(b)
BY DEF Sound, Text

(* The same state, further on in the text. *)
Moved(s, p) == Mk(s.mode, s.stack, p, s.key, s.from, s.members)

(* A state is itself, moved to where it is. *)
LEMMA MovedBack ==
  ASSUME NEW R, NEW b, Sound(R, b), NEW k \in Nat, k >= 1, k <= Len(b) + 1
  PROVE  R[k - 1] = Moved(R[k - 1], k - 1) /\ R[k - 1] \in State
<1>1. k - 1 \in 0..Len(b)
  BY DEF Sound, Text
<1>2. R[k - 1] \in State /\ R[k - 1].pos = k - 1
  BY <1>1 DEF Sound
<1> QED BY <1>2, StateFields DEF Moved

(***************************************************************************)
(* Blanks change nothing.                                                  *)
(***************************************************************************)
Blanks(R, b, k, j) ==
  /\ j \in Nat /\ k <= j /\ j <= Len(b) + 1
  /\ R[j - 1] = Moved(R[k - 1], j - 1)
  /\ j <= Len(b) => b[j] \notin White

(* SkipWs goes to the next unit that is not blank, in the same state. *)
LEMMA SkipWsRun ==
  ASSUME NEW R, NEW b, Sound(R, b)
  PROVE  \A k \in Nat : k >= 1 /\ k <= Len(b) + 1 /\ R[k - 1].mode \in Plain
                          => Blanks(R, b, k, SkipWs(b, k))
<1> DEFINE n == Len(b)
           P == {k \in Nat : k >= 1 /\ k <= Len(b) + 1 /\ R[k - 1].mode \in Plain
                               => Blanks(R, b, k, SkipWs(b, k))}
<1>1. n \in Nat /\ b \in Text
  BY DEF Sound, Text
<1>2. ASSUME NEW k \in Nat, k <= n => \A m \in Nat : m > k => m \in P PROVE k \in P
  <2> SUFFICES ASSUME k >= 1, k <= n + 1, R[k - 1].mode \in Plain
               PROVE  Blanks(R, b, k, SkipWs(b, k))
    OBVIOUS
  <2>1. CASE k <= n /\ b[k] \in White
    <3>1. SkipWs(b, k) = SkipWs(b, k + 1)
      BY <1>1, <2>1, SkipWsScan
    <3>2. R[k] = Moved(R[k - 1], k)
      <4>1. R[k - 1] \in State /\ R[k] = Step(R[k - 1], b[k]) /\ R[k - 1].pos + 1 = k
        BY <2>1, SoundStep
      <4> QED BY <2>1, <4>1, StepBlank DEF BlankTo, Moved
    <3>3. k + 1 \in P /\ k + 1 \in Nat /\ k + 1 >= 1 /\ k + 1 <= n + 1 /\ (k + 1) - 1 = k
      BY <1>1, <1>2, <2>1
    <3>4. R[k].mode \in Plain
      BY <3>2, MkFields DEF Moved
    <3>5. Blanks(R, b, k + 1, SkipWs(b, k + 1))
      BY <3>3, <3>4
    <3>6. \A p : Moved(R[k], p) = Moved(R[k - 1], p)
      BY <3>2, MkFields DEF Moved
    <3> QED BY <1>1, <3>1, <3>3, <3>5, <3>6 DEF Blanks
  <2>2. CASE ~(k <= n /\ b[k] \in White)
    <3>1. SkipWs(b, k) = k
      BY <1>1, <2>2, SkipWsScan
    <3>2. R[k - 1] = Moved(R[k - 1], k - 1)
      BY MovedBack
    <3> QED BY <1>1, <2>2, <3>1, <3>2 DEF Blanks
  <2> QED BY <2>1, <2>2
<1> HIDE DEF P, n
<1>3. \A k \in Nat : k \in P
  BY <1>1, <1>2, Backwards
<1> QED BY <1>3 DEF P

(***************************************************************************)
(* A string goes on to the quote that ends it.                             *)
(***************************************************************************)
LEMMA Grow ==
  ASSUME NEW b \in Text, NEW a \in Text, NEW k \in Nat, NEW m \in Nat, k >= 1, k <= m, m <= Len(b)
  PROVE  Append(a, b[k]) \o SubSeq(b, k + 1, m) = a \o SubSeq(b, k, m)
<1>1. b[k] \in STRING
  BY DEF Text
<1>2. SubSeq(b, k, m) = <<b[k]>> \o SubSeq(b, k + 1, m)
  BY DEF Text
<1>3. Append(a, b[k]) = a \o <<b[k]>>
  BY <1>1 DEF Text
<1>4. SubSeq(b, k + 1, m) \in Text
  BY DEF Text
<1>5. <<b[k]>> \in Text
  BY <1>1 DEF Text
<1>6. (a \o <<b[k]>>) \o SubSeq(b, k + 1, m) = a \o (<<b[k]>> \o SubSeq(b, k + 1, m))
  <2> DEFINE x == <<b[k]>>
             u == SubSeq(b, k + 1, m)
  <2>1. x \in Seq(STRING) /\ u \in Seq(STRING) /\ a \in Seq(STRING)
    BY <1>4, <1>5 DEF Text
  <2> HIDE DEF x, u
  <2>2. (a \o x) \o u = a \o (x \o u)
    BY SMTT(30), <2>1, ConcatAssociative
  <2> QED BY <2>2 DEF x, u
<1> QED BY <1>2, <1>3, <1>6

(* The key collected so far, and the rest of the string. *)
Collected(s, b, k, e) ==
  IF s.mode = "key" /\ s.stack = <<LBrace>> THEN s.key \o SubSeq(b, k, e - 2) ELSE s.key

StringEnds(R, b, k, e) ==
  /\ e \in Nat /\ k < e /\ e <= Len(b) + 1 /\ b[e - 1] = Quote
  /\ \A l \in Nat : k <= l /\ l < e => b[l] # Newline
  /\ R[k - 1].mode = "key" =>
       R[e - 1] = Mk("colon", R[k - 1].stack, e - 1, Collected(R[k - 1], b, k, e),
                     R[k - 1].from, R[k - 1].members)
  /\ R[k - 1].mode = "string" => R[e - 1] = EndTo(R[k - 1], R[k - 1].stack, e - 1, R[k - 1].from)

(* The rest of a string is where the automaton sees it end. *)
LEMMA StringRun ==
  ASSUME NEW R, NEW b, Sound(R, b)
  PROVE  \A k \in Nat : k >= 1 /\ k <= Len(b) + 1 /\ R[k - 1].mode \in {"key", "string"}
                          => StringEnds(R, b, k, Rest(b)[k])
<1> DEFINE n == Len(b)
           P == {k \in Nat : k >= 1 /\ k <= Len(b) + 1 /\ R[k - 1].mode \in {"key", "string"}
                               => StringEnds(R, b, k, Rest(b)[k])}
<1>1. n \in Nat /\ b \in Text
  BY DEF Sound, Text
<1>2. ASSUME NEW k \in Nat, k <= n => \A m \in Nat : m > k => m \in P PROVE k \in P
  <2> SUFFICES ASSUME k >= 1, k <= n + 1, R[k - 1].mode \in {"key", "string"}
               PROVE  StringEnds(R, b, k, Rest(b)[k])
    OBVIOUS
  <2> DEFINE s == R[k - 1]
             c == b[k]
  <2>1. k <= n
    BY NotOver
  <2>2. /\ c \in STRING /\ R[k] = Step(s, c) /\ s \in State /\ s.mode # "dead" /\ s.pos + 1 = k
        /\ R[k] \in State /\ R[k].mode # "dead"
    BY <2>1, SoundStep
  <2>3. c # Newline /\ R[k] = TextTo(s, c, k)
    BY <2>2, StepText
  <2>4. s.key \in Text /\ s.stack \in Seq(Open)
    BY <2>2, StateFields DEF Text
  <2>5. CASE c = Quote
    <3>1. Rest(b)[k] = k + 1
      BY <1>1, <2>1, <2>5, RestScan, Units
    <3>2. Collected(s, b, k, k + 1) = s.key
      <4>1. SubSeq(b, k, (k + 1) - 2) = <<>>
        <5>1. (k + 1) - 2 = k - 1
          OBVIOUS
        <5>2. SubSeq(b, k, k - 1) = <<>>
          BY <1>1 DEF Text
        <5> QED BY <5>1, <5>2
      <4>2. s.key \o <<>> = s.key
        <5> DEFINE a == s.key
        <5>1. a \in Seq(STRING)
          BY <2>4 DEF Text
        <5> HIDE DEF a
        <5> QED BY <5>1 DEF a
      <4> QED BY <4>1, <4>2 DEF Collected
    <3>3. R[k] = IF s.mode = "key" THEN Mk("colon", s.stack, k, s.key, s.from, s.members)
                        ELSE EndTo(s, s.stack, k, s.from)
      BY <2>3, <2>5, Units DEF TextTo
    <3>4. \A l \in Nat : k <= l /\ l < k + 1 => l = k
      OBVIOUS
    <3>5. k + 1 \in Nat /\ k < k + 1 /\ k + 1 <= n + 1 /\ (k + 1) - 1 = k
      BY <1>1, <2>1
    <3> QED BY <2>3, <2>5, <3>1, <3>2, <3>3, <3>4, <3>5 DEF StringEnds
  <2>6. ASSUME NEW j \in Nat, j > k, j <= n + 1,
               \A l \in Nat : k <= l /\ l < j => b[l] # Newline,
               Rest(b)[k] = Rest(b)[j], NEW key,
               R[j - 1] = Mk(s.mode, s.stack, j - 1, key, s.from, s.members),
               s.mode = "string" => key = s.key,
               \A e \in Nat : e > j /\ e <= n + 1 =>
                 (IF s.mode = "key" /\ s.stack = <<LBrace>> THEN key \o SubSeq(b, j, e - 2) ELSE key)
                   = Collected(s, b, k, e)
        PROVE  StringEnds(R, b, k, Rest(b)[k])
    <3> DEFINE r == R[j - 1]
               e == Rest(b)[j]
    <3>1. r.mode = s.mode /\ r.stack = s.stack /\ r.key = key /\ r.from = s.from /\ r.members = s.members
      BY <2>6, MkFields
    <3>2. StringEnds(R, b, j, e)
      <4>1. j \in P /\ j >= 1
        BY <1>2, <2>1, <2>6
      <4> QED BY <2>6, <3>1, <4>1
    <3>3. e \in Nat /\ j < e /\ e <= n + 1 /\ b[e - 1] = Quote
          /\ \A l \in Nat : j <= l /\ l < e => b[l] # Newline
      BY <3>2 DEF StringEnds
    <3>4. \A l \in Nat : k <= l /\ l < e => b[l] # Newline
      BY <2>6, <3>3
    <3>5. Collected(r, b, j, e) = Collected(s, b, k, e)
      BY <2>6, <3>1, <3>3 DEF Collected
    <3>6. s.mode = "key" =>
             R[e - 1] = Mk("colon", s.stack, e - 1, Collected(s, b, k, e), s.from, s.members)
      BY <3>1, <3>2, <3>5 DEF StringEnds
    <3>7. s.mode = "string" => R[e - 1] = EndTo(s, s.stack, e - 1, s.from)
      BY <2>6, <3>1, <3>2 DEF StringEnds, EndTo
    <3>8. k < e
      BY <2>6, <3>3
    <3> HIDE DEF e
    <3>9. StringEnds(R, b, k, e)
      BY <3>3, <3>4, <3>6, <3>7, <3>8 DEF StringEnds
    <3> QED BY <2>6, <3>9 DEF e
  <2>7. CASE c = Backslash
    <3>1. R[k] = Mk(EscapeMode(s.mode), s.stack, k, Grown(s.mode, s.stack, s.key, c), s.from, s.members)
      BY <2>3, <2>7, Units DEF TextTo
    <3>2. R[k].mode = EscapeMode(s.mode) /\ R[k].stack = s.stack /\ R[k].from = s.from
          /\ R[k].key = Grown(s.mode, s.stack, s.key, c) /\ R[k].members = s.members
      BY <3>1, MkFields
    <3>3. R[k].mode \in {"keyEscape", "stringEscape"} /\ (R[k].mode = "keyEscape" <=> s.mode = "key")
      BY <3>2 DEF EscapeMode
    <3>4. k + 1 \in Nat /\ k + 1 >= 1 /\ k + 1 <= n + 1 /\ (k + 1) - 1 = k
      BY <1>1, <2>1
    <3>5. k + 1 <= n
      BY <3>3, <3>4, NotOver
    <3>6. /\ b[k + 1] \in STRING /\ R[k + 1] = Step(R[k], b[k + 1])
          /\ R[k].pos + 1 = k + 1 /\ R[k + 1].mode # "dead"
      BY <3>4, <3>5, SoundStep
    <3>7. b[k + 1] \in {Quote, Backslash} /\ R[k + 1] = EscapeTo(R[k], b[k + 1], k + 1)
      BY <2>2, <3>3, <3>6, StepEscape
    <3> DEFINE key == Grown(R[k].mode, s.stack, R[k].key, b[k + 1])
               j == k + 2
    <3>8. R[j - 1] = Mk(s.mode, s.stack, j - 1, key, s.from, s.members)
      BY <3>2, <3>3, <3>7 DEF EscapeTo
    <3>9. s.mode = "string" => key = s.key
      BY <3>2, <3>3 DEF Grown
    <3>10. Rest(b)[k] = Rest(b)[j]
      BY <1>1, <2>1, <2>7, RestScan
    <3>11. j \in Nat /\ j > k /\ j <= n + 1
      BY <1>1, <3>5
    <3>12. \A l \in Nat : k <= l /\ l < j => b[l] # Newline
      <4>1. b[k + 1] # Newline
        BY <3>7, Units
      <4>2. \A l \in Nat : k <= l /\ l < j => l = k \/ l = k + 1
        OBVIOUS
      <4> QED BY <2>3, <4>1, <4>2
    <3>13. ASSUME NEW e \in Nat, e > j, e <= n + 1
           PROVE  (IF s.mode = "key" /\ s.stack = <<LBrace>> THEN key \o SubSeq(b, j, e - 2) ELSE key)
                   = Collected(s, b, k, e)
      <4>1. CASE s.mode = "key" /\ s.stack = <<LBrace>>
        <5> DEFINE a == Append(s.key, c)
                   m == e - 2
        <5>1. key = Append(a, b[k + 1])
          BY <3>2, <3>3, <4>1 DEF Grown
        <5>2. a \in Text
          BY <2>2, <2>4 DEF Text
        <5>3. m \in Nat /\ k + 1 <= m /\ m <= n /\ k <= m
          BY <1>1, <3>13
        <5> HIDE DEF m
        <5>4. Append(s.key, b[k]) \o SubSeq(b, k + 1, m) = s.key \o SubSeq(b, k, m)
          BY <1>1, <2>4, <5>3, Grow
        <5> HIDE DEF a
        <5>5. Append(a, b[k + 1]) \o SubSeq(b, (k + 1) + 1, m) = a \o SubSeq(b, k + 1, m)
          BY ZenonT(40), <1>1, <3>4, <5>2, <5>3, Grow
        <5>6. (k + 1) + 1 = j
          OBVIOUS
        <5> QED BY <4>1, <5>1, <5>4, <5>5, <5>6 DEF Collected, a, m
      <4>2. CASE ~(s.mode = "key" /\ s.stack = <<LBrace>>)
        <5>1. key = s.key
          BY <3>2, <3>3, <4>2 DEF Grown
        <5> QED BY <4>2, <5>1 DEF Collected
      <4> QED BY <4>1, <4>2
    <3> HIDE DEF key, j
    <3> QED BY <2>6, <3>8, <3>9, <3>10, <3>11, <3>12, <3>13
  <2>8. CASE c # Quote /\ c # Backslash
    <3> DEFINE key == Grown(s.mode, s.stack, s.key, c)
               j == k + 1
    <3>1. R[j - 1] = Mk(s.mode, s.stack, j - 1, key, s.from, s.members)
      BY <2>3, <2>8 DEF TextTo
    <3>2. s.mode = "string" => key = s.key
      BY DEF Grown
    <3>3. Rest(b)[k] = Rest(b)[j]
      BY <1>1, <2>1, <2>8, RestScan
    <3>4. j \in Nat /\ j > k /\ j <= n + 1
      BY <1>1, <2>1
    <3>5. \A l \in Nat : k <= l /\ l < j => b[l] # Newline
      <4>1. \A l \in Nat : k <= l /\ l < j => l = k
        OBVIOUS
      <4> QED BY <2>3, <4>1
    <3>6. ASSUME NEW e \in Nat, e > j, e <= n + 1
           PROVE  (IF s.mode = "key" /\ s.stack = <<LBrace>> THEN key \o SubSeq(b, j, e - 2) ELSE key)
                   = Collected(s, b, k, e)
      <4>1. CASE s.mode = "key" /\ s.stack = <<LBrace>>
        <5> DEFINE m == e - 2
        <5>1. key = Append(s.key, b[k])
          BY <4>1 DEF Grown
        <5>2. m \in Nat /\ k <= m /\ m <= n
          BY <1>1, <3>6
        <5> HIDE DEF m
        <5>3. Append(s.key, b[k]) \o SubSeq(b, k + 1, m) = s.key \o SubSeq(b, k, m)
          BY <1>1, <2>4, <5>2, Grow
        <5> QED BY <4>1, <5>1, <5>3 DEF Collected, m
      <4>2. CASE ~(s.mode = "key" /\ s.stack = <<LBrace>>)
        <5>1. key = s.key
          BY <2>8, <4>2 DEF Grown
        <5> QED BY <4>2, <5>1 DEF Collected
      <4> QED BY <4>1, <4>2
    <3> HIDE DEF key, j
    <3> QED BY <2>6, <3>1, <3>2, <3>3, <3>4, <3>5, <3>6
  <2> QED BY <2>5, <2>7, <2>8
<1> HIDE DEF P, n
<1>3. \A k \in Nat : k \in P
  BY <1>1, <1>2, Backwards
<1> QED BY <1>3 DEF P

(***************************************************************************)
(* Inside a value with brackets of the outermost object.                   *)
(***************************************************************************)
Deep(st, open) == st \in Seq(Open) /\ Len(st) >= 2 /\ st[1] = LBrace /\ st[2] = open

(* How such a stack grows and shrinks. *)
LEMMA DeepStack ==
  ASSUME NEW st, NEW open, Deep(st, open)
  PROVE  /\ st # <<>> /\ st # <<LBrace>> /\ Len(st) \in Nat
         /\ \A c \in Open : Deep(Append(st, c), open) /\ Len(Append(st, c)) = Len(st) + 1
         /\ Len(st) = 2 => Front(st) = <<LBrace>> /\ Last(st) = open
         /\ Len(st) # 2 => Deep(Front(st), open) /\ Len(Front(st)) = Len(st) - 1
<1>1. st \in Seq(Open) /\ Len(st) \in Nat /\ Len(st) >= 2 /\ st[1] = LBrace /\ st[2] = open
  BY DEF Deep
<1>2. st # <<>> /\ st # <<LBrace>>
  BY <1>1
<1>3. \A c \in Open : Deep(Append(st, c), open) /\ Len(Append(st, c)) = Len(st) + 1
  <2> TAKE c \in Open
  <2>1. Append(st, c) \in Seq(Open) /\ Len(Append(st, c)) = Len(st) + 1
        /\ Append(st, c)[1] = st[1] /\ Append(st, c)[2] = st[2]
    BY <1>1
  <2> QED BY <1>1, <2>1 DEF Deep
<1>4. Front(st) = SubSeq(st, 1, Len(st) - 1)
  BY DEF Front
<1>5. ASSUME Len(st) = 2 PROVE Front(st) = <<LBrace>> /\ Last(st) = open
  <2>1. SubSeq(st, 1, 1) = <<LBrace>>
    <3> DEFINE u == SubSeq(st, 1, 1)
    <3>1. u \in Seq(Open) /\ Len(u) = 1 /\ u[1] = st[1]
      BY <1>1
    <3> HIDE DEF u
    <3>2. u = <<u[1]>>
      BY <3>1
    <3> QED BY <1>1, <3>1, <3>2 DEF u
  <2> QED BY <1>1, <1>4, <1>5, <2>1 DEF Last
<1>6. ASSUME Len(st) # 2 PROVE Deep(Front(st), open) /\ Len(Front(st)) = Len(st) - 1
  <2> DEFINE m == Len(st) - 1
  <2>1. m \in Nat /\ m >= 2 /\ m <= Len(st)
    <3> DEFINE l == Len(st)
    <3>1. l \in Nat /\ l >= 2 /\ l # 2
      BY <1>1, <1>6
    <3> HIDE DEF l
    <3>2. l - 1 \in Nat /\ l - 1 >= 2 /\ l - 1 <= l
      BY <3>1
    <3> QED BY <3>2 DEF l
  <2> HIDE DEF m
  <2>2. SubSeq(st, 1, m) \in Seq(Open) /\ Len(SubSeq(st, 1, m)) = m
        /\ SubSeq(st, 1, m)[1] = st[1] /\ SubSeq(st, 1, m)[2] = st[2]
    BY <1>1, <2>1
  <2> QED BY <1>1, <1>4, <2>1, <2>2 DEF Deep, m
<1> QED BY <1>1, <1>2, <1>3, <1>5, <1>6

(* The member being read is kept. *)
Kept(r, s) == r.key = s.key /\ r.from = s.from /\ r.members = s.members

(* An inner value ends: no member is complete. *)
LEMMA DeepEnd ==
  ASSUME NEW s, NEW st, NEW open, NEW p, NEW f, Deep(st, open)
  PROVE  EndTo(s, st, p, f) = Mk("after", st, p, s.key, f, s.members)
BY DeepStack DEF EndTo, EndMode, EndMembers

(* A step in there. *)
LEMMA DeepStep ==
  ASSUME NEW s \in State, NEW c \in STRING, NEW open, Deep(s.stack, open), s.mode \in Plain,
         Fit(s), Step(s, c).mode # "dead"
  PROVE  /\ c \notin Close => Kept(Step(s, c), s)
         /\ c \notin {Quote} \cup Open \cup Close => Step(s, c).mode \in Plain /\ Step(s, c).stack = s.stack
         /\ c = Quote => Step(s, c).mode \in {"key", "string"} /\ Step(s, c).stack = s.stack
         /\ c \in Open => Step(s, c).mode \in Plain /\ Step(s, c).stack = Append(s.stack, c)
         /\ c \in Close => Matches(s.stack, c) /\ Step(s, c) = CloseTo(s, c, s.pos + 1)
<1> DEFINE p == s.pos + 1
           r == Step(s, c)
<1>0. s.stack # <<>> /\ s.stack # <<LBrace>> /\ s.mode # "end" /\ "after" \in Plain
  BY DeepStack DEF Fit, Plain
<1>1. CASE c \in White
  <2>1. r = Mk(s.mode, s.stack, p, s.key, s.from, s.members)
    BY <1>1, StepBlank DEF BlankTo
  <2>2. c \notin {Quote} \cup Open \cup Close
    BY <1>1, Brackets
  <2> HIDE DEF r, p
  <2>3. r.mode = s.mode /\ r.stack = s.stack /\ Kept(r, s)
    BY <2>1, MkFields DEF Kept
  <2> QED BY <2>2, <2>3, Brackets DEF r
<1>2. CASE c \notin White /\ WantsValue(s, c)
  <2>1. r = ValueTo(s, c, p) /\ c \in {Quote} \cup Open \cup Scalars
    BY <1>2, StepValue
  <2>2. Began(s.stack, p, s.from) = s.from
    BY <1>0 DEF Began
  <2>3. ASSUME c = Quote PROVE r.mode = "string" /\ r.stack = s.stack /\ Kept(r, s)
    <3>1. r = Mk("string", s.stack, p, s.key, s.from, s.members)
      BY <2>1, <2>2, <2>3, Brackets DEF ValueTo
    <3> QED BY <3>1, MkFields DEF Kept
  <2>4. ASSUME c \in Open PROVE r.mode \in Plain /\ r.stack = Append(s.stack, c) /\ Kept(r, s)
    <3>1. r = Mk(OpenMode(c), Append(s.stack, c), p, s.key, s.from, s.members)
      BY <2>1, <2>2, <2>4, Brackets DEF ValueTo
    <3>2. OpenMode(c) \in Plain
      BY DEF OpenMode, Plain
    <3> DEFINE st == Append(s.stack, c)
               m == OpenMode(c)
    <3>3. r = Mk(m, st, p, s.key, s.from, s.members)
      BY <3>1
    <3> HIDE DEF r, p, st, m
    <3>4. r.mode = m /\ r.stack = st /\ r.key = s.key /\ r.from = s.from /\ r.members = s.members
      BY <3>3, MkFields
    <3> QED BY <3>2, <3>4 DEF Kept, st, m
  <2>5. ASSUME c # Quote, c \notin Open PROVE r.mode = "after" /\ r.stack = s.stack /\ Kept(r, s)
    <3>1. r = Mk("after", s.stack, p, s.key, s.from, s.members)
      BY <2>1, <2>2, <2>5, DeepEnd DEF ValueTo
    <3> QED BY <3>1, MkFields DEF Kept
  <2>6. c \notin Close
    BY <2>1, Brackets, ScalarUnits DEF Close
  <2> HIDE DEF r
  <2> QED BY <1>0, <2>3, <2>4, <2>5, <2>6, Brackets DEF r
<1>3. CASE c \notin White /\ WantsKey(s, c)
  <2>1. r = KeyTo(s, c, p) /\ c = Quote
    BY <1>3, StepKey
  <2>2. r = Mk("key", s.stack, p, s.key, s.from, s.members)
    BY <1>0, <2>1 DEF KeyTo, Cleared
  <2>3. r.mode = "key" /\ r.stack = s.stack /\ Kept(r, s)
    BY <2>2, MkFields DEF Kept
  <2> HIDE DEF r
  <2> QED BY <2>1, <2>3, Brackets DEF r
<1>4. CASE c \notin White /\ s.mode = "colon"
  <2>1. c = Colon /\ r = Mk("value", s.stack, p, s.key, s.from, s.members)
    BY <1>4, StepColon
  <2>2. r.mode \in Plain /\ r.stack = s.stack /\ Kept(r, s)
    BY <2>1, MkFields DEF Kept, Plain
  <2>3. c \notin {Quote} \cup Open \cup Close
    BY <2>1, Units DEF Open, Close
  <2> HIDE DEF r
  <2> QED BY <2>2, <2>3 DEF r
<1>5. CASE c \notin White /\ Closing(s, c)
  <2>1. Matches(s.stack, c) /\ r = CloseTo(s, c, p)
    BY <1>5, StepClose
  <2>2. c \in Close
    BY <2>1 DEF Matches, Close
  <2> QED BY <2>1, <2>2, Brackets
<1>6. CASE c = Comma /\ s.mode = "after"
  <2>1. r = Mk(NextMode(s.stack), s.stack, p, s.key, s.from, s.members)
    BY <1>6, StepComma
  <2>2. NextMode(s.stack) \in Plain
    BY DEF NextMode, Plain
  <2>3. r.mode \in Plain /\ r.stack = s.stack /\ Kept(r, s)
    BY <2>1, <2>2, MkFields DEF Kept
  <2>4. c \notin {Quote} \cup Open \cup Close
    BY <1>6, Units DEF Open, Close
  <2> HIDE DEF r
  <2> QED BY <2>3, <2>4 DEF r
<1>7. c \notin White =>
        WantsValue(s, c) \/ WantsKey(s, c) \/ s.mode = "colon" \/ Closing(s, c) \/ (c = Comma /\ s.mode = "after")
  BY <1>0 DEF Plain, WantsValue, WantsKey, Closing
<1> HIDE DEF r, p
<1> QED BY <1>1, <1>2, <1>3, <1>4, <1>5, <1>6, <1>7 DEF r, p

(* Brackets that belong together. *)
Pairs == {<<LBrace, RBrace>>, <<LBracket, RBracket>>}

(* A bracket has one partner. *)
LEMMA PairUnits ==
  /\ \A o, c, d : <<o, c>> \in Pairs /\ <<o, d>> \in Pairs => c = d
  /\ \A o, c : <<o, c>> \in Pairs => o \in Open /\ c \in Close
BY Units DEF Pairs, Open, Close

(***************************************************************************)
(* A member's value goes on to the unit before e, and ends the member.     *)
(***************************************************************************)
Completed(s, e) ==
  Mk("after", <<LBrace>>, e - 1, s.key, s.from,
     Append(s.members, [key |-> s.key, from |-> s.from, to |-> e - 1]))

BracketEnds(R, b, k, e) ==
  /\ e \in Nat /\ k < e /\ e <= Len(b) + 1
  /\ R[e - 1] = Completed(R[k - 1], e)

(* SkipBrackets ends at the bracket that ends the value. *)
LEMMA BracketRun ==
  ASSUME NEW R, NEW b, Sound(R, b), NEW open, NEW close, <<open, close>> \in Pairs
  PROVE  \A k \in Nat : k >= 1 /\ k <= Len(b) + 1 /\ R[k - 1].mode \in Plain /\ Deep(R[k - 1].stack, open)
                          => BracketEnds(R, b, k, Nest(b, close)[<<k, Len(R[k - 1].stack) - 1>>])
<1> DEFINE n == Len(b)
           N == Nest(b, close)
           P == {k \in Nat : k >= 1 /\ k <= Len(b) + 1 /\ R[k - 1].mode \in Plain /\ Deep(R[k - 1].stack, open)
                               => BracketEnds(R, b, k, N[<<k, Len(R[k - 1].stack) - 1>>])}
<1>1. n \in Nat /\ b \in Text
  BY DEF Sound, Text
<1> HIDE DEF N
<1>2. ASSUME NEW k \in Nat, k <= n => \A m \in Nat : m > k => m \in P PROVE k \in P
  <2> SUFFICES ASSUME k >= 1, k <= n + 1, R[k - 1].mode \in Plain, Deep(R[k - 1].stack, open)
               PROVE  BracketEnds(R, b, k, N[<<k, Len(R[k - 1].stack) - 1>>])
    OBVIOUS
  <2> DEFINE s == R[k - 1]
             c == b[k]
             d == Len(s.stack) - 1
  <2> SUFFICES BracketEnds(R, b, k, N[<<k, d>>])
    OBVIOUS
  <2>0. Deep(s.stack, open) /\ s.mode \in Plain
    OBVIOUS
  <2>1. k <= n
    <3>1. s.stack # <<>>
      BY DeepStack
    <3>2. s.mode # "end"
      <4>1. k - 1 \in 0..n
        BY <1>1
      <4> QED BY <3>1, <4>1 DEF Sound, Fit
    <3> QED BY <3>2, NotOver
  <2>2. /\ c \in STRING /\ R[k] = Step(s, c) /\ s \in State /\ s.mode # "dead" /\ s.pos + 1 = k /\ Fit(s)
        /\ R[k] \in State /\ R[k].mode # "dead"
    BY <2>1, SoundStep
  <2>3. /\ c \notin Close => Kept(R[k], s)
        /\ c \notin {Quote} \cup Open \cup Close => R[k].mode \in Plain /\ R[k].stack = s.stack
        /\ c = Quote => R[k].mode \in {"key", "string"} /\ R[k].stack = s.stack
        /\ c \in Open => R[k].mode \in Plain /\ R[k].stack = Append(s.stack, c)
        /\ c \in Close => Matches(s.stack, c) /\ R[k] = CloseTo(s, c, k)
    <3> DEFINE p == s.pos + 1
    <3>1. p = k
      BY <2>2
    <3> HIDE DEF s, c
    <3>2. c \in Close => Matches(s.stack, c) /\ Step(s, c) = CloseTo(s, c, p)
      BY <2>0, <2>2, DeepStep
    <3> QED BY ZenonT(40), <2>0, <2>2, <3>1, <3>2, DeepStep
  <2>4. d \in Int /\ Nested(N, b, close, k, d)
    <3>1. d \in Int
      BY DeepStack
    <3> HIDE DEF d
    <3> QED BY <1>1, <3>1, NestScan DEF N
  <2>5. ASSUME NEW j \in Nat, j > k, j <= n + 1, R[j - 1].mode \in Plain, Deep(R[j - 1].stack, open),
               Kept(R[j - 1], s), N[<<k, d>>] = N[<<j, Len(R[j - 1].stack) - 1>>]
        PROVE  BracketEnds(R, b, k, N[<<k, d>>])
    <3> DEFINE e == N[<<j, Len(R[j - 1].stack) - 1>>]
    <3>1. j \in P /\ j >= 1
      BY <1>2, <2>1, <2>5
    <3>2. BracketEnds(R, b, j, e)
      BY <2>5, <3>1
    <3> HIDE DEF e
    <3>3. Completed(R[j - 1], e) = Completed(s, e)
      BY <2>5 DEF Completed, Kept
    <3>4. e \in Nat /\ k < e
      BY <2>5, <3>2 DEF BracketEnds
    <3>5. BracketEnds(R, b, k, e)
      BY <3>2, <3>3, <3>4 DEF BracketEnds
    <3> QED BY <2>5, <3>5 DEF e
  <2>6. k + 1 \in Nat /\ k + 1 > k /\ k + 1 <= n + 1 /\ (k + 1) - 1 = k
    BY <1>1, <2>1
  <2>7. CASE c \notin {Quote} \cup Open \cup Close
    <3>1. N[<<k, d>>] = N[<<k + 1, d>>]
      BY <2>1, <2>4, <2>7 DEF Nested
    <3>2. R[k].mode \in Plain /\ R[k].stack = s.stack /\ Kept(R[k], s)
      BY <2>3, <2>7
    <3> QED BY <2>5, <2>6, <3>1, <3>2
  <2>8. CASE c \in Open
    <3>1. N[<<k, d>>] = N[<<k + 1, d + 1>>]
      BY <2>1, <2>4, <2>8 DEF Nested
    <3>2. R[k].mode \in Plain /\ R[k].stack = Append(s.stack, c) /\ Kept(R[k], s)
      BY <2>3, <2>8, Brackets
    <3>3. Deep(Append(s.stack, c), open) /\ Len(Append(s.stack, c)) = Len(s.stack) + 1 /\ Len(s.stack) \in Nat
      BY <2>8, DeepStack
    <3>4. d + 1 = Len(R[k].stack) - 1
      BY <3>2, <3>3
    <3> HIDE DEF d
    <3> QED BY <2>5, <2>6, <3>1, <3>2, <3>3, <3>4
  <2>9. CASE c \in Close
    <3>1. N[<<k, d>>] = IF c = close /\ d = 1 THEN k + 1 ELSE N[<<k + 1, d - 1>>]
      BY <2>1, <2>4, <2>9 DEF Nested
    <3>2. Matches(s.stack, c) /\ R[k] = EndTo(s, Front(s.stack), k, s.from)
      BY <2>3, <2>9 DEF CloseTo
    <3>3. CASE Len(s.stack) = 2
      <4>1. Front(s.stack) = <<LBrace>> /\ Last(s.stack) = open /\ d = 1
        <5>1. d = 1
          BY <3>3
        <5> HIDE DEF s, d
        <5> QED BY <2>0, <3>3, <5>1, DeepStack
      <4>2. c = close
        BY <3>2, <4>1, PairUnits DEF Matches, Pairs
      <4>3. R[k] = Completed(s, k + 1)
        <5>1. R[k] = EndTo(s, <<LBrace>>, k, s.from)
          BY <3>2, <4>1
        <5>2. (k + 1) - 1 = k
          BY <2>6
        <5> HIDE DEF s
        <5> QED BY <5>1, <5>2 DEF Completed, EndTo, EndMode, EndMembers
      <4>4. N[<<k, d>>] = k + 1
        BY <3>1, <4>1, <4>2
      <4>5. BracketEnds(R, b, k, k + 1)
        BY <2>6, <4>3 DEF BracketEnds
      <4> QED BY <4>4, <4>5
    <3>4. CASE Len(s.stack) # 2
      <4>1. Deep(Front(s.stack), open) /\ Len(Front(s.stack)) = Len(s.stack) - 1 /\ Len(s.stack) \in Nat
        BY <3>4, DeepStack
      <4>2. d # 1 /\ d - 1 = Len(Front(s.stack)) - 1
        BY <3>4, <4>1
      <4>3. R[k] = Mk("after", Front(s.stack), k, s.key, s.from, s.members)
        BY <3>2, <4>1, DeepEnd
      <4>4. R[k].mode \in Plain /\ R[k].stack = Front(s.stack) /\ Kept(R[k], s)
        BY <4>3, MkFields DEF Kept, Plain
      <4>5. N[<<k, d>>] = N[<<k + 1, Len(R[k].stack) - 1>>]
        BY <3>1, <4>2, <4>4
      <4> HIDE DEF d
      <4> QED BY <2>5, <2>6, <4>1, <4>4, <4>5
    <3> QED BY <3>3, <3>4
  <2>10. CASE c = Quote
    <3> DEFINE e == ParseString(b, k)
    <3>1. e = Rest(b)[k + 1]
      BY <1>1, <2>1, <2>10, RestScan
    <3>2. R[k].mode \in {"key", "string"} /\ R[k].stack = s.stack /\ Kept(R[k], s)
      BY <2>3, <2>10, Brackets
    <3>3. StringEnds(R, b, k + 1, e)
      <4>1. k + 1 >= 1
        BY <2>6
      <4> QED BY <2>6, <3>1, <3>2, <4>1, StringRun
    <3>4. e \in Nat /\ e > k /\ e <= n + 1 /\ e # 0
      BY <2>6, <3>3 DEF StringEnds
    <3>5. N[<<k, d>>] = N[<<e, d>>]
      BY <2>1, <2>4, <2>10, <3>4 DEF Nested
    <3>6. R[e - 1].mode \in Plain /\ R[e - 1].stack = s.stack /\ Kept(R[e - 1], s)
      <4>1. CASE R[k].mode = "key"
        <5>1. Collected(R[k], b, k + 1, e) = s.key
          BY <3>2, DeepStack DEF Collected, Kept
        <5>2. R[e - 1] = Mk("colon", s.stack, e - 1, s.key, s.from, s.members)
          BY <2>6, <3>2, <3>3, <4>1, <5>1 DEF StringEnds, Kept
        <5> QED BY <5>2, MkFields DEF Kept, Plain
      <4>2. CASE R[k].mode = "string"
        <5>1. R[e - 1] = EndTo(R[k], R[k].stack, e - 1, R[k].from)
          BY <2>6, <3>3, <4>2 DEF StringEnds
        <5>2. R[e - 1] = Mk("after", s.stack, e - 1, s.key, s.from, s.members)
          <6>1. EndTo(R[k], R[k].stack, e - 1, R[k].from)
                 = Mk("after", R[k].stack, e - 1, R[k].key, R[k].from, R[k].members)
            BY <3>2, DeepEnd
          <6> QED BY <3>2, <5>1, <6>1 DEF Kept
        <5> QED BY <5>2, MkFields DEF Kept, Plain
      <4> QED BY <3>2, <4>1, <4>2
    <3> HIDE DEF e
    <3> QED BY <2>5, <3>4, <3>5, <3>6
  <2> QED BY <2>7, <2>8, <2>9, <2>10
<1> HIDE DEF P, n
<1>3. \A k \in Nat : k \in P
  BY <1>1, <1>2, Backwards
<1> QED BY <1>3 DEF P, N

(***************************************************************************)
(* Every part of the scanner goes forward, whatever the text.              *)
(***************************************************************************)
LEMMA SkipWsForward ==
  ASSUME NEW b \in Text
  PROVE  \A k \in Nat : SkipWs(b, k) \in Nat /\ SkipWs(b, k) >= k
<1> DEFINE n == Len(b)
           P == {k \in Nat : SkipWs(b, k) \in Nat /\ SkipWs(b, k) >= k}
<1>1. n \in Nat
  BY DEF Text
<1>2. ASSUME NEW k \in Nat, k <= n => \A m \in Nat : m > k => m \in P PROVE k \in P
  <2>1. CASE k <= n /\ b[k] \in White
    <3>1. SkipWs(b, k) = SkipWs(b, k + 1)
      BY <2>1, SkipWsScan
    <3>2. k + 1 \in P
      BY <1>2, <2>1
    <3> QED BY <3>1, <3>2
  <2>2. CASE ~(k <= n /\ b[k] \in White)
    BY <2>2, SkipWsScan
  <2> QED BY <2>1, <2>2
<1> HIDE DEF n, P
<1>3. \A k \in Nat : k \in P
  BY <1>1, <1>2, Backwards
<1> QED BY <1>3 DEF P

(* Over a token. *)
LEMMA SkipTokenForward ==
  ASSUME NEW b \in Text
  PROVE  \A k \in Nat : SkipToken(b, k) \in Nat /\ SkipToken(b, k) >= k
<1> DEFINE n == Len(b)
           P == {k \in Nat : SkipToken(b, k) \in Nat /\ SkipToken(b, k) >= k}
<1>1. n \in Nat
  BY DEF Text
<1>2. ASSUME NEW k \in Nat, k <= n => \A m \in Nat : m > k => m \in P PROVE k \in P
  <2>1. CASE k <= n /\ b[k] \notin Delimiters
    <3>1. SkipToken(b, k) = SkipToken(b, k + 1)
      BY <2>1, SkipTokenScan
    <3>2. k + 1 \in P
      BY <1>2, <2>1
    <3> QED BY <3>1, <3>2
  <2>2. CASE ~(k <= n /\ b[k] \notin Delimiters)
    BY <2>2, SkipTokenScan
  <2> QED BY <2>1, <2>2
<1> HIDE DEF n, P
<1>3. \A k \in Nat : k \in P
  BY <1>1, <1>2, Backwards
<1> QED BY <1>3 DEF P

Forward(e, k) == e \in Nat /\ (e = 0 \/ e > k)

(* Over a string, or it fails with 0. *)
LEMMA ParseStringForward ==
  ASSUME NEW b \in Text
  PROVE  \A k \in Nat : Forward(ParseString(b, k), k)
<1> TAKE k \in Nat
<1>1. ParseString(b, k) = IF k <= Len(b) /\ b[k] = Quote THEN Rest(b)[k + 1] ELSE 0
  BY RestScan
<1>2. Rest(b)[k + 1] \in Nat /\ (Rest(b)[k + 1] = 0 \/ Rest(b)[k + 1] > k + 1)
  BY RestAdvances
<1>3. CASE k <= Len(b) /\ b[k] = Quote
  BY <1>1, <1>2, <1>3 DEF Forward
<1>4. CASE ~(k <= Len(b) /\ b[k] = Quote)
  BY <1>1, <1>4 DEF Forward
<1> QED BY <1>3, <1>4

(* Over brackets, or it fails with 0. *)
LEMMA NestForward ==
  ASSUME NEW b \in Text, NEW close
  PROVE  \A k \in Nat : \A d \in Int : Forward(Nest(b, close)[<<k, d>>], k)
<1> DEFINE n == Len(b)
           N == Nest(b, close)
           P == {k \in Nat : \A d \in Int : Forward(N[<<k, d>>], k)}
<1>1. n \in Nat
  BY DEF Text
<1> HIDE DEF N
<1>2. ASSUME NEW k \in Nat, k <= n => \A m \in Nat : m > k => m \in P PROVE k \in P
  <2> SUFFICES ASSUME NEW d \in Int PROVE Forward(N[<<k, d>>], k)
    OBVIOUS
  <2>1. Nested(N, b, close, k, d)
    BY NestScan DEF N
  <2>2. ASSUME NEW j \in Nat, j > k, NEW e \in Int, k <= n PROVE Forward(N[<<j, e>>], k)
    <3>1. j \in P
      BY <1>2, <2>2
    <3>2. Forward(N[<<j, e>>], j)
      BY <3>1
    <3> QED BY <2>2, <3>2 DEF Forward
  <2>3. Forward(0, k) /\ Forward(k + 1, k) /\ k + 1 \in Nat /\ k + 1 > k /\ d + 1 \in Int /\ d - 1 \in Int
    BY DEF Forward
  <2>4. CASE k > n
    BY <2>1, <2>3, <2>4 DEF Nested
  <2>5. CASE k <= n /\ b[k] = Quote
    <3>1. N[<<k, d>>] = IF ParseString(b, k) = 0 THEN 0 ELSE N[<<ParseString(b, k), d>>]
      BY <2>1, <2>5 DEF Nested
    <3>2. ParseString(b, k) \in Nat /\ (ParseString(b, k) = 0 \/ ParseString(b, k) > k)
      BY ParseStringForward DEF Forward
    <3> QED BY <2>2, <2>3, <2>5, <3>1, <3>2
  <2>6. CASE k <= n /\ b[k] \in Open
    BY <2>1, <2>2, <2>3, <2>6 DEF Nested
  <2>7. CASE k <= n /\ b[k] \in Close
    BY <2>1, <2>2, <2>3, <2>7 DEF Nested
  <2>8. CASE k <= n /\ b[k] \notin {Quote} \cup Open \cup Close
    BY <2>1, <2>2, <2>3, <2>8 DEF Nested
  <2> QED BY <1>1, <2>4, <2>5, <2>6, <2>7, <2>8
<1> HIDE DEF n, P
<1>3. \A k \in Nat : k \in P
  BY <1>1, <1>2, Backwards
<1> QED BY <1>3 DEF P, N

(* SkipValue by the first unit of the value. *)
LEMMA SkipValueIs ==
  \A b, pos : LET i == SkipWs(b, pos) IN
    /\ At(b, i) = "end" => SkipValue(b, pos) = 0
    /\ At(b, i) = Quote => SkipValue(b, pos) = ParseString(b, i)
    /\ At(b, i) = LBrace => SkipValue(b, pos) = SkipBrackets(b, i + 1, RBrace)
    /\ At(b, i) = LBracket => SkipValue(b, pos) = SkipBrackets(b, i + 1, RBracket)
    /\ At(b, i) \notin {"end", Quote, LBrace, LBracket} => SkipValue(b, pos) = SkipToken(b, i)
<1>1. "end" \notin {Quote, LBrace, LBracket}
  BY Zenon DEF Quote, LBrace, LBracket
<1> QED BY <1>1, Units DEF SkipValue

(* Over a value, or it fails with 0. *)
LEMMA SkipValueForward ==
  ASSUME NEW b \in Text
  PROVE  \A k \in Nat : SkipValue(b, k) \in Nat /\ (SkipValue(b, k) = 0 \/ SkipValue(b, k) >= k)
<1> TAKE k \in Nat
<1> DEFINE i == SkipWs(b, k)
<1>1. i \in Nat /\ i >= k
  BY SkipWsForward
<1>2. /\ At(b, i) = "end" => SkipValue(b, k) = 0
      /\ At(b, i) = Quote => SkipValue(b, k) = ParseString(b, i)
      /\ At(b, i) = LBrace => SkipValue(b, k) = SkipBrackets(b, i + 1, RBrace)
      /\ At(b, i) = LBracket => SkipValue(b, k) = SkipBrackets(b, i + 1, RBracket)
      /\ At(b, i) \notin {"end", Quote, LBrace, LBracket} => SkipValue(b, k) = SkipToken(b, i)
  BY SkipValueIs
<1> HIDE DEF i
<1>3. Forward(ParseString(b, i), i) /\ SkipToken(b, i) \in Nat /\ SkipToken(b, i) >= i
  BY <1>1, ParseStringForward, SkipTokenForward
<1>4. \A c : Forward(SkipBrackets(b, i + 1, c), i + 1)
  <2> TAKE c
  <2>1. SkipBrackets(b, i + 1, c) = Nest(b, c)[<<i + 1, 1>>]
    BY NestScan
  <2> QED BY <1>1, <2>1, NestForward
<1> QED BY <1>1, <1>2, <1>3, <1>4 DEF Forward

(***************************************************************************)
(* How a reader takes the value of a key.                                  *)
(***************************************************************************)
LEMMA ReadValueIs ==
  ASSUME NEW strings, NEW tokens, strings \cap tokens = {}
  PROVE  \A b, i, key :
    /\ key \in strings => ReadValue(b, i, key, strings, tokens) = ParseString(b, i)
    /\ key \notin strings /\ key \in tokens /\ At(b, i) = Quote
         => ReadValue(b, i, key, strings, tokens) = ParseString(b, i)
    /\ key \notin strings /\ key \in tokens /\ At(b, i) # Quote
         => ReadValue(b, i, key, strings, tokens) = IF SkipToken(b, i) = i THEN 0 ELSE SkipToken(b, i)
    /\ key \notin strings /\ key \notin tokens
         => ReadValue(b, i, key, strings, tokens) = SkipValue(b, i)
<1> TAKE b, i, key
<1>1. ~(key \in strings /\ key \in tokens)
  OBVIOUS
<1> QED BY <1>1 DEF ReadValue

(* Over a value that is read, or it fails with 0. *)
LEMMA ReadValueForward ==
  ASSUME NEW b \in Text, NEW strings, NEW tokens, strings \cap tokens = {}, NEW k \in Nat, NEW key
  PROVE  LET e == ReadValue(b, k, key, strings, tokens) IN e \in Nat /\ (e = 0 \/ e >= k)
<1>1. Forward(ParseString(b, k), k) /\ SkipToken(b, k) \in Nat /\ SkipToken(b, k) >= k
      /\ SkipValue(b, k) \in Nat /\ (SkipValue(b, k) = 0 \/ SkipValue(b, k) >= k)
  BY ParseStringForward, SkipTokenForward, SkipValueForward
<1> QED BY <1>1, ReadValueIs DEF Forward
-----------------------------------------------------------------------------
(***************************************************************************)
(* The loop over the members of an object.                                 *)
(***************************************************************************)
KeyAt(b, i) == SkipWs(b, i)
KeyEnd(b, i) == ParseString(b, KeyAt(b, i))
KeyOf(b, i) == SubSeq(b, KeyAt(b, i) + 1, KeyEnd(b, i) - 2)
ColonAt(b, i) == SkipWs(b, KeyEnd(b, i))
ValueAt(b, i) == SkipWs(b, ColonAt(b, i) + 1)
ValueEnd(b, strings, tokens, i) == ReadValue(b, ValueAt(b, i), KeyOf(b, i), strings, tokens)
CommaAt(b, strings, tokens, i) == SkipWs(b, ValueEnd(b, strings, tokens, i))

Stopped(closed) == [members |-> <<>>, closed |-> closed]
MemberAt(b, strings, tokens, i) ==
  [key |-> KeyOf(b, i), from |-> ValueAt(b, i), to |-> ValueEnd(b, strings, tokens, i) - 1]
Prepend(r, m) == [r EXCEPT !.members = <<m>> \o @]
Results == [members : Seq(Entries), closed : BOOLEAN]

LoopBody(g, b, strings, tokens, i) ==
  IF At(b, KeyAt(b, i)) = RBrace THEN Stopped(TRUE)
  ELSE IF KeyEnd(b, i) = 0 THEN Stopped(FALSE)
  ELSE IF At(b, ColonAt(b, i)) = Colon
    THEN IF ValueEnd(b, strings, tokens, i) = 0 THEN Stopped(FALSE)
         ELSE Prepend(IF At(b, CommaAt(b, strings, tokens, i)) = Comma
                        THEN g[CommaAt(b, strings, tokens, i) + 1]
                        ELSE Stopped(At(b, CommaAt(b, strings, tokens, i)) = RBrace),
                      MemberAt(b, strings, tokens, i))
    ELSE Stopped(FALSE)

Loop(b, strings, tokens) ==
  CHOOSE scan : scan = [i \in Nat |-> LoopBody(scan, b, strings, tokens, i)]

(* Members is that loop, from the first brace on. *)
LEMMA MembersIs ==
  \A b, strings, tokens :
    Members(b, strings, tokens) = IF At(b, SkipWs(b, 1)) = LBrace
                                    THEN Loop(b, strings, tokens)[SkipWs(b, 1) + 1]
                                    ELSE Stopped(FALSE)
BY DEF Members, Loop, LoopBody, Stopped, Prepend, MemberAt, KeyAt, KeyEnd, KeyOf, ColonAt, ValueAt,
       ValueEnd, CommaAt

(* A string ends within the text. *)
LEMMA RestBound ==
  ASSUME NEW b \in Text
  PROVE  \A k \in Nat : Rest(b)[k] <= Len(b) + 1
<1> DEFINE n == Len(b)
           P == {k \in Nat : Rest(b)[k] <= Len(b) + 1}
<1>1. n \in Nat
  BY DEF Text
<1>2. ASSUME NEW k \in Nat, k <= n => \A m \in Nat : m > k => m \in P PROVE k \in P
  <2>1. CASE k > n
    BY <1>1, <2>1, RestScan
  <2>2. CASE k <= n /\ b[k] = Backslash
    <3>1. Rest(b)[k] = Rest(b)[k + 2]
      BY <1>1, <2>2, RestScan
    <3>2. k + 2 \in P
      BY <1>2, <2>2
    <3> QED BY <3>1, <3>2
  <2>3. CASE k <= n /\ b[k] # Backslash /\ b[k] = Quote
    BY <1>1, <2>3, RestScan
  <2>4. CASE k <= n /\ b[k] # Backslash /\ b[k] # Quote
    <3>1. Rest(b)[k] = Rest(b)[k + 1]
      BY <1>1, <2>4, RestScan
    <3>2. k + 1 \in P
      BY <1>2, <2>4
    <3> QED BY <3>1, <3>2
  <2> QED BY <1>1, <2>1, <2>2, <2>3, <2>4
<1> HIDE DEF n, P
<1>3. \A k \in Nat : k \in P
  BY <1>1, <1>2, Backwards
<1> QED BY <1>3 DEF P

(***************************************************************************)
(* Where the loop reads a member, and how far it then is.                  *)
(***************************************************************************)
LEMMA MemberForward ==
  ASSUME NEW b \in Text, NEW strings, NEW tokens, strings \cap tokens = {}, NEW i \in Nat,
         KeyEnd(b, i) # 0, ValueEnd(b, strings, tokens, i) # 0
  PROVE  /\ i <= Len(b)
         /\ MemberAt(b, strings, tokens, i) \in Entries
         /\ CommaAt(b, strings, tokens, i) \in Nat /\ CommaAt(b, strings, tokens, i) > i
<1> DEFINE n == Len(b)
           j == KeyAt(b, i)
           k == KeyEnd(b, i)
           c == ColonAt(b, i)
           v == ValueAt(b, i)
           e == ValueEnd(b, strings, tokens, i)
           d == CommaAt(b, strings, tokens, i)
<1>1. n \in Nat
  BY DEF Text
<1>2. j \in Nat /\ j >= i
  BY SkipWsForward DEF KeyAt
<1>3. j <= n /\ k = Rest(b)[j + 1]
  BY <1>1, <1>2, RestScan DEF KeyEnd
<1>4. k \in Nat /\ k > j + 1 /\ k <= n + 1
  <2>1. j + 1 \in Nat
    BY <1>2
  <2> HIDE DEF j, k, n
  <2> QED BY <1>3, <2>1, RestAdvances, RestBound DEF k, n
<1>5. c \in Nat /\ c >= k
  BY <1>4, SkipWsForward DEF ColonAt
<1>6. v \in Nat /\ v >= c + 1
  BY <1>5, SkipWsForward DEF ValueAt
<1>7. e \in Nat /\ e >= v
  BY <1>6, ReadValueForward DEF ValueEnd
<1>8. d \in Nat /\ d >= e
  BY <1>7, SkipWsForward DEF CommaAt
<1>9. KeyOf(b, i) \in Seq(STRING)
  <2> DEFINE p == j + 1
             q == k - 2
  <2>1. p \in Nat /\ p >= 1 /\ q \in Int /\ q <= n
    BY <1>1, <1>2, <1>4
  <2> HIDE DEF p, q, n
  <2>2. SubSeq(b, p, q) \in Seq(STRING)
    BY <2>1 DEF Text, n
  <2> QED BY <2>2 DEF KeyOf, p, q
<1> HIDE DEF n, j, k, c, v, e, d
<1>10. [key |-> KeyOf(b, i), from |-> v, to |-> e - 1] \in Entries
  BY <1>6, <1>7, <1>9 DEF Entries
<1>11. i <= n
  BY <1>1, <1>2, <1>3
<1>12. d > i
  BY <1>2, <1>4, <1>5, <1>6, <1>7, <1>8
<1> QED BY <1>8, <1>10, <1>11, <1>12 DEF MemberAt, n, v, e, d

(* Prepend, told by fields. *)
LEMMA PrependIs ==
  \A ms, closed, m : Prepend([members |-> ms, closed |-> closed], m)
                       = [members |-> <<m>> \o ms, closed |-> closed]
<1> TAKE ms, closed, m
<1> DEFINE r == [members |-> ms, closed |-> closed]
           x == <<m>> \o ms
<1>1. r.members = ms
  OBVIOUS
<1>2. Prepend(r, m) = [r EXCEPT !.members = x]
  BY <1>1 DEF Prepend
<1> HIDE DEF x
<1>3. [r EXCEPT !.members = x] = [members |-> x, closed |-> closed]
  OBVIOUS
<1> QED BY <1>2, <1>3 DEF x

(* What the loop can return. *)
LEMMA ResultIs ==
  /\ \A ms \in Seq(Entries), closed \in BOOLEAN : [members |-> ms, closed |-> closed] \in Results
  /\ \A closed \in BOOLEAN : Stopped(closed) \in Results
  /\ \A r \in Results : r = [members |-> r.members, closed |-> r.closed]
                          /\ r.members \in Seq(Entries) /\ r.closed \in BOOLEAN
  /\ \A r \in Results, m \in Entries : Prepend(r, m) \in Results
<1>1. \A ms \in Seq(Entries), closed \in BOOLEAN : [members |-> ms, closed |-> closed] \in Results
  BY DEF Results
<1>2. \A r \in Results : r = [members |-> r.members, closed |-> r.closed]
                          /\ r.members \in Seq(Entries) /\ r.closed \in BOOLEAN
  BY DEF Results
<1>3. <<>> \in Seq(Entries)
  OBVIOUS
<1>4. \A r \in Results, m \in Entries : Prepend(r, m) \in Results
  <2> TAKE r \in Results, m \in Entries
  <2>1. Prepend(r, m) = [members |-> <<m>> \o r.members, closed |-> r.closed]
    <3> DEFINE ms == r.members
               closed == r.closed
    <3>1. r = [members |-> ms, closed |-> closed]
      BY <1>2
    <3> HIDE DEF ms, closed
    <3>2. Prepend(r, m) = [members |-> <<m>> \o ms, closed |-> closed]
      BY <3>1, PrependIs
    <3> QED BY <3>2 DEF ms, closed
  <2>2. <<m>> \o r.members \in Seq(Entries)
    <3> DEFINE ms == r.members
    <3>1. ms \in Seq(Entries)
      BY <1>2
    <3> HIDE DEF ms
    <3>2. <<m>> \in Seq(Entries)
      OBVIOUS
    <3>3. <<m>> \o ms \in Seq(Entries)
      BY <3>1, <3>2
    <3> QED BY <3>3 DEF ms
  <2> QED BY <1>1, <1>2, <2>1, <2>2
<1> QED BY <1>1, <1>2, <1>3, <1>4 DEF Stopped

(***************************************************************************)
(* The loop as a case distinction without nesting.                         *)
(***************************************************************************)
Looped(g, b, strings, tokens, i) ==
  LET comma == CommaAt(b, strings, tokens, i)
      m == MemberAt(b, strings, tokens, i)
  IN
  /\ At(b, KeyAt(b, i)) = RBrace => g[i] = Stopped(TRUE)
  /\ At(b, KeyAt(b, i)) # RBrace =>
       /\ KeyEnd(b, i) = 0 \/ At(b, ColonAt(b, i)) # Colon \/ ValueEnd(b, strings, tokens, i) = 0
            => g[i] = Stopped(FALSE)
       /\ KeyEnd(b, i) # 0 /\ At(b, ColonAt(b, i)) = Colon /\ ValueEnd(b, strings, tokens, i) # 0
            => /\ At(b, comma) = Comma => g[i] = Prepend(g[comma + 1], m)
               /\ At(b, comma) # Comma => g[i] = Prepend(Stopped(At(b, comma) = RBrace), m)

(* It is the same. *)
LEMMA LoopedIs ==
  ASSUME NEW g, NEW b, NEW strings, NEW tokens, NEW i
  PROVE  Looped(g, b, strings, tokens, i) <=> g[i] = LoopBody(g, b, strings, tokens, i)
<1> DEFINE comma == CommaAt(b, strings, tokens, i)
           m == MemberAt(b, strings, tokens, i)
           a == At(b, KeyAt(b, i))
           k == KeyEnd(b, i)
           c == At(b, ColonAt(b, i))
           e == ValueEnd(b, strings, tokens, i)
           d == At(b, comma)
           y == g[comma + 1]
<1>1. LoopBody(g, b, strings, tokens, i)
        = IF a = RBrace THEN Stopped(TRUE)
          ELSE IF k = 0 THEN Stopped(FALSE)
          ELSE IF c = Colon THEN IF e = 0 THEN Stopped(FALSE)
                                 ELSE Prepend(IF d = Comma THEN y ELSE Stopped(d = RBrace), m)
          ELSE Stopped(FALSE)
  BY DEF LoopBody
<1>2. Looped(g, b, strings, tokens, i) <=>
        /\ a = RBrace => g[i] = Stopped(TRUE)
        /\ a # RBrace =>
             /\ k = 0 \/ c # Colon \/ e = 0 => g[i] = Stopped(FALSE)
             /\ k # 0 /\ c = Colon /\ e # 0
                  => /\ d = Comma => g[i] = Prepend(y, m)
                     /\ d # Comma => g[i] = Prepend(Stopped(d = RBrace), m)
  BY DEF Looped
<1> HIDE DEF comma, m, a, k, c, e, d, y
<1>3. CASE d = Comma
  BY <1>1, <1>2, <1>3
<1>4. CASE d # Comma
  BY <1>1, <1>2, <1>4
<1> QED BY <1>3, <1>4

(* The loop has a solution: each round starts further on. *)
LEMMA LoopScan ==
  ASSUME NEW b \in Text, NEW strings, NEW tokens, strings \cap tokens = {}
  PROVE  \A i \in Nat : Looped(Loop(b, strings, tokens), b, strings, tokens, i)
<1> DEFINE n == Len(b)
           Comma1(i) == CommaAt(b, strings, tokens, i)
           Item(i) == MemberAt(b, strings, tokens, i)
           Reads(i) == /\ At(b, KeyAt(b, i)) # RBrace /\ KeyEnd(b, i) # 0
                       /\ At(b, ColonAt(b, i)) = Colon /\ ValueEnd(b, strings, tokens, i) # 0
           More(i) == Reads(i) /\ At(b, Comma1(i)) = Comma
           stop == {i \in Nat : ~More(i)}
           Done(i) == IF Reads(i) THEN Prepend(Stopped(At(b, Comma1(i)) = RBrace), Item(i))
                      ELSE Stopped(At(b, KeyAt(b, i)) = RBrace)
           val == [i \in Nat |-> Done(i)]
           next == [i \in Nat |-> IF More(i) THEN Comma1(i) + 1 ELSE i]
           left == [i \in Nat |-> IF i > n THEN 0 ELSE n + 1 - i]
           join == [i \in Nat |-> [r \in Results |-> IF More(i) THEN Prepend(r, Item(i)) ELSE r]]
           F(g) == [i \in Nat |-> LoopBody(g, b, strings, tokens, i)]
<1>1. n \in Nat
  BY DEF Text
<1>2. \A i \in Nat : Reads(i) => i <= n /\ Item(i) \in Entries /\ Comma1(i) \in Nat /\ Comma1(i) > i
  BY MemberForward
<1> HIDE DEF n, Comma1, Item
<1>3. \A i \in Nat : Done(i) \in Results
  <2> TAKE i \in Nat
  <2>1. CASE Reads(i)
    BY <1>2, <2>1, ResultIs
  <2>2. CASE ~Reads(i)
    <3>1. Done(i) = Stopped(At(b, KeyAt(b, i)) = RBrace)
      BY <2>2
    <3> HIDE DEF Done
    <3> QED BY <3>1, ResultIs
  <2> QED BY <2>1, <2>2
<1> HIDE DEF Reads
<1>4. \A i \in Nat : More(i) => Reads(i)
  OBVIOUS
<1> HIDE DEF More, Done
<1>5. val \in [Nat -> Results] /\ stop \in SUBSET Nat
  BY <1>3
<1>6. next \in [Nat -> Nat]
  <2>1. \A i \in Nat : (IF More(i) THEN Comma1(i) + 1 ELSE i) \in Nat
    BY <1>2, <1>4
  <2> QED BY <2>1
<1>7. left \in [Nat -> 0..(n + 1)]
  <2>1. \A i \in Nat : (IF i > n THEN 0 ELSE n + 1 - i) \in 0..(n + 1)
    BY <1>1
  <2> QED BY <2>1
<1>8. join \in [Nat -> [Results -> Results]]
  <2>1. \A i \in Nat, r \in Results : (IF More(i) THEN Prepend(r, Item(i)) ELSE r) \in Results
    BY <1>2, <1>4, ResultIs
  <2> QED BY <2>1
<1>9. \A i \in Nat \ stop : left[next[i]] < left[i]
  <2> TAKE i \in Nat \ stop
  <2>1. i \in Nat /\ More(i)
    OBVIOUS
  <2>2. i <= n /\ Comma1(i) \in Nat /\ Comma1(i) > i
    BY <1>2, <1>4, <2>1
  <2>3. next[i] = Comma1(i) + 1 /\ next[i] \in Nat
    BY <2>1, <2>2
  <2>4. left[i] = n + 1 - i
    BY <1>1, <2>1, <2>2
  <2>5. left[next[i]] = IF next[i] > n THEN 0 ELSE n + 1 - next[i]
    BY <2>3
  <2> HIDE DEF left, next
  <2> QED BY <1>1, <2>1, <2>2, <2>3, <2>4, <2>5
<1>10. PICK g \in [Nat -> Results] :
         \A i \in Nat : g[i] = IF i \in stop THEN val[i] ELSE join[i][g[next[i]]]
  <2> DEFINE S == Nat
             N == n + 1
  <2>1. N \in Nat
    BY <1>1
  <2> HIDE DEF stop, val, next, left, join
  <2>2. Shrinks(S, Results, N, left, stop, val, next, join)
    BY <1>5, <1>6, <1>7, <1>8, <1>9, <2>1 DEF Shrinks
  <2> HIDE DEF S, N
  <2>3. \E g \in [S -> Results] : \A i \in S : g[i] = IF i \in stop THEN val[i] ELSE join[i][g[next[i]]]
    BY <2>2, Recursion
  <2> QED BY <2>3 DEF S
<1>11. ASSUME NEW i \in Nat PROVE Looped(g, b, strings, tokens, i)
  <2>1. g[i] = IF More(i) THEN Prepend(g[Comma1(i) + 1], Item(i)) ELSE Done(i)
    <3>1. CASE More(i)
      <4>1. i \notin stop /\ next[i] = Comma1(i) + 1 /\ next[i] \in Nat
        BY <1>6, <3>1
      <4>2. g[next[i]] \in Results
        BY <4>1
      <4>3. join[i][g[next[i]]] = Prepend(g[next[i]], Item(i))
        BY <3>1, <4>2
      <4> HIDE DEF stop, val, next, join
      <4> QED BY <1>10, <3>1, <4>1, <4>3
    <3>2. CASE ~More(i)
      <4>1. i \in stop /\ val[i] = Done(i)
        BY <3>2
      <4> HIDE DEF stop, val, next, join
      <4> QED BY <1>10, <3>2, <4>1
    <3> QED BY <3>1, <3>2
  <2> DEFINE a == At(b, KeyAt(b, i))
             k == KeyEnd(b, i)
             c == At(b, ColonAt(b, i))
             e == ValueEnd(b, strings, tokens, i)
             d == At(b, Comma1(i))
             y == g[Comma1(i) + 1]
             m == Item(i)
  <2>2. /\ More(i) <=> Reads(i) /\ d = Comma
        /\ Reads(i) <=> a # RBrace /\ k # 0 /\ c = Colon /\ e # 0
        /\ Done(i) = IF Reads(i) THEN Prepend(Stopped(d = RBrace), m) ELSE Stopped(a = RBrace)
    BY DEF More, Reads, Done
  <2>3. Looped(g, b, strings, tokens, i) <=>
        /\ a = RBrace => g[i] = Stopped(TRUE)
        /\ a # RBrace =>
             /\ k = 0 \/ c # Colon \/ e = 0 => g[i] = Stopped(FALSE)
             /\ k # 0 /\ c = Colon /\ e # 0
                  => /\ d = Comma => g[i] = Prepend(y, m)
                     /\ d # Comma => g[i] = Prepend(Stopped(d = RBrace), m)
    BY DEF Looped, Comma1, Item
  <2> HIDE DEF a, k, c, e, d, y, m
  <2>4. g[i] = IF More(i) THEN Prepend(y, m) ELSE Done(i)
    BY <2>1 DEF y, m
  <2>5. CASE Reads(i)
    BY <2>2, <2>3, <2>4, <2>5
  <2>6. CASE ~Reads(i)
    <3>1. g[i] = Stopped(a = RBrace)
      BY <2>2, <2>4, <2>6
    <3>2. a = RBrace => (a = RBrace) = TRUE
      OBVIOUS
    <3>3. a # RBrace => (a = RBrace) = FALSE
      OBVIOUS
    <3> QED BY <2>2, <2>3, <2>6, <3>1, <3>2, <3>3
  <2> QED BY <2>5, <2>6
<1>12. g = F(g)
  <2>1. \A i \in Nat : g[i] = LoopBody(g, b, strings, tokens, i)
    BY <1>11, LoopedIs
  <2> QED BY <2>1
<1>13. Loop(b, strings, tokens) = F(Loop(b, strings, tokens))
  BY <1>12 DEF Loop
<1>14. \A i \in Nat : Loop(b, strings, tokens)[i] = LoopBody(Loop(b, strings, tokens), b, strings, tokens, i)
  BY <1>13
<1> QED BY <1>14, LoopedIs

(* A unit, or the end. *)
LEMMA AtIs ==
  ASSUME NEW b \in Text
  PROVE  /\ \A i \in Nat : i >= 1 /\ i <= Len(b) => At(b, i) = b[i]
         /\ \A i \in Nat : i > Len(b) => At(b, i) = "end"
BY DEF At, Text

(* The end is no unit. *)
LEMMA EndUnit == "end" \notin {Quote, LBrace, RBrace, LBracket, RBracket, Comma, Colon} /\ "end" \notin Scalars
BY Zenon DEF Quote, LBrace, RBrace, LBracket, RBracket, Comma, Colon, Scalars

(***************************************************************************)
(* The value of a member of the outermost object.                          *)
(***************************************************************************)
ValueEnds(R, b, v, e) ==
  /\ e \in Nat /\ v < e /\ e <= Len(b) + 1
  /\ R[e - 1] = Completed(SetFrom(R[v - 1], v), e)

ValueStarts(R, b, v) ==
  /\ v \in Nat /\ v >= 1 /\ v <= Len(b)
  /\ R[v - 1].mode = "value" /\ R[v - 1].stack = <<LBrace>> /\ b[v] \notin White

(* A bracket opens in the outermost object. *)
LEMMA TwoOpen ==
  ASSUME NEW c \in Open
  PROVE  Deep(Append(<<LBrace>>, c), c) /\ Len(Append(<<LBrace>>, c)) = 2
<1> DEFINE base == <<LBrace>>
           st == Append(base, c)
<1>1. base \in Seq(Open) /\ Len(base) = 1 /\ base[1] = LBrace
  BY DEF Open
<1>2. ASSUME NEW x \in Seq(Open), Len(x) = 1
      PROVE  LET y == Append(x, c) IN y \in Seq(Open) /\ Len(y) = 2 /\ y[1] = x[1] /\ y[2] = c
  <2>1. Append(x, c) \in Seq(Open) /\ Len(Append(x, c)) = 2
    BY SMTT(30), <1>2
  <2>2. Append(x, c)[1] = x[1] /\ Append(x, c)[2] = c
    <3>1. \A i \in 1..Len(x) : Append(x, c)[i] = x[i]
      BY AppendProperties
    <3>2. Append(x, c)[Len(x) + 1] = c
      BY AppendProperties
    <3>3. 1 \in 1..Len(x) /\ Len(x) + 1 = 2
      BY <1>2
    <3> QED BY <3>1, <3>2, <3>3
  <2> QED BY <2>1, <2>2
<1>3. st \in Seq(Open) /\ Len(st) = 2 /\ st[1] = LBrace /\ st[2] = c
  <2> HIDE DEF base
  <2> QED BY <1>1, <1>2
<1> QED BY <1>3 DEF Deep, base

(* SkipValue ends where the automaton sees the value end. *)
LEMMA ValueRun ==
  ASSUME NEW R, NEW b, Sound(R, b), NEW v, ValueStarts(R, b, v)
  PROVE  /\ b[v] \in {Quote} \cup Open \cup Scalars
         /\ ValueEnds(R, b, v, SkipValue(b, v))
         /\ b[v] = Quote => SkipValue(b, v) = ParseString(b, v)
         /\ b[v] \in Scalars => SkipValue(b, v) = v + 1 /\ SkipToken(b, v) = v + 1
<1> DEFINE n == Len(b)
           s == R[v - 1]
           c == b[v]
           ms == s.members
<1>1. n \in Nat /\ b \in Text
  BY DEF Sound, Text
<1>2. v \in Nat /\ v >= 1 /\ v <= n /\ s.mode = "value" /\ s.stack = <<LBrace>> /\ c \notin White
  BY DEF ValueStarts
<1>3. c \in STRING /\ R[v] = Step(s, c) /\ s \in State /\ s.pos + 1 = v /\ R[v].mode # "dead"
  BY <1>2, SoundStep
<1>4. c \in {Quote} \cup Open \cup Scalars /\ R[v] = ValueTo(s, c, v)
  BY <1>2, <1>3, StepValue DEF WantsValue
<1>5. Began(s.stack, v, s.from) = v
  BY <1>2 DEF Began
<1>6. SkipWs(b, v) = v /\ At(b, v) = c
  BY <1>1, <1>2, SkipWsScan, AtIs
<1>7. /\ c = Quote => SkipValue(b, v) = ParseString(b, v)
      /\ c = LBrace => SkipValue(b, v) = SkipBrackets(b, v + 1, RBrace)
      /\ c = LBracket => SkipValue(b, v) = SkipBrackets(b, v + 1, RBracket)
      /\ c \in Scalars => SkipValue(b, v) = SkipToken(b, v)
  <2>1. c \in Scalars => c \notin {"end", Quote, LBrace, LBracket}
    BY EndUnit, ScalarUnits
  <2> QED BY <1>6, <2>1, SkipValueIs
<1>8. SetFrom(s, v) = Mk(s.mode, s.stack, s.pos, s.key, v, s.members)
  BY <1>3, StateFields, OneField
<1>9. \A e : Completed(SetFrom(s, v), e)
         = Mk("after", <<LBrace>>, e - 1, s.key, v, Append(s.members, [key |-> s.key, from |-> v, to |-> e - 1]))
  BY <1>8, MkFields DEF Completed
<1>10. v + 1 \in Nat /\ v + 1 >= 1 /\ v + 1 <= n + 1 /\ (v + 1) - 1 = v
  BY <1>1, <1>2
<1> DEFINE Done(e) == Mk("after", <<LBrace>>, e - 1, s.key, v, Append(s.members, [key |-> s.key, from |-> v, to |-> e - 1]))
<1>11. \A e \in Nat : v < e /\ e <= n + 1 /\ R[e - 1] = Done(e) => ValueEnds(R, b, v, e)
  BY <1>9 DEF ValueEnds
<1>12. \A r, e : r.key = s.key /\ r.members = s.members => EndTo(r, <<LBrace>>, e - 1, v) = Done(e)
  BY DEF EndTo, EndMode, EndMembers
<1> HIDE DEF s, c, n
<1>13. CASE c = Quote
  <2> DEFINE e == ParseString(b, v)
  <2>1. e = Rest(b)[v + 1]
    BY <1>1, <1>2, <1>13, RestScan DEF n, c
  <2>2. R[v] = Mk("string", s.stack, v, s.key, v, s.members)
    BY <1>4, <1>5, <1>13, Brackets DEF ValueTo
  <2>3. /\ R[v].mode = "string" /\ R[v].stack = <<LBrace>> /\ R[v].key = s.key
        /\ R[v].from = v /\ R[v].members = s.members
    BY <1>2, <2>2, MkFields
  <2>4. StringEnds(R, b, v + 1, e)
    BY <1>10, <2>1, <2>3, StringRun DEF n
  <2>5. e \in Nat /\ v < e /\ e <= n + 1 /\ R[e - 1] = EndTo(R[v], <<LBrace>>, e - 1, v)
    <3>1. v + 1 < e /\ e \in Nat /\ e <= n + 1
      BY <2>4 DEF StringEnds, n
    <3>2. R[v].mode = "string" => R[e - 1] = EndTo(R[v], R[v].stack, e - 1, R[v].from)
      BY <1>10, <2>4 DEF StringEnds
    <3> QED BY <1>2, <2>3, <3>1, <3>2
  <2> HIDE DEF e, Done
  <2>6. ValueEnds(R, b, v, e)
    BY <1>11, <1>12, <2>3, <2>5
  <2>7. c \notin Scalars
    BY <1>13, ScalarUnits
  <2> QED BY <1>4, <1>7, <1>13, <2>6, <2>7 DEF c, e
<1>14. ASSUME NEW close, <<c, close>> \in Pairs, SkipValue(b, v) = SkipBrackets(b, v + 1, close)
       PROVE  ValueEnds(R, b, v, SkipValue(b, v))
  <2> DEFINE st == Append(s.stack, c)
             e == SkipValue(b, v)
  <2>1. c \in Open
    BY <1>14, PairUnits
  <2>2. R[v] = Mk(OpenMode(c), st, v, s.key, v, s.members)
    BY <1>4, <1>5, <2>1, Brackets DEF ValueTo
  <2>3. Deep(st, c) /\ Len(st) = 2
    BY <1>2, <2>1, TwoOpen
  <2>4. OpenMode(c) \in Plain
    BY DEF OpenMode, Plain
  <2> DEFINE m == OpenMode(c)
  <2> HIDE DEF st, m
  <2>5. /\ R[v].mode = m /\ R[v].stack = st /\ R[v].key = s.key
        /\ R[v].from = v /\ R[v].members = s.members
    BY <2>2, MkFields DEF m
  <2>6. Len(R[v].stack) - 1 = 1
    BY <2>3, <2>5
  <2>7. e = Nest(b, close)[<<v + 1, 1>>]
    BY <1>1, <1>14, NestScan
  <2>8. BracketEnds(R, b, v + 1, e)
    <3>1. R[(v + 1) - 1].mode \in Plain /\ Deep(R[(v + 1) - 1].stack, c)
      BY <1>10, <2>3, <2>4, <2>5 DEF m
    <3>2. BracketEnds(R, b, v + 1, Nest(b, close)[<<v + 1, Len(R[(v + 1) - 1].stack) - 1>>])
      BY <1>10, <1>14, <3>1, BracketRun DEF n
    <3> QED BY <1>10, <2>6, <2>7, <3>2
  <2> HIDE DEF e
  <2>9. e \in Nat /\ v < e /\ e <= n + 1 /\ R[e - 1] = Done(e)
    BY <1>2, <1>10, <2>5, <2>8 DEF BracketEnds, Completed, n
  <2> QED BY <1>11, <2>9 DEF e
<1>15. CASE c = LBrace
  <2>1. c \notin Scalars /\ c # Quote
    BY <1>15, ScalarUnits, Units
  <2>2. <<c, RBrace>> \in Pairs
    BY <1>15 DEF Pairs
  <2> QED BY <1>4, <1>7, <1>14, <1>15, <2>1, <2>2 DEF c
<1>16. CASE c = LBracket
  <2>1. c \notin Scalars /\ c # Quote
    BY <1>16, ScalarUnits, Units
  <2>2. <<c, RBracket>> \in Pairs
    BY <1>16 DEF Pairs
  <2> QED BY <1>4, <1>7, <1>14, <1>16, <2>1, <2>2 DEF c
<1>17. CASE c \in Scalars
  <2>1. c # Quote /\ c \notin Open /\ c \notin Delimiters
    BY <1>17, ScalarUnits DEF Open, Delimiters, White
  <2>2. R[v] = EndTo(s, <<LBrace>>, v, v)
    BY <1>2, <1>4, <1>5, <2>1 DEF ValueTo
  <2>3. R[v] = Done(v + 1)
    BY <1>10, <1>12, <2>2
  <2>4. R[v].mode = "after" /\ R[v].stack = <<LBrace>>
    BY <2>3, MkFields
  <2>5. v + 1 <= n
    BY <1>10, <2>4, NotOver DEF n
  <2> DEFINE d == b[v + 1]
  <2>6. R[v] \in State /\ Step(R[v], d).mode # "dead"
    BY <1>10, <2>5, SoundStep DEF n
  <2>7. d \in Delimiters
    <3>1. CASE d \in White \/ d = Comma
      BY <3>1 DEF Delimiters
    <3>2. CASE d \notin White /\ d # Comma
      <4>1. Closing(R[v], d)
        BY <2>4, <3>2 DEF Closing
      <4>2. Matches(R[v].stack, d)
        BY <2>6, <3>2, <4>1, StepClose
      <4> QED BY <4>2 DEF Matches, Delimiters
    <3> QED BY <3>1, <3>2
  <2>8. SkipToken(b, v) = SkipToken(b, v + 1)
    BY <1>1, <1>2, <2>1, SkipTokenScan DEF n, c
  <2>9. SkipToken(b, v + 1) = v + 1
    BY <1>1, <1>10, <2>5, <2>7, SkipTokenScan DEF n
  <2>10. ValueEnds(R, b, v, v + 1)
    BY <1>2, <1>10, <1>11, <2>3
  <2> QED BY <1>4, <1>7, <1>17, <2>1, <2>8, <2>9, <2>10 DEF c
<1> QED BY <1>4, <1>13, <1>15, <1>16, <1>17 DEF Open

(* After the last value no member is added. *)
LEMMA EndRun ==
  ASSUME NEW R, NEW b, Sound(R, b), NEW k \in Nat, k <= Len(b), R[k].mode = "end"
  PROVE  R[Len(b)].members = R[k].members
<1> DEFINE n == Len(b)
           j == SkipWs(b, k + 1)
<1>1. n \in Nat /\ b \in Text /\ k + 1 \in Nat /\ k + 1 >= 1 /\ k + 1 <= n + 1 /\ (k + 1) - 1 = k
  BY DEF Sound, Text
<1>2. Blanks(R, b, k + 1, j)
  <2>1. R[(k + 1) - 1].mode \in Plain
    BY <1>1 DEF Plain
  <2> QED BY <1>1, <2>1, SkipWsRun
<1>3. j \in Nat /\ k + 1 <= j /\ j <= n + 1 /\ R[j - 1] = Moved(R[k], j - 1)
  BY <1>1, <1>2 DEF Blanks
<1>4. R[j - 1].mode = "end" /\ R[j - 1].members = R[k].members
  BY <1>3, MkFields DEF Moved
<1>5. ~(j <= n)
  <2> SUFFICES ASSUME j <= n PROVE FALSE
    OBVIOUS
  <2>1. j >= 1
    BY <1>1, <1>3
  <2> HIDE DEF j
  <2>2. R[j - 1] \in State /\ Step(R[j - 1], b[j]).mode # "dead"
    BY <1>3, <2>1, SoundStep DEF n
  <2>3. b[j] \in White
    BY <1>4, <2>2, StepEnd
  <2> QED BY <1>2, <2>3 DEF Blanks, n, j
<1>6. j - 1 = n
  BY <1>1, <1>3, <1>5
<1> QED BY <1>4, <1>6

(***************************************************************************)
(* Before a member of the outermost object, or its end.                    *)
(***************************************************************************)
BeforeKey(R, b, i) ==
  /\ i \in Nat /\ i >= 1 /\ i <= Len(b) + 1
  /\ R[i - 1].mode \in {"firstKey", "nextKey"} /\ R[i - 1].stack = <<LBrace>>

(* From a state to the next unit that is not blank. *)
LEMMA NextUnit ==
  ASSUME NEW R, NEW b, Sound(R, b), NEW i \in Nat, i >= 1, i <= Len(b) + 1,
         R[i - 1].mode \in Plain, R[i - 1].mode # "end"
  PROVE  LET j == SkipWs(b, i) IN
         /\ j \in Nat /\ j >= i /\ j >= 1 /\ j <= Len(b) /\ b[j] \notin White /\ At(b, j) = b[j]
         /\ R[j - 1] = Moved(R[i - 1], j - 1) /\ R[j - 1] \in State
         /\ R[j - 1].mode = R[i - 1].mode /\ R[j - 1].stack = R[i - 1].stack
         /\ R[j - 1].key = R[i - 1].key /\ R[j - 1].from = R[i - 1].from
         /\ R[j - 1].members = R[i - 1].members
         /\ b[j] \in STRING /\ R[j] = Step(R[j - 1], b[j]) /\ R[j].mode # "dead" /\ R[j - 1].pos + 1 = j
<1> DEFINE j == SkipWs(b, i)
<1>1. Blanks(R, b, i, j)
  BY SkipWsRun
<1>2. j \in Nat /\ i <= j /\ j <= Len(b) + 1 /\ R[j - 1] = Moved(R[i - 1], j - 1)
      /\ (j <= Len(b) => b[j] \notin White)
  BY <1>1 DEF Blanks
<1> HIDE DEF j
<1>3. /\ R[j - 1].mode = R[i - 1].mode /\ R[j - 1].stack = R[i - 1].stack
      /\ R[j - 1].key = R[i - 1].key /\ R[j - 1].from = R[i - 1].from
      /\ R[j - 1].members = R[i - 1].members
  BY <1>2, MkFields DEF Moved
<1>4. j >= 1
  BY <1>2
<1>5. j <= Len(b)
  BY <1>2, <1>3, <1>4, NotOver
<1>6. /\ R[j - 1] \in State /\ b[j] \in STRING /\ R[j] = Step(R[j - 1], b[j])
      /\ R[j].mode # "dead" /\ R[j - 1].pos + 1 = j
  BY <1>2, <1>4, <1>5, SoundStep
<1>7. At(b, j) = b[j]
  BY <1>2, <1>4, <1>5, AtIs DEF Sound
<1> QED BY <1>2, <1>3, <1>4, <1>5, <1>6, <1>7 DEF j

(* The loop finds the end of the object, or a key, a colon and the start of a value. *)
LEMMA KeyRun ==
  ASSUME NEW R, NEW b, Sound(R, b), NEW i, BeforeKey(R, b, i)
  PROVE  LET j == KeyAt(b, i)
             v == ValueAt(b, i)
         IN \/ /\ At(b, j) = RBrace /\ j \in Nat /\ j <= Len(b)
               /\ R[j].mode = "end" /\ R[j].members = R[i - 1].members
            \/ /\ At(b, j) # RBrace /\ KeyEnd(b, i) # 0 /\ At(b, ColonAt(b, i)) = Colon
               /\ ValueStarts(R, b, v) /\ v > i
               /\ R[v - 1].key = KeyOf(b, i) /\ R[v - 1].members = R[i - 1].members
<1> DEFINE n == Len(b)
           j == KeyAt(b, i)
           k == KeyEnd(b, i)
           c == ColonAt(b, i)
           v == ValueAt(b, i)
           s == R[i - 1]
           r == R[j - 1]
<1>1. n \in Nat /\ b \in Text
  BY DEF Sound, Text
<1>2. i \in Nat /\ i >= 1 /\ i <= n + 1 /\ s.mode \in {"firstKey", "nextKey"} /\ s.stack = <<LBrace>>
      /\ s.mode \in Plain /\ s.mode # "end"
  BY DEF BeforeKey, Plain
<1>3. /\ j \in Nat /\ j >= i /\ j >= 1 /\ j <= n /\ b[j] \notin White /\ At(b, j) = b[j]
      /\ r \in State /\ r.mode = s.mode /\ r.stack = <<LBrace>> /\ r.members = s.members
      /\ b[j] \in STRING /\ R[j] = Step(r, b[j]) /\ R[j].mode # "dead" /\ r.pos + 1 = j
  BY <1>2, NextUnit DEF KeyAt
<1>4. CASE Closing(r, b[j])
  <2>1. b[j] = RBrace
    BY <1>2, <1>3, <1>4 DEF Closing
  <2>2. R[j] = CloseTo(r, b[j], j)
    BY <1>3, <1>4, StepClose
  <2>3. Front(<<LBrace>>) = <<>>
    BY DEF Front
  <2>4. R[j] = EndTo(r, <<>>, j, r.from)
    BY <1>3, <2>2, <2>3 DEF CloseTo
  <2>5. <<>> # <<LBrace>>
    OBVIOUS
  <2>6. R[j].mode = "end" /\ R[j].members = r.members
    BY <2>4, <2>5, MkFields DEF EndTo, EndMode, EndMembers
  <2> QED BY <1>3, <2>1, <2>6
<1>5. CASE ~Closing(r, b[j])
  <2>1. WantsKey(r, b[j])
    BY <1>2, <1>3, <1>5 DEF Closing, WantsKey
  <2>2. b[j] = Quote /\ R[j] = KeyTo(r, b[j], j)
    BY <1>3, <2>1, StepKey
  <2>3. R[j] = Mk("key", <<LBrace>>, j, <<>>, r.from, s.members)
    BY <1>3, <2>2 DEF KeyTo, Cleared
  <2>4. R[j].mode = "key" /\ R[j].stack = <<LBrace>> /\ R[j].key = <<>> /\ R[j].members = s.members
    BY <2>3, MkFields
  <2>5. j + 1 \in Nat /\ j + 1 >= 1 /\ j + 1 <= n + 1 /\ (j + 1) - 1 = j
    BY <1>1, <1>3
  <2>6. k = Rest(b)[j + 1]
    BY <1>1, <1>3, <2>2, RestScan DEF KeyEnd
  <2>7. StringEnds(R, b, j + 1, k)
    BY <2>4, <2>5, <2>6, StringRun
  <2>8. k \in Nat /\ j + 1 < k /\ k <= n + 1
    BY <2>7 DEF StringEnds
  <2>9. KeyOf(b, i) \in Text /\ Collected(R[j], b, j + 1, k) = KeyOf(b, i)
    <3> DEFINE p == j + 1
               q == k - 2
    <3>1. p \in Nat /\ p >= 1 /\ q \in Nat /\ q <= n
      BY <1>1, <1>3, <2>8
    <3> HIDE DEF p, q
    <3>2. SubSeq(b, p, q) \in Seq(STRING)
      BY <1>1, <3>1 DEF Text
    <3> DEFINE u == SubSeq(b, p, q)
    <3>3. <<>> \o u = u
      <4> HIDE DEF u
      <4> QED BY <3>2 DEF u
    <3>4. KeyOf(b, i) = u
      BY DEF KeyOf, p, q
    <3>5. Collected(R[j], b, j + 1, k) = <<>> \o u
      BY <2>4 DEF Collected, p, q
    <3> QED BY <3>2, <3>3, <3>4, <3>5 DEF Text
  <2>10. R[k - 1] = Mk("colon", <<LBrace>>, k - 1, KeyOf(b, i), R[j].from, s.members)
    BY <2>4, <2>5, <2>7, <2>9 DEF StringEnds
  <2>11. R[k - 1].mode = "colon" /\ R[k - 1].stack = <<LBrace>> /\ R[k - 1].key = KeyOf(b, i)
         /\ R[k - 1].members = s.members
    BY <2>10, MkFields
  <2>12. k >= 1
    BY <1>3, <2>8
  <2>13. /\ c \in Nat /\ c >= k /\ c >= 1 /\ c <= n /\ b[c] \notin White /\ At(b, c) = b[c]
         /\ R[c - 1] \in State /\ R[c - 1].mode = "colon" /\ R[c - 1].stack = <<LBrace>>
         /\ R[c - 1].key = KeyOf(b, i) /\ R[c - 1].members = s.members
         /\ R[c] = Step(R[c - 1], b[c]) /\ R[c].mode # "dead" /\ R[c - 1].pos + 1 = c
    <3>1. R[k - 1].mode \in Plain /\ R[k - 1].mode # "end"
      BY <2>11 DEF Plain
    <3> HIDE DEF k
    <3> QED BY <2>8, <2>11, <2>12, <3>1, NextUnit DEF ColonAt, k
  <2>14. b[c] = Colon /\ R[c] = Mk("value", <<LBrace>>, c, KeyOf(b, i), R[c - 1].from, s.members)
    BY <2>13, StepColon
  <2>15. R[c].mode = "value" /\ R[c].stack = <<LBrace>> /\ R[c].key = KeyOf(b, i)
         /\ R[c].members = s.members
    BY <2>14, MkFields
  <2>16. c + 1 \in Nat /\ c + 1 >= 1 /\ c + 1 <= n + 1 /\ (c + 1) - 1 = c
    BY <1>1, <2>13
  <2>17. /\ v \in Nat /\ v >= c + 1 /\ v >= 1 /\ v <= n /\ b[v] \notin White
         /\ R[v - 1].mode = "value" /\ R[v - 1].stack = <<LBrace>>
         /\ R[v - 1].key = KeyOf(b, i) /\ R[v - 1].members = s.members
    <3>1. R[(c + 1) - 1].mode \in Plain /\ R[(c + 1) - 1].mode # "end"
      BY <2>15, <2>16 DEF Plain
    <3> HIDE DEF c
    <3> QED BY <2>15, <2>16, <3>1, NextUnit DEF ValueAt, c
  <2>18. ValueStarts(R, b, v)
    BY <2>17 DEF ValueStarts
  <2>19. v > i
    BY <1>2, <1>3, <2>8, <2>13, <2>17
  <2>20. b[j] # RBrace /\ k # 0
    BY <1>3, <2>2, <2>8, Units
  <2> QED BY <1>3, <2>13, <2>14, <2>17, <2>18, <2>19, <2>20
<1> QED BY <1>4, <1>5

(***************************************************************************)
(* What the readers expect of the members they look for.                   *)
(***************************************************************************)
Suits(b, m, strings, tokens) ==
  /\ m.key \in strings => b[m.from] = Quote
  /\ m.key \in tokens => b[m.from] \in {Quote} \cup Scalars

Suited(b, ms, strings, tokens) == \A x \in 1..Len(ms) : Suits(b, ms[x], strings, tokens)

(***************************************************************************)
(* The value of a member, in a run.                                        *)
(***************************************************************************)
Spanned(R, b, m) ==
  /\ m \in Entries /\ ValueStarts(R, b, m.from) /\ m.to = SkipValue(b, m.from) - 1
  /\ ValueEnds(R, b, m.from, m.to + 1)

(* A reader that expects what is there reads the value. *)
LEMMA ReadValueRun ==
  ASSUME NEW R, NEW b, Sound(R, b), NEW v, ValueStarts(R, b, v), NEW strings, NEW tokens, NEW key,
         strings \cap tokens = {},
         key \in strings => b[v] = Quote, key \in tokens => b[v] \in {Quote} \cup Scalars
  PROVE  ReadValue(b, v, key, strings, tokens) = SkipValue(b, v)
<1>1. v \in Nat /\ v >= 1 /\ v <= Len(b) /\ At(b, v) = b[v]
  BY AtIs DEF ValueStarts, Sound
<1>2. /\ b[v] = Quote => SkipValue(b, v) = ParseString(b, v)
      /\ b[v] \in Scalars => SkipValue(b, v) = v + 1 /\ SkipToken(b, v) = v + 1
  BY ValueRun
<1>3. b[v] \in Scalars => b[v] # Quote
  BY ScalarUnits
<1>4. v + 1 # v
  BY <1>1
<1> QED BY <1>1, <1>2, <1>3, <1>4, ReadValueIs

(* What the loop has yet to read is what the automaton has. *)
Agree(R, b, i, r) ==
  /\ r \in Results /\ r.closed = TRUE
  /\ R[Len(b)].members = R[i - 1].members \o r.members
  /\ \A x \in 1..Len(r.members) : Spanned(R, b, r.members[x])

(* At the end of the object. *)
LEMMA AgreeEnd ==
  ASSUME NEW R, NEW b, Sound(R, b), NEW i, BeforeKey(R, b, i), R[Len(b)].members = R[i - 1].members
  PROVE  Agree(R, b, i, Stopped(TRUE))
<1> DEFINE ms == R[i - 1].members
<1>1. ms \in Seq(Entries)
  BY MovedBack, StateFields DEF BeforeKey
<1> HIDE DEF ms
<1>2. ms \o <<>> = ms
  BY <1>1
<1>3. Stopped(TRUE).members = <<>> /\ Stopped(TRUE).closed = TRUE
  BY DEF Stopped
<1>4. Len(<<>>) = 0 /\ 1..0 = {}
  OBVIOUS
<1> QED BY <1>2, <1>3, <1>4, ResultIs DEF Agree, ms

(* After one more member. *)
Continues(R, b, i, m, ms, r) ==
  /\ Sound(R, b) /\ BeforeKey(R, b, i) /\ Spanned(R, b, m) /\ ms = Append(R[i - 1].members, m)
  /\ r \in Results /\ r.closed = TRUE /\ R[Len(b)].members = ms \o r.members
  /\ \A x \in 1..Len(r.members) : Spanned(R, b, r.members[x])

(* One more member. *)
LEMMA AgreeMore ==
  ASSUME NEW R, NEW b, NEW i, NEW m, NEW ms, NEW r, Continues(R, b, i, m, ms, r)
  PROVE  /\ Agree(R, b, i, Prepend(r, m))
         /\ \E x \in 1..Len(R[Len(b)].members) : R[Len(b)].members[x] = m
<1> USE DEF Continues
<1> DEFINE a == R[i - 1].members
           u == r.members
           w == <<m>> \o u
<1>1. a \in Seq(Entries) /\ u \in Seq(Entries) /\ m \in Entries
  BY MovedBack, StateFields, ResultIs DEF BeforeKey, Spanned
<1>2. r = [members |-> u, closed |-> TRUE]
  BY ResultIs
<1> HIDE DEF u
<1>3. Prepend(r, m) = [members |-> w, closed |-> TRUE]
  BY <1>2, PrependIs
<1>4. w \in Seq(Entries) /\ Len(w) = 1 + Len(u) /\ w[1] = m /\ \A x \in 2..Len(w) : w[x] = u[x - 1]
  BY <1>1
<1>5. Append(a, m) \o u = a \o w
  <2> HIDE DEF a
  <2> DEFINE y == <<m>>
  <2>1. Append(a, m) = a \o y
    BY <1>1
  <2>2. y \in Seq(Entries)
    BY <1>1
  <2> HIDE DEF y
  <2>3. (a \o y) \o u = a \o (y \o u)
    <3>1. a \in Seq(Entries) /\ u \in Seq(Entries)
      BY <1>1
    <3> QED BY <2>2, <3>1, ConcatAssociative
  <2> QED BY <2>1, <2>3 DEF y
<1>6. R[Len(b)].members = a \o w
  BY <1>5 DEF u
<1>7. \A x \in 1..Len(w) : Spanned(R, b, w[x])
  <2> TAKE x \in 1..Len(w)
  <2>1. CASE x = 1
    BY <1>4, <2>1
  <2>2. CASE x # 1
    <3>1. x \in 2..Len(w) /\ x - 1 \in 1..Len(u)
      BY <1>1, <1>4, <2>2
    <3>2. w[x] = u[x - 1]
      BY <1>4, <3>1
    <3> QED BY <3>1, <3>2 DEF u
  <2> QED BY <2>1, <2>2
<1>8. Len(a) + 1 \in 1..Len(a \o w) /\ (a \o w)[Len(a) + 1] = m
  <2> HIDE DEF a, w
  <2>1. Len(a) \in Nat /\ Len(w) \in Nat /\ Len(a \o w) = Len(a) + Len(w) /\ Len(w) >= 1
    <3>1. Len(a) \in Nat /\ Len(w) \in Nat /\ Len(u) \in Nat
      BY <1>1, <1>4
    <3>2. Len(a \o w) = Len(a) + Len(w)
      BY <1>1, <1>4, ConcatProperties
    <3>3. Len(w) = 1 + Len(u)
      BY <1>4
    <3> HIDE DEF w
    <3> QED BY <3>1, <3>2, <3>3
  <2>2. (a \o w)[Len(a) + 1] = w[1]
    BY <1>1, <1>4, <2>1, ConcatProperties
  <2> QED BY <1>4, <2>1, <2>2
<1> HIDE DEF w, a
<1>9. Prepend(r, m).members = w /\ Prepend(r, m).closed = TRUE /\ Prepend(r, m) \in Results
  <2>1. [members |-> w, closed |-> TRUE] \in Results
    <3>1. w \in Seq(Entries)
      BY <1>4
    <3> QED BY <3>1, ResultIs
  <2> QED BY <1>3, <2>1
<1> QED BY <1>6, <1>7, <1>8, <1>9 DEF Agree, a

(***************************************************************************)
(* What a member that starts at i is, and what comes after it.             *)
(***************************************************************************)
Item(b, i) == [key |-> KeyOf(b, i), from |-> ValueAt(b, i), to |-> SkipValue(b, ValueAt(b, i)) - 1]
NextAt(b, i) == SkipWs(b, SkipValue(b, ValueAt(b, i)))

Passed(R, b, i, ms, d) ==
  /\ Spanned(R, b, Item(b, i)) /\ SkipValue(b, ValueAt(b, i)) # 0 /\ i <= Len(b)
  /\ d \in Nat /\ At(b, d) = b[d]
  /\ b[d] = Comma => BeforeKey(R, b, d + 1) /\ d + 1 > i /\ R[(d + 1) - 1].members = ms
  /\ b[d] # Comma => b[d] = RBrace /\ R[Len(b)].members = ms

(* From one key to the next: the value is skipped, and the member is complete. *)
LEMMA MemberRun ==
  ASSUME NEW R, NEW b, Sound(R, b), NEW i \in Nat, BeforeKey(R, b, i), ValueStarts(R, b, ValueAt(b, i)),
         ValueAt(b, i) > i, R[ValueAt(b, i) - 1].key = KeyOf(b, i),
         R[ValueAt(b, i) - 1].members = R[i - 1].members
  PROVE  Passed(R, b, i, Append(R[i - 1].members, Item(b, i)), NextAt(b, i))
<1> DEFINE n == Len(b)
           v == ValueAt(b, i)
           e == SkipValue(b, v)
           d == SkipWs(b, e)
           s == R[v - 1]
           m == [key |-> KeyOf(b, i), from |-> v, to |-> e - 1]
<1>0. m = Item(b, i) /\ d = NextAt(b, i)
  BY DEF Item, NextAt
<1>1. n \in Nat /\ b \in Text
  BY DEF Sound, Text
<1>2. ValueEnds(R, b, v, e)
  BY ValueRun
<1>3. e \in Nat /\ v < e /\ e <= n + 1 /\ R[e - 1] = Completed(SetFrom(s, v), e)
  BY <1>2 DEF ValueEnds
<1>4. v \in Nat /\ v >= 1 /\ v <= n /\ s \in State
  <2>1. v \in Nat /\ v >= 1 /\ v <= n
    BY DEF ValueStarts
  <2> QED BY <2>1, SoundStep
<1>5. v > i /\ ValueStarts(R, b, v) /\ s.key = KeyOf(b, i) /\ s.members = R[i - 1].members
  OBVIOUS
<1> HIDE DEF e, v
<1>6. SetFrom(s, v) = Mk(s.mode, s.stack, s.pos, s.key, v, s.members)
  BY <1>4, StateFields, OneField
<1>7. R[e - 1] = Mk("after", <<LBrace>>, e - 1, KeyOf(b, i), v, Append(R[i - 1].members, m))
  BY <1>3, <1>5, <1>6, MkFields DEF Completed
<1> DEFINE ms == Append(R[i - 1].members, m)
<1>8. R[e - 1].mode = "after" /\ R[e - 1].stack = <<LBrace>> /\ R[e - 1].members = ms
  <2> HIDE DEF ms
  <2>1. R[e - 1] = Mk("after", <<LBrace>>, e - 1, KeyOf(b, i), v, ms)
    BY <1>7 DEF ms
  <2> QED BY <2>1, MkFields
<1>9. Spanned(R, b, m)
  <2>1. KeyOf(b, i) \in Seq(STRING)
    BY <1>4, <1>5, StateFields
  <2>2. m \in Entries
    BY <1>3, <1>4, <2>1 DEF Entries
  <2>3. m.from = v /\ m.to = e - 1 /\ m.to + 1 = e
    BY <1>3
  <2> HIDE DEF m
  <2> QED BY <1>2, <1>5, <2>2, <2>3 DEF Spanned, e
<1>10. /\ d \in Nat /\ d >= e /\ d >= 1 /\ d <= n /\ b[d] \notin White /\ At(b, d) = b[d]
       /\ R[d - 1] \in State /\ R[d - 1].mode = "after" /\ R[d - 1].stack = <<LBrace>>
       /\ R[d - 1].members = ms
       /\ R[d] = Step(R[d - 1], b[d]) /\ R[d].mode # "dead" /\ R[d - 1].pos + 1 = d
  <2>1. R[e - 1].mode \in Plain /\ R[e - 1].mode # "end" /\ e >= 1
    BY <1>3, <1>4, <1>8 DEF Plain
  <2> HIDE DEF ms
  <2> QED BY <1>3, <1>8, <2>1, NextUnit
<1>11. e # 0 /\ i <= n
  BY <1>3, <1>4, <1>5
<1> HIDE DEF d, s
<1>12. ASSUME b[d] = Comma
       PROVE  BeforeKey(R, b, d + 1) /\ d + 1 > i /\ R[(d + 1) - 1].members = ms
  <2>1. R[d] = Mk(NextMode(<<LBrace>>), <<LBrace>>, d, R[d - 1].key, R[d - 1].from, ms)
    <3> DEFINE q == R[d - 1]
               p == q.pos + 1
    <3>1. p = d /\ q \in State /\ q.mode = "after" /\ q.stack = <<LBrace>> /\ q.members = ms
      BY <1>10
    <3>2. Step(q, Comma) = Mk(NextMode(q.stack), q.stack, p, q.key, q.from, q.members)
      BY <3>1, StepComma
    <3>3. R[d] = Step(q, Comma)
      BY <1>10, <1>12
    <3> HIDE DEF q, p, ms
    <3> QED BY <3>1, <3>2, <3>3 DEF q
  <2>2. NextMode(<<LBrace>>) = "nextKey"
    <3>1. Last(<<LBrace>>) = LBrace
      BY DEF Last
    <3> QED BY <3>1 DEF NextMode
  <2>3. R[d].mode = "nextKey" /\ R[d].stack = <<LBrace>> /\ R[d].members = ms
    <3> HIDE DEF ms
    <3> QED BY <2>1, <2>2, MkFields
  <2>4. d + 1 \in Nat /\ d + 1 >= 1 /\ d + 1 <= n + 1 /\ (d + 1) - 1 = d /\ d + 1 > i
    BY <1>1, <1>3, <1>4, <1>5, <1>10
  <2> QED BY <2>3, <2>4 DEF BeforeKey
<1>13. ASSUME b[d] # Comma
       PROVE  b[d] = RBrace /\ R[n].members = ms
  <2> DEFINE q == R[d - 1]
  <2>1. Closing(q, b[d])
    BY <1>10, <1>13 DEF Closing
  <2>2. Matches(<<LBrace>>, b[d]) /\ R[d] = CloseTo(q, b[d], d)
    BY <1>10, <2>1, StepClose
  <2>3. b[d] = RBrace
    <3>1. Last(<<LBrace>>) = LBrace
      BY DEF Last
    <3> QED BY <2>2, <3>1, PairUnits, Units DEF Matches
  <2>4. Front(<<LBrace>>) = <<>> /\ <<>> # <<LBrace>>
    BY DEF Front
  <2>5. R[d].mode = "end" /\ R[d].members = ms
    <3>1. R[d] = EndTo(q, <<>>, d, q.from)
      BY <1>10, <2>2, <2>4 DEF CloseTo
    <3>2. q.members = ms
      BY <1>10
    <3> HIDE DEF q, ms
    <3> QED BY <2>4, <3>1, <3>2, MkFields DEF EndTo, EndMode, EndMembers
  <2>6. R[n].members = ms
    <3> HIDE DEF ms
    <3> QED BY <1>10, <2>5, EndRun
  <2> QED BY <2>3, <2>6
<1>14. e = SkipValue(b, ValueAt(b, i))
  BY DEF e, v
<1>15. Passed(R, b, i, ms, d)
  <2> HIDE DEF ms, m
  <2> QED BY <1>0, <1>9, <1>10, <1>11, <1>12, <1>13, <1>14 DEF Passed
<1> QED BY <1>0, <1>15

(* The loop agrees from each member on. *)
LEMMA ObjectRun ==
  ASSUME NEW R, NEW b, Sound(R, b), NEW strings, NEW tokens, strings \cap tokens = {},
         Suited(b, R[Len(b)].members, strings, tokens)
  PROVE  \A i \in Nat : BeforeKey(R, b, i) => Agree(R, b, i, Loop(b, strings, tokens)[i])
<1> DEFINE n == Len(b)
           G == Loop(b, strings, tokens)
           P == {i \in Nat : BeforeKey(R, b, i) => Agree(R, b, i, G[i])}
<1>1. n \in Nat /\ b \in Text
  BY DEF Sound, Text
<1> HIDE DEF G
<1>2. ASSUME NEW i \in Nat, i <= n => \A m \in Nat : m > i => m \in P PROVE i \in P
  <2> SUFFICES ASSUME BeforeKey(R, b, i) PROVE Agree(R, b, i, G[i])
    OBVIOUS
  <2> DEFINE j == KeyAt(b, i)
             v == ValueAt(b, i)
             e == SkipValue(b, v)
             d == NextAt(b, i)
             m == Item(b, i)
             ms == Append(R[i - 1].members, m)
  <2>1. Looped(G, b, strings, tokens, i)
    BY <1>1, LoopScan DEF G
  <2>2. \/ /\ At(b, j) = RBrace /\ j \in Nat /\ j <= n
           /\ R[j].mode = "end" /\ R[j].members = R[i - 1].members
        \/ /\ At(b, j) # RBrace /\ KeyEnd(b, i) # 0 /\ At(b, ColonAt(b, i)) = Colon
           /\ ValueStarts(R, b, v) /\ v > i
           /\ R[v - 1].key = KeyOf(b, i) /\ R[v - 1].members = R[i - 1].members
    BY KeyRun
  <2>3. CASE At(b, j) = RBrace
    <3>1. G[i] = Stopped(TRUE)
      BY <2>1, <2>3 DEF Looped
    <3>2. R[n].members = R[i - 1].members
      BY <2>2, <2>3, EndRun
    <3> QED BY <3>1, <3>2, AgreeEnd
  <2>4. CASE At(b, j) # RBrace
    <3>1. KeyEnd(b, i) # 0 /\ At(b, ColonAt(b, i)) = Colon /\ ValueStarts(R, b, v)
      BY <2>2, <2>4
    <3>2. Passed(R, b, i, ms, d)
      BY <2>2, <2>4, MemberRun
    <3>3. m.key = KeyOf(b, i) /\ m.from = v /\ m = [key |-> KeyOf(b, i), from |-> v, to |-> e - 1]
      BY DEF Item
    <3> HIDE DEF d, m, ms
    <3>4. /\ Spanned(R, b, m) /\ e # 0 /\ i <= n /\ d \in Nat /\ At(b, d) = b[d]
          /\ b[d] = Comma => BeforeKey(R, b, d + 1) /\ d + 1 > i /\ R[(d + 1) - 1].members = ms
          /\ b[d] # Comma => b[d] = RBrace /\ R[n].members = ms
      BY <3>2 DEF Passed, m
    <3>5. ASSUME NEW r \in Results, r.closed = TRUE, R[n].members = ms \o r.members,
                 \A x \in 1..Len(r.members) : Spanned(R, b, r.members[x]),
                 b[d] = Comma => G[d + 1] = r, b[d] # Comma => Stopped(b[d] = RBrace) = r
          PROVE  Agree(R, b, i, G[i])
      <4>1. Agree(R, b, i, Prepend(r, m)) /\ \E x \in 1..Len(R[n].members) : R[n].members[x] = m
        <5>1. Continues(R, b, i, m, ms, r)
          BY <3>4, <3>5 DEF Continues, ms
        <5> QED BY <5>1, AgreeMore
      <4>2. Suits(b, m, strings, tokens)
        BY <4>1 DEF Suited
      <4>3. ReadValue(b, v, KeyOf(b, i), strings, tokens) = e
        <5>1. /\ KeyOf(b, i) \in strings => b[v] = Quote
              /\ KeyOf(b, i) \in tokens => b[v] \in {Quote} \cup Scalars
          BY <3>3, <4>2 DEF Suits
        <5> QED BY <3>1, <5>1, ReadValueRun
      <4>4. ValueEnd(b, strings, tokens, i) = e /\ MemberAt(b, strings, tokens, i) = m
            /\ CommaAt(b, strings, tokens, i) = d
        BY <3>3, <4>3 DEF ValueEnd, MemberAt, CommaAt, NextAt, d
      <4>5. G[i] = Prepend(r, m)
        <5>1. /\ At(b, d) = Comma => G[i] = Prepend(G[d + 1], m)
              /\ At(b, d) # Comma => G[i] = Prepend(Stopped(At(b, d) = RBrace), m)
          BY <2>1, <2>4, <3>1, <3>4, <4>4 DEF Looped
        <5> QED BY <3>4, <3>5, <5>1
      <4> QED BY <4>1, <4>5
    <3>6. CASE b[d] = Comma
      <4>1. d + 1 \in P
        BY <1>2, <3>4, <3>6
      <4>2. Agree(R, b, d + 1, G[d + 1]) /\ R[(d + 1) - 1].members = ms
        BY <3>4, <3>6, <4>1
      <4>3. /\ G[d + 1] \in Results /\ G[d + 1].closed = TRUE /\ R[n].members = ms \o G[d + 1].members
            /\ \A x \in 1..Len(G[d + 1].members) : Spanned(R, b, G[d + 1].members[x])
        BY <4>2 DEF Agree
      <4> QED BY <3>5, <3>6, <4>3
    <3>7. CASE b[d] # Comma
      <4>1. Stopped(b[d] = RBrace) = Stopped(TRUE)
        BY <3>4, <3>7
      <4>2. ms \o <<>> = ms
        <5>1. ms \in Seq(Entries)
          <6>1. R[i - 1].members \in Seq(Entries)
            BY MovedBack, StateFields DEF BeforeKey
          <6> QED BY <3>4, <6>1 DEF Spanned, ms
        <5> QED BY <5>1
      <4>3. Stopped(TRUE).members = <<>> /\ Stopped(TRUE).closed = TRUE /\ Stopped(TRUE) \in Results
        BY ResultIs DEF Stopped
      <4>4. \A x \in 1..Len(<<>>) : FALSE
        OBVIOUS
      <4> QED BY <3>4, <3>5, <3>7, <4>1, <4>2, <4>3, <4>4
    <3> QED BY <3>6, <3>7
  <2> QED BY <2>3, <2>4
<1> HIDE DEF P, n
<1>3. \A i \in Nat : i \in P
  BY <1>1, <1>2, Backwards
<1> QED BY <1>3 DEF P, G

(***************************************************************************)
(* A reader that wants a string under some keys may give up at a member;   *)
(* those it has found are members.                                         *)
(***************************************************************************)
Partial(R, b, strings, r) ==
  /\ r \in Results
  /\ \A x \in 1..Len(r.members) :
       Spanned(R, b, r.members[x]) /\ (r.members[x].key \in strings => b[r.members[x].from] = Quote)

(* A loop that stops has read none. *)
LEMMA PartialEnd ==
  ASSUME NEW R, NEW b, NEW strings, NEW closed \in BOOLEAN
  PROVE  Partial(R, b, strings, Stopped(closed))
<1>1. Stopped(closed).members = <<>> /\ Stopped(closed) \in Results
  BY ResultIs DEF Stopped
<1>2. \A x \in 1..Len(<<>>) : FALSE
  OBVIOUS
<1> QED BY <1>1, <1>2 DEF Partial

(* One that reads a member more. *)
LEMMA PartialMore ==
  ASSUME NEW R, NEW b, NEW strings, NEW r, Partial(R, b, strings, r), NEW m, Spanned(R, b, m),
         m.key \in strings => b[m.from] = Quote
  PROVE  Partial(R, b, strings, Prepend(r, m))
<1> DEFINE u == r.members
           w == <<m>> \o u
           c == r.closed
           Fine(x) == Spanned(R, b, x) /\ (x.key \in strings => b[x.from] = Quote)
<1>1. u \in Seq(Entries) /\ m \in Entries /\ r = [members |-> u, closed |-> c] /\ c \in BOOLEAN
      /\ Fine(m) /\ \A x \in 1..Len(u) : Fine(u[x])
  BY ResultIs DEF Partial, Spanned, Results
<1> HIDE DEF u, c, Fine
<1>2. Prepend(r, m) = [members |-> w, closed |-> c]
  BY <1>1, PrependIs
<1>3. w \in Seq(Entries) /\ Len(w) = 1 + Len(u) /\ w[1] = m /\ \A x \in 2..Len(w) : w[x] = u[x - 1]
  BY <1>1
<1> HIDE DEF w
<1>4. \A x \in 1..Len(w) : Fine(w[x])
  <2> TAKE x \in 1..Len(w)
  <2>1. CASE x = 1
    BY <1>1, <1>3, <2>1
  <2>2. CASE x # 1
    <3>1. x \in 2..Len(w) /\ x - 1 \in 1..Len(u)
      BY <1>1, <1>3, <2>2
    <3> QED BY <1>1, <1>3, <3>1
  <2> QED BY <2>1, <2>2
<1>5. Prepend(r, m).members = w /\ Prepend(r, m) \in Results
  BY <1>1, <1>2, <1>3, ResultIs DEF Results
<1> QED BY <1>4, <1>5 DEF Partial, Fine

(* So it is from each member on. *)
LEMMA PartialRun ==
  ASSUME NEW R, NEW b, Sound(R, b), NEW strings
  PROVE  \A i \in Nat : BeforeKey(R, b, i) => Partial(R, b, strings, Loop(b, strings, {})[i])
<1> DEFINE n == Len(b)
           none == {}
           G == Loop(b, strings, none)
           P == {i \in Nat : BeforeKey(R, b, i) => Partial(R, b, strings, G[i])}
<1>1. n \in Nat /\ b \in Text /\ strings \cap none = {}
  BY DEF Sound, Text
<1>n. \A key : key \notin none
  OBVIOUS
<1> HIDE DEF G, none
<1>2. ASSUME NEW i \in Nat, i <= n => \A m \in Nat : m > i => m \in P PROVE i \in P
  <2> SUFFICES ASSUME BeforeKey(R, b, i) PROVE Partial(R, b, strings, G[i])
    OBVIOUS
  <2> DEFINE j == KeyAt(b, i)
             v == ValueAt(b, i)
             e == SkipValue(b, v)
             d == NextAt(b, i)
             m == Item(b, i)
             key == KeyOf(b, i)
             ms == Append(R[i - 1].members, m)
  <2>1. Looped(G, b, strings, none, i)
    BY <1>1, LoopScan DEF G
  <2>2. \/ /\ At(b, j) = RBrace /\ j \in Nat /\ j <= n
           /\ R[j].mode = "end" /\ R[j].members = R[i - 1].members
        \/ /\ At(b, j) # RBrace /\ KeyEnd(b, i) # 0 /\ At(b, ColonAt(b, i)) = Colon
           /\ ValueStarts(R, b, v) /\ v > i
           /\ R[v - 1].key = KeyOf(b, i) /\ R[v - 1].members = R[i - 1].members
    BY KeyRun
  <2>3. CASE At(b, j) = RBrace
    <3>1. G[i] = Stopped(TRUE)
      BY <2>1, <2>3 DEF Looped
    <3> QED BY <3>1, PartialEnd
  <2>4. CASE At(b, j) # RBrace
    <3>1. KeyEnd(b, i) # 0 /\ At(b, ColonAt(b, i)) = Colon /\ ValueStarts(R, b, v)
      BY <2>2, <2>4
    <3>2. Passed(R, b, i, ms, d)
      BY <2>2, <2>4, MemberRun
    <3>3. m.key = key /\ m.from = v /\ m = [key |-> key, from |-> v, to |-> e - 1]
      BY DEF Item
    <3> HIDE DEF d, m, ms, key
    <3>4. /\ Spanned(R, b, m) /\ e # 0 /\ i <= n /\ d \in Nat /\ At(b, d) = b[d]
          /\ b[d] = Comma => BeforeKey(R, b, d + 1) /\ d + 1 > i
          /\ b[d] # Comma => b[d] = RBrace
      BY <3>2 DEF Passed, m
    <3>5. CASE key \in strings /\ b[v] # Quote
      <4>1. ParseString(b, v) = 0
        BY <3>5 DEF ParseString
      <4>2. ValueEnd(b, strings, none, i) = 0
        BY <1>1, <1>n, <3>5, <4>1, ReadValueIs DEF ValueEnd, key
      <4>3. G[i] = Stopped(FALSE)
        BY <2>1, <2>4, <4>2 DEF Looped
      <4> QED BY <4>3, PartialEnd
    <3>6. CASE ~(key \in strings /\ b[v] # Quote)
      <4>1. ReadValue(b, v, key, strings, none) = e
        BY <1>1, <1>n, <3>1, <3>6, ReadValueRun
      <4>2. ValueEnd(b, strings, none, i) = e /\ MemberAt(b, strings, none, i) = m
            /\ CommaAt(b, strings, none, i) = d
        BY <3>3, <4>1 DEF ValueEnd, MemberAt, CommaAt, NextAt, d, key
      <4>3. /\ At(b, d) = Comma => G[i] = Prepend(G[d + 1], m)
            /\ At(b, d) # Comma => G[i] = Prepend(Stopped(At(b, d) = RBrace), m)
        BY <2>1, <2>4, <3>1, <3>4, <4>2 DEF Looped
      <4>4. m.key \in strings => b[m.from] = Quote
        BY <3>3, <3>6
      <4>5. CASE b[d] = Comma
        <5>1. d + 1 \in P
          BY <1>2, <3>4, <4>5
        <5>2. Partial(R, b, strings, G[d + 1])
          BY <3>4, <4>5, <5>1
        <5> QED BY <3>4, <4>3, <4>4, <4>5, <5>2, PartialMore
      <4>6. CASE b[d] # Comma
        <5>1. Partial(R, b, strings, Stopped(b[d] = RBrace))
          BY PartialEnd
        <5> QED BY <3>4, <4>3, <4>4, <4>6, <5>1, PartialMore
      <4> QED BY <4>5, <4>6
    <3> QED BY <3>5, <3>6
  <2> QED BY <2>3, <2>4
<1> HIDE DEF P, n
<1>3. \A i \in Nat : i \in P
  BY <1>1, <1>2, Backwards
<1> QED BY <1>3 DEF P, G, none

(* SkipWs skips only blanks. *)
LEMMA SkipWsBlank ==
  ASSUME NEW b \in Text
  PROVE  \A k \in Nat : \A l \in Nat : k <= l /\ l < SkipWs(b, k) => l <= Len(b) /\ b[l] \in White
<1> DEFINE n == Len(b)
           P == {k \in Nat : \A l \in Nat : k <= l /\ l < SkipWs(b, k) => l <= n /\ b[l] \in White}
<1>1. n \in Nat
  BY DEF Text
<1>2. ASSUME NEW k \in Nat, k <= n => \A m \in Nat : m > k => m \in P PROVE k \in P
  <2> SUFFICES ASSUME NEW l \in Nat, k <= l, l < SkipWs(b, k) PROVE l <= n /\ b[l] \in White
    OBVIOUS
  <2>1. CASE k <= n /\ b[k] \in White
    <3>1. SkipWs(b, k) = SkipWs(b, k + 1)
      BY <2>1, SkipWsScan
    <3>2. k + 1 \in P
      BY <1>2, <2>1
    <3>3. CASE l = k
      BY <2>1, <3>3
    <3>4. CASE l # k
      <4>1. k + 1 <= l
        BY <3>4
      <4> QED BY <3>1, <3>2, <4>1
    <3> QED BY <3>3, <3>4
  <2>2. CASE ~(k <= n /\ b[k] \in White)
    <3>1. SkipWs(b, k) = k
      BY <2>2, SkipWsScan
    <3> QED BY <3>1
  <2> QED BY <2>1, <2>2
<1> HIDE DEF n, P
<1>3. \A k \in Nat : k \in P
  BY <1>1, <1>2, Backwards
<1> QED BY <1>3 DEF P, n

(***************************************************************************)
(* The text of an object.                                                  *)
(***************************************************************************)
Opens(b) == \E i \in 1..Len(b) : b[i] = LBrace /\ \A j \in 1..(i - 1) : b[j] \in White

(* The automaton after the first brace. *)
LEMMA OpensRun ==
  ASSUME NEW R, NEW b, Sound(R, b), Opens(b)
  PROVE  LET z == SkipWs(b, 1) IN
         At(b, z) = LBrace /\ BeforeKey(R, b, z + 1) /\ R[z].members = <<>> /\ (z + 1) - 1 = z
<1> DEFINE n == Len(b)
           z == SkipWs(b, 1)
           one == 1
<1>1. n \in Nat /\ b \in Text
  BY DEF Sound, Text
<1>2. R[0] = Start /\ Start = Mk("value", <<>>, 0, <<>>, 1, <<>>)
  BY DEF Sound, Runs, Start, Mk
<1>3. R[0].mode = "value" /\ R[0].stack = <<>> /\ R[0].members = <<>>
  BY <1>2, MkFields
<1>4. PICK i \in 1..n : b[i] = LBrace /\ \A j \in 1..(i - 1) : b[j] \in White
  BY DEF Opens
<1>5. /\ z \in Nat /\ z >= 1 /\ z <= n /\ b[z] \notin White /\ At(b, z) = b[z]
      /\ R[z - 1] \in State /\ R[z - 1].mode = "value" /\ R[z - 1].stack = <<>>
      /\ R[z - 1].members = <<>>
      /\ R[z] = Step(R[z - 1], b[z]) /\ R[z].mode # "dead" /\ R[z - 1].pos + 1 = z
  <2>1. one \in Nat /\ one >= 1 /\ one <= n + 1 /\ one - 1 = 0
    BY <1>1
  <2>2. R[one - 1].mode \in Plain /\ R[one - 1].mode # "end"
    BY <1>3, <2>1 DEF Plain
  <2> HIDE DEF one
  <2>3. LET j == SkipWs(b, one) IN
         /\ j \in Nat /\ j >= one /\ j >= 1 /\ j <= Len(b) /\ b[j] \notin White /\ At(b, j) = b[j]
         /\ R[j - 1] = Moved(R[one - 1], j - 1) /\ R[j - 1] \in State
         /\ R[j - 1].mode = R[one - 1].mode /\ R[j - 1].stack = R[one - 1].stack
         /\ R[j - 1].key = R[one - 1].key /\ R[j - 1].from = R[one - 1].from
         /\ R[j - 1].members = R[one - 1].members
         /\ b[j] \in STRING /\ R[j] = Step(R[j - 1], b[j]) /\ R[j].mode # "dead" /\ R[j - 1].pos + 1 = j
    BY <2>1, <2>2, NextUnit
  <2> QED BY <1>3, <2>1, <2>3 DEF one
<1>6. z = i
  <2>1. ~(z < i)
    <3> SUFFICES ASSUME z < i PROVE FALSE
      OBVIOUS
    <3>1. z \in 1..(i - 1)
      BY <1>1, <1>5
    <3> QED BY <1>4, <1>5, <3>1
  <2>2. ~(i < z)
    <3> SUFFICES ASSUME i < z PROVE FALSE
      OBVIOUS
    <3>1. one \in Nat /\ i \in Nat /\ one <= i
      BY <1>1
    <3> HIDE DEF one
    <3>2. i < SkipWs(b, one)
      BY DEF one
    <3>3. b[i] \in White
      BY <1>1, <3>1, <3>2, SkipWsBlank
    <3> QED BY <1>4, <3>3, Brackets DEF Open
  <2> QED BY <1>1, <1>5, <2>1, <2>2
<1>7. b[z] = LBrace
  BY <1>4, <1>6
<1> HIDE DEF z
<1>8. R[z] = Mk("firstKey", <<LBrace>>, z, R[z - 1].key, R[z - 1].from, <<>>)
  <2> DEFINE q == R[z - 1]
             p == q.pos + 1
  <2>1. p = z /\ q \in State /\ q.mode = "value" /\ q.stack = <<>> /\ q.members = <<>> /\ R[z] = Step(q, b[z])
    BY <1>5
  <2>2. WantsValue(q, b[z])
    BY <2>1 DEF WantsValue
  <2> HIDE DEF q
  <2>3. R[z] = ValueTo(q, b[z], p)
    BY <1>5, <2>1, <2>2, StepValue
  <2>4. Append(<<>>, LBrace) = <<LBrace>> /\ <<>> # <<LBrace>>
    OBVIOUS
  <2>5. LBrace # Quote /\ LBrace \in Open
    BY Units DEF Open
  <2> HIDE DEF p
  <2>6. ValueTo(q, LBrace, p) = Mk(OpenMode(LBrace), Append(<<>>, LBrace), p, q.key, Began(<<>>, p, q.from), <<>>)
    BY <2>1, <2>5 DEF ValueTo
  <2>7. OpenMode(LBrace) = "firstKey" /\ Began(<<>>, p, q.from) = q.from
    BY <2>4 DEF OpenMode, Began
  <2> QED BY <1>7, <2>1, <2>3, <2>4, <2>6, <2>7 DEF q
<1>9. R[z].mode = "firstKey" /\ R[z].stack = <<LBrace>> /\ R[z].members = <<>>
  BY <1>8, MkFields
<1>10. z + 1 \in Nat /\ z + 1 >= 1 /\ z + 1 <= n + 1 /\ (z + 1) - 1 = z
  BY <1>1, <1>5
<1> QED BY <1>5, <1>7, <1>9, <1>10 DEF BeforeKey, z

(***************************************************************************)
(* The scanner finds the members of an object where the grammar does.      *)
(***************************************************************************)
LEMMA ObjectMembers ==
  ASSUME NEW R, NEW b, Sound(R, b), Opens(b), NEW strings, NEW tokens, strings \cap tokens = {},
         Suited(b, R[Len(b)].members, strings, tokens)
  PROVE  /\ Members(b, strings, tokens) = [members |-> R[Len(b)].members, closed |-> TRUE]
         /\ R[Len(b)].members \in Seq(Entries)
         /\ \A x \in 1..Len(R[Len(b)].members) : Spanned(R, b, R[Len(b)].members[x])
<1> DEFINE z == SkipWs(b, 1)
           r == Loop(b, strings, tokens)[z + 1]
           ms == r.members
<1>1. At(b, z) = LBrace /\ BeforeKey(R, b, z + 1) /\ R[z].members = <<>> /\ (z + 1) - 1 = z
  BY OpensRun
<1>2. z + 1 \in Nat
  BY <1>1 DEF BeforeKey
<1>3. Agree(R, b, z + 1, r)
  BY <1>1, <1>2, ObjectRun
<1>4. Members(b, strings, tokens) = r
  BY <1>1, MembersIs
<1> HIDE DEF z, r
<1>5. r \in Results /\ r.closed = TRUE /\ R[Len(b)].members = <<>> \o ms
      /\ \A x \in 1..Len(ms) : Spanned(R, b, ms[x])
  BY <1>1, <1>3 DEF Agree
<1>6. ms \in Seq(Entries) /\ r = [members |-> ms, closed |-> TRUE]
  BY <1>5, ResultIs
<1> HIDE DEF ms
<1>7. <<>> \o ms = ms
  BY <1>6
<1> QED BY <1>4, <1>5, <1>6, <1>7

(* For every JSON object, of any length and depth, the scanner of mcp.rs finds *)
(* exactly the members that the grammar finds.                             *)
THEOREM ObjectsAgree ==
  ASSUME NEW b \in Text, IsJson(b), Opens(b)
  PROVE  SameMembers(b)
<1> DEFINE none == {}
<1>1. PICK R : Sound(R, b) /\ Read(Start, b) = R[Len(b)]
  BY SoundRun
<1>2. Suited(b, R[Len(b)].members, none, none) /\ none \cap none = {}
  BY DEF Suited, Suits
<1> HIDE DEF none
<1>3. Members(b, none, none) = [members |-> R[Len(b)].members, closed |-> TRUE]
  BY <1>1, <1>2, ObjectMembers
<1> QED BY <1>1, <1>3 DEF SameMembers, none

(***************************************************************************)
(* Which units can be read in a state.                                     *)
(***************************************************************************)
Lives(s, c) ==
  \/ s.mode \in {"key", "string"} /\ c # Newline
  \/ s.mode \in {"keyEscape", "stringEscape"} /\ c \in {Quote, Backslash}
  \/ s.mode \in Plain /\ c \in White
  \/ c \notin White /\ WantsValue(s, c) /\ c \in {Quote} \cup Open \cup Scalars
  \/ c \notin White /\ WantsKey(s, c) /\ c = Quote
  \/ c \notin White /\ s.mode = "colon" /\ c = Colon
  \/ c \notin White /\ Closing(s, c) /\ Matches(s.stack, c)
  \/ s.mode = "after" /\ c = Comma

(* Outside of strings one of the cases holds. *)
PlainCases ==
  \A s, c : s.mode \in Plain /\ c \notin White =>
    WantsValue(s, c) \/ WantsKey(s, c) \/ s.mode \in {"colon", "end"}
      \/ Closing(s, c) \/ (c = Comma /\ s.mode = "after")

(* It does. *)
LEMMA PlainCasesHold == PlainCases
BY DEF PlainCases, Plain, WantsValue, WantsKey, Closing

(* Within strings or outside, or given up. *)
LEMMA OtherModes ==
  ASSUME NEW s \in State
  PROVE  s.mode \in {"key", "string", "keyEscape", "stringEscape", "dead"} \cup Plain
BY StateFields DEF Modes, Plain

(* If a step does not give up, the unit can be read. *)
LEMMA LivesOnly ==
  ASSUME NEW s \in State, NEW c, Step(s, c).mode # "dead"
  PROVE  Lives(s, c)
<1>1. s.mode # "dead"
  BY StepDead
<1>2. CASE s.mode \in {"key", "string"}
  BY <1>2, StepText DEF Lives
<1>3. CASE s.mode \in {"keyEscape", "stringEscape"}
  BY <1>3, StepEscape DEF Lives
<1>4. CASE s.mode \in Plain /\ c \in White
  BY <1>4 DEF Lives
<1>5. CASE s.mode \in Plain /\ c \notin White
  <2>1. CASE WantsValue(s, c)
    BY <1>5, <2>1, StepValue DEF Lives
  <2>2. CASE WantsKey(s, c)
    BY <1>5, <2>2, StepKey DEF Lives
  <2>3. CASE s.mode = "colon"
    BY <1>5, <2>3, StepColon DEF Lives
  <2>4. CASE s.mode = "end"
    BY <1>5, <2>4, StepEnd
  <2>5. CASE Closing(s, c)
    BY <1>5, <2>5, StepClose DEF Lives
  <2>6. CASE c = Comma /\ s.mode = "after"
    BY <1>5, <2>6 DEF Lives
  <2> QED BY <1>5, <2>1, <2>2, <2>3, <2>4, <2>5, <2>6, PlainCasesHold DEF PlainCases
<1> QED BY <1>1, <1>2, <1>3, <1>4, <1>5, OtherModes

(* And the other way round. *)
LEMMA LivesStep ==
  ASSUME NEW s \in State, NEW c \in STRING, Lives(s, c)
  PROVE  Step(s, c).mode # "dead"
<1> DEFINE p == s.pos + 1
           t == Mk(s.mode, s.stack, p, s.key, s.from, s.members)
           m == s.mode
           st == s.stack
<1>1. Step(s, c) =
           CASE s.mode \in {"key", "string"}             -> InString(t, c)
             [] s.mode \in {"keyEscape", "stringEscape"} -> Escaped(t, c)
             [] s.mode = "dead"                          -> t
             [] OTHER ->
                  IF c \in White THEN t
                  ELSE CASE s.mode = "value"     -> Value(t, c)
                         [] s.mode = "firstItem" -> IF c = RBracket THEN Closed(t, c) ELSE Value(t, c)
                         [] s.mode = "firstKey"  -> IF c = RBrace THEN Closed(t, c) ELSE Key(t, c)
                         [] s.mode = "nextKey"   -> Key(t, c)
                         [] s.mode = "colon"     -> In(t, IF c = Colon THEN "value" ELSE "dead")
                         [] s.mode = "after"     -> After(t, c)
                         [] s.mode = "end"       -> In(t, "dead")
  BY StepBy
<1> HIDE DEF p, t
<1>2. CASE s.mode \in {"key", "string"} /\ c # Newline
  <2>1. Step(s, c) = InString(t, c)
    BY <1>1, <1>2
  <2>2. InString(t, c)
           = CASE c = Newline   -> Mk("dead", st, p, s.key, s.from, s.members)
               [] c = Backslash -> Mk(EscapeMode(m), st, p, Grown(m, st, s.key, c), s.from, s.members)
               [] c = Quote     -> IF m = "key" THEN Mk("colon", st, p, s.key, s.from, s.members)
                                   ELSE Mk(EndMode(st), st, p, s.key, s.from, EndMembers(st, p, s.key, s.from, s.members))
               [] OTHER         -> Mk(m, st, p, Grown(m, st, s.key, c), s.from, s.members)
    BY <1>2, InStringIs DEF t
  <2>3. InString(t, c).mode \in {EscapeMode(m), "colon", EndMode(st), m}
    BY <1>2, <2>2, MkFields, Units
  <2> QED BY <1>2, <2>1, <2>3 DEF EscapeMode, EndMode
<1>3. CASE s.mode \in {"keyEscape", "stringEscape"} /\ c \in {Quote, Backslash}
  <2>1. Step(s, c) = Escaped(t, c)
    BY <1>1, <1>3
  <2>2. Escaped(t, c) = Mk(IF m = "keyEscape" THEN "key" ELSE "string", st, p, Grown(m, st, s.key, c), s.from, s.members)
    BY <1>3, EscapedIs DEF t
  <2> QED BY <2>1, <2>2, MkFields
<1>4. CASE s.mode \in Plain /\ c \in White
  <2>1. Step(s, c) = BlankTo(s, c, p)
    BY <1>4, StepBlank DEF p
  <2> QED BY <1>4, <2>1, MkFields DEF BlankTo, Plain
<1>5. CASE c \notin White /\ WantsValue(s, c) /\ c \in {Quote} \cup Open \cup Scalars
  <2>1. Step(s, c) = Value(t, c)
    BY <1>1, <1>5 DEF WantsValue
  <2> DEFINE f == Began(st, p, s.from)
             k == s.key
             ms == s.members
  <2> HIDE DEF m, st, f, k, ms
  <2>2. Value(t, c) = CASE c = Quote -> Mk("string", st, p, k, f, ms)
          [] c \in Open -> Mk(OpenMode(c), Append(st, c), p, k, f, ms)
          [] c \in Scalars -> Mk(EndMode(st), st, p, k, f, EndMembers(st, p, k, f, ms))
          [] OTHER -> Mk("dead", st, p, k, s.from, ms)
    BY ValueIs DEF t, m, st, f, k, ms
  <2>3. c = Quote => c \notin Open /\ c \notin Scalars
    BY Units, ScalarUnits DEF Open
  <2>4. c \in Open => c \notin Scalars
    BY ScalarUnits DEF Open
  <2>5. Value(t, c).mode \in {"string", OpenMode(c), EndMode(st)}
    BY <1>5, <2>2, <2>3, <2>4, MkFields
  <2> QED BY <2>1, <2>5 DEF OpenMode, EndMode
<1>6. CASE c \notin White /\ WantsKey(s, c) /\ c = Quote
  <2>1. Step(s, c) = Key(t, c)
    BY <1>1, <1>6 DEF WantsKey
  <2>2. Key(t, c) = Mk("key", st, p, Cleared(st, s.key), s.from, s.members)
    BY <1>6, KeyIs DEF t
  <2> QED BY <2>1, <2>2, MkFields
<1>7. CASE c \notin White /\ s.mode = "colon" /\ c = Colon
  <2>1. Step(s, c) = In(t, "value")
    BY <1>1, <1>7
  <2> QED BY <2>1, OneField, MkFields DEF t
<1>8. CASE c \notin White /\ Closing(s, c) /\ Matches(s.stack, c)
  <2> DEFINE r == EndTo(s, Front(st), p, s.from)
  <2>1. r.mode # "dead"
    BY MkFields DEF EndTo, EndMode
  <2>2. Closed(t, c) = r
    BY <1>8, ClosedIs DEF t, EndTo
  <2>3. c # Comma => After(t, c) = r
    BY <1>8, AfterIs DEF t, EndTo
  <2> HIDE DEF r
  <2>4. s.mode = "after" => Step(s, c) = After(t, c) /\ c # Comma
    BY <1>1, <1>8 DEF Closing
  <2>5. s.mode # "after" => Step(s, c) = Closed(t, c)
    BY <1>1, <1>8 DEF Closing
  <2> QED BY <2>1, <2>2, <2>3, <2>4, <2>5
<1>9. CASE s.mode = "after" /\ c = Comma
  <2>1. Step(s, c) = Mk(NextMode(s.stack), s.stack, s.pos + 1, s.key, s.from, s.members)
    BY <1>9, StepComma
  <2> HIDE DEF st
  <2> QED BY <2>1, MkFields DEF NextMode
<1> QED BY <1>2, <1>3, <1>4, <1>5, <1>6, <1>7, <1>8, <1>9 DEF Lives

(***************************************************************************)
(* A value read inside another one, from r0 on, and read by itself.        *)
(***************************************************************************)
LEMMA FrontIs ==
  ASSUME NEW x \in Seq(Open), x # <<>>
  PROVE  Front(x) \in Seq(Open) /\ Len(Front(x)) = Len(x) - 1
         /\ \A i \in 1..(Len(x) - 1) : Front(x)[i] = x[i]
<1> DEFINE m == Len(x) - 1
<1>1. m \in Nat /\ m <= Len(x)
  OBVIOUS
<1> HIDE DEF m
<1>2. SubSeq(x, 1, m) \in Seq(Open) /\ Len(SubSeq(x, 1, m)) = m /\ \A i \in 1..m : SubSeq(x, 1, m)[i] = x[i]
  BY <1>1
<1> QED BY <1>2 DEF Front, m

(* A stack on top of another. *)
LEMMA Stacked ==
  ASSUME NEW base \in Seq(Open), base # <<>>, NEW x \in Seq(Open)
  PROVE  /\ base \o x \in Seq(Open) /\ base \o x # <<>>
         /\ x = <<>> => base \o x = base
         /\ x # <<>> => /\ base \o x # <<LBrace>> /\ Last(base \o x) = Last(x)
                        /\ Front(base \o x) = base \o Front(x) /\ Front(x) \in Seq(Open)
         /\ \A c \in Open : Append(base \o x, c) = base \o Append(x, c) /\ Append(x, c) \in Seq(Open)
<1> DEFINE y == base \o x
<1>1. /\ y \in Seq(Open) /\ Len(y) = Len(base) + Len(x) /\ Len(base) \in Nat /\ Len(x) \in Nat
      /\ Len(base) >= 1
  BY ConcatProperties
<1>2. \A i \in 1..Len(base) : y[i] = base[i]
  BY ConcatProperties
<1>3. \A i \in 1..Len(x) : y[Len(base) + i] = x[i]
  BY ConcatProperties
<1>4. y # <<>> /\ (x = <<>> => y = base)
  BY <1>1
<1>5. ASSUME x # <<>>
      PROVE  y # <<LBrace>> /\ Last(y) = Last(x) /\ Front(y) = base \o Front(x) /\ Front(x) \in Seq(Open)
  <2>1. Len(x) >= 1
    BY <1>5
  <2>2. y # <<LBrace>>
    BY <1>1, <2>1
  <2>3. Last(y) = Last(x)
    <3> DEFINE l == Len(base)
               k == Len(x)
               e == Len(y)
    <3>1. e = l + k /\ k \in 1..k
      BY <1>1, <2>1
    <3>2. y[l + k] = x[k]
      BY <1>3, <3>1
    <3> HIDE DEF y
    <3> QED BY <3>1, <3>2 DEF Last
  <2>4. Front(x) \in Seq(Open) /\ Len(Front(x)) = Len(x) - 1
        /\ \A i \in 1..(Len(x) - 1) : Front(x)[i] = x[i]
    BY <1>5, <2>1, FrontIs
  <2>5. Front(y) \in Seq(Open) /\ Len(Front(y)) = Len(y) - 1
        /\ \A i \in 1..(Len(y) - 1) : Front(y)[i] = y[i]
    BY <1>1, <1>4, FrontIs
  <2>6. Front(y) = base \o Front(x)
    <3> DEFINE z == base \o Front(x)
               u == Front(x)
               w == Front(y)
    <3> HIDE DEF u, w
    <3>1. u \in Seq(Open) /\ Len(u) = Len(x) - 1 /\ \A i \in 1..(Len(x) - 1) : u[i] = x[i]
      BY <2>4 DEF u
    <3>2. base \o u \in Seq(Open) /\ Len(base \o u) = Len(base) + Len(u)
      BY <3>1, ConcatProperties
    <3>3. \A i \in 1..Len(base) : (base \o u)[i] = base[i]
      BY <3>1, ConcatProperties
    <3>4. \A i \in 1..Len(u) : (base \o u)[Len(base) + i] = u[i]
      BY <3>1, ConcatProperties
    <3>5. w \in Seq(Open) /\ Len(w) = Len(base) + Len(u) /\ \A i \in 1..Len(w) : w[i] = y[i]
      BY <1>1, <2>5, <3>1 DEF w
    <3> HIDE DEF y
    <3>6. ASSUME NEW i \in 1..Len(w) PROVE w[i] = (base \o u)[i]
      <4>1. CASE i <= Len(base)
        <5>1. i \in 1..Len(base)
          BY <1>1, <4>1
        <5> QED BY <1>2, <3>3, <3>5, <5>1
      <4>2. CASE i > Len(base)
        <5> DEFINE k == i - Len(base)
        <5>1. k \in 1..Len(u) /\ k \in 1..Len(x) /\ k \in 1..(Len(x) - 1) /\ Len(base) + k = i
          BY <1>1, <3>1, <3>5, <4>2
        <5> HIDE DEF k
        <5>2. y[Len(base) + k] = x[k]
          BY <1>3, <5>1 DEF y
        <5>3. (base \o u)[Len(base) + k] = u[k] /\ u[k] = x[k]
          BY <3>1, <3>4, <5>1
        <5>4. w[i] = y[i]
          BY <3>5
        <5>5. y[i] = x[k] /\ (base \o u)[i] = x[k]
          BY <5>1, <5>2, <5>3
        <5> QED BY <5>4, <5>5
      <4> QED BY <1>1, <3>1, <3>5, <4>1, <4>2
    <3>7. w = base \o u
      BY <3>2, <3>5, <3>6, SeqEqual
    <3> QED BY <3>7 DEF w, u, y
  <2> QED BY <2>2, <2>3, <2>4, <2>6
<1>6. ASSUME NEW c \in Open PROVE Append(y, c) = base \o Append(x, c) /\ Append(x, c) \in Seq(Open)
  <2> DEFINE t == <<c>>
  <2>1. t \in Seq(Open) /\ Append(x, c) = x \o t /\ Append(x, c) \in Seq(Open)
    OBVIOUS
  <2>2. Append(y, c) = y \o t
    BY <1>1
  <2> DEFINE S == Open
  <2>3. base \in Seq(S) /\ x \in Seq(S) /\ t \in Seq(S)
    BY <2>1
  <2> HIDE DEF t, S, y
  <2>4. (base \o x) \o t = base \o (x \o t)
    BY ONLY <2>3, ConcatAssociative
  <2> QED BY <2>1, <2>2, <2>4 DEF y
<1> QED BY <1>1, <1>4, <1>5, <1>6

(* State r of the outer text, where q is the state of the value by itself. *)
Embeds(r0, f, r, q) ==
  /\ q.mode # "end" => /\ r.mode = q.mode /\ r.stack = r0.stack \o q.stack
                       /\ r.key = r0.key /\ r.from = f /\ r.members = r0.members
  /\ q.mode = "end" => r = EndTo(SetFrom(r0, f), r0.stack, r.pos, f)

(* The value has begun. *)
Begun(q) == q.mode = "value" => q.stack # <<>>

(* It is embedded while it lasts, *)
LEMMA EmbedMk ==
  ASSUME NEW r0 \in State, NEW f, NEW r, NEW q, NEW m, NEW y, NEW p, m # "end",
         r = Mk(m, r0.stack \o y, p, r0.key, f, r0.members), q.mode = m, q.stack = y
  PROVE  Embeds(r0, f, r, q)
<1> DEFINE z == r0.stack \o y
<1> HIDE DEF z
<1>1. r = Mk(m, z, p, r0.key, f, r0.members)
  BY DEF z
<1>2. r.mode = m /\ r.stack = z /\ r.key = r0.key /\ r.from = f /\ r.members = r0.members
  BY <1>1, MkFields
<1> QED BY <1>2 DEF Embeds, z

(* and when it ends. *)
LEMMA EmbedEnd ==
  ASSUME NEW r0 \in State, r0.stack # <<>>, NEW f, NEW r, r.key = r0.key, r.members = r0.members,
         NEW y \in Seq(Open), NEW p, NEW s, s = EndTo(r, r0.stack \o y, p, f),
         NEW q, q.mode = EndMode(y), q.stack = y
  PROVE  Embeds(r0, f, s, q)
<1> DEFINE base == r0.stack
<1>1. base \in Seq(Open) /\ base # <<>>
  BY StateFields
<1>2. CASE y = <<>>
  <2>1. base \o y = base
    BY <1>1, <1>2
  <2>2. s = EndTo(r, base, p, f)
    BY <2>1
  <2>3. SetFrom(r0, f).key = r0.key /\ SetFrom(r0, f).members = r0.members
    <3>1. SetFrom(r0, f) = Mk(r0.mode, r0.stack, r0.pos, r0.key, f, r0.members)
      BY StateFields, OneField
    <3> QED BY <3>1, MkFields
  <2> HIDE DEF base
  <2>4. \A u : EndTo(SetFrom(r0, f), base, u, f) = EndTo(r, base, u, f)
    BY <2>3 DEF EndTo
  <2>5. s.pos = p
    BY <2>2, MkFields DEF EndTo
  <2>6. q.mode = "end"
    BY <1>2 DEF EndMode
  <2> QED BY <2>2, <2>4, <2>5, <2>6 DEF Embeds, base
<1>3. CASE y # <<>>
  <2>1. base \o y # <<>> /\ base \o y # <<LBrace>>
    BY <1>1, <1>3, Stacked
  <2>2. s = Mk("after", base \o y, p, r0.key, f, r0.members)
    <3> DEFINE z == base \o y
    <3>1. z # <<>> /\ z # <<LBrace>> /\ s = EndTo(r, z, p, f)
      BY <2>1
    <3> HIDE DEF z, base
    <3>2. s = Mk("after", z, p, r0.key, f, r0.members)
      BY <3>1 DEF EndTo, EndMode, EndMembers
    <3> QED BY <3>2 DEF z
  <2>3. q.mode = "after"
    BY <1>3 DEF EndMode
  <2> QED BY <2>2, <2>3, EmbedMk
<1> QED BY <1>2, <1>3

(* A bracket on top of it. *)
LEMMA Pushed ==
  ASSUME NEW base \in Seq(Open), base # <<>>, NEW x \in Seq(Open), NEW c \in Open
  PROVE  Append(base \o x, c) = base \o Append(x, c)
BY Stacked

(* The first unit of the value. *)
LEMMA EmbedFirst ==
  ASSUME NEW r0 \in State, r0.mode = "value", r0.stack # <<>>, NEW c \in STRING, c \notin White
  PROVE  /\ Lives(r0, c) <=> Lives(Start, c)
         /\ Lives(Start, c) =>
              /\ Embeds(r0, Began(r0.stack, r0.pos + 1, r0.from), Step(r0, c), Step(Start, c))
              /\ Begun(Step(Start, c))
<1> DEFINE p == r0.pos + 1
           base == r0.stack
           f == Began(base, p, r0.from)
           none == <<>>
           x == Start.pos + 1
           q == Start
<1>1. q \in State /\ q.mode = "value" /\ q.stack = none
  <2>1. Start = Mk("value", <<>>, 0, <<>>, 1, <<>>)
    BY DEF Start, Mk
  <2> QED BY <2>1, MkFields, StartFit
<1>2. \A s \in {r0, q} : Lives(s, c) <=> c \in {Quote} \cup Open \cup Scalars
  <2> SUFFICES ASSUME NEW s \in {r0, q} PROVE Lives(s, c) <=> c \in {Quote} \cup Open \cup Scalars
    OBVIOUS
  <2>1. s.mode = "value"
    BY <1>1
  <2> QED BY <2>1 DEF Lives, WantsValue, WantsKey, Closing
<1>3. ASSUME Lives(q, c)
      PROVE  Embeds(r0, f, Step(r0, c), Step(q, c)) /\ Begun(Step(q, c))
  <2>1. Lives(r0, c) /\ c \in {Quote} \cup Open \cup Scalars
    BY <1>2, <1>3
  <2>2. Step(r0, c).mode # "dead" /\ Step(q, c).mode # "dead"
    BY <1>1, <1>3, <2>1, LivesStep
  <2>3. WantsValue(r0, c) /\ WantsValue(q, c)
    BY <1>1 DEF WantsValue
  <2>4. Step(r0, c) = ValueTo(r0, c, p)
    BY <2>2, <2>3, StepValue
  <2>5. Step(q, c) = ValueTo(q, c, x)
    BY <1>1, <2>2, <2>3, StepValue
  <2> HIDE DEF p, q, none, x
  <2>6. base \in Seq(Open) /\ base \o none = base /\ none \in Seq(Open)
    BY StateFields DEF none
  <2> DEFINE g == Began(none, x, q.from)
  <2>7. CASE c = Quote
    <3>0. c \notin Open
      BY <2>7, Brackets
    <3>1. Step(r0, c) = Mk("string", base, p, r0.key, f, r0.members)
      BY <2>4, <2>7, <3>0 DEF ValueTo
    <3>2. Step(q, c) = Mk("string", none, x, q.key, g, q.members)
      BY <1>1, <2>5, <2>7, <3>0 DEF ValueTo
    <3>3. Step(q, c).mode = "string" /\ Step(q, c).stack = none
      BY <3>2, MkFields
    <3> HIDE DEF f, g, base
    <3>4. Embeds(r0, f, Step(r0, c), Step(q, c))
      <4>1. Step(r0, c) = Mk("string", r0.stack \o none, p, r0.key, f, r0.members)
        BY <2>6, <3>1 DEF base
      <4> QED BY <3>3, <4>1, EmbedMk
    <3> QED BY <3>3, <3>4 DEF Begun
  <2>8. CASE c \in Open
    <3> DEFINE y == Append(none, c)
               z == Append(base, c)
               m == OpenMode(c)
    <3>1. c # Quote /\ m \notin {"end", "value"} /\ z = base \o y
      <4>1. c # Quote
        BY <2>8, Brackets
      <4>2. base # <<>>
        OBVIOUS
      <4> HIDE DEF base
      <4>3. Append(base \o none, c) = base \o Append(none, c)
        BY <2>6, <2>8, <4>2, Pushed
      <4> QED BY <2>6, <4>1, <4>3 DEF OpenMode
    <3>2. Step(r0, c) = Mk(m, z, p, r0.key, f, r0.members)
      BY <2>4, <2>8, <3>1 DEF ValueTo
    <3>3. Step(q, c) = Mk(m, y, x, q.key, g, q.members)
      BY <1>1, <2>5, <2>8, <3>1 DEF ValueTo
    <3> HIDE DEF f, g, y, z, m
    <3>4. Step(q, c).mode = m /\ Step(q, c).stack = y
      BY <3>3, MkFields
    <3>5. Step(r0, c) = Mk(m, r0.stack \o y, p, r0.key, f, r0.members)
      BY <3>1, <3>2
    <3>6. Embeds(r0, f, Step(r0, c), Step(q, c))
      BY <3>1, <3>4, <3>5, EmbedMk
    <3> QED BY <3>1, <3>4, <3>6 DEF Begun
  <2>9. CASE c \in Scalars
    <3>1. c # Quote /\ c \notin Open
      BY <2>9, ScalarUnits DEF Open
    <3>2. Step(r0, c) = EndTo(r0, base, p, f)
      BY <2>4, <3>1 DEF ValueTo
    <3>3. Step(q, c) = EndTo(q, none, x, g)
      BY <1>1, <2>5, <3>1 DEF ValueTo
    <3>4. Step(q, c).mode = EndMode(none) /\ Step(q, c).stack = none
      BY <3>3, MkFields DEF EndTo
    <3>5. Step(r0, c) = EndTo(r0, r0.stack \o none, p, f)
      BY <2>6, <3>2
    <3> HIDE DEF f, base
    <3>6. Embeds(r0, f, Step(r0, c), Step(q, c))
      BY <2>6, <3>4, <3>5, EmbedEnd
    <3> QED BY <3>4, <3>6 DEF Begun, EndMode
  <2> QED BY <2>1, <2>7, <2>8, <2>9
<1> QED BY <1>1, <1>2, <1>3

(***************************************************************************)
(* A value read inside another one and by itself, before its last unit.    *)
(***************************************************************************)
Mates(r0, f, r, q) ==
  /\ r0 \in State /\ r \in State /\ q \in State /\ r0.stack # <<>>
  /\ Embeds(r0, f, r, q) /\ q.mode \notin {"end", "dead"} /\ Begun(q) /\ Fit(q)

Mated(r0, f, r, q) ==
  /\ r0.stack \in Seq(Open) /\ r0.stack # <<>> /\ q.stack \in Seq(Open)
  /\ r.mode = q.mode /\ r.stack = r0.stack \o q.stack /\ r.stack \in Seq(Open)
  /\ r.key = r0.key /\ r.from = f /\ r.members = r0.members
  /\ q.stack # <<>> =>
       /\ r.stack # <<>> /\ r.stack # <<LBrace>> /\ Last(r.stack) = Last(q.stack)
       /\ Front(r.stack) = r0.stack \o Front(q.stack) /\ Front(q.stack) \in Seq(Open)
  /\ q.mode # "string" /\ q.mode # "stringEscape" => q.stack # <<>>

(* The same, told by fields. *)
LEMMA MatesFields ==
  ASSUME NEW r0, NEW f, NEW r, NEW q, Mates(r0, f, r, q)
  PROVE  Mated(r0, f, r, q)
<1>1. /\ r0.stack \in Seq(Open) /\ r0.stack # <<>> /\ q.stack \in Seq(Open)
      /\ r.mode = q.mode /\ r.stack = r0.stack \o q.stack /\ r.stack \in Seq(Open)
      /\ r.key = r0.key /\ r.from = f /\ r.members = r0.members /\ q.mode \in Modes
  BY StateFields DEF Mates, Embeds
<1>2. q.stack # <<>> =>
              /\ r.stack # <<>> /\ r.stack # <<LBrace>> /\ Last(r.stack) = Last(q.stack)
              /\ Front(r.stack) = r0.stack \o Front(q.stack) /\ Front(q.stack) \in Seq(Open)
  <2> DEFINE base == r0.stack
             y == q.stack
  <2>1. base \in Seq(Open) /\ base # <<>> /\ y \in Seq(Open) /\ r.stack = base \o y
    BY <1>1
  <2> HIDE DEF base, y
  <2>2. y # <<>> => /\ base \o y # <<>> /\ base \o y # <<LBrace>> /\ Last(base \o y) = Last(y)
                    /\ Front(base \o y) = base \o Front(y) /\ Front(y) \in Seq(Open)
    BY ZenonT(40), <2>1, Stacked
  <2> QED BY <2>1, <2>2 DEF base, y
<1>3. q.mode # "string" /\ q.mode # "stringEscape" => q.stack # <<>>
  BY <1>1 DEF Mates, Begun, Fit, Modes
<1> QED BY <1>1, <1>2, <1>3 DEF Mated

(* Both can read the same units. *)
LEMMA LivesMates ==
  ASSUME NEW r0, NEW f, NEW r, NEW q, Mates(r0, f, r, q), NEW c
  PROVE  Lives(r, c) <=> Lives(q, c)
<1>0. Mated(r0, f, r, q)
  BY MatesFields
<1>1. r.mode = q.mode
  BY <1>0 DEF Mated
<1>2. Closing(r, c) <=> Closing(q, c)
  BY <1>1 DEF Closing
<1>3. WantsValue(r, c) <=> WantsValue(q, c)
  BY <1>1 DEF WantsValue
<1>4. WantsKey(r, c) <=> WantsKey(q, c)
  BY <1>1 DEF WantsKey
<1>5. Closing(q, c) => (Matches(r.stack, c) <=> Matches(q.stack, c))
  <2> SUFFICES ASSUME Closing(q, c) PROVE Matches(r.stack, c) <=> Matches(q.stack, c)
    OBVIOUS
  <2>1. q.mode # "string" /\ q.mode # "stringEscape"
    BY DEF Closing
  <2>2. q.stack # <<>> /\ r.stack # <<>> /\ Last(r.stack) = Last(q.stack)
    BY <1>0, <2>1 DEF Mated
  <2> QED BY <2>2 DEF Matches
<1> QED BY <1>1, <1>2, <1>3, <1>4, <1>5 DEF Lives

(* An end of a value in both. *)
LEMMA MatesEnd ==
  ASSUME NEW r0, NEW f, NEW r, NEW q, Mates(r0, f, r, q), NEW y \in Seq(Open),
         NEW p, NEW x, NEW g
  PROVE  /\ Embeds(r0, f, EndTo(r, r0.stack \o y, p, f), EndTo(q, y, x, g))
         /\ Begun(EndTo(q, y, x, g))
<1> DEFINE t == EndTo(q, y, x, g)
<1>1. t.mode = EndMode(y) /\ t.stack = y
  BY MkFields DEF EndTo
<1>0. Mated(r0, f, r, q)
  BY MatesFields
<1>2. r.key = r0.key /\ r.members = r0.members
  BY <1>0 DEF Mated
<1>3. r0 \in State /\ r0.stack # <<>>
  BY DEF Mates
<1> HIDE DEF t
<1>4. Embeds(r0, f, EndTo(r, r0.stack \o y, p, f), t)
  BY <1>1, <1>2, <1>3, EmbedEnd
<1> QED BY <1>1, <1>4 DEF Begun, EndMode, t

(* Any other step of both. *)
LEMMA MatesMk ==
  ASSUME NEW r0, NEW f, NEW r, NEW q, Mates(r0, f, r, q), NEW m, m # "end",
         NEW y, m = "value" => y # <<>>, NEW p, NEW x, NEW k, NEW g, NEW ms
  PROVE  /\ Embeds(r0, f, Mk(m, r0.stack \o y, p, r0.key, f, r0.members), Mk(m, y, x, k, g, ms))
         /\ Begun(Mk(m, y, x, k, g, ms))
<1> DEFINE t == Mk(m, y, x, k, g, ms)
<1>1. t.mode = m /\ t.stack = y
  BY MkFields
<1>2. r0 \in State
  BY DEF Mates
<1> HIDE DEF t
<1>3. Embeds(r0, f, Mk(m, r0.stack \o y, p, r0.key, f, r0.members), t)
  BY <1>1, <1>2, EmbedMk
<1> QED BY <1>1, <1>3 DEF Begun, t

(* A step of both. *)
LEMMA EmbedStep ==
  ASSUME NEW r0, NEW f, NEW r, NEW q, Mates(r0, f, r, q), NEW c \in STRING, Lives(q, c)
  PROVE  Embeds(r0, f, Step(r, c), Step(q, c)) /\ Begun(Step(q, c))
<1> DEFINE p == r.pos + 1
           x == q.pos + 1
           y == q.stack
           z == r.stack
           base == r0.stack
           m == q.mode
           k == r0.key
           ms == r0.members
<1>1. /\ r0 \in State /\ r \in State /\ q \in State
      /\ m \notin {"end", "dead"} /\ Begun(q) /\ Fit(q)
  BY DEF Mates
<1>2. /\ base \in Seq(Open) /\ base # <<>> /\ y \in Seq(Open)
      /\ r.mode = m /\ z = base \o y /\ z \in Seq(Open)
      /\ r.key = k /\ r.from = f /\ r.members = ms
      /\ y # <<>> => /\ z # <<>> /\ z # <<LBrace>> /\ Last(z) = Last(y)
                     /\ Front(z) = base \o Front(y) /\ Front(y) \in Seq(Open)
      /\ m # "string" /\ m # "stringEscape" => y # <<>>
  <2>1. Mated(r0, f, r, q)
    BY MatesFields
  <2> QED BY <2>1 DEF Mated
<1>3. Step(r, c).mode # "dead" /\ Step(q, c).mode # "dead"
  BY <1>1, LivesMates, LivesStep
<1> HIDE DEF p, x
<1>4. \A j, u : Grown(j, z, u, c) = u \/ j \in {"key", "keyEscape"}
  BY DEF Grown
<1>5. y # <<>> => Grown(m, z, k, c) = k /\ Cleared(z, k) = k /\ \A j : Began(z, j, f) = f
  BY <1>2 DEF Grown, Cleared, Began
<1>6. m = "string" \/ m = "stringEscape" => Grown(m, z, k, c) = k
  BY DEF Grown
<1>7. Grown(m, z, k, c) = k
  BY <1>2, <1>5, <1>6
<1>8. CASE m \in {"key", "string"}
  <2>1. Step(r, c) = TextTo(r, c, p)
    BY <1>1, <1>2, <1>3, <1>8, StepText DEF p
  <2>2. Step(q, c) = TextTo(q, c, x)
    BY <1>1, <1>3, <1>8, StepText DEF x
  <2> DEFINE h == Grown(m, y, q.key, c)
             g == q.from
             l == q.members
             e == EscapeMode(m)
  <2>3. CASE c = Backslash
    <3>0. c # Quote
      BY <2>3, Units
    <3>1. Step(r, c) = Mk(e, z, p, k, f, ms)
      BY <1>2, <1>7, <2>1, <2>3, <3>0 DEF TextTo
    <3>2. Step(q, c) = Mk(e, y, x, h, g, l)
      BY <2>2, <2>3, <3>0 DEF TextTo
    <3>3. e \notin {"end", "value"}
      BY DEF EscapeMode
    <3> HIDE DEF e, h, g, l, y, base, z
    <3> QED BY <1>2, <3>1, <3>2, <3>3, MatesMk DEF base, k, ms
  <2>4. CASE c = Quote /\ m = "key"
    <3>0. c # Backslash
      BY <2>4, Units
    <3>1. Step(r, c) = Mk("colon", z, p, k, f, ms)
      BY <1>2, <2>1, <2>4, <3>0 DEF TextTo
    <3>2. Step(q, c) = Mk("colon", y, x, q.key, g, l)
      BY <2>2, <2>4, <3>0 DEF TextTo
    <3> HIDE DEF e, h, g, l, y, base, z
    <3> QED BY <1>2, <3>1, <3>2, MatesMk DEF base, k, ms
  <2>5. CASE c = Quote /\ m # "key"
    <3>0. c # Backslash
      BY <2>5, Units
    <3>1. Step(r, c) = EndTo(r, z, p, f)
      BY <1>2, <2>1, <2>5, <3>0 DEF TextTo
    <3>2. Step(q, c) = EndTo(q, y, x, g)
      BY <2>2, <2>5, <3>0 DEF TextTo
    <3> HIDE DEF e, h, g, l, y, base, z
    <3> QED BY <1>2, <3>1, <3>2, MatesEnd DEF base
  <2>6. CASE c \notin {Backslash, Quote}
    <3>1. Step(r, c) = Mk(m, z, p, k, f, ms)
      BY <1>2, <1>7, <2>1, <2>6 DEF TextTo
    <3>2. Step(q, c) = Mk(m, y, x, h, g, l)
      BY <2>2, <2>6 DEF TextTo
    <3> HIDE DEF e, h, g, l, y, base, z, m
    <3> QED BY <1>2, <1>8, <3>1, <3>2, MatesMk DEF base, k, ms
  <2> QED BY <2>3, <2>4, <2>5, <2>6
<1>9. CASE m \in {"keyEscape", "stringEscape"}
  <2> DEFINE e == IF m = "keyEscape" THEN "key" ELSE "string"
             h == Grown(m, y, q.key, c)
             g == q.from
             l == q.members
  <2>1. Step(r, c) = EscapeTo(r, c, p)
    BY <1>1, <1>2, <1>3, <1>9, StepEscape DEF p
  <2>2. Step(q, c) = EscapeTo(q, c, x)
    BY <1>1, <1>3, <1>9, StepEscape DEF x
  <2>3. Step(r, c) = Mk(e, z, p, k, f, ms)
    <3>1. /\ r.mode = m /\ r.stack = z /\ r.from = f /\ r.members = ms /\ r.key = k
          /\ Grown(m, z, k, c) = k
      BY <1>2, <1>7
    <3> HIDE DEF z, m, k, ms
    <3> QED BY <2>1, <3>1 DEF EscapeTo
  <2>4. Step(q, c) = Mk(e, y, x, h, g, l)
    <3> HIDE DEF h
    <3> QED BY <2>2 DEF EscapeTo, h
  <2>5. e \notin {"end", "value"}
    OBVIOUS
  <2> HIDE DEF e, h, g, l, y, base, z
  <2> QED BY <1>2, <2>3, <2>4, <2>5, MatesMk DEF base, k, ms
<1>10. CASE m \in Plain /\ c \in White
  <2> DEFINE h == q.key
             g == q.from
             l == q.members
  <2>1. Step(r, c) = Mk(m, z, p, k, f, ms)
    BY <1>1, <1>2, <1>10, StepBlank DEF BlankTo, p
  <2>2. Step(q, c) = Mk(m, y, x, h, g, l)
    BY <1>1, <1>10, StepBlank DEF BlankTo, x
  <2>3. m = "value" => y # <<>>
    BY <1>2
  <2> HIDE DEF h, g, l, y, base, z, m
  <2> QED BY <1>1, <1>2, <2>1, <2>2, <2>3, MatesMk DEF base, k, ms
<1>11. CASE m \in Plain /\ c \notin White
  <2> DEFINE h == q.key
             g == q.from
             l == q.members
  <2>0. y # <<>>
    BY <1>2, <1>11 DEF Plain
  <2>1. CASE WantsValue(q, c)
    <3>1. WantsValue(r, c)
      BY <1>2, <2>1 DEF WantsValue
    <3>2. Step(r, c) = ValueTo(r, c, p) /\ c \in {Quote} \cup Open \cup Scalars
      BY <1>1, <1>3, <1>11, <3>1, StepValue DEF p
    <3>3. Step(q, c) = ValueTo(q, c, x)
      BY <1>1, <1>3, <1>11, <2>1, StepValue DEF x
    <3> DEFINE b == Began(y, x, g)
    <3>4. Began(z, p, f) = f
      BY <1>5, <2>0
    <3>5. CASE c = Quote
      <4>0. c \notin Open
        BY <3>5, Brackets
      <4>1. Step(r, c) = Mk("string", z, p, k, f, ms)
        BY <1>2, <3>2, <3>4, <3>5, <4>0 DEF ValueTo
      <4>2. Step(q, c) = Mk("string", y, x, h, b, l)
        BY <3>3, <3>5, <4>0 DEF ValueTo
      <4> HIDE DEF b, h, g, l, y, base, z
      <4> QED BY <1>2, <4>1, <4>2, MatesMk DEF base, k, ms
    <3>6. CASE c \in Open
      <4> DEFINE w == Append(y, c)
                 o == OpenMode(c)
                 v == Append(z, c)
      <4>1. c # Quote /\ o \notin {"end", "value"}
        BY <3>6, Brackets DEF OpenMode
      <4>2. v = base \o w
        <5> HIDE DEF base, y, z
        <5>1. Append(base \o y, c) = base \o Append(y, c)
          BY <1>2, <3>6, Pushed
        <5> QED BY <1>2, <5>1
      <4>3. Step(r, c) = Mk(o, v, p, k, f, ms)
        BY <1>2, <3>2, <3>4, <3>6, <4>1 DEF ValueTo
      <4>4. Step(q, c) = Mk(o, w, x, h, b, l)
        BY <3>3, <3>6, <4>1 DEF ValueTo
      <4> HIDE DEF b, h, g, l, y, base, z, w, o, v
      <4> QED BY <4>1, <4>2, <4>3, <4>4, MatesMk DEF base, k, ms
    <3>7. CASE c \in Scalars
      <4>1. c # Quote /\ c \notin Open
        BY <3>7, ScalarUnits DEF Open
      <4>2. Step(r, c) = EndTo(r, z, p, f)
        BY <1>2, <3>2, <3>4, <4>1 DEF ValueTo
      <4>3. Step(q, c) = EndTo(q, y, x, b)
        BY <3>3, <4>1 DEF ValueTo
      <4> HIDE DEF b, h, g, l, y, base, z
      <4> QED BY <1>2, <4>2, <4>3, MatesEnd DEF base
    <3> QED BY <3>2, <3>5, <3>6, <3>7
  <2>2. CASE WantsKey(q, c)
    <3>1. WantsKey(r, c)
      BY <1>2, <2>2 DEF WantsKey
    <3>2. Step(r, c) = KeyTo(r, c, p)
      BY <1>1, <1>3, <1>11, <3>1, StepKey DEF p
    <3>3. Step(q, c) = KeyTo(q, c, x)
      BY <1>1, <1>3, <1>11, <2>2, StepKey DEF x
    <3> DEFINE b == Cleared(y, h)
    <3>4. Step(r, c) = Mk("key", z, p, k, f, ms)
      BY <1>2, <1>5, <2>0, <3>2 DEF KeyTo
    <3>5. Step(q, c) = Mk("key", y, x, b, g, l)
      BY <3>3 DEF KeyTo
    <3> HIDE DEF b, h, g, l, y, base, z
    <3> QED BY <1>2, <3>4, <3>5, MatesMk DEF base, k, ms
  <2>3. CASE m = "colon"
    <3>1. Step(r, c) = Mk("value", z, p, k, f, ms)
      BY <1>1, <1>2, <1>3, <1>11, <2>3, StepColon DEF p
    <3>2. Step(q, c) = Mk("value", y, x, h, g, l)
      BY <1>1, <1>3, <1>11, <2>3, StepColon DEF x
    <3> HIDE DEF h, g, l, y, base, z
    <3> QED BY <1>2, <2>0, <3>1, <3>2, MatesMk DEF base, k, ms
  <2>4. CASE m = "end"
    BY <1>1, <2>4
  <2>5. CASE Closing(q, c)
    <3>1. Closing(r, c)
      BY <1>2, <2>5 DEF Closing
    <3>2. Step(r, c) = CloseTo(r, c, p)
      BY <1>1, <1>3, <1>11, <3>1, StepClose DEF p
    <3>3. Step(q, c) = CloseTo(q, c, x)
      BY <1>1, <1>3, <1>11, <2>5, StepClose DEF x
    <3> DEFINE w == Front(y)
    <3>4. Step(r, c) = EndTo(r, base \o w, p, f) /\ w \in Seq(Open)
      BY <1>2, <2>0, <3>2 DEF CloseTo
    <3>5. Step(q, c) = EndTo(q, w, x, g)
      BY <3>3 DEF CloseTo
    <3> HIDE DEF h, g, l, y, base, z, w
    <3> QED BY <3>4, <3>5, MatesEnd DEF base
  <2>6. CASE c = Comma /\ m = "after"
    <3> DEFINE o == NextMode(y)
    <3>1. Step(r, c) = Mk(NextMode(z), z, p, k, f, ms)
      BY <1>1, <1>2, <2>6, StepComma DEF p
    <3>2. Step(q, c) = Mk(o, y, x, h, g, l)
      BY <1>1, <2>6, StepComma DEF x
    <3>3. NextMode(z) = o /\ o # "end"
      BY <1>2, <2>0 DEF NextMode
    <3> HIDE DEF h, g, l, y, base, z, o
    <3> QED BY <1>2, <2>0, <3>1, <3>2, <3>3, MatesMk DEF base, k, ms
  <2> QED BY <1>11, <2>1, <2>2, <2>3, <2>4, <2>5, <2>6, PlainCasesHold DEF PlainCases
<1> QED BY <1>1, <1>8, <1>9, <1>10, <1>11, OtherModes

(* Members are only appended, one at a time. *)
Longer(y, x) == y = x \/ \E e \in Entries : y = Append(x, e)

(* When a value ends. *)
LEMMA EndLonger ==
  ASSUME NEW s \in State, NEW st, NEW p \in Int, NEW f \in Int
  PROVE  Longer(EndTo(s, st, p, f).members, s.members)
<1> DEFINE e == [key |-> s.key, from |-> f, to |-> p]
<1>1. e \in Entries
  BY StateFields DEF Entries
<1>2. EndTo(s, st, p, f).members = EndMembers(st, p, s.key, f, s.members)
  BY MkFields DEF EndTo
<1>3. EndMembers(st, p, s.key, f, s.members) \in {s.members, Append(s.members, e)}
  BY DEF EndMembers
<1> HIDE DEF e
<1> QED BY <1>1, <1>2, <1>3 DEF Longer

(* By a step. *)
LEMMA StepLonger ==
  ASSUME NEW s \in State, NEW c \in STRING, Step(s, c).mode # "dead"
  PROVE  Longer(Step(s, c).members, s.members)
<1> DEFINE p == s.pos + 1
           f == s.from
           r == Step(s, c)
<1>1. p \in Int /\ f \in Int
  BY StateFields
<1>2. \A st, g : g \in Int => Longer(EndTo(s, st, p, g).members, s.members)
  BY <1>1, EndLonger
<1>3. \A m, st, q, k, g : Mk(m, st, q, k, g, s.members).members = s.members
  BY MkFields
<1>4. s.mode # "dead"
  BY StepDead
<1> HIDE DEF p
<1>5. CASE s.mode \in {"key", "string"}
  <2>1. r = TextTo(s, c, p)
    BY <1>5, StepText DEF p
  <2> HIDE DEF r, f
  <2>2. r.members = s.members \/ r = EndTo(s, s.stack, p, s.from)
    BY <1>3, <2>1 DEF TextTo
  <2> QED BY <1>1, <1>2, <2>2 DEF Longer, r, f
<1>6. CASE s.mode \in {"keyEscape", "stringEscape"}
  <2>1. r = EscapeTo(s, c, p)
    BY <1>6, StepEscape DEF p
  <2> QED BY <1>3, <2>1 DEF Longer, EscapeTo
<1>7. CASE s.mode \in Plain /\ c \in White
  <2>1. r = BlankTo(s, c, p)
    BY <1>7, StepBlank DEF p
  <2> QED BY <1>3, <2>1 DEF Longer, BlankTo
<1>8. CASE s.mode \in Plain /\ c \notin White
  <2>1. CASE WantsValue(s, c)
    <3> DEFINE g == Began(s.stack, p, s.from)
    <3>1. r = ValueTo(s, c, p)
      BY <1>8, <2>1, StepValue DEF p
    <3>2. g \in Int
      BY <1>1 DEF Began
    <3> HIDE DEF r, f
    <3>3. r.members = s.members \/ r = EndTo(s, s.stack, p, g)
      BY <1>3, <3>1 DEF ValueTo
    <3> HIDE DEF g
    <3> QED BY <1>2, <3>2, <3>3 DEF Longer, r
  <2>2. CASE WantsKey(s, c)
    <3>1. r = KeyTo(s, c, p)
      BY <1>8, <2>2, StepKey DEF p
    <3> QED BY <1>3, <3>1 DEF Longer, KeyTo
  <2>3. CASE s.mode = "colon"
    <3>1. r = Mk("value", s.stack, p, s.key, s.from, s.members)
      BY <1>8, <2>3, StepColon DEF p
    <3> QED BY <1>3, <3>1 DEF Longer
  <2>4. CASE s.mode = "end"
    BY <1>8, <2>4, StepEnd
  <2>5. CASE Closing(s, c)
    <3>1. r = CloseTo(s, c, p)
      BY <1>8, <2>5, StepClose DEF p
    <3> HIDE DEF r
    <3> QED BY <1>1, <1>2, <3>1 DEF CloseTo, r
  <2>6. CASE c = Comma /\ s.mode = "after"
    <3>1. r = Mk(NextMode(s.stack), s.stack, p, s.key, s.from, s.members)
      BY <2>6, StepComma DEF p
    <3> QED BY <1>3, <3>1 DEF Longer
  <2> QED BY <1>8, <2>1, <2>2, <2>3, <2>4, <2>5, <2>6, PlainCasesHold DEF PlainCases
<1> QED BY <1>4, <1>5, <1>6, <1>7, <1>8, OtherModes

(***************************************************************************)
(* The members that are complete stay as they are.                         *)
(***************************************************************************)
Holds(y, x) ==
  y \in Seq(Entries) /\ Len(x) <= Len(y) /\ \A l \in 1..Len(x) : y[l] = x[l]

(* In a run. *)
LEMMA MembersGrow ==
  ASSUME NEW R, NEW b, Sound(R, b), NEW i \in 0..Len(b)
  PROVE  \A j \in Nat : i <= j /\ j <= Len(b) => Holds(R[j].members, R[i].members)
<1> DEFINE n == Len(b)
           x == R[i].members
           P == {j \in Nat : i <= j /\ j <= n => Holds(R[j].members, x)}
<1>1. n \in Nat
  BY DEF Sound, Text
<1>2. x \in Seq(Entries) /\ Holds(x, x)
  <2>1. x \in Seq(Entries)
    BY StateFields DEF Sound
  <2> HIDE DEF x
  <2> QED BY <2>1 DEF Holds
<1>3. 0 \in P
  BY <1>2
<1>4. ASSUME NEW j \in Nat, j \in P PROVE j + 1 \in P
  <2> SUFFICES ASSUME i <= j + 1, j + 1 <= n PROVE Holds(R[j + 1].members, x)
    OBVIOUS
  <2>1. CASE i = j + 1
    BY <1>2, <2>1
  <2>2. CASE i # j + 1
    <3> DEFINE k == j + 1
               y == R[j].members
               z == R[k].members
    <3>1. k \in Nat /\ k >= 1 /\ k <= n /\ k - 1 = j /\ i <= j /\ j <= n
      BY <1>1, <2>2
    <3>2. Holds(y, x)
      BY <1>4, <3>1
    <3> HIDE DEF k
    <3>3. /\ b[k] \in STRING /\ R[k] = Step(R[j], b[k]) /\ R[j] \in State /\ R[k].mode # "dead"
          /\ R[k] \in State
      BY <3>1, SoundStep
    <3>4. Longer(z, y)
      BY <3>3, StepLonger
    <3>5. y \in Seq(Entries) /\ z \in Seq(Entries)
      BY <3>3, StateFields
    <3> HIDE DEF x, y, z
    <3>6. CASE z = y
      BY <3>2, <3>6 DEF k, z
    <3>7. CASE z # y
      <4>1. PICK e \in Entries : z = Append(y, e)
        BY <3>4, <3>7 DEF Longer
      <4>2. Len(z) = Len(y) + 1 /\ \A l \in 1..Len(y) : z[l] = y[l]
        BY <3>5, <4>1
      <4>3. Len(x) \in Nat /\ Len(y) \in Nat
        BY <1>2, <3>5
      <4>4. Holds(z, x)
        BY <3>2, <3>5, <4>2, <4>3 DEF Holds
      <4> QED BY <4>4 DEF k, z
    <3> QED BY <3>6, <3>7
  <2> QED BY <2>1, <2>2
<1> HIDE DEF P
<1>5. \A j \in Nat : j \in P
  BY <1>3, <1>4, Forwards
<1> QED BY <1>5 DEF P

(* A member is appended once. *)
LEMMA NotTwice ==
  ASSUME NEW ms \in Seq(Entries), NEW d, NEW e, Holds(Append(ms, e), Append(ms, d)),
         d \in Entries, e \in Entries
  PROVE  d = e
<1> DEFINE x == Append(ms, d)
           y == Append(ms, e)
           l == Len(ms) + 1
<1>1. Len(x) = l /\ x[l] = d /\ y[l] = e /\ l \in 1..l
  BY AppendProperties
<1> HIDE DEF x, y, l
<1>2. Holds(y, x)
  BY DEF x, y
<1> QED BY <1>1, <1>2 DEF Holds

(***************************************************************************)
(* A JSON text that ends with its last unit and starts with its first one. *)
(***************************************************************************)
Tight(Q, u) ==
  /\ Sound(Q, u) /\ Len(u) >= 1 /\ u[1] \notin White
  /\ \A k \in 0..(Len(u) - 1) : Q[k].mode # "end"

(* The value of a member is such a text. *)
LEMMA SliceRun ==
  ASSUME NEW R, NEW b, Sound(R, b), NEW m, Spanned(R, b, m)
  PROVE  /\ \E Q : Tight(Q, SubSeq(b, m.from, m.to))
         /\ SubSeq(b, m.from, m.to)[1] = b[m.from]
         /\ SubSeq(b, m.from, m.to) # <<>>
<1> DEFINE v == m.from
           t == m.to
           n == Len(b)
           u == SubSeq(b, v, t)
           L == t + 1 - v
           r0 == R[v - 1]
           base == <<LBrace>>
<1>1. /\ v \in Nat /\ v >= 1 /\ v <= n /\ r0.mode = "value" /\ r0.stack = base /\ b[v] \notin White
      /\ t \in Int /\ t + 1 \in Nat /\ v < t + 1 /\ t + 1 <= n + 1
      /\ R[(t + 1) - 1] = Completed(SetFrom(r0, v), t + 1)
  BY DEF Spanned, ValueStarts, ValueEnds, Entries
<1>2. n \in Nat /\ b \in Seq(STRING)
  BY DEF Sound, Text
<1>3. t \in Nat /\ v <= t /\ t <= n /\ (t + 1) - 1 = t /\ L \in Nat /\ L >= 1
  BY SMTT(30), <1>1, <1>2
<1>a. /\ v \in Nat /\ v >= 1 /\ v <= t /\ t \in Nat /\ t <= n /\ n \in Nat
      /\ L \in Nat /\ L >= 1 /\ L = t + 1 - v /\ v - 1 + L = t
  BY <1>1, <1>2, <1>3
<1> HIDE DEF v, t, n, L
<1>4. /\ u \in Text /\ Len(u) = L
      /\ \A k \in 1..L : u[k] = b[v - 1 + k] /\ u[k] \in STRING
  <2>1. b \in Seq(STRING) /\ v \in 1..Len(b) /\ t \in v..Len(b)
    BY <1>2, <1>a DEF n
  <2>2. u \in Seq(STRING) /\ Len(u) = t + 1 - v /\ \A k \in 1..(t + 1 - v) : u[k] = b[v - 1 + k]
    BY <2>1
  <2>3. \A k \in 1..L : u[k] \in STRING
    BY <1>a, <2>2
  <2> QED BY <1>a, <2>2, <2>3 DEF Text
<1>5. r0 \in State /\ r0.pos + 1 = v
  <2>1. v - 1 \in 0..Len(b)
    BY <1>a DEF n
  <2> QED BY <1>1, <2>1 DEF Sound
<1>6. PICK Q : Runs(Q, Start, u) /\ Read(Start, u) = Q[Len(u)]
  BY <1>4, StartFit, RunExists
<1> DEFINE e1 == [key |-> r0.key, from |-> v, to |-> t]
           ms == r0.members
<1>7. /\ R[t].mode = "after" /\ R[t].members = Append(ms, e1) /\ e1 \in Entries /\ ms \in Seq(Entries)
  <2>1. SetFrom(r0, v).key = r0.key /\ SetFrom(r0, v).members = ms /\ SetFrom(r0, v).from = v
    <3>1. SetFrom(r0, v) = Mk(r0.mode, r0.stack, r0.pos, r0.key, v, r0.members)
      BY <1>5, StateFields, OneField
    <3> QED BY <3>1, MkFields
  <2>2. R[t] = Completed(SetFrom(r0, v), t + 1)
    BY <1>1, <1>3
  <2>3. e1 \in Entries /\ ms \in Seq(Entries)
    <3>1. r0.key \in Seq(STRING) /\ ms \in Seq(Entries)
      BY <1>5, StateFields
    <3>2. v \in Int /\ t \in Int
      BY <1>a
    <3> QED BY <3>1, <3>2 DEF Entries
  <2> HIDE DEF r0, ms
  <2>4. R[t] = Mk("after", <<LBrace>>, (t + 1) - 1, r0.key, v, Append(ms, e1))
    BY <1>3, <2>1, <2>2 DEF Completed
  <2> DEFINE w == Append(ms, e1)
             x == (t + 1) - 1
             k == r0.key
  <2>5. R[t] = Mk("after", <<LBrace>>, x, k, v, w)
    BY <2>4
  <2> HIDE DEF e1, w, x, k
  <2>6. R[t].mode = "after" /\ R[t].members = w
    BY <2>5, MkFields
  <2> QED BY <2>3, <2>6 DEF w
<1> HIDE DEF u, r0, base
<1> DEFINE Early(j) == j \in Nat /\ j >= 1 /\ j <= L /\ Q[j].mode = "end"
           Good(k) == /\ Q[k].mode # "dead" /\ Embeds(r0, v, R[v - 1 + k], Q[k])
                      /\ Begun(Q[k]) /\ Fit(Q[k]) /\ Q[k].pos = k
           P == {k \in Nat : (k >= 1 /\ k <= L /\ \A j \in 1..(k - 1) : Q[j].mode # "end") => Good(k)}
<1>8. \A k \in 0..L : Q[k] \in State
  BY <1>4, <1>6 DEF Runs
<1>9. Q[0] = Start /\ Q[0].mode = "value"
  <2>1. Start = Mk("value", <<>>, 0, <<>>, 1, <<>>)
    BY DEF Start, Mk
  <2> QED BY <1>6, <2>1, MkFields DEF Runs
<1>10. \A k \in 1..L : /\ Q[k] = Step(Q[k - 1], u[k]) /\ R[v - 1 + k] = Step(R[v - 1 + (k - 1)], u[k])
                       /\ R[v - 1 + (k - 1)] \in State /\ R[v - 1 + k].mode # "dead" /\ u[k] \in STRING
  <2> TAKE k \in 1..L
  <2> DEFINE i == v - 1 + k
  <2>1. i \in Nat /\ i >= 1 /\ i <= n /\ i - 1 = v - 1 + (k - 1)
    BY <1>a
  <2> HIDE DEF i
  <2>2. /\ b[i] \in STRING /\ R[i] = Step(R[i - 1], b[i]) /\ R[i - 1] \in State /\ R[i].mode # "dead"
    BY <2>1, SoundStep DEF n
  <2>3. u[k] = b[i] /\ Q[k] = Step(Q[k - 1], u[k])
    BY <1>4, <1>6 DEF Runs, i
  <2> QED BY <2>1, <2>2, <2>3 DEF i
<1>11. u[1] = b[v] /\ u[1] \notin White /\ 1 \in 1..L
  <2> DEFINE one == 1
  <2>1. one \in 1..L /\ v - 1 + one = v
    BY <1>1, <1>3
  <2>2. u[one] = b[v - 1 + one]
    BY <1>4, <2>1
  <2> QED BY <1>1, <2>1, <2>2
<1>12. Good(1)
  <2> DEFINE one == 1
             c == u[one]
  <2>1. one - 1 = 0 /\ v - 1 + (one - 1) = v - 1 /\ one \in 1..L /\ c \notin White
    BY <1>1, <1>11
  <2> HIDE DEF one
  <2>2. Q[one] = Step(Start, c) /\ R[v - 1 + one] = Step(r0, c) /\ R[v - 1 + one].mode # "dead" /\ c \in STRING
    BY <1>9, <1>10, <2>1 DEF r0
  <2>3. r0.stack # <<>> /\ r0.mode = "value" /\ Began(r0.stack, r0.pos + 1, r0.from) = v
    BY <1>1, <1>5 DEF base, Began
  <2>4. Lives(r0, c)
    BY <1>5, <2>2, LivesOnly
  <2> HIDE DEF c
  <2>5. Lives(Start, c) /\ Embeds(r0, v, Step(r0, c), Step(Start, c)) /\ Begun(Step(Start, c))
    BY <1>5, <2>1, <2>2, <2>3, <2>4, EmbedFirst
  <2>6. Step(Start, c).mode # "dead"
    BY <2>2, <2>5, StartFit, LivesStep
  <2>7. Fit(Step(Start, c)) /\ Step(Start, c).pos = 0 + 1
    BY <2>2, <2>6, StartFit, StepFit
  <2>8. Good(one)
    BY <2>2, <2>5, <2>6, <2>7 DEF one
  <2> QED BY <2>8 DEF one
<1>13. ASSUME NEW k \in Nat, k \in P PROVE k + 1 \in P
  <2> DEFINE j == k + 1
  <2> SUFFICES ASSUME j >= 1, j <= L, \A i \in 1..(j - 1) : Q[i].mode # "end" PROVE Good(j)
    OBVIOUS
  <2>1. CASE k = 0
    BY <1>12, <2>1
  <2>2. CASE k # 0
    <3>1. j \in 1..L /\ j - 1 = k /\ k >= 1 /\ k <= L /\ k \in 0..L /\ k \in 1..k
      BY <1>3, <2>2
    <3>2. Good(k) /\ Q[k].mode # "end"
      <4>1. \A i \in 1..(k - 1) : i \in 1..(j - 1)
        OBVIOUS
      <4> QED BY <1>13, <3>1, <4>1
    <3> HIDE DEF j
    <3> DEFINE c == u[j]
               r == R[v - 1 + k]
               q == Q[k]
    <3>3. Q[j] = Step(q, c) /\ R[v - 1 + j] = Step(r, c) /\ r \in State /\ Step(r, c).mode # "dead" /\ c \in STRING
      BY <1>10, <3>1
    <3>4. q \in State /\ r0.stack # <<>>
      BY <1>1, <1>8, <3>1 DEF base
    <3> HIDE DEF c, r, q
    <3>5. Mates(r0, v, r, q)
      BY <1>5, <3>2, <3>3, <3>4 DEF Mates, r, q
    <3>6. Lives(q, c)
      BY <3>3, <3>5, LivesOnly, LivesMates
    <3>7. Embeds(r0, v, Step(r, c), Step(q, c)) /\ Begun(Step(q, c))
      BY <3>3, <3>5, <3>6, EmbedStep
    <3>8. Step(q, c).mode # "dead"
      BY <3>3, <3>4, <3>6, LivesStep
    <3>9. Fit(Step(q, c)) /\ Step(q, c).pos = k + 1
      BY <3>2, <3>3, <3>4, <3>8, StepFit DEF q
    <3> QED BY <3>3, <3>7, <3>8, <3>9 DEF j
  <2> QED BY <2>1, <2>2
<1>14. \A k \in Nat : k \in P
  <2>1. 0 \in P
    OBVIOUS
  <2> HIDE DEF P
  <2> QED BY <1>13, <2>1, Forwards
<1>15. \A k \in 1..(L - 1) : Q[k].mode # "end"
  <2> DEFINE B == {k \in 1..(L - 1) : Q[k].mode = "end"}
  <2> SUFFICES ASSUME B # {} PROVE FALSE
    OBVIOUS
  <2>1. PICK k \in B : \A j \in B : k <= j
    <3>1. B \in SUBSET Nat
      OBVIOUS
    <3> HIDE DEF B
    <3> QED BY <3>1, LeastNumber
  <2>2. k \in Nat /\ k >= 1 /\ k <= L /\ k <= L - 1 /\ Q[k].mode = "end"
    BY <1>3
  <2>3. \A j \in 1..(k - 1) : Q[j].mode # "end"
    <3> TAKE j \in 1..(k - 1)
    <3>1. j \in 1..(L - 1) /\ ~(k <= j)
      BY <1>3, <2>2
    <3> QED BY <2>1, <3>1
  <2>4. Good(k)
    BY <1>14, <2>2, <2>3
  <2> DEFINE i == v - 1 + k
             e2 == [key |-> r0.key, from |-> v, to |-> i]
  <2>5. i \in Nat /\ i >= 1 /\ i <= n /\ i < t /\ i \in 0..n /\ i \in Int
    BY <1>a, <2>2
  <2> HIDE DEF i
  <2>6. R[i].pos = i /\ R[i] = EndTo(SetFrom(r0, v), base, R[i].pos, v)
    <3>1. R[i].pos = i
      BY <2>5, SoundStep DEF n
    <3> QED BY <1>1, <2>2, <2>4, <3>1 DEF Embeds, i
  <2>7. R[i].members = Append(ms, e2) /\ e2 \in Entries
    <3>1. SetFrom(r0, v).key = r0.key /\ SetFrom(r0, v).members = ms
      <4>1. SetFrom(r0, v) = Mk(r0.mode, r0.stack, r0.pos, r0.key, v, r0.members)
        BY <1>5, StateFields, OneField
      <4> QED BY <4>1, MkFields
    <3>2. e2 \in Entries
      BY <1>1, <1>5, <2>5, StateFields DEF Entries
    <3> HIDE DEF ms
    <3>3. R[i].members = EndMembers(<<LBrace>>, i, r0.key, v, ms)
      BY <2>6, <3>1, MkFields DEF EndTo, base
    <3> QED BY <3>2, <3>3 DEF EndMembers
  <2>8. Holds(R[t].members, R[i].members)
    <3>1. \A j \in Nat : i <= j /\ j <= Len(b) => Holds(R[j].members, R[i].members)
      BY <2>5, MembersGrow DEF n
    <3>2. t \in Nat /\ i <= t /\ t <= Len(b)
      BY <1>a, <2>5 DEF n
    <3> QED BY <3>1, <3>2
  <2> HIDE DEF ms, e1, e2
  <2>9. e2 = e1
    BY <1>7, <2>7, <2>8, NotTwice
  <2>10. i = t
    BY <2>9 DEF e1, e2
  <2> QED BY <1>3, <2>5, <2>10
<1>16. \A k \in 1..L : Good(k)
  <2> TAKE k \in 1..L
  <2>1. \A j \in 1..(k - 1) : j \in 1..(L - 1)
    BY <1>3
  <2>2. k \in Nat /\ k >= 1 /\ k <= L
    BY <1>3
  <2> QED BY <1>14, <1>15, <2>1, <2>2
<1>17. Q[L].mode = "end"
  <2> SUFFICES ASSUME Q[L].mode # "end" PROVE FALSE
    OBVIOUS
  <2>1. Good(L) /\ v - 1 + L = t
    BY <1>a, <1>16
  <2>2. R[t].members = ms
    BY <2>1 DEF Embeds
  <2> HIDE DEF ms, e1
  <2>3. Append(ms, e1) # ms
    <3>1. Len(Append(ms, e1)) = Len(ms) + 1 /\ Len(ms) \in Nat
      BY <1>7, AppendProperties
    <3> QED BY <3>1
  <2> QED BY <1>7, <2>2, <2>3
<1>18. Sound(Q, u)
  <2>1. ASSUME NEW i \in 0..Len(u)
        PROVE  Q[i] \in State /\ Q[i].mode # "dead" /\ Q[i].pos = i /\ Fit(Q[i])
    <3>1. CASE i = 0
      BY <1>9, <3>1, StartFit
    <3>2. CASE i # 0
      <4>1. i \in 1..L /\ i \in 0..L
        BY <1>3, <1>4, <3>2
      <4> QED BY <1>8, <1>16, <4>1
    <3> QED BY <3>1, <3>2
  <2> QED BY <1>4, <1>6, <1>17, <2>1 DEF Sound
<1>19. Tight(Q, u)
  <2>1. ASSUME NEW k \in 0..(Len(u) - 1) PROVE Q[k].mode # "end"
    <3>1. k = 0 \/ k \in 1..(L - 1)
      BY <1>3, <1>4
    <3> QED BY <1>9, <1>15, <3>1
  <2> QED BY <1>3, <1>4, <1>11, <1>18, <2>1 DEF Tight
<1>20. u # <<>>
  BY <1>3, <1>4
<1> QED BY <1>11, <1>19, <1>20 DEF u, v, t

(***************************************************************************)
(* The members with a key, and the value of the first or last one.         *)
(***************************************************************************)
Named(ms, key) == {i \in 1..Len(ms) : ms[i].key = <<key>>}

(* Some numbers up to n have a least one. *)
LEMMA MinIn ==
  ASSUME NEW n \in Nat, NEW I \in SUBSET (1..n), I # {}
  PROVE  Min(I) \in I /\ \A i \in I : Min(I) <= i
<1>1. \E x \in I : \A y \in I : x <= y
  <2>1. I \in SUBSET Nat
    OBVIOUS
  <2> QED BY <2>1, LeastNumber
<1> QED BY <1>1 DEF Min

(* And a greatest. *)
LEMMA MaxIn ==
  ASSUME NEW n \in Nat, NEW I \in SUBSET (1..n), I # {}
  PROVE  Max(I) \in I /\ \A i \in I : i <= Max(I)
<1> DEFINE J == {n - i : i \in I}
<1>1. J \in SUBSET Nat /\ J # {}
  <2>1. \A i \in I : n - i \in Nat
    OBVIOUS
  <2> QED BY <2>1
<1> HIDE DEF J
<1>2. PICK j \in J : \A m \in J : j <= m
  BY <1>1, LeastNumber
<1>3. PICK x \in I : j = n - x
  BY DEF J
<1>4. \A y \in I : x >= y
  <2> TAKE y \in I
  <2>1. n - y \in J
    BY DEF J
  <2>2. j <= n - y
    BY <1>2, <2>1
  <2> QED BY <1>3, <2>2
<1>5. \E z \in I : \A y \in I : z >= y
  BY <1>4
<1>6. Max(I) \in I /\ \A i \in I : Max(I) >= i
  BY <1>5 DEF Max
<1> QED BY <1>6

(* The first and the last member with a key are members with it. *)
LEMMA NamedIn ==
  ASSUME NEW ms \in Seq(Entries), NEW key, Named(ms, key) # {}
  PROVE  /\ Max(Named(ms, key)) \in 1..Len(ms) /\ Max(Named(ms, key)) \in Named(ms, key)
         /\ Min(Named(ms, key)) \in 1..Len(ms) /\ Min(Named(ms, key)) \in Named(ms, key)
         /\ Max(Named(ms, key)) # 0 /\ Min(Named(ms, key)) # 0
<1> DEFINE n == Len(ms)
           I == Named(ms, key)
<1>1. n \in Nat /\ I \in SUBSET (1..n)
  BY DEF Named
<1> HIDE DEF n, I
<1>2. Max(I) \in I /\ Min(I) \in I
  BY <1>1, MaxIn, MinIn DEF I
<1> QED BY <1>1, <1>2 DEF n, I

(* LastOf, FirstOf and MemberOf by those. *)
LEMMA ByKey ==
  ASSUME NEW b, NEW ms \in Seq(Entries), NEW key
  PROVE  /\ LastOf(b, ms, key) = IF Named(ms, key) = {} THEN <<>>
                                 ELSE SubSeq(b, ms[Max(Named(ms, key))].from, ms[Max(Named(ms, key))].to)
         /\ FirstOf(b, ms, key) = IF Named(ms, key) = {} THEN <<>>
                                 ELSE SubSeq(b, ms[Min(Named(ms, key))].from, ms[Min(Named(ms, key))].to)
         /\ Read(Start, b).members = ms => MemberOf(b, key) = LastOf(b, ms, key)
<1> DEFINE I == {i \in 1..Len(ms) : ms[i].key = <<key>>}
           last == SelectLastInSeq(ms, LAMBDA m : m.key = <<key>>)
           first == SelectInSeq(ms, LAMBDA m : m.key = <<key>>)
<1>1. last = IF I # {} THEN Max(I) ELSE 0
  BY DEF SelectLastInSeq
<1>2. first = IF I # {} THEN Min(I) ELSE 0
  BY DEF SelectInSeq
<1>3. I = Named(ms, key)
  BY DEF Named
<1>4. LastOf(b, ms, key) = Slice(b, ms, last) /\ FirstOf(b, ms, key) = Slice(b, ms, first)
  BY DEF LastOf, FirstOf
<1>5. Read(Start, b).members = ms => MemberOf(b, key) = IF last = 0 THEN <<>> ELSE SubSeq(b, ms[last].from, ms[last].to)
  BY DEF MemberOf
<1> HIDE DEF I, last, first
<1>6. I # {} => Max(I) # 0 /\ Min(I) # 0
  BY <1>3, NamedIn
<1> QED BY <1>1, <1>2, <1>3, <1>4, <1>5, <1>6 DEF Slice, None

(* ValuesOf by those. *)
LEMMA ValuesAre ==
  ASSUME NEW b, NEW ms \in Seq(Entries), NEW key, Read(Start, b).members = ms
  PROVE  ValuesOf(b, key) = {SubSeq(b, ms[i].from, ms[i].to) : i \in Named(ms, key)}
<1>1. DOMAIN ms = 1..Len(ms)
  OBVIOUS
<1> QED BY <1>1 DEF ValuesOf, Named

(* Such a text is JSON, and an object if it starts with a brace. *)
LEMMA TightJson ==
  ASSUME NEW Q, NEW u, Tight(Q, u)
  PROVE  /\ u \in Text /\ u # <<>> /\ IsJson(u) /\ u[1] \notin White
         /\ u[1] = LBrace => Opens(u)
<1>1. /\ u \in Text /\ Len(u) \in Nat /\ Len(u) >= 1 /\ u[1] \notin White
      /\ Runs(Q, Start, u) /\ Q[Len(u)].mode = "end"
  BY DEF Tight, Sound, Text
<1>2. Read(Start, u) = Q[Len(u)]
  BY <1>1, StartFit, ReadRun
<1>3. u[1] = LBrace => Opens(u)
  <2> DEFINE one == 1
  <2>1. one \in 1..Len(u) /\ 1..(one - 1) = {}
    BY <1>1
  <2> QED BY <2>1 DEF Opens
<1> QED BY <1>1, <1>2, <1>3 DEF IsJson

(***************************************************************************)
(* The values of an object are JSON texts themselves.                      *)
(***************************************************************************)
LEMMA ValueIsJson ==
  ASSUME NEW R, NEW b, Sound(R, b), Opens(b), NEW i \in 1..Len(R[Len(b)].members)
  PROVE  LET m == R[Len(b)].members[i]
             u == SubSeq(b, m.from, m.to)
         IN u # <<>> /\ u[1] = b[m.from] /\ \E Q : Tight(Q, u)
<1> DEFINE none == {}
<1>1. Suited(b, R[Len(b)].members, none, none) /\ none \cap none = {}
  BY DEF Suited, Suits
<1> DEFINE m == R[Len(b)].members[i]
<1> HIDE DEF none
<1>2. Spanned(R, b, m)
  BY <1>1, ObjectMembers
<1> HIDE DEF m
<1>3. LET u == SubSeq(b, m.from, m.to) IN u # <<>> /\ u[1] = b[m.from] /\ \E Q : Tight(Q, u)
  BY <1>2, SliceRun
<1> QED BY <1>3 DEF m

(* What is read of members, of any text. *)
LEMMA ReadMembers ==
  ASSUME NEW b \in Text
  PROVE  Read(Start, b).members \in Seq(Entries) /\ Len(Read(Start, b).members) \in Nat
<1>1. PICK R : Runs(R, Start, b) /\ Read(Start, b) = R[Len(b)]
  BY StartFit, RunExists
<1>2. Read(Start, b) \in State
  BY <1>1, StartFit, ReadRun
<1> QED BY <1>2, StateFields

(* So is the member with a key. *)
LEMMA MemberIsJson ==
  ASSUME NEW b \in Text, IsJson(b), Opens(b), NEW key, MemberOf(b, key) # None
  PROVE  /\ \E Q : Tight(Q, MemberOf(b, key))
         /\ MemberOf(b, key) \in Text /\ IsJson(MemberOf(b, key))
         /\ MemberOf(b, key)[1] = LBrace => Opens(MemberOf(b, key))
<1> DEFINE ms == Read(Start, b).members
           I == Named(ms, key)
<1>1. PICK R : Sound(R, b) /\ Read(Start, b) = R[Len(b)]
  BY SoundRun
<1>2. ms \in Seq(Entries)
  BY ReadMembers
<1>3. MemberOf(b, key) = IF I = {} THEN <<>> ELSE SubSeq(b, ms[Max(I)].from, ms[Max(I)].to)
  BY <1>2, ByKey
<1>4. I # {}
  BY <1>3 DEF None
<1>5. Max(I) \in 1..Len(ms)
  BY <1>2, <1>4, NamedIn
<1> HIDE DEF I
<1>6. MemberOf(b, key) = SubSeq(b, ms[Max(I)].from, ms[Max(I)].to)
  BY <1>3, <1>4
<1>7. \E Q : Tight(Q, MemberOf(b, key))
  <2> DEFINE i == Max(I)
             m == ms[i]
             u == SubSeq(b, m.from, m.to)
  <2>1. ms = R[Len(b)].members /\ i \in 1..Len(R[Len(b)].members)
    BY <1>1, <1>5
  <2> HIDE DEF i
  <2>2. \E Q : Tight(Q, SubSeq(b, R[Len(b)].members[i].from, R[Len(b)].members[i].to))
    BY <1>1, <2>1, ValueIsJson
  <2> QED BY <1>6, <2>1, <2>2 DEF i
<1> QED BY <1>7, TightJson

(***************************************************************************)
(* What the grammar has made of the request.                               *)
(***************************************************************************)
Followed == conf \in Scenarios /\ text \in Text /\ ref = Read(Start, text)

(* At first. *)
LEMMA InitFollowed == Init => Followed
<1> SUFFICES ASSUME Init PROVE Followed
  OBVIOUS
<1> DEFINE b == <<>>
<1>1. text = b /\ b \in Text /\ Len(b) = 0
  BY DEF Init, Text
<1> HIDE DEF b
<1>2. PICK R : Runs(R, Start, b) /\ Read(Start, b) = R[Len(b)]
  BY <1>1, StartFit, RunExists
<1> QED BY <1>1, <1>2 DEF Init, Followed, Runs

(* By each unit the client writes. *)
LEMMA NextFollowed == Followed /\ [Next]_vars => Followed'
<1> SUFFICES ASSUME Followed, [Next]_vars PROVE Followed'
  OBVIOUS
<1>1. ASSUME NEW i \in DOMAIN Pieces, Write(i) PROVE Followed'
  <2>1. PICK next \in Pieces[i].texts :
          LET needed == conf.strict /\ ref.mode = "after" /\ next[1] \notin Close \cup White
              piece == IF needed THEN <<Comma>> \o next ELSE next
          IN text' = text \o piece /\ ref' = Read(ref, piece)
    BY <1>1 DEF Write
  <2> DEFINE needed == conf.strict /\ ref.mode = "after" /\ next[1] \notin Close \cup White
             piece == IF needed THEN <<Comma>> \o next ELSE next
  <2>2. next \in Text
    <3>0. conf.lexicon \in DOMAIN Lexicon
      <4>1. conf \in [lexicon : DOMAIN Lexicon, strict : BOOLEAN, sse : BOOLEAN]
        BY ScenarioAssumption DEF Followed
      <4> QED BY <4>1
    <3>1. Pieces \in Seq([texts : SUBSET Seq(STRING), uses : Nat])
      BY <3>0, ScenarioAssumption DEF Pieces
    <3> DEFINE T == [texts : SUBSET Seq(STRING), uses : Nat]
               ps == Pieces
    <3> HIDE DEF T, ps
    <3>2. ps \in Seq(T) /\ i \in DOMAIN ps
      BY <3>1 DEF T, ps
    <3>3. ps[i] \in T
      BY <3>2
    <3>4. Pieces[i] \in [texts : SUBSET Seq(STRING), uses : Nat]
      BY <3>3 DEF T, ps
    <3> QED BY <3>4 DEF Text
  <2>3. piece \in Text
    <3>1. Comma \in STRING
      BY UnitAssumption
    <3>2. <<Comma>> \in Seq(STRING)
      BY <3>1
    <3> DEFINE comma == <<Comma>>
    <3> HIDE DEF comma, needed
    <3>3. comma \in Seq(STRING) /\ next \in Seq(STRING)
      BY <2>2, <3>2 DEF comma, Text
    <3>4. comma \o next \in Seq(STRING)
      BY <3>3
    <3> QED BY <2>2, <3>3, <3>4 DEF comma, Text
  <2>4. text' = text \o piece /\ ref' = Read(ref, piece)
    BY <2>1
  <2> HIDE DEF piece
  <2>5. text \o piece \in Text
    BY <2>3 DEF Text, Followed
  <2>6. Read(Start, text \o piece) = Read(Read(Start, text), piece)
    BY <2>3, StartFit, ReadConcat DEF Followed
  <2>7. conf' = conf
    BY <1>1 DEF Write
  <2> QED BY <2>4, <2>5, <2>6, <2>7 DEF Followed
<1>2. CASE Dispatch
  BY <1>2 DEF Dispatch, Followed
<1>3. CASE UNCHANGED vars
  BY <1>3 DEF vars, Followed
<1> QED BY <1>1, <1>2, <1>3 DEF Next

(* The state of the grammar is always the one after the whole text.        *)
THEOREM FollowedAlways == Spec => []Followed
<1> QED BY InitFollowed, NextFollowed, PTL DEF Spec

(* A legal request is a JSON object. *)
LEMMA LegalObject ==
  ASSUME Followed, Legal
  PROVE  text \in Text /\ IsJson(text) /\ Opens(text)
<1>1. text \in Text /\ IsJson(text)
  BY DEF Followed, Legal, IsJson
<1>2. DOMAIN text = 1..Len(text)
  BY <1>1 DEF Text
<1> QED BY <1>1, <1>2 DEF Legal, Opens

(* ScannerAgrees for every lexicon: of every legal request, its parameters and the *)
(* arguments in them, the scanner finds the members that the grammar finds. *)
THEOREM ScannerAgreesAlways == Spec => []ScannerAgrees
<1>1. Followed => ScannerAgrees
  <2> DEFINE arguments == MemberOf(Params, "arguments")
  <2> SUFFICES ASSUME Followed, Legal
               PROVE  /\ SameMembers(text)
                      /\ Params # None /\ Params[1] = LBrace =>
                           /\ SameMembers(Params)
                           /\ arguments # None /\ arguments[1] = LBrace => SameMembers(arguments)
    BY DEF ScannerAgrees
  <2>1. text \in Text /\ IsJson(text) /\ Opens(text)
    BY LegalObject
  <2>2. ASSUME Params # None, Params[1] = LBrace
        PROVE  /\ SameMembers(Params)
               /\ arguments # None /\ arguments[1] = LBrace => SameMembers(arguments)
    <3> DEFINE p == Params
               a == MemberOf(p, "arguments")
    <3>1. p \in Text /\ IsJson(p) /\ Opens(p)
      BY <2>1, <2>2, MemberIsJson DEF Params
    <3> HIDE DEF p
    <3>2. a # None /\ a[1] = LBrace => a \in Text /\ IsJson(a) /\ Opens(a)
      BY <3>1, MemberIsJson
    <3> HIDE DEF a
    <3>3. a # None /\ a[1] = LBrace => SameMembers(a)
      BY <3>2, ObjectsAgree
    <3>4. SameMembers(p)
      BY <3>1, ObjectsAgree
    <3> QED BY <3>3, <3>4 DEF a, p
  <2> QED BY <2>1, <2>2, ObjectsAgree
<1> QED BY <1>1, FollowedAlways, PTL

(***************************************************************************)
(* The members of a legal request are what its readers expect.             *)
(***************************************************************************)
LEMMA NamedValues ==
  ASSUME NEW R, NEW b, Sound(R, b), Opens(b), Read(Start, b) = R[Len(b)], NEW key,
         NEW i \in 1..Len(R[Len(b)].members), R[Len(b)].members[i].key = <<key>>
  PROVE  \E u \in ValuesOf(b, key) : u[1] = b[R[Len(b)].members[i].from]
<1> DEFINE ms == R[Len(b)].members
           u == SubSeq(b, ms[i].from, ms[i].to)
<1>1. ms \in Seq(Entries)
  <2>1. b \in Text
    BY DEF Sound
  <2> QED BY <2>1, ReadMembers
<1>2. i \in Named(ms, key)
  BY DEF Named
<1>3. LET m == R[Len(b)].members[i]
         v == SubSeq(b, m.from, m.to)
     IN v # <<>> /\ v[1] = b[m.from] /\ \E Q : Tight(Q, v)
  BY ValueIsJson
<1>4. Read(Start, b).members = ms
  OBVIOUS
<1> HIDE DEF ms
<1>5. ValuesOf(b, key) = {SubSeq(b, ms[j].from, ms[j].to) : j \in Named(ms, key)}
  BY <1>1, <1>4, ValuesAre
<1>6. u \in ValuesOf(b, key)
  BY <1>2, <1>5
<1> QED BY <1>3, <1>6 DEF ms

(* ParseRpc finds the method, the id and the parameters of a legal request. *)
LEMMA Parsed ==
  ASSUME Followed, Legal
  PROVE  ParseRpc(text) = [closed |-> TRUE, method |-> Method, id |-> Id, params |-> Params]
<1> DEFINE strings == {<<"method">>}
           tokens == {<<"id">>}
           ms == Read(Start, text).members
<1>1. text \in Text /\ IsJson(text) /\ Opens(text)
  BY LegalObject
<1>2. PICK R : Sound(R, text) /\ Read(Start, text) = R[Len(text)]
  BY <1>1, SoundRun
<1>3. ms \in Seq(Entries) /\ Len(ms) \in Nat
  BY <1>1, ReadMembers
<1>4. strings \cap tokens = {}
  OBVIOUS
<1>5. Suited(text, ms, strings, tokens)
  <2> SUFFICES ASSUME NEW i \in 1..Len(ms) PROVE Suits(text, ms[i], strings, tokens)
    BY DEF Suited
  <2> DEFINE m == ms[i]
             c == text[m.from]
  <2>1. \A key : m.key = <<key>> => \E u \in ValuesOf(text, key) : u[1] = c
    <3> TAKE key
    <3> QED BY <1>1, <1>2, NamedValues
  <2>2. m.key \in strings => c = Quote
    <3> SUFFICES ASSUME m.key = <<"method">> PROVE c = Quote
      OBVIOUS
    <3>1. PICK u \in ValuesOf(text, "method") : u[1] = c
      BY <2>1
    <3>2. IsString(u)
      BY <3>1 DEF Legal
    <3> QED BY <3>1, <3>2 DEF IsString
  <2>3. m.key \in tokens => c \in {Quote} \cup Scalars
    <3> SUFFICES ASSUME m.key = <<"id">> PROVE c \in {Quote} \cup Scalars
      OBVIOUS
    <3>1. PICK u \in ValuesOf(text, "id") : u[1] = c
      BY <2>1
    <3>2. IsString(u) \/ u[1] \in Scalars
      BY <3>1 DEF Legal
    <3> QED BY <3>1, <3>2 DEF IsString
  <2> QED BY <2>2, <2>3 DEF Suits
<1> HIDE DEF strings, tokens
<1>6. Members(text, strings, tokens) = [members |-> ms, closed |-> TRUE]
  <2>1. ms = R[Len(text)].members
    BY <1>2
  <2> QED BY <1>1, <1>2, <1>4, <1>5, <2>1, ObjectMembers
<1> DEFINE M == Members(text, strings, tokens)
<1>7. M.closed = TRUE /\ M.members = ms
  BY <1>6
<1> HIDE DEF M, ms
<1>8. LastOf(text, ms, "method") = Method /\ LastOf(text, ms, "id") = Id /\ LastOf(text, ms, "params") = Params
  <2>1. Read(Start, text).members = ms
    BY DEF ms
  <2>2. \A key : MemberOf(text, key) = LastOf(text, ms, key)
    BY <1>3, <2>1, ByKey
  <2> QED BY <2>2 DEF Method, Id, Params
<1>9. ParseRpc(text) = [closed |-> M.closed, method |-> LastOf(text, M.members, "method"),
                        id |-> LastOf(text, M.members, "id"), params |-> LastOf(text, M.members, "params")]
  BY DEF ParseRpc, M, strings, tokens
<1> QED BY <1>7, <1>8, <1>9

(***************************************************************************)
(* The server's answer is the one to the request that was written.         *)
(***************************************************************************)
Served == Followed /\ (Replied => reply = DispatchRpc(text, conf.sse))

(* A reply is made of the whole text. *)
LEMMA NextServed == Served /\ [Next]_vars => Served'
<1> SUFFICES ASSUME Served, [Next]_vars PROVE Served'
  OBVIOUS
<1>0. Followed'
  BY NextFollowed DEF Served
<1>1. ASSUME NEW i \in DOMAIN Pieces, Write(i) PROVE Served'
  BY <1>0, <1>1 DEF Write, Served, Replied
<1>2. CASE Dispatch
  BY <1>0, <1>2 DEF Dispatch, Served
<1>3. CASE UNCHANGED vars
  BY <1>0, <1>3 DEF vars, Served, Replied
<1> QED BY <1>1, <1>2, <1>3 DEF Next

(* A reply is always what DispatchRpc makes of the text written.           *)
THEOREM ServedAlways == Spec => []Served
<1>1. Init => Served
  BY InitFollowed DEF Init, Served, Replied
<1> QED BY <1>1, NextServed, PTL DEF Spec

(* A method that is dispatched has a body for an answer. *)
LEMMA Kinds ==
  ASSUME NEW method, NEW id, NEW params, NEW sse
  PROVE  DispatchMethod(method, id, params, sse).kind # "empty"
<1> DEFINE body == HandleToolsCall(id, params, sse)
           version == FindProtocolVersion(params)
           first == BuildInitialize(id, IF version = None THEN <<"2025-06-18">> ELSE StringInner(version))
           e1 == Error(id, "-32602")
           e2 == Error(id, "-32601")
           r == Result(id, <<LBrace, RBrace>>)
           called == IF body = None THEN Json(200, e1)
                     ELSE [kind |-> IF sse THEN "sse" ELSE "json", status |-> 200, body |-> body]
<1>1. DispatchMethod(method, id, params, sse)
        = CASE method = <<"initialize">> -> Json(200, first)
            [] method \in {<<"tools/list">>, <<"ping">>} -> Json(200, r)
            [] method = <<"tools/call">> -> called
            [] OTHER -> Json(200, e2)
  BY DEF DispatchMethod
<1>2. called.kind # "empty"
  <2> HIDE DEF body, e1
  <2> QED BY DEF Json
<1>3. Json(200, first).kind # "empty" /\ Json(200, r).kind # "empty" /\ Json(200, e2).kind # "empty"
  <2> HIDE DEF first, r, e2
  <2> QED BY DEF Json
<1> HIDE DEF called, first, r, e2
<1>4. <<"initialize">> \notin {<<"tools/list">>, <<"ping">>, <<"tools/call">>}
      /\ <<"tools/call">> \notin {<<"tools/list">>, <<"ping">>}
  OBVIOUS
<1> QED BY <1>1, <1>2, <1>3, <1>4

(* Which strings IsNotification recognises. *)
LEMMA MethodStart ==
  ASSUME NEW u \in Text, Len(u) >= 2, u[1] = Quote, Last(u) = Quote
  PROVE  IsNotification(StringInner(u)) <=> Len(u) > 3 /\ u[2] = "notifications/"
<1> DEFINE n == Len(u)
           w == Front(u)
           x == Tail(w)
<1>1. n \in Nat /\ n >= 2 /\ u \in Seq(STRING)
  BY DEF Text
<1>2. w \in Seq(STRING) /\ Len(w) = n - 1 /\ \A i \in 1..(n - 1) : w[i] = u[i]
  <2> DEFINE m == n - 1
  <2>1. m \in Nat /\ m <= n
    BY <1>1
  <2> HIDE DEF m
  <2>2. SubSeq(u, 1, m) \in Seq(STRING) /\ Len(SubSeq(u, 1, m)) = m /\ \A i \in 1..m : SubSeq(u, 1, m)[i] = u[i]
    BY <1>1, <2>1
  <2> QED BY <2>2 DEF Front, m
<1> HIDE DEF w
<1>3. x \in Seq(STRING) /\ Len(x) = n - 2 /\ \A i \in 1..(n - 2) : x[i] = w[i + 1]
  <2>1. w # <<>>
    BY <1>1, <1>2
  <2> QED BY <1>1, <1>2, <2>1
<1>4. StringInner(u) = x
  BY DEF StringInner, w
<1>5. n > 3 => x[1] = u[2]
  BY <1>1, <1>2, <1>3
<1> HIDE DEF x
<1>6. Len(x) > 1 <=> n > 3
  BY <1>1, <1>3
<1> QED BY <1>4, <1>5, <1>6 DEF IsNotification

(* A string without its quotes. *)
LEMMA InnerIs ==
  ASSUME NEW u \in Text, Len(u) >= 2, u[1] = Quote, Last(u) = Quote
  PROVE  /\ StringInner(u) \in Text /\ Len(StringInner(u)) = Len(u) - 2
         /\ \A i \in 1..(Len(u) - 2) : StringInner(u)[i] = u[i + 1]
<1> DEFINE n == Len(u)
           w == Front(u)
           x == Tail(w)
<1>1. n \in Nat /\ n >= 2 /\ u \in Seq(STRING)
  BY DEF Text
<1>2. w \in Seq(STRING) /\ Len(w) = n - 1 /\ \A i \in 1..(n - 1) : w[i] = u[i]
  <2> DEFINE m == n - 1
  <2>1. m \in Nat /\ m <= n
    BY <1>1
  <2> HIDE DEF m
  <2>2. SubSeq(u, 1, m) \in Seq(STRING) /\ Len(SubSeq(u, 1, m)) = m /\ \A i \in 1..m : SubSeq(u, 1, m)[i] = u[i]
    BY <1>1, <2>1
  <2> QED BY <2>2 DEF Front, m
<1> HIDE DEF w
<1>3. x \in Seq(STRING) /\ Len(x) = n - 2 /\ \A i \in 1..(n - 2) : x[i] = w[i + 1]
  <2>1. w # <<>>
    BY <1>1, <1>2
  <2> QED BY <1>1, <1>2, <2>1
<1>4. StringInner(u) = x
  BY DEF StringInner, w
<1> HIDE DEF x
<1>5. \A i \in 1..(n - 2) : x[i] = u[i + 1]
  BY <1>1, <1>2, <1>3
<1> QED BY <1>3, <1>4, <1>5 DEF Text

(***************************************************************************)
(* What may be written between the quotes of a string.                     *)
(***************************************************************************)
InnerStep(f, u, k) ==
  IF f[k - 1] THEN u[k] \in {Quote, Backslash} /\ ~f[k]
  ELSE u[k] \notin {Quote, Newline} /\ (f[k] <=> u[k] = Backslash)

Inner(u) ==
  /\ u \in Text
  /\ \E f \in [0..Len(u) -> BOOLEAN] :
       ~f[0] /\ ~f[Len(u)] /\ \A k \in 1..Len(u) : InnerStep(f, u, k)

(* The automaton within a string by itself. *)
Inside(s) == s.stack = <<>> /\ s.mode \in {"string", "stringEscape"}

(* A step in there. *)
LEMMA InsideStep ==
  ASSUME NEW s \in State, Inside(s), NEW c \in STRING, Step(s, c).mode # "dead"
  PROVE  /\ s.mode = "stringEscape" => /\ c \in {Quote, Backslash}
                                       /\ Inside(Step(s, c)) /\ Step(s, c).mode = "string"
         /\ s.mode = "string" =>
              /\ c # Newline
              /\ c = Quote <=> Step(s, c).mode = "end"
              /\ c # Quote => Inside(Step(s, c))
              /\ c = Backslash <=> Step(s, c).mode = "stringEscape"
<1> DEFINE p == s.pos + 1
<1>1. CASE s.mode = "stringEscape"
  <2>1. c \in {Quote, Backslash} /\ Step(s, c) = EscapeTo(s, c, p)
    BY <1>1, StepEscape
  <2>2. EscapeTo(s, c, p).mode = "string" /\ EscapeTo(s, c, p).stack = s.stack
    BY <1>1, MkFields DEF EscapeTo
  <2> QED BY <1>1, <2>1, <2>2 DEF Inside
<1>2. CASE s.mode = "string"
  <2>1. c # Newline /\ Step(s, c) = TextTo(s, c, p)
    BY <1>2, StepText
  <2> DEFINE k1 == Grown(s.mode, s.stack, s.key, c)
  <2> HIDE DEF p, k1
  <2>2. CASE c = Backslash
    <3>1. c # Quote /\ Step(s, c) = Mk("stringEscape", s.stack, p, k1, s.from, s.members)
      BY <1>2, <2>1, <2>2, Units DEF TextTo, EscapeMode, k1
    <3>2. Step(s, c).mode = "stringEscape" /\ Step(s, c).stack = s.stack
      BY <3>1, MkFields
    <3> QED BY <1>2, <2>1, <2>2, <3>1, <3>2 DEF Inside
  <2>3. CASE c = Quote
    <3>1. c # Backslash /\ Step(s, c) = EndTo(s, s.stack, p, s.from)
      BY <1>2, <2>1, <2>3, Units DEF TextTo
    <3>2. Step(s, c).mode = "end"
      BY <3>1, MkFields DEF EndTo, EndMode, Inside
    <3> QED BY <1>2, <2>1, <2>3, <3>1, <3>2
  <2>4. CASE c \notin {Backslash, Quote}
    <3>1. Step(s, c) = Mk("string", s.stack, p, k1, s.from, s.members)
      BY <1>2, <2>1, <2>4 DEF TextTo, k1
    <3>2. Step(s, c).mode = "string" /\ Step(s, c).stack = s.stack
      BY <3>1, MkFields
    <3> QED BY <1>2, <2>1, <2>4, <3>2 DEF Inside
  <2> QED BY <2>2, <2>3, <2>4
<1> QED BY <1>1, <1>2 DEF Inside

(* A string is quotes around what may be between them. *)
LEMMA TightString ==
  ASSUME NEW Q, NEW u, Tight(Q, u), u[1] = Quote
  PROVE  Len(u) \in Nat /\ Len(u) >= 2 /\ Last(u) = Quote /\ Inner(StringInner(u))
<1> DEFINE n == Len(u)
<1>1. n \in Nat /\ n >= 1 /\ u \in Text /\ Q[n].mode = "end" /\ Q[0] = Start
      /\ \A k \in 0..(n - 1) : Q[k].mode # "end"
  BY DEF Tight, Sound, Text, Runs
<1>2. Sound(Q, u)
  BY DEF Tight
<1>3. Inside(Q[1]) /\ Q[1].mode = "string"
  <2> DEFINE one == 1
  <2>1. one \in Nat /\ one >= 1 /\ one <= n /\ one - 1 = 0
    BY <1>1
  <2> HIDE DEF one
  <2>2. Q[one] = Step(Start, u[one]) /\ Q[one].mode # "dead" /\ u[one] = Quote
    BY <1>1, <1>2, <2>1, SoundStep DEF one
  <2>3. Start = Mk("value", <<>>, 0, <<>>, 1, <<>>)
    BY DEF Start, Mk
  <2>4. Start.mode = "value" /\ Start.stack = <<>>
    BY <2>3, MkFields
  <2>5. Quote \notin White /\ Quote \notin Open
    BY Brackets
  <2> DEFINE q == Start
             f == Began(q.stack, q.pos + 1, q.from)
  <2>6. Step(q, Quote) = ValueTo(q, Quote, q.pos + 1)
    BY <2>2, <2>4, <2>5, StartFit, StepValue DEF WantsValue
  <2> HIDE DEF q
  <2>7. ValueTo(q, Quote, q.pos + 1) = Mk("string", q.stack, q.pos + 1, q.key, f, q.members)
    BY <2>5 DEF ValueTo
  <2> HIDE DEF f
  <2>8. Step(q, Quote).mode = "string" /\ Step(q, Quote).stack = q.stack
    BY <2>6, <2>7, MkFields
  <2> QED BY <2>2, <2>4, <2>8 DEF Inside, one, q
<1>4. n >= 2
  BY <1>1, <1>3
<1> DEFINE P == {k \in Nat : k >= 1 /\ k <= n - 1 => Inside(Q[k])}
<1>5. \A k \in Nat : k \in P
  <2>1. 0 \in P
    OBVIOUS
  <2>2. ASSUME NEW k \in Nat, k \in P PROVE k + 1 \in P
    <3> DEFINE j == k + 1
    <3> SUFFICES ASSUME j <= n - 1 PROVE Inside(Q[j])
      OBVIOUS
    <3>1. CASE k = 0
      BY <1>3, <3>1
    <3>2. CASE k # 0
      <4>1. j \in Nat /\ j >= 1 /\ j <= n /\ j - 1 = k /\ Inside(Q[k]) /\ j \in 0..(n - 1)
        BY <1>1, <2>2, <3>2
      <4> HIDE DEF j
      <4>2. u[j] \in STRING /\ Q[j] = Step(Q[k], u[j]) /\ Q[k] \in State /\ Q[j].mode # "dead"
        BY <1>2, <4>1, SoundStep
      <4>3. Q[j].mode # "end"
        BY <1>1, <4>1
      <4> DEFINE q == Q[k]
                 c == u[j]
      <4>4. /\ q \in State /\ Inside(q) /\ c \in STRING /\ Step(q, c).mode # "dead"
            /\ Step(q, c).mode # "end" /\ Q[j] = Step(q, c)
        BY <4>1, <4>2, <4>3
      <4> HIDE DEF q, c
      <4>5. Inside(Step(q, c))
        BY <4>4, InsideStep DEF Inside
      <4> QED BY <4>4, <4>5
    <3> QED BY <3>1, <3>2
  <2> HIDE DEF P
  <2> QED BY <2>1, <2>2, Forwards
<1>6. u[n] = Quote /\ Q[n - 1].mode = "string"
  <2> DEFINE k == n - 1
  <2>1. k \in Nat /\ k >= 1 /\ k <= n - 1 /\ n >= 1 /\ n <= n
    BY <1>1, <1>4
  <2>2. Inside(Q[k])
    BY <1>5, <2>1
  <2>3. u[n] \in STRING /\ Q[n] = Step(Q[k], u[n]) /\ Q[k] \in State /\ Q[n].mode # "dead"
    BY <1>1, <1>2, <2>1, SoundStep
  <2> HIDE DEF k
  <2>4. (Q[k].mode = "stringEscape" => Step(Q[k], u[n]).mode = "string")
        /\ (Q[k].mode = "string" => (u[n] = Quote <=> Step(Q[k], u[n]).mode = "end"))
    <3> DEFINE q == Q[k]
               c == u[n]
    <3>1. q \in State /\ Inside(q) /\ c \in STRING /\ Step(q, c).mode # "dead"
      BY <2>2, <2>3
    <3> HIDE DEF q, c
    <3>2. (q.mode = "stringEscape" => Step(q, c).mode = "string")
          /\ (q.mode = "string" => (c = Quote <=> Step(q, c).mode = "end"))
      BY <3>1, InsideStep
    <3> QED BY <3>2 DEF q, c
  <2>5. u[n] = Quote /\ Q[k].mode = "string"
    BY <1>1, <2>2, <2>3, <2>4 DEF Inside
  <2> QED BY <2>5 DEF k
<1>7. Last(u) = Quote
  BY <1>6 DEF Last
<1> DEFINE x == StringInner(u)
           E(k) == Q[k + 1].mode = "stringEscape"
           f == [k \in 0..(n - 2) |-> IF E(k) THEN TRUE ELSE FALSE]
<1>8. x \in Text /\ Len(x) = n - 2 /\ \A i \in 1..(n - 2) : x[i] = u[i + 1]
  BY <1>1, <1>4, <1>7, InnerIs
<1> HIDE DEF x
<1>9. ~f[0] /\ ~f[n - 2] /\ f \in [0..(n - 2) -> BOOLEAN]
  <2>1. 0 \in 0..(n - 2) /\ n - 2 \in 0..(n - 2) /\ (n - 2) + 1 = n - 1
    BY <1>1, <1>4
  <2>2. ~E(0) /\ ~E(n - 2)
    BY <1>3, <1>6, <2>1
  <2> HIDE DEF E
  <2> QED BY <2>1, <2>2
<1>10. ASSUME NEW k \in 1..(n - 2) PROVE InnerStep(f, x, k)
  <2> DEFINE j == k + 1
  <2>1. /\ k \in Nat /\ k >= 1 /\ k <= n - 1 /\ j \in Nat /\ j >= 1 /\ j <= n /\ j - 1 = k
        /\ k - 1 \in 0..(n - 2) /\ k \in 0..(n - 2) /\ (k - 1) + 1 = k /\ j \in 0..(n - 1)
    BY <1>1, <1>4
  <2>2. x[k] = u[j] /\ (f[k] <=> Q[j].mode = "stringEscape") /\ (f[k - 1] <=> Q[k].mode = "stringEscape")
    <3>1. x[k] = u[j] /\ (E(k) <=> Q[j].mode = "stringEscape") /\ (E(k - 1) <=> Q[k].mode = "stringEscape")
      BY <1>8, <2>1
    <3> HIDE DEF E
    <3> QED BY <2>1, <3>1
  <2> HIDE DEF j, f
  <2>3. u[j] \in STRING /\ Q[j] = Step(Q[k], u[j]) /\ Q[k] \in State /\ Q[j].mode # "dead" /\ Inside(Q[k])
    BY <1>2, <1>5, <2>1, SoundStep
  <2>4. Q[j].mode # "end"
    BY <1>1, <2>1
  <2>a. /\ Q[k].mode = "stringEscape" => u[j] \in {Quote, Backslash} /\ Q[j].mode = "string"
        /\ Q[k].mode = "string" =>
             u[j] # Newline /\ u[j] # Quote /\ (u[j] = Backslash <=> Q[j].mode = "stringEscape")
    <3> DEFINE q == Q[k]
               c == u[j]
    <3>1. /\ q \in State /\ Inside(q) /\ c \in STRING /\ Step(q, c).mode # "dead"
          /\ Step(q, c).mode # "end" /\ Q[j] = Step(q, c)
      BY <2>3, <2>4
    <3> HIDE DEF q, c
    <3>2. /\ q.mode = "stringEscape" => c \in {Quote, Backslash} /\ Step(q, c).mode = "string"
          /\ q.mode = "string" =>
               c # Newline /\ c # Quote /\ (c = Backslash <=> Step(q, c).mode = "stringEscape")
      BY <3>1, InsideStep
    <3> QED BY <3>1, <3>2 DEF q, c
  <2>5. CASE Q[k].mode = "stringEscape"
    <3>1. u[j] \in {Quote, Backslash} /\ Q[j].mode = "string"
      BY <2>5, <2>a
    <3> QED BY <2>2, <2>5, <3>1 DEF InnerStep
  <2>6. CASE Q[k].mode = "string"
    <3>1. u[j] # Newline /\ u[j] # Quote /\ (u[j] = Backslash <=> Q[j].mode = "stringEscape")
      BY <2>6, <2>a
    <3> QED BY <2>2, <2>6, <3>1 DEF InnerStep
  <2> QED BY <2>3, <2>5, <2>6 DEF Inside
<1> HIDE DEF f
<1>11. Inner(x)
  BY <1>8, <1>9, <1>10 DEF Inner
<1> QED BY <1>1, <1>4, <1>7, <1>11 DEF x

(* The last member with a key is one of them. *)
LEMMA LastIsValue ==
  ASSUME NEW b \in Text, NEW key, MemberOf(b, key) # None
  PROVE  MemberOf(b, key) \in ValuesOf(b, key)
<1> DEFINE ms == Read(Start, b).members
           I == Named(ms, key)
<1>1. ms \in Seq(Entries) /\ Read(Start, b).members = ms
  BY ReadMembers
<1> HIDE DEF ms
<1>2. MemberOf(b, key) = IF I = {} THEN <<>> ELSE SubSeq(b, ms[Max(I)].from, ms[Max(I)].to)
  BY <1>1, ByKey
<1>3. I # {}
  BY <1>2 DEF None
<1>4. Max(I) \in I
  BY <1>1, <1>3, NamedIn
<1>5. ValuesOf(b, key) = {SubSeq(b, ms[j].from, ms[j].to) : j \in I}
  BY <1>1, ValuesAre
<1> HIDE DEF I
<1> QED BY <1>2, <1>3, <1>4, <1>5

(* The method of a legal request is a string. *)
LEMMA MethodFacts ==
  ASSUME Followed, Legal, Method # None
  PROVE  /\ Method \in Text /\ Len(Method) \in Nat /\ Len(Method) >= 2
         /\ Method[1] = Quote /\ Last(Method) = Quote
<1>1. text \in Text /\ IsJson(text) /\ Opens(text)
  BY LegalObject
<1>2. Method \in ValuesOf(text, "method")
  BY <1>1, LastIsValue DEF Method
<1>3. Method[1] = Quote
  BY <1>2 DEF Legal, IsString
<1>4. Method \in Text /\ \E Q : Tight(Q, Method)
  BY <1>1, MemberIsJson DEF Method
<1> QED BY <1>3, <1>4, TightString

(* The answer to a legal request, told by its method and id. *)
LEMMA LegalAnswer ==
  ASSUME Followed, Legal, NEW sse
  PROVE  DispatchRpc(text, sse)
           = IF Method = None
               THEN IF HasId(Id) THEN Json(400, Error(Id, "-32600")) ELSE Empty(202)
             ELSE IF IsNotification(StringInner(Method)) \/ ~HasId(Id) THEN Empty(202)
             ELSE DispatchMethod(StringInner(Method), Id, Params, sse)
<1> DEFINE M == Method
           I == Id
           P == Params
           r == [closed |-> TRUE, method |-> M, id |-> I, params |-> P]
<1>1. ParseRpc(text) = r
  BY Parsed
<1> HIDE DEF M, I, P
<1>2. r.closed = TRUE /\ r.method = M /\ r.id = I /\ r.params = P
  OBVIOUS
<1> HIDE DEF r
<1>3. Answer(r, sse)
           = IF M = None
               THEN IF HasId(I) THEN Json(400, Error(I, "-32600")) ELSE Empty(202)
             ELSE IF IsNotification(StringInner(M)) \/ ~HasId(I) THEN Empty(202)
             ELSE DispatchMethod(StringInner(M), I, P, sse)
  BY <1>2 DEF Answer
<1> QED BY <1>1, <1>3 DEF DispatchRpc, M, I, P

(* NotificationsAreSilent for every lexicon: the server answers a legal request *)
(* unless it has no id, or null, or its method starts with notifications/ and goes on. *)
THEOREM NotificationsAreSilentAlways == Spec => []NotificationsAreSilent
<1>1. Served => NotificationsAreSilent
  <2> SUFFICES ASSUME Served, Replied, Legal
               PROVE  reply.kind = "empty"
                        <=> Id \in {None, <<"null">>} \/ (Len(Method) > 3 /\ Method[2] = "notifications/")
    BY DEF NotificationsAreSilent
  <2> DEFINE sse == conf.sse
             e == Error(Id, "-32600")
             d == DispatchMethod(StringInner(Method), Id, Params, sse)
  <2>1. reply = IF Method = None
               THEN IF HasId(Id) THEN Json(400, e) ELSE Empty(202)
             ELSE IF IsNotification(StringInner(Method)) \/ ~HasId(Id) THEN Empty(202) ELSE d
    BY LegalAnswer DEF Served
  <2>2. d.kind # "empty"
    BY Kinds
  <2> HIDE DEF d, e
  <2>3. Json(400, e).kind # "empty" /\ Empty(202).kind = "empty"
    BY DEF Json, Empty
  <2>4. HasId(Id) <=> Id \notin {None, <<"null">>}
    BY DEF HasId
  <2>5. CASE Method = None
    <3>1. ~(Len(Method) > 3)
      BY <2>5 DEF None
    <3> QED BY <2>1, <2>3, <2>4, <2>5, <3>1
  <2>6. CASE Method # None
    <3>1. IsNotification(StringInner(Method)) <=> Len(Method) > 3 /\ Method[2] = "notifications/"
      BY <2>6, MethodFacts, MethodStart DEF Served
    <3> HIDE DEF sse
    <3> QED BY <2>1, <2>2, <2>3, <2>4, <2>6, <3>1
  <2> QED BY <2>5, <2>6
<1> QED BY <1>1, ServedAlways, PTL

(***************************************************************************)
(* JSON texts that an answer can be put together from: no blanks around    *)
(* them, and on one line.                                                  *)
(***************************************************************************)
Compact(v) ==
  /\ v \in Text /\ \E Q : Tight(Q, v)
  /\ \A i \in 1..Len(v) : v[i] # Newline

(* A JSON text without blanks around it ends with its last unit. *)
LEMMA TightEnds ==
  ASSUME NEW v \in Text, IsJson(v), Len(v) >= 1, v[1] \notin White, v[Len(v)] \notin White
  PROVE  \E Q : Tight(Q, v)
<1> DEFINE n == Len(v)
<1>1. PICK Q : Sound(Q, v)
  BY SoundRun
<1>2. n \in Nat /\ n >= 1
  BY DEF Text
<1> DEFINE B == {k \in 1..n : k < n /\ Q[k].mode = "end"}
<1>3. B = {}
  <2> SUFFICES ASSUME B # {} PROVE FALSE
    OBVIOUS
  <2> DEFINE k == Max(B)
             i == k + 1
  <2>1. k \in B /\ \A j \in B : j <= k
    <3>1. B \in SUBSET (1..n)
      OBVIOUS
    <3> HIDE DEF B, n
    <3> QED BY <1>2, <3>1, MaxIn
  <2>2. k \in 1..n /\ k < n /\ Q[k].mode = "end"
    BY <2>1
  <2> HIDE DEF k
  <2>3. i \in Nat /\ i >= 1 /\ i <= n /\ i - 1 = k /\ i \in 1..n
    BY <1>2, <2>2
  <2> HIDE DEF i, B
  <2>4. v[i] \in STRING /\ Q[i] = Step(Q[k], v[i]) /\ Q[k] \in State /\ Q[i].mode # "dead"
    BY <1>1, <2>3, SoundStep DEF n
  <2>5. v[i] \in White
    BY <2>2, <2>4, StepEnd
  <2>6. i # n
    BY <2>5
  <2> DEFINE q == Q[k]
             c == v[i]
             p == q.pos + 1
  <2>7. q.mode \in Plain /\ q.mode = "end" /\ q \in State /\ c \in White
    BY <2>2, <2>4, <2>5 DEF Plain
  <2>8. Q[i] = Step(q, c)
    BY <2>4
  <2> HIDE DEF q, c
  <2>9. Q[i] = BlankTo(q, c, p)
    BY <2>7, <2>8, StepBlank
  <2> HIDE DEF p
  <2>10. Q[i].mode = "end"
    BY <2>7, <2>9, MkFields DEF BlankTo
  <2>11. i \in B
    BY <1>2, <2>3, <2>6, <2>10 DEF B
  <2>12. i <= k
    BY <2>1, <2>11
  <2> QED BY <2>2, <2>3, <2>12
<1>4. ASSUME NEW k \in 0..(n - 1) PROVE Q[k].mode # "end"
  <2>1. CASE k = 0
    <3>1. Q[0] = Start /\ Start = Mk("value", <<>>, 0, <<>>, 1, <<>>)
      BY <1>1 DEF Sound, Runs, Start, Mk
    <3> QED BY <2>1, <3>1, MkFields
  <2>2. CASE k # 0
    <3>1. k \in 1..n /\ k < n
      BY <1>2, <2>2
    <3> QED BY <1>3, <3>1
  <2> QED BY <2>1, <2>2
<1>5. Tight(Q, v)
  BY <1>1, <1>2, <1>4 DEF Tight
<1> QED BY <1>5

(***************************************************************************)
(* Reading the pieces.                                                     *)
(***************************************************************************)
LEMMA Singleton ==
  ASSUME NEW S, NEW c \in S
  PROVE  <<c>> \in Seq(S)
OBVIOUS

(* A text of one unit. *)
LEMMA OneUnit ==
  ASSUME NEW c \in STRING
  PROVE  <<c>> \in Text /\ Len(<<c>>) = 1 /\ <<c>>[1] = c
<1>1. Len(<<c>>) = 1 /\ <<c>>[1] = c
  OBVIOUS
<1>2. <<c>> \in Seq(STRING)
  BY Singleton
<1> QED BY <1>1, <1>2 DEF Text

(* To read it is one step. *)
LEMMA ReadUnit ==
  ASSUME NEW s \in State, NEW c \in STRING
  PROVE  Read(s, <<c>>) = Step(s, c)
<1> DEFINE u == <<c>>
<1>1. u \in Text /\ Len(u) = 1 /\ u[1] = c
  BY OneUnit
<1> HIDE DEF u
<1>2. PICK R : Runs(R, s, u) /\ Read(s, u) = R[Len(u)]
  BY <1>1, RunExists
<1> DEFINE one == 1
<1>3. one \in 1..Len(u) /\ one - 1 = 0
  BY <1>1
<1>4. R[0] = s /\ R[one] = Step(R[one - 1], u[one])
  BY <1>2, <1>3 DEF Runs
<1> QED BY <1>1, <1>2, <1>3, <1>4 DEF u

(* The first state, told by fields. *)
LEMMA StartIs ==
  /\ Start \in State /\ Start = Mk("value", <<>>, 0, <<>>, 1, <<>>)
  /\ Start.mode = "value" /\ Start.stack = <<>> /\ Start.pos = 0
  /\ Start.key = <<>> /\ Start.from = 1 /\ Start.members = <<>>
<1>1. Start = Mk("value", <<>>, 0, <<>>, 1, <<>>)
  BY DEF Start, Mk
<1> QED BY <1>1, StartFit, MkFields

(* A scalar is such a text, *)
LEMMA ScalarCompact ==
  ASSUME NEW c \in Scalars
  PROVE  Compact(<<c>>)
<1> DEFINE u == <<c>>
           one == 1
<1>1. c \in STRING /\ c \notin White /\ c # Quote /\ c \notin Open /\ c # Newline
  BY UnitAssumption, ScalarUnits DEF White, Open
<1>2. u \in Text /\ Len(u) = one /\ u[one] = c
  BY <1>1, OneUnit
<1>3. WantsValue(Start, c) /\ Lives(Start, c)
  BY <1>1, StartIs DEF WantsValue, Lives
<1>4. Step(Start, c).mode # "dead"
  BY <1>1, <1>3, StartIs, LivesStep
<1>5. Step(Start, c) = ValueTo(Start, c, Start.pos + 1)
  BY <1>1, <1>3, <1>4, StartIs, StepValue
<1> DEFINE p == Start.pos + 1
           f == Began(Start.stack, p, Start.from)
<1>6. ValueTo(Start, c, p) = EndTo(Start, Start.stack, p, f)
  BY <1>1 DEF ValueTo
<1> HIDE DEF p, f, u
<1>7. EndTo(Start, Start.stack, p, f).mode = "end"
  BY StartIs, MkFields DEF EndTo, EndMode
<1>8. Read(Start, u) = Step(Start, c)
  BY <1>1, StartIs, ReadUnit DEF u
<1>9. IsJson(u)
  BY <1>5, <1>6, <1>7, <1>8 DEF IsJson, p
<1>a. \A i \in 1..Len(u) : u[i] = c
  BY <1>2
<1>10. \E Q : Tight(Q, u)
  <2>1. Len(u) >= 1 /\ 1 \in 1..Len(u) /\ Len(u) \in 1..Len(u)
    BY <1>2
  <2>2. u[1] \notin White /\ u[Len(u)] \notin White
    BY <1>1, <1>a, <2>1
  <2> QED BY <1>2, <1>9, <2>1, <2>2, TightEnds
<1>11. \A i \in 1..Len(u) : u[i] # Newline
  BY <1>1, <1>a
<1> QED BY <1>2, <1>10, <1>11 DEF Compact, u

(* and a string is, *)
LEMMA StringCompact ==
  ASSUME NEW Q, NEW u, Tight(Q, u), u[1] = Quote
  PROVE  Compact(u)
<1>1. Len(u) \in Nat /\ Len(u) >= 2 /\ Last(u) = Quote /\ Inner(StringInner(u))
  BY TightString
<1>2. u \in Text
  BY DEF Tight, Sound
<1> DEFINE x == StringInner(u)
           n == Len(u)
<1>3. x \in Text /\ Len(x) = n - 2 /\ \A i \in 1..(n - 2) : x[i] = u[i + 1]
  BY <1>1, <1>2, InnerIs
<1> HIDE DEF x
<1>4. PICK f \in [0..Len(x) -> BOOLEAN] : \A k \in 1..Len(x) : InnerStep(f, x, k)
  BY <1>1 DEF Inner, x
<1>5. \A k \in 1..Len(x) : x[k] # Newline
  <2> TAKE k \in 1..Len(x)
  <2>1. InnerStep(f, x, k)
    BY <1>4
  <2> QED BY <2>1, Units DEF InnerStep
<1>6. ASSUME NEW i \in 1..Len(u) PROVE u[i] # Newline
  <2>1. Quote # Newline
    BY Units
  <2>2. u[n] = Quote
    BY <1>1 DEF Last
  <2>3. CASE i = 1
    BY <2>1, <2>3
  <2>4. CASE i = n
    BY <2>1, <2>2, <2>4
  <2>5. CASE i # 1 /\ i # n
    <3> DEFINE k == i - 1
    <3>1. k \in 1..(n - 2) /\ k + 1 = i /\ k \in 1..Len(x)
      BY <1>1, <1>3, <2>5
    <3> HIDE DEF k
    <3>2. x[k] = u[k + 1] /\ x[k] # Newline
      BY <1>3, <1>5, <3>1
    <3> QED BY <3>1, <3>2
  <2> QED BY <2>3, <2>4, <2>5
<1> QED BY <1>2, <1>6 DEF Compact

(* A string with those units. *)
Quoted(x) == <<Quote>> \o x \o <<Quote>>

(* Two texts, one after the other. *)
LEMMA TextConcat ==
  ASSUME NEW a \in Text, NEW b \in Text
  PROVE  /\ a \o b \in Text /\ Len(a \o b) = Len(a) + Len(b) /\ Len(a) \in Nat /\ Len(b) \in Nat
         /\ \A i \in 1..(Len(a) + Len(b)) :
              (a \o b)[i] = IF i <= Len(a) THEN a[i] ELSE b[i - Len(a)]
<1>1. a \in Seq(STRING) /\ b \in Seq(STRING)
  BY DEF Text
<1>2. Len(a) \in Nat /\ Len(b) \in Nat
  BY <1>1
<1>3. a \o b \in Seq(STRING) /\ Len(a \o b) = Len(a) + Len(b)
  BY <1>1, ConcatProperties
<1>4. \A i \in 1..(Len(a) + Len(b)) :
              (a \o b)[i] = IF i <= Len(a) THEN a[i] ELSE b[i - Len(a)]
  BY <1>1, ConcatProperties
<1> QED BY <1>2, <1>3, <1>4 DEF Text

(* A text between two units. *)
LEMMA Around ==
  ASSUME NEW q \in Text, NEW x \in Text, NEW r \in Text, Len(q) = 1, Len(r) = 1
  PROVE  /\ (q \o x) \o r \in Text /\ Len((q \o x) \o r) = Len(x) + 2 /\ Len(x) \in Nat
         /\ ((q \o x) \o r)[1] = q[1] /\ ((q \o x) \o r)[Len(x) + 2] = r[1]
         /\ \A k \in 1..Len(x) : ((q \o x) \o r)[k + 1] = x[k] /\ x[k] \in STRING
<1> DEFINE a == q \o x
           u == a \o r
           n == Len(x)
<1>1. n \in Nat
  BY DEF Text
<1>2. a \in Text /\ Len(a) = Len(q) + Len(x)
      /\ \A i \in 1..(Len(q) + Len(x)) : a[i] = IF i <= Len(q) THEN q[i] ELSE x[i - Len(q)]
  BY TextConcat
<1>3. \A k \in 1..n : x[k] \in STRING
  BY DEF Text
<1> HIDE DEF a
<1>4. u \in Text /\ Len(u) = Len(a) + Len(r)
      /\ \A i \in 1..(Len(a) + Len(r)) : u[i] = IF i <= Len(a) THEN a[i] ELSE r[i - Len(a)]
  BY <1>2, TextConcat
<1>5. /\ Len(a) = 1 + n /\ \A i \in 1..(1 + n) : a[i] = IF i <= 1 THEN q[i] ELSE x[i - 1]
  BY <1>2
<1> HIDE DEF u, n
<1>6. /\ Len(u) = (1 + n) + 1
      /\ \A i \in 1..((1 + n) + 1) : u[i] = IF i <= 1 + n THEN a[i] ELSE r[i - (1 + n)]
  BY <1>4, <1>5
<1>7. Len(u) = n + 2 /\ u[1] = q[1] /\ u[n + 2] = r[1]
  <2> DEFINE z == n + 2
  <2>1. 1 \in 1..((1 + n) + 1) /\ 1 <= 1 + n /\ 1 \in 1..(1 + n) /\ z \in 1..((1 + n) + 1)
        /\ ~(z <= 1 + n) /\ z - (1 + n) = 1 /\ (1 + n) + 1 = z
    BY <1>1
  <2> HIDE DEF z
  <2>2. u[1] = a[1] /\ u[z] = r[z - (1 + n)] /\ a[1] = q[1]
    BY <1>5, <1>6, <2>1
  <2> QED BY <1>6, <2>1, <2>2 DEF z
<1>8. ASSUME NEW k \in 1..n PROVE u[k + 1] = x[k]
  <2> DEFINE i == k + 1
  <2>1. i \in 1..(1 + n) /\ i \in 1..((1 + n) + 1) /\ ~(i <= 1) /\ i - 1 = k /\ i <= 1 + n
    BY <1>1
  <2> HIDE DEF i
  <2>2. u[i] = a[i] /\ a[i] = x[i - 1]
    BY <1>5, <1>6, <2>1
  <2> QED BY <2>1, <2>2 DEF i
<1>9. /\ u \in Text /\ Len(u) = n + 2 /\ n \in Nat /\ u[1] = q[1] /\ u[n + 2] = r[1]
      /\ \A k \in 1..n : u[k + 1] = x[k] /\ x[k] \in STRING
  BY <1>1, <1>3, <1>4, <1>7, <1>8
<1> QED BY <1>9 DEF u, a, n

(* A string in quotes. *)
LEMMA QuotedIs ==
  ASSUME NEW x \in Text
  PROVE  /\ Quoted(x) \in Text /\ Len(Quoted(x)) = Len(x) + 2 /\ Len(x) \in Nat
         /\ Quoted(x)[1] = Quote /\ Quoted(x)[Len(x) + 2] = Quote /\ Last(Quoted(x)) = Quote
         /\ \A k \in 1..Len(x) : Quoted(x)[k + 1] = x[k] /\ x[k] \in STRING
<1> DEFINE q == <<Quote>>
<1>1. q \in Text /\ Len(q) = 1 /\ q[1] = Quote
  BY UnitAssumption, OneUnit
<1> HIDE DEF q
<1>2. /\ (q \o x) \o q \in Text /\ Len((q \o x) \o q) = Len(x) + 2 /\ Len(x) \in Nat
      /\ ((q \o x) \o q)[1] = q[1] /\ ((q \o x) \o q)[Len(x) + 2] = q[1]
      /\ \A k \in 1..Len(x) : ((q \o x) \o q)[k + 1] = x[k] /\ x[k] \in STRING
  BY <1>1, Around
<1> DEFINE u == (q \o x) \o q
<1>3. Quoted(x) = u
  BY DEF Quoted, q
<1>4. /\ u \in Text /\ Len(u) = Len(x) + 2 /\ Len(x) \in Nat
      /\ u[1] = Quote /\ u[Len(x) + 2] = Quote
      /\ \A k \in 1..Len(x) : u[k + 1] = x[k] /\ x[k] \in STRING
  BY <1>1, <1>2
<1> HIDE DEF u
<1>5. Last(u) = Quote
  BY <1>4 DEF Last
<1> QED BY <1>3, <1>4, <1>5

(* A string's first quote, read by itself. *)
LEMMA QuoteOpens ==
  /\ Step(Start, Quote).mode = "string" /\ Step(Start, Quote).stack = <<>>
  /\ Step(Start, Quote) \in State
<1> DEFINE p == Start.pos + 1
           f == Began(Start.stack, p, Start.from)
<1>1. Quote \in STRING /\ Quote \notin White
  BY UnitAssumption, Units DEF White
<1>2. WantsValue(Start, Quote) /\ Lives(Start, Quote)
  BY <1>1, StartIs DEF WantsValue, Lives
<1>3. Step(Start, Quote).mode # "dead"
  BY <1>1, <1>2, StartIs, LivesStep
<1>4. Step(Start, Quote) = ValueTo(Start, Quote, p)
  BY <1>1, <1>2, <1>3, StartIs, StepValue
<1>5. ValueTo(Start, Quote, p) = Mk("string", Start.stack, p, Start.key, f, Start.members)
  <2>1. Quote \notin Open
    BY Brackets
  <2> HIDE DEF p
  <2> QED BY <2>1 DEF ValueTo
<1> HIDE DEF p, f
<1> QED BY <1>1, <1>4, <1>5, StartIs, MkFields, StepType

(* The automaton in a string by itself, after a backslash or not. *)
Within(s, escaped) ==
  s \in State /\ s.stack = <<>> /\ s.mode = IF escaped THEN "stringEscape" ELSE "string"

(* A unit that may be written between the quotes. *)
LEMMA WithinStep ==
  ASSUME NEW s, NEW x, NEW f, NEW k, Within(s, f[k - 1]), InnerStep(f, x, k), x[k] \in STRING,
         f[k] \in BOOLEAN, f[k - 1] \in BOOLEAN
  PROVE  Within(Step(s, x[k]), f[k])
<1> DEFINE c == x[k]
           p == s.pos + 1
<1>1. s \in State /\ s.stack = <<>> /\ c \in STRING
  BY DEF Within
<1> HIDE DEF c
<1>2. CASE f[k - 1]
  <2>1. s.mode = "stringEscape" /\ c \in {Quote, Backslash} /\ ~f[k]
    BY <1>2 DEF Within, InnerStep, c
  <2>2. Step(s, c).mode # "dead"
    BY <1>1, <2>1, LivesStep DEF Lives
  <2>3. Step(s, c) = EscapeTo(s, c, p)
    BY <1>1, <2>1, <2>2, StepEscape
  <2> HIDE DEF p
  <2>4. EscapeTo(s, c, p).mode = "string" /\ EscapeTo(s, c, p).stack = <<>>
    BY <1>1, <2>1, MkFields DEF EscapeTo
  <2>5. Step(s, c) \in State
    BY <1>1, StepType
  <2> QED BY <2>1, <2>3, <2>4, <2>5 DEF Within, c
<1>3. CASE ~f[k - 1]
  <2>1. s.mode = "string" /\ c # Quote /\ c # Newline /\ (f[k] <=> c = Backslash)
    BY <1>3 DEF Within, InnerStep, c
  <2>2. Step(s, c).mode # "dead"
    BY <1>1, <2>1, LivesStep DEF Lives
  <2>3. Step(s, c) = TextTo(s, c, p)
    BY <1>1, <2>1, <2>2, StepText
  <2>4. Step(s, c) \in State
    BY <1>1, StepType
  <2> DEFINE k1 == Grown(s.mode, s.stack, s.key, c)
  <2>5. TextTo(s, c, p) = IF c = Backslash THEN Mk("stringEscape", s.stack, p, k1, s.from, s.members)
                          ELSE Mk("string", s.stack, p, k1, s.from, s.members)
    BY <2>1 DEF TextTo, EscapeMode
  <2> HIDE DEF p, k1
  <2>6. CASE c = Backslash
    <3>1. Step(s, c) = Mk("stringEscape", s.stack, p, k1, s.from, s.members)
      BY <2>3, <2>5, <2>6
    <3>2. Step(s, c).mode = "stringEscape" /\ Step(s, c).stack = s.stack
      BY <3>1, MkFields
    <3> QED BY <1>1, <2>1, <2>4, <2>6, <3>2 DEF Within, c
  <2>7. CASE c # Backslash
    <3>1. Step(s, c) = Mk("string", s.stack, p, k1, s.from, s.members)
      BY <2>3, <2>5, <2>7
    <3>2. Step(s, c).mode = "string" /\ Step(s, c).stack = s.stack
      BY <3>1, MkFields
    <3> QED BY <1>1, <2>1, <2>4, <2>7, <3>2 DEF Within, c
  <2> QED BY <2>6, <2>7
<1> QED BY <1>2, <1>3

(* The last quote. *)
LEMMA QuoteCloses ==
  ASSUME NEW s, Within(s, FALSE)
  PROVE  Step(s, Quote).mode = "end"
<1> DEFINE p == s.pos + 1
<1>1. s \in State /\ s.stack = <<>> /\ s.mode = "string" /\ Quote \in STRING
      /\ Quote # Newline /\ Quote # Backslash
  BY UnitAssumption, Units DEF Within
<1>2. Step(s, Quote).mode # "dead"
  BY <1>1, LivesStep DEF Lives
<1>3. Step(s, Quote) = TextTo(s, Quote, p)
  BY <1>1, <1>2, StepText
<1>4. TextTo(s, Quote, p) = EndTo(s, s.stack, p, s.from)
  BY <1>1 DEF TextTo
<1> HIDE DEF p
<1> QED BY <1>1, <1>3, <1>4, MkFields DEF EndTo, EndMode

(* What may be written between quotes makes a string between quotes. *)
LEMMA QuotedCompact ==
  ASSUME NEW x, Inner(x)
  PROVE  Compact(Quoted(x)) /\ Quoted(x)[1] = Quote
<1> DEFINE u == Quoted(x)
           n == Len(x)
<1>1. x \in Text
  BY DEF Inner
<1>2. /\ u \in Text /\ Len(u) = n + 2 /\ n \in Nat /\ u[1] = Quote /\ u[n + 2] = Quote
      /\ \A k \in 1..n : u[k + 1] = x[k] /\ x[k] \in STRING
  BY <1>1, QuotedIs
<1>3. PICK f \in [0..n -> BOOLEAN] : ~f[0] /\ ~f[n] /\ \A k \in 1..n : InnerStep(f, x, k)
  BY DEF Inner
<1>4. PICK R : Runs(R, Start, u) /\ Read(Start, u) = R[Len(u)]
  BY <1>2, StartIs, RunExists
<1> HIDE DEF u, n
<1>5. R[0] = Start /\ \A i \in 1..(n + 2) : R[i] = Step(R[i - 1], u[i])
  BY <1>2, <1>4 DEF Runs
<1> DEFINE P == {k \in Nat : k <= n => Within(R[k + 1], f[k])}
<1>6. 0 \in P
  <2> DEFINE one == 1
  <2>1. one \in 1..(n + 2) /\ one - 1 = 0 /\ 0 + 1 = one
    BY <1>2
  <2>2. R[one] = Step(R[one - 1], u[one])
    BY <1>5, <2>1
  <2>3. R[one] = Step(Start, Quote)
    BY <1>2, <1>5, <2>1, <2>2
  <2>4. Within(R[one], FALSE)
    BY <2>3, QuoteOpens DEF Within
  <2>5. f[0] = FALSE
    BY <1>2, <1>3
  <2> DEFINE e == f[0]
  <2>6. e = FALSE
    BY <2>5
  <2> HIDE DEF e
  <2>7. Within(R[one], e)
    BY <2>4, <2>6
  <2> QED BY <2>1, <2>7 DEF e
<1>7. ASSUME NEW k \in Nat, k \in P PROVE k + 1 \in P
  <2> DEFINE j == k + 1
  <2> SUFFICES ASSUME j <= n PROVE Within(R[j + 1], f[j])
    OBVIOUS
  <2>1. /\ k <= n /\ j \in 1..n /\ j - 1 = k /\ j + 1 \in 1..(n + 2) /\ (j + 1) - 1 = j
        /\ k \in 0..n /\ j \in 0..n
    BY <1>2
  <2>2. Within(R[j], f[j - 1])
    BY <1>7, <2>1
  <2>3. f[j] \in BOOLEAN /\ f[j - 1] \in BOOLEAN /\ InnerStep(f, x, j) /\ x[j] \in STRING /\ u[j + 1] = x[j]
    BY <1>2, <1>3, <2>1
  <2> DEFINE i == j + 1
  <2>a. i \in 1..(n + 2) /\ i - 1 = j /\ u[i] = x[j]
    BY <2>1, <2>3
  <2>4. R[i] = Step(R[j], x[j])
    <3>1. R[i] = Step(R[i - 1], u[i])
      BY <1>5, <2>a
    <3> QED BY <2>a, <3>1
  <2> HIDE DEF j, P
  <2>5. Within(Step(R[j], x[j]), f[j])
    BY <2>2, <2>3, WithinStep
  <2> QED BY <2>4, <2>5 DEF j
<1>8. \A k \in Nat : k \in P
  <2> HIDE DEF P
  <2> QED BY <1>6, <1>7, Forwards
<1>9. R[n + 2].mode = "end"
  <2> DEFINE i == n + 2
  <2>1. i \in 1..(n + 2) /\ i - 1 = n + 1
    BY <1>2
  <2>2. R[i] = Step(R[n + 1], Quote)
    <3>1. R[i] = Step(R[i - 1], u[i])
      BY <1>5, <2>1
    <3> QED BY <1>2, <2>1, <3>1
  <2>3. Within(R[n + 1], FALSE)
    <3>1. n \in P
      BY <1>2, <1>8
    <3> DEFINE e == f[n]
    <3>2. e = FALSE
      BY <1>2, <1>3
    <3>3. Within(R[n + 1], e)
      BY <1>2, <3>1
    <3> HIDE DEF e
    <3> QED BY <3>2, <3>3
  <2> QED BY <2>2, <2>3, QuoteCloses
<1>10. IsJson(u)
  BY <1>2, <1>4, <1>9 DEF IsJson
<1>11. PICK Q : Tight(Q, u)
  <2>1. Quote \notin White
    BY Units DEF White
  <2>2. Len(u) >= 1 /\ u[Len(u)] = Quote
    BY <1>2
  <2> QED BY <1>2, <1>10, <2>1, <2>2, TightEnds
<1>12. Compact(u)
  BY <1>2, <1>11, StringCompact
<1> QED BY <1>2, <1>12 DEF u

(* Without the quotes of a string of a text, and between new ones, it is the same string. *)
LEMMA QuotedInner ==
  ASSUME NEW u \in Text, Len(u) >= 2, u[1] = Quote, Last(u) = Quote
  PROVE  Quoted(StringInner(u)) = u
<1> DEFINE x == StringInner(u)
           w == Quoted(x)
           n == Len(u)
<1>1. n \in Nat /\ n >= 2 /\ u[n] = Quote /\ u \in Seq(STRING)
  BY DEF Last, Text
<1>2. x \in Text /\ Len(x) = n - 2 /\ \A i \in 1..(n - 2) : x[i] = u[i + 1]
  BY InnerIs
<1> HIDE DEF x
<1>3. /\ w \in Text /\ Len(w) = Len(x) + 2 /\ w[1] = Quote /\ w[Len(x) + 2] = Quote
      /\ \A k \in 1..Len(x) : w[k + 1] = x[k]
  BY <1>2, QuotedIs
<1> HIDE DEF w, n
<1>4. Len(w) = n /\ w[n] = Quote
  BY <1>1, <1>2, <1>3
<1>5. ASSUME NEW i \in 1..n PROVE w[i] = u[i]
  <2>1. CASE i = 1
    BY <1>3, <2>1
  <2>2. CASE i = n
    BY <1>1, <1>4, <2>2
  <2>3. CASE i # 1 /\ i # n
    <3> DEFINE k == i - 1
    <3>1. k \in 1..(n - 2) /\ k + 1 = i /\ k \in 1..Len(x)
      BY <1>1, <1>2, <2>3
    <3> HIDE DEF k
    <3> QED BY <1>2, <1>3, <3>1
  <2> QED BY <2>1, <2>2, <2>3
<1>6. w = u
  BY <1>1, <1>3, <1>4, <1>5 DEF Text, n
<1> QED BY <1>6 DEF w, x

(***************************************************************************)
(* An object put together from keys and values is read as such.            *)
(***************************************************************************)
(* A key of one unit. *)
Word(k) == k \in STRING /\ k \notin {Quote, Backslash, Newline}

(* Where a key of the outermost object may begin, *)
InObject(s) == s \in State /\ s.stack = <<LBrace>> /\ s.mode \in {"firstKey", "nextKey"}

(* Two units. *)
LEMMA Pair2 ==
  ASSUME NEW S, NEW a \in S, NEW b \in S
  PROVE  <<a, b>> \in Seq(S) /\ <<a, b>> = <<a>> \o <<b>>
<1>1. <<a, b>> \in Seq(S) /\ Len(<<a, b>>) = 2 /\ <<a, b>>[1] = a /\ <<a, b>>[2] = b
  OBVIOUS
<1> DEFINE x == <<a>>
           y == <<b>>
           u == <<a, b>>
<1>2. x \in Seq(S) /\ Len(x) = 1 /\ x[1] = a /\ y \in Seq(S) /\ Len(y) = 1 /\ y[1] = b
  BY Singleton
<1> HIDE DEF x, y, u
<1>3. x \o y \in Seq(S) /\ Len(x \o y) = 2 /\ (x \o y)[1] = a /\ (x \o y)[2] = b
  <2>1. /\ x \o y \in Seq(S) /\ Len(x \o y) = Len(x) + Len(y)
        /\ \A i \in 1..(Len(x) + Len(y)) : (x \o y)[i] = IF i <= Len(x) THEN x[i] ELSE y[i - Len(x)]
    BY <1>2, ConcatProperties
  <2> DEFINE w == x \o y
  <2> HIDE DEF w
  <2>2. \A i \in 1..2 : w[i] = IF i <= 1 THEN x[i] ELSE y[i - 1]
    BY <1>2, <2>1 DEF w
  <2>3. w[1] = a /\ w[2] = b
    BY <1>2, <2>2
  <2> QED BY <1>2, <2>1, <2>3 DEF w
<1>4. u \in Seq(S) /\ Len(u) = 2 /\ u[1] = a /\ u[2] = b
  BY <1>1 DEF u
<1>5. u = x \o y
  BY <1>3, <1>4
<1> QED BY <1>1, <1>5 DEF u, x, y

(* Three units. *)
LEMMA Triple ==
  ASSUME NEW S, NEW a \in S, NEW b \in S, NEW c \in S
  PROVE  /\ <<a, b, c>> \in Seq(S) /\ Len(<<a, b, c>>) = 3
         /\ <<a, b, c>>[1] = a /\ <<a, b, c>>[2] = b /\ <<a, b, c>>[3] = c
OBVIOUS

(* A key in quotes. *)
LEMMA KeyUnits ==
  ASSUME NEW k, Word(k)
  PROVE  Str(k) \in Text /\ Len(Str(k)) = 3 /\ Str(k)[1] = Quote /\ Str(k)[2] = k /\ Str(k)[3] = Quote
<1>1. Quote \in STRING /\ k \in STRING
  BY UnitAssumption DEF Word
<1>2. Str(k) = <<Quote, k, Quote>>
  BY DEF Str
<1> DEFINE q == Quote
<1>3. q \in STRING /\ Str(k) = <<q, k, q>>
  BY <1>1, <1>2
<1> HIDE DEF q
<1>4. /\ <<q, k, q>> \in Seq(STRING) /\ Len(<<q, k, q>>) = 3
      /\ <<q, k, q>>[1] = q /\ <<q, k, q>>[2] = k /\ <<q, k, q>>[3] = q
  BY <1>1, <1>3, Triple
<1> QED BY <1>3, <1>4 DEF Text, q

(* A key and a colon are read, where a key may begin. *)
LEMMA KeyRead ==
  ASSUME NEW s, InObject(s), NEW k, Word(k)
  PROVE  Read(Read(s, Str(k)), <<Colon>>)
           = Mk("value", <<LBrace>>, s.pos + 4, <<k>>, s.from, s.members)
<1> DEFINE u == Str(k)
           base == <<LBrace>>
           p == s.pos
           p1 == p + 1
           p2 == p1 + 1
           p3 == p2 + 1
           p4 == p3 + 1
           ms == s.members
           f == s.from
           none == <<>>
           key == <<k>>
           m1 == Mk("key", base, p1, none, f, ms)
           m2 == Mk("key", base, p2, key, f, ms)
           m3 == Mk("colon", base, p3, key, f, ms)
           m4 == Mk("value", base, p4, key, f, ms)
<1>1. /\ u \in Text /\ Len(u) = 3 /\ u[1] = Quote /\ u[2] = k /\ u[3] = Quote
  BY KeyUnits
<1>2. /\ s \in State /\ s.stack = base /\ s.mode \in {"firstKey", "nextKey"}
      /\ p \in Int /\ f \in Int /\ ms \in Seq(Entries) /\ s.key \in Seq(STRING)
  BY StateFields DEF InObject
<1>3. p1 \in Int /\ p2 \in Int /\ p3 \in Int /\ p4 \in Int /\ p4 = p + 4
  BY <1>2
<1>4. /\ Quote \in STRING /\ Colon \in STRING /\ k \in STRING
      /\ k # Quote /\ k # Backslash /\ k # Newline
  BY UnitAssumption DEF Word
<1>q. Quote \notin White /\ Colon \notin White /\ Quote # Newline /\ Quote # Backslash /\ Quote # RBrace
  BY Units DEF White
<1>5. base \in Seq(Open) /\ none \in Seq(STRING) /\ key \in Seq(STRING)
  <2>1. LBrace \in Open
    BY DEF Open
  <2> DEFINE lb == LBrace
  <2>2. lb \in Open
    BY <2>1
  <2> HIDE DEF lb
  <2>3. <<lb>> \in Seq(Open) /\ <<k>> \in Seq(STRING)
    BY <1>4, <2>2, Singleton
  <2>4. none \in Seq(STRING)
    OBVIOUS
  <2> QED BY <2>3, <2>4 DEF lb
<1>6. Append(none, k) = key
  OBVIOUS
<1> HIDE DEF u, base, p, p1, p2, p3, p4, ms, f, none, key, m1, m2, m3, m4
<1>m. {"key", "colon", "value"} \subseteq Modes
  BY DEF Modes
<1>7. Step(s, Quote) = m1
  <2>1. WantsKey(s, Quote)
    BY <1>2, <1>q DEF WantsKey
  <2>2. Step(s, Quote).mode # "dead"
    BY <1>2, <1>4, <1>q, <2>1, LivesStep DEF Lives
  <2>3. Step(s, Quote) = KeyTo(s, Quote, p1)
    BY <1>2, <1>q, <2>1, <2>2, StepKey DEF p1, p
  <2> QED BY <1>2, <2>3 DEF KeyTo, Cleared, m1, base, none, f, ms
<1>8. m1 \in State /\ m1.mode = "key" /\ m1.stack = base /\ m1.pos = p1 /\ m1.key = none
      /\ m1.from = f /\ m1.members = ms
  BY <1>2, <1>3, <1>5, <1>m, MkIn, MkFields DEF m1
<1>9. Step(m1, k) = m2
  <2>1. Step(m1, k).mode # "dead"
    BY <1>4, <1>8, LivesStep DEF Lives
  <2>2. Step(m1, k) = TextTo(m1, k, m1.pos + 1)
    BY <1>8, <2>1, StepText
  <2>3. TextTo(m1, k, p2) = Mk(m1.mode, m1.stack, p2, Grown(m1.mode, m1.stack, m1.key, k), m1.from, m1.members)
    BY <1>4 DEF TextTo
  <2>4. Grown("key", base, none, k) = key
    BY <1>6 DEF Grown, base
  <2> QED BY <1>8, <2>2, <2>3, <2>4 DEF m2, p2
<1>10. m2 \in State /\ m2.mode = "key" /\ m2.stack = base /\ m2.pos = p2 /\ m2.key = key
      /\ m2.from = f /\ m2.members = ms
  BY <1>2, <1>3, <1>5, <1>m, MkIn, MkFields DEF m2
<1>11. Step(m2, Quote) = m3
  <2>1. Step(m2, Quote).mode # "dead"
    BY <1>4, <1>q, <1>10, LivesStep DEF Lives
  <2>2. Step(m2, Quote) = TextTo(m2, Quote, m2.pos + 1)
    BY <1>10, <2>1, StepText
  <2>3. TextTo(m2, Quote, p3) = Mk("colon", m2.stack, p3, m2.key, m2.from, m2.members)
    BY <1>q, <1>10 DEF TextTo
  <2> QED BY <1>10, <2>2, <2>3 DEF m3, p3
<1>12. m3 \in State /\ m3.mode = "colon" /\ m3.stack = base /\ m3.pos = p3 /\ m3.key = key
      /\ m3.from = f /\ m3.members = ms
  BY <1>2, <1>3, <1>5, <1>m, MkIn, MkFields DEF m3
<1>13. Step(m3, Colon) = m4
  <2>1. Step(m3, Colon).mode # "dead"
    BY <1>4, <1>q, <1>12, LivesStep DEF Lives
  <2>2. Step(m3, Colon) = Mk("value", m3.stack, m3.pos + 1, m3.key, m3.from, m3.members)
    BY <1>q, <1>12, <2>1, StepColon
  <2> QED BY <1>12, <2>2 DEF m4, p4
<1>14. PICK R : Runs(R, s, u) /\ Read(s, u) = R[Len(u)]
  BY <1>1, <1>2, RunExists
<1>15. R[0] = s /\ R[1] = Step(R[0], u[1]) /\ R[2] = Step(R[1], u[2]) /\ R[3] = Step(R[2], u[3])
  <2>1. R[0] = s /\ \A i \in 1..3 : R[i] = Step(R[i - 1], u[i])
    BY <1>1, <1>14 DEF Runs
  <2>2. \A i \in 1..3 : \A j \in 0..3 : i - 1 = j => R[i] = Step(R[j], u[i])
    BY <2>1
  <2> QED BY <2>1, <2>2
<1>16. Read(s, u) = m3
  BY <1>1, <1>7, <1>9, <1>11, <1>14, <1>15
<1>17. Read(m3, <<Colon>>) = m4
  BY <1>4, <1>12, <1>13, ReadUnit
<1>18. Read(Read(s, u), <<Colon>>) = Mk("value", base, p4, key, f, ms)
  BY <1>16, <1>17 DEF m4
<1> QED BY <1>3, <1>18 DEF u, base, f, ms, p, key

(* The first brace is read. *)
LEMMA Opening ==
  /\ Read(Start, <<LBrace>>) = Mk("firstKey", <<LBrace>>, 1, <<>>, 1, <<>>)
  /\ Mk("firstKey", <<LBrace>>, 1, <<>>, 1, <<>>) \in State
<1> DEFINE p == Start.pos + 1
           f == Began(Start.stack, p, Start.from)
           none == <<>>
           base == <<LBrace>>
<1>1. LBrace \in STRING /\ LBrace \in Open /\ LBrace \notin White /\ LBrace # Quote
  BY UnitAssumption, Units DEF Open, White
<1>2. WantsValue(Start, LBrace) /\ Lives(Start, LBrace)
  BY <1>1, StartIs DEF WantsValue, Lives
<1>3. Step(Start, LBrace).mode # "dead"
  BY <1>1, <1>2, StartIs, LivesStep
<1>4. Step(Start, LBrace) = ValueTo(Start, LBrace, p)
  BY <1>1, <1>2, <1>3, StartIs, StepValue
<1>5. ValueTo(Start, LBrace, p)
        = Mk(OpenMode(LBrace), Append(Start.stack, LBrace), p, Start.key, f, Start.members)
  BY <1>1 DEF ValueTo
<1>6. p = 1 /\ f = 1
  BY StartIs DEF Began
<1>7. Append(none, LBrace) = base /\ OpenMode(LBrace) = "firstKey"
  BY DEF OpenMode
<1>8. Read(Start, <<LBrace>>) = Step(Start, LBrace)
  BY <1>1, StartIs, ReadUnit
<1>9. Start.stack = none /\ Start.key = none /\ Start.members = none
  BY StartIs
<1> HIDE DEF p, f, base, none
<1>10. Step(Start, LBrace) = Mk("firstKey", base, 1, none, 1, none)
  BY <1>4, <1>5, <1>6, <1>7, <1>9
<1>11. Step(Start, LBrace) \in State
  BY <1>1, StartIs, StepType
<1> QED BY <1>8, <1>10, <1>11 DEF base, none

(* A comma after a member. *)
LEMMA CommaRead ==
  ASSUME NEW s \in State, s.mode = "after", s.stack = <<LBrace>>
  PROVE  Read(s, <<Comma>>) = Mk("nextKey", <<LBrace>>, s.pos + 1, s.key, s.from, s.members)
<1>1. Comma \in STRING
  BY UnitAssumption
<1>2. Step(s, Comma) = Mk(NextMode(s.stack), s.stack, s.pos + 1, s.key, s.from, s.members)
  BY StepComma
<1>3. NextMode(<<LBrace>>) = "nextKey"
  BY DEF NextMode, Last
<1> QED BY <1>1, <1>2, <1>3, ReadUnit

(* The brace after the last one. *)
LEMMA ClosingRead ==
  ASSUME NEW s \in State, s.mode = "after", s.stack = <<LBrace>>
  PROVE  Read(s, <<RBrace>>) = Mk("end", <<>>, s.pos + 1, s.key, s.from, s.members)
<1> DEFINE p == s.pos + 1
           none == <<>>
<1>1. RBrace \in STRING /\ RBrace \notin White /\ RBrace # Comma
  BY UnitAssumption, Units DEF Close, White
<1>2. Closing(s, RBrace) /\ Matches(s.stack, RBrace)
  BY <1>1 DEF Closing, Matches, Last
<1>3. Step(s, RBrace).mode # "dead"
  BY <1>1, <1>2, LivesStep DEF Lives
<1>4. Step(s, RBrace) = CloseTo(s, RBrace, p)
  BY <1>1, <1>2, <1>3, StepClose
<1>5. Front(<<LBrace>>) = none /\ none # <<LBrace>>
  BY DEF Front
<1> HIDE DEF p, none
<1>6. CloseTo(s, RBrace, p) = Mk("end", none, p, s.key, s.from, s.members)
  <2>1. CloseTo(s, RBrace, p) = EndTo(s, none, p, s.from)
    BY <1>5 DEF CloseTo
  <2>2. EndMode(none) = "end" /\ EndMembers(none, p, s.key, s.from, s.members) = s.members
    BY <1>5 DEF EndMode, EndMembers, none
  <2> QED BY <2>1, <2>2 DEF EndTo
<1> QED BY <1>1, <1>4, <1>6, ReadUnit DEF p, none

(* and its value, *)
AtValue(s) == s \in State /\ s.mode = "value" /\ s.stack = <<LBrace>> /\ Fit(s)

(* and what a value of n units leads to. *)
Valued(s, n) ==
  Mk("after", <<LBrace>>, s.pos + n, s.key, s.pos + 1,
     Append(s.members, [key |-> s.key, from |-> s.pos + 1, to |-> s.pos + n]))

(* The k-th unit of the value is read here, in state r, as by itself, in q. *)
Alike(s, f, r, q, k) ==
  /\ r \in State /\ r.mode # "dead" /\ Fit(r) /\ r.pos = s.pos + k
  /\ Embeds(s, f, r, q) /\ Begun(q)

(* The first unit of the value. *)
LEMMA AlikeFirst ==
  ASSUME NEW s, AtValue(s), NEW c \in STRING, c \notin White, Lives(Start, c)
  PROVE  Alike(s, s.pos + 1, Step(s, c), Step(Start, c), 1)
<1>1. s \in State /\ s.mode = "value" /\ s.stack # <<>> /\ Fit(s)
  BY DEF AtValue
<1>2. Began(s.stack, s.pos + 1, s.from) = s.pos + 1
  BY DEF AtValue, Began
<1>3. Lives(s, c) /\ Embeds(s, s.pos + 1, Step(s, c), Step(Start, c)) /\ Begun(Step(Start, c))
  BY <1>1, <1>2, EmbedFirst
<1>4. Step(s, c).mode # "dead" /\ Step(s, c) \in State
  BY <1>1, <1>3, LivesStep, StepType
<1>5. Fit(Step(s, c)) /\ Step(s, c).pos = s.pos + 1
  BY <1>1, <1>4, StepFit
<1> QED BY <1>3, <1>4, <1>5 DEF Alike

(* Any other one. *)
LEMMA AlikeStep ==
  ASSUME NEW s, AtValue(s), NEW f, NEW r, NEW q, NEW k \in Nat, Alike(s, f, r, q, k),
         q \in State, Fit(q), q.mode \notin {"end", "dead"}, NEW c \in STRING, Step(q, c).mode # "dead"
  PROVE  Alike(s, f, Step(r, c), Step(q, c), k + 1)
<1>1. s \in State /\ s.stack # <<>> /\ s.pos \in Int
  BY StateFields DEF AtValue
<1>2. r \in State /\ Fit(r) /\ r.pos = s.pos + k /\ Embeds(s, f, r, q) /\ Begun(q)
  BY DEF Alike
<1>3. Mates(s, f, r, q)
  BY <1>1, <1>2 DEF Mates
<1>4. Lives(q, c)
  BY LivesOnly
<1>5. Lives(r, c)
  BY <1>3, <1>4, LivesMates
<1>6. Embeds(s, f, Step(r, c), Step(q, c)) /\ Begun(Step(q, c))
  BY <1>3, <1>4, EmbedStep
<1>7. Step(r, c).mode # "dead" /\ Step(r, c) \in State
  BY <1>2, <1>5, LivesStep, StepType
<1>8. Fit(Step(r, c)) /\ Step(r, c).pos = (s.pos + k) + 1
  BY <1>2, <1>7, StepFit
<1>9. (s.pos + k) + 1 = s.pos + (k + 1)
  BY <1>1
<1> QED BY <1>6, <1>7, <1>8, <1>9 DEF Alike

(* A value is read where one may begin. *)
LEMMA ValueRead ==
  ASSUME NEW s, AtValue(s), NEW Q, NEW v, Tight(Q, v)
  PROVE  Read(s, v) = Valued(s, Len(v)) /\ Read(s, v) \in State /\ Fit(Read(s, v))
<1> DEFINE n == Len(v)
           f == s.pos + 1
<1>1. v \in Text /\ n \in Nat /\ n >= 1 /\ Sound(Q, v) /\ v[1] \notin White
  BY DEF Tight, Sound, Text
<1>2. s \in State /\ s.pos \in Int
  BY StateFields DEF AtValue
<1>3. PICK R : Runs(R, s, v) /\ Read(s, v) = R[Len(v)]
  BY <1>1, <1>2, RunExists
<1>4. R[0] = s /\ \A i \in 1..n : R[i] = Step(R[i - 1], v[i])
  BY <1>3 DEF Runs
<1>5. \A k \in 0..(n - 1) : Q[k].mode # "end"
  BY DEF Tight
<1> HIDE DEF n
<1> DEFINE P == {k \in Nat : k + 1 <= n => Alike(s, f, R[k + 1], Q[k + 1], k + 1)}
<1>6. 0 \in P
  <2> DEFINE one == 1
  <2>1. one \in Nat /\ one >= 1 /\ one <= n /\ one - 1 = 0 /\ 0 + 1 = one /\ one \in 1..n
    BY <1>1
  <2> HIDE DEF one
  <2>2. v[one] \in STRING /\ Q[one] = Step(Q[0], v[one]) /\ Q[one].mode # "dead" /\ R[one] = Step(s, v[one])
    BY <1>1, <1>4, <2>1, SoundStep DEF n
  <2>3. Q[0] = Start
    BY <1>1 DEF Sound, Runs
  <2> DEFINE c == v[one]
  <2>4. c \in STRING /\ c \notin White /\ Step(Start, c).mode # "dead"
    BY <1>1, <2>2, <2>3 DEF one
  <2>5. Q[one] = Step(Start, c) /\ R[one] = Step(s, c)
    BY <2>2, <2>3
  <2> HIDE DEF c
  <2>6. Lives(Start, c)
    BY <2>4, StartFit, LivesOnly
  <2>7. Alike(s, f, Step(s, c), Step(Start, c), 1)
    BY <2>4, <2>6, AlikeFirst
  <2> QED BY <2>1, <2>5, <2>7 DEF one
<1>7. ASSUME NEW k \in Nat, k \in P PROVE k + 1 \in P
  <2> DEFINE j == k + 1
             i == j + 1
  <2> SUFFICES ASSUME i <= n PROVE Alike(s, f, R[i], Q[i], i)
    OBVIOUS
  <2>1. i \in Nat /\ i >= 1 /\ i - 1 = j /\ i \in 1..n /\ j <= n /\ j \in Nat /\ j \in 0..(n - 1)
    BY <1>1
  <2>2. Alike(s, f, R[j], Q[j], j)
    BY <1>7, <2>1
  <2> HIDE DEF P
  <2>3. v[i] \in STRING /\ Q[i] = Step(Q[j], v[i]) /\ Q[i].mode # "dead"
        /\ Q[j] \in State /\ Q[j].mode # "dead" /\ Fit(Q[j])
    <3> HIDE DEF j, i
    <3>1. /\ v[i] \in STRING /\ Q[i] = Step(Q[i - 1], v[i]) /\ Q[i].mode # "dead"
          /\ Q[i - 1] \in State /\ Q[i - 1].mode # "dead" /\ Fit(Q[i - 1])
      BY <1>1, <2>1, SoundStep DEF n
    <3> QED BY <2>1, <3>1
  <2>4. R[i] = Step(R[j], v[i])
    <3> HIDE DEF j, i
    <3> QED BY <1>4, <2>1
  <2>5. Q[j].mode # "end"
    BY <1>5, <2>1
  <2> DEFINE r == R[j]
             q == Q[j]
             c == v[i]
  <2>6. /\ Alike(s, f, r, q, j) /\ q \in State /\ Fit(q) /\ q.mode \notin {"end", "dead"}
        /\ c \in STRING /\ Step(q, c).mode # "dead" /\ R[i] = Step(r, c) /\ Q[i] = Step(q, c)
    BY <2>2, <2>3, <2>4, <2>5
  <2> HIDE DEF r, q, c, j, f
  <2>7. Alike(s, f, Step(r, c), Step(q, c), j + 1)
    BY <2>1, <2>6, AlikeStep
  <2> QED BY <2>6, <2>7
<1>8. \A k \in Nat : k \in P
  <2> HIDE DEF P
  <2> QED BY <1>6, <1>7, Forwards
<1>9. Alike(s, f, R[n], Q[n], n)
  <2> DEFINE k == n - 1
  <2>1. k \in Nat /\ k + 1 <= n /\ k + 1 = n
    BY <1>1
  <2> HIDE DEF k
  <2> QED BY <1>8, <2>1
<1> DEFINE r == R[n]
           q == Q[n]
<1>10. q.mode = "end"
  BY <1>1 DEF Sound, n
<1>11. r = EndTo(SetFrom(s, f), s.stack, r.pos, f) /\ r.pos = s.pos + n /\ r \in State /\ Fit(r)
  BY <1>9, <1>10 DEF Alike, Embeds
<1> HIDE DEF r, q
<1> DEFINE base == <<LBrace>>
<1>12. s.stack = base /\ base # <<>>
  BY DEF AtValue
<1> DEFINE t == SetFrom(s, f)
           x == s.pos + n
           ms == s.members
           key == s.key
<1>13. t.key = key /\ t.members = ms
  <2>1. t = Mk(s.mode, s.stack, s.pos, s.key, f, s.members)
    BY <1>2, StateFields, OneField
  <2> QED BY <2>1, MkFields
<1>14. EndMode(base) = "after"
  BY <1>12 DEF EndMode
<1>15. EndMembers(base, x, key, f, ms) = Append(ms, [key |-> key, from |-> f, to |-> x])
  BY DEF EndMembers
<1> HIDE DEF t, base, x, ms, key, f
<1>16. r = EndTo(t, base, x, f)
  BY <1>11, <1>12 DEF t, x
<1>17. r = Mk("after", base, x, key, f, Append(ms, [key |-> key, from |-> f, to |-> x]))
  BY <1>13, <1>14, <1>15, <1>16 DEF EndTo
<1>18. r = Valued(s, n)
  BY <1>17 DEF Valued, base, x, key, f, ms
<1> QED BY <1>3, <1>11, <1>18 DEF n, r

(* Pieces of an answer without a newline; an event's data is one line. *)
OneLine(x) == x \in Text /\ \A i \in 1..Len(x) : x[i] # Newline

(* Two of them make one line. *)
LEMMA OneLineConcat ==
  ASSUME NEW a, NEW b, OneLine(a), OneLine(b)
  PROVE  OneLine(a \o b) /\ Len(a \o b) = Len(a) + Len(b) /\ Len(a) \in Nat /\ Len(b) \in Nat
<1>1. a \in Text /\ b \in Text
  BY DEF OneLine
<1> DEFINE w == a \o b
           m == Len(a)
           n == Len(b)
<1>2. w \in Text /\ Len(w) = m + n /\ m \in Nat /\ n \in Nat
      /\ \A i \in 1..(m + n) : w[i] = IF i <= m THEN a[i] ELSE b[i - m]
  BY <1>1, TextConcat
<1>3. (\A i \in 1..m : a[i] # Newline) /\ (\A i \in 1..n : b[i] # Newline)
  BY DEF OneLine
<1> HIDE DEF w, m, n
<1>4. ASSUME NEW i \in 1..(m + n) PROVE w[i] # Newline
  <2>1. CASE i <= m
    BY <1>2, <1>3, <2>1
  <2>2. CASE ~(i <= m)
    <3> DEFINE j == i - m
    <3>1. j \in 1..n
      BY <1>2, <2>2
    <3>2. w[i] = b[j]
      BY <1>2, <2>2
    <3> HIDE DEF j
    <3> QED BY <1>3, <3>1, <3>2
  <2> QED BY <2>1, <2>2
<1>5. OneLine(w)
  BY <1>2, <1>4 DEF OneLine
<1> QED BY <1>2, <1>5 DEF w, m, n

(* So does a unit. *)
LEMMA OneLineUnit ==
  ASSUME NEW c \in STRING, c # Newline
  PROVE  OneLine(<<c>>) /\ Len(<<c>>) = 1
<1> DEFINE u == <<c>>
<1>1. u \in Text /\ Len(u) = 1 /\ u[1] = c
  BY OneUnit
<1> HIDE DEF u
<1>2. \A i \in 1..1 : u[i] = c
  <2> TAKE i \in 1..1
  <2>1. i = 1
    OBVIOUS
  <2> QED BY <1>1, <2>1
<1> QED BY <1>1, <1>2 DEF OneLine, u

(* Those of answers. *)
LEMMA Punctuation ==
  /\ OneLine(<<Quote>>) /\ OneLine(<<Comma>>) /\ OneLine(<<Colon>>) /\ OneLine(<<LBrace>>) /\ OneLine(<<RBrace>>)
  /\ Len(<<Quote>>) = 1 /\ Len(<<Comma>>) = 1 /\ Len(<<Colon>>) = 1 /\ Len(<<LBrace>>) = 1 /\ Len(<<RBrace>>) = 1
<1>1. Quote \in STRING /\ Comma \in STRING /\ Colon \in STRING /\ LBrace \in STRING /\ RBrace \in STRING
  BY UnitAssumption DEF Open, Close
<1>2. Quote # Newline /\ Comma # Newline /\ Colon # Newline /\ LBrace # Newline /\ RBrace # Newline
  BY Units
<1> QED BY <1>1, <1>2, OneLineUnit

(* A key. *)
LEMMA OneLineStr ==
  ASSUME NEW k, Word(k)
  PROVE  OneLine(Str(k)) /\ Len(Str(k)) = 3
<1> DEFINE u == Str(k)
<1>1. u \in Text /\ Len(u) = 3 /\ u[1] = Quote /\ u[2] = k /\ u[3] = Quote
  BY KeyUnits
<1>2. Quote # Newline /\ k # Newline
  BY Units DEF Word
<1> HIDE DEF u
<1>3. \A i \in 1..3 : u[i] # Newline
  <2> TAKE i \in 1..3
  <2>1. i = 1 \/ i = 2 \/ i = 3
    OBVIOUS
  <2> QED BY <1>1, <1>2, <2>1
<1> QED BY <1>1, <1>3 DEF OneLine, u

(* A value. *)
LEMMA OneLineCompact ==
  ASSUME NEW v, Compact(v)
  PROVE  OneLine(v) /\ Len(v) \in Nat
BY DEF Compact, OneLine, Text

(* The brace, the key and the colon before the first value, and what follows them. *)
Key1(k) == (<<LBrace>> \o Str(k)) \o <<Colon>>
Key2(k) == (<<Comma>> \o Str(k)) \o <<Colon>>

(* Pieces of three lengths, put together. *)
LEMMA Surrounded ==
  ASSUME NEW x, NEW q, NEW z, OneLine(x), OneLine(q), OneLine(z),
         Len(x) = 1, Len(q) = 3, Len(z) = 1
  PROVE  OneLine((x \o q) \o z) /\ Len((x \o q) \o z) = 5
<1> DEFINE a == x \o q
<1>1. OneLine(a) /\ Len(a) = Len(x) + Len(q)
  BY OneLineConcat
<1>2. Len(a) = 4
  BY <1>1
<1> HIDE DEF a
<1>3. OneLine(a \o z) /\ Len(a \o z) = Len(a) + Len(z)
  BY <1>1, OneLineConcat
<1>4. Len(a \o z) = 5
  BY <1>2, <1>3
<1> QED BY <1>3, <1>4 DEF a

(* They are one line. *)
LEMMA KeysAre ==
  ASSUME NEW k, Word(k)
  PROVE  OneLine(Key1(k)) /\ Len(Key1(k)) = 5 /\ OneLine(Key2(k)) /\ Len(Key2(k)) = 5
<1> DEFINE q == Str(k)
           x == <<LBrace>>
           y == <<Comma>>
           z == <<Colon>>
<1>1. OneLine(q) /\ Len(q) = 3
  BY OneLineStr
<1>2. OneLine(x) /\ OneLine(y) /\ OneLine(z) /\ Len(x) = 1 /\ Len(y) = 1 /\ Len(z) = 1
  BY Punctuation
<1>3. Key1(k) = (x \o q) \o z /\ Key2(k) = (y \o q) \o z
  BY DEF Key1, Key2
<1> HIDE DEF q, x, y, z
<1>4. OneLine((x \o q) \o z) /\ Len((x \o q) \o z) = 5
  BY <1>1, <1>2, Surrounded
<1>5. OneLine((y \o q) \o z) /\ Len((y \o q) \o z) = 5
  BY <1>1, <1>2, Surrounded
<1> QED BY <1>3, <1>4, <1>5

(* A key and its value. *)
LEMMA KeyValueRead ==
  ASSUME NEW s, InObject(s), NEW k, Word(k), NEW v, Compact(v)
  PROVE  LET r == Read(Read(Read(s, Str(k)), <<Colon>>), v) IN
         /\ r \in State
         /\ r = Mk("after", <<LBrace>>, s.pos + 4 + Len(v), <<k>>, s.pos + 5,
                   Append(s.members, [key |-> <<k>>, from |-> s.pos + 5, to |-> s.pos + 4 + Len(v)]))
<1> DEFINE base == <<LBrace>>
           key == <<k>>
           p == s.pos
           n == Len(v)
           x == p + 4
           ms == s.members
           f == s.from
           t == Mk("value", base, x, key, f, ms)
<1>1. Read(Read(s, Str(k)), <<Colon>>) = t
  BY KeyRead
<1>2. p \in Int /\ f \in Int /\ ms \in Seq(Entries) /\ s \in State /\ s.stack = base
  BY StateFields DEF InObject
<1>3. key \in Seq(STRING) /\ base \in Seq(Open)
  <2>1. k \in STRING
    BY DEF Word
  <2>2. base \in Seq(Open)
    BY <1>2, StateFields
  <2> QED BY <2>1, <2>2, Singleton
<1>4. n \in Nat /\ x \in Int /\ x + 1 = p + 5 /\ x + n = p + 4 + n
  BY <1>2 DEF Compact, Text
<1>5. PICK Q : Tight(Q, v)
  BY DEF Compact
<1>6. t.mode = "value" /\ t.stack = base /\ t.pos = x /\ t.key = key /\ t.members = ms
  BY MkFields
<1>7. base = <<LBrace>>
  OBVIOUS
<1>m. "value" \in Modes
  BY DEF Modes
<1> HIDE DEF base, key, p, x, ms, f, n
<1>8. t \in State
  BY <1>2, <1>3, <1>4, <1>m, MkIn
<1> HIDE DEF t
<1>9. AtValue(t)
  BY <1>6, <1>7, <1>8 DEF AtValue, Fit
<1>10. Read(t, v) = Valued(t, n) /\ Read(t, v) \in State
  BY <1>5, <1>9, ValueRead DEF n
<1>11. Valued(t, n) = Mk("after", base, x + n, key, x + 1, Append(ms, [key |-> key, from |-> x + 1, to |-> x + n]))
  BY <1>6, <1>7 DEF Valued
<1>12. Valued(t, n) = Mk("after", base, p + 4 + n, key, p + 5, Append(ms, [key |-> key, from |-> p + 5, to |-> p + 4 + n]))
  BY <1>4, <1>11
<1> QED BY <1>1, <1>10, <1>12 DEF base, key, p, n, ms

(* A member with key k and its value. *)
Noted(k, from, to) == [key |-> <<k>>, from |-> from, to |-> to]

(* Where a key may begin. *)
LEMMA InObjectMk ==
  ASSUME NEW s \in State, s.stack = <<LBrace>>, s.mode \in {"firstKey", "nextKey"}
  PROVE  InObject(s)
BY DEF InObject

(* Comma, key, colon and value, behind another member. *)
LEMMA MemberRead ==
  ASSUME NEW s \in State, s.mode = "after", s.stack = <<LBrace>>, NEW k, Word(k), NEW v, Compact(v)
  PROVE  LET r == Read(s, Key2(k) \o v) IN
         /\ r \in State
         /\ r = Mk("after", <<LBrace>>, s.pos + 5 + Len(v), <<k>>, s.pos + 6,
                   Append(s.members, Noted(k, s.pos + 6, s.pos + 5 + Len(v))))
<1> DEFINE q == Read(s, <<Comma>>)
           base == <<LBrace>>
           a == <<Comma>> \o Str(k)
           n == Len(v)
<1>1. <<Comma>> \in Text /\ Str(k) \in Text /\ <<Colon>> \in Text /\ v \in Text /\ a \in Text /\ Key2(k) \in Text
  BY Punctuation, OneLineStr, OneLineCompact, KeysAre, TextConcat DEF OneLine
<1>2. q = Mk("nextKey", base, s.pos + 1, s.key, s.from, s.members) /\ q \in State
  BY <1>1, CommaRead, ReadConcat
<1>3. q.mode = "nextKey" /\ q.stack = base /\ q.pos = s.pos + 1 /\ q.members = s.members
  BY <1>2, MkFields
<1>4. Read(s, a) = Read(q, Str(k))
  BY <1>1, ReadConcat
<1>5. Read(s, Key2(k)) = Read(Read(s, a), <<Colon>>)
  BY <1>1, ReadConcat DEF Key2
<1>6. Read(s, Key2(k) \o v) = Read(Read(s, Key2(k)), v)
  BY <1>1, ReadConcat
<1>7. Read(s, Key2(k) \o v) = Read(Read(Read(q, Str(k)), <<Colon>>), v)
  BY <1>4, <1>5, <1>6
<1>8. InObject(q)
  BY <1>2, <1>3 DEF InObject
<1> HIDE DEF q
<1>9. /\ Read(s, Key2(k) \o v) \in State
      /\ Read(s, Key2(k) \o v)
           = Mk("after", base, q.pos + 4 + n, <<k>>, q.pos + 5,
                Append(q.members, [key |-> <<k>>, from |-> q.pos + 5, to |-> q.pos + 4 + n]))
  <2> DEFINE r == Read(Read(Read(q, Str(k)), <<Colon>>), v)
  <2>1. /\ r \in State
        /\ r = Mk("after", <<LBrace>>, q.pos + 4 + Len(v), <<k>>, q.pos + 5,
                  Append(q.members, [key |-> <<k>>, from |-> q.pos + 5, to |-> q.pos + 4 + Len(v)]))
    BY <1>8, KeyValueRead
  <2> HIDE DEF r
  <2> QED BY <1>7, <2>1 DEF r
<1>10. s.pos \in Int /\ n \in Nat
  BY <1>1, StateFields DEF Text
<1>11. q.pos + 4 + n = s.pos + 5 + n /\ q.pos + 5 = s.pos + 6
  BY <1>3, <1>10
<1> DEFINE x == q.pos + 4 + n
           y == q.pos + 5
<1>12. Read(s, Key2(k) \o v) = Mk("after", base, x, <<k>>, y, Append(s.members, Noted(k, y, x)))
  BY <1>3, <1>9 DEF Noted
<1>13. x = s.pos + 5 + n /\ y = s.pos + 6
  BY <1>11
<1> HIDE DEF x, y
<1> QED BY <1>9, <1>12, <1>13 DEF base, n

(* An object with one member up to its value. *)
LEMMA BeginRead ==
  ASSUME NEW k, Word(k), NEW v, Compact(v)
  PROVE  LET r == Read(Start, Key1(k) \o v) IN
         /\ r \in State
         /\ r = Mk("after", <<LBrace>>, Len(v) + 5, <<k>>, 6, <<Noted(k, 6, Len(v) + 5)>>)
<1> DEFINE q == Read(Start, <<LBrace>>)
           base == <<LBrace>>
           none == <<>>
           a == <<LBrace>> \o Str(k)
           n == Len(v)
<1>1. base \in Text /\ Str(k) \in Text /\ <<Colon>> \in Text /\ v \in Text /\ a \in Text /\ Key1(k) \in Text
  BY Punctuation, OneLineStr, OneLineCompact, KeysAre, TextConcat DEF OneLine
<1>s. Start \in State
  BY StartIs
<1>2. q = Mk("firstKey", base, 1, none, 1, none) /\ q \in State
  BY Opening
<1>3. q.mode = "firstKey" /\ q.stack = base /\ q.pos = 1 /\ q.members = none
  BY <1>2, MkFields
<1>4. Read(Start, a) = Read(q, Str(k))
  BY <1>1, <1>s, ReadConcat
<1>5. Read(Start, Key1(k)) = Read(Read(Start, a), <<Colon>>)
  BY <1>1, <1>s, ReadConcat DEF Key1
<1>6. Read(Start, Key1(k) \o v) = Read(Read(Start, Key1(k)), v)
  BY <1>1, <1>s, ReadConcat
<1>7. Read(Start, Key1(k) \o v) = Read(Read(Read(q, Str(k)), <<Colon>>), v)
  BY <1>4, <1>5, <1>6
<1>8. InObject(q)
  BY <1>2, <1>3 DEF InObject
<1> HIDE DEF q
<1>9. /\ Read(Start, Key1(k) \o v) \in State
      /\ Read(Start, Key1(k) \o v)
           = Mk("after", base, q.pos + 4 + n, <<k>>, q.pos + 5,
                Append(q.members, [key |-> <<k>>, from |-> q.pos + 5, to |-> q.pos + 4 + n]))
  <2> DEFINE r == Read(Read(Read(q, Str(k)), <<Colon>>), v)
  <2>1. /\ r \in State
        /\ r = Mk("after", <<LBrace>>, q.pos + 4 + Len(v), <<k>>, q.pos + 5,
                  Append(q.members, [key |-> <<k>>, from |-> q.pos + 5, to |-> q.pos + 4 + Len(v)]))
    BY <1>8, KeyValueRead
  <2> HIDE DEF r
  <2> QED BY <1>7, <2>1 DEF r
<1>10. n \in Nat
  BY <1>1 DEF Text
<1> DEFINE x == q.pos + 4 + n
           y == q.pos + 5
           e == Noted(k, y, x)
<1>11. Append(none, e) = <<e>>
  OBVIOUS
<1>12. Read(Start, Key1(k) \o v) = Mk("after", base, x, <<k>>, y, Append(none, e))
  BY <1>3, <1>9 DEF Noted
<1>13. x = n + 5 /\ y = 6
  BY <1>3, <1>10
<1>14. Read(Start, Key1(k) \o v) = Mk("after", base, x, <<k>>, y, <<Noted(k, y, x)>>)
  BY <1>11, <1>12
<1> HIDE DEF x, y, e
<1> QED BY <1>9, <1>13, <1>14 DEF base, n

(* A part in the middle is found where it was put. *)
LEMMA Middle ==
  ASSUME NEW S, NEW a \in Seq(S), NEW v \in Seq(S), Len(v) >= 1, NEW b \in Seq(S)
  PROVE  SubSeq((a \o v) \o b, Len(a) + 1, Len(a) + Len(v)) = v
<1> DEFINE m == Len(a)
           n == Len(v)
           c == a \o v
           i == m + 1
           j == m + n
<1>1. m \in Nat /\ n \in Nat /\ n >= 1
  OBVIOUS
<1>2. c \in Seq(S) /\ Len(c) = m + n
  BY ConcatProperties
<1>3. i \in 1..(m + n) /\ j \in 1..(m + n) /\ i \in (m + 1)..(m + n) /\ j \in (m + 1)..(m + n)
      /\ i - m = 1 /\ j - m = n
  BY <1>1
<1>4. \A x, y \in (m + 1)..(m + n) : SubSeq(c, x, y) = SubSeq(v, x - m, y - m)
  BY SubSeqOfConcat2
<1>5. SubSeq(v, 1, n) = v
  BY SubSeqFull
<1> HIDE DEF c, i, j, m, n
<1>6. \A x, y \in 1..Len(c) : SubSeq(c \o b, x, y) = SubSeq(c, x, y)
  BY <1>2, SubSeqOfConcat1
<1>7. SubSeq(c \o b, i, j) = SubSeq(c, i, j)
  BY <1>2, <1>3, <1>6
<1>8. SubSeq(c, i, j) = SubSeq(v, i - m, j - m)
  BY <1>3, <1>4
<1>9. SubSeq(c \o b, i, j) = v
  BY <1>3, <1>5, <1>7, <1>8
<1> QED BY <1>9 DEF c, i, j, m, n

(* So is one behind a first part. *)
LEMMA Regroup ==
  ASSUME NEW S, NEW s \in Seq(S), NEW t \in Seq(S), NEW u \in Seq(S)
  PROVE  (s \o t) \o u = s \o (t \o u)
BY SMTT(30)

Regrouped(p, a, v, b) == p \o ((a \o v) \o b) = ((p \o a) \o v) \o b

(* It makes no difference. *)
LEMMA Associates ==
  ASSUME NEW S, NEW p \in Seq(S), NEW a \in Seq(S), NEW v \in Seq(S), NEW b \in Seq(S)
  PROVE  Regrouped(p, a, v, b)
<1> DEFINE c == a \o v
           d == p \o a
<1>1. c \in Seq(S) /\ d \in Seq(S)
  BY ConcatProperties
<1>2. d \o v = p \o c
  BY Regroup
<1> HIDE DEF c, d
<1>3. (p \o c) \o b = p \o (c \o b)
  BY SMTT(60), <1>1
<1>4. p \o (c \o b) = (d \o v) \o b
  BY <1>2, <1>3
<1> QED BY <1>4 DEF c, d, Regrouped

(* The first and the last unit of two pieces. *)
LEMMA Ends ==
  ASSUME NEW a \in Text, Len(a) >= 1, NEW b \in Text, Len(b) >= 1
  PROVE  /\ (a \o b)[1] = a[1] /\ (a \o b)[Len(a \o b)] = b[Len(b)]
         /\ a \o b \in Text /\ Len(a \o b) >= 1
<1> DEFINE m == Len(a)
           n == Len(b)
           w == a \o b
           z == m + n
<1>1. w \in Text /\ Len(w) = m + n /\ m \in Nat /\ n \in Nat
      /\ \A i \in 1..(m + n) : w[i] = IF i <= m THEN a[i] ELSE b[i - m]
  BY TextConcat
<1>2. m >= 1 /\ n >= 1
  OBVIOUS
<1> HIDE DEF m, n, w
<1>3. w[1] = a[1]
  BY <1>1, <1>2
<1>4. z \in 1..(m + n) /\ ~(z <= m) /\ z - m = n
  BY <1>1, <1>2
<1>5. w[z] = b[z - m]
  BY <1>1, <1>4
<1>6. w \in Text /\ Len(w) >= 1
  BY <1>1, <1>2
<1> QED BY <1>1, <1>3, <1>4, <1>5, <1>6 DEF w, m, n

(***************************************************************************)
(* Objects of one and of two members, put together as mcp.rs does.         *)
(***************************************************************************)
One(k, v) == (Key1(k) \o v) \o <<RBrace>>
Two(k, v, l, w) == (Key1(k) \o v) \o Member(l, w)

(* What Member appends. *)
LEMMA MemberIs ==
  ASSUME NEW l, NEW w
  PROVE  Member(l, w) = (Key2(l) \o w) \o <<RBrace>>
BY DEF Member, Key2

(* The closing brace. *)
LEMMA EndRead ==
  ASSUME NEW s \in State, NEW p \in Int, NEW k, NEW f, NEW ms,
         s = Mk("after", <<LBrace>>, p, k, f, ms)
  PROVE  Read(s, <<RBrace>>) = Mk("end", <<>>, p + 1, k, f, ms)
<1>1. s.mode = "after" /\ s.stack = <<LBrace>> /\ s.pos = p /\ s.key = k /\ s.from = f /\ s.members = ms
  BY MkFields
<1>2. Read(s, <<RBrace>>) = Mk("end", <<>>, s.pos + 1, s.key, s.from, s.members)
  BY <1>1, ClosingRead
<1> QED BY <1>1, <1>2

(* A key and a value in one line. *)
LEMMA PiecesAre ==
  ASSUME NEW k, Word(k), NEW v, Compact(v)
  PROVE  /\ OneLine(Key1(k) \o v) /\ Len(Key1(k) \o v) = Len(v) + 5
         /\ OneLine(Key2(k) \o v) /\ Len(Key2(k) \o v) = Len(v) + 5
         /\ OneLine(v) /\ Len(v) \in Nat /\ Len(v) >= 1
<1>1. OneLine(v) /\ Len(v) \in Nat /\ Len(v) >= 1
  BY OneLineCompact DEF Compact, Tight
<1>2. OneLine(Key1(k)) /\ Len(Key1(k)) = 5 /\ OneLine(Key2(k)) /\ Len(Key2(k)) = 5
  BY KeysAre
<1>3. OneLine(Key1(k) \o v) /\ Len(Key1(k) \o v) = 5 + Len(v)
  BY <1>1, <1>2, OneLineConcat
<1>4. OneLine(Key2(k) \o v) /\ Len(Key2(k) \o v) = 5 + Len(v)
  BY <1>1, <1>2, OneLineConcat
<1> QED BY <1>1, <1>3, <1>4

(* The grammar reads an object of one member, *)
LEMMA OneRead ==
  ASSUME NEW k, Word(k), NEW v, Compact(v)
  PROVE  /\ OneLine(One(k, v)) /\ Len(One(k, v)) = Len(v) + 6
         /\ Read(Start, One(k, v)).mode = "end"
         /\ Read(Start, One(k, v)).members = <<Noted(k, 6, Len(v) + 5)>>
<1> DEFINE a == Key1(k) \o v
           b == <<RBrace>>
           n == Len(v)
           ms == <<Noted(k, 6, n + 5)>>
           key == <<k>>
           s == Read(Start, a)
<1>1. OneLine(a) /\ Len(a) = n + 5 /\ OneLine(b) /\ Len(b) = 1 /\ n \in Nat
  BY PiecesAre, Punctuation
<1>2. s \in State /\ s = Mk("after", <<LBrace>>, n + 5, key, 6, ms)
  BY BeginRead
<1>3. a \in Text /\ b \in Text
  BY <1>1 DEF OneLine
<1> HIDE DEF a, n, ms, key
<1>4. Read(Start, a \o b) = Read(s, b)
  BY <1>3, StartIs, ReadConcat
<1>5. OneLine(a \o b) /\ Len(a \o b) = (n + 5) + 1
  BY <1>1, OneLineConcat
<1> HIDE DEF s
<1>6. Read(s, <<RBrace>>) = Mk("end", <<>>, (n + 5) + 1, key, 6, ms)
  BY <1>1, <1>2, EndRead
<1>7. Read(Start, a \o b).mode = "end" /\ Read(Start, a \o b).members = ms
  BY <1>4, <1>6, MkFields
<1>8. (n + 5) + 1 = n + 6
  BY <1>1
<1> QED BY <1>5, <1>7, <1>8 DEF One, a, n, ms

(* A pair is a unit and one more. *)
LEMMA AppendPair ==
  ASSUME NEW a, NEW b
  PROVE  Append(<<a>>, b) = <<a, b>>
<1> DEFINE S == {a, b}
           x == <<a>>
           u == <<a, b>>
<1>1. x \in Seq(S) /\ Len(x) = 1 /\ x[1] = a /\ b \in S
  BY Singleton
<1>2. u \in Seq(S) /\ Len(u) = 2 /\ u[1] = a /\ u[2] = b
  OBVIOUS
<1> HIDE DEF S, x, u
<1>3. Append(x, b) \in Seq(S) /\ Len(Append(x, b)) = 2 /\ Append(x, b)[1] = a /\ Append(x, b)[2] = b
  <2>1. /\ Append(x, b) \in Seq(S) /\ Len(Append(x, b)) = Len(x) + 1
        /\ \A i \in 1..Len(x) : Append(x, b)[i] = x[i]
        /\ Append(x, b)[Len(x) + 1] = b
    <3>1. x \in Seq(S) /\ b \in S
      BY <1>1
    <3> QED BY ONLY <3>1, AppendProperties
  <2> DEFINE w == Append(x, b)
  <2> HIDE DEF w
  <2>2. w[1] = a /\ w[2] = b
    BY <1>1, <2>1 DEF w
  <2> QED BY <1>1, <2>1, <2>2 DEF w
<1>4. Append(x, b) = u
  BY <1>2, <1>3
<1> QED BY <1>4 DEF x, u

(* and of two. *)
LEMMA TwoRead ==
  ASSUME NEW k, Word(k), NEW v, Compact(v), NEW l, Word(l), NEW w, Compact(w)
  PROVE  /\ OneLine(Two(k, v, l, w)) /\ Len(Two(k, v, l, w)) = Len(v) + Len(w) + 11
         /\ Read(Start, Two(k, v, l, w)).mode = "end"
         /\ Read(Start, Two(k, v, l, w)).members
              = <<Noted(k, 6, Len(v) + 5), Noted(l, Len(v) + 11, Len(v) + Len(w) + 10)>>
<1> DEFINE a == Key1(k) \o v
           c == Key2(l) \o w
           b == <<RBrace>>
           d == c \o b
           n == Len(v)
           m == Len(w)
           e1 == Noted(k, 6, n + 5)
           e2 == Noted(l, (n + 5) + 6, (n + 5) + 5 + m)
           ms == <<e1>>
           key == <<k>>
           s == Read(Start, a)
           r == Read(s, c)
<1>1. /\ OneLine(a) /\ Len(a) = n + 5 /\ OneLine(b) /\ Len(b) = 1 /\ n \in Nat
      /\ OneLine(c) /\ Len(c) = m + 5 /\ m \in Nat
  BY PiecesAre, Punctuation
<1>2. s \in State /\ s = Mk("after", <<LBrace>>, n + 5, key, 6, ms)
  BY BeginRead
<1>3. a \in Text /\ b \in Text /\ c \in Text
  BY <1>1 DEF OneLine
<1>4. d \in Text /\ OneLine(d) /\ Len(d) = (m + 5) + 1
  BY <1>1, OneLineConcat DEF OneLine
<1>5. s.mode = "after" /\ s.stack = <<LBrace>> /\ s.pos = n + 5 /\ s.members = ms
  BY <1>2, MkFields
<1> HIDE DEF s, ms, key
<1>6. /\ r \in State
      /\ r = Mk("after", <<LBrace>>, s.pos + 5 + m, <<l>>, s.pos + 6,
                Append(s.members, Noted(l, s.pos + 6, s.pos + 5 + m)))
  BY <1>2, <1>5, MemberRead
<1>7. r = Mk("after", <<LBrace>>, (n + 5) + 5 + m, <<l>>, (n + 5) + 6, Append(ms, e2))
  BY <1>5, <1>6
<1> DEFINE x == (n + 5) + 5 + m
           y == (n + 5) + 6
           lk == <<l>>
           ms2 == Append(ms, e2)
<1>8. r = Mk("after", <<LBrace>>, x, lk, y, ms2) /\ x \in Int
  BY <1>1, <1>7
<1> HIDE DEF a, b, c, x, y, lk, ms2, r
<1>9. Read(r, <<RBrace>>) = Mk("end", <<>>, x + 1, lk, y, ms2)
  BY <1>6, <1>8, EndRead
<1>10. Read(Start, a \o d) = Read(s, d)
  BY <1>3, <1>4, StartIs, ReadConcat DEF s
<1>11. Read(s, d) = Read(r, b)
  BY <1>2, <1>3, ReadConcat DEF r
<1>12. Read(Start, a \o d).mode = "end" /\ Read(Start, a \o d).members = ms2
  BY <1>9, <1>10, <1>11, MkFields DEF b
<1> HIDE DEF d, n, m
<1>13. OneLine(a \o d) /\ Len(a \o d) = (n + 5) + ((m + 5) + 1)
  BY <1>1, <1>4, OneLineConcat
<1>14. (n + 5) + ((m + 5) + 1) = n + m + 11 /\ (n + 5) + 6 = n + 11 /\ (n + 5) + 5 + m = n + m + 10
  BY <1>1
<1>15. e2 = Noted(l, n + 11, n + m + 10)
  BY <1>14
<1> HIDE DEF e1, e2
<1>16. ms2 = <<e1, e2>>
  BY AppendPair DEF ms2, ms
<1>17. Two(k, v, l, w) = a \o d
  BY MemberIs DEF Two, a, c, d, b
<1> QED BY <1>12, <1>13, <1>14, <1>15, <1>16, <1>17 DEF e1, n, m

(* A member, told by fields. *)
LEMMA NotedIn ==
  ASSUME NEW k, Word(k), NEW x \in Int, NEW y \in Int
  PROVE  /\ Noted(k, x, y) \in Entries
         /\ Noted(k, x, y).key = <<k>> /\ Noted(k, x, y).from = x /\ Noted(k, x, y).to = y
<1>1. <<k>> \in Seq(STRING)
  BY Singleton DEF Word
<1> DEFINE key == <<k>>
<1> HIDE DEF key
<1>2. Noted(k, x, y) = [key |-> key, from |-> x, to |-> y]
  BY DEF Noted, key
<1> QED BY <1>1, <1>2 DEF Entries, key

(* Different keys. *)
LEMMA Different ==
  ASSUME NEW k, NEW l, k # l
  PROVE  <<k>> # <<l>>
<1>1. <<k>>[1] = k /\ <<l>>[1] = l
  OBVIOUS
<1> QED BY <1>1

(* The member of which there is one. *)
Single(b, ms, key, i) ==
  ms \in Seq(Entries) /\ Read(Start, b).members = ms /\ Named(ms, key) = {i}

(* So it is the one that is found. *)
LEMMA OnlyOne ==
  ASSUME NEW b, NEW ms, NEW key, NEW i, Single(b, ms, key, i)
  PROVE  MemberOf(b, key) = SubSeq(b, ms[i].from, ms[i].to)
<1> DEFINE D == Named(ms, key)
<1>0. ms \in Seq(Entries) /\ Read(Start, b).members = ms /\ D = {i}
  BY DEF Single
<1>1. D # {}
  BY <1>0
<1>2. Max(D) \in D
  BY <1>0, <1>1, NamedIn
<1>3. Max(D) = i
  BY <1>0, <1>2
<1> HIDE DEF D
<1>4. MemberOf(b, key) = IF D = {} THEN <<>> ELSE SubSeq(b, ms[Max(D)].from, ms[Max(D)].to)
  <2>1. LastOf(b, ms, key) = IF D = {} THEN <<>> ELSE SubSeq(b, ms[Max(D)].from, ms[Max(D)].to)
    BY <1>0, ByKey DEF D
  <2>2. MemberOf(b, key) = LastOf(b, ms, key)
    BY <1>0, ByKey
  <2> QED BY <2>1, <2>2
<1> QED BY <1>1, <1>3, <1>4

(* An object starts with a brace, *)
LEMMA FirstUnit ==
  ASSUME NEW k, Word(k), NEW v, Compact(v)
  PROVE  (Key1(k) \o v)[1] = LBrace
<1> DEFINE x == <<LBrace>>
           y == x \o Str(k)
           z == y \o <<Colon>>
<1>1. x \in Text /\ Len(x) = 1 /\ x[1] = LBrace
  BY OneUnit, UnitAssumption DEF Open
<1>2. Str(k) \in Text /\ Len(Str(k)) = 3 /\ <<Colon>> \in Text /\ Len(<<Colon>>) = 1
  BY OneLineStr, Punctuation DEF OneLine
<1>3. v \in Text /\ Len(v) >= 1
  BY PiecesAre DEF OneLine
<1> HIDE DEF x
<1>4. y \in Text /\ Len(y) >= 1 /\ y[1] = x[1]
  <2> DEFINE t == Str(k)
  <2>1. t \in Text /\ Len(t) >= 1 /\ Len(x) >= 1
    BY <1>1, <1>2
  <2> HIDE DEF t
  <2>2. x \o t \in Text /\ Len(x \o t) >= 1 /\ (x \o t)[1] = x[1]
    BY <1>1, <2>1, Ends
  <2> QED BY <2>2 DEF t
<1> HIDE DEF y
<1>5. z \in Text /\ Len(z) >= 1 /\ z[1] = y[1]
  <2> DEFINE t == <<Colon>>
  <2>1. t \in Text /\ Len(t) >= 1
    BY <1>2
  <2> HIDE DEF t
  <2>2. y \o t \in Text /\ Len(y \o t) >= 1 /\ (y \o t)[1] = y[1]
    BY <1>4, <2>1, Ends
  <2> QED BY <2>2 DEF t
<1>6. Key1(k) = z
  BY DEF Key1, x, y
<1> HIDE DEF z
<1>7. (z \o v)[1] = z[1]
  BY <1>3, <1>5, Ends
<1> QED BY <1>1, <1>4, <1>5, <1>6, <1>7

(* and is JSON, in one line, if it ends with one. *)
LEMMA BracedCompact ==
  ASSUME NEW k, Word(k), NEW v, Compact(v), NEW d, OneLine(d), Len(d) >= 1, d[Len(d)] = RBrace,
         Read(Start, (Key1(k) \o v) \o d).mode = "end"
  PROVE  LET u == (Key1(k) \o v) \o d IN Compact(u) /\ IsJson(u) /\ u[1] = LBrace
<1> DEFINE a == Key1(k) \o v
           u == a \o d
<1>1. OneLine(a) /\ Len(a) >= 1 /\ a[1] = LBrace
  BY PiecesAre, FirstUnit
<1>2. a \in Text /\ d \in Text
  BY <1>1 DEF OneLine
<1> HIDE DEF a
<1>3. OneLine(u) /\ Len(u) = Len(a) + Len(d) /\ Len(a) \in Nat /\ Len(d) \in Nat
  BY <1>1, OneLineConcat
<1>4. u[1] = LBrace /\ u[Len(u)] = RBrace
  BY <1>1, <1>2, Ends
<1>5. IsJson(u)
  BY DEF IsJson, a
<1> HIDE DEF u
<1>6. Len(u) >= 1 /\ u \in Text
  BY <1>1, <1>3 DEF OneLine
<1>7. LBrace \notin White /\ RBrace \notin White
  BY Units DEF White
<1>8. \E Q : Tight(Q, u)
  BY <1>4, <1>5, <1>6, <1>7, TightEnds
<1>9. Compact(u)
  BY <1>3, <1>6, <1>8 DEF Compact, OneLine
<1> QED BY <1>4, <1>5, <1>9 DEF u, a

(* An object of one member is JSON, and its member is found. *)
LEMMA OneIs ==
  ASSUME NEW k, Word(k), NEW v, Compact(v)
  PROVE  Compact(One(k, v)) /\ MemberOf(One(k, v), k) = v
<1> DEFINE b == <<RBrace>>
           u == One(k, v)
           n == Len(v)
           e == Noted(k, 6, n + 5)
           ms == <<e>>
<1>1. OneLine(b) /\ Len(b) = 1 /\ b[Len(b)] = RBrace /\ b \in Text
  BY Punctuation, OneUnit, UnitAssumption DEF Close
<1>2. Read(Start, u).mode = "end" /\ Read(Start, u).members = ms
  BY OneRead
<1>3. OneLine(v) /\ n \in Nat /\ n >= 1 /\ OneLine(Key1(k)) /\ Len(Key1(k)) = 5
  BY PiecesAre, KeysAre
<1>4. u = (Key1(k) \o v) \o b
  BY DEF One
<1>5. Compact(u)
  <2> HIDE DEF b, u
  <2>1. Read(Start, (Key1(k) \o v) \o b).mode = "end" /\ Len(b) >= 1
    BY <1>1, <1>2, <1>4
  <2>2. Compact((Key1(k) \o v) \o b)
    BY <1>1, <2>1, BracedCompact
  <2> QED BY <1>4, <2>2
<1>6. e \in Entries /\ e.key = <<k>> /\ e.from = 6 /\ e.to = n + 5
  BY <1>3, NotedIn
<1> HIDE DEF e, n, b, u
<1>7. ms \in Seq(Entries) /\ Len(ms) = 1 /\ ms[1] = e
  BY <1>6, Singleton
<1> HIDE DEF ms
<1>8. Named(ms, k) = {1}
  BY <1>6, <1>7 DEF Named
<1>9. MemberOf(u, k) = SubSeq(u, 6, n + 5)
  <2> DEFINE i == 1
  <2>1. Named(ms, k) = {i} /\ Read(Start, u).members = ms
    BY <1>2, <1>8 DEF ms
  <2> HIDE DEF i
  <2>3. Single(u, ms, k, i)
    BY <1>7, <2>1 DEF Single
  <2>2. MemberOf(u, k) = SubSeq(u, ms[i].from, ms[i].to)
    BY <2>3, OnlyOne
  <2> QED BY <1>6, <1>7, <2>2 DEF i
<1>10. SubSeq((Key1(k) \o v) \o b, Len(Key1(k)) + 1, Len(Key1(k)) + Len(v)) = v
  BY <1>1, <1>3, Middle DEF OneLine, Text, n
<1>11. Len(Key1(k)) + 1 = 6 /\ Len(Key1(k)) + Len(v) = n + 5
  BY <1>3 DEF n
<1>12. SubSeq(u, 6, n + 5) = v
  BY <1>4, <1>10, <1>11
<1> QED BY <1>5, <1>9, <1>12 DEF u

(* So is one of two, and both are. *)
LEMMA TwoIs ==
  ASSUME NEW k, Word(k), NEW v, Compact(v), NEW l, Word(l), NEW w, Compact(w), k # l
  PROVE  /\ Compact(Two(k, v, l, w))
         /\ MemberOf(Two(k, v, l, w), k) = v /\ MemberOf(Two(k, v, l, w), l) = w
<1> DEFINE a == Key1(k) \o v
           c == Key2(l) \o w
           b == <<RBrace>>
           d == c \o b
           u == Two(k, v, l, w)
           n == Len(v)
           m == Len(w)
           e1 == Noted(k, 6, n + 5)
           e2 == Noted(l, n + 11, n + m + 10)
           ms == <<e1, e2>>
<1>1. OneLine(b) /\ Len(b) = 1 /\ b[Len(b)] = RBrace /\ b \in Text
  BY Punctuation, OneUnit, UnitAssumption DEF Close
<1>2. Read(Start, u).mode = "end" /\ Read(Start, u).members = ms
  BY TwoRead
<1>3. /\ OneLine(v) /\ n \in Nat /\ n >= 1 /\ OneLine(Key1(k)) /\ Len(Key1(k)) = 5
      /\ OneLine(w) /\ m \in Nat /\ m >= 1 /\ OneLine(Key2(l)) /\ Len(Key2(l)) = 5
      /\ OneLine(a) /\ Len(a) = n + 5 /\ OneLine(c) /\ Len(c) = m + 5
  BY PiecesAre, KeysAre
<1>4. u = a \o d
  BY MemberIs DEF Two
<1>t. /\ v \in Seq(STRING) /\ w \in Seq(STRING) /\ a \in Seq(STRING) /\ b \in Seq(STRING) /\ c \in Seq(STRING)
      /\ Key1(k) \in Seq(STRING) /\ Key2(l) \in Seq(STRING)
  BY <1>1, <1>3 DEF OneLine, Text
<1>5. Compact(u)
  <2> HIDE DEF b, c
  <2>1. OneLine(d) /\ Len(d) = (m + 5) + 1
    <3>1. OneLine(d) /\ Len(d) = Len(c) + Len(b)
      BY <1>1, <1>3, OneLineConcat
    <3> QED BY <1>1, <1>3, <3>1
  <2>2. d[Len(d)] = RBrace
    <3>1. c \in Text /\ Len(c) >= 1 /\ b \in Text /\ Len(b) >= 1
      BY <1>1, <1>3 DEF OneLine
    <3>2. d[Len(d)] = b[Len(b)]
      BY <3>1, Ends
    <3> QED BY <1>1, <3>2
  <2> HIDE DEF d, u
  <2>3. Len(d) >= 1
    BY <1>3, <2>1
  <2> QED BY <1>2, <1>4, <2>1, <2>2, <2>3, BracedCompact
<1>6. /\ e1 \in Entries /\ e1.key = <<k>> /\ e1.from = 6 /\ e1.to = n + 5
      /\ e2 \in Entries /\ e2.key = <<l>> /\ e2.from = n + 11 /\ e2.to = n + m + 10
  BY <1>3, NotedIn
<1>7. <<k>> # <<l>>
  BY Different
<1> HIDE DEF e1, e2, n, m, u
<1>8. ms \in Seq(Entries) /\ Len(ms) = 2 /\ ms[1] = e1 /\ ms[2] = e2
  BY <1>6
<1> HIDE DEF ms
<1>9. Named(ms, k) = {1} /\ Named(ms, l) = {2}
  <2>1. \A i \in 1..2 : i = 1 \/ i = 2
    OBVIOUS
  <2> QED BY <1>6, <1>7, <1>8, <2>1 DEF Named
<1>i. Read(Start, u).members = ms
  BY <1>2 DEF ms
<1>10. MemberOf(u, k) = SubSeq(u, 6, n + 5)
  <2> DEFINE i == 1
  <2>1. Named(ms, k) = {i}
    BY <1>9
  <2> HIDE DEF i
  <2>2. MemberOf(u, k) = SubSeq(u, ms[i].from, ms[i].to)
    <3>1. Single(u, ms, k, i)
      BY <1>8, <1>i, <2>1 DEF Single
    <3> QED BY <3>1, OnlyOne
  <2>3. ms[i].from = 6 /\ ms[i].to = n + 5
    BY <1>6, <1>8 DEF i
  <2> QED BY <2>2, <2>3
<1>11. MemberOf(u, l) = SubSeq(u, n + 11, n + m + 10)
  <2> DEFINE i == 2
  <2>1. Named(ms, l) = {i}
    BY <1>9
  <2> HIDE DEF i
  <2>2. MemberOf(u, l) = SubSeq(u, ms[i].from, ms[i].to)
    <3>1. Single(u, ms, l, i)
      BY <1>8, <1>i, <2>1 DEF Single
    <3> QED BY <3>1, OnlyOne
  <2>3. ms[i].from = n + 11 /\ ms[i].to = n + m + 10
    BY <1>6, <1>8 DEF i
  <2> QED BY <2>2, <2>3
<1>12. SubSeq(u, 6, n + 5) = v
  <2>1. d \in Seq(STRING)
    BY <1>t, ConcatProperties
  <2> HIDE DEF d
  <2>2. SubSeq((Key1(k) \o v) \o d, Len(Key1(k)) + 1, Len(Key1(k)) + Len(v)) = v
    BY <1>3, <1>t, <2>1, Middle DEF n
  <2>3. Len(Key1(k)) + 1 = 6 /\ Len(Key1(k)) + Len(v) = n + 5
    BY <1>3 DEF n
  <2> QED BY <1>4, <2>2, <2>3
<1>13. SubSeq(u, n + 11, n + m + 10) = w
  <2> DEFINE y == Key2(l)
             x == a \o y
  <2>0. y \in Seq(STRING) /\ Len(y) = 5 /\ c = y \o w
    BY <1>3, <1>t
  <2> HIDE DEF a, y, c, b
  <2>a. Regrouped(a, y, w, b)
    BY <1>t, <2>0, Associates
  <2>1. a \o ((y \o w) \o b) = (x \o w) \o b
    BY <2>a DEF Regrouped
  <2>2. u = (x \o w) \o b
    BY <1>4, <2>0, <2>1
  <2>3. x \in Seq(STRING) /\ Len(x) = Len(a) + Len(y)
    BY <1>t, <2>0, ConcatProperties
  <2> HIDE DEF x
  <2>4. SubSeq((x \o w) \o b, Len(x) + 1, Len(x) + Len(w)) = w
    BY <1>3, <1>t, <2>3, Middle DEF m
  <2>5. Len(x) + 1 = n + 11 /\ Len(x) + Len(w) = n + m + 10
    BY <1>3, <2>0, <2>3 DEF m
  <2> QED BY <2>2, <2>4, <2>5
<1> QED BY <1>5, <1>10, <1>11, <1>12, <1>13 DEF u

(***************************************************************************)
(* The fixed parts of an answer.                                           *)
(***************************************************************************)
LEMMA PlainWords ==
  /\ Word("id") /\ Word("result") /\ Word("error") /\ Word("text") /\ Word("isError")
  /\ Word("protocolVersion") /\ Word("2025-06-18") /\ Word("42") /\ Word("unknown tool ")
<1> DEFINE W == {"id", "result", "error", "text", "isError", "protocolVersion", "2025-06-18", "42", "unknown tool "}
<1>1. W \subseteq STRING
  BY WordAssumption
<1>2. W \cap {Quote, Backslash, Newline} = {}
  BY DEF Quote, Backslash, Newline
<1>3. \A k \in W : Word(k)
  BY <1>1, <1>2 DEF Word
<1> QED BY <1>3

(* The answers of mcp.rs are such objects: Result, *)
LEMMA ResultTwo ==
  ASSUME NEW id, NEW value
  PROVE  Result(id, value) = Two("id", id, "result", value)
<1> DEFINE k == "id"
<1>1. Prefix = Key1(k)
  BY DEF Prefix, Key1
<1>2. Result(id, value) = (Prefix \o id) \o Member("result", value)
  BY DEF Result
<1> QED BY <1>1, <1>2 DEF Two

(* Error, *)
LEMMA ErrorTwo ==
  ASSUME NEW id, NEW code
  PROVE  Error(id, code) = Two("id", id, "error", <<code>>)
<1> DEFINE k == "id"
<1>1. Prefix = Key1(k)
  BY DEF Prefix, Key1
<1>2. Error(id, code) = (Prefix \o id) \o Member("error", <<code>>)
  BY DEF Error
<1> QED BY <1>1, <1>2 DEF Two

(* A string is written with its first quote behind the colon. *)
LEMMA QuotedAfter ==
  ASSUME NEW k, Word(k), NEW x \in Text
  PROVE  (((<<LBrace>> \o Str(k)) \o <<Colon, Quote>>) \o x) \o <<Quote>> = Key1(k) \o Quoted(x)
<1> DEFINE l == <<LBrace>> \o Str(k)
           c == <<Colon>>
           q == <<Quote>>
           cq == <<Colon, Quote>>
           S == STRING
<1>1. l \in Seq(S) /\ c \in Seq(S) /\ q \in Seq(S) /\ x \in Seq(S)
  BY Punctuation, OneLineStr, TextConcat DEF OneLine, Text
<1>2. cq = c \o q
  <2>1. Colon \in STRING /\ Quote \in STRING
    BY UnitAssumption
  <2> DEFINE d == Colon
             e == Quote
  <2>2. d \in STRING /\ e \in STRING
    BY <2>1
  <2> HIDE DEF d, e
  <2>3. <<d, e>> = <<d>> \o <<e>>
    BY <2>2, Pair2
  <2> QED BY <2>3 DEF d, e
<1>3. Key1(k) = l \o c /\ Quoted(x) = (q \o x) \o q
  BY DEF Key1, Quoted
<1> HIDE DEF l, c, q, cq, S
<1>4. (l \o c) \o q = l \o (c \o q)
  BY SMTT(60), <1>1
<1> DEFINE p == l \o c
<1>5. p \in Seq(S)
  BY <1>1, ConcatProperties
<1> HIDE DEF p
<1>6. Regrouped(p, q, x, q)
  BY <1>1, <1>5, Associates
<1>7. p \o ((q \o x) \o q) = ((p \o q) \o x) \o q
  BY <1>6 DEF Regrouped
<1>8. p \o q = l \o cq
  BY <1>2, <1>4 DEF p
<1>9. Key1(k) \o Quoted(x) = ((l \o cq) \o x) \o q
  BY <1>3, <1>7, <1>8 DEF p
<1> QED BY <1>9 DEF l, cq, q

(* BuildText, *)
LEMMA TextIs ==
  ASSUME NEW id, NEW x \in Text, NEW e
  PROVE  BuildText(id, x, e) = Two("id", id, "result", Two("text", Quoted(x), "isError", <<e>>))
<1> DEFINE k == "text"
<1>1. Word(k)
  BY PlainWords
<1> HIDE DEF k
<1>2. (((<<LBrace>> \o Str(k)) \o <<Colon, Quote>>) \o x) \o <<Quote>> = Key1(k) \o Quoted(x)
  BY <1>1, QuotedAfter
<1> DEFINE m == Member("isError", <<e>>)
           value == ((((<<LBrace>> \o Str(k)) \o <<Colon, Quote>>) \o x) \o <<Quote>>) \o m
<1>3. value = Two(k, Quoted(x), "isError", <<e>>)
  BY <1>2 DEF Two
<1>4. BuildText(id, x, e) = Result(id, value)
  BY DEF BuildText, k
<1> DEFINE inner == Two(k, Quoted(x), "isError", <<e>>)
<1> HIDE DEF value, k
<1>5. Result(id, value) = Two("id", id, "result", value)
  BY ResultTwo
<1>6. value = inner
  BY <1>3
<1> HIDE DEF inner
<1>7. BuildText(id, x, e) = Two("id", id, "result", inner)
  BY <1>4, <1>5, <1>6
<1> QED BY <1>7 DEF inner, k

(* and BuildInitialize. *)
LEMMA InitializeIs ==
  ASSUME NEW id, NEW x \in Text
  PROVE  BuildInitialize(id, x) = Two("id", id, "result", One("protocolVersion", Quoted(x)))
<1> DEFINE k == "protocolVersion"
<1>1. Word(k)
  BY PlainWords
<1> HIDE DEF k
<1> DEFINE y == ((<<LBrace>> \o Str(k)) \o <<Colon, Quote>>) \o x
           q == <<Quote>>
           r == <<RBrace>>
           qr == <<Quote, RBrace>>
           S == STRING
<1>2. y \o q = Key1(k) \o Quoted(x)
  BY <1>1, QuotedAfter
<1>3. Quote \in STRING /\ RBrace \in STRING /\ Colon \in STRING
  BY UnitAssumption DEF Close
<1>4. qr = q \o r
  <2> DEFINE d == Quote
             e == RBrace
  <2>2. d \in STRING /\ e \in STRING
    BY <1>3
  <2> HIDE DEF d, e
  <2>3. <<d, e>> = <<d>> \o <<e>>
    BY <2>2, Pair2
  <2> QED BY <2>3 DEF d, e
<1>5. q \in Seq(S) /\ r \in Seq(S) /\ x \in Seq(S)
  BY Punctuation DEF OneLine, Text
<1>6. y \in Seq(S)
  <2> DEFINE l == <<LBrace>> \o Str(k)
             d == <<Colon, Quote>>
  <2>1. l \in Text
    BY <1>1, Punctuation, OneLineStr, TextConcat DEF OneLine
  <2>2. d \in Seq(STRING)
    <3> DEFINE f == Colon
               e == Quote
    <3>1. f \in STRING /\ e \in STRING
      BY <1>3
    <3> HIDE DEF f, e
    <3>2. <<f, e>> \in Seq(STRING)
      BY <3>1, Pair2
    <3> QED BY <3>2 DEF f, e
  <2>3. d \in Text /\ x \in Text
    BY <2>2 DEF Text
  <2> HIDE DEF l, d
  <2>4. l \o d \in Text
    BY <2>1, <2>3, TextConcat
  <2>5. (l \o d) \o x \in Text
    BY <2>3, <2>4, TextConcat
  <2> QED BY <2>5 DEF Text, l, d
<1>7. BuildInitialize(id, x) = Result(id, y \o qr)
  BY DEF BuildInitialize, k
<1> HIDE DEF y, q, r, qr, S
<1>8. (y \o q) \o r = y \o (q \o r)
  BY <1>5, <1>6, Regroup
<1>9. y \o qr = One(k, Quoted(x))
  BY <1>2, <1>4, <1>8 DEF One, r
<1> DEFINE value == y \o qr
           inner == One(k, Quoted(x))
<1>10. value = inner /\ BuildInitialize(id, x) = Result(id, value)
  BY <1>7, <1>9
<1> HIDE DEF value, inner, k
<1>11. Result(id, value) = Two("id", id, "result", value)
  BY ResultTwo
<1>12. BuildInitialize(id, x) = Two("id", id, "result", inner)
  BY <1>10, <1>11
<1> QED BY <1>12 DEF inner, k

(* An object without members. *)
LEMMA EmptyObject == Compact(<<LBrace, RBrace>>)
<1> DEFINE a == <<LBrace>>
           b == <<RBrace>>
           u == <<LBrace, RBrace>>
           s == Mk("firstKey", a, 1, <<>>, 1, <<>>)
<1>1. LBrace \in STRING /\ RBrace \in STRING /\ LBrace \notin White /\ RBrace \notin White
      /\ LBrace # Newline /\ RBrace # Newline
  BY UnitAssumption, Units DEF Open, Close, White
<1>2. u = a \o b
  <2> DEFINE d == LBrace
             e == RBrace
  <2>2. d \in STRING /\ e \in STRING
    BY <1>1
  <2> HIDE DEF d, e
  <2>3. <<d, e>> = <<d>> \o <<e>>
    BY <2>2, Pair2
  <2> QED BY <2>3 DEF d, e
<1>3. a \in Text /\ Len(a) = 1 /\ a[1] = LBrace /\ b \in Text /\ Len(b) = 1 /\ b[1] = RBrace
      /\ OneLine(a) /\ OneLine(b)
  BY <1>1, OneUnit, OneLineUnit
<1>4. Read(Start, a) = s /\ s \in State
  BY Opening
<1>5. s.mode = "firstKey" /\ s.stack = a /\ s.pos = 1
  BY MkFields
<1>6. Step(s, RBrace).mode = "end"
  <2>1. Matches(a, RBrace)
    BY DEF Matches, Last
  <2>2. Closing(s, RBrace)
    BY <1>5 DEF Closing
  <2>3. Step(s, RBrace).mode # "dead"
    BY <1>1, <1>4, <1>5, <2>1, <2>2, LivesStep DEF Lives
  <2>4. Step(s, RBrace) = CloseTo(s, RBrace, s.pos + 1)
    BY <1>1, <1>4, <2>2, <2>3, StepClose
  <2>5. Front(a) = <<>>
    BY DEF Front
  <2> DEFINE p == s.pos + 1
  <2> HIDE DEF s, p
  <2>6. CloseTo(s, RBrace, p) = EndTo(s, <<>>, p, s.from)
    BY <1>5, <2>5 DEF CloseTo
  <2> QED BY <2>4, <2>6, MkFields DEF EndTo, EndMode, p
<1> HIDE DEF a, b, s, u
<1>7. Read(Start, u) = Step(s, RBrace)
  <2>1. Read(Start, a \o b) = Read(Read(Start, a), b)
    BY <1>3, StartIs, ReadConcat
  <2>2. Read(s, b) = Step(s, RBrace)
    BY <1>1, <1>4, ReadUnit DEF b
  <2> QED BY <1>2, <1>4, <2>1, <2>2
<1>8. IsJson(u)
  BY <1>6, <1>7 DEF IsJson
<1>9. OneLine(u) /\ Len(u) = 1 + 1
  BY <1>2, <1>3, OneLineConcat
<1>10. u[1] = LBrace /\ u[Len(u)] = RBrace
  BY <1>2, <1>3, Ends
<1>11. \E Q : Tight(Q, u)
  <2>1. u \in Text /\ Len(u) >= 1
    BY <1>9 DEF OneLine
  <2>2. u[1] \notin White /\ u[Len(u)] \notin White
    BY <1>1, <1>10
  <2> QED BY <1>8, <2>1, <2>2, TightEnds
<1> QED BY <1>9, <1>11 DEF Compact, OneLine, u

(***************************************************************************)
(* What may be written between quotes: a word, and more after it.          *)
(***************************************************************************)
LEMMA InnerWord ==
  ASSUME NEW c, Word(c)
  PROVE  Inner(<<c>>)
<1> DEFINE u == <<c>>
           f == [i \in 0..1 |-> FALSE]
<1>1. c \in STRING /\ c \notin {Quote, Backslash, Newline}
  BY DEF Word
<1>2. u \in Text /\ Len(u) = 1 /\ u[1] = c
  BY <1>1, OneUnit
<1>3. f \in [0..1 -> BOOLEAN] /\ f[0] = FALSE /\ f[1] = FALSE
  OBVIOUS
<1> HIDE DEF u, f
<1>4. ASSUME NEW k \in 1..1 PROVE InnerStep(f, u, k)
  <2>1. k = 1 /\ k - 1 = 0
    OBVIOUS
  <2>2. f[k] = FALSE /\ f[k - 1] = FALSE /\ u[k] = c
    BY <1>2, <1>3, <2>1
  <2> QED BY <1>1, <2>2 DEF InnerStep
<1>5. Inner(u)
  BY <1>2, <1>3, <1>4 DEF Inner
<1> QED BY <1>5 DEF u

(* A word in front of it. *)
LEMMA InnerAfter ==
  ASSUME NEW c, Word(c), NEW x, Inner(x)
  PROVE  Inner(<<c>> \o x)
<1> DEFINE q == <<c>>
           w == q \o x
           n == Len(x)
<1>1. c \in STRING /\ c \notin {Quote, Backslash, Newline}
  BY DEF Word
<1>2. q \in Text /\ Len(q) = 1 /\ q[1] = c
  BY <1>1, OneUnit
<1>3. PICK f \in [0..n -> BOOLEAN] : ~f[0] /\ ~f[n] /\ \A k \in 1..n : InnerStep(f, x, k)
  BY DEF Inner
<1>4. x \in Text /\ n \in Nat
  BY DEF Inner, Text
<1> HIDE DEF q, n
<1>5. w \in Text /\ Len(w) = n + 1 /\ w[1] = c /\ \A k \in 1..n : w[k + 1] = x[k]
  <2>1. /\ w \in Text /\ Len(w) = Len(q) + n
        /\ \A i \in 1..(Len(q) + n) : w[i] = IF i <= Len(q) THEN q[i] ELSE x[i - Len(q)]
    BY <1>2, <1>4, TextConcat DEF n
  <2> HIDE DEF w
  <2>2. \A i \in 1..(1 + n) : w[i] = IF i <= 1 THEN q[i] ELSE x[i - 1]
    BY <1>2, <2>1
  <2>3. \A k \in 1..n : k + 1 \in 1..(1 + n) /\ ~(k + 1 <= 1) /\ (k + 1) - 1 = k
    BY <1>4
  <2>4. 1 \in 1..(1 + n)
    BY <1>4
  <2> QED BY <1>2, <1>4, <2>1, <2>2, <2>3, <2>4
<1> HIDE DEF w
<1> DEFINE E(i) == i # 0 /\ f[i - 1]
           g == [i \in 0..(n + 1) |-> IF E(i) THEN TRUE ELSE FALSE]
<1>6. g \in [0..(n + 1) -> BOOLEAN] /\ (\A i \in 0..(n + 1) : g[i] <=> E(i)) /\ g[0] = FALSE
  <2>1. 0 \in 0..(n + 1) /\ ~E(0)
    BY <1>4
  <2> HIDE DEF E
  <2> QED BY <2>1
<1> HIDE DEF g
<1>7. ~g[n + 1]
  <2>1. n + 1 \in 0..(n + 1) /\ (n + 1) - 1 = n
    BY <1>4
  <2> QED BY <1>3, <1>6, <2>1
<1>8. ASSUME NEW i \in 1..(n + 1) PROVE InnerStep(g, w, i)
  <2>1. i \in 0..(n + 1) /\ i - 1 \in 0..(n + 1) /\ i # 0
    BY <1>4
  <2>2. (g[i] <=> f[i - 1]) /\ (g[i - 1] <=> E(i - 1))
    BY <1>6, <2>1
  <2>3. CASE i = 1
    <3>1. i - 1 = 0
      BY <2>3
    <3>2. ~g[i] /\ ~g[i - 1]
      BY <1>3, <2>2, <3>1
    <3> QED BY <1>1, <1>5, <2>3, <3>2 DEF InnerStep
  <2>4. CASE i # 1
    <3> DEFINE k == i - 1
    <3>1. k \in 1..n /\ k + 1 = i /\ k # 0
      BY <1>4, <2>4
    <3>2. InnerStep(f, x, k) /\ w[i] = x[k]
      BY <1>3, <1>5, <3>1
    <3>3. (g[i] <=> f[k]) /\ (g[k] <=> f[k - 1])
      BY <2>2, <3>1
    <3> HIDE DEF E
    <3> QED BY <3>2, <3>3 DEF InnerStep
  <2> QED BY <2>3, <2>4
<1>9. Len(w) = n + 1
  BY <1>5
<1>10. Inner(w)
  BY <1>5, <1>6, <1>7, <1>8, <1>9 DEF Inner
<1> QED BY <1>10 DEF w, q

(***************************************************************************)
(* No text, or a JSON text without blanks around it: what a reader gets    *)
(* for the value of a member.                                              *)
(***************************************************************************)
Maybe(p) == p = None \/ \E Q : Tight(Q, p)
IsObject(p) == p # None /\ p[1] = LBrace

(* Of no members none is found. *)
LEMMA NoMember ==
  ASSUME NEW b, NEW key
  PROVE  FirstOf(b, <<>>, key) = None
<1> DEFINE ms == <<>>
<1>1. ms \in Seq(Entries) /\ Len(ms) = 0 /\ 1..0 = {}
  OBVIOUS
<1> HIDE DEF ms
<1>2. Named(ms, key) = {}
  BY <1>1 DEF Named
<1>3. FirstOf(b, ms, key) = <<>>
  BY <1>1, <1>2, ByKey
<1> QED BY <1>3 DEF ms, None

(* The first member with a key is one of those. *)
LEMMA FirstIn ==
  ASSUME NEW b, NEW ms \in Seq(Entries), NEW key
  PROVE  \/ FirstOf(b, ms, key) = None /\ Named(ms, key) = {}
         \/ \E i \in Named(ms, key) : FirstOf(b, ms, key) = SubSeq(b, ms[i].from, ms[i].to)
<1> DEFINE I == Named(ms, key)
<1>1. FirstOf(b, ms, key) = IF I = {} THEN <<>> ELSE SubSeq(b, ms[Min(I)].from, ms[Min(I)].to)
  BY ByKey
<1>2. I # {} => Min(I) \in I
  BY NamedIn
<1> HIDE DEF I
<1>3. (FirstOf(b, ms, key) = None /\ I = {}) \/ \E i \in I : FirstOf(b, ms, key) = SubSeq(b, ms[i].from, ms[i].to)
  BY <1>1, <1>2 DEF None
<1> QED BY <1>3 DEF I

(* What is no object has no members. *)
LEMMA NoObject ==
  ASSUME NEW p, Maybe(p), ~IsObject(p), NEW strings, NEW tokens
  PROVE  Members(p, strings, tokens) = Stopped(FALSE)
<1> DEFINE one == 1
           j == SkipWs(p, 1)
<1>1. p \in Text
  <2>1. p = None => p \in Text
    BY DEF None, Text
  <2>2. p # None => p \in Text
    BY TightJson DEF Maybe
  <2> QED BY <2>1, <2>2
<1>2. one \in Nat
  OBVIOUS
<1>3. j = 1 /\ At(p, 1) # LBrace
  <2>1. CASE p = None
    <3>1. Len(p) = 0
      BY <2>1 DEF None
    <3>2. ~(one <= Len(p)) /\ one > Len(p)
      BY <3>1
    <3>3. SkipWs(p, one) = one /\ At(p, one) = "end"
      BY <1>1, <1>2, <3>2, SkipWsScan, AtIs
    <3> QED BY <3>3, EndUnit
  <2>2. CASE p # None
    <3>1. p[one] \notin White /\ p[one] # LBrace
      BY <2>2, TightJson DEF Maybe, IsObject
    <3>2. SkipWs(p, one) = one
      BY <1>1, <1>2, <3>1, SkipWsScan
    <3>3. Len(p) \in Nat /\ Len(p) >= 1
      BY <2>2 DEF Maybe, Tight, Sound, Text
    <3>4. At(p, one) = p[one]
      BY <1>1, <1>2, <3>3, AtIs
    <3> QED BY <3>1, <3>2, <3>4
  <2> QED BY <2>1, <2>2
<1> HIDE DEF j
<1>4. At(p, j) # LBrace
  BY <1>3
<1> QED BY <1>4, MembersIs DEF j

(* A loop that stopped at once. *)
LEMMA StoppedMembers ==
  ASSUME NEW closed
  PROVE  Stopped(closed).members = <<>> /\ Stopped(closed).closed = closed
BY DEF Stopped

(***************************************************************************)
(* The version asked for, if any, is a string.                             *)
(***************************************************************************)
LEMMA VersionIs ==
  ASSUME NEW p, Maybe(p)
  PROVE  LET version == FindProtocolVersion(p) IN
         version = None \/ (version[1] = Quote /\ \E Q : Tight(Q, version))
<1> DEFINE k == "protocolVersion"
           key == <<k>>
           strings == {key}
           none == {}
           r == Members(p, strings, none)
<1>1. FindProtocolVersion(p) = FirstOf(p, r.members, k)
  BY DEF FindProtocolVersion
<1>2. key \in strings
  OBVIOUS
<1> HIDE DEF strings
<1>3. CASE ~IsObject(p)
  <2>1. r = Stopped(FALSE)
    BY <1>3, NoObject
  <2>2. r.members = <<>>
    BY <2>1, StoppedMembers
  <2> HIDE DEF r, k
  <2> QED BY <1>1, <2>2, NoMember
<1>4. CASE IsObject(p)
  <2>1. PICK R : Tight(R, p)
    BY <1>4 DEF IsObject, Maybe
  <2>2. Sound(R, p) /\ Opens(p)
    BY <1>4, <2>1, TightJson DEF Tight, IsObject
  <2> DEFINE z == SkipWs(p, 1)
             g == Loop(p, strings, none)
  <2>3. At(p, z) = LBrace /\ BeforeKey(R, p, z + 1)
    BY <2>2, OpensRun
  <2>4. z + 1 \in Nat
    BY <2>3 DEF BeforeKey
  <2>5. r = g[z + 1]
    BY <2>3, MembersIs
  <2> HIDE DEF z
  <2>6. Partial(R, p, strings, g[z + 1])
    BY <2>2, <2>3, <2>4, PartialRun
  <2> DEFINE ms == r.members
             v == FirstOf(p, ms, k)
  <2> HIDE DEF r, g
  <2>7. ms \in Seq(Entries)
        /\ \A x \in 1..Len(ms) : Spanned(R, p, ms[x]) /\ (ms[x].key \in strings => p[ms[x].from] = Quote)
    <3>1. Partial(R, p, strings, r)
      BY <2>5, <2>6
    <3> QED BY <3>1, ResultIs DEF Partial
  <2> HIDE DEF ms, k
  <2>8. v = None \/ \E i \in Named(ms, k) : v = SubSeq(p, ms[i].from, ms[i].to)
    BY <2>7, FirstIn
  <2>9. ASSUME NEW i \in Named(ms, k), v = SubSeq(p, ms[i].from, ms[i].to)
        PROVE  v[1] = Quote /\ \E Q : Tight(Q, v)
    <3>1. i \in 1..Len(ms) /\ ms[i].key = key
      BY DEF Named
    <3>2. Spanned(R, p, ms[i]) /\ p[ms[i].from] = Quote
      BY <1>2, <2>7, <3>1
    <3> DEFINE m == ms[i]
    <3>a. Spanned(R, p, m) /\ Sound(R, p)
      BY <2>2, <3>2
    <3> HIDE DEF m, v
    <3>3. (\E Q : Tight(Q, SubSeq(p, m.from, m.to))) /\ SubSeq(p, m.from, m.to)[1] = p[m.from]
      BY <3>a, SliceRun
    <3> QED BY <2>9, <3>2, <3>3 DEF m
  <2> QED BY <1>1, <2>8, <2>9 DEF ms
<1> QED BY <1>3, <1>4

(* It is a text. *)
LEMMA MaybeText ==
  ASSUME NEW p, Maybe(p)
  PROVE  p \in Text
<1>1. p = None => p \in Text
  BY DEF None, Text
<1>2. p # None => p \in Text
  BY TightJson DEF Maybe
<1> QED BY <1>1, <1>2

(* A string that was read can be written again. *)
LEMMA StringFacts ==
  ASSUME NEW u, Maybe(u)
  PROVE  /\ IsStr(u) <=> u # None /\ u[1] = Quote
         /\ u # None => (IsString(u) <=> u[1] = Quote)
         /\ IsStr(u) => /\ u \in Text /\ Inner(StringInner(u)) /\ Quoted(StringInner(u)) = u
                        /\ Compact(u)
<1>1. CASE u = None
  <2>1. Len(u) = 0
    BY <1>1 DEF None
  <2> QED BY <1>1, <2>1 DEF IsStr
<1>2. CASE u # None /\ u[1] = Quote
  <2>1. PICK Q : Tight(Q, u)
    BY <1>2 DEF Maybe
  <2>2. Len(u) \in Nat /\ Len(u) >= 2 /\ Last(u) = Quote /\ Inner(StringInner(u)) /\ u \in Text /\ IsJson(u)
    BY <1>2, <2>1, TightString, TightJson
  <2>3. Quoted(StringInner(u)) = u /\ Compact(u)
    BY <1>2, <2>1, <2>2, QuotedInner, StringCompact
  <2> QED BY <1>2, <2>2, <2>3 DEF IsStr, IsString
<1>3. CASE u # None /\ u[1] # Quote
  BY <1>3 DEF IsStr, IsString
<1> QED BY <1>1, <1>2, <1>3

(* If it is an object, it can be scanned. *)
LEMMA ObjectText ==
  ASSUME NEW p, Maybe(p), IsObject(p)
  PROVE  p \in Text /\ IsJson(p) /\ Opens(p)
BY TightJson DEF Maybe, IsObject

(* So is the member of an object. *)
LEMMA MaybeMember ==
  ASSUME NEW p \in Text, IsJson(p), Opens(p), NEW key
  PROVE  Maybe(MemberOf(p, key))
<1> DEFINE v == MemberOf(p, key)
<1>1. v # None => \E Q : Tight(Q, v)
  BY MemberIsJson
<1> HIDE DEF v
<1>2. Maybe(v)
  BY <1>1 DEF Maybe
<1> QED BY <1>2 DEF v

(***************************************************************************)
(* The tool that is called, and its arguments.                             *)
(***************************************************************************)
LEMMA TargetIs ==
  ASSUME NEW p, Maybe(p)
  PROVE  /\ ~IsObject(p) => FindCallTarget(p).name = None /\ FindCallTarget(p).arguments = None
         /\ IsObject(p) => /\ FindCallTarget(p).name = MemberOf(p, "name")
                           /\ FindCallTarget(p).arguments = MemberOf(p, "arguments")
<1> DEFINE r == Members(p, {}, {})
           a == LastOf(p, r.members, "name")
           c == LastOf(p, r.members, "arguments")
<1>1. FindCallTarget(p) = IF r.closed THEN [name |-> a, arguments |-> c] ELSE [name |-> None, arguments |-> None]
  BY DEF FindCallTarget
<1>2. CASE ~IsObject(p)
  <2>1. r = Stopped(FALSE)
    BY <1>2, NoObject
  <2>2. r.closed = FALSE
    BY <2>1, StoppedMembers
  <2> HIDE DEF r, a, c
  <2> QED BY <1>1, <1>2, <2>2
<1>3. CASE IsObject(p)
  <2>1. p \in Text /\ IsJson(p) /\ Opens(p)
    BY <1>3, ObjectText
  <2> DEFINE ms == Read(Start, p).members
  <2>2. r = [members |-> ms, closed |-> TRUE]
    BY <2>1, ObjectsAgree DEF SameMembers
  <2>3. ms \in Seq(Entries) /\ Read(Start, p).members = ms
    BY <2>1, ReadMembers
  <2> HIDE DEF ms, r
  <2>4. r.members = ms /\ r.closed = TRUE
    BY <2>2
  <2>5. \A key : MemberOf(p, key) = LastOf(p, ms, key)
    BY <2>3, ByKey
  <2>6. a = MemberOf(p, "name") /\ c = MemberOf(p, "arguments")
    BY <2>4, <2>5
  <2> HIDE DEF a, c
  <2> QED BY <1>1, <1>3, <2>4, <2>6
<1> QED BY <1>2, <1>3

(***************************************************************************)
(* The argument that echo finds is one of those with its name.             *)
(***************************************************************************)
LEMMA RawIs ==
  ASSUME NEW p, Maybe(p), NEW key
  PROVE  LET raw == FindRawValue(p, key) IN
         /\ Maybe(raw)
         /\ ~IsObject(p) => raw = None
         /\ IsObject(p) => (raw # None /\ raw \in ValuesOf(p, key)) \/ (raw = None /\ ValuesOf(p, key) = {})
<1> DEFINE r == Members(p, {}, {})
           raw == FirstOf(p, r.members, key)
<1>1. FindRawValue(p, key) = raw
  BY DEF FindRawValue
<1>2. CASE ~IsObject(p)
  <2>1. r = Stopped(FALSE)
    BY <1>2, NoObject
  <2>2. r.members = <<>>
    BY <2>1, StoppedMembers
  <2> HIDE DEF r
  <2>3. raw = None
    BY <2>2, NoMember
  <2> QED BY <1>1, <1>2, <2>3 DEF Maybe
<1>3. CASE IsObject(p)
  <2>1. p \in Text /\ IsJson(p) /\ Opens(p)
    BY <1>3, ObjectText
  <2> DEFINE ms == Read(Start, p).members
  <2>2. r = [members |-> ms, closed |-> TRUE]
    BY <2>1, ObjectsAgree DEF SameMembers
  <2>3. ms \in Seq(Entries) /\ Read(Start, p).members = ms
    BY <2>1, ReadMembers
  <2>r. PICK R : Sound(R, p) /\ Read(Start, p) = R[Len(p)]
    BY <2>1, SoundRun
  <2>4. \A i \in 1..Len(ms) : \E Q : Tight(Q, SubSeq(p, ms[i].from, ms[i].to))
    <3> TAKE i \in 1..Len(ms)
    <3>1. ms = R[Len(p)].members
      BY <2>r
    <3> HIDE DEF ms
    <3>2. i \in 1..Len(R[Len(p)].members)
      BY <3>1
    <3>3. \E Q : Tight(Q, SubSeq(p, R[Len(p)].members[i].from, R[Len(p)].members[i].to))
      BY <2>1, <2>r, <3>2, ValueIsJson
    <3> QED BY <3>1, <3>3
  <2> HIDE DEF ms, r
  <2>5. r.members = ms
    BY <2>2
  <2>6. ValuesOf(p, key) = {SubSeq(p, ms[i].from, ms[i].to) : i \in Named(ms, key)}
    BY <2>3, ValuesAre
  <2>7. \/ raw = None /\ Named(ms, key) = {}
        \/ \E i \in Named(ms, key) : raw = SubSeq(p, ms[i].from, ms[i].to)
    BY <2>3, <2>5, FirstIn
  <2> HIDE DEF raw
  <2>8. CASE raw = None /\ Named(ms, key) = {}
    BY <1>1, <1>3, <2>6, <2>8 DEF Maybe
  <2>9. CASE \E i \in Named(ms, key) : raw = SubSeq(p, ms[i].from, ms[i].to)
    <3>1. PICK i \in Named(ms, key) : raw = SubSeq(p, ms[i].from, ms[i].to)
      BY <2>9
    <3>2. raw \in ValuesOf(p, key)
      BY <2>6, <3>1
    <3>3. i \in 1..Len(ms)
      BY DEF Named
    <3>4. Maybe(raw) /\ raw # None
      BY <2>4, <3>1, <3>3, TightJson DEF Maybe, None
    <3> QED BY <1>1, <1>3, <3>2, <3>4
  <2> QED BY <2>7, <2>8, <2>9
<1> QED BY <1>2, <1>3

(***************************************************************************)
(* The id of a legal request can be written in an answer.                  *)
(***************************************************************************)
LEMMA IdCompact ==
  ASSUME Followed, Legal, HasId(Id)
  PROVE  Compact(Id)
<1>1. text \in Text /\ IsJson(text) /\ Opens(text)
  BY LegalObject
<1>2. Id # None
  BY DEF HasId
<1>3. Id \in ValuesOf(text, "id")
  BY <1>1, <1>2, LastIsValue DEF Id
<1>4. IsString(Id) \/ (Len(Id) = 1 /\ Id[1] \in Scalars)
  BY <1>3 DEF Legal
<1>5. PICK Q : Tight(Q, Id)
  BY <1>1, <1>2, MemberIsJson DEF Id
<1> DEFINE u == Id
<1>6. u \in Text /\ Tight(Q, u) /\ (IsString(u) \/ (Len(u) = 1 /\ u[1] \in Scalars))
  BY <1>4, <1>5, TightJson
<1> HIDE DEF u
<1>7. CASE IsString(u)
  <2>1. Compact(u)
    BY <1>6, <1>7, StringCompact DEF IsString
  <2> QED BY <2>1 DEF u
<1>8. CASE Len(u) = 1 /\ u[1] \in Scalars
  <2> DEFINE c == u[1]
  <2>1. u \in Seq(STRING) /\ Len(u) = 1 /\ c \in Scalars /\ c = u[1]
    BY <1>6, <1>8 DEF Text
  <2> HIDE DEF c
  <2>2. u = <<c>>
    BY <2>1
  <2>3. Compact(<<c>>)
    BY <2>1, ScalarCompact
  <2> QED BY <2>2, <2>3 DEF u
<1> QED BY <1>6, <1>7, <1>8

(***************************************************************************)
(* Answers: the id, and the result or the error.                           *)
(***************************************************************************)
Shape(body, id, k, v) == k \in {"result", "error"} /\ Compact(v) /\ body = Two("id", id, k, v)

Body(r) == IF r.kind = "sse" THEN SubSeq(r.body, 4, Len(r.body) - 2) ELSE r.body

(* Such an answer is JSON, in one line, and both members are found. *)
LEMMA ShapeIs ==
  ASSUME NEW id, Compact(id), NEW k, NEW v, NEW body, Shape(body, id, k, v)
  PROVE  /\ Compact(body) /\ IsJson(body) /\ OneLine(body) /\ Len(body) \in Nat /\ Len(body) >= 1
         /\ MemberOf(body, "id") = id /\ MemberOf(body, k) = v
<1> DEFINE d == "id"
           u == Two(d, id, k, v)
<1>1. Word(d) /\ Word(k) /\ d # k /\ Compact(v) /\ body = u
  BY PlainWords DEF Shape
<1> HIDE DEF d
<1>2. Compact(u) /\ MemberOf(u, d) = id /\ MemberOf(u, k) = v
  BY <1>1, TwoIs
<1> HIDE DEF u
<1>3. IsJson(u)
  BY <1>2, TightJson DEF Compact
<1>4. OneLine(u) /\ Len(u) \in Nat /\ Len(u) >= 1
  BY <1>2, PiecesAre, <1>1
<1> QED BY <1>1, <1>2, <1>3, <1>4 DEF d

(* An event carries the answer unchanged. *)
LEMMA FramedIs ==
  ASSUME NEW v, OneLine(v), Len(v) >= 1
  PROVE  /\ Framed(FALSE, v) = v /\ v # None
         /\ Framed(TRUE, v) # None /\ SubSeq(Framed(TRUE, v), 4, Len(Framed(TRUE, v)) - 2) = v
<1> DEFINE x == "event: message"
           y == "data: "
           nl == Newline
           a == <<x, nl, y>>
           b == <<nl, nl>>
           S == STRING
           u == (a \o v) \o b
<1>1. x \in S /\ y \in S /\ nl \in S
  BY WordAssumption, UnitAssumption DEF White
<1>2. Framed(TRUE, v) = u /\ Framed(FALSE, v) = v
  BY DEF Framed
<1> HIDE DEF x, y, nl
<1>3. a \in Seq(S) /\ Len(a) = 3 /\ b \in Seq(S)
  BY <1>1, Triple, Pair2
<1>4. Len(b) = 2
  OBVIOUS
<1>5. v \in Seq(S) /\ Len(v) \in Nat /\ Len(v) >= 1
  BY DEF OneLine, Text
<1> HIDE DEF a, b, S
<1>6. SubSeq(u, Len(a) + 1, Len(a) + Len(v)) = v
  BY <1>3, <1>5, Middle
<1>7. Len(u) = (Len(a) + Len(v)) + Len(b)
  <2> DEFINE w == a \o v
  <2>1. w \in Seq(S) /\ Len(w) = Len(a) + Len(v)
    BY <1>3, <1>5, ConcatProperties
  <2> HIDE DEF w
  <2>b. b \in Seq(S)
    BY <1>3
  <2>2. Len(w \o b) = Len(w) + Len(b)
    BY ONLY <2>b, <2>1, ConcatProperties
  <2> QED BY <2>1, <2>2 DEF w
<1> HIDE DEF u
<1>8. Len(u) - 2 = Len(a) + Len(v) /\ Len(a) + 1 = 4 /\ Len(u) # 0
  BY <1>3, <1>4, <1>5, <1>7
<1>9. u # None /\ v # None
  <2>1. Len(None) = 0
    BY DEF None
  <2> QED BY <1>5, <1>8, <2>1
<1> QED BY <1>2, <1>6, <1>8, <1>9

(* The kinds of answers. *)
LEMMA ErrorAnswer ==
  ASSUME NEW id, Compact(id), NEW code \in {"-32600", "-32601", "-32602"}
  PROVE  Shape(Error(id, code), id, "error", <<code>>)
<1>1. code \in Scalars
  BY DEF Scalars
<1> QED BY <1>1, ErrorTwo, ScalarCompact DEF Shape

(* What BuildText writes for a result. *)
TextValue(x, e) == Two("text", Quoted(x), "isError", <<e>>)

(* A text. *)
LEMMA TextAnswer ==
  ASSUME NEW id, Compact(id), NEW x, Inner(x), NEW e \in {"null", "true"}
  PROVE  /\ Shape(BuildText(id, x, e), id, "result", TextValue(x, e))
         /\ MemberOf(TextValue(x, e), "text") = Quoted(x)
<1> DEFINE k == "text"
           l == "isError"
           v == Quoted(x)
           w == <<e>>
<1>1. Word(k) /\ Word(l) /\ k # l
  BY PlainWords
<1>2. Compact(v) /\ x \in Text
  BY QuotedCompact DEF Inner
<1>3. Compact(w)
  <2>1. e \in Scalars
    BY DEF Scalars
  <2> QED BY <2>1, ScalarCompact
<1>4. BuildText(id, x, e) = Two("id", id, "result", TextValue(x, e))
  BY <1>2, TextIs DEF TextValue
<1>5. TextValue(x, e) = Two(k, v, l, w)
  BY DEF TextValue
<1> HIDE DEF k, l, v, w
<1>6. Compact(Two(k, v, l, w)) /\ MemberOf(Two(k, v, l, w), k) = v
  BY <1>1, <1>2, <1>3, TwoIs
<1>7. Shape(BuildText(id, x, e), id, "result", TextValue(x, e))
  BY <1>4, <1>5, <1>6 DEF Shape
<1> QED BY <1>5, <1>6, <1>7 DEF k, v

(* The version of the protocol. *)
LEMMA InitializeAnswer ==
  ASSUME NEW id, Compact(id), NEW x, Inner(x)
  PROVE  Shape(BuildInitialize(id, x), id, "result", One("protocolVersion", Quoted(x)))
<1> DEFINE k == "protocolVersion"
           v == Quoted(x)
<1>1. Word(k) /\ Compact(v) /\ x \in Text
  BY PlainWords, QuotedCompact DEF Inner
<1>2. BuildInitialize(id, x) = Two("id", id, "result", One(k, v))
  BY <1>1, InitializeIs
<1> HIDE DEF k, v
<1>3. Compact(One(k, v))
  BY <1>1, OneIs
<1>4. Shape(BuildInitialize(id, x), id, "result", One(k, v))
  BY <1>2, <1>3 DEF Shape
<1> QED BY <1>4 DEF k, v

(***************************************************************************)
(* What a call of a tool is answered with.                                 *)
(***************************************************************************)
LEMMA ToolsCallIs ==
  ASSUME NEW id, NEW params, NEW sse
  PROVE  LET n == FindCallTarget(params).name
             raw == FindRawValue(FindCallTarget(params).arguments, "text")
         IN HandleToolsCall(id, params, sse)
              = IF ~IsStr(n) THEN None
                ELSE IF n = Str("answer") THEN Framed(sse, BuildText(id, <<"42">>, "null"))
                ELSE IF n = Str("echo")
                  THEN IF IsStr(raw) THEN Framed(sse, BuildText(id, StringInner(raw), "null")) ELSE None
                ELSE Framed(sse, BuildText(id, <<"unknown tool ">> \o StringInner(n), "true"))
<1> DEFINE n == FindCallTarget(params).name
           raw == FindRawValue(FindCallTarget(params).arguments, "text")
           answer == Framed(sse, BuildText(id, <<"42">>, "null"))
           echo == IF IsStr(raw) THEN Framed(sse, BuildText(id, StringInner(raw), "null")) ELSE None
           other == Framed(sse, BuildText(id, <<"unknown tool ">> \o StringInner(n), "true"))
           sa == Str("answer")
           se == Str("echo")
<1>1. HandleToolsCall(id, params, sse)
        = CASE ~IsStr(n) -> None [] n = sa -> answer [] n = se -> echo [] OTHER -> other
  BY DEF HandleToolsCall
<1>2. sa # se /\ IsStr(sa) /\ IsStr(se)
  <2>1. Str("answer")[2] = "answer" /\ Str("echo")[2] = "echo"
    BY DEF Str
  <2>2. \A c : IsStr(Str(c))
    <3> TAKE c
    <3> DEFINE u == Str(c)
    <3>1. Len(u) = 3 /\ u[1] = Quote /\ u[3] = Quote
      BY DEF Str
    <3> HIDE DEF u
    <3>2. Last(u) = Quote
      BY <3>1 DEF Last
    <3> QED BY <3>1, <3>2 DEF IsStr, u
  <2> QED BY <2>1, <2>2
<1> HIDE DEF n, answer, echo, other, sa, se
<1>3. HandleToolsCall(id, params, sse)
        = IF ~IsStr(n) THEN None ELSE IF n = sa THEN answer ELSE IF n = se THEN echo ELSE other
  BY <1>1, <1>2
<1> QED BY <1>3 DEF n, answer, echo, other, sa, se

(* An answer of that shape, whatever else is in it. *)
Answered(r, id) == \E k, v : Shape(Body(r), id, k, v)

(* An answer that is no event. *)
LEMMA JsonAnswered ==
  ASSUME NEW id, NEW status, NEW body, NEW k, NEW v, Shape(body, id, k, v)
  PROVE  Answered(Json(status, body), id) /\ Json(status, body).kind = "json"
         /\ Body(Json(status, body)) = body
<1>1. Json(status, body).kind = "json" /\ Json(status, body).body = body
  BY DEF Json
<1>2. Body(Json(status, body)) = body
  BY <1>1 DEF Body
<1> QED BY <1>1, <1>2 DEF Answered

(***************************************************************************)
(* The answer to a call: an error, or the text of the tool.                *)
(***************************************************************************)
Called(body, id, sse) ==
  IF body = None THEN Json(200, Error(id, "-32602"))
  ELSE [kind |-> IF sse THEN "sse" ELSE "json", status |-> 200, body |-> body]

(* A text. *)
LEMMA CalledIs ==
  ASSUME NEW id, Compact(id), NEW sse \in BOOLEAN, NEW x, Inner(x), NEW e \in {"null", "true"}
  PROVE  LET r == Called(Framed(sse, BuildText(id, x, e)), id, sse) IN
         Answered(r, id) /\ Body(r) = BuildText(id, x, e)
<1> DEFINE u == BuildText(id, x, e)
           f == Framed(sse, u)
           r == Called(f, id, sse)
<1>1. Shape(u, id, "result", TextValue(x, e))
  BY TextAnswer
<1> HIDE DEF u
<1>2. OneLine(u) /\ Len(u) >= 1
  BY <1>1, ShapeIs
<1>3. f # None
  BY <1>2, FramedIs
<1>4. r.kind = (IF sse THEN "sse" ELSE "json") /\ r.body = f
  <2> HIDE DEF f
  <2> QED BY <1>3 DEF Called
<1> HIDE DEF r
<1>5. Body(r) = u
  <2>1. CASE sse = TRUE
    <3>1. r.kind = "sse" /\ r.body = Framed(TRUE, u)
      BY <1>4, <2>1
    <3> QED BY <1>2, <3>1, FramedIs DEF Body
  <2>2. CASE sse = FALSE
    <3>1. r.kind = "json" /\ r.body = Framed(FALSE, u)
      BY <1>4, <2>2
    <3> QED BY <1>2, <3>1, FramedIs DEF Body
  <2> QED BY <2>1, <2>2
<1>6. Answered(r, id)
  BY <1>1, <1>5 DEF Answered
<1> QED BY <1>5, <1>6 DEF r, u

(* Invalid parameters. *)
LEMMA RefusedIs ==
  ASSUME NEW id, Compact(id), NEW sse
  PROVE  Answered(Called(None, id, sse), id) /\ Body(Called(None, id, sse)) = Error(id, "-32602")
<1>1. Called(None, id, sse) = Json(200, Error(id, "-32602"))
  BY DEF Called
<1>2. Shape(Error(id, "-32602"), id, "error", <<"-32602">>)
  BY ErrorAnswer
<1> QED BY <1>1, <1>2, JsonAnswered

(* Every call has an answer of that shape. *)
LEMMA ToolsCallAnswered ==
  ASSUME NEW id, Compact(id), NEW params, Maybe(params), NEW sse \in BOOLEAN
  PROVE  Answered(Called(HandleToolsCall(id, params, sse), id, sse), id)
<1> DEFINE n == FindCallTarget(params).name
           a == FindCallTarget(params).arguments
           raw == FindRawValue(a, "text")
           h == HandleToolsCall(id, params, sse)
<1>0. SUFFICES Answered(Called(h, id, sse), id)
  OBVIOUS
<1>1. Maybe(n) /\ Maybe(a)
  <2>1. CASE IsObject(params)
    <3>1. params \in Text /\ IsJson(params) /\ Opens(params)
      BY <2>1, ObjectText
    <3>2. n = MemberOf(params, "name") /\ a = MemberOf(params, "arguments")
      BY <2>1, TargetIs
    <3> HIDE DEF n, a
    <3> QED BY <3>1, <3>2, MaybeMember
  <2>2. CASE ~IsObject(params)
    <3>1. n = None /\ a = None
      BY <2>2, TargetIs
    <3> HIDE DEF n, a
    <3> QED BY <3>1 DEF Maybe
  <2> QED BY <2>1, <2>2
<1>2. Maybe(raw)
  <2> HIDE DEF a
  <2> QED BY <1>1, RawIs
<1>3. h = IF ~IsStr(n) THEN None
          ELSE IF n = Str("answer") THEN Framed(sse, BuildText(id, <<"42">>, "null"))
          ELSE IF n = Str("echo")
            THEN IF IsStr(raw) THEN Framed(sse, BuildText(id, StringInner(raw), "null")) ELSE None
          ELSE Framed(sse, BuildText(id, <<"unknown tool ">> \o StringInner(n), "true"))
  BY ToolsCallIs
<1> HIDE DEF n, raw, h
<1>4. CASE h = None
  BY <1>4, RefusedIs
<1>5. ASSUME NEW x, Inner(x), NEW e \in {"null", "true"}, h = Framed(sse, BuildText(id, x, e))
      PROVE  Answered(Called(h, id, sse), id)
  BY <1>5, CalledIs
<1>6. CASE IsStr(n) /\ n = Str("answer")
  <2> DEFINE c == "42"
             x == <<c>>
  <2>1. Inner(x)
    BY PlainWords, InnerWord
  <2>2. h = Framed(sse, BuildText(id, x, "null"))
    BY <1>3, <1>6
  <2> HIDE DEF x
  <2> QED BY <1>5, <2>1, <2>2
<1>7. CASE IsStr(n) /\ n # Str("answer") /\ n = Str("echo")
  <2>1. CASE IsStr(raw)
    <3> DEFINE x == StringInner(raw)
    <3>1. Inner(x) /\ h = Framed(sse, BuildText(id, x, "null"))
      BY <1>2, <1>3, <1>7, <2>1, StringFacts
    <3> HIDE DEF x
    <3> QED BY <1>5, <3>1
  <2>2. CASE ~IsStr(raw)
    BY <1>3, <1>4, <1>7, <2>2
  <2> QED BY <2>1, <2>2
<1>8. CASE IsStr(n) /\ n # Str("answer") /\ n # Str("echo")
  <2> DEFINE c == "unknown tool "
             i == StringInner(n)
             x == <<c>> \o i
  <2>1. h = Framed(sse, BuildText(id, x, "true"))
    BY <1>3, <1>8
  <2>2. Inner(i) /\ Word(c)
    BY <1>1, <1>8, StringFacts, PlainWords
  <2> HIDE DEF c, i
  <2>3. Inner(x)
    BY <2>2, InnerAfter
  <2> HIDE DEF x
  <2> QED BY <1>5, <2>1, <2>3
<1> QED BY <1>3, <1>4, <1>6, <1>7, <1>8

(* What each method is answered with. *)
LEMMA DispatchIs ==
  ASSUME NEW method, NEW id, NEW params, NEW sse
  PROVE  LET version == FindProtocolVersion(params)
             x == IF version = None THEN <<"2025-06-18">> ELSE StringInner(version)
         IN DispatchMethod(method, id, params, sse)
              = IF method = <<"initialize">> THEN Json(200, BuildInitialize(id, x))
                ELSE IF method \in {<<"tools/list">>, <<"ping">>}
                  THEN Json(200, Result(id, <<LBrace, RBrace>>))
                ELSE IF method = <<"tools/call">>
                  THEN Called(HandleToolsCall(id, params, sse), id, sse)
                ELSE Json(200, Error(id, "-32601"))
<1> DEFINE version == FindProtocolVersion(params)
           x == IF version = None THEN <<"2025-06-18">> ELSE StringInner(version)
           first == Json(200, BuildInitialize(id, x))
           e == Json(200, Error(id, "-32601"))
           r == Json(200, Result(id, <<LBrace, RBrace>>))
           c == Called(HandleToolsCall(id, params, sse), id, sse)
<1>1. DispatchMethod(method, id, params, sse)
        = CASE method = <<"initialize">> -> first
            [] method \in {<<"tools/list">>, <<"ping">>} -> r
            [] method = <<"tools/call">> -> c
            [] OTHER -> e
  BY DEF DispatchMethod, Called
<1> HIDE DEF first, e, r, c
<1>2. <<"initialize">> \notin {<<"tools/list">>, <<"ping">>, <<"tools/call">>}
      /\ <<"tools/call">> \notin {<<"tools/list">>, <<"ping">>}
  OBVIOUS
<1>3. DispatchMethod(method, id, params, sse)
        = IF method = <<"initialize">> THEN first
          ELSE IF method \in {<<"tools/list">>, <<"ping">>} THEN r
          ELSE IF method = <<"tools/call">> THEN c ELSE e
  BY <1>1, <1>2
<1> QED BY <1>3 DEF first, e, r, c

(* All of them have an answer of that shape. *)
LEMMA DispatchAnswered ==
  ASSUME NEW method, NEW id, Compact(id), NEW params, Maybe(params), NEW sse \in BOOLEAN
  PROVE  Answered(DispatchMethod(method, id, params, sse), id)
<1> DEFINE version == FindProtocolVersion(params)
           x == IF version = None THEN <<"2025-06-18">> ELSE StringInner(version)
           first == Json(200, BuildInitialize(id, x))
           e == Json(200, Error(id, "-32601"))
           r == Json(200, Result(id, <<LBrace, RBrace>>))
           c == Called(HandleToolsCall(id, params, sse), id, sse)
<1>1. DispatchMethod(method, id, params, sse) \in {first, r, c, e}
  <2>1. DispatchMethod(method, id, params, sse)
          = IF method = <<"initialize">> THEN first
            ELSE IF method \in {<<"tools/list">>, <<"ping">>} THEN r
            ELSE IF method = <<"tools/call">> THEN c ELSE e
    BY DispatchIs
  <2> HIDE DEF first, e, r, c
  <2> QED BY <2>1
<1>2. Answered(c, id)
  BY ToolsCallAnswered
<1>3. Answered(e, id)
  BY ErrorAnswer, JsonAnswered
<1>4. Answered(r, id)
  <2> DEFINE v == <<LBrace, RBrace>>
  <2>1. Compact(v)
    BY EmptyObject
  <2> HIDE DEF v
  <2>2. Shape(Result(id, v), id, "result", v)
    BY <2>1, ResultTwo DEF Shape
  <2>3. Answered(Json(200, Result(id, v)), id)
    BY <2>2, JsonAnswered
  <2> QED BY <2>3 DEF v
<1>5. Answered(first, id)
  <2>1. Inner(x)
    <3> DEFINE k == "2025-06-18"
    <3>1. Inner(<<k>>)
      BY PlainWords, InnerWord
    <3>2. version = None \/ (version[1] = Quote /\ \E Q : Tight(Q, version))
      BY VersionIs
    <3> HIDE DEF version, k
    <3>3. version # None => Inner(StringInner(version))
      <4> SUFFICES ASSUME version # None PROVE Inner(StringInner(version))
        OBVIOUS
      <4>1. Maybe(version) /\ IsStr(version)
        BY <3>2, StringFacts DEF Maybe
      <4> QED BY <4>1, StringFacts
    <3> QED BY <3>1, <3>3 DEF k
  <2> HIDE DEF x
  <2>2. Shape(BuildInitialize(id, x), id, "result", One("protocolVersion", Quoted(x)))
    BY <2>1, InitializeAnswer
  <2> QED BY <2>2, JsonAnswered
<1> HIDE DEF first, e, r, c
<1> QED BY <1>1, <1>2, <1>3, <1>4, <1>5

(* A client accepts events or does not. *)
LEMMA SseBoolean ==
  ASSUME Followed
  PROVE  conf.sse \in BOOLEAN
<1> DEFINE S == [lexicon : DOMAIN Lexicon, strict : BOOLEAN, sse : BOOLEAN]
<1>1. conf \in S
  BY ScenarioAssumption DEF Followed
<1> QED BY <1>1

(***************************************************************************)
(* Every answer that is not empty carries the id of its request.           *)
(***************************************************************************)
LEMMA ReplyAnswered ==
  ASSUME Served, Replied, Legal, reply.kind # "empty"
  PROVE  /\ HasId(Id) /\ Compact(Id) /\ Maybe(Params) /\ conf.sse \in BOOLEAN
         /\ Answered(reply, Id)
         /\ Method # None => reply = DispatchMethod(StringInner(Method), Id, Params, conf.sse)
<1> DEFINE sse == conf.sse
           id == Id
           p == Params
           m == Method
           n == StringInner(m)
           e == Error(id, "-32600")
           d == DispatchMethod(n, id, p, sse)
<1>1. Followed /\ text \in Text /\ IsJson(text) /\ Opens(text)
  BY LegalObject DEF Served
<1>2. Maybe(p)
  BY <1>1, MaybeMember DEF Params
<1>3. sse \in BOOLEAN
  BY <1>1, SseBoolean
<1>4. reply = IF m = None
               THEN IF HasId(id) THEN Json(400, e) ELSE Empty(202)
             ELSE IF IsNotification(n) \/ ~HasId(id) THEN Empty(202) ELSE d
  BY <1>1, LegalAnswer DEF Served
<1>5. Empty(202).kind = "empty"
  BY DEF Empty
<1>6. HasId(id) => Compact(id)
  BY <1>1, IdCompact
<1>7. Compact(id) => Answered(Json(400, e), id)
  <2> SUFFICES ASSUME Compact(id) PROVE Answered(Json(400, e), id)
    OBVIOUS
  <2>1. Shape(e, id, "error", <<"-32600">>)
    BY ErrorAnswer
  <2> HIDE DEF e
  <2> QED BY <2>1, JsonAnswered
<1> HIDE DEF sse, p, n, id
<1>8. Compact(id) => Answered(d, id)
  BY <1>2, <1>3, DispatchAnswered
<1> HIDE DEF e, d, m
<1>9. HasId(id) /\ (m # None => reply = d) /\ (reply = Json(400, e) \/ reply = d)
  BY <1>4, <1>5
<1>10. Compact(id) /\ Answered(reply, id)
  BY <1>6, <1>7, <1>8, <1>9
<1> QED BY <1>2, <1>3, <1>9, <1>10 DEF d, m, n, id, p, sse

(* AnswersAreJson for every lexicon: the answer to a legal request, of any *)
(* length and depth, is one line of JSON with the id of the request.       *)
THEOREM AnswersAreJsonAlways == Spec => []AnswersAreJson
<1>1. Served => AnswersAreJson
  <2> SUFFICES ASSUME Served, Replied, Legal, reply.kind # "empty"
               PROVE  /\ IsJson(Unframed) /\ MemberOf(Unframed, "id") = Id
                      /\ \A i \in DOMAIN Unframed : Unframed[i] # Newline
    BY DEF AnswersAreJson
  <2> DEFINE b == Body(reply)
  <2>1. Unframed = b
    BY DEF Unframed, Body
  <2>2. Compact(Id) /\ Answered(reply, Id)
    BY ReplyAnswered
  <2>3. PICK k, v : Shape(b, Id, k, v)
    BY <2>2 DEF Answered
  <2> HIDE DEF b
  <2>4. IsJson(b) /\ OneLine(b) /\ MemberOf(b, "id") = Id
    BY <2>2, <2>3, ShapeIs
  <2>5. \A i \in DOMAIN b : b[i] # Newline
    BY <2>4 DEF OneLine, Text
  <2> QED BY <2>1, <2>4, <2>5
<1> QED BY <1>1, ServedAlways, PTL

(***************************************************************************)
(* The answer to a call of echo.                                           *)
(***************************************************************************)
LEMMA EchoAnswered ==
  ASSUME Served, Replied, Legal, reply.kind # "empty", Method = Str("tools/call"),
         Params # None, Params[1] = LBrace, MemberOf(Params, "name") = Str("echo")
  PROVE  LET raw == FindRawValue(MemberOf(Params, "arguments"), "text") IN
         /\ Maybe(MemberOf(Params, "arguments"))
         /\ IsStr(raw) => Unframed = BuildText(Id, StringInner(raw), "null")
         /\ ~IsStr(raw) => Unframed = Error(Id, "-32602")
<1> DEFINE sse == conf.sse
           id == Id
           p == Params
           a == MemberOf(p, "arguments")
           raw == FindRawValue(a, "text")
           h == HandleToolsCall(id, p, sse)
           t == "tools/call"
           se == Str("echo")
           sa == Str("answer")
<1>1. /\ Followed /\ Compact(id) /\ Maybe(p) /\ sse \in BOOLEAN /\ IsObject(p)
      /\ Method # None => reply = DispatchMethod(StringInner(Method), id, p, sse)
  BY ReplyAnswered DEF Served, IsObject
<1>2. Method # None /\ StringInner(Method) = <<t>>
  <2> DEFINE u == Method
             c == t
  <2>1. u = <<Quote, c, Quote>>
    BY DEF Str
  <2> HIDE DEF c, u
  <2>2. Len(u) = 3 /\ u[1] = Quote /\ u[2] = c /\ u[3] = Quote
    BY <2>1
  <2>3. u # None
    BY <2>2 DEF None
  <2>4. u \in Text
    BY <1>1, <2>3, MethodFacts DEF u
  <2>5. Last(u) = Quote
    BY <2>2 DEF Last
  <2>6. StringInner(u) \in Text /\ Len(StringInner(u)) = 1 /\ StringInner(u)[1] = c
    <3> DEFINE x == StringInner(u)
               n == Len(u)
    <3>1. n = 3 /\ n >= 2 /\ n - 2 = 1 /\ 1 \in 1..(n - 2) /\ 1 + 1 = 2
      BY <2>2
    <3>2. x \in Text /\ Len(x) = n - 2 /\ \A i \in 1..(n - 2) : x[i] = u[i + 1]
      BY <2>2, <2>4, <2>5, <3>1, InnerIs
    <3> HIDE DEF x, n
    <3>3. x[1] = u[2]
      BY <3>1, <3>2
    <3> QED BY <2>2, <3>1, <3>2, <3>3 DEF x
  <2>7. StringInner(u) = <<c>>
    BY <2>6 DEF Text
  <2> QED BY <2>3, <2>7 DEF u, c
<1>3. reply = Called(h, id, sse)
  <2>1. reply = DispatchMethod(<<t>>, id, p, sse)
    BY <1>1, <1>2
  <2>2. <<t>> \notin {<<"initialize">>, <<"tools/list">>, <<"ping">>} /\ <<t>> = <<"tools/call">>
    OBVIOUS
  <2> HIDE DEF id, p, sse, h, t
  <2>3. DispatchMethod(<<t>>, id, p, sse) = Called(HandleToolsCall(id, p, sse), id, sse)
    BY <2>2, DispatchIs
  <2> QED BY <2>1, <2>3 DEF h
<1>4. FindCallTarget(p).name = se /\ FindCallTarget(p).arguments = a /\ Maybe(a)
  <2>1. MemberOf(p, "name") = se
    OBVIOUS
  <2> HIDE DEF p, se
  <2>2. FindCallTarget(p).name = se /\ FindCallTarget(p).arguments = a
    BY <1>1, <2>1, TargetIs
  <2>3. Maybe(a)
    BY <1>1, ObjectText, MaybeMember
  <2> QED BY <2>2, <2>3
<1>5. sa # se /\ IsStr(se)
  <2>1. se[2] = "echo" /\ sa[2] = "answer" /\ Len(se) = 3 /\ se[1] = Quote /\ se[3] = Quote
    BY DEF Str
  <2> HIDE DEF se, sa
  <2>2. Last(se) = Quote
    BY <2>1 DEF Last
  <2> QED BY <2>1, <2>2 DEF IsStr
<1> DEFINE y == StringInner(raw)
           g == Framed(sse, BuildText(id, y, "null"))
<1>6. h = IF IsStr(raw) THEN g ELSE None
  <2> DEFINE n == FindCallTarget(p).name
             b == FindCallTarget(p).arguments
             f == FindRawValue(b, "text")
             x == Framed(sse, BuildText(id, <<"42">>, "null"))
             z == Framed(sse, BuildText(id, <<"unknown tool ">> \o StringInner(n), "true"))
             w == Framed(sse, BuildText(id, StringInner(f), "null"))
  <2>1. h = IF ~IsStr(n) THEN None ELSE IF n = sa THEN x
            ELSE IF n = se THEN IF IsStr(f) THEN w ELSE None
            ELSE z
    BY ToolsCallIs
  <2>2. n = se /\ f = raw /\ w = g
    BY <1>4
  <2> HIDE DEF n, x, z, w, f, h, g, se, sa, raw
  <2> QED BY <1>5, <2>1, <2>2
<1> HIDE DEF id, sse, raw, h, p, a, se, sa
<1>7. Unframed = Body(reply)
  BY DEF Unframed, Body
<1>8. ASSUME IsStr(raw) PROVE Body(reply) = BuildText(id, y, "null")
  <2>1. Maybe(raw)
    BY <1>4, RawIs DEF raw
  <2>2. Inner(y)
    BY <1>8, <2>1, StringFacts
  <2> HIDE DEF y
  <2>3. Body(Called(g, id, sse)) = BuildText(id, y, "null")
    BY <1>1, <2>2, CalledIs
  <2> HIDE DEF g
  <2> QED BY <1>3, <1>6, <1>8, <2>3
<1>9. ASSUME ~IsStr(raw) PROVE Body(reply) = Error(id, "-32602")
  <2>1. reply = Called(None, id, sse)
    BY <1>3, <1>6, <1>9
  <2> QED BY <1>1, <2>1, RefusedIs
<1> QED BY <1>4, <1>7, <1>8, <1>9 DEF raw, a, p, id

(* EchoIsVerbatim for every lexicon: echo answers a call with the string   *)
(* it got, escapes included, and with an error if it got none.             *)
THEOREM EchoIsVerbatimAlways == Spec => []EchoIsVerbatim
<1>1. Served => EchoIsVerbatim
  <2> DEFINE a == MemberOf(Params, "arguments")
             said == IF a # None /\ a[1] = LBrace THEN ValuesOf(a, "text") ELSE {}
             raw == FindRawValue(a, "text")
             u == Unframed
  <2> SUFFICES ASSUME Served, Replied, Legal, reply.kind # "empty", Method = Str("tools/call"),
                      Params # None, Params[1] = LBrace, MemberOf(Params, "name") = Str("echo")
               PROVE  /\ \A v \in said : said = {v} /\ IsString(v) => MemberOf(MemberOf(u, "result"), "text") = v
                      /\ (\A v \in said : ~IsString(v)) => MemberOf(u, "error") = <<"-32602">>
    BY DEF EchoIsVerbatim
  <2>1. Compact(Id)
    BY ReplyAnswered
  <2>2. /\ Maybe(a)
        /\ IsStr(raw) => u = BuildText(Id, StringInner(raw), "null")
        /\ ~IsStr(raw) => u = Error(Id, "-32602")
    BY EchoAnswered
  <2> HIDE DEF a, u
  <2>3. Maybe(raw) /\ ((raw # None /\ raw \in said) \/ (raw = None /\ said = {}))
    BY <2>2, RawIs DEF IsObject
  <2> HIDE DEF raw, said
  <2>4. IsStr(raw) <=> raw # None /\ IsString(raw)
    BY <2>3, StringFacts
  <2>5. ASSUME NEW v \in said, said = {v}, IsString(v)
        PROVE  MemberOf(MemberOf(u, "result"), "text") = v
    <3> DEFINE y == StringInner(raw)
    <3>1. IsStr(raw) /\ raw = v
      BY <2>3, <2>4, <2>5
    <3>2. Inner(y) /\ Quoted(y) = raw
      BY <2>3, <3>1, StringFacts
    <3>3. u = BuildText(Id, y, "null")
      BY <2>2, <3>1
    <3> HIDE DEF y
    <3>4. Shape(u, Id, "result", TextValue(y, "null")) /\ MemberOf(TextValue(y, "null"), "text") = Quoted(y)
      BY <2>1, <3>2, <3>3, TextAnswer
    <3>5. MemberOf(u, "result") = TextValue(y, "null")
      BY <2>1, <3>4, ShapeIs
    <3> QED BY <3>1, <3>2, <3>4, <3>5
  <2>6. ASSUME \A v \in said : ~IsString(v) PROVE MemberOf(u, "error") = <<"-32602">>
    <3>1. ~IsStr(raw)
      BY <2>3, <2>4, <2>6
    <3>2. Shape(u, Id, "error", <<"-32602">>)
      BY <2>1, <2>2, <3>1, ErrorAnswer
    <3> QED BY <2>1, <3>2, ShapeIs
  <2> QED BY <2>5, <2>6
<1> QED BY <1>1, ServedAlways, PTL
=============================================================================
