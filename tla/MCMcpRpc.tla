------------------------------ MODULE MCMcpRpc -----------------------------
(***************************************************************************)
(* Clients that call tools with every kind of member in every order; that  *)
(* put brackets, quotes and keys where they mean nothing; that leave out   *)
(* or repeat members; and one that does not keep to the grammar.           *)
(***************************************************************************)
EXTENDS McpRpc

P(ts, n) == [texts |-> ts, uses |-> n]
Field(k, vs) == {Str(k) \o <<":">> \o v : v \in vs}
Begin(k) == {Str(k) \o <<":", "{">>}
Text(s) == <<Quote>> \o s \o <<Quote>>

Tricky == Text(<<Backslash, Quote, "}", ",", Backslash, Backslash>>)

MCLexicon == [
  call |-> <<
    P({<<"{">> \o f : f \in Field("method", {Str("tools/call")})}, 1), P({<<"}">>}, 3),
    P(Field("id", {Tricky}), 1),
    P(Begin("params"), 1), P(Field("name", {Str("echo"), Tricky}), 1),
    P(Begin("arguments"), 1), P(Field("text", {Tricky, <<"1">>}), 1)>>,
  name |-> <<
    P({<<"{">>}, 1), P({<<"}">>}, 2),
    P(Field("method", {Str("tools/call")}), 1), P(Field("id", {<<"1">>}), 1),
    P(Begin("params"), 1), P(Field("name", {Str("answer"), Tricky, <<"null">>}), 2)>>,
  nested |-> <<
    P({<<"{">>}, 2), P({<<"}">>}, 2), P({<<"[">>}, 1), P({<<"]">>}, 1),
    P({Str("]")}, 1), P({Str("x") \o <<":">>, Str("params") \o <<":">>}, 1),
    P(Field("id", {<<"1">>, Str("2")}), 2), P(Field("method", {Str("ping")}), 1)>>,
  methods |-> <<
    P({<<"{">>}, 1), P({<<"}">>}, 2),
    P(Field("method", {<<Quote, "notifications/", "x", Quote>>, Str("initialize"),
                       Str("other")}), 1),
    P(Field("id", {<<"null">>, Str("1")}), 1),
    P(Begin("params"), 1), P(Field("protocolVersion", {Tricky, Str("2024")}), 2)>>,
  blanks |-> <<
    P({<<"{">>}, 1), P({<<"}">>}, 1),
    P({<<" ">>, <<"\n">>}, 2), P({Str("method")}, 1), P({<<":">>}, 2),
    P({Str("tools/list")}, 1), P({Str("id")}, 1), P({<<"1">>}, 1)>>,
  free |-> <<
    P({<<"{">>}, 1), P({<<"}">>}, 1), P({<<",">>}, 1), P(Field("id", {<<"1">>}), 1),
    P(Field("method", {Str("ping")}), 1), P({<<Quote>>}, 1)>>]

Legals ==
  [lexicon : {"call"}, strict : {TRUE}, sse : {TRUE}]
    \cup [lexicon : {"name", "nested", "methods", "blanks"}, strict : {TRUE}, sse : {FALSE}]

Malformed == [lexicon : {"free"}, strict : {FALSE}, sse : {FALSE}]
=============================================================================
