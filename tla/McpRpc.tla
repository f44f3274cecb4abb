------------------------------- MODULE McpRpc ------------------------------
(***************************************************************************)
(* The JSON-RPC side of the MCP server: the scanner that finds the few     *)
(* members it needs in the text of a request, without building a tree, and *)
(* the answers it splices together from slices of that text.               *)
(*                                                                         *)
(* A client writes a request piece by piece; JsonGrammar reads along; the  *)
(* server sees the text when it has been sent.  Texts are sequences of the *)
(* units of JsonGrammar; positions count from 1, and 0 is Rust's None; so  *)
(* is an empty slice, for no value is empty.                               *)
(***************************************************************************)
EXTENDS JsonGrammar

CONSTANTS
  Lexicon,   \* per name: the pieces a client writes, and how often each
  Scenarios  \* the clients

(***************************************************************************)
(* lexicon: the pieces of this client; strict: it sends only requests that *)
(* are JSON objects; sse: --mcp-sse was given.                             *)
(***************************************************************************)
ASSUME ScenarioAssumption ==
  /\ \A n \in DOMAIN Lexicon : Lexicon[n] \in Seq([texts : SUBSET Seq(STRING), uses : Nat])
  /\ Scenarios \subseteq [lexicon : DOMAIN Lexicon, strict : BOOLEAN, sse : BOOLEAN]

(***************************************************************************)
(* As UnitAssumption, of the words in answers.                             *)
(***************************************************************************)
ASSUME WordAssumption ==
  {"id", "result", "error", "text", "isError", "protocolVersion", "2025-06-18", "42",
   "unknown tool ", "event: message", "data: "} \subseteq STRING

VARIABLES
  conf,   \* the scenario of this behaviour
  text,   \* the request, as far as it is written
  used,   \* how often each piece has been
  ref,    \* what the grammar makes of it
  reply   \* the server's answer, or NoReply

vars == <<conf, text, used, ref, reply>>

None == <<>>
Replies == [kind : {"empty", "json", "sse"}, status : {200, 202, 400}, body : Seq(STRING)]
NoReply == [kind |-> "none", status |-> 0, body |-> None]

Pieces == Lexicon[conf.lexicon]

TypeOK ==
  /\ conf \in Scenarios
  /\ text \in Seq(STRING)
  /\ \A i \in DOMAIN Pieces : used[i] \in 0..Pieces[i].uses
  /\ ref.pos = Len(text)
  /\ reply \in Replies \cup {NoReply}
-----------------------------------------------------------------------------
(***************************************************************************)
(* The scanner.                                                            *)
(***************************************************************************)
At(b, i) == IF i \in DOMAIN b THEN b[i] ELSE "end"

Delimiters == White \cup {Comma, RBrace, RBracket}

SkipWs(b, i) ==
  LET scan[k \in Nat] == IF k <= Len(b) /\ b[k] \in White THEN scan[k + 1] ELSE k
  IN scan[i]

SkipToken(b, i) ==
  LET scan[k \in Nat] == IF k <= Len(b) /\ b[k] \notin Delimiters THEN scan[k + 1] ELSE k
  IN scan[i]

(***************************************************************************)
(* The position after the string that starts at i.                         *)
(***************************************************************************)
ParseString(b, i) ==
  LET scan[k \in Nat] == IF k > Len(b) THEN 0
                         ELSE IF b[k] = Backslash THEN scan[k + 2]
                         ELSE IF b[k] = Quote THEN k + 1
                         ELSE scan[k + 1]
  IN IF i <= Len(b) /\ b[i] = Quote THEN scan[i + 1] ELSE 0

(* Mutant of SkipBrackets: brackets inside strings are counted.            *)
SkipBracketsBlind(b, from, close) ==
  LET scan[p \in Nat \X Int] ==
        LET k == p[1]
            depth == p[2]
        IN
        IF k > Len(b) THEN 0
        ELSE CASE b[k] \in Open  -> scan[<<k + 1, depth + 1>>]
               [] b[k] \in Close -> IF b[k] = close /\ depth = 1
                                      THEN k + 1 ELSE scan[<<k + 1, depth - 1>>]
               [] OTHER          -> scan[<<k + 1, depth>>]
  IN scan[<<from, 1>>]

(***************************************************************************)
(* The position after a value with brackets, from behind the first on.     *)
(* What is in its strings does not count.  Otherwise any closing bracket   *)
(* ends a level; the value ends with the level of its own kind.  (depth is *)
(* unsigned: below 0 a release build wraps, which this Int does too as far *)
(* as = 0 can tell, and a debug build panics; no JSON text gets there.)    *)
(***************************************************************************)
SkipBrackets(b, from, close) ==
  LET scan[p \in Nat \X Int] ==
        LET k == p[1]
            depth == p[2]
        IN
        IF k > Len(b) THEN 0
        ELSE CASE b[k] = Quote ->
                    LET next == ParseString(b, k) IN
                      IF next = 0 THEN 0 ELSE scan[<<next, depth>>]
               [] b[k] \in Open  -> scan[<<k + 1, depth + 1>>]
               [] b[k] \in Close -> IF b[k] = close /\ depth = 1
                                      THEN k + 1 ELSE scan[<<k + 1, depth - 1>>]
               [] OTHER          -> scan[<<k + 1, depth>>]
  IN scan[<<from, 1>>]

SkipValue(b, pos) ==
  LET Skip(i) == CASE At(b, i) = "end" -> 0
                   [] At(b, i) = Quote -> ParseString(b, i)
                   [] At(b, i) = LBrace -> SkipBrackets(b, i + 1, RBrace)
                   [] At(b, i) = LBracket -> SkipBrackets(b, i + 1, RBracket)
                   [] OTHER            -> SkipToken(b, i)
  IN Skip(SkipWs(b, pos))

(***************************************************************************)
(* The value of some keys must be a string, that of others can be a string *)
(* or any token; the rest is skipped.                                      *)
(***************************************************************************)
ReadValue(b, i, key, strings, tokens) ==
  CASE key \in strings -> ParseString(b, i)
    [] key \in tokens  -> IF At(b, i) = Quote THEN ParseString(b, i)
                          ELSE IF SkipToken(b, i) = i THEN 0
                          ELSE SkipToken(b, i)
    [] OTHER -> SkipValue(b, i)

(***************************************************************************)
(* The loop the four readers of an object share: the members that could be *)
(* read, in order, and whether the object was closed.  A comma may be      *)
(* followed by the closing brace, and nothing is looked at after that.     *)
(***************************************************************************)
Members(b, strings, tokens) ==
  LET Stop(closed) == [members |-> <<>>, closed |-> closed]
      scan[i \in Nat] ==
        LET AtComma(d) == IF At(b, d) = Comma THEN scan[d + 1] ELSE Stop(At(b, d) = RBrace)
            Found(key, v, e) ==
              IF e = 0 THEN Stop(FALSE)
              ELSE [AtComma(SkipWs(b, e)) EXCEPT !.members =
                      <<[key |-> key, from |-> v, to |-> e - 1]>> \o @]
            AtValue(key, v) == Found(key, v, ReadValue(b, v, key, strings, tokens))
            AtColon(key, c) ==
              IF At(b, c) = Colon THEN AtValue(key, SkipWs(b, c + 1)) ELSE Stop(FALSE)
            AfterKey(j, k) ==
              IF k = 0 THEN Stop(FALSE) ELSE AtColon(SubSeq(b, j + 1, k - 2), SkipWs(b, k))
            AtKey(j) == IF At(b, j) = RBrace THEN Stop(TRUE) ELSE AfterKey(j, ParseString(b, j))
        IN AtKey(SkipWs(b, i))
      Object(j) == IF At(b, j) = LBrace THEN scan[j + 1] ELSE Stop(FALSE)
  IN Object(SkipWs(b, 1))

Slice(b, ms, i) == IF i = 0 THEN None ELSE SubSeq(b, ms[i].from, ms[i].to)

FirstOf(b, ms, key) == Slice(b, ms, SelectInSeq(ms, LAMBDA m : m.key = <<key>>))

(* Mutant of LastOf: the first one of several counts.                      *)
FirstNotLast(b, ms, key) == FirstOf(b, ms, key)

LastOf(b, ms, key) == Slice(b, ms, SelectLastInSeq(ms, LAMBDA m : m.key = <<key>>))

(***************************************************************************)
(* The four readers.                                                       *)
(***************************************************************************)
ParseRpc(b) ==
  LET Rpc(m) == [closed |-> m.closed, method |-> LastOf(b, m.members, "method"),
                 id |-> LastOf(b, m.members, "id"), params |-> LastOf(b, m.members, "params")]
  IN Rpc(Members(b, {<<"method">>}, {<<"id">>}))

FindProtocolVersion(params) ==
  FirstOf(params, Members(params, {<<"protocolVersion">>}, {}).members, "protocolVersion")

FindRawValue(obj, wanted) == FirstOf(obj, Members(obj, {}, {}).members, wanted)

FindCallTarget(params) ==
  LET Target(m) == IF m.closed
                     THEN [name |-> LastOf(params, m.members, "name"),
                           arguments |-> LastOf(params, m.members, "arguments")]
                     ELSE [name |-> None, arguments |-> None]
  IN Target(Members(params, {}, {}))
-----------------------------------------------------------------------------
(***************************************************************************)
(* The answers.  Fragments are shortened to one member of each kind.       *)
(***************************************************************************)
Str(c) == <<Quote, c, Quote>>
Prefix == <<LBrace>> \o Str("id") \o <<Colon>>
Member(key, value) == <<Comma>> \o Str(key) \o <<Colon>> \o value \o <<RBrace>>

ErrParse == Prefix \o <<"null">> \o Member("error", <<"-32700">>)
Error(id, code) == Prefix \o id \o Member("error", <<code>>)
Result(id, value) == Prefix \o id \o Member("result", value)

StringInner(raw) ==
  IF Len(raw) >= 2 /\ raw[1] = Quote /\ Last(raw) = Quote THEN Tail(Front(raw)) ELSE None

IsStr(raw) == Len(raw) >= 2 /\ raw[1] = Quote /\ Last(raw) = Quote

BuildInitialize(id, version) ==
  Result(id, <<LBrace>> \o Str("protocolVersion") \o <<Colon, Quote>> \o version \o <<Quote, RBrace>>)

(* Mutant of BuildText: an unescaped copy of the text.                     *)
BuildTextUnescaped(id, inner, isError) ==
  Result(id, <<LBrace>> \o Str("text") \o <<Colon, Quote>>
               \o SelectSeq(inner, LAMBDA c : c # Backslash) \o <<Quote>>
               \o Member("isError", <<isError>>))

BuildText(id, inner, isError) ==
  Result(id, <<LBrace>> \o Str("text") \o <<Colon, Quote>> \o inner \o <<Quote>>
               \o Member("isError", <<isError>>))

Framed(sse, body) ==
  IF sse THEN <<"event: message", Newline, "data: ">> \o body \o <<Newline, Newline>> ELSE body

(***************************************************************************)
(* None for parameters that are missing or not what the tool needs.        *)
(***************************************************************************)
HandleToolsCall(id, params, sse) ==
  LET Text(inner, isError) == Framed(sse, BuildText(id, inner, isError))
      Echo(raw) == IF IsStr(raw) THEN Text(StringInner(raw), "null") ELSE None
      Call(call) ==
        CASE ~IsStr(call.name) -> None
          [] call.name = Str("answer") -> Text(<<"42">>, "null")
          [] call.name = Str("echo") -> Echo(FindRawValue(call.arguments, "text"))
          [] OTHER -> Text(<<"unknown tool ">> \o StringInner(call.name), "true")
  IN Call(FindCallTarget(params))

HasId(id) == id \notin {None, <<"null">>}

IsNotification(method) == Len(method) > 1 /\ method[1] = "notifications/"

Empty(status) == [kind |-> "empty", status |-> status, body |-> None]
Json(status, body) == [kind |-> "json", status |-> status, body |-> body]

DispatchMethod(method, id, params, sse) ==
  LET Initialized(version) ==
        Json(200, BuildInitialize(id, IF version = None THEN <<"2025-06-18">>
                                                        ELSE StringInner(version)))
      Called(body) ==
        IF body = None THEN Json(200, Error(id, "-32602"))
        ELSE [kind |-> IF sse THEN "sse" ELSE "json", status |-> 200, body |-> body]
  IN CASE method = <<"initialize">> -> Initialized(FindProtocolVersion(params))
       [] method \in {<<"tools/list">>, <<"ping">>} -> Json(200, Result(id, <<LBrace, RBrace>>))
       [] method = <<"tools/call">> -> Called(HandleToolsCall(id, params, sse))
       [] OTHER -> Json(200, Error(id, "-32601"))

(* Mutant of Answer: the id is not looked at.                         *)
AnswerAlways(rpc, sse) ==
  LET method == StringInner(rpc.method)
  IN IF ~rpc.closed THEN Json(400, ErrParse)
     ELSE IF rpc.method = None
       THEN IF HasId(rpc.id) THEN Json(400, Error(rpc.id, "-32600")) ELSE Empty(202)
     ELSE IF IsNotification(method) THEN Empty(202)
     ELSE DispatchMethod(method, rpc.id, rpc.params, sse)

Answer(rpc, sse) ==
  LET method == StringInner(rpc.method)
  IN IF ~rpc.closed THEN Json(400, ErrParse)
     ELSE IF rpc.method = None
       THEN IF HasId(rpc.id) THEN Json(400, Error(rpc.id, "-32600")) ELSE Empty(202)
     ELSE IF IsNotification(method) \/ ~HasId(rpc.id) THEN Empty(202)
     ELSE DispatchMethod(method, rpc.id, rpc.params, sse)

DispatchRpc(b, sse) == Answer(ParseRpc(b), sse)
-----------------------------------------------------------------------------
Init ==
  /\ conf \in Scenarios
  /\ text = <<>>
  /\ used = [i \in DOMAIN Pieces |-> 0]
  /\ ref = Start
  /\ reply = NoReply

(***************************************************************************)
(* The client writes another piece; a strict one only what can still       *)
(* become an object, with the commas it needs.                             *)
(***************************************************************************)
Write(i) ==
  /\ reply = NoReply
  /\ used[i] < Pieces[i].uses
  /\ \E next \in Pieces[i].texts :
       LET needed == conf.strict /\ ref.mode = "after" /\ next[1] \notin Close \cup White
           piece == IF needed THEN <<Comma>> \o next ELSE next
       IN text' = text \o piece /\ ref' = Read(ref, piece)
  /\ used' = [used EXCEPT ![i] = @ + 1]
  /\ conf.strict => ref'.mode # "dead" /\ (ref'.stack # <<>> \/ ref'.members # <<>>)
  /\ UNCHANGED <<conf, reply>>

Dispatch ==
  /\ reply = NoReply
  /\ conf.strict => ref.mode = "end"
  /\ reply' = DispatchRpc(text, conf.sse)
  /\ UNCHANGED <<conf, text, used, ref>>

Next == (\E i \in DOMAIN Pieces : Write(i)) \/ Dispatch

Spec == Init /\ [][Next]_vars
-----------------------------------------------------------------------------
(***************************************************************************)
(* Properties.                                                             *)
(***************************************************************************)

(***************************************************************************)
(* A request that JSON-RPC allows, as the grammar reads it: an object with *)
(* a string for a method, if any, and a string, number or null for an id;  *)
(* if there are several, for each of them.                                 *)
(***************************************************************************)
Replied == reply # NoReply
Method == MemberOf(text, "method")
Id == MemberOf(text, "id")
Params == MemberOf(text, "params")

Legal ==
  /\ ref.mode = "end" /\ ref.stack = <<>>
  /\ \E i \in DOMAIN text : text[i] = LBrace /\ \A j \in 1..(i - 1) : text[j] \in White
  /\ \A raw \in ValuesOf(text, "method") : IsString(raw)
  /\ \A raw \in ValuesOf(text, "id") : IsString(raw) \/ (Len(raw) = 1 /\ raw[1] \in Scalars)

(***************************************************************************)
(* The scanner finds the members of a request, and of the objects in its   *)
(* params, where the grammar does: whatever is in their strings, however   *)
(* they are nested, wherever the blanks are.                               *)
(***************************************************************************)
SameMembers(obj) ==
  Members(obj, {}, {}) = [members |-> Read(Start, obj).members, closed |-> TRUE]

ScannerAgrees ==
  Replied /\ Legal =>
    /\ SameMembers(text)
    /\ Params # None /\ Params[1] = LBrace =>
         /\ SameMembers(Params)
         /\ LET arguments == MemberOf(Params, "arguments") IN
              arguments # None /\ arguments[1] = LBrace => SameMembers(arguments)

(***************************************************************************)
(* A legal request is answered with a JSON text that carries its own id,   *)
(* though answers are put together from raw slices; and an event's data is *)
(* one line.                                                               *)
(***************************************************************************)
Unframed == IF reply.kind = "sse" THEN SubSeq(reply.body, 4, Len(reply.body) - 2)
                                  ELSE reply.body

AnswersAreJson ==
  Replied /\ Legal /\ reply.kind # "empty" =>
    /\ IsJson(Unframed)
    /\ MemberOf(Unframed, "id") = Id
    /\ \A i \in DOMAIN Unframed : Unframed[i] # Newline

(***************************************************************************)
(* A legal request with an id is answered, unless its method starts with   *)
(* notifications/ and goes on; one without an id is not.                   *)
(***************************************************************************)
NotificationsAreSilent ==
  Replied /\ Legal =>
    (reply.kind = "empty"
       <=> Id \in {None, <<"null">>} \/ (Len(Method) > 3 /\ Method[2] = "notifications/"))

(***************************************************************************)
(* echo returns its text argument verbatim, escapes and all; if there are  *)
(* several with different values nothing is said of which.                 *)
(***************************************************************************)
EchoIsVerbatim ==
  Replied /\ Legal /\ reply.kind # "empty" /\ Method = Str("tools/call")
    /\ Params # None /\ Params[1] = LBrace /\ MemberOf(Params, "name") = Str("echo") =>
    LET arguments == MemberOf(Params, "arguments")
        said == IF arguments # None /\ arguments[1] = LBrace
                  THEN ValuesOf(arguments, "text") ELSE {}
    IN /\ \A raw \in said : said = {raw} /\ IsString(raw) =>
            MemberOf(MemberOf(Unframed, "result"), "text") = raw
       /\ (\A raw \in said : ~IsString(raw)) => MemberOf(Unframed, "error") = <<"-32602">>

(***************************************************************************)
(* The module's documentation: malformed JSON -> 400 with -32700.          *)
(***************************************************************************)
MalformedRefused ==
  Replied /\ ref.mode # "end" => reply.status = 400 /\ reply.body = ErrParse
=============================================================================
