------------------------------ MODULE WireSize -----------------------------
(***************************************************************************)
(* The size of messages: of a request and a response as http.rs computes   *)
(* it, before the response is sent, and of what hyper then writes over     *)
(* HTTP/1, with the headers it adds by itself and the body in chunks or    *)
(* not.  Operators only: HyperService counts with them.                    *)
(*                                                                         *)
(* A request's head is [method, uri, headers], a response's                *)
(*   version     length of the version that the service gives it           *)
(*   reason      length of the reason phrase, 0 for a status without one   *)
(*   headers     name and value lengths of the headers set by the service  *)
(*               besides date, content-length and transfer-encoding        *)
(*   given       which of these three it sets                              *)
(*   length      the length of its body                                    *)
(*   empty       its status has no body: 204 or 304                        *)
(*   asHead      it answers a HEAD request                                 *)
(*   http10      its client speaks HTTP/1.0                                *)
(*   connection  the Connection header that hyper adds: none, close or     *)
(*               keep-alive                                                *)
(***************************************************************************)
EXTENDS Integers, Sequences, Sums

Sizes(s) == SumOver(s, DOMAIN s)

(***************************************************************************)
(* http.rs.  A header line is its name, its value, ": " and CRLF.          *)
(***************************************************************************)
Header == [name : Nat, value : Nat]
Line(name, value) == name + value + 4

HeadersSize(headers) ==
  Sizes([i \in DOMAIN headers |-> Line(headers[i].name, headers[i].value)])

RequestHeadSize(q, version) ==
  q.method + 1 + (IF q.uri = 0 THEN 1 ELSE q.uri) + 1 + version + 2
    + HeadersSize(q.headers) + 2

VersionLen(http2) == IF http2 THEN 6 ELSE 8

(***************************************************************************)
(* The number of binary digits of n, by leading_zeros, and of decimal      *)
(* digits, by log10 (in f64: exact for sizes below 10^15), of the sizes    *)
(* below SizeLimit.                                                        *)
(***************************************************************************)
SizeLimit == 1000000000
BitsUsed(n) == Min({k \in 0..30 : n < 2^k})
LenDigits(n) == IF n = 0 THEN 1 ELSE 1 + Max({k \in 0..8 : 10^k <= n})

(* Mutant of ChunkedBodyWireSize: the division rounds down.                *)
ChunkedRoundedDown(n) == IF n = 0 THEN 5 ELSE (BitsUsed(n) \div 4) + n + 9

ChunkedBodyWireSize(n) == IF n = 0 THEN 5 ELSE ((BitsUsed(n) + 3) \div 4) + n + 9

(***************************************************************************)
(* The true number of digits of n in a base, as a number is written.       *)
(***************************************************************************)
Digits(base, n) ==
  LET digits[k \in Nat] == IF k < base THEN 1 ELSE 1 + digits[k \div base] IN digits[n]

HeaderLine(h, length) ==
  CASE h = "date"              -> Line(4, 29)
    [] h = "content-length"    -> Line(14, Digits(10, length))
    [] h = "transfer-encoding" -> Line(17, 7)

HeaderLines(hs, length) == SumOver([h \in hs |-> HeaderLine(h, length)], hs)

ResponseHeadersSize(p) ==
  HeadersSize(p.headers) + HeaderLines(p.given, p.length)

ResponseHeadSize(p, bodyLen) ==
  p.version + 1 + 3 + 1 + p.reason + 2
    + ResponseHeadersSize(p)
    + (IF "date" \in p.given THEN 0 ELSE 4 + 2 + 29 + 2)
    + (IF ~p.empty /\ p.given \cap {"content-length", "transfer-encoding"} = {}
         THEN 14 + 2 + LenDigits(bodyLen) + 2 ELSE 0)
    + 2
-----------------------------------------------------------------------------
(***************************************************************************)
(* hyper over HTTP/1.  It dates every response and adds the length of a    *)
(* body of known size, but not to a status without a body; nor a zero to   *)
(* the answer to HEAD.                                                     *)
(***************************************************************************)
Added(p) ==
  ({"date"} \cup IF p.empty \/ "transfer-encoding" \in p.given \/ (p.asHead /\ p.length = 0)
                   THEN {} ELSE {"content-length"}) \ p.given

(***************************************************************************)
(* It says whether it keeps the connection, where its client expects the   *)
(* other; sends HTTP/1.0 no chunks and so no Transfer-Encoding; and writes *)
(* "<none>" for a reason phrase it does not know.                          *)
(***************************************************************************)
ConnectionLine(p) ==
  CASE p.connection = "none"       -> 0
    [] p.connection = "close"      -> Line(10, 5)
    [] p.connection = "keep-alive" -> Line(10, 10)

Passed(p) == IF p.http10 THEN p.given \ {"transfer-encoding"} ELSE p.given

HeadWritten(p) ==
  (8 + 1 + 3 + 1 + (IF p.reason = 0 THEN 6 ELSE p.reason) + 2)
    + HeadersSize(p.headers) + HeaderLines(Passed(p), p.length)
    + HeaderLines(Added(p), p.length) + ConnectionLine(p) + 2

(***************************************************************************)
(* A piece of n bytes as a chunk, and what closes a chunked body.          *)
(***************************************************************************)
ChunkWritten(n) == Digits(16, n) + 2 + n + 2
LastChunk == 1 + 2 + 2
=============================================================================
