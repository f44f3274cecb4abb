----------------------------- MODULE MCStartup -----------------------------
(***************************************************************************)
(* Fewer threads than ports, more, none, and every thread on every port;   *)
(* with and without a port that cannot be bound, a ring the kernel         *)
(* refuses, TLS, and from too few descriptors to start to as many as it    *)
(* takes, for a runtime of each kind; and every command line with up to    *)
(* six ports and thirteen threads as far as its options, which are         *)
(* refused.                                                                *)
(***************************************************************************)
EXTENDS Startup

CONSTANTS c1, c2

Plain(p) == [tls |-> FALSE, offers |-> {p}]
Secure(offers) == [tls |-> TRUE, offers |-> offers]
Http11 == {Plain("http/1.1")}
AnyClient == {Plain("http/1.1"), Plain("h2"), Secure({}), Secure({"h2"}),
              Secure({"http/1.1"}), Secure({"h2", "http/1.1"})}

CommandLine(ports, threads, all, rt, broken) ==
  [ports |-> ports, threads |-> threads, bindAll |-> all, runtime |-> rt,
   broken |-> broken, meter |-> rt = "smol", asks |-> {}, faults |-> {}, entries |-> 8,
   portZero |-> FALSE, limit |-> 12, clients |-> Http11]

Shapes == {<<3, 2, FALSE>>, <<2, 3, FALSE>>, <<2, 2, TRUE>>}

(* Ports and threads: what fails to bind.                                  *)
Binding ==
  {CommandLine(s[1], s[2], s[3], rt, {}) : s \in Shapes, rt \in {"tokio", "glommio"}}
  \cup
  {CommandLine(s[1], s[2], s[3], rt, {s[1] - 1}) :
     s \in Shapes, rt \in {"smol", "compio", "glommio"}}

(* The options: every one that is refused, in some combination.            *)
Combinations ==
  {[CommandLine(1, 1, FALSE, rt, {}) EXCEPT !.asks = a, !.clients = {k}] :
     rt \in Runtimes, k \in AnyClient,
     a \in {{}, {"http2"}, {"cert"}, {"sse"}, {"mcp"}, {"cert", "key"},
            {"cert", "key", "http2"}, {"cert", "key", "http2", "mcp", "sse"}}}
  \cup
  {[CommandLine(1, 1, FALSE, "tokio", {}) EXCEPT !.asks = {"cert", "key", "mcp"},
                                                 !.faults = {f}] : f \in Faults}

(* Two threads on a port each, or on both of two: as many descriptors as   *)
(* they and two clients take, or fewer; a port chosen by the kernel; a     *)
(* request to smol with --body-delay.                                      *)
Tight ==
  {[CommandLine(2, 2, FALSE, rt, {}) EXCEPT !.limit = n] : rt \in Runtimes, n \in 2..6}
  \cup
  {[CommandLine(2, 2, TRUE, rt, {}) EXCEPT !.limit = n] :
     rt \in {"tokio", "smol", "glommio", "monoio"}, n \in 6..8}
  \cup
  {[CommandLine(1, 1, FALSE, rt, {}) EXCEPT !.asks = {"bodyDelay"}] :
     rt \in {"tokio", "smol"}}
  \cup
  {[CommandLine(1, 1, FALSE, rt, {}) EXCEPT !.portZero = TRUE, !.meter = m] :
     rt \in {"tokio", "tokio_uring"}, m \in BOOLEAN}

(* Ring sizes on both sides of what the kernel and the width allow.        *)
Rings ==
  {[CommandLine(1, 1, FALSE, rt, {}) EXCEPT !.entries = n] :
     rt \in UringRuntimes, n \in {0, 1, 5, 16, 17, 32, 33, 63}}

(* How the ports are shared out, without starting any thread.              *)
Shares ==
  {[CommandLine(p, t, all, "tokio", {}) EXCEPT !.faults = {"status"}, !.clients = {}] :
     p \in 1..6, t \in 0..13, all \in BOOLEAN}

CommandLines == Binding \cup Combinations \cup Tight \cup Rings \cup Shares

HalfBound ==
  {CommandLine(2, 2, TRUE, "glommio", {1}), CommandLine(3, 2, FALSE, "glommio", {1})}

HttpsWithHttp2 ==
  {[CommandLine(1, 1, FALSE, "tokio", {}) EXCEPT !.asks = {"cert", "key", "http2"},
                                                 !.clients = AnyClient]}

EveryRing == {CommandLine(1, 1, FALSE, rt, {}) : rt \in UringRuntimes}
=============================================================================
