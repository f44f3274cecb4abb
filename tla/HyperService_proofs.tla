------------------------- MODULE HyperService_proofs -----------------------
(***************************************************************************)
(* Proofs about HyperService, for every set of scenarios: any number of    *)
(* requests on a connection, any number of notifications, any sizes.       *)
(*                                                                         *)
(* The first invariant says of each request how far its counters, what the *)
(* client was sent and what is left of its body have come at each place of *)
(* its service; and over HTTP/1 that a request whose service was called    *)
(* has only finished ones before it.                                       *)
(*                                                                         *)
(* Then what HyperService records is compared with what is on the wire,    *)
(* for sizes below SizeLimit.  First the sizes by themselves, as WireSize  *)
(* states them: a number has as many digits as http.rs finds by its bits   *)
(* and its logarithm, a body in more chunks is longer, and the head that   *)
(* hyper writes is as long as the head recorded, but for the Connection    *)
(* line, a missing reason and what HTTP/1.0, HEAD or an empty status do    *)
(* not get.  Then a second invariant, on top of the first: at each place   *)
(* of a service, how many bytes of its response the client was sent and    *)
(* what its counters hold.                                                 *)
(*                                                                         *)
(* Last, why a request is answered, up to fairness: none that has arrived  *)
(* is held up, every step of one leaves it less to do, and a step is there *)
(* to be taken exactly where CanGoOn says so.                              *)
(***************************************************************************)
EXTENDS HyperService, Sums_proofs, NaturalsInduction, WellFoundedInduction, TLAPS

Safe == Init /\ [][Next]_vars

USE DEF Ended, Arrivals, Kinds

Waiting == {"idle", "collect", "delay"}
Answering == {"head", "stream", "parked", "done"}

(***************************************************************************)
(* The form of the state.  (What the sizes recorded and sent come to is    *)
(* left to the second invariant.)                                          *)
(***************************************************************************)
IsSent(s) ==
  s \in [head : BOOLEAN, frames : Seq(Nat), bytes : {s.bytes}]

IsTally(t) ==
  t \in [requests : {0, 1}, responses : {0, 1}, in : {t.in}, out : {t.out}]

Shape ==
  /\ conf \in Scenarios
  /\ request \in [Requests -> Arrivals]
  /\ pc \in [Requests -> Waiting \cup Answering \cup Ended]
  /\ body \in [Requests -> [held : BOOLEAN, idx : Nat, notes : Nat, last : BOOLEAN]]
  /\ elapsed \in [Requests -> BOOLEAN]
  /\ sent = [r \in Requests |-> sent[r]]
  /\ tally = [r \in Requests |-> tally[r]]
  /\ \A r \in Requests : IsSent(sent[r]) /\ IsTally(tally[r])

(***************************************************************************)
(* How many frames a response has before HTTP withholds any.               *)
(***************************************************************************)
Total(r) ==
  IF conf.runtime # "mcp" THEN IF conf.reply.size = 0 THEN 0 ELSE 1
  ELSE IF conf.kind[r] = "misdirected" THEN 0
  ELSE IF request[r] = "broken" THEN 1
  ELSE CASE conf.kind[r] = "accepted" -> 0
         [] conf.kind[r] = "unary"    -> 1
         [] conf.kind[r] = "stream"   -> Len(conf.notifications) + 1

Counts(r) ==
  /\ tally[r].responses <= tally[r].requests
  /\ ~conf.meter => tally[r].requests = 0
  /\ pc[r] \in {"idle", "collect", "refused"} => tally[r].requests = 0
  /\ pc[r] = "delay" => tally[r].responses = 0
  /\ conf.meter /\ pc[r] = "delay" => tally[r].requests = 1
  /\ conf.meter /\ (pc[r] \in Answering \/ sent[r].head) => tally[r].responses = 1

Sends(r) ==
  /\ sent[r].frames = [i \in 1..Len(sent[r].frames) |-> i]
  /\ pc[r] \in {"stream", "parked", "done"} => sent[r].head
  /\ pc[r] \in {"head", "refused"} \cup Waiting => ~sent[r].head
  /\ ~sent[r].head \/ Bodiless(r) => Len(sent[r].frames) = 0

Bodies(r) ==
  /\ pc[r] \in Answering =>
       /\ Len(sent[r].frames) + FramesLeft(body[r]) = Total(r)
       /\ body[r].idx <= body[r].notes
       /\ body[r].last => Len(sent[r].frames) = body[r].idx
       /\ ~body[r].last => body[r].idx = body[r].notes
  /\ pc[r] \in {"stream", "parked"} => ~Bodiless(r)
  /\ pc[r] = "done" => Bodiless(r) \/ FramesLeft(body[r]) = 0

Waits(r) ==
  conf.bodyDelay =>
    /\ pc[r] \in {"head", "stream", "parked"} /\ ~elapsed[r] => body[r].held
    /\ sent[r].frames # <<>> => elapsed[r]
    /\ pc[r] = "done" => elapsed[r] \/ (conf.reply.size = 0 /\ ~conf.http2)

(***************************************************************************)
(* The MCP server answers its endpoint with the whole request in hand.     *)
(***************************************************************************)
InHand(r) ==
  conf.runtime = "mcp" /\ conf.kind[r] # "misdirected" /\ pc[r] \in Answering
    => request[r] \in {"bare", "whole", "broken"}

Places(r) ==
  /\ pc[r] = "delay" => conf.runtime # "mcp"
  /\ pc[r] = "collect" => ~LeavesBody(r)

Local(r) == Counts(r) /\ Sends(r) /\ Bodies(r) /\ Waits(r) /\ InHand(r) /\ Places(r)

Order ==
  ~conf.http2 =>
    \A r \in Requests : pc[r] \in {"collect", "delay"} \cup Answering =>
      \A q \in 1..(r - 1) : pc[q] = "done"

IInv == Shape /\ (\A r \in Requests : Local(r)) /\ Order /\ ServerKeeps
-----------------------------------------------------------------------------
(***************************************************************************)
(* What the assumption on the scenarios says of the one at hand.           *)
(***************************************************************************)
LEMMA ConfFacts ==
  ASSUME conf \in Scenarios
  PROVE  /\ conf.runtime \in {"tokio", "smol", "mcp"}
         /\ conf.http2 \in BOOLEAN /\ conf.meter \in BOOLEAN /\ conf.verbose \in BOOLEAN
         /\ conf.delay \in BOOLEAN /\ conf.bodyDelay \in BOOLEAN /\ conf.builds \in BOOLEAN
         /\ conf.kind \in Seq(Kinds)
         /\ Requests = 1..Len(conf.kind) /\ Len(conf.kind) \in Nat
         /\ conf.reply.size \in Nat
         /\ Len(conf.notifications) \in Nat
         /\ conf.bodyDelay => conf.runtime # "mcp"
         /\ conf.reply.framing \in BOOLEAN
         /\ conf.reply.framing => ~conf.http2 /\ conf.runtime # "mcp"
         /\ \A r \in Requests : /\ conf.kind[r] \in Kinds
                                /\ conf.runtime # "mcp" <=> conf.kind[r] \in {"static", "staticHead"}
                                /\ Bodiless(r) => ~conf.http2 /\ ~conf.bodyDelay
                                                   /\ conf.runtime # "mcp"
<1>1. /\ conf.runtime \in {"tokio", "smol", "mcp"}
      /\ conf.http2 \in BOOLEAN /\ conf.meter \in BOOLEAN /\ conf.verbose \in BOOLEAN
      /\ conf.delay \in BOOLEAN /\ conf.bodyDelay \in BOOLEAN /\ conf.builds \in BOOLEAN
      /\ conf.reply.size \in Nat
      /\ conf.kind \in Seq(Kinds)
      /\ conf.notifications \in Seq(Nat \ {0})
      /\ conf.bodyDelay => conf.runtime # "mcp"
      /\ conf.reply.framing \in BOOLEAN
      /\ conf.reply.framing => ~conf.http2 /\ conf.runtime # "mcp"
  BY ScenarioAssumption
<1>2. Requests = 1..Len(conf.kind) /\ Len(conf.kind) \in Nat
  BY <1>1 DEF Requests
<1>3. Len(conf.notifications) \in Nat
  BY <1>1
<1>4. ASSUME NEW r \in Requests
      PROVE  /\ conf.kind[r] \in Kinds
             /\ conf.runtime # "mcp" <=> conf.kind[r] \in {"static", "staticHead"}
             /\ Bodiless(r) => ~conf.http2 /\ ~conf.bodyDelay /\ conf.runtime # "mcp"
  <2>1. conf.kind[r] \in Kinds
    BY <1>1, <1>2
  <2>2. conf.runtime # "mcp" <=> conf.kind[r] \in {"static", "staticHead"}
    BY ScenarioAssumption DEF Requests
  <2>3. conf.http2 \/ conf.bodyDelay => ~conf.reply.empty /\ conf.kind[r] # "staticHead"
    BY ScenarioAssumption DEF Requests
  <2> QED BY <2>1, <2>2, <2>3 DEF Bodiless
<1> QED BY <1>1, <1>2, <1>3, <1>4

LEMMA InitInv == Init => IInv
<1> SUFFICES ASSUME Init PROVE IInv
  OBVIOUS
<1>1. conf \in Scenarios
  BY DEF Init
<1>2. Shape
  <2>1. ASSUME NEW r \in Requests PROVE IsSent(sent[r]) /\ IsTally(tally[r])
    BY DEF Init, IsSent, IsTally
  <2>2. body \in [Requests -> [held : BOOLEAN, idx : Nat, notes : Nat, last : BOOLEAN]]
    BY DEF Init, FullBody, Body
  <2> QED BY <1>1, <2>1, <2>2 DEF Init, Shape, Waiting
<1>3. ASSUME NEW r \in Requests PROVE Local(r)
  <2>1. pc[r] = "idle" /\ sent[r].frames = <<>> /\ ~sent[r].head
        /\ tally[r].requests = 0 /\ tally[r].responses = 0
    BY DEF Init
  <2>2. Sends(r)
    BY <2>1 DEF Sends, Answering
  <2> QED BY <2>1, <2>2 DEF Local, Counts, Bodies, Waits, InHand, Places, Answering
<1>4. Order /\ ServerKeeps
  BY DEF Init, Order, ServerKeeps, Answering
<1> QED BY <1>2, <1>3, <1>4 DEF IInv
-----------------------------------------------------------------------------
(***************************************************************************)
(* Counting.                                                               *)
(***************************************************************************)
LEMMA CountInFacts ==
  ASSUME NEW t, IsTally(t), t.requests = 0, NEW n
  PROVE  /\ IsTally(CountIn(t, n))
         /\ CountIn(t, n).requests = 1 /\ CountIn(t, n).responses = t.responses
         /\ CountIn(t, n).in = t.in + n /\ CountIn(t, n).out = t.out
<1> DEFINE m == t.in + n
           u == [t EXCEPT !.requests = 1, !.in = m]
<1>1. CountIn(t, n) = u
  BY DEF CountIn
<1> HIDE DEF m
<1>2. u \in [requests : {0, 1}, responses : {0, 1}, in : {m}, out : {t.out}]
  BY DEF IsTally
<1>3. u.in = m /\ u.out = t.out /\ u.requests = 1 /\ u.responses = t.responses
  BY DEF IsTally
<1> HIDE DEF u
<1> QED BY <1>1, <1>2, <1>3 DEF IsTally, m

LEMMA CountOutFacts ==
  ASSUME NEW t, IsTally(t), t.responses = 0, NEW n
  PROVE  /\ IsTally(CountOut(t, n))
         /\ CountOut(t, n).responses = 1 /\ CountOut(t, n).requests = t.requests
         /\ CountOut(t, n).in = t.in /\ CountOut(t, n).out = t.out + n
<1> DEFINE m == t.out + n
           u == [t EXCEPT !.responses = 1, !.out = m]
<1>1. CountOut(t, n) = u
  BY DEF CountOut
<1> HIDE DEF m
<1>2. u \in [requests : {0, 1}, responses : {0, 1}, in : {t.in}, out : {m}]
  BY DEF IsTally
<1>3. u.in = t.in /\ u.out = m /\ u.requests = t.requests /\ u.responses = 1
  BY DEF IsTally
<1> HIDE DEF u
<1> QED BY <1>1, <1>2, <1>3 DEF IsTally, m

LEMMA RecordFacts ==
  ASSUME Shape, NEW r \in Requests, NEW t, conf.meter => IsTally(t), Record(r, t), conf' = conf
  PROVE  /\ tally' = [q \in Requests |-> tally'[q]]
         /\ \A q \in Requests : IsTally(tally[q])'
         /\ \A q \in Requests : q # r => tally'[q] = tally[q]
         /\ tally'[r] = IF conf.meter THEN t ELSE tally[r]
<1>1. CASE conf.meter
  <2>1. tally' = [tally EXCEPT ![r] = t]
    BY <1>1 DEF Record
  <2> QED BY <1>1, <2>1 DEF Shape
<1>2. CASE ~conf.meter
  BY <1>2 DEF Record, Shape
<1> QED BY <1>1, <1>2

(***************************************************************************)
(* A request to which nothing happens, but that more of it arrives before  *)
(* its service looks or that it is given up, stays as it should be.        *)
(***************************************************************************)
Quiet(r) ==
  /\ conf' = conf
  /\ body'[r] = body[r] /\ sent'[r] = sent[r] /\ tally'[r] = tally[r]
  /\ elapsed'[r] = elapsed[r]
  /\ \/ pc'[r] = pc[r]
     \/ pc'[r] \in {"dropped", "failed"}
     \/ pc'[r] = "refused" /\ pc[r] = "idle"
  /\ \/ request'[r] = request[r]
     \/ request[r] \notin {"bare", "whole", "broken"}
     \/ conf.runtime # "mcp"
     \/ conf.kind[r] = "misdirected"

LEMMA QuietLocal ==
  ASSUME Shape, NEW r \in Requests, Local(r), Quiet(r)
  PROVE  Local(r)'
<1> USE DEF Quiet
<1>1. Counts(r)'
  BY DEF Local, Counts, Answering
<1>2. Sends(r)'
  BY DEF Local, Sends, Bodiless, Waiting
<1>3. pc'[r] \in Answering => pc'[r] = pc[r] /\ Total(r)' = Total(r)
  <2>1. pc'[r] \in Answering => pc'[r] = pc[r]
    BY DEF Answering
  <2>2. CASE conf.runtime = "mcp" /\ conf.kind[r] # "misdirected"
    <3> SUFFICES ASSUME pc'[r] \in Answering PROVE Total(r)' = Total(r)
      BY <2>1
    <3>1. conf' = conf /\ request'[r] = request[r]
      BY <2>1, <2>2 DEF Local, InHand
    <3> QED BY ONLY <3>1 DEF Total
  <2>3. CASE conf.runtime # "mcp" \/ conf.kind[r] = "misdirected"
    BY <2>1, <2>3 DEF Total
  <2> QED BY <2>1, <2>2, <2>3
<1>4. Bodies(r)'
  BY <1>3 DEF Local, Bodies, Bodiless, FramesLeft, Answering
<1>5. Waits(r)'
  BY DEF Local, Waits
<1>6. InHand(r)' /\ Places(r)'
  BY DEF Local, InHand, Places, LeavesBody, Collects, Answering
<1> QED BY <1>1, <1>2, <1>4, <1>5, <1>6 DEF Local

(***************************************************************************)
(* A service or a response goes on to its next place.                      *)
(***************************************************************************)
LEMMA GoesOn ==
  ASSUME Shape, Order, ServerKeeps, conf' = conf,
         NEW r \in Requests,
         NEW x \in {"collect", "delay", "dropped"} \cup Answering,
         Goto(r, x), pc[r] \notin Ended,
         ~conf.http2 /\ x # "dropped" => \A q \in 1..(r - 1) : pc[q] = "done",
         \A q \in Requests : request[q] = "cut" => request'[q] = "cut"
  PROVE  Order' /\ ServerKeeps'
<1>0. Requests = 1..Len(conf.kind) /\ Len(conf.kind) \in Nat /\ Requests' = Requests
  BY ConfFacts DEF Shape, Requests
<1>1. pc' = [pc EXCEPT ![r] = x] /\ DOMAIN pc = Requests
  BY DEF Goto, Shape
<1>2. Order'
  <2> SUFFICES ASSUME ~conf.http2, NEW s \in Requests,
                      pc'[s] \in {"collect", "delay"} \cup Answering, NEW q \in 1..(s - 1)
               PROVE  pc'[q] = "done"
    BY <1>0 DEF Order
  <2>1. q \in Requests
    BY <1>0
  <2>2. CASE s = r
    BY <1>0, <1>1, <2>1, <2>2 DEF Answering
  <2>3. CASE s # r
    BY <1>0, <1>1, <2>1, <2>3 DEF Order
  <2> QED BY <2>2, <2>3
<1>3. ServerKeeps'
  <2> SUFFICES ASSUME NEW s \in Requests, pc'[s] = "refused"
               PROVE  /\ ~conf.http2
                      /\ \E q \in 1..(s - 1) :
                           \/ pc'[q] = "failed"
                           \/ /\ request'[q] = "cut"
                              /\ conf.kind[q] = "misdirected"
                                   \/ (conf.runtime # "mcp" /\ ~conf.meter /\ ~conf.verbose)
    BY <1>0 DEF ServerKeeps
  <2>1. s # r /\ pc[s] = "refused"
    BY <1>1 DEF Answering
  <2>2. ~conf.http2
    BY <2>1 DEF ServerKeeps
  <2>3. PICK q \in 1..(s - 1) :
          \/ pc[q] = "failed"
          \/ /\ request[q] = "cut"
             /\ conf.kind[q] = "misdirected"
                  \/ (conf.runtime # "mcp" /\ ~conf.meter /\ ~conf.verbose)
    BY <2>1 DEF ServerKeeps
  <2>4. q \in Requests /\ (pc[q] = "failed" => pc'[q] = "failed")
    BY <1>0, <1>1
  <2> QED BY <2>2, <2>3, <2>4
<1> QED BY <1>2, <1>3

LEMMA Assemble ==
  ASSUME IInv, conf' = conf, NEW r \in Requests, Shape', Local(r)',
         \A s \in Requests : s # r => Quiet(s), Order', ServerKeeps'
  PROVE  IInv'
<1>1. Requests' = Requests
  BY DEF Requests
<1>2. ASSUME NEW s \in Requests PROVE Local(s)'
  BY <1>2, QuietLocal DEF IInv
<1> QED BY <1>1, <1>2 DEF IInv

(***************************************************************************)
(* Only the place of the service of r, its body and its counters change.   *)
(***************************************************************************)
LEMMA ServiceShape ==
  ASSUME Shape, NEW r \in Requests, NEW t, conf.meter => IsTally(t),
         Record(r, t), UNCHANGED <<conf, request, elapsed, sent>>,
         pc' \in [Requests -> Waiting \cup Answering \cup Ended],
         body' \in [Requests -> [held : BOOLEAN, idx : Nat, notes : Nat, last : BOOLEAN]]
  PROVE  Shape'
<1>1. Requests' = Requests
  BY DEF Requests
<1>2. /\ tally' = [q \in Requests |-> tally'[q]]
      /\ \A q \in Requests : IsTally(tally[q])'
  BY RecordFacts
<1> QED BY <1>1, <1>2 DEF Shape, IsSent, IsTally

(***************************************************************************)
(* What a service that is about to respond has counted.                    *)
(***************************************************************************)
Ready(r, t) ==
  /\ conf.runtime # "mcp"
  /\ conf.meter => IsTally(t) /\ t.requests = 1 /\ t.responses = 0
  /\ pc[r] \in Waiting
  /\ ~conf.http2 => \A q \in 1..(r - 1) : pc[q] = "done"
  /\ UNCHANGED <<conf, request, elapsed, sent>>

LEMMA FailInv ==
  ASSUME IInv, NEW r \in Requests, NEW t, Ready(r, t),
         Record(r, t), Fail(r), UNCHANGED body
  PROVE  IInv'
<1> USE DEF Ready
<1>1. Requests = 1..Len(conf.kind) /\ Len(conf.kind) \in Nat /\ Requests' = Requests
  BY ConfFacts DEF IInv, Shape, Requests
<1>2. pc' = [q \in Requests |->
               IF q = r THEN "failed"
               ELSE IF conf.http2 \/ pc[q] \in Ended THEN pc[q] ELSE "refused"]
  BY DEF Fail
<1>3. pc' \in [Requests -> Waiting \cup Answering \cup Ended]
  BY <1>2 DEF IInv, Shape
<1>4. Shape'
  BY <1>3, ServiceShape DEF IInv, Shape
<1>5. /\ \A q \in Requests : q # r => tally'[q] = tally[q]
      /\ tally'[r] = IF conf.meter THEN t ELSE tally[r]
  BY RecordFacts DEF IInv
<1>6. Local(r)'
  <2>1. Counts(r) /\ Sends(r) /\ Bodies(r) /\ Waits(r) /\ pc'[r] = "failed"
    BY <1>2 DEF IInv, Local
  <2>2. Counts(r)'
    BY <1>5, <2>1 DEF Counts, Answering, Sends
  <2>3. Sends(r)'
    BY <2>1 DEF Sends, Bodiless, Waiting
  <2>4. Bodies(r)' /\ Waits(r)' /\ InHand(r)' /\ Places(r)'
    BY <2>1 DEF Bodies, Waits, InHand, Places, Answering
  <2> QED BY <2>2, <2>3, <2>4 DEF Local
<1>7. ASSUME NEW s \in Requests, s # r PROVE Quiet(s)
  <2>1. ~conf.http2 /\ pc[s] \notin Ended => pc[s] = "idle"
    <3> SUFFICES ASSUME ~conf.http2, pc[s] \notin Ended, pc[s] # "idle" PROVE FALSE
      OBVIOUS
    <3>1. pc[s] \in {"collect", "delay"} \cup Answering
      BY DEF IInv, Shape, Waiting
    <3>2. CASE s < r
      BY <1>1, <3>2
    <3>3. CASE s > r
      <4>1. pc[r] = "done"
        BY <1>1, <3>1, <3>3 DEF IInv, Order
      <4> QED BY <4>1 DEF Waiting
    <3> QED BY <1>1, <1>7, <3>2, <3>3
  <2> QED BY <1>2, <1>5, <1>7, <2>1 DEF Quiet
<1>8. Order'
  <2> SUFFICES ASSUME ~conf.http2, NEW s \in Requests,
                      pc'[s] \in {"collect", "delay"} \cup Answering, NEW q \in 1..(s - 1)
               PROVE  pc'[q] = "done"
    BY <1>1 DEF Order
  <2>1. s # r /\ pc[s] = "done"
    BY <1>2 DEF Answering
  <2>2. q \in Requests /\ pc[q] = "done"
    BY <1>1, <2>1 DEF IInv, Order, Answering
  <2> QED BY <1>2, <2>2 DEF Waiting
<1>9. ServerKeeps'
  <2> SUFFICES ASSUME NEW s \in Requests, pc'[s] = "refused"
               PROVE  /\ ~conf.http2
                      /\ \E q \in 1..(s - 1) :
                           \/ pc'[q] = "failed"
                           \/ /\ request'[q] = "cut"
                              /\ conf.kind[q] = "misdirected"
                                   \/ (conf.runtime # "mcp" /\ ~conf.meter /\ ~conf.verbose)
    BY <1>1 DEF ServerKeeps
  <2>1. s # r
    BY <1>2
  <2>2. CASE pc[s] = "refused"
    <3>1. PICK q \in 1..(s - 1) :
            \/ pc[q] = "failed"
            \/ /\ request[q] = "cut"
               /\ conf.kind[q] = "misdirected"
                    \/ (conf.runtime # "mcp" /\ ~conf.meter /\ ~conf.verbose)
      BY <2>2 DEF IInv, ServerKeeps
    <3>2. q \in Requests /\ (pc[q] = "failed" => pc'[q] = "failed")
      BY <1>1, <1>2
    <3>3. ~conf.http2
      BY <2>2 DEF IInv, ServerKeeps
    <3> QED BY <3>1, <3>2, <3>3
  <2>3. CASE pc[s] # "refused"
    <3>1. ~conf.http2 /\ pc[s] \notin Ended
      BY <1>2, <2>1, <2>3
    <3>2. r \in 1..(s - 1)
      BY <1>1, <2>1, <3>1
    <3> QED BY <1>2, <3>1, <3>2
  <2> QED BY <2>2, <2>3
<1> QED BY <1>4, <1>6, <1>7, <1>8, <1>9, Assemble

(***************************************************************************)
(* A body is built: r answers with b.                                      *)
(***************************************************************************)
LEMMA AnswerInv ==
  ASSUME IInv, NEW r \in Requests, NEW t, NEW b,
         conf.meter => IsTally(t) /\ t.requests = 1 /\ t.responses = 1,
         Record(r, t), Answer(r, b), pc[r] \in Waiting,
         ~conf.http2 => \A q \in 1..(r - 1) : pc[q] = "done",
         UNCHANGED <<conf, request, elapsed, sent>>,
         b \in [held : BOOLEAN, idx : {0}, notes : Nat, last : BOOLEAN],
         FramesLeft(b) = Total(r), b.last \/ b.notes = 0,
         conf.bodyDelay => b.held, InHand(r)'
  PROVE  IInv'
<1>1. Requests' = Requests
  BY DEF Requests
<1>2. /\ pc' = [pc EXCEPT ![r] = "head"] /\ Goto(r, "head")
      /\ body' = [body EXCEPT ![r] = b]
  BY DEF Answer, Goto
<1>3. /\ pc' \in [Requests -> Waiting \cup Answering \cup Ended]
      /\ body' \in [Requests -> [held : BOOLEAN, idx : Nat, notes : Nat, last : BOOLEAN]]
  BY <1>2 DEF IInv, Shape, Answering
<1>4. Shape'
  BY <1>3, ServiceShape DEF IInv
<1>5. /\ \A q \in Requests : q # r => tally'[q] = tally[q]
      /\ tally'[r] = IF conf.meter THEN t ELSE tally[r]
  BY RecordFacts DEF IInv
<1>6. Local(r)'
  <2>1. Counts(r) /\ Sends(r) /\ Bodies(r) /\ Waits(r) /\ pc'[r] = "head" /\ body'[r] = b
    BY <1>2 DEF IInv, Local, Shape
  <2>2. Counts(r)'
    BY <1>5, <2>1 DEF Counts, Answering, Sends
  <2>3. Sends(r)' /\ Len(sent[r].frames) = 0
    BY <2>1 DEF Sends, Bodiless, Waiting
  <2>4. /\ Total(r)' = Total(r)
        /\ FramesLeft(body[r])' = FramesLeft(b) /\ FramesLeft(b) \in Nat
    BY <2>1 DEF Total, FramesLeft
  <2>5. Bodies(r)'
    BY <2>1, <2>3, <2>4 DEF Bodies, Answering
  <2>6. Waits(r)'
    BY <2>1, <2>3 DEF Waits, Sends
  <2>7. Places(r)'
    BY <2>1 DEF Places
  <2> QED BY <2>2, <2>3, <2>5, <2>6, <2>7 DEF Local
<1>7. ASSUME NEW s \in Requests, s # r PROVE Quiet(s)
  BY <1>2, <1>5, <1>7 DEF Quiet, IInv, Shape
<1>8. Order' /\ ServerKeeps'
  BY <1>2, GoesOn DEF IInv, Answering, Waiting
<1> QED BY <1>4, <1>6, <1>7, <1>8, Assemble
-----------------------------------------------------------------------------
(***************************************************************************)
(* Steps of RequestService.                                                *)
(***************************************************************************)
Promised == Service!Next \/ UNCHANGED Service!vars

Counted(r) == tally[r].requests + tally[r].responses

LEMMA PromisedStutter ==
  ASSUME conf' = conf,
         \A q \in Requests :
           Stage(q)' = Stage(q) /\ Counted(q)' = Counted(q) /\ Parts(q)' = Parts(q)
             /\ sent'[q].frames = sent[q].frames
  PROVE  Promised
<1>1. Requests' = Requests
  BY DEF Requests
<1>2. [q \in Requests |-> Stage(q)]' = [q \in Requests |-> Stage(q)]
  BY <1>1
<1>3. [q \in Requests |-> tally[q].requests + tally[q].responses]'
        = [q \in Requests |-> tally[q].requests + tally[q].responses]
  BY <1>1 DEF Counted
<1>4. [q \in Requests |-> Parts(q)]' = [q \in Requests |-> Parts(q)]
  BY <1>1
<1>5. [q \in Requests |-> sent[q].frames]' = [q \in Requests |-> sent[q].frames]
  BY <1>1
<1> QED BY <1>1, <1>2, <1>3, <1>4, <1>5 DEF Promised, Service!vars

LEMMA PromisedGiveUp ==
  ASSUME Shape, conf' = conf, sent' = sent, body' = body,
         \A q \in Requests :
           /\ \/ pc'[q] = pc[q]
              \/ pc'[q] \in {"failed", "dropped", "refused"} /\ pc[q] # "done"
           /\ \/ Counted(q)' = Counted(q)
              \/ /\ conf.meter /\ pc[q] \in Waiting
                 /\ pc'[q] \in {"failed", "dropped", "refused"}
                 /\ Counted(q) = 0 /\ Counted(q)' = 1
  PROVE  Promised
<1>1. Requests' = Requests
  BY DEF Requests
<1> DEFINE st == [q \in Requests |-> Stage(q)]
           co == [q \in Requests |-> tally[q].requests + tally[q].responses]
<1>2. st' = [q \in Requests |-> st'[q]] /\ co' = [q \in Requests |-> co'[q]]
  BY <1>1
<1>3. ASSUME NEW q \in Requests
      PROVE  /\ st'[q] = st[q] \/ (st'[q] = "lost" /\ st[q] # "over")
             /\ \/ co'[q] = co[q]
                \/ /\ conf.meter /\ st[q] = "waiting" /\ st'[q] = "lost"
                   /\ co[q] = 0 /\ co'[q] = 1
  <2>1. st[q] = Stage(q) /\ st'[q] = Stage(q)' /\ co[q] = Counted(q) /\ co'[q] = Counted(q)'
    BY <1>1 DEF Counted
  <2>2. Stage(q)' = Stage(q) \/ (Stage(q)' = "lost" /\ Stage(q) # "over")
    BY DEF Stage, Shape, Waiting, Answering
  <2>3. \/ Counted(q)' = Counted(q)
        \/ /\ conf.meter /\ Stage(q) = "waiting" /\ Stage(q)' = "lost"
           /\ Counted(q) = 0 /\ Counted(q)' = 1
    BY DEF Stage, Waiting
  <2> QED BY <2>1, <2>2, <2>3
<1>4. [q \in Requests |-> Parts(q)]' = [q \in Requests |-> Parts(q)]
  BY <1>1 DEF Parts, Bodiless
<1>5. [q \in Requests |-> sent[q].frames]' = [q \in Requests |-> sent[q].frames]
  BY <1>1
<1>6. Service!GiveUp
  BY <1>2, <1>3, <1>4, <1>5 DEF Service!GiveUp
<1> QED BY <1>1, <1>6 DEF Promised, Service!Next

(***************************************************************************)
(* r moves on, and its counters, parts and deliveries as they may.         *)
(***************************************************************************)
LEMMA StageMoves ==
  ASSUME Shape, conf' = conf, NEW r \in Requests, NEW x, pc' = [pc EXCEPT ![r] = x]
  PROVE  [q \in Requests |-> Stage(q)]'
           = [[q \in Requests |-> Stage(q)] EXCEPT ![r] = Stage(r)']
<1>1. Requests' = Requests
  BY DEF Requests
<1>2. ASSUME NEW q \in Requests, q # r PROVE Stage(q)' = Stage(q)
  <2>1. pc'[q] = pc[q]
    BY <1>2 DEF Shape
  <2> QED BY <2>1 DEF Stage
<1> QED BY <1>1, <1>2

LEMMA PromisedAnswer ==
  ASSUME IInv, NEW r \in Requests, NEW t, NEW b,
         conf.meter => IsTally(t) /\ t.requests = 1 /\ t.responses = 1,
         Record(r, t), Answer(r, b), pc[r] \in Waiting,
         UNCHANGED <<conf, request, elapsed, sent>>, FramesLeft(b) \in Nat
  PROVE  Promised
<1>1. Requests' = Requests
  BY DEF Requests
<1>2. /\ pc' = [pc EXCEPT ![r] = "head"]
      /\ body' = [body EXCEPT ![r] = b]
      /\ DOMAIN pc = Requests /\ DOMAIN body = Requests
  BY DEF Answer, Goto, IInv, Shape
<1>3. /\ \A q \in Requests : q # r => tally'[q] = tally[q]
      /\ tally'[r] = IF conf.meter THEN t ELSE tally[r]
  BY RecordFacts DEF IInv
<1> DEFINE st == [q \in Requests |-> Stage(q)]
           co == [q \in Requests |-> tally[q].requests + tally[q].responses]
           pa == [q \in Requests |-> Parts(q)]
<1>4. st[r] = "waiting" /\ st' = [st EXCEPT ![r] = "answered"]
  <2>1. Stage(r) = "waiting" /\ Stage(r)' = "answered"
    BY <1>2 DEF Stage, Waiting
  <2> QED BY <1>2, <2>1, StageMoves DEF IInv
<1>5. co' = [co EXCEPT ![r] = IF conf.meter THEN 2 ELSE 0]
  <2>1. tally'[r].requests + tally'[r].responses = IF conf.meter THEN 2 ELSE 0
    <3>1. CASE conf.meter
      BY <1>3, <3>1
    <3>2. CASE ~conf.meter
      BY <1>3, <3>2 DEF IInv, Local, Counts, Shape, IsTally
    <3> QED BY <3>1, <3>2
  <2> QED BY <1>1, <1>3, <2>1
<1>6. pa'[r] \in Nat /\ pa' = [pa EXCEPT ![r] = pa'[r]]
  <2>1. ASSUME NEW q \in Requests, q # r PROVE Parts(q)' = Parts(q)
    <3>1. body'[q] = body[q] /\ sent' = sent
      BY <1>2, <2>1
    <3> QED BY <3>1 DEF Parts, Bodiless
  <2>2. Parts(r)' \in Nat
    <3>1. body'[r] = b /\ Len(sent'[r].frames) \in Nat
      BY <1>2 DEF IInv, Shape, IsSent
    <3>2. FramesLeft(body[r])' = FramesLeft(b)
      BY <3>1 DEF FramesLeft
    <3> QED BY <3>1, <3>2 DEF Parts
  <2> QED BY <1>1, <2>1, <2>2
<1>7. [q \in Requests |-> sent[q].frames]' = [q \in Requests |-> sent[q].frames]
  BY <1>1
<1>8. Service!Answer(r)
  BY <1>4, <1>5, <1>6, <1>7 DEF Service!Answer, Service!Move
<1> QED BY <1>1, <1>8 DEF Promised, Service!Next
-----------------------------------------------------------------------------
(***************************************************************************)
(* The static service.                                                     *)
(***************************************************************************)
LEMMA FailPromised ==
  ASSUME IInv, NEW r \in Requests, NEW t, Ready(r, t), Counted(r) \in {0, 1},
         conf.meter /\ tally[r] # t => Counted(r) = 0,
         Record(r, t), Fail(r), UNCHANGED body
  PROVE  Promised
<1> USE DEF Ready
<1>1. Requests' = Requests
  BY DEF Requests
<1>2. /\ \A q \in Requests : q # r => tally'[q] = tally[q]
      /\ tally'[r] = IF conf.meter THEN t ELSE tally[r]
  BY RecordFacts DEF IInv
<1>3. ASSUME NEW q \in Requests
      PROVE  /\ \/ pc'[q] = pc[q]
                \/ pc'[q] \in {"failed", "dropped", "refused"} /\ pc[q] # "done"
             /\ \/ Counted(q)' = Counted(q)
                \/ /\ conf.meter /\ pc[q] \in Waiting
                   /\ pc'[q] \in {"failed", "dropped", "refused"}
                   /\ Counted(q) = 0 /\ Counted(q)' = 1
  <2>1. CASE q = r
    <3>1. pc'[r] = "failed" /\ pc[r] # "done"
      BY DEF Fail, Waiting
    <3>2. \/ Counted(r)' = Counted(r)
          \/ conf.meter /\ Counted(r) = 0 /\ Counted(r)' = 1
      BY <1>2 DEF Counted
    <3> QED BY <2>1, <3>1, <3>2
  <2>2. CASE q # r
    BY <1>2, <2>2 DEF Fail, Counted
  <2> QED BY <2>1, <2>2
<1> QED BY <1>3, PromisedGiveUp DEF IInv

LEMMA RespondStep ==
  ASSUME IInv, NEW r \in Requests, NEW t, Ready(r, t), Counted(r) \in {0, 1},
         conf.meter /\ tally[r] # t => Counted(r) = 0, Respond(r, t)
  PROVE  IInv' /\ Promised
<1>1. CASE conf.builds /\ ~SleepPanics
  <2> DEFINE u == CountOut(t, StaticSize(r))
  <2>1. Record(r, u) /\ Answer(r, StaticBody)
    BY <1>1 DEF Respond, Answer
  <2>2. conf.meter => IsTally(u) /\ u.requests = 1 /\ u.responses = 1
    BY CountOutFacts DEF Ready
  <2>3. /\ conf.bodyDelay \in BOOLEAN /\ conf.reply.size \in Nat
        /\ StaticBody = [held |-> conf.bodyDelay, idx |-> 0, notes |-> 0,
                         last |-> conf.reply.size # 0]
    <3>1. conf.bodyDelay \in BOOLEAN /\ conf.reply.size \in Nat
      BY ConfFacts DEF IInv, Shape
    <3>2. StaticBody = [held |-> conf.bodyDelay, idx |-> 0, notes |-> 0,
                        last |-> conf.reply.size # 0]
      BY <3>1 DEF StaticBody, FullBody, Body
    <3> QED BY <3>1, <3>2
  <2>4. /\ StaticBody \in [held : BOOLEAN, idx : {0}, notes : Nat, last : BOOLEAN]
        /\ FramesLeft(StaticBody) = Total(r) /\ FramesLeft(StaticBody) \in Nat
        /\ StaticBody.last \/ StaticBody.notes = 0
        /\ conf.bodyDelay => StaticBody.held
    <3> DEFINE last == conf.reply.size # 0
    <3>1. last \in BOOLEAN /\ last = (conf.reply.size # 0)
      OBVIOUS
    <3>2. StaticBody = [held |-> conf.bodyDelay, idx |-> 0, notes |-> 0, last |-> last]
      BY <2>3
    <3> HIDE DEF last
    <3>3. StaticBody \in [held : BOOLEAN, idx : {0}, notes : Nat, last : BOOLEAN]
      BY <2>3, <3>1, <3>2
    <3>4. FramesLeft(StaticBody) = IF last THEN 1 ELSE 0
      BY <3>2 DEF FramesLeft
    <3>5. Total(r) = IF last THEN 1 ELSE 0
      BY <3>1 DEF Total, Ready
    <3> QED BY <3>2, <3>3, <3>4, <3>5
  <2>5. InHand(r)'
    BY DEF InHand, Ready
  <2>6. /\ UNCHANGED <<conf, request, elapsed, sent>> /\ pc[r] \in Waiting
        /\ ~conf.http2 => \A q \in 1..(r - 1) : pc[q] = "done"
    BY DEF Ready
  <2> HIDE DEF u
  <2>7. IInv'
    BY <2>1, <2>2, <2>4, <2>5, <2>6, AnswerInv
  <2>8. Promised
    BY <2>1, <2>2, <2>4, <2>6, PromisedAnswer
  <2> QED BY <2>7, <2>8
<1>2. CASE ~(conf.builds /\ ~SleepPanics)
  <2>1. Record(r, t) /\ Fail(r) /\ UNCHANGED body
    BY <1>2 DEF Respond
  <2> QED BY <2>1, FailInv, FailPromised
<1> QED BY <1>1, <1>2

(***************************************************************************)
(* The service waits its delay, its request counted.                       *)
(***************************************************************************)
LEMMA DelayStep ==
  ASSUME IInv, NEW r \in Requests, NEW t, Ready(r, t), pc[r] \in {"idle", "collect"},
         Record(r, t), Goto(r, "delay"), UNCHANGED body
  PROVE  IInv' /\ Promised
<1> USE DEF Ready
<1>1. Requests' = Requests
  BY DEF Requests
<1>2. pc' = [pc EXCEPT ![r] = "delay"] /\ DOMAIN pc = Requests
  BY DEF Goto, IInv, Shape
<1>3. pc' \in [Requests -> Waiting \cup Answering \cup Ended]
  BY <1>2 DEF IInv, Shape, Waiting
<1>4. Shape'
  BY <1>3, ServiceShape DEF IInv, Shape
<1>5. /\ \A q \in Requests : q # r => tally'[q] = tally[q]
      /\ tally'[r] = IF conf.meter THEN t ELSE tally[r]
  BY RecordFacts DEF IInv
<1>6. Local(r)'
  <2>1. Counts(r) /\ Sends(r) /\ Bodies(r) /\ Waits(r) /\ pc'[r] = "delay"
    BY <1>2 DEF IInv, Local
  <2>2. ~sent[r].head
    BY <2>1 DEF Sends, Waiting
  <2>3. Counts(r)'
    <3>1. CASE conf.meter
      BY <1>5, <2>1, <2>2, <3>1 DEF Counts, Answering
    <3>2. CASE ~conf.meter
      BY <1>5, <2>1, <2>2, <3>2 DEF Counts, IInv, Shape, IsTally
    <3> QED BY <3>1, <3>2
  <2>4. Sends(r)'
    BY <2>1, <2>2 DEF Sends, Bodiless, Waiting
  <2>5. Bodies(r)' /\ Waits(r)' /\ InHand(r)' /\ Places(r)'
    BY <2>1 DEF Bodies, Waits, InHand, Places, Answering
  <2> QED BY <2>3, <2>4, <2>5 DEF Local
<1>7. ASSUME NEW s \in Requests, s # r PROVE Quiet(s)
  BY <1>2, <1>5, <1>7 DEF Quiet
<1>8. Order' /\ ServerKeeps'
  BY GoesOn DEF IInv, Answering, Waiting
<1>9. IInv'
  BY <1>4, <1>6, <1>7, <1>8, Assemble
<1>10. Promised
  <2> DEFINE st == [q \in Requests |-> Stage(q)]
             co == [q \in Requests |-> tally[q].requests + tally[q].responses]
  <2>1. /\ Stage(r) = "waiting" /\ \A q \in Requests : Stage(q)' = Stage(q)
    BY <1>2 DEF Stage, Waiting
  <2>2. /\ \A q \in Requests : Parts(q)' = Parts(q)
        /\ \A q \in Requests : sent'[q].frames = sent[q].frames
    BY DEF Parts, Bodiless
  <2>3. /\ \A q \in Requests : q # r => Counted(q)' = Counted(q)
        /\ Counted(r) = 0
        /\ Counted(r)' = IF conf.meter THEN 1 ELSE 0
    BY <1>5 DEF Counted, IInv, Local, Counts, Shape, IsTally
  <2>4. CASE ~conf.meter
    BY <2>1, <2>2, <2>3, <2>4, PromisedStutter
  <2>5. CASE conf.meter
    <3>1. st' = st /\ co' = [co EXCEPT ![r] = 1] /\ st[r] = "waiting" /\ co[r] = 0
      BY <1>1, <2>1, <2>3, <2>5 DEF Counted
    <3>2. [q \in Requests |-> Parts(q)]' = [q \in Requests |-> Parts(q)]
      BY <1>1, <2>2
    <3>3. [q \in Requests |-> sent[q].frames]' = [q \in Requests |-> sent[q].frames]
      BY <1>1, <2>2
    <3>4. Service!Count(r)
      BY <2>5, <3>1, <3>2, <3>3 DEF Service!Count
    <3> QED BY <1>1, <3>4 DEF Promised, Service!Next
  <2> QED BY <2>4, <2>5
<1> QED BY <1>9, <1>10

LEMMA DelayOrRespondStep ==
  ASSUME IInv, NEW r \in Requests, NEW t, Ready(r, t), pc[r] \in {"idle", "collect"},
         DelayOrRespond(r, t)
  PROVE  IInv' /\ Promised
<1>1. Counted(r) = 0
  BY DEF Counted, IInv, Local, Counts, Shape, IsTally
<1>2. CASE conf.delay
  BY <1>2, DelayStep DEF DelayOrRespond
<1>3. CASE ~conf.delay
  BY <1>1, <1>3, RespondStep DEF DelayOrRespond
<1> QED BY <1>2, <1>3

LEMMA CallStaticStep ==
  ASSUME IInv, NEW r \in Requests, CallStatic(r), ~Collects
  PROVE  IInv' /\ Promised
<1>1. ~conf.meter /\ DelayOrRespond(r, tally[r]) /\ pc[r] = "idle"
  BY DEF CallStatic, Collects, Callable
<1>2. Ready(r, tally[r])
  BY <1>1 DEF Ready, CallStatic, Callable, Waiting
<1> QED BY <1>1, <1>2, DelayOrRespondStep

LEMMA CollectedStaticStep ==
  ASSUME IInv, NEW r \in Requests, CollectedStatic(r)
  PROVE  IInv' /\ Promised
<1> DEFINE t == CountIn(tally[r], SizeIn(r))
<1>1. pc[r] = "collect" /\ DelayOrRespond(r, t)
  BY DEF CollectedStatic, Collected
<1>2. IsTally(tally[r]) /\ tally[r].requests = 0 /\ tally[r].responses = 0
  BY <1>1 DEF IInv, Shape, Local, Counts, IsTally
<1>3. IsTally(t) /\ t.requests = 1 /\ t.responses = 0
  BY <1>2, CountInFacts
<1>4. Ready(r, t)
  BY <1>1, <1>3 DEF Ready, CollectedStatic, Waiting, IInv, Order
<1> HIDE DEF t
<1> QED BY <1>1, <1>4, DelayOrRespondStep

LEMMA DelayOverStep ==
  ASSUME IInv, NEW r \in Requests, DelayOver(r)
  PROVE  IInv' /\ Promised
<1>1. pc[r] = "delay" /\ Respond(r, tally[r])
  BY DEF DelayOver
<1>2. /\ conf.meter => tally[r].requests = 1 /\ tally[r].responses = 0
      /\ ~conf.meter => tally[r].requests = 0 /\ tally[r].responses = 0
      /\ IsTally(tally[r])
  BY <1>1 DEF IInv, Local, Counts, Shape, IsTally
<1>3. Counted(r) \in {0, 1}
  BY <1>2 DEF Counted
<1>4. conf.runtime # "mcp"
  BY <1>1 DEF IInv, Local, Places
<1>5. Ready(r, tally[r])
  BY <1>1, <1>2, <1>4 DEF Ready, DelayOver, Waiting, IInv, Order
<1> QED BY <1>1, <1>3, <1>5, RespondStep

(***************************************************************************)
(* A service begins to read its request.                                   *)
(***************************************************************************)
LEMMA CollectStep ==
  ASSUME IInv, NEW r \in Requests, Callable(r), ~LeavesBody(r), Goto(r, "collect"),
         UNCHANGED <<body, tally>>, UNCHANGED <<conf, request, elapsed, sent>>
  PROVE  IInv' /\ Promised
<1>1. Requests' = Requests
  BY DEF Requests
<1>2. pc' = [pc EXCEPT ![r] = "collect"] /\ DOMAIN pc = Requests /\ pc[r] = "idle"
  BY DEF Goto, Callable, IInv, Shape
<1>3. Shape'
  BY <1>1, <1>2 DEF IInv, Shape, IsSent, IsTally, Waiting
<1>4. Local(r)'
  <2>1. Counts(r) /\ Sends(r) /\ Bodies(r) /\ Waits(r) /\ pc'[r] = "collect"
    BY <1>2 DEF IInv, Local
  <2>2. Counts(r)' /\ Sends(r)'
    BY <1>2, <2>1 DEF Counts, Sends, Bodiless, Waiting, Answering
  <2>3. Bodies(r)' /\ Waits(r)' /\ InHand(r)' /\ Places(r)'
    BY <2>1 DEF Bodies, Waits, InHand, Places, LeavesBody, Collects, Answering
  <2> QED BY <2>2, <2>3 DEF Local
<1>5. ASSUME NEW s \in Requests, s # r PROVE Quiet(s)
  BY <1>2, <1>5 DEF Quiet
<1>6. Order' /\ ServerKeeps'
  BY <1>2, GoesOn DEF IInv, Callable
<1>7. IInv'
  BY <1>3, <1>4, <1>5, <1>6, Assemble
<1>8. \A q \in Requests :
        Stage(q)' = Stage(q) /\ Counted(q)' = Counted(q) /\ Parts(q)' = Parts(q)
          /\ sent'[q].frames = sent[q].frames
  <2> SUFFICES ASSUME NEW q \in Requests
               PROVE  Stage(q)' = Stage(q) /\ Counted(q)' = Counted(q) /\ Parts(q)' = Parts(q)
    OBVIOUS
  <2>1. Stage(q)' = Stage(q)
    BY <1>2 DEF Stage
  <2>2. Counted(q)' = Counted(q) /\ Parts(q)' = Parts(q)
    BY DEF Counted, Parts, Bodiless
  <2> QED BY <2>1, <2>2
<1> QED BY <1>7, <1>8, PromisedStutter
-----------------------------------------------------------------------------
(***************************************************************************)
(* The MCP service.                                                        *)
(***************************************************************************)
LEMMA LastFacts ==
  ASSUME NEW n \in Nat, NEW b, b = [held |-> FALSE, idx |-> 0, notes |-> n, last |-> TRUE]
  PROVE  /\ b \in [held : BOOLEAN, idx : {0}, notes : Nat, last : BOOLEAN]
         /\ FramesLeft(b) = n + 1 /\ FramesLeft(b) \in Nat
         /\ b.last \/ b.notes = 0
<1>1. b \in [held : BOOLEAN, idx : {0}, notes : Nat, last : BOOLEAN]
  OBVIOUS
<1>2. b.idx = 0 /\ b.notes = n /\ b.last
  OBVIOUS
<1> QED BY <1>1, <1>2 DEF FramesLeft

LEMMA EmptyFacts ==
  ASSUME NEW b, b = [held |-> FALSE, idx |-> 0, notes |-> 0, last |-> FALSE]
  PROVE  /\ b \in [held : BOOLEAN, idx : {0}, notes : Nat, last : BOOLEAN]
         /\ FramesLeft(b) = 0 /\ FramesLeft(b) \in Nat
         /\ b.notes = 0
<1>1. b \in [held : BOOLEAN, idx : {0}, notes : Nat, last : BOOLEAN]
  OBVIOUS
<1>2. b.idx = 0 /\ b.notes = 0 /\ ~b.last
  OBVIOUS
<1> QED BY <1>1, <1>2 DEF FramesLeft

LEMMA CallMcpStep ==
  ASSUME IInv, NEW r \in Requests, CallMcp(r)
  PROVE  IInv' /\ Promised
<1>1. CASE conf.kind[r] # "misdirected"
  BY <1>1, CollectStep DEF CallMcp, LeavesBody
<1>2. CASE conf.kind[r] = "misdirected"
  <2> DEFINE t == CountIn(tally[r], HeadIn)
             u == CountOut(t, McpSize(r))
  <2>1. Record(r, u) /\ Answer(r, FullBody(TRUE)) /\ pc[r] = "idle" /\ conf.runtime = "mcp"
    BY <1>2 DEF CallMcp, Callable
  <2>2. IsTally(tally[r]) /\ tally[r].requests = 0 /\ tally[r].responses = 0
    BY <2>1 DEF IInv, Shape, Local, Counts, IsTally
  <2>3. IsTally(t) /\ t.requests = 1 /\ t.responses = 0
    BY <2>2, CountInFacts
  <2> HIDE DEF t
  <2>4. IsTally(u) /\ u.requests = 1 /\ u.responses = 1
    BY <2>3, CountOutFacts
  <2> HIDE DEF u
  <2>5. /\ FullBody(TRUE) \in [held : BOOLEAN, idx : {0}, notes : Nat, last : BOOLEAN]
        /\ FramesLeft(FullBody(TRUE)) = Total(r) /\ FramesLeft(FullBody(TRUE)) \in Nat
        /\ FullBody(TRUE).notes = 0
    <3>1. FullBody(TRUE) = [held |-> FALSE, idx |-> 0, notes |-> 0, last |-> FALSE]
      BY DEF FullBody, Body
    <3> HIDE DEF FullBody
    <3>2. Total(r) = 0
      BY <1>2, <2>1 DEF Total
    <3> QED BY <3>1, <3>2, EmptyFacts
  <2>6. ~conf.bodyDelay /\ InHand(r)'
    BY <1>2, <2>1, ConfFacts DEF IInv, Shape, InHand, CallMcp
  <2>7. /\ UNCHANGED <<conf, request, elapsed, sent>> /\ pc[r] \in Waiting
        /\ ~conf.http2 => \A q \in 1..(r - 1) : pc[q] = "done"
    BY DEF CallMcp, Callable, Waiting
  <2> HIDE DEF FullBody
  <2>8. IInv'
    BY <2>1, <2>4, <2>5, <2>6, <2>7, AnswerInv
  <2>9. Promised
    BY <2>1, <2>4, <2>5, <2>7, PromisedAnswer
  <2> QED BY <2>8, <2>9
<1> QED BY <1>1, <1>2

LEMMA CollectedMcpStep ==
  ASSUME IInv, NEW r \in Requests, CollectedMcp(r)
  PROVE  IInv' /\ Promised
<1> DEFINE t == CountIn(tally[r], SizeIn(r))
           u == CountOut(t, McpSize(r))
           b == McpAnswer(r)
<1>1. /\ Record(r, u) /\ Answer(r, b) /\ pc[r] = "collect" /\ conf.runtime = "mcp"
      /\ request[r] \in {"bare", "whole", "broken"}
  BY DEF CollectedMcp, Collected
<1>2. IsTally(tally[r]) /\ tally[r].requests = 0 /\ tally[r].responses = 0
  BY <1>1 DEF IInv, Shape, Local, Counts, IsTally
<1>3. IsTally(t) /\ t.requests = 1 /\ t.responses = 0
  BY <1>2, CountInFacts
<1> HIDE DEF t
<1>4. IsTally(u) /\ u.requests = 1 /\ u.responses = 1
  BY <1>3, CountOutFacts
<1> HIDE DEF u
<1>5. conf.kind[r] \in {"misdirected", "unary", "accepted", "stream"}
      /\ Len(conf.notifications) \in Nat /\ ~conf.bodyDelay
  BY <1>1, ConfFacts DEF IInv, Shape
<1>6. conf.kind[r] # "misdirected"
  BY <1>1 DEF IInv, Local, Places, LeavesBody
<1>7. /\ b \in [held : BOOLEAN, idx : {0}, notes : Nat, last : BOOLEAN]
      /\ FramesLeft(b) = Total(r) /\ FramesLeft(b) \in Nat
      /\ b.last \/ b.notes = 0
  <2> DEFINE n == Len(conf.notifications)
  <2>1. /\ FullBody(TRUE) = [held |-> FALSE, idx |-> 0, notes |-> 0, last |-> FALSE]
        /\ FullBody(FALSE) = [held |-> FALSE, idx |-> 0, notes |-> 0, last |-> TRUE]
        /\ SseBody = [held |-> FALSE, idx |-> 0, notes |-> n, last |-> TRUE]
    BY DEF FullBody, SseBody, Body
  <2>2. CASE request[r] = "broken"
    <3>1. b = FullBody(FALSE) /\ Total(r) = 1
      BY <1>1, <1>5, <1>6, <2>2 DEF McpAnswer, Total
    <3> HIDE DEF b
    <3>2. b = [held |-> FALSE, idx |-> 0, notes |-> 0, last |-> TRUE]
      BY <2>1, <3>1
    <3>3. 0 \in Nat /\ 0 + 1 = 1
      OBVIOUS
    <3>4. FramesLeft(b) = 1 /\ FramesLeft(b) \in Nat
      BY <3>2, <3>3, LastFacts
    <3>5. b \in [held : BOOLEAN, idx : {0}, notes : Nat, last : BOOLEAN]
      BY <3>2
    <3>6. b.last \/ b.notes = 0
      BY <3>2
    <3> QED BY <3>1, <3>4, <3>5, <3>6
  <2>3. CASE request[r] # "broken" /\ conf.kind[r] = "unary"
    <3>1. b = FullBody(FALSE) /\ Total(r) = 1
      BY <1>1, <2>3 DEF McpAnswer, Total
    <3> HIDE DEF b
    <3>2. b = [held |-> FALSE, idx |-> 0, notes |-> 0, last |-> TRUE]
      BY <2>1, <3>1
    <3>3. 0 \in Nat /\ 0 + 1 = 1
      OBVIOUS
    <3>4. FramesLeft(b) = 1 /\ FramesLeft(b) \in Nat
      BY <3>2, <3>3, LastFacts
    <3>5. b \in [held : BOOLEAN, idx : {0}, notes : Nat, last : BOOLEAN]
      BY <3>2
    <3>6. b.last \/ b.notes = 0
      BY <3>2
    <3> QED BY <3>1, <3>4, <3>5, <3>6
  <2>4. CASE request[r] # "broken" /\ conf.kind[r] = "accepted"
    <3>1. b = FullBody(TRUE) /\ Total(r) = 0
      BY <1>1, <2>4 DEF McpAnswer, Total
    <3> HIDE DEF b
    <3> QED BY <2>1, <3>1, EmptyFacts
  <2>5. CASE request[r] # "broken" /\ conf.kind[r] = "stream"
    <3>1. b = SseBody /\ Total(r) = n + 1
      BY <1>1, <2>5 DEF McpAnswer, Total
    <3>2. n \in Nat
      BY <1>5
    <3> HIDE DEF b, n
    <3> QED BY <2>1, <3>1, <3>2, LastFacts
  <2> QED BY <1>5, <1>6, <2>2, <2>3, <2>4, <2>5
<1>8. InHand(r)'
  BY <1>1 DEF InHand, CollectedMcp
<1>9. /\ UNCHANGED <<conf, request, elapsed, sent>> /\ pc[r] \in Waiting
      /\ ~conf.http2 => \A q \in 1..(r - 1) : pc[q] = "done"
  BY <1>1 DEF CollectedMcp, Waiting, IInv, Order
<1> HIDE DEF b
<1>10. IInv'
  BY <1>1, <1>4, <1>5, <1>7, <1>8, <1>9, AnswerInv
<1>11. Promised
  BY <1>1, <1>4, <1>7, <1>9, PromisedAnswer
<1> QED BY <1>10, <1>11
-----------------------------------------------------------------------------
(***************************************************************************)
(* The response.                                                           *)
(***************************************************************************)
LEMMA SendHeadStep ==
  ASSUME IInv, NEW r \in Requests, SendHead(r)
  PROVE  IInv' /\ Promised
<1> DEFINE m == sent[r].bytes + IF conf.reply.framing THEN 0 ELSE HeadWritten(HeadOf(r))
           v == [sent[r] EXCEPT !.head = TRUE, !.bytes = m]
           x == IF EndsWithHead(r) THEN "done" ELSE "stream"
<1>1. Requests' = Requests
  BY DEF SendHead, Requests
<1>2. /\ pc' = [pc EXCEPT ![r] = x] /\ Goto(r, x) /\ DOMAIN pc = Requests /\ pc[r] = "head"
      /\ sent' = [sent EXCEPT ![r] = v]
      /\ UNCHANGED <<conf, request, body, elapsed, tally>>
  BY DEF SendHead, Goto, IInv, Shape
<1>3. x \in {"done", "stream"}
  OBVIOUS
<1> HIDE DEF m
<1>4. /\ v.head = TRUE /\ v.frames = sent[r].frames /\ v.bytes = m
      /\ v \in [head : BOOLEAN, frames : Seq(Nat), bytes : {m}]
  BY DEF IInv, Shape, IsSent
<1> HIDE DEF v
<1>5. /\ sent' = [q \in Requests |-> IF q = r THEN v ELSE sent[q]]
      /\ sent'[r] = v /\ \A q \in Requests : q # r => sent'[q] = sent[q]
  BY <1>2 DEF IInv, Shape
<1>6. Shape'
  <2>1. \A q \in Requests : IsSent(sent[q])'
    BY <1>4, <1>5 DEF IInv, Shape, IsSent
  <2>2. pc' \in [Requests -> Waiting \cup Answering \cup Ended]
    BY <1>2, <1>3 DEF IInv, Shape, Answering
  <2>3. sent' = [q \in Requests |-> sent'[q]]
    BY <1>5
  <2> QED BY <1>1, <1>2, <2>1, <2>2, <2>3 DEF IInv, Shape, IsTally
<1>7. /\ Counts(r) /\ Sends(r) /\ Bodies(r) /\ Waits(r) /\ InHand(r) /\ pc'[r] = x
      /\ ~sent[r].head /\ Len(sent[r].frames) = 0
  BY <1>2 DEF IInv, Local, Sends
<1>8. /\ body[r].idx \in Nat /\ body[r].notes \in Nat /\ body[r].idx <= body[r].notes
      /\ FramesLeft(body[r]) = Total(r) /\ Total(r) \in Nat
      /\ ~body[r].last => body[r].idx = body[r].notes
  <2>1. body[r] \in [held : BOOLEAN, idx : Nat, notes : Nat, last : BOOLEAN]
    BY DEF IInv, Shape
  <2>2. /\ Len(sent[r].frames) + FramesLeft(body[r]) = Total(r)
        /\ body[r].idx <= body[r].notes
        /\ ~body[r].last => body[r].idx = body[r].notes
    BY <1>2, <1>7 DEF Bodies, Answering
  <2>3. FramesLeft(body[r]) \in Nat
    BY <2>1, <2>2 DEF FramesLeft
  <2> QED BY <1>7, <2>1, <2>2, <2>3
<1>9. /\ Bodiless(r) => ~conf.http2 /\ ~conf.bodyDelay
      /\ conf.bodyDelay => conf.runtime # "mcp"
      /\ conf.reply.size \in Nat
  BY ConfFacts DEF IInv, Shape
<1>10. ASSUME x = "stream" PROVE Local(r)' /\ Stage(r)' = "headed"
  <2>1. ~EndsWithHead(r)
    BY <1>10
  <2>2. ~Bodiless(r)
    BY <1>9, <2>1 DEF EndsWithHead
  <2>3. Local(r)'
    <3>1. Counts(r)' /\ Sends(r)'
      BY <1>2, <1>4, <1>5, <1>7, <1>10, <2>2 DEF Counts, Sends, Bodiless, Waiting, Answering
    <3>2. Total(r)' = Total(r) /\ FramesLeft(body[r])' = FramesLeft(body[r])
      BY <1>2 DEF Total, FramesLeft
    <3>3. Bodies(r)'
      BY <1>2, <1>4, <1>5, <1>7, <1>8, <1>10, <2>2, <3>2 DEF Bodies, Bodiless, Answering
    <3>4. Waits(r)'
      BY <1>2, <1>4, <1>5, <1>7, <1>10 DEF Waits
    <3>5. InHand(r)' /\ Places(r)'
      BY <1>2, <1>7, <1>10 DEF InHand, Places, Answering
    <3> QED BY <3>1, <3>3, <3>4, <3>5 DEF Local
  <2>4. Stage(r)' = "headed"
    BY <1>7, <1>10 DEF Stage
  <2> QED BY <2>3, <2>4
<1>11. ASSUME x = "done" PROVE Local(r)' /\ Stage(r)' = "over" /\ Parts(r) = 0
  <2>1. EndsWithHead(r)
    BY <1>11
  <2>2. Bodiless(r) \/ FramesLeft(body[r]) = 0
    BY <1>8, <2>1 DEF EndsWithHead, IsEndStream, HasFrame, FramesLeft
  <2>3. Local(r)'
    <3>1. Counts(r)' /\ Sends(r)'
      BY <1>2, <1>4, <1>5, <1>7, <1>11 DEF Counts, Sends, Bodiless, Waiting, Answering
    <3>2. Total(r)' = Total(r) /\ FramesLeft(body[r])' = FramesLeft(body[r])
      BY <1>2 DEF Total, FramesLeft
    <3>3. Bodies(r)'
      BY <1>2, <1>4, <1>5, <1>7, <1>8, <1>11, <2>2, <3>2 DEF Bodies, Bodiless, Answering
    <3>4. Waits(r)'
      <4>1. CASE IsEndStream(body[r])
        BY <1>2, <1>4, <1>5, <1>7, <1>11, <4>1 DEF Waits, IsEndStream
      <4>2. CASE ~conf.http2 /\ FramesLeft(body[r]) = 0
        <5>1. conf.bodyDelay => conf.reply.size = 0
          BY <1>8, <1>9, <4>2 DEF Total
        <5> QED BY <1>2, <1>4, <1>5, <1>7, <1>11, <4>2, <5>1 DEF Waits
      <4>3. CASE Bodiless(r)
        BY <1>2, <1>9, <4>3 DEF Waits
      <4> QED BY <2>1, <2>2, <4>1, <4>2, <4>3 DEF EndsWithHead
    <3>5. InHand(r)' /\ Places(r)'
      BY <1>2, <1>7, <1>11 DEF InHand, Places, Answering
    <3> QED BY <3>1, <3>3, <3>4, <3>5 DEF Local
  <2>4. Stage(r)' = "over" /\ Parts(r) = 0
    BY <1>7, <1>8, <1>11, <2>2 DEF Stage, Parts
  <2> QED BY <2>3, <2>4
<1>12. ASSUME NEW s \in Requests, s # r PROVE Quiet(s)
  BY <1>2, <1>5, <1>12 DEF Quiet
<1>13. ~conf.http2 => \A q \in 1..(r - 1) : pc[q] = "done"
  BY <1>2 DEF IInv, Order, Answering
<1>14. Order' /\ ServerKeeps'
  BY <1>2, <1>3, <1>13, GoesOn DEF IInv, Answering
<1>15. IInv'
  BY <1>2, <1>3, <1>6, <1>10, <1>11, <1>12, <1>14, Assemble
<1>16. Promised
  <2> DEFINE st == [q \in Requests |-> Stage(q)]
             pa == [q \in Requests |-> Parts(q)]
  <2>1. st[r] = "answered" /\ st' = [st EXCEPT ![r] = Stage(r)'] /\ pa[r] = Parts(r)
    <3>1. Stage(r) = "answered"
      BY <1>2 DEF Stage
    <3> QED BY <1>2, <3>1, StageMoves DEF IInv
  <2>2. ~conf.http2 => \A q \in Requests : q < r => st[q] = "over"
    <3> SUFFICES ASSUME ~conf.http2, NEW q \in Requests, q < r PROVE st[q] = "over"
      OBVIOUS
    <3>1. q \in 1..(r - 1)
      BY ConfFacts DEF IInv, Shape
    <3>2. Stage(q) = "over"
      BY <1>13, <3>1 DEF Stage
    <3> QED BY <3>2
  <2>3. pa' = pa /\ [q \in Requests |-> sent[q].frames]' = [q \in Requests |-> sent[q].frames]
    <3>1. ASSUME NEW q \in Requests
          PROVE  sent'[q].frames = sent[q].frames /\ Parts(q)' = Parts(q)
      <4>1. sent'[q].frames = sent[q].frames
        BY <1>4, <1>5
      <4> QED BY <1>2, <4>1 DEF Parts, Bodiless
    <3> QED BY <1>1, <3>1
  <2>4. [q \in Requests |-> tally[q].requests + tally[q].responses]'
          = [q \in Requests |-> tally[q].requests + tally[q].responses]
    BY <1>1, <1>2
  <2>5. \/ st' = [st EXCEPT ![r] = "headed"]
        \/ pa[r] = 0 /\ st' = [st EXCEPT ![r] = "over"]
    BY <1>3, <1>10, <1>11, <2>1
  <2>6. Service!SendHead(r)
    BY <2>1, <2>2, <2>3, <2>4, <2>5 DEF Service!SendHead, Service!Move
  <2> QED BY <1>1, <1>2, <2>6 DEF Promised, Service!Next
<1> QED BY <1>15, <1>16

LEMMA PollPendingStep ==
  ASSUME IInv, NEW r \in Requests, PollPending(r)
  PROVE  IInv' /\ Promised
<1>1. Requests' = Requests
  BY DEF PollPending, Requests
<1>2. /\ pc' = [pc EXCEPT ![r] = "parked"] /\ Goto(r, "parked")
      /\ DOMAIN pc = Requests /\ pc[r] = "stream"
      /\ UNCHANGED <<conf, request, body, elapsed, sent, tally>>
  BY DEF PollPending, Goto, IInv, Shape
<1>3. Shape'
  BY <1>1, <1>2 DEF IInv, Shape, IsSent, IsTally, Answering
<1>4. Local(r)'
  <2>1. /\ Counts(r) /\ Sends(r) /\ Bodies(r) /\ Waits(r) /\ InHand(r) /\ Places(r)
        /\ pc'[r] = "parked"
    BY <1>2 DEF IInv, Local
  <2>2. Counts(r)' /\ Sends(r)'
    BY <1>2, <2>1 DEF Counts, Sends, Bodiless, Waiting, Answering
  <2>3. Total(r)' = Total(r) /\ FramesLeft(body[r])' = FramesLeft(body[r])
    BY <1>2 DEF Total, FramesLeft
  <2>4. Bodies(r)'
    BY <1>2, <2>1, <2>3 DEF Bodies, Bodiless, Answering
  <2>5. Waits(r)' /\ InHand(r)' /\ Places(r)'
    BY <1>2, <2>1 DEF Waits, InHand, Places, Answering
  <2> QED BY <2>2, <2>4, <2>5 DEF Local
<1>5. ASSUME NEW s \in Requests, s # r PROVE Quiet(s)
  BY <1>2, <1>5 DEF Quiet
<1>6. ~conf.http2 => \A q \in 1..(r - 1) : pc[q] = "done"
  BY <1>2 DEF IInv, Order, Answering
<1>7. Order' /\ ServerKeeps'
  BY <1>2, <1>6, GoesOn DEF IInv, Answering
<1>8. IInv'
  BY <1>2, <1>3, <1>4, <1>5, <1>7, Assemble
<1>9. ASSUME NEW q \in Requests
      PROVE  Stage(q)' = Stage(q) /\ Counted(q)' = Counted(q) /\ Parts(q)' = Parts(q)
  <2>1. Stage(q)' = Stage(q)
    BY <1>2 DEF Stage
  <2> QED BY <1>2, <2>1 DEF Counted, Parts, Bodiless
<1> QED BY <1>2, <1>8, <1>9, PromisedStutter

LEMMA SleepOverStep ==
  ASSUME IInv, NEW r \in Requests, SleepOver(r)
  PROVE  IInv' /\ Promised
<1> DEFINE x == IF pc[r] = "parked" THEN "stream" ELSE pc[r]
<1>1. Requests' = Requests
  BY DEF SleepOver, Requests
<1>2. /\ pc' = [pc EXCEPT ![r] = x] /\ Goto(r, x)
      /\ DOMAIN pc = Requests /\ pc[r] \in {"head", "stream", "parked"}
      /\ elapsed' = [elapsed EXCEPT ![r] = TRUE] /\ DOMAIN elapsed = Requests
      /\ UNCHANGED <<conf, request, body, sent, tally>>
  BY DEF SleepOver, Goto, IInv, Shape
<1>3. x \in {"head", "stream"} /\ (x = "head" <=> pc[r] = "head")
  BY <1>2
<1> HIDE DEF x
<1>4. Shape'
  BY <1>1, <1>2, <1>3 DEF IInv, Shape, IsSent, IsTally, Answering
<1>5. Local(r)'
  <2>1. /\ Counts(r) /\ Sends(r) /\ Bodies(r) /\ Waits(r) /\ InHand(r) /\ Places(r)
        /\ pc'[r] = x /\ elapsed'[r] = TRUE
    BY <1>2 DEF IInv, Local
  <2>2. Counts(r)' /\ Sends(r)'
    BY <1>2, <1>3, <2>1 DEF Counts, Sends, Bodiless, Waiting, Answering
  <2>3. Total(r)' = Total(r) /\ FramesLeft(body[r])' = FramesLeft(body[r])
    BY <1>2 DEF Total, FramesLeft
  <2>4. Bodies(r)'
    BY <1>2, <1>3, <2>1, <2>3 DEF Bodies, Bodiless, Answering
  <2>5. Waits(r)' /\ InHand(r)' /\ Places(r)'
    BY <1>2, <1>3, <2>1 DEF Waits, InHand, Places, Answering
  <2> QED BY <2>2, <2>4, <2>5 DEF Local
<1>6. ASSUME NEW s \in Requests, s # r PROVE Quiet(s)
  BY <1>2, <1>6 DEF Quiet
<1>7. ~conf.http2 => \A q \in 1..(r - 1) : pc[q] = "done"
  BY <1>2 DEF IInv, Order, Answering
<1>8. Order' /\ ServerKeeps'
  BY <1>2, <1>3, <1>7, GoesOn DEF IInv, Answering
<1>9. IInv'
  BY <1>2, <1>4, <1>5, <1>6, <1>8, Assemble
<1>10. ASSUME NEW q \in Requests
       PROVE  Stage(q)' = Stage(q) /\ Counted(q)' = Counted(q) /\ Parts(q)' = Parts(q)
  <2>1. Stage(q)' = Stage(q)
    BY <1>2, <1>3 DEF Stage
  <2> QED BY <1>2, <2>1 DEF Counted, Parts, Bodiless
<1> QED BY <1>2, <1>9, <1>10, PromisedStutter

(***************************************************************************)
(* A poll takes a frame off what is left of a body, the next in order, or  *)
(* finds none.                                                             *)
(***************************************************************************)
LEMMA TakenFacts ==
  ASSUME NEW b \in [held : BOOLEAN, idx : Nat, notes : Nat, last : BOOLEAN],
         b.idx <= b.notes, ~b.last => b.idx = b.notes
  PROVE  /\ Taken(b) \in [held : BOOLEAN, idx : Nat, notes : Nat, last : BOOLEAN]
         /\ ~Taken(b).held
         /\ Taken(b).idx <= Taken(b).notes
         /\ ~Taken(b).last => Taken(b).idx = Taken(b).notes
         /\ FramesLeft(b) \in Nat /\ FramesLeft(Taken(b)) \in Nat
         /\ HasFrame(b) => /\ b.last /\ FramesLeft(Taken(b)) + 1 = FramesLeft(b)
                           /\ Taken(b).last => Taken(b).idx = b.idx + 1
                           /\ b.idx + 1 = IF b.idx < b.notes THEN Taken(b).idx
                                                             ELSE Taken(b).notes + 1
         /\ ~HasFrame(b) => ~b.last /\ FramesLeft(Taken(b)) = 0 /\ FramesLeft(b) = 0
                             /\ ~Taken(b).last
         /\ IsEndStream(Taken(b)) => FramesLeft(Taken(b)) = 0
<1>1. CASE b.idx < b.notes
  <2> DEFINE k == b.idx + 1
  <2>1. Taken(b) = [b EXCEPT !.held = FALSE, !.idx = k] /\ k \in Nat
    BY <1>1 DEF Taken
  <2>2. /\ Taken(b) \in [held : BOOLEAN, idx : Nat, notes : Nat, last : BOOLEAN]
        /\ Taken(b).held = FALSE /\ Taken(b).idx = b.idx + 1
        /\ Taken(b).notes = b.notes /\ Taken(b).last = b.last
    <3> HIDE DEF k
    <3>1. /\ Taken(b) \in [held : BOOLEAN, idx : Nat, notes : Nat, last : BOOLEAN]
          /\ Taken(b).held = FALSE /\ Taken(b).idx = k
          /\ Taken(b).notes = b.notes /\ Taken(b).last = b.last
      BY <2>1
    <3> QED BY <3>1 DEF k
  <2> QED BY <1>1, <2>2 DEF FramesLeft, HasFrame, IsEndStream
<1>2. CASE ~(b.idx < b.notes)
  <2>1. Taken(b) = [b EXCEPT !.held = FALSE, !.last = FALSE]
    BY <1>2 DEF Taken
  <2>2. /\ Taken(b) \in [held : BOOLEAN, idx : Nat, notes : Nat, last : BOOLEAN]
        /\ Taken(b).held = FALSE /\ Taken(b).idx = b.idx
        /\ Taken(b).notes = b.notes /\ Taken(b).last = FALSE
    BY <2>1
  <2> QED BY <1>2, <2>2 DEF FramesLeft, HasFrame, IsEndStream
<1> QED BY <1>1, <1>2

LEMMA AppendNext ==
  ASSUME NEW s \in Seq(Nat), s = [i \in 1..Len(s) |-> i]
  PROVE  /\ Append(s, Len(s) + 1) \in Seq(Nat)
         /\ Len(Append(s, Len(s) + 1)) = Len(s) + 1
         /\ Append(s, Len(s) + 1) = [i \in 1..(Len(s) + 1) |-> i]
<1> DEFINE t == Append(s, Len(s) + 1)
<1>1. Len(s) \in Nat /\ t \in Seq(Nat) /\ Len(t) = Len(s) + 1
  OBVIOUS
<1>2. ASSUME NEW i \in 1..(Len(s) + 1) PROVE t[i] = i
  BY <1>1
<1>3. t = [i \in 1..(Len(s) + 1) |-> t[i]]
  BY <1>1
<1> QED BY <1>1, <1>2, <1>3

LEMMA PollFrameStep ==
  ASSUME IInv, NEW r \in Requests, PollFrame(r)
  PROVE  IInv' /\ Promised
<1> DEFINE b == Taken(body[r])
           ends == IsEndStream(b) \/ ~HasFrame(body[r])
           wire == FrameWritten(r, ends)
           m == sent[r].bytes + wire
           k == IF body[r].idx < body[r].notes THEN b.idx ELSE b.notes + 1
           n == Len(sent[r].frames)
           u == [sent[r] EXCEPT !.bytes = m, !.frames = Append(@, k)]
           v == IF HasFrame(body[r]) THEN u ELSE sent[r]
           x == IF ends THEN "done" ELSE "stream"
<1>1. Requests' = Requests
  BY DEF PollFrame, Requests
<1>2. /\ pc' = [pc EXCEPT ![r] = x] /\ Goto(r, x) /\ DOMAIN pc = Requests /\ pc[r] = "stream"
      /\ body' = [body EXCEPT ![r] = b] /\ DOMAIN body = Requests
      /\ UNCHANGED <<conf, request, elapsed, tally>>
      /\ body[r].held => elapsed[r]
  BY DEF PollFrame, Goto, IInv, Shape
<1>3. sent' = [sent EXCEPT ![r] = v]
  <2>1. CASE HasFrame(body[r])
    BY <2>1 DEF PollFrame
  <2>2. CASE ~HasFrame(body[r])
    BY <2>2 DEF PollFrame, IInv, Shape
  <2> QED BY <2>1, <2>2
<1>4. x \in {"done", "stream"} /\ (x = "done" <=> ends)
  OBVIOUS
<1>5. /\ Counts(r) /\ Sends(r) /\ Bodies(r) /\ Waits(r) /\ InHand(r)
      /\ pc'[r] = x /\ body'[r] = b
      /\ body[r] \in [held : BOOLEAN, idx : Nat, notes : Nat, last : BOOLEAN]
      /\ IsSent(sent[r])
  BY <1>2 DEF IInv, Local, Shape
<1>6. /\ n \in Nat /\ sent[r].frames \in Seq(Nat) /\ sent[r].head = TRUE
      /\ sent[r].frames = [i \in 1..n |-> i]
      /\ n + FramesLeft(body[r]) = Total(r)
      /\ body[r].idx <= body[r].notes
      /\ body[r].last => n = body[r].idx
      /\ ~body[r].last => body[r].idx = body[r].notes
      /\ ~Bodiless(r)
  BY <1>2, <1>5 DEF Sends, Bodies, IsSent, Answering
<1>7. /\ b \in [held : BOOLEAN, idx : Nat, notes : Nat, last : BOOLEAN]
      /\ b.idx <= b.notes
      /\ ~b.last => b.idx = b.notes
      /\ FramesLeft(body[r]) \in Nat /\ FramesLeft(b) \in Nat
      /\ HasFrame(body[r]) => /\ body[r].last /\ FramesLeft(b) + 1 = FramesLeft(body[r])
                              /\ b.last => b.idx = body[r].idx + 1
                              /\ k = body[r].idx + 1
      /\ ~HasFrame(body[r]) => /\ ~body[r].last /\ FramesLeft(b) = 0
                               /\ FramesLeft(body[r]) = 0 /\ ~b.last
      /\ ends => FramesLeft(b) = 0
  BY <1>5, <1>6, TakenFacts
<1> HIDE DEF m, k, b
<1>8. /\ v \in [head : BOOLEAN, frames : Seq(Nat), bytes : {v.bytes}]
      /\ v.head = TRUE
      /\ v.frames = [i \in 1..Len(v.frames) |-> i]
      /\ HasFrame(body[r]) => v.frames = Append(sent[r].frames, n + 1) /\ Len(v.frames) = n + 1
      /\ ~HasFrame(body[r]) => v.frames = sent[r].frames
  <2>1. CASE HasFrame(body[r])
    <3>1. k = n + 1 /\ v = u
      BY <1>6, <1>7, <2>1
    <3>2. /\ Append(sent[r].frames, n + 1) \in Seq(Nat)
          /\ Len(Append(sent[r].frames, n + 1)) = n + 1
          /\ Append(sent[r].frames, n + 1) = [i \in 1..(n + 1) |-> i]
      BY <1>6, AppendNext
    <3> DEFINE f == Append(sent[r].frames, n + 1)
    <3>3. u = [sent[r] EXCEPT !.bytes = m, !.frames = f]
      BY <3>1
    <3> HIDE DEF f
    <3>4. /\ u.frames = f /\ u.bytes = m /\ u.head = sent[r].head
          /\ f \in Seq(Nat) => u \in [head : BOOLEAN, frames : Seq(Nat), bytes : {m}]
      BY <1>5, <3>3 DEF IsSent
    <3> HIDE DEF u
    <3> QED BY <1>6, <2>1, <3>1, <3>2, <3>4 DEF f
  <2>2. CASE ~HasFrame(body[r])
    BY <1>5, <1>6, <2>2 DEF IsSent
  <2> QED BY <2>1, <2>2
<1> HIDE DEF v, x
<1>9. /\ sent'[r] = v /\ \A q \in Requests : q # r => sent'[q] = sent[q]
      /\ sent' = [q \in Requests |-> sent'[q]]
  BY <1>1, <1>3 DEF IInv, Shape
<1>10. Shape'
  <2>1. \A q \in Requests : IsSent(sent[q])'
    BY <1>8, <1>9 DEF IInv, Shape, IsSent
  <2>2. pc' \in [Requests -> Waiting \cup Answering \cup Ended]
    BY <1>2, <1>4 DEF IInv, Shape, Answering
  <2>3. body' \in [Requests -> [held : BOOLEAN, idx : Nat, notes : Nat, last : BOOLEAN]]
    BY <1>2, <1>7 DEF IInv, Shape
  <2> QED BY <1>1, <1>2, <1>9, <2>1, <2>2, <2>3 DEF IInv, Shape, IsTally
<1>11. Total(r)' = Total(r) /\ FramesLeft(body[r])' = FramesLeft(b)
  BY <1>2, <1>5 DEF Total, FramesLeft
<1>12. Len(v.frames) + FramesLeft(b) = n + FramesLeft(body[r])
  <2>1. n \in Nat /\ FramesLeft(body[r]) \in Nat /\ FramesLeft(b) \in Nat
    BY <1>6, <1>7
  <2>2. CASE HasFrame(body[r])
    <3>1. Len(v.frames) = n + 1
      BY <1>8, <2>2
    <3>2. FramesLeft(b) + 1 = FramesLeft(body[r])
      BY <1>7, <2>2
    <3> HIDE DEF n
    <3> QED BY <2>1, <3>1, <3>2
  <2>3. CASE ~HasFrame(body[r])
    <3>1. v.frames = sent[r].frames /\ FramesLeft(b) = FramesLeft(body[r])
      BY <1>7, <1>8, <2>3
    <3> QED BY <3>1
  <2> QED BY <2>2, <2>3
<1>13. Local(r)'
  <2>1. Counts(r)'
    BY <1>2, <1>4, <1>5, <1>6, <1>8, <1>9 DEF Counts, Answering
  <2>2. Sends(r)'
    BY <1>2, <1>4, <1>5, <1>6, <1>8, <1>9 DEF Sends, Bodiless, Waiting
  <2>3. Bodies(r)'
    <3>1. b.last => Len(v.frames) = b.idx
      BY <1>6, <1>7, <1>8
    <3> QED BY <1>2, <1>4, <1>5, <1>6, <1>7, <1>9, <1>11, <1>12, <3>1 DEF Bodies, Bodiless
  <2>4. Waits(r)'
    BY <1>2, <1>4, <1>5 DEF Waits
  <2>5. InHand(r)' /\ Places(r)'
    BY <1>2, <1>4, <1>5 DEF InHand, Places, Answering
  <2> QED BY <2>1, <2>2, <2>3, <2>4, <2>5 DEF Local
<1>14. ASSUME NEW s \in Requests, s # r PROVE Quiet(s)
  BY <1>2, <1>9, <1>14 DEF Quiet
<1>15. ~conf.http2 => \A q \in 1..(r - 1) : pc[q] = "done"
  BY <1>2 DEF IInv, Order, Answering
<1>16. Order' /\ ServerKeeps'
  BY <1>2, <1>4, <1>15, GoesOn DEF IInv, Answering
<1>17. IInv'
  BY <1>2, <1>10, <1>13, <1>14, <1>16, Assemble
<1>18. Promised
  <2> DEFINE st == [q \in Requests |-> Stage(q)]
             pa == [q \in Requests |-> Parts(q)]
             de == [q \in Requests |-> sent[q].frames]
  <2>1. st[r] = "headed" /\ st' = [st EXCEPT ![r] = Stage(r)']
        /\ Stage(r)' = IF x = "done" THEN "over" ELSE "headed"
    <3>1. Stage(r) = "headed"
      BY <1>2 DEF Stage
    <3>2. Stage(r)' = IF x = "done" THEN "over" ELSE "headed"
      BY <1>4, <1>5 DEF Stage
    <3> QED BY <1>2, <3>1, <3>2, StageMoves DEF IInv
  <2>2. pa[r] = n + FramesLeft(body[r]) /\ pa' = pa
    <3>1. Parts(r) = n + FramesLeft(body[r]) /\ Parts(r)' = Parts(r)
      BY <1>2, <1>6, <1>9, <1>11, <1>12 DEF Parts, Bodiless
    <3>2. ASSUME NEW q \in Requests, q # r PROVE Parts(q)' = Parts(q)
      <4>1. sent'[q] = sent[q] /\ body'[q] = body[q]
        BY <1>2, <1>9, <3>2
      <4> QED BY <1>2, <4>1 DEF Parts, Bodiless
    <3> QED BY <1>1, <3>1, <3>2
  <2>3. [q \in Requests |-> tally[q].requests + tally[q].responses]'
          = [q \in Requests |-> tally[q].requests + tally[q].responses]
    BY <1>1, <1>2
  <2>4. de[r] = sent[r].frames /\ de' = [de EXCEPT ![r] = v.frames]
    BY <1>1, <1>9
  <2>5. CASE HasFrame(body[r])
    <3>1. n + 1 <= pa[r] /\ (x = "done" => n + 1 = pa[r])
      BY <1>4, <1>6, <1>7, <2>2, <2>5
    <3>2. \/ st' = [st EXCEPT ![r] = "headed"]
          \/ n + 1 = pa[r] /\ st' = [st EXCEPT ![r] = "over"]
      BY <1>4, <2>1, <3>1
    <3>3. de' = [de EXCEPT ![r] = Append(@, n + 1)]
      BY <1>8, <2>4, <2>5
    <3>4. Service!Deliver(r)
      BY <2>1, <2>2, <2>3, <2>4, <3>1, <3>2, <3>3 DEF Service!Deliver, Service!Move
    <3> QED BY <1>1, <1>2, <3>4 DEF Promised, Service!Next
  <2>6. CASE ~HasFrame(body[r])
    <3>1. n = pa[r] /\ x = "done"
      BY <1>4, <1>6, <1>7, <2>2, <2>6
    <3>2. st' = [st EXCEPT ![r] = "over"]
      BY <2>1, <3>1
    <3>3. de' = de
      BY <1>8, <2>4, <2>6
    <3>4. Service!Finish(r)
      BY <2>1, <2>2, <2>3, <2>4, <3>1, <3>2, <3>3 DEF Service!Finish, Service!Move
    <3> QED BY <1>1, <1>2, <3>4 DEF Promised, Service!Next
  <2> QED BY <2>5, <2>6
<1> QED BY <1>17, <1>18

(***************************************************************************)
(* Requests are given up, and others left alone, with their counters, what *)
(* the client was sent and their bodies as they are.                       *)
(***************************************************************************)
GivesUp(q) ==
  \/ pc'[q] = pc[q]
  \/ pc'[q] \in {"dropped", "failed"} /\ pc[q] \notin Ended
  \/ pc'[q] = "refused" /\ pc[q] = "idle"

LEMMA GiveUpStep ==
  ASSUME IInv, UNCHANGED <<conf, body, elapsed, sent, tally>>,
         request' \in [Requests -> Arrivals],
         pc' \in [Requests -> Waiting \cup Answering \cup Ended],
         \A q \in Requests : GivesUp(q) /\ Quiet(q), ServerKeeps'
  PROVE  IInv' /\ Promised
<1>1. Requests = 1..Len(conf.kind) /\ Len(conf.kind) \in Nat /\ Requests' = Requests
  BY ConfFacts DEF IInv, Shape, Requests
<1>2. Shape'
  BY <1>1 DEF IInv, Shape, IsSent, IsTally
<1>3. ASSUME NEW q \in Requests PROVE Local(q)'
  BY <1>3, QuietLocal DEF IInv
<1>4. Order'
  <2> SUFFICES ASSUME ~conf.http2, NEW s \in Requests,
                      pc'[s] \in {"collect", "delay"} \cup Answering, NEW q \in 1..(s - 1)
               PROVE  pc'[q] = "done"
    BY <1>1 DEF Order
  <2>1. pc'[s] = pc[s]
    BY DEF GivesUp, Answering
  <2>2. q \in Requests /\ pc[q] = "done"
    BY <1>1, <2>1 DEF IInv, Order
  <2> QED BY <2>2 DEF GivesUp
<1>5. IInv'
  BY <1>1, <1>2, <1>3, <1>4 DEF IInv
<1>6. Promised
  <2>1. ASSUME NEW q \in Requests
        PROVE  /\ \/ pc'[q] = pc[q]
                  \/ pc'[q] \in {"failed", "dropped", "refused"} /\ pc[q] # "done"
               /\ Counted(q)' = Counted(q)
    BY DEF GivesUp, Counted
  <2> QED BY <2>1, PromisedGiveUp DEF IInv
<1> QED BY <1>5, <1>6

(***************************************************************************)
(* No request is refused but those that were, and no cause of a refusal    *)
(* goes away.                                                              *)
(***************************************************************************)
LEMMA StillKeeps ==
  ASSUME IInv, conf' = conf,
         \A q \in Requests :
           /\ pc'[q] = "refused" => pc[q] = "refused"
           /\ pc[q] = "failed" => pc'[q] = "failed"
           /\ request[q] = "cut" => request'[q] = "cut"
  PROVE  ServerKeeps'
<1>1. Requests = 1..Len(conf.kind) /\ Len(conf.kind) \in Nat /\ Requests' = Requests
  BY ConfFacts DEF IInv, Shape, Requests
<1> SUFFICES ASSUME NEW s \in Requests, pc'[s] = "refused"
             PROVE  /\ ~conf.http2
                    /\ \E q \in 1..(s - 1) :
                         \/ pc'[q] = "failed"
                         \/ /\ request'[q] = "cut"
                            /\ conf.kind[q] = "misdirected"
                                 \/ (conf.runtime # "mcp" /\ ~conf.meter /\ ~conf.verbose)
  BY <1>1 DEF ServerKeeps
<1>2. /\ ~conf.http2
      /\ \E q \in 1..(s - 1) :
           \/ pc[q] = "failed"
           \/ /\ request[q] = "cut"
              /\ conf.kind[q] = "misdirected"
                   \/ (conf.runtime # "mcp" /\ ~conf.meter /\ ~conf.verbose)
  BY DEF IInv, ServerKeeps
<1>3. \A q \in 1..(s - 1) : q \in Requests
  BY <1>1
<1> QED BY <1>2, <1>3

LEMMA DrainStep ==
  ASSUME IInv, NEW r \in Requests, Drain(r)
  PROVE  IInv' /\ Promised
<1>1. /\ ~conf.http2 /\ LeavesBody(r) /\ pc[r] \in Answering
      /\ request[r] \in {"head", "whole", "broken"}
      /\ UNCHANGED <<conf, body, elapsed, sent, tally>>
      /\ \/ request' = [request EXCEPT ![r] = "drained"] /\ pc' = pc
         \/ /\ request' = [request EXCEPT ![r] = "cut"]
            /\ pc' = [q \in Requests |-> IF pc[q] = "idle" THEN "refused" ELSE pc[q]]
  BY DEF Drain, Answering
<1>2. /\ request' \in [Requests -> Arrivals]
      /\ pc' \in [Requests -> Waiting \cup Answering \cup Ended]
  <2>1. /\ request \in [Requests -> Arrivals]
        /\ pc \in [Requests -> Waiting \cup Answering \cup Ended]
    BY DEF IInv, Shape
  <2>2. "drained" \in Arrivals /\ "cut" \in Arrivals /\ "refused" \in Ended
    BY DEF Arrivals, Ended
  <2>3. request' \in [Requests -> Arrivals]
    BY <1>1, <2>1, <2>2
  <2>4. pc' \in [Requests -> Waiting \cup Answering \cup Ended]
    BY <1>1, <2>1, <2>2
  <2> QED BY <2>3, <2>4
<1>3. conf.runtime # "mcp" \/ conf.kind[r] = "misdirected"
  BY <1>1 DEF LeavesBody
<1>4. ASSUME NEW q \in Requests PROVE GivesUp(q) /\ Quiet(q)
  BY <1>1, <1>3 DEF GivesUp, Quiet, IInv, Shape
<1>5. CASE request' = [request EXCEPT ![r] = "drained"] /\ pc' = pc
  <2>1. ServerKeeps'
    BY <1>1, <1>5, StillKeeps DEF IInv, Shape
  <2> QED BY <1>1, <1>2, <1>4, <2>1, GiveUpStep
<1>6. CASE /\ request' = [request EXCEPT ![r] = "cut"]
           /\ pc' = [q \in Requests |-> IF pc[q] = "idle" THEN "refused" ELSE pc[q]]
  <2>1. Requests = 1..Len(conf.kind) /\ Len(conf.kind) \in Nat /\ Requests' = Requests
    BY <1>1, ConfFacts DEF IInv, Shape, Requests
  <2>2. ServerKeeps'
    <3> SUFFICES ASSUME NEW s \in Requests, pc'[s] = "refused"
                 PROVE  /\ ~conf.http2
                        /\ \E q \in 1..(s - 1) :
                             \/ pc'[q] = "failed"
                             \/ /\ request'[q] = "cut"
                                /\ conf.kind[q] = "misdirected"
                                     \/ (conf.runtime # "mcp" /\ ~conf.meter /\ ~conf.verbose)
      BY <1>1, <2>1 DEF ServerKeeps
    <3>1. CASE pc[s] = "refused"
      <4>1. PICK q \in 1..(s - 1) :
              \/ pc[q] = "failed"
              \/ /\ request[q] = "cut"
                 /\ conf.kind[q] = "misdirected"
                      \/ (conf.runtime # "mcp" /\ ~conf.meter /\ ~conf.verbose)
        BY <3>1 DEF IInv, ServerKeeps
      <4>2. /\ q \in Requests
            /\ pc[q] = "failed" => pc'[q] = "failed"
            /\ request[q] = "cut" => request'[q] = "cut"
        BY <1>6, <2>1 DEF IInv, Shape
      <4> QED BY <1>1, <4>1, <4>2
    <3>2. CASE pc[s] = "idle"
      <4>1. r \in 1..(s - 1)
        <5>1. ASSUME s < r PROVE FALSE
          <6>1. s \in 1..(r - 1)
            BY <2>1, <5>1
          <6>2. pc[s] = "done"
            BY <1>1, <6>1 DEF IInv, Order
          <6> QED BY <3>2, <6>2
        <5>2. s # r
          BY <1>1, <3>2 DEF Answering
        <5> QED BY <2>1, <5>1, <5>2
      <4>2. request'[r] = "cut"
        BY <1>6 DEF IInv, Shape
      <4>3. conf.kind[r] = "misdirected"
              \/ (conf.runtime # "mcp" /\ ~conf.meter /\ ~conf.verbose)
        BY <1>1 DEF LeavesBody, Collects
      <4> QED BY <1>1, <4>1, <4>2, <4>3
    <3> QED BY <1>6, <3>1, <3>2
  <2> QED BY <1>1, <1>2, <1>4, <2>2, GiveUpStep
<1> QED BY <1>1, <1>5, <1>6
(***************************************************************************)
(* A head that hyper refuses: over HTTP/1, so those before are done, and   *)
(* those behind not begun.                                                 *)
(***************************************************************************)
LEMMA RefuseHeadStep ==
  ASSUME IInv, NEW r \in Requests, RefuseHead(r)
  PROVE  IInv' /\ Promised
<1>1. /\ pc[r] = "head" /\ ~conf.http2
      /\ pc' = [q \in Requests |->
                  IF q = r THEN "failed" ELSE IF pc[q] \in Ended THEN pc[q] ELSE "refused"]
      /\ UNCHANGED <<conf, request, body, elapsed, sent, tally>>
  <2>1. pc[r] = "head" /\ conf.reply.framing /\ Fail(r)
        /\ UNCHANGED <<conf, request, body, elapsed, sent, tally>>
    BY DEF RefuseHead
  <2>2. ~conf.http2
    BY <2>1, ConfFacts DEF IInv, Shape
  <2>3. pc' = [q \in Requests |->
                 IF q = r THEN "failed"
                 ELSE IF conf.http2 \/ pc[q] \in Ended THEN pc[q] ELSE "refused"]
    BY <2>1 DEF Fail
  <2> QED BY <2>1, <2>2, <2>3
<1>2. Requests = 1..Len(conf.kind) /\ Len(conf.kind) \in Nat /\ Requests' = Requests
  BY <1>1, ConfFacts DEF IInv, Shape, Requests
<1>3. ASSUME NEW s \in Requests, s # r, pc[s] \notin Ended
      PROVE  pc[s] = "idle" /\ r \in 1..(s - 1)
  <2>1. CASE s < r
    <3>1. s \in 1..(r - 1)
      BY <1>2, <2>1
    <3>2. pc[s] = "done"
      BY <1>1, <3>1 DEF IInv, Order, Answering
    <3> QED BY <1>3, <3>2
  <2>2. CASE r < s
    <3>1. r \in 1..(s - 1)
      BY <1>2, <2>2
    <3>2. pc[s] \in Waiting \cup Answering
      BY <1>3 DEF IInv, Shape
    <3>3. pc[s] \notin {"collect", "delay"} \cup Answering
      BY <1>1, <3>1 DEF IInv, Order
    <3> QED BY <3>1, <3>2, <3>3 DEF Waiting
  <2> QED BY <1>2, <1>3, <2>1, <2>2
<1>4. /\ request' \in [Requests -> Arrivals]
      /\ pc' \in [Requests -> Waiting \cup Answering \cup Ended]
  BY <1>1 DEF IInv, Shape
<1>5. ASSUME NEW q \in Requests PROVE GivesUp(q) /\ Quiet(q)
  <2>1. CASE q = r
    BY <1>1, <2>1 DEF GivesUp, Quiet
  <2>2. CASE q # r
    BY <1>1, <1>3, <2>2 DEF GivesUp, Quiet
  <2> QED BY <2>1, <2>2
<1>6. ServerKeeps'
  <2> SUFFICES ASSUME NEW s \in Requests, pc'[s] = "refused"
               PROVE  /\ ~conf.http2
                      /\ \E q \in 1..(s - 1) :
                           \/ pc'[q] = "failed"
                           \/ /\ request'[q] = "cut"
                              /\ conf.kind[q] = "misdirected"
                                   \/ (conf.runtime # "mcp" /\ ~conf.meter /\ ~conf.verbose)
    <3>1. UNCHANGED conf
      BY <1>1
    <3> QED BY <1>2, <3>1 DEF ServerKeeps
  <2>1. CASE pc[s] = "refused"
    <3>1. PICK q \in 1..(s - 1) :
            \/ pc[q] = "failed"
            \/ /\ request[q] = "cut"
               /\ conf.kind[q] = "misdirected"
                    \/ (conf.runtime # "mcp" /\ ~conf.meter /\ ~conf.verbose)
      BY <2>1 DEF IInv, ServerKeeps
    <3>2. q \in Requests /\ (pc[q] = "failed" => pc'[q] = "failed")
      BY <1>1, <1>2
    <3> QED BY <1>1, <3>1, <3>2
  <2>2. CASE pc[s] # "refused"
    <3>1. s # r /\ pc[s] \notin Ended
      BY <1>1, <2>2
    <3>2. r \in 1..(s - 1) /\ pc'[r] = "failed"
      BY <1>1, <1>3, <3>1
    <3> QED BY <1>1, <3>2
  <2> QED BY <2>1, <2>2
<1> QED BY <1>1, <1>4, <1>5, <1>6, GiveUpStep

-----------------------------------------------------------------------------
(***************************************************************************)
(* The client.                                                             *)
(***************************************************************************)
LEMMA ArrivalStep ==
  ASSUME IInv, NEW r \in Requests, ClientHead(r) \/ ClientBody(r)
  PROVE  IInv' /\ Promised
<1>1. /\ UNCHANGED <<conf, pc, body, elapsed, sent, tally>>
      /\ request[r] \in {"unsent", "head"}
      /\ \E how \in Arrivals : request' = [request EXCEPT ![r] = how]
  BY DEF ClientHead, ClientBody
<1>2. /\ request' \in [Requests -> Arrivals]
      /\ pc' \in [Requests -> Waiting \cup Answering \cup Ended]
  BY <1>1 DEF IInv, Shape
<1>3. ASSUME NEW q \in Requests PROVE GivesUp(q) /\ Quiet(q)
  BY <1>1 DEF GivesUp, Quiet, IInv, Shape
<1>4. ServerKeeps'
  BY <1>1, StillKeeps DEF IInv, Shape
<1> QED BY <1>1, <1>2, <1>3, <1>4, GiveUpStep

LEMMA DropStep ==
  ASSUME IInv, (\E r \in Requests : ResetStream(r)) \/ LoseConnection
  PROVE  IInv' /\ Promised
<1>1. /\ UNCHANGED <<conf, request, body, elapsed, sent, tally>>
      /\ pc' = [q \in Requests |-> pc'[q]]
      /\ \A q \in Requests : pc'[q] = pc[q] \/ (pc'[q] = "dropped" /\ pc[q] \notin Ended)
  BY DEF ResetStream, LoseConnection, Goto, IInv, Shape
<1>2. /\ request' \in [Requests -> Arrivals]
      /\ pc' \in [Requests -> Waiting \cup Answering \cup Ended]
  BY <1>1 DEF IInv, Shape
<1>3. ASSUME NEW q \in Requests PROVE GivesUp(q) /\ Quiet(q)
  BY <1>1 DEF GivesUp, Quiet
<1>4. ServerKeeps'
  BY <1>1, StillKeeps
<1> QED BY <1>1, <1>2, <1>3, <1>4, GiveUpStep
-----------------------------------------------------------------------------
(***************************************************************************)
(* Every step keeps the invariant and is one of the abstract service, or   *)
(* does not show there.                                                    *)
(***************************************************************************)
LEMMA ServeStep ==
  ASSUME IInv, NEW r \in Requests, Serve(r)
  PROVE  IInv' /\ Promised
<1>1. CASE CallStatic(r)
  <2>1. CASE Collects
    <3>1. /\ Callable(r) /\ ~LeavesBody(r) /\ Goto(r, "collect")
          /\ UNCHANGED <<body, tally>> /\ UNCHANGED <<conf, request, elapsed, sent>>
      BY <1>1, <2>1 DEF CallStatic, LeavesBody
    <3> QED BY <3>1, CollectStep
  <2> QED BY <1>1, <2>1, CallStaticStep
<1>2. CASE CollectedStatic(r) \/ DelayOver(r)
  BY <1>2, CollectedStaticStep, DelayOverStep
<1>3. CASE CallMcp(r) \/ CollectedMcp(r)
  BY <1>3, CallMcpStep, CollectedMcpStep
<1>4. CASE SendHead(r) \/ PollPending(r) \/ SleepOver(r)
  BY <1>4, SendHeadStep, PollPendingStep, SleepOverStep
<1>5. CASE PollFrame(r) \/ Drain(r) \/ RefuseHead(r)
  BY <1>5, PollFrameStep, DrainStep, RefuseHeadStep
<1> QED BY <1>1, <1>2, <1>3, <1>4, <1>5 DEF Serve

LEMMA StepKeeps == IInv /\ [Next]_vars => IInv' /\ Promised
<1> SUFFICES ASSUME IInv, [Next]_vars PROVE IInv' /\ Promised
  OBVIOUS
<1>1. CASE \E r \in Requests : Serve(r)
  BY <1>1, ServeStep
<1>2. CASE \E r \in Requests : ClientHead(r) \/ ClientBody(r)
  BY <1>2, ArrivalStep
<1>3. CASE (\E r \in Requests : ResetStream(r)) \/ LoseConnection
  BY <1>3, DropStep
<1>4. CASE UNCHANGED vars
  <2>1. Requests' = Requests
    BY <1>4 DEF vars, Requests
  <2>2. Shape'
    BY <1>4, <2>1 DEF vars, IInv, Shape, IsSent, IsTally
  <2>3. ASSUME NEW r \in Requests PROVE Local(r)'
    <3>1. Quiet(r)
      BY <1>4 DEF vars, Quiet
    <3> QED BY <3>1, QuietLocal DEF IInv
  <2>4. Order'
    BY <1>4, <2>1 DEF vars, IInv, Order
  <2>5. ServerKeeps'
    BY <1>4, StillKeeps DEF vars
  <2>6. ASSUME NEW q \in Requests
        PROVE  Stage(q)' = Stage(q) /\ Counted(q)' = Counted(q) /\ Parts(q)' = Parts(q)
    BY <1>4 DEF vars, Stage, Counted, Parts, Bodiless, FramesLeft
  <2>7. Promised
    BY <1>4, <2>6, PromisedStutter DEF vars
  <2> QED BY <2>1, <2>2, <2>3, <2>4, <2>5, <2>7 DEF IInv
<1> QED BY <1>1, <1>2, <1>3, <1>4 DEF Next, Client

(***************************************************************************)
(* The invariant, for every set of scenarios.                              *)
(***************************************************************************)
THEOREM Inductive == Safe => []IInv
<1>1. IInv /\ [Next]_vars => IInv'
  BY StepKeeps
<1> QED BY <1>1, InitInv, PTL DEF Safe

(***************************************************************************)
(* RecordedOnce: every request and every response is recorded at most      *)
(* once, in this order, and none that the client saw is missing.           *)
(***************************************************************************)
THEOREM NoneCountedTwice == Safe => []RecordedOnce
<1>1. IInv => RecordedOnce
  <2> SUFFICES ASSUME IInv, NEW r \in Requests
               PROVE  IF conf.meter
                        THEN /\ tally[r].requests \in {0, 1}
                             /\ tally[r].responses <= tally[r].requests
                             /\ sent[r].head => tally[r].responses = 1
                             /\ tally[r].requests > tally[r].responses
                                  => pc[r] \in {"delay", "failed", "dropped"}
                        ELSE tally[r].requests = 0 /\ tally[r].responses = 0
    BY DEF RecordedOnce
  <2>1. /\ tally[r].requests \in {0, 1} /\ tally[r].responses \in {0, 1}
        /\ Counts(r) /\ pc[r] \in Waiting \cup Answering \cup Ended
    BY DEF IInv, Shape, IsTally, Local
  <2> QED BY <2>1 DEF Counts, Waiting, Answering
<1> QED BY <1>1, Inductive, PTL

(***************************************************************************)
(* FramesInOrder: the client gets the frames of a body in their order,     *)
(* each once, and the end only after all of them.                          *)
(***************************************************************************)
THEOREM NoFrameMissing == Safe => []FramesInOrder
<1>1. IInv => FramesInOrder
  <2> SUFFICES ASSUME IInv, NEW r \in Requests
               PROVE  /\ sent[r].frames = [i \in 1..Len(sent[r].frames) |-> i]
                      /\ Len(sent[r].frames) > 0 \/ pc[r] = "done" => sent[r].head
                      /\ pc[r] = "done" => Len(sent[r].frames) = Frames(r)
    BY DEF FramesInOrder
  <2>1. Sends(r) /\ Bodies(r) /\ IsSent(sent[r])
    BY DEF IInv, Local, Shape
  <2>2. Len(sent[r].frames) \in Nat
    BY <2>1 DEF IsSent
  <2>3. ASSUME pc[r] = "done" PROVE Len(sent[r].frames) = Frames(r)
    <3>1. CASE Bodiless(r)
      <4>1. conf.runtime # "mcp"
        BY <3>1, ConfFacts DEF IInv, Shape
      <4> QED BY <2>1, <3>1, <4>1 DEF Sends, Frames
    <3>2. CASE ~Bodiless(r)
      <4>1. Len(sent[r].frames) = Total(r)
        BY <2>1, <2>2, <2>3, <3>2 DEF Bodies, Answering
      <4>2. Total(r) = Frames(r)
        <5>1. CASE conf.runtime # "mcp"
          BY <3>2, <5>1 DEF Total, Frames
        <5>2. CASE conf.runtime = "mcp"
          BY <3>2, <5>2 DEF Total, Frames
        <5> QED BY <5>1, <5>2
      <4> QED BY <4>1, <4>2
    <3> QED BY <3>1, <3>2
  <2>4. Len(sent[r].frames) > 0 \/ pc[r] = "done" => sent[r].head
    BY <2>1, <2>2 DEF Sends
  <2> QED BY <2>1, <2>3, <2>4 DEF Sends
<1> QED BY <1>1, Inductive, PTL

(***************************************************************************)
(* BodyWaits: no frame, and no end but of an empty body over HTTP/1,       *)
(* before the time of --body-delay.                                        *)
(***************************************************************************)
THEOREM NoFrameEarly == Safe => []BodyWaits
<1>1. IInv => BodyWaits
  <2> SUFFICES ASSUME IInv, NEW r \in Requests, conf.bodyDelay
               PROVE  /\ sent[r].frames # <<>> => elapsed[r]
                      /\ pc[r] = "done" => elapsed[r] \/ (conf.reply.size = 0 /\ ~conf.http2)
                      /\ pc[r] = "parked" => sent[r].head
    BY DEF BodyWaits
  <2>1. Waits(r) /\ Sends(r)
    BY DEF IInv, Local
  <2> QED BY <2>1 DEF Waits, Sends
<1> QED BY <1>1, Inductive, PTL

(***************************************************************************)
(* ServerKeeps: a connection over HTTP/1 is closed on the requests behind  *)
(* only where one of them got no response or left its body unread.         *)
(***************************************************************************)
THEOREM ClosesOnlyForCause == Safe => []ServerKeeps
<1>1. IInv => ServerKeeps
  BY DEF IInv
<1> QED BY <1>1, Inductive, PTL
-----------------------------------------------------------------------------
(***************************************************************************)
(* Refinement: a service keeps the promise of RequestService.              *)
(***************************************************************************)
LEMMA InitRefines == Init => Service!Init
<1> SUFFICES ASSUME Init PROVE Service!Init
  OBVIOUS
<1>1. Requests \subseteq Nat /\ (~conf.http2) \in BOOLEAN /\ conf.meter \in BOOLEAN
  BY ConfFacts DEF Init
<1>2. ASSUME NEW r \in Requests
      PROVE  /\ Stage(r) = "waiting" /\ Parts(r) = 0 /\ sent[r].frames = <<>>
             /\ tally[r].requests + tally[r].responses = 0
  <2>1. /\ pc[r] = "idle" /\ sent[r].frames = <<>>
        /\ tally[r].requests = 0 /\ tally[r].responses = 0
    BY DEF Init
  <2>2. FramesLeft(body[r]) = 0
    <3>1. body[r] = [held |-> FALSE, idx |-> 0, notes |-> 0, last |-> FALSE]
      BY DEF Init, FullBody, Body
    <3> QED BY <3>1, EmptyFacts
  <2>3. Stage(r) = "waiting" /\ Parts(r) = 0
    BY <2>1, <2>2 DEF Stage, Parts
  <2> QED BY <2>1, <2>3
<1> QED BY <1>1, <1>2 DEF Service!Init

THEOREM Refinement == Safe => RefinesService
<1>1. Init => Service!Init
  BY InitRefines
<1>2. IInv /\ [Next]_vars => [Service!Next]_(Service!vars)
  BY StepKeeps DEF Promised
<1> QED BY <1>1, <1>2, Inductive, PTL DEF Safe, RefinesService, Service!Spec

-----------------------------------------------------------------------------

(***************************************************************************)
(* The least of a set of numbers.                                          *)
(***************************************************************************)
LEMMA LeastNumber ==
  ASSUME NEW B \in SUBSET Nat, B # {}
  PROVE  \E n \in B : \A m \in B : n <= m
<1>1. PICK n \in B : \A m \in B : ~(<<m, n>> \in OpToRel(<, Nat))
  BY NatLessThanWellFounded, WFMin
<1>2. \A m \in B : ~(m < n)
  BY <1>1 DEF OpToRel
<1> QED BY <1>2

LEMMA MinFacts ==
  ASSUME NEW B \in SUBSET Nat, B # {}
  PROVE  Min(B) \in B /\ \A m \in B : Min(B) <= m
BY LeastNumber DEF Min

(***************************************************************************)
(* Tables of powers: what the prover can work out of one power, it cannot  *)
(* of a variable one.                                                      *)
(***************************************************************************)
TwoTo(k) == 2^k
TenTo(k) == 10^k

LEMMA Powers2 ==
  /\ TwoTo(0) = 1 /\ TwoTo(1) = 2 /\ TwoTo(2) = 4
  /\ TwoTo(3) = 8 /\ TwoTo(4) = 16 /\ TwoTo(5) = 32
  /\ TwoTo(6) = 64 /\ TwoTo(7) = 128 /\ TwoTo(8) = 256
  /\ TwoTo(9) = 512 /\ TwoTo(10) = 1024 /\ TwoTo(11) = 2048
  /\ TwoTo(12) = 4096 /\ TwoTo(13) = 8192 /\ TwoTo(14) = 16384
  /\ TwoTo(15) = 32768 /\ TwoTo(16) = 65536 /\ TwoTo(17) = 131072
  /\ TwoTo(18) = 262144 /\ TwoTo(19) = 524288 /\ TwoTo(20) = 1048576
  /\ TwoTo(21) = 2097152 /\ TwoTo(22) = 4194304 /\ TwoTo(23) = 8388608
  /\ TwoTo(24) = 16777216 /\ TwoTo(25) = 33554432 /\ TwoTo(26) = 67108864
  /\ TwoTo(27) = 134217728 /\ TwoTo(28) = 268435456 /\ TwoTo(29) = 536870912
  /\ TwoTo(30) = 1073741824
BY DEF TwoTo

LEMMA Powers10 ==
  /\ TenTo(0) = 1 /\ TenTo(1) = 10 /\ TenTo(2) = 100
  /\ TenTo(3) = 1000 /\ TenTo(4) = 10000 /\ TenTo(5) = 100000
  /\ TenTo(6) = 1000000 /\ TenTo(7) = 10000000 /\ TenTo(8) = 100000000
BY DEF TenTo

LEMMA MaxFacts ==
  ASSUME NEW b \in Nat, NEW B \in SUBSET (0..b), B # {}
  PROVE  Max(B) \in B /\ \A m \in B : Max(B) >= m
<1> DEFINE C == {b - m : m \in B}
<1>1. C \in SUBSET Nat /\ C # {}
  <2>1. \A m \in B : b - m \in Nat
    OBVIOUS
  <2>2. PICK m \in B : TRUE
    OBVIOUS
  <2> QED BY <2>1, <2>2
<1> HIDE DEF C
<1>2. PICK n \in C : \A m \in C : n <= m
  BY <1>1, LeastNumber
<1> USE DEF C
<1>3. PICK k \in B : n = b - k
  BY <1>2
<1>4. ASSUME NEW m \in B PROVE k >= m
  <2>1. b - m \in C
    OBVIOUS
  <2>2. b - k <= b - m
    BY <1>2, <1>3, <2>1
  <2> QED BY <2>2
<1> QED BY <1>4 DEF Max

(***************************************************************************)
(* The number of hexadecimal digits, by leading_zeros, and of decimal      *)
(* ones, by log10, in every range of sizes.                                *)
(***************************************************************************)
HexLen(n) == (BitsUsed(n) + 3) \div 4

LEMMA BitsFacts ==
  ASSUME NEW n \in Nat, n < SizeLimit
  PROVE  /\ BitsUsed(n) \in 0..30 /\ n < TwoTo(BitsUsed(n))
         /\ \A k \in 0..30 : n < TwoTo(k) => BitsUsed(n) <= k
<1> DEFINE B == {k \in 0..30 : n < TwoTo(k)}
<1>1. 30 \in B /\ B \in SUBSET Nat
  BY Powers2 DEF SizeLimit
<1>2. BitsUsed(n) \in B /\ \A k \in B : BitsUsed(n) <= k
  <2> HIDE DEF B
  <2>1. Min(B) \in B /\ \A k \in B : Min(B) <= k
    BY <1>1, MinFacts
  <2> QED BY <2>1 DEF BitsUsed, B, TwoTo
<1> QED BY <1>2

LEMMA Powers2Grow == \A k \in 0..30 : TwoTo(k) \in Nat /\ \A j \in 0..k : TwoTo(j) <= TwoTo(k)
BY Powers2

LEMMA HexLenTable ==
  ASSUME NEW n \in Nat, 0 < n, n < SizeLimit
  PROVE  /\ n < 16 => HexLen(n) = 1
         /\ 16 <= n /\ n < 256 => HexLen(n) = 2
         /\ 256 <= n /\ n < 4096 => HexLen(n) = 3
         /\ 4096 <= n /\ n < 65536 => HexLen(n) = 4
         /\ 65536 <= n /\ n < 1048576 => HexLen(n) = 5
         /\ 1048576 <= n /\ n < 16777216 => HexLen(n) = 6
         /\ 16777216 <= n /\ n < 268435456 => HexLen(n) = 7
         /\ 268435456 <= n /\ n < SizeLimit => HexLen(n) = 8
<1> DEFINE b == BitsUsed(n)
<1>1. b \in 0..30 /\ n < TwoTo(b) /\ \A k \in 0..30 : n < TwoTo(k) => b <= k
  BY BitsFacts
<1> HIDE DEF b
<1>2. \A k \in 0..30 : TwoTo(k) <= n => b > k
  <2> SUFFICES ASSUME NEW k \in 0..30, TwoTo(k) <= n, b <= k PROVE FALSE
    BY <1>1
  <2>1. TwoTo(b) <= TwoTo(k) /\ TwoTo(b) \in Nat /\ TwoTo(k) \in Nat
    BY <1>1, Powers2Grow
  <2> QED BY <1>1, <2>1
<1>3. HexLen(n) = (b + 3) \div 4
  BY DEF HexLen, b
<1>4. /\ n < 16 => b <= 4
      /\ 16 <= n => b > 4
      /\ n < 256 => b <= 8
      /\ 256 <= n => b > 8
      /\ n < 4096 => b <= 12
      /\ 4096 <= n => b > 12
      /\ n < 65536 => b <= 16
      /\ 65536 <= n => b > 16
      /\ n < 1048576 => b <= 20
      /\ 1048576 <= n => b > 20
      /\ n < 16777216 => b <= 24
      /\ 16777216 <= n => b > 24
      /\ n < 268435456 => b <= 28
      /\ 268435456 <= n => b > 28
      /\ b > 0
  BY <1>1, <1>2, Powers2
<1> QED BY <1>1, <1>3, <1>4

LEMMA LenDigitsTable ==
  ASSUME NEW n \in Nat, n < SizeLimit
  PROVE  /\ n = 0 => LenDigits(n) = 1
         /\ 1 <= n /\ n < 10 => LenDigits(n) = 1
         /\ 10 <= n /\ n < 100 => LenDigits(n) = 2
         /\ 100 <= n /\ n < 1000 => LenDigits(n) = 3
         /\ 1000 <= n /\ n < 10000 => LenDigits(n) = 4
         /\ 10000 <= n /\ n < 100000 => LenDigits(n) = 5
         /\ 100000 <= n /\ n < 1000000 => LenDigits(n) = 6
         /\ 1000000 <= n /\ n < 10000000 => LenDigits(n) = 7
         /\ 10000000 <= n /\ n < 100000000 => LenDigits(n) = 8
         /\ 100000000 <= n /\ n < SizeLimit => LenDigits(n) = 9
<1> DEFINE B == {k \in 0..8 : TenTo(k) <= n}
           m == Max(B)
<1>1. LenDigits(n) = IF n = 0 THEN 1 ELSE 1 + m
  BY DEF LenDigits, TenTo
<1> SUFFICES ASSUME 0 < n
             PROVE  /\ 1 <= n /\ n < 10 => m = 0
                    /\ 10 <= n /\ n < 100 => m = 1
                    /\ 100 <= n /\ n < 1000 => m = 2
                    /\ 1000 <= n /\ n < 10000 => m = 3
                    /\ 10000 <= n /\ n < 100000 => m = 4
                    /\ 100000 <= n /\ n < 1000000 => m = 5
                    /\ 1000000 <= n /\ n < 10000000 => m = 6
                    /\ 10000000 <= n /\ n < 100000000 => m = 7
                    /\ 100000000 <= n => m = 8
  <2> HIDE DEF m
  <2> QED BY <1>1
<1>2. B \in SUBSET (0..8) /\ 0 \in B
  BY Powers10
<1> HIDE DEF B
<1>3. m \in B /\ \A k \in B : m >= k
  BY <1>2, MaxFacts
<1> HIDE DEF m
<1>4. m \in 0..8 /\ TenTo(m) <= n /\ \A k \in 0..8 : TenTo(k) <= n => m >= k
  BY <1>3 DEF B
<1> QED BY <1>4, Powers10

(***************************************************************************)
(* Counting digits by division: the recursion has a function that obeys    *)
(* it, up to every number and then on all of them, and only one.           *)
(***************************************************************************)
Tallies(g, base, S) ==
  g = [k \in S |-> IF k < base THEN 1 ELSE 1 + g[k \div base]]

LEMMA Divided ==
  ASSUME NEW base \in Nat, base > 1, NEW k \in Nat, k >= base
  PROVE  k \div base \in 0..(k - 1)
<1> DEFINE q == k \div base
           r == k % base
<1>1. q \in Int /\ r \in 0..(base - 1) /\ k = base * q + r
  OBVIOUS
<1> HIDE DEF q, r
<1>2. q >= 0
  <2> SUFFICES ASSUME q <= -1 PROVE FALSE
    BY <1>1
  <2>1. base * q <= base * (-1)
    BY <1>1
  <2> QED BY <1>1, <2>1
<1>3. q < k
  <2> SUFFICES ASSUME q >= k PROVE FALSE
    BY <1>1
  <2>1. base * q >= 2 * q
    BY <1>1, <1>2
  <2> QED BY <1>1, <2>1
<1> QED BY <1>1, <1>2, <1>3 DEF q

LEMMA DigitsUnique ==
  ASSUME NEW base \in Nat, base > 1, NEW n \in Nat, NEW m \in Nat, n <= m,
         NEW g, NEW h, Tallies(g, base, 0..m), Tallies(h, base, 0..n)
  PROVE  \A k \in 0..n : g[k] = h[k]
<1> DEFINE B == {k \in 0..n : g[k] # h[k]}
<1> SUFFICES ASSUME B # {} PROVE FALSE
  OBVIOUS
<1>1. B \in SUBSET Nat
  OBVIOUS
<1> HIDE DEF B
<1>2. PICK k \in B : \A j \in B : k <= j
  BY <1>1, LeastNumber
<1>3. k \in 0..n /\ g[k] # h[k]
  BY DEF B
<1>4. k \in 0..m /\ k \in Nat
  BY <1>3
<1>5. g[k] = IF k < base THEN 1 ELSE 1 + g[k \div base]
  BY <1>4 DEF Tallies
<1>6. h[k] = IF k < base THEN 1 ELSE 1 + h[k \div base]
  BY <1>3 DEF Tallies
<1>7. k >= base
  BY <1>3, <1>4, <1>5, <1>6
<1> DEFINE q == k \div base
<1>8. q \in 0..(k - 1)
  BY <1>4, <1>7, Divided
<1> HIDE DEF q
<1>9. q \in 0..n /\ q \notin B
  BY <1>2, <1>3, <1>8
<1> QED BY <1>3, <1>4, <1>5, <1>6, <1>7, <1>9 DEF B, q

LEMMA DigitsUpTo ==
  ASSUME NEW base \in Nat, base > 1
  PROVE  \A n \in Nat : \E g : Tallies(g, base, 0..n)
<1> DEFINE B == {n \in Nat : ~ \E g : Tallies(g, base, 0..n)}
<1> SUFFICES ASSUME B # {} PROVE FALSE
  OBVIOUS
<1>0. B \in SUBSET Nat
  OBVIOUS
<1> HIDE DEF B
<1>1. PICK n \in B : \A j \in B : n <= j
  BY <1>0, LeastNumber
<1>2. n \in Nat /\ \A m \in 0..(n - 1) : \E g : Tallies(g, base, 0..m)
  BY <1>1 DEF B
<1> DEFINE F(m) == CHOOSE g : Tallies(g, base, 0..m)
           Step(k) == IF k < base THEN 1 ELSE 1 + F(k \div base)[k \div base]
           G == [k \in 0..n |-> Step(k)]
<1>3. ASSUME NEW m \in 0..(n - 1) PROVE Tallies(F(m), base, 0..m)
  BY <1>2
<1> HIDE DEF F
<1>4. ASSUME NEW m \in 0..(n - 1) PROVE F(m)[m] = Step(m)
  <2>1. F(m)[m] = IF m < base THEN 1 ELSE 1 + F(m)[m \div base]
    BY <1>2, <1>3, <1>4 DEF Tallies
  <2>2. CASE m >= base
    <3> DEFINE d == m \div base
    <3>1. d \in 0..(m - 1)
      <4>1. m \in Nat
        BY <1>2
      <4> QED BY <2>2, <4>1, Divided
    <3> HIDE DEF d
    <3>2. Tallies(F(d), base, 0..d) /\ Tallies(F(m), base, 0..m)
      BY <1>2, <1>3, <1>4, <3>1
    <3>3. F(m)[d] = F(d)[d]
      BY <1>2, <1>4, <3>1, <3>2, DigitsUnique
    <3> QED BY <1>2, <1>4, <2>1, <2>2, <3>3 DEF d
  <2> QED BY <1>2, <1>4, <2>1, <2>2
<1>5. ASSUME NEW k \in 0..n, k >= base PROVE G[k \div base] = F(k \div base)[k \div base]
  <2> DEFINE d == k \div base
  <2>1. k \in Nat
    BY <1>2
  <2>2. d \in 0..(k - 1)
    BY <1>5, <2>1, Divided
  <2> HIDE DEF d
  <2>3. d \in 0..(n - 1) /\ d \in 0..n
    BY <1>2, <2>2
  <2>4. G[d] = F(d)[d]
    BY <1>4, <2>3
  <2> QED BY <2>4 DEF d
<1>6. ASSUME NEW k \in 0..n PROVE Step(k) = IF k < base THEN 1 ELSE 1 + G[k \div base]
  <2>1. k \in Int /\ base \in Int
    BY <1>2
  <2>2. k < base \/ k >= base
    BY <2>1
  <2> HIDE DEF G
  <2>3. CASE k >= base
    BY <1>5, <2>1, <2>3
  <2> QED BY <2>2, <2>3
<1> HIDE DEF Step
<1>7. Tallies(G, base, 0..n)
  BY <1>6 DEF Tallies
<1> QED BY <1>1, <1>7 DEF B

LEMMA DigitsExist ==
  ASSUME NEW base \in Nat, base > 1
  PROVE  \E g : Tallies(g, base, Nat)
<1> DEFINE F(m) == CHOOSE g : Tallies(g, base, 0..m)
           G == [k \in Nat |-> F(k)[k]]
<1>1. ASSUME NEW m \in Nat PROVE Tallies(F(m), base, 0..m)
  BY DigitsUpTo
<1> HIDE DEF F
<1>2. ASSUME NEW k \in Nat PROVE G[k] = IF k < base THEN 1 ELSE 1 + G[k \div base]
  <2>1. F(k)[k] = IF k < base THEN 1 ELSE 1 + F(k)[k \div base]
    BY <1>1 DEF Tallies
  <2>2. CASE k >= base
    <3> DEFINE d == k \div base
    <3>1. d \in Nat /\ d <= k
      BY <2>2, Divided
    <3> HIDE DEF d
    <3>2. F(k)[d] = F(d)[d]
      BY <1>1, <3>1, DigitsUnique
    <3> QED BY <2>1, <2>2, <3>1, <3>2 DEF d
  <2> QED BY <2>1, <2>2
<1>3. Tallies(G, base, Nat)
  BY <1>2 DEF Tallies
<1> QED BY <1>3

LEMMA DigitsRecursion ==
  ASSUME NEW base \in Nat, base > 1, NEW n \in Nat
  PROVE  Digits(base, n) = IF n < base THEN 1 ELSE 1 + Digits(base, n \div base)
<1> DEFINE D == CHOOSE g : Tallies(g, base, Nat)
<1>1. Tallies(D, base, Nat)
  BY DigitsExist
<1>2. \A k : Digits(base, k) = D[k]
  BY DEF Digits, Tallies
<1> HIDE DEF D
<1> QED BY ZenonT(40), <1>1, <1>2 DEF Tallies

HaveDigits(base, d, lo, hi) == \A k \in Nat : lo <= k /\ k < hi => Digits(base, k) = d

LEMMA OneDigitMore ==
  ASSUME NEW base \in Nat, base > 1, NEW d \in Nat, NEW lo \in Nat, NEW hi \in Nat, lo > 0,
         HaveDigits(base, d, lo, hi)
  PROVE  HaveDigits(base, d + 1, base * lo, base * hi)
<1> SUFFICES ASSUME NEW k \in Nat, base * lo <= k, k < base * hi
             PROVE  Digits(base, k) = d + 1
  BY DEF HaveDigits
<1>0. base * lo \in Nat /\ base * hi \in Nat /\ base * lo >= base
  OBVIOUS
<1> DEFINE q == k \div base
<1>1. k \in Nat /\ k >= base
  BY <1>0
<1>2. q \in Int /\ base * q <= k /\ k < base * q + base
  BY <1>1
<1>3. Digits(base, k) = 1 + Digits(base, q)
  BY <1>1, DigitsRecursion
<1> HIDE DEF q
<1>4. q >= lo
  <2> SUFFICES ASSUME q + 1 <= lo PROVE FALSE
    BY <1>2
  <2>1. base * (q + 1) <= base * lo
    BY <1>2
  <2> QED BY <1>0, <1>2, <2>1
<1>5. q < hi
  <2> SUFFICES ASSUME q >= hi PROVE FALSE
    BY <1>2
  <2>1. base * q >= base * hi
    BY <1>2
  <2> QED BY <1>0, <1>2, <2>1
<1> QED BY <1>2, <1>3, <1>4, <1>5 DEF HaveDigits

(***************************************************************************)
(* The tricks of http.rs count the digits that are written.                *)
(***************************************************************************)
LEMMA HexDigits ==
  ASSUME NEW n \in Nat, 0 < n, n < SizeLimit
  PROVE  Digits(16, n) = HexLen(n)
<1>1. HaveDigits(16, 1, 1, 16)
  BY DigitsRecursion, SMT DEF HaveDigits
<1>2. HaveDigits(16, 2, 16, 256)
  BY <1>1, OneDigitMore, SMT
<1>3. HaveDigits(16, 3, 256, 4096)
  BY <1>2, OneDigitMore, SMT
<1>4. HaveDigits(16, 4, 4096, 65536)
  BY <1>3, OneDigitMore, SMT
<1>5. HaveDigits(16, 5, 65536, 1048576)
  BY <1>4, OneDigitMore, SMT
<1>6. HaveDigits(16, 6, 1048576, 16777216)
  BY <1>5, OneDigitMore, SMT
<1>7. HaveDigits(16, 7, 16777216, 268435456)
  BY <1>6, OneDigitMore, SMT
<1>8. HaveDigits(16, 8, 268435456, 4294967296)
  BY <1>7, OneDigitMore, SMT
<1>9. /\ 1 <= n /\ n < 16 => Digits(16, n) = 1
      /\ 16 <= n /\ n < 256 => Digits(16, n) = 2
      /\ 256 <= n /\ n < 4096 => Digits(16, n) = 3
      /\ 4096 <= n /\ n < 65536 => Digits(16, n) = 4
      /\ 65536 <= n /\ n < 1048576 => Digits(16, n) = 5
      /\ 1048576 <= n /\ n < 16777216 => Digits(16, n) = 6
      /\ 16777216 <= n /\ n < 268435456 => Digits(16, n) = 7
      /\ 268435456 <= n /\ n < SizeLimit => Digits(16, n) = 8
  BY <1>1, <1>2, <1>3, <1>4, <1>5, <1>6, <1>7, <1>8, SMT DEF HaveDigits, SizeLimit
<1> QED BY <1>9, HexLenTable, SMT

LEMMA DecimalDigits ==
  ASSUME NEW n \in Nat, n < SizeLimit
  PROVE  Digits(10, n) = LenDigits(n)
<1>0. Digits(10, 0) = 1
  BY DigitsRecursion, SMT
<1>1. HaveDigits(10, 1, 1, 10)
  BY DigitsRecursion, SMT DEF HaveDigits
<1>2. HaveDigits(10, 2, 10, 100)
  BY <1>1, OneDigitMore, SMT
<1>3. HaveDigits(10, 3, 100, 1000)
  BY <1>2, OneDigitMore, SMT
<1>4. HaveDigits(10, 4, 1000, 10000)
  BY <1>3, OneDigitMore, SMT
<1>5. HaveDigits(10, 5, 10000, 100000)
  BY <1>4, OneDigitMore, SMT
<1>6. HaveDigits(10, 6, 100000, 1000000)
  BY <1>5, OneDigitMore, SMT
<1>7. HaveDigits(10, 7, 1000000, 10000000)
  BY <1>6, OneDigitMore, SMT
<1>8. HaveDigits(10, 8, 10000000, 100000000)
  BY <1>7, OneDigitMore, SMT
<1>9. HaveDigits(10, 9, 100000000, 1000000000)
  BY <1>8, OneDigitMore, SMT
<1>10. /\ 1 <= n /\ n < 10 => Digits(10, n) = 1
       /\ 10 <= n /\ n < 100 => Digits(10, n) = 2
       /\ 100 <= n /\ n < 1000 => Digits(10, n) = 3
       /\ 1000 <= n /\ n < 10000 => Digits(10, n) = 4
       /\ 10000 <= n /\ n < 100000 => Digits(10, n) = 5
       /\ 100000 <= n /\ n < 1000000 => Digits(10, n) = 6
       /\ 1000000 <= n /\ n < 10000000 => Digits(10, n) = 7
       /\ 10000000 <= n /\ n < 100000000 => Digits(10, n) = 8
       /\ 100000000 <= n /\ n < SizeLimit => Digits(10, n) = 9
  BY <1>1, <1>2, <1>3, <1>4, <1>5, <1>6, <1>7, <1>8, <1>9, SMT DEF HaveDigits, SizeLimit
<1> QED BY <1>0, <1>10, LenDigitsTable, SMT
-----------------------------------------------------------------------------
(***************************************************************************)
(* Chunks.  A body in one chunk is as long as http.rs computes; cut into   *)
(* more chunks it is longer.                                               *)
(***************************************************************************)
LEMMA HexLenType ==
  ASSUME NEW n \in Nat, 0 < n, n < SizeLimit
  PROVE  HexLen(n) \in 1..8
BY HexLenTable, SMT DEF SizeLimit

LEMMA OneChunk ==
  ASSUME NEW n \in Nat, 0 < n, n < SizeLimit
  PROVE  /\ ChunkWritten(n) = HexLen(n) + n + 4
         /\ ChunkedBodyWireSize(n) = ChunkWritten(n) + LastChunk
<1>1. HexLen(n) \in Nat /\ Digits(16, n) = HexLen(n)
  BY HexLenType, HexDigits
<1>2. ChunkedBodyWireSize(n) = HexLen(n) + n + 9
  BY DEF ChunkedBodyWireSize, HexLen
<1> QED BY <1>1, <1>2 DEF ChunkWritten, LastChunk

LEMMA HexLenOfSum ==
  ASSUME NEW a \in Nat, NEW b \in Nat, 0 < a, 0 < b, a + b < SizeLimit
  PROVE  HexLen(a + b) <= HexLen(a) + HexLen(b) + 3
<1> DEFINE c == a + b
<1>1. c \in Nat /\ 0 < c /\ a < SizeLimit /\ b < SizeLimit /\ c < SizeLimit
  BY SMT DEF SizeLimit
<1>2. HexLen(a) \in 1..8 /\ HexLen(b) \in 1..8 /\ HexLen(c) \in 1..8
  BY <1>1, HexLenType
<1>3. CASE HexLen(a) + HexLen(b) >= 5
  BY <1>2, <1>3
<1>4. CASE HexLen(a) + HexLen(b) < 5
  <2>1. HexLen(a) <= 3 /\ HexLen(b) <= 3
    BY <1>2, <1>4
  <2>2. a < 4096 /\ b < 4096
    BY <1>1, <2>1, HexLenTable, SMT DEF SizeLimit
  <2>3. c < 65536
    BY <2>2, SMT
  <2> HIDE DEF c
  <2>4. HexLen(c) <= 4
    BY <1>1, <2>3, HexLenTable, SMT
  <2> QED BY <1>2, <2>4 DEF c
<1> QED BY <1>2, <1>3, <1>4

LEMMA ManyChunks ==
  ASSUME NEW S, IsFiniteSet(S), S # {}, NEW f, NEW g,
         \A x \in S : f[x] \in Nat /\ 0 < f[x] /\ g[x] = ChunkWritten(f[x]),
         SumOver(f, S) < SizeLimit
  PROVE  IF \E x \in S : S = {x} THEN SumOver(g, S) = ChunkWritten(SumOver(f, S))
                                 ELSE SumOver(g, S) > ChunkWritten(SumOver(f, S))
<1> DEFINE Good(s) ==
             IF \E x \in s : s = {x} THEN SumOver(g, s) = ChunkWritten(SumOver(f, s))
                                     ELSE SumOver(g, s) > ChunkWritten(SumOver(f, s))
           B == {s \in SUBSET S : s # {} /\ SumOver(f, s) < SizeLimit /\ ~Good(s)}
<1> SUFFICES ASSUME B # {} PROVE FALSE
  OBVIOUS
<1>1. B \in SUBSET SUBSET S
  OBVIOUS
<1> HIDE DEF B
<1>2. PICK s \in B : \A t \in B : t \subseteq s => t = s
  BY <1>1, MinimalSet
<1>3. s \in SUBSET S /\ s # {} /\ IsFiniteSet(s) /\ SumOver(f, s) < SizeLimit /\ ~Good(s)
  BY <1>2, FS_Subset DEF B
<1> DEFINE y == Chosen(s)
           r == s \ {y}
<1>4. /\ y \in S /\ y \in s /\ r \in SUBSET S /\ r \subseteq s /\ r # s /\ IsFiniteSet(r)
      /\ SumOver(f, s) = f[y] + SumOver(f, r)
      /\ SumOver(g, s) = g[y] + SumOver(g, r)
  BY <1>3, SumChosen, ChosenType, FS_Subset
<1> HIDE DEF y
<1> DEFINE m == f[y]
           n == SumOver(f, r)
<1>5. m \in Nat /\ 0 < m /\ n \in Nat /\ m + n < SizeLimit /\ g[y] = ChunkWritten(m)
  BY <1>3, <1>4, SumNat
<1>6. CASE r = {}
  <2>1. SumOver(f, r) = 0 /\ SumOver(g, r) = 0 /\ s = {y}
    BY <1>4, <1>6, SumEmpty
  <2>2. m < SizeLimit /\ SumOver(f, s) = m
    BY <1>4, <1>5, <2>1
  <2>3. ChunkWritten(m) \in Int
    BY <1>5, <2>2, OneChunk, HexLenType
  <2> QED BY <1>3, <1>4, <1>5, <2>1, <2>2, <2>3
<1>7. CASE r # {}
  <2>1. PICK z \in r : TRUE
    BY <1>7
  <2>2. z # y /\ z \in s
    BY <2>1
  <2>3. 0 < n
    <3>1. n = f[z] + SumOver(f, r \ {z})
      BY <1>4, <2>1, SumTakeOut
    <3>2. SumOver(f, r \ {z}) \in Nat /\ f[z] \in Nat /\ 0 < f[z]
      BY <1>4, <2>1, SumNat, FS_Subset
    <3> QED BY <3>1, <3>2
  <2>4. m < SizeLimit /\ n < SizeLimit
    BY <1>5, SMT DEF SizeLimit
  <2>5. r \notin B
    BY <1>2, <1>4
  <2>6. Good(r)
    BY <1>4, <1>7, <2>4, <2>5 DEF B
  <2>7. /\ HexLen(m) \in 1..8 /\ HexLen(n) \in 1..8 /\ HexLen(m + n) \in 1..8
        /\ ChunkWritten(m) = HexLen(m) + m + 4
        /\ ChunkWritten(n) = HexLen(n) + n + 4
        /\ ChunkWritten(m + n) = HexLen(m + n) + (m + n) + 4
        /\ HexLen(m + n) <= HexLen(m) + HexLen(n) + 3
    BY <1>5, <2>3, <2>4, OneChunk, HexLenType, HexLenOfSum
  <2>8. SumOver(g, r) \in Nat
    <3>1. \A x \in r : g[x] \in Nat
      <4> SUFFICES ASSUME NEW x \in r PROVE g[x] \in Nat
        OBVIOUS
      <4>1. x \in S /\ f[x] \in Nat /\ 0 < f[x] /\ g[x] = ChunkWritten(f[x])
        BY <1>4
      <4>2. f[x] < SizeLimit
        <5>1. n = f[x] + SumOver(f, r \ {x}) /\ SumOver(f, r \ {x}) \in Nat
          BY ZenonT(40), <1>4, SumTakeOut, SumNat, FS_Subset
        <5> QED BY <1>5, <2>4, <4>1, <5>1, SMT DEF SizeLimit
      <4> QED BY <4>1, <4>2, OneChunk, HexLenType
    <3> QED BY <1>4, <3>1, SumNat
  <2>9. ~ \E x \in s : s = {x}
    BY <1>4, <2>2
  <2>10. SumOver(g, r) >= ChunkWritten(n)
    <3>1. SumOver(g, r) = ChunkWritten(n) \/ SumOver(g, r) > ChunkWritten(n)
      BY <2>6, Zenon
    <3> HIDE DEF n
    <3> QED BY <1>5, <2>7, <2>8, <3>1
  <2> HIDE DEF m, n
  <2>11. ChunkWritten(m) + SumOver(g, r) > ChunkWritten(m + n)
    BY <1>5, <2>7, <2>8, <2>10
  <2> QED BY <1>3, <1>4, <1>5, <2>9, <2>11 DEF m, n
<1> QED BY <1>6, <1>7
-----------------------------------------------------------------------------
(***************************************************************************)
(* Heads.  A response's head is as long as http.rs computes, whichever of  *)
(* the headers that hyper adds are given; but for what is Unsaid: the      *)
(* Connection line and the missing reason phrase, which are more; and for  *)
(* the zero that the answer to HEAD does not get, and the header that      *)
(* HTTP/1.0 does not get, which are less.                                  *)
(***************************************************************************)
Special == {"date", "content-length", "transfer-encoding"}

LEMMA HeadersSizeType ==
  ASSUME NEW hs \in Seq(Header)
  PROVE  HeadersSize(hs) \in Nat
<1> DEFINE f == [i \in DOMAIN hs |-> Line(hs[i].name, hs[i].value)]
<1>1. DOMAIN f = 1..Len(hs) /\ Len(hs) \in Nat
  OBVIOUS
<1>2. ASSUME NEW i \in DOMAIN f PROVE f[i] \in Nat
  <2>1. hs[i] \in Header
    OBVIOUS
  <2>2. f[i] = hs[i].name + hs[i].value + 4
    BY DEF Line
  <2> QED BY <2>1, <2>2 DEF Header
<1> HIDE DEF f
<1>3. SumOver(f, DOMAIN f) \in Nat
  BY <1>1, <1>2, SumNat, UpToFinite
<1> QED BY <1>3 DEF HeadersSize, Sizes, f

LEMMA HeaderLineFacts ==
  ASSUME NEW n \in Nat, n < SizeLimit
  PROVE  /\ HeaderLine("date", n) = 37
         /\ HeaderLine("content-length", n) = 18 + LenDigits(n)
         /\ HeaderLine("transfer-encoding", n) = 28
         /\ LenDigits(n) \in Nat
<1>1. LenDigits(n) \in Nat
  BY LenDigitsTable, SMT DEF SizeLimit
<1> QED BY <1>1, DecimalDigits DEF HeaderLine, Line

LEMMA HeaderLinesFacts ==
  ASSUME NEW n \in Nat, n < SizeLimit
  PROVE  /\ \A hs \in SUBSET Special : HeaderLines(hs, n) \in Nat
         /\ HeaderLines({}, n) = 0
         /\ HeaderLines({"date"}, n) = 37
         /\ HeaderLines({"content-length"}, n) = 18 + LenDigits(n)
         /\ HeaderLines({"date", "content-length"}, n) = 55 + LenDigits(n)
         /\ \A hs \in SUBSET Special : "transfer-encoding" \in hs =>
              HeaderLines(hs, n) = HeaderLines(hs \ {"transfer-encoding"}, n) + 28
<1> DEFINE f(hs) == [h \in hs |-> HeaderLine(h, n)]
<1>1. \A hs \in SUBSET Special : IsFiniteSet(hs) /\ \A h \in hs : f(hs)[h] \in Nat
  <2>1. IsFiniteSet(Special)
    <3>1. IsFiniteSet({"date"} \cup {"content-length"})
      BY FS_Singleton, FS_AddElement
    <3>2. Special = ({"date"} \cup {"content-length"}) \cup {"transfer-encoding"}
      BY DEF Special
    <3> QED BY <3>1, <3>2, FS_AddElement
  <2>2. \A h \in Special : HeaderLine(h, n) \in Nat
    BY HeaderLineFacts DEF Special
  <2> QED BY <2>1, <2>2, FS_Subset
<1>2. \A hs \in SUBSET Special : HeaderLines(hs, n) \in Nat
  <2> SUFFICES ASSUME NEW hs \in SUBSET Special PROVE SumOver(f(hs), hs) \in Nat
    BY DEF HeaderLines
  <2> HIDE DEF f
  <2> QED BY <1>1, SumNat
<1>3. HeaderLines({}, n) = 0
  BY SumEmpty DEF HeaderLines
<1>4. ASSUME NEW h \in Special PROVE HeaderLines({h}, n) = HeaderLine(h, n)
  <2> DEFINE e == f({h})
  <2>1. IsFiniteSet({h}) /\ e[h] = HeaderLine(h, n) /\ e[h] \in Nat
    BY <1>1
  <2> HIDE DEF e
  <2>2. SumOver(e, {h}) = e[h]
    BY <2>1, SumOne
  <2> QED BY <2>1, <2>2 DEF HeaderLines, e
<1>5. HeaderLines({"date", "content-length"}, n) = 55 + LenDigits(n)
  <2> DEFINE T == {"date", "content-length"}
             e == f(T)
  <2>1. IsFiniteSet(T) /\ \A h \in T : e[h] \in Nat
    BY <1>1 DEF Special
  <2>2. e["date"] = 37 /\ e["content-length"] = 18 + LenDigits(n) /\ LenDigits(n) \in Nat
    BY HeaderLineFacts
  <2> HIDE DEF e
  <2>3. SumOver(e, T) = e["date"] + SumOver(e, T \ {"date"})
    BY <2>1, SumTakeOut
  <2>4. SumOver(e, T) = e["date"] + SumOver(e, {"content-length"})
    <3>1. T \ {"date"} = {"content-length"}
      OBVIOUS
    <3> QED BY ONLY <2>3, <3>1
  <2>5. SumOver(e, {"content-length"}) = e["content-length"]
    <3>1. IsFiniteSet({"content-length"})
      BY FS_Singleton
    <3> QED BY <2>1, <3>1, SumOne
  <2>6. SumOver(e, T) = 55 + LenDigits(n)
    BY <2>2, <2>4, <2>5
  <2> QED BY <2>6 DEF HeaderLines, e
<1>6. ASSUME NEW hs \in SUBSET Special, "transfer-encoding" \in hs
      PROVE  HeaderLines(hs, n) = HeaderLines(hs \ {"transfer-encoding"}, n) + 28
  <2> DEFINE T == hs \ {"transfer-encoding"}
             e == f(hs)
             d == f(T)
  <2>1. IsFiniteSet(hs) /\ \A h \in hs : e[h] \in Nat
    BY <1>1
  <2>2. IsFiniteSet(T) /\ \A h \in T : e[h] = d[h] /\ d[h] \in Nat
    BY <1>1
  <2>3. e["transfer-encoding"] = 28
    BY <1>6, HeaderLineFacts
  <2>4. HeaderLines(hs, n) = SumOver(e, hs) /\ HeaderLines(T, n) = SumOver(d, T)
    BY DEF HeaderLines
  <2>5. T \in SUBSET Special
    OBVIOUS
  <2> HIDE DEF e, d
  <2>6. SumOver(e, hs) = e["transfer-encoding"] + SumOver(e, T)
    BY <1>6, <2>1, SumTakeOut
  <2>7. SumOver(e, T) = SumOver(d, T)
    BY <2>2, SumEqual
  <2> HIDE DEF T
  <2>8. HeaderLines(T, n) \in Nat
    BY <1>2, <2>5
  <2>9. HeaderLines(hs, n) = 28 + HeaderLines(T, n)
    BY ONLY <2>3, <2>4, <2>6, <2>7
  <2>10. HeaderLines(hs, n) = HeaderLines(T, n) + 28
    BY <2>8, <2>9
  <2> QED BY <2>10 DEF T
<1> QED BY <1>2, <1>3, <1>4, <1>5, <1>6, HeaderLineFacts DEF Special

Unsaid(p) == ConnectionLine(p) + IF p.reason = 0 THEN 6 ELSE 0

ZeroUnsent(p) ==
  IF /\ p.asHead /\ p.length = 0 /\ ~p.empty
     /\ p.given \cap {"content-length", "transfer-encoding"} = {}
  THEN 19 ELSE 0

ChunkedUnsent(p) == IF p.http10 /\ "transfer-encoding" \in p.given THEN 28 ELSE 0

LEMMA HeadRecorded ==
  ASSUME NEW p, p.version = 8, p.reason \in Nat, p.headers \in Seq(Header),
         p.given \in SUBSET Special, p.empty \in BOOLEAN, p.asHead \in BOOLEAN,
         p.http10 \in BOOLEAN, p.connection \in {"none", "close", "keep-alive"},
         p.length \in Nat, p.length < SizeLimit, NEW n,
         p.given \cap {"content-length", "transfer-encoding"} = {} => n = p.length
  PROVE  /\ HeadWritten(p) \in Nat /\ Unsaid(p) \in Nat /\ ResponseHeadSize(p, n) \in Nat
         /\ ResponseHeadSize(p, n) + Unsaid(p) =
              HeadWritten(p) + ZeroUnsent(p) + ChunkedUnsent(p)
<1> DEFINE h == HeadersSize(p.headers)
           g == HeaderLines(p.given, p.length)
           a == HeaderLines(Added(p), p.length)
           d == LenDigits(p.length)
           dated == "date" \in p.given
           sized == p.given \cap {"content-length", "transfer-encoding"} # {}
           o == 15 + p.reason + (h + g) + a + 2
<1>1. h \in Nat /\ g \in Nat /\ d \in Nat
  BY HeadersSizeType, HeaderLinesFacts, HeaderLineFacts
<1>2. sized <=> "content-length" \in p.given \/ "transfer-encoding" \in p.given
  OBVIOUS
<1>3. /\ ResponseHeadSize(p, n) =
           15 + p.reason + (h + g) + (IF dated THEN 0 ELSE 37)
             + (IF ~p.empty /\ ~sized THEN 18 + LenDigits(n) ELSE 0) + 2
  <2>2. ~sized => LenDigits(n) \in Nat
    BY <1>1
  <2>3. ResponseHeadersSize(p) = h + g
    BY DEF ResponseHeadersSize
  <2> DEFINE k == LenDigits(n)
             z == ResponseHeadersSize(p)
  <2>5. ResponseHeadSize(p, n) =
          8 + 1 + 3 + 1 + p.reason + 2 + z
            + (IF dated THEN 0 ELSE 4 + 2 + 29 + 2)
            + (IF ~p.empty /\ ~sized THEN 14 + 2 + k + 2 ELSE 0) + 2
    BY DEF ResponseHeadSize
  <2> HIDE DEF h, g, a, d, sized, dated, k, z
  <2>6. z = h + g /\ (~sized => k \in Nat)
    BY <2>2, <2>3 DEF k, z
  <2>8. ResponseHeadSize(p, n) =
          15 + p.reason + (h + g) + (IF dated THEN 0 ELSE 37)
            + (IF ~p.empty /\ ~sized THEN 18 + k ELSE 0) + 2
    <3>1. CASE ~p.empty /\ ~sized
      BY <1>1, <2>5, <2>6, <3>1
    <3>2. CASE ~(~p.empty /\ ~sized)
      BY <1>1, <2>5, <2>6, <3>2
    <3> QED BY <3>1, <3>2
  <2> QED BY <2>8 DEF k
<1>4. /\ a = (IF dated THEN 0 ELSE 37)
               + IF p.empty \/ sized \/ (p.asHead /\ p.length = 0) THEN 0 ELSE 18 + d
  <2> DEFINE silent == p.empty \/ sized \/ (p.asHead /\ p.length = 0)
  <2>1. Added(p) = IF silent THEN IF dated THEN {} ELSE {"date"}
                   ELSE IF dated THEN {"content-length"} ELSE {"date", "content-length"}
    BY <1>2 DEF Added
  <2> HIDE DEF silent, sized, d
  <2> QED BY <1>1, <2>1, HeaderLinesFacts DEF silent, d
<1>5. p.length = 0 => d = 1
  BY DEF LenDigits
<1>6. ~sized => LenDigits(n) = d
  OBVIOUS
<1> HIDE DEF h, g, a, d, sized, dated
<1>7. o \in Nat /\ a \in Nat
  BY <1>1, <1>4
<1>8. ResponseHeadSize(p, n) = o + ZeroUnsent(p) /\ ZeroUnsent(p) \in Nat
  <2>1. CASE p.empty \/ sized
    <3>1. ZeroUnsent(p) = 0
      BY <2>1 DEF ZeroUnsent, sized
    <3> QED BY <1>1, <1>3, <1>4, <2>1, <3>1
  <2>2. CASE ~p.empty /\ ~sized /\ p.asHead /\ p.length = 0
    <3>1. ZeroUnsent(p) = 19
      BY <2>2 DEF ZeroUnsent, sized
    <3> QED BY <1>1, <1>3, <1>4, <1>5, <1>6, <2>2, <3>1
  <2>3. CASE ~p.empty /\ ~sized /\ ~(p.asHead /\ p.length = 0)
    <3> DEFINE k == IF dated THEN 0 ELSE 37
    <3>1. k \in Nat /\ p.reason \in Nat
      OBVIOUS
    <3>2. a = k + (18 + d) /\ ResponseHeadSize(p, n) = 15 + p.reason + (h + g) + k + (18 + d) + 2
      BY <1>3, <1>4, <1>6, <2>3
    <3>3. ZeroUnsent(p) = 0
      BY <2>3 DEF ZeroUnsent
    <3> HIDE DEF k
    <3>4. ResponseHeadSize(p, n) = o
      BY ONLY <1>1, <3>1, <3>2 DEF o
    <3> QED BY <1>7, <3>3, <3>4
  <2> QED BY <2>1, <2>2, <2>3
<1>9. Unsaid(p) \in Nat /\ HeadWritten(p) \in Nat
      /\ HeadWritten(p) + ChunkedUnsent(p) = o + Unsaid(p)
  <2> DEFINE w == HeaderLines(Passed(p), p.length)
             c == ConnectionLine(p)
             t == ChunkedUnsent(p)
             i == IF p.reason = 0 THEN 6 ELSE 0
             y == p.reason
             z == IF p.reason = 0 THEN 6 ELSE p.reason
  <2>1. Unsaid(p) = c + i /\ c \in Nat /\ i \in Nat
    BY DEF Unsaid, ConnectionLine, Line
  <2>2. g = w + t /\ w \in Nat /\ t \in Nat
    <3>1. CASE p.http10 /\ "transfer-encoding" \in p.given
      <4>1. t = 28 /\ Passed(p) = p.given \ {"transfer-encoding"}
        BY <3>1 DEF ChunkedUnsent, Passed
      <4>2. g = w + 28
        BY <3>1, <4>1, HeaderLinesFacts DEF g
      <4>3. w \in Nat
        BY <4>1, HeaderLinesFacts
      <4> QED BY <4>1, <4>2, <4>3
    <3>2. CASE ~(p.http10 /\ "transfer-encoding" \in p.given)
      <4>1. t = 0
        BY <3>2 DEF ChunkedUnsent
      <4>2. Passed(p) = p.given
        BY <3>2 DEF Passed
      <4>3. g = w
        BY <4>2 DEF g
      <4> QED BY <1>1, <4>1, <4>3
    <3> QED BY <3>1, <3>2
  <2>3. HeadWritten(p) = (8 + 1 + 3 + 1 + z + 2) + h + w + a + c + 2
    BY DEF HeadWritten, h, a
  <2>4. z = y + i /\ y \in Nat
    OBVIOUS
  <2>5. o = 15 + y + (h + g) + a + 2
    OBVIOUS
  <2> HIDE DEF w, c, t, i, y, z, o
  <2>6. /\ HeadWritten(p) \in Nat /\ c + i \in Nat
        /\ HeadWritten(p) + t = o + (c + i)
    BY ONLY <1>1, <1>7, <2>1, <2>2, <2>3, <2>4, <2>5
  <2> QED BY <2>1, <2>6 DEF t
<1> HIDE DEF o
<1>10. ChunkedUnsent(p) \in Nat
  BY DEF ChunkedUnsent
<1> QED BY ONLY <1>7, <1>8, <1>9, <1>10
-----------------------------------------------------------------------------

(***************************************************************************)
(* What is recorded is what was on the wire.                               *)
(*                                                                         *)
(* Of a connection over HTTP/1 whose requests are counted: how many bytes  *)
(* of its response, if that has no framing headers, each request's client  *)
(* was sent, and what its counters hold, at each place of its service.     *)
(***************************************************************************)
Piece(n) == IF conf.ask.http10 THEN n ELSE ChunkWritten(n)
Closing == IF conf.ask.http10 THEN 0 ELSE LastChunk

Notes(n) == SumOver([i \in 1..n |-> Piece(conf.notifications[i])], 1..n)

BodyWritten(r) ==
  IF IsStream(r)
    THEN Notes(body[r].idx)
           + (IF body[r].last THEN 0 ELSE Piece(conf.reply.size))
           + (IF pc[r] = "done" THEN Closing ELSE 0)
    ELSE IF Len(sent[r].frames) = 0 THEN 0 ELSE HeadOf(r).length

Written(r) ==
  ~conf.reply.framing =>
    /\ pc[r] \in Waiting \cup {"head"} => sent[r].bytes = 0
    /\ pc[r] \in {"stream", "parked", "done"} =>
         sent[r].bytes = HeadWritten(HeadOf(r)) + BodyWritten(r)

SizeOut(r) == IF conf.runtime = "mcp" THEN McpSize(r) ELSE StaticSize(r)

Recorded(r) ==
  /\ pc[r] \in {"idle", "collect"} => tally[r].in = 0
  /\ pc[r] \in Waiting => tally[r].out = 0
  /\ pc[r] \in {"delay"} \cup Answering /\ ~LeavesBody(r) =>
       request[r] \in {"bare", "whole", "broken"} /\ tally[r].in = SizeIn(r)
  /\ pc[r] \in Answering => tally[r].out = SizeOut(r)

Form(r) ==
  pc[r] \in Answering =>
    IF IsStream(r)
      THEN body[r].notes = Len(conf.notifications) /\ (pc[r] # "done" => body[r].last)
      ELSE body[r].notes = 0

Bare(r) == request[r] = "bare" => conf.kind[r] \in {"static", "staticHead", "misdirected"}

Wire(r) == Written(r) /\ Recorded(r) /\ Form(r) /\ Bare(r)

Metered == conf.meter /\ ~conf.http2

WireInv == Metered => \A r \in Requests : Wire(r)

(***************************************************************************)
(* The sizes of a scenario are numbers below the limit.                    *)
(***************************************************************************)
LEMMA ConfSizes ==
  ASSUME conf \in Scenarios
  PROVE  /\ conf.reply.size \in Nat /\ conf.reply.size < SizeLimit
         /\ conf.runtime = "mcp" => 0 < conf.reply.size
         /\ conf.reply.reason \in Nat /\ conf.reply.headers \in Seq(Header)
         /\ conf.reply.given \in SUBSET {"date"} /\ conf.reply.empty \in BOOLEAN
         /\ conf.notifications \in Seq(Nat \ {0})
         /\ \A i \in 1..Len(conf.notifications) :
              conf.notifications[i] \in Nat /\ 0 < conf.notifications[i]
                /\ conf.notifications[i] < SizeLimit
         /\ conf.ask.pieces \in Seq(Nat \ {0}) /\ Sizes(conf.ask.pieces) < SizeLimit
         /\ conf.ask.method \in Nat /\ conf.ask.uri \in Nat
         /\ conf.ask.headers \in Seq(Header) /\ conf.ask.chunked \in BOOLEAN
         /\ conf.ask.http10 \in BOOLEAN
<1>1. /\ conf.reply.size \in 0..(SizeLimit - 1)
      /\ Sizes(conf.ask.pieces) \in 0..(SizeLimit - 1)
      /\ conf.notifications \in Seq(Nat \ {0}) /\ conf.ask.pieces \in Seq(Nat \ {0})
      /\ \A i \in DOMAIN conf.notifications : conf.notifications[i] < SizeLimit
      /\ conf.runtime = "mcp" => 0 < conf.reply.size
  BY ScenarioAssumption
<1>2. /\ conf.reply.reason \in Nat /\ conf.reply.headers \in Seq(Header)
      /\ conf.reply.given \in SUBSET {"date"} /\ conf.reply.empty \in BOOLEAN
      /\ conf.ask.method \in Nat /\ conf.ask.uri \in Nat
      /\ conf.ask.headers \in Seq(Header) /\ conf.ask.chunked \in BOOLEAN
      /\ conf.ask.http10 \in BOOLEAN
  BY ScenarioAssumption
<1>3. \A i \in 1..Len(conf.notifications) :
        conf.notifications[i] \in Nat /\ 0 < conf.notifications[i]
          /\ conf.notifications[i] < SizeLimit
  BY <1>1
<1>4. SizeLimit \in Nat
  BY SMT DEF SizeLimit
<1>5. \A k \in 0..(SizeLimit - 1) : k \in Nat /\ k < SizeLimit
  BY <1>4
<1> QED BY <1>1, <1>2, <1>3, <1>5

(***************************************************************************)
(* The head of a response, and its size as recorded.                       *)
(***************************************************************************)
LEMMA HeadFacts ==
  ASSUME conf \in Scenarios, Metered, NEW r \in Requests
  PROVE  LET p == HeadOf(r) IN
         /\ p.version = 8 /\ p.reason \in Nat /\ p.headers \in Seq(Header)
         /\ p.given \in SUBSET Special /\ p.empty \in BOOLEAN /\ p.asHead \in BOOLEAN
         /\ p.length \in Nat /\ p.length < SizeLimit
         /\ p.http10 \in BOOLEAN /\ p.http10 = conf.ask.http10
         /\ p.connection \in {"none", "close", "keep-alive"}
         /\ conf.runtime = "mcp" =>
              p.given \cap {"content-length", "transfer-encoding"} # {}
         /\ HeadWritten(p) \in Nat /\ Unsaid(p) \in Nat /\ Uncounted(r) = Unsaid(p)
<1> DEFINE p == HeadOf(r)
<1>0. /\ VersionOf(r) = 8 /\ Connection(r) \in {"none", "close", "keep-alive"}
      /\ conf.ask.http10 \in BOOLEAN
  BY ConfSizes DEF VersionOf, VersionLen, Connection, Metered
<1>1. /\ p.version = 8 /\ p.reason \in Nat /\ p.headers \in Seq(Header)
      /\ p.given \in SUBSET Special /\ p.empty \in BOOLEAN /\ p.asHead \in BOOLEAN
      /\ p.length \in Nat /\ p.length < SizeLimit
      /\ p.http10 \in BOOLEAN /\ p.http10 = conf.ask.http10
      /\ p.connection \in {"none", "close", "keep-alive"}
      /\ conf.runtime = "mcp" => p.given \cap {"content-length", "transfer-encoding"} # {}
  <2>1. CASE conf.runtime = "mcp"
    <3>1. /\ ContentType(16) \in Header /\ ContentType(17) \in Header /\ CacheControl \in Header
      BY DEF ContentType, CacheControl, Header
    <3>2. /\ <<>> \in Seq(Header) /\ <<ContentType(16)>> \in Seq(Header)
          /\ <<ContentType(17), CacheControl>> \in Seq(Header)
      BY <3>1
    <3>3. McpLength(r) \in Nat /\ McpLength(r) < SizeLimit
      BY ConfSizes, SMT DEF McpLength, ParseErrorSize, SizeLimit
    <3>4. IsStream(r) => IsChunked(r)
      BY DEF IsChunked, Metered
    <3>5. p = McpHead(r)
      BY <2>1 DEF HeadOf
    <3>6. /\ p.version = 8 /\ p.reason \in Nat /\ p.empty \in BOOLEAN /\ p.asHead \in BOOLEAN
          /\ p.length = McpLength(r) /\ p.http10 = conf.ask.http10
          /\ p.connection = Connection(r)
      BY <1>0, <3>5 DEF McpHead
    <3>7. p.headers \in Seq(Header)
      BY <3>2, <3>5 DEF McpHead
    <3>8. p.given = {"transfer-encoding"} \/ p.given = {"content-length"}
      BY <3>4, <3>5 DEF McpHead
    <3> QED BY <1>0, <3>3, <3>6, <3>7, <3>8 DEF Special
  <2>2. CASE conf.runtime # "mcp"
    <3>1. p = StaticHead(r)
      BY <2>2 DEF HeadOf
    <3>2. /\ p.version = 8 /\ p.asHead \in BOOLEAN /\ p.http10 = conf.ask.http10
          /\ p.connection = Connection(r)
      BY <1>0, <3>1 DEF StaticHead
    <3>3. p.given \in SUBSET Special
      BY <3>1, ConfSizes DEF StaticHead, Special
    <3>4. /\ p.reason \in Nat /\ p.headers \in Seq(Header) /\ p.empty \in BOOLEAN
          /\ p.length \in Nat /\ p.length < SizeLimit
      BY <3>1, ConfSizes DEF StaticHead
    <3> QED BY <1>0, <2>2, <3>2, <3>3, <3>4
  <2> QED BY <2>1, <2>2
<1>2. Uncounted(r) = Unsaid(p)
  BY DEF Uncounted, Unsaid
<1> HIDE DEF p
<1>3. HeadWritten(p) \in Nat /\ Unsaid(p) \in Nat
  BY <1>1, HeadRecorded
<1> QED BY <1>1, <1>2, <1>3 DEF p

(***************************************************************************)
(* The sizes of requests, of chunks and of notifications are numbers.      *)
(***************************************************************************)
LEMMA RequestSizes ==
  ASSUME conf \in Scenarios, NEW r \in Requests
  PROVE  /\ HeadIn \in Nat /\ SizeIn(r) \in Nat
         /\ Sizes(conf.ask.pieces) \in Nat
<1> DEFINE n == Sizes(conf.ask.pieces)
<1>1. HeadIn \in Nat
  <2>1. HeadersSize(conf.ask.headers) \in Nat /\ VersionLen(conf.http2) \in Nat
    BY ConfSizes, HeadersSizeType DEF VersionLen
  <2>2. conf.ask.method \in Nat /\ conf.ask.uri \in Nat
    BY ConfSizes
  <2> QED BY <2>1, <2>2 DEF HeadIn, RequestHeadSize
<1>2. n \in Nat /\ n < SizeLimit
  <2> DEFINE s == conf.ask.pieces
  <2>1. s \in Seq(Nat \ {0}) /\ Len(s) \in Nat /\ DOMAIN s = 1..Len(s)
    BY ConfSizes
  <2>2. \A i \in DOMAIN s : s[i] \in Nat
    BY <2>1
  <2> HIDE DEF s
  <2>3. SumOver(s, DOMAIN s) \in Nat
    BY <2>1, <2>2, SumNat, UpToFinite
  <2> QED BY <2>3, ConfSizes DEF Sizes, s
<1> HIDE DEF n
<1>3. ChunkedBodyWireSize(n) \in Nat
  <2>1. CASE n = 0
    BY <2>1 DEF ChunkedBodyWireSize
  <2>2. CASE n # 0
    BY <1>2, <2>2, OneChunk, HexLenType DEF LastChunk
  <2> QED BY <2>1, <2>2
<1>4. SizeIn(r) \in Nat
  BY <1>1, <1>2, <1>3 DEF SizeIn, n
<1> QED BY <1>1, <1>2, <1>4 DEF n

LEMMA PieceFacts ==
  ASSUME conf \in Scenarios, NEW n \in Nat, 0 < n, n < SizeLimit
  PROVE  /\ Piece(n) \in Nat /\ ChunkWritten(n) \in Nat /\ ChunkCost(n) \in Nat
         /\ ChunkWritten(n) = n + ChunkCost(n)
         /\ ChunkedBodyWireSize(n) = ChunkWritten(n) + LastChunk
<1>1. /\ ChunkWritten(n) = HexLen(n) + n + 4 /\ HexLen(n) \in 1..8
      /\ ChunkedBodyWireSize(n) = ChunkWritten(n) + LastChunk
  BY OneChunk, HexLenType
<1>2. ChunkWritten(n) \in Nat
  BY <1>1
<1> QED BY <1>1, <1>2 DEF Piece, ChunkCost

LEMMA NotesFacts ==
  ASSUME conf \in Scenarios
  PROVE  /\ \A n \in 0..Len(conf.notifications) : Notes(n) \in Nat
         /\ Notes(0) = 0
         /\ \A n \in 1..Len(conf.notifications) :
              /\ Piece(conf.notifications[n]) \in Nat
              /\ Notes(n) = Notes(n - 1) + Piece(conf.notifications[n])
<1> DEFINE c(i) == Piece(conf.notifications[i])
           f(n) == [i \in 1..n |-> c(i)]
<1>1. Len(conf.notifications) \in Nat
  BY ConfSizes
<1>2. ASSUME NEW i \in 1..Len(conf.notifications) PROVE c(i) \in Nat
  <2> DEFINE n == conf.notifications[i]
  <2>1. n \in Nat /\ 0 < n /\ n < SizeLimit
    BY <1>2, ConfSizes
  <2> HIDE DEF n
  <2>2. Piece(n) \in Nat
    BY <2>1, PieceFacts
  <2> QED BY <2>2 DEF n
<1> HIDE DEF c
<1>3. \A n \in Nat : Notes(n) = SumOver(f(n), 1..n)
  BY DEF Notes, c
<1>4. ASSUME NEW n \in 0..Len(conf.notifications) PROVE Notes(n) \in Nat
  <2>1. n \in Nat /\ \A i \in 1..n : f(n)[i] \in Nat
    BY <1>1, <1>2
  <2> HIDE DEF f
  <2> QED BY <1>3, <2>1, SumNat, UpToFinite
<1>5. Notes(0) = 0
  <2>1. 1..0 = {}
    OBVIOUS
  <2> QED BY <1>3, <2>1, SumEmpty
<1>6. ASSUME NEW n \in 1..Len(conf.notifications) PROVE Notes(n) = Notes(n - 1) + c(n)
  <2> DEFINE g == f(n)
             h == f(n - 1)
  <2>1. /\ n \in Nat /\ n - 1 \in Nat /\ n \in 1..n /\ (1..n) \ {n} = 1..(n - 1)
        /\ \A i \in 1..n : g[i] \in Nat
        /\ \A i \in 1..(n - 1) : g[i] = h[i]
        /\ g[n] = c(n)
    BY <1>1, <1>2
  <2> HIDE DEF g, h
  <2>2. IsFiniteSet(1..n) /\ IsFiniteSet(1..(n - 1))
    BY <2>1, UpToFinite
  <2>3. SumOver(g, 1..n) = g[n] + SumOver(g, (1..n) \ {n})
    BY <2>1, <2>2, SumTakeOut
  <2>4. SumOver(g, 1..(n - 1)) = SumOver(h, 1..(n - 1))
    BY <2>1, <2>2, SumEqual
  <2>5. Notes(n) = SumOver(g, 1..n) /\ Notes(n - 1) = SumOver(h, 1..(n - 1))
    BY <1>3, <2>1 DEF g, h
  <2>6. Notes(n) = c(n) + Notes(n - 1)
    BY <2>1, <2>3, <2>4, <2>5
  <2>7. c(n) \in Nat /\ Notes(n - 1) \in Nat
    BY <1>1, <1>2, <1>4, <2>1
  <2> QED BY <2>6, <2>7
<1> QED BY <1>2, <1>4, <1>5, <1>6 DEF c

(***************************************************************************)
(* What is recorded of a response, told by what is written.                *)
(***************************************************************************)
Zero(r) ==
  IF conf.kind[r] = "staticHead" /\ conf.reply.size = 0 /\ ~conf.reply.empty
    THEN Line(14, 1) ELSE 0

LEMMA StaticRecorded ==
  ASSUME conf \in Scenarios, Metered, conf.runtime # "mcp", NEW r \in Requests
  PROVE  /\ StaticSize(r) \in Nat
         /\ StaticSize(r) + Uncounted(r) = HeadWritten(HeadOf(r)) + conf.reply.size + Zero(r)
<1> DEFINE p == HeadOf(r)
           n == conf.reply.size
           unsized == p.given \cap {"content-length", "transfer-encoding"} = {}
<1>1. p = StaticHead(r)
  BY DEF HeadOf
<1>2. /\ p.length = n /\ p.empty = conf.reply.empty
      /\ p.asHead <=> conf.kind[r] = "staticHead"
      /\ n = 0 => unsized
  <2>1. p.length = n /\ p.empty = conf.reply.empty /\ p.asHead = (conf.kind[r] = "staticHead")
    BY <1>1 DEF StaticHead
  <2>2. n = 0 => p.given = conf.reply.given
    BY <1>1 DEF StaticHead
  <2>3. conf.reply.given \in SUBSET {"date"}
    BY ConfSizes
  <2> QED BY <2>1, <2>2, <2>3
<1>3. /\ p.version = 8 /\ p.reason \in Nat /\ p.headers \in Seq(Header)
      /\ p.given \in SUBSET Special /\ p.empty \in BOOLEAN /\ p.asHead \in BOOLEAN
      /\ p.length \in Nat /\ p.length < SizeLimit
      /\ p.http10 \in BOOLEAN /\ p.connection \in {"none", "close", "keep-alive"}
      /\ Uncounted(r) = Unsaid(p)
  BY HeadFacts
<1>4. StaticSize(r) = ResponseHeadSize(p, n) + n
  BY <1>1 DEF StaticSize
<1>5. "transfer-encoding" \notin p.given
  BY <1>1, ConfSizes DEF StaticHead
<1> HIDE DEF p, n
<1>6. /\ HeadWritten(p) \in Nat /\ Unsaid(p) \in Nat /\ ResponseHeadSize(p, n) \in Nat
      /\ ResponseHeadSize(p, n) + Unsaid(p)
           = HeadWritten(p) + ZeroUnsent(p) + ChunkedUnsent(p)
  BY <1>2, <1>3, HeadRecorded
<1>7. ZeroUnsent(p) = Zero(r) /\ ChunkedUnsent(p) = 0
  BY <1>2, <1>5 DEF ZeroUnsent, ChunkedUnsent, Zero, Line, n
<1>8. Zero(r) \in Nat /\ n \in Nat
  BY <1>2, <1>3 DEF Zero, Line
<1>9. /\ StaticSize(r) \in Nat
      /\ StaticSize(r) + Uncounted(r) = HeadWritten(p) + n + Zero(r)
  BY ONLY <1>3, <1>4, <1>6, <1>7, <1>8
<1> QED BY <1>9 DEF p, n

LEMMA StreamWritten ==
  ASSUME conf \in Scenarios, Metered, conf.runtime = "mcp", NEW r \in Requests, IsStream(r)
  PROVE  LET f == [i \in DOMAIN conf.notifications |->
                     ChunkedBodyWireSize(conf.notifications[i]) - 5]
             k == Notes(Len(conf.notifications)) + Piece(conf.reply.size) + Closing
         IN /\ Sizes(f) \in Nat /\ ChunkedBodyWireSize(conf.reply.size) \in Nat
            /\ k \in Nat /\ Withheld(r) \in Nat
            /\ Sizes(f) + ChunkedBodyWireSize(conf.reply.size)
                 + (IF conf.ask.http10 THEN 28 ELSE 0) = k + Withheld(r)
<1> DEFINE s == conf.notifications
           l == Len(s)
           m == conf.reply.size
           d == DOMAIN s
           f == [i \in d |-> ChunkedBodyWireSize(s[i]) - 5]
           g == [i \in 1..l |-> Piece(s[i])]
           e == [i \in d |-> ChunkCost(s[i])]
           w == [i \in d |-> ChunkWritten(s[i])]
<1>1. d = 1..l /\ l \in Nat /\ IsFiniteSet(d)
  BY ConfSizes, UpToFinite
<1>2. ASSUME NEW i \in 1..l
      PROVE  /\ s[i] \in Nat /\ f[i] = w[i] /\ w[i] \in Nat
             /\ e[i] \in Nat /\ w[i] = s[i] + e[i]
             /\ g[i] = IF conf.ask.http10 THEN s[i] ELSE w[i]
  <2> DEFINE n == s[i]
  <2>1. n \in Nat /\ 0 < n /\ n < SizeLimit
    BY ConfSizes
  <2>2. /\ f[i] = ChunkedBodyWireSize(n) - 5 /\ w[i] = ChunkWritten(n)
        /\ e[i] = ChunkCost(n) /\ g[i] = Piece(n)
    BY <1>1
  <2> HIDE DEF n, f, w, e, g
  <2>3. /\ ChunkWritten(n) \in Nat /\ ChunkCost(n) \in Nat
        /\ ChunkWritten(n) = n + ChunkCost(n)
        /\ ChunkedBodyWireSize(n) = ChunkWritten(n) + LastChunk
    BY <2>1, PieceFacts
  <2>4. ChunkedBodyWireSize(n) - 5 = ChunkWritten(n)
    BY <2>3 DEF LastChunk
  <2> QED BY <2>1, <2>2, <2>3, <2>4 DEF n, Piece
<1>3. /\ m \in Nat /\ ChunkWritten(m) \in Nat /\ ChunkCost(m) \in Nat
      /\ ChunkWritten(m) = m + ChunkCost(m)
      /\ ChunkedBodyWireSize(m) = ChunkWritten(m) + LastChunk
  <2>1. m \in Nat /\ 0 < m /\ m < SizeLimit
    BY ConfSizes
  <2> HIDE DEF m
  <2> QED BY <2>1, PieceFacts
<1>4. /\ Sizes(f) = SumOver(f, d) /\ Sizes(e) = SumOver(e, d)
      /\ Notes(l) = SumOver(g, d)
  BY <1>1 DEF Sizes, Notes
<1>5. ~Bodiless(r) /\ conf.ask.http10 \in BOOLEAN
  BY ConfFacts, ConfSizes
<1>6. Withheld(r) = IF conf.ask.http10
                      THEN 28 + Sizes(e) + ChunkCost(m) + 5 ELSE 0
  <2>1. Line(17, 7) = 28 /\ LastChunk = 5
    BY DEF Line, LastChunk
  <2> QED BY <1>5, <2>1 DEF Withheld
<1> HIDE DEF s, l, d, m, f, g, e, w
<1>7. SumOver(f, d) = SumOver(w, d) /\ SumOver(w, d) \in Nat
      /\ SumOver(e, d) \in Nat /\ SumOver(s, d) \in Nat
  BY <1>1, <1>2, SumEqual, SumNat
<1>8. CASE conf.ask.http10
  <2>1. SumOver(w, d) = SumOver(s, d) + SumOver(e, d)
    BY <1>1, <1>2, SumOfSums
  <2>2. SumOver(g, d) = SumOver(s, d)
    BY <1>1, <1>2, <1>8, SumEqual
  <2>3. Piece(m) = m /\ Closing = 0
    BY <1>8 DEF Piece, Closing
  <2>4. /\ Sizes(f) \in Nat /\ ChunkedBodyWireSize(m) \in Nat
        /\ Notes(l) + Piece(m) + Closing \in Nat /\ 28 + Sizes(e) + ChunkCost(m) + 5 \in Nat
        /\ Sizes(f) + ChunkedBodyWireSize(m) + 28
             = (Notes(l) + Piece(m) + Closing) + (28 + Sizes(e) + ChunkCost(m) + 5)
    BY ONLY <1>3, <1>4, <1>7, <2>1, <2>2, <2>3 DEF LastChunk
  <2> QED BY <1>6, <1>8, <2>4 DEF s, l, m, d, f
<1>9. CASE ~conf.ask.http10
  <2>1. SumOver(g, d) = SumOver(w, d)
    BY <1>1, <1>2, <1>9, SumEqual
  <2>2. Piece(m) = ChunkWritten(m) /\ Closing = LastChunk
    BY <1>9 DEF Piece, Closing
  <2>3. /\ Sizes(f) \in Nat /\ ChunkedBodyWireSize(m) \in Nat
        /\ Notes(l) + Piece(m) + Closing \in Nat
        /\ Sizes(f) + ChunkedBodyWireSize(m) + 0 = (Notes(l) + Piece(m) + Closing) + 0
    BY ONLY <1>3, <1>4, <1>7, <2>1, <2>2 DEF LastChunk
  <2> QED BY <1>6, <1>9, <2>3 DEF s, l, m, d, f
<1> QED BY <1>8, <1>9

LEMMA McpRecorded ==
  ASSUME conf \in Scenarios, Metered, conf.runtime = "mcp", NEW r \in Requests
  PROVE  /\ McpSize(r) \in Nat /\ Withheld(r) \in Nat
         /\ McpSize(r) + Uncounted(r) =
              HeadWritten(HeadOf(r)) + Withheld(r)
                + IF IsStream(r)
                    THEN Notes(Len(conf.notifications)) + Piece(conf.reply.size) + Closing
                    ELSE HeadOf(r).length
<1> DEFINE p == HeadOf(r)
           m == conf.reply.size
           w == HeadWritten(p)
           u == Unsaid(p)
<1>1. /\ p = McpHead(r) /\ p.length = McpLength(r) /\ ~conf.http2 /\ p.asHead = FALSE
      /\ p.given = IF IsStream(r) THEN {"transfer-encoding"} ELSE {"content-length"}
  BY DEF HeadOf, McpHead, Metered, IsChunked
<1>2. /\ p.version = 8 /\ p.reason \in Nat /\ p.headers \in Seq(Header)
      /\ p.given \in SUBSET Special /\ p.empty \in BOOLEAN /\ p.asHead \in BOOLEAN
      /\ p.length \in Nat /\ p.length < SizeLimit
      /\ p.http10 \in BOOLEAN /\ p.http10 = conf.ask.http10
      /\ p.connection \in {"none", "close", "keep-alive"}
      /\ p.given \cap {"content-length", "transfer-encoding"} # {}
      /\ Uncounted(r) = u
  BY HeadFacts
<1> HIDE DEF p
<1>3. ASSUME NEW n
      PROVE  /\ w \in Nat /\ u \in Nat /\ ResponseHeadSize(p, n) \in Nat
             /\ ResponseHeadSize(p, n) + u
                  = w + IF IsStream(r) /\ conf.ask.http10 THEN 28 ELSE 0
  <2>1. /\ w \in Nat /\ u \in Nat /\ ResponseHeadSize(p, n) \in Nat
        /\ ResponseHeadSize(p, n) + u = w + ZeroUnsent(p) + ChunkedUnsent(p)
    BY <1>2, HeadRecorded
  <2>2. ZeroUnsent(p) = 0
    BY <1>1 DEF ZeroUnsent
  <2>3. ChunkedUnsent(p) = IF IsStream(r) /\ conf.ask.http10 THEN 28 ELSE 0
    BY <1>1, <1>2 DEF ChunkedUnsent
  <2> HIDE DEF w, u
  <2> QED BY <2>1, <2>2, <2>3
<1> HIDE DEF w, u
<1>4. CASE ~IsStream(r)
  <2> DEFINE h == ResponseHeadSize(p, p.length)
  <2>1. McpSize(r) = h + p.length
    BY <1>1, <1>4 DEF McpSize
  <2>2. Withheld(r) = 0
    <3>1. ~Bodiless(r)
      BY ConfFacts
    <3> QED BY <1>4, <3>1 DEF Withheld
  <2>3. h \in Nat /\ w \in Nat /\ u \in Nat /\ h + u = w + 0
    BY <1>3, <1>4
  <2> HIDE DEF h
  <2>4. McpSize(r) \in Nat /\ McpSize(r) + u = w + 0 + p.length
    BY <1>2, <2>1, <2>3
  <2> QED BY <1>2, <1>4, <2>2, <2>4 DEF p, w
<1>5. CASE IsStream(r)
  <2> DEFINE f == [i \in DOMAIN conf.notifications |->
                     ChunkedBodyWireSize(conf.notifications[i]) - 5]
             h == ResponseHeadSize(p, 0)
             k == Notes(Len(conf.notifications)) + Piece(m) + Closing
             t == IF conf.ask.http10 THEN 28 ELSE 0
             a == Sizes(f)
             b == ChunkedBodyWireSize(m)
             v == Withheld(r)
  <2>1. McpSize(r) = h + a + b
    BY <1>1, <1>5 DEF McpSize, StreamSize
  <2>2. a \in Nat /\ b \in Nat /\ k \in Nat /\ v \in Nat /\ a + b + t = k + v
    BY <1>5, StreamWritten
  <2>3. w \in Nat /\ u \in Nat /\ h \in Nat /\ h + u = w + t
    BY <1>3, <1>5
  <2>4. t \in Nat
    OBVIOUS
  <2> HIDE DEF h, k, t, a, b, v
  <2>5. McpSize(r) \in Nat /\ McpSize(r) + u = w + v + k
    BY ONLY <2>1, <2>2, <2>3, <2>4
  <2> QED BY <1>2, <1>5, <2>2, <2>5 DEF p, w, k, m, v
<1> QED BY <1>4, <1>5

(***************************************************************************)
(* A request stays as it is, but that it is given up, or that more of it   *)
(* arrives that its service does not look at.                              *)
(***************************************************************************)
Stays(r) ==
  /\ conf' = conf
  /\ body'[r] = body[r] /\ sent'[r] = sent[r] /\ tally'[r] = tally[r]
  /\ pc'[r] = pc[r] \/ pc'[r] \in {"failed", "dropped", "refused"}
  /\ \/ request'[r] = request[r]
     \/ request[r] \notin {"bare", "whole", "broken"} \/ LeavesBody(r)
  /\ request'[r] = "bare" /\ request[r] # "bare"
       => conf.kind[r] \in {"static", "staticHead", "misdirected"}

(***************************************************************************)
(* The sizes of a request and its response do not change once its service  *)
(* has read it.                                                            *)
(***************************************************************************)
LEMMA SameSizes ==
  ASSUME conf \in Scenarios, NEW r \in Requests, conf' = conf,
         request'[r] = request[r] \/ conf.runtime # "mcp" \/ conf.kind[r] = "misdirected"
  PROVE  /\ IsStream(r)' = IsStream(r) /\ HeadOf(r)' = HeadOf(r)
         /\ SizeOut(r)' = SizeOut(r)
         /\ request'[r] = request[r] => SizeIn(r)' = SizeIn(r)
<1>1. IsStream(r)' = IsStream(r)
  <2>1. CASE request'[r] = request[r]
    BY <2>1 DEF IsStream
  <2>2. CASE conf.runtime # "mcp" \/ conf.kind[r] = "misdirected"
    <3>1. conf.kind[r] # "stream"
      BY <2>2, ConfFacts
    <3> QED BY <3>1 DEF IsStream
  <2> QED BY <2>1, <2>2
<1>2. IsChunked(r)' = IsChunked(r)
  BY <1>1 DEF IsChunked
<1>3. conf.runtime # "mcp" => StaticHead(r)' = StaticHead(r)
  BY DEF StaticHead, VersionOf, Connection, Mirrors
<1>4. conf.runtime = "mcp" => McpLength(r)' = McpLength(r) /\ McpHead(r)' = McpHead(r)
  <2> SUFFICES ASSUME conf.runtime = "mcp"
               PROVE  McpLength(r)' = McpLength(r) /\ McpHead(r)' = McpHead(r)
    OBVIOUS
  <2>1. McpLength(r)' = McpLength(r)
    BY DEF McpLength
  <2>2. conf.kind[r] = "misdirected" \/ request'[r] = request[r]
    OBVIOUS
  <2>3. McpHead(r)' = McpHead(r)
    <3>1. VersionOf(r)' = VersionOf(r) /\ Connection(r)' = Connection(r)
      BY <2>2 DEF VersionOf, Connection, Mirrors
    <3>2. CASE conf.kind[r] = "misdirected"
      BY <1>1, <1>2, <2>1, <3>1, <3>2 DEF McpHead
    <3>3. CASE request'[r] = request[r]
      BY <1>1, <1>2, <2>1, <3>1, <3>3 DEF McpHead
    <3> QED BY <2>2, <3>2, <3>3
  <2> QED BY <2>1, <2>3
<1>5. HeadOf(r)' = HeadOf(r)
  BY <1>3, <1>4 DEF HeadOf
<1>6. conf.runtime # "mcp" => StaticSize(r)' = StaticSize(r)
  BY <1>3 DEF StaticSize
<1>7. conf.runtime = "mcp" => McpSize(r)' = McpSize(r)
  <2> SUFFICES ASSUME conf.runtime = "mcp" PROVE McpSize(r)' = McpSize(r)
    OBVIOUS
  <2>1. StreamSize(r)' = StreamSize(r)
    BY <1>4 DEF StreamSize
  <2> QED BY <1>1, <1>4, <2>1 DEF McpSize
<1>8. SizeOut(r)' = SizeOut(r)
  BY <1>6, <1>7 DEF SizeOut
<1>9. request'[r] = request[r] => SizeIn(r)' = SizeIn(r)
  BY DEF SizeIn, HeadIn
<1> QED BY <1>1, <1>5, <1>8, <1>9

LEMMA StaysWire ==
  ASSUME conf \in Scenarios, Metered, NEW r \in Requests, Wire(r), Stays(r)
  PROVE  Wire(r)'
<1> USE DEF Stays
<1>1. Bare(r)'
  BY DEF Wire, Bare
<1>2. LeavesBody(r)' = LeavesBody(r)
  BY DEF LeavesBody, Collects
<1>3. CASE pc'[r] # pc[r]
  <2>1. pc'[r] \in {"failed", "dropped", "refused"}
    BY <1>3
  <2>2. Written(r)' /\ Recorded(r)' /\ Form(r)'
    BY <2>1 DEF Written, Recorded, Form, Waiting, Answering
  <2> QED BY <1>1, <2>2 DEF Wire
<1>4. CASE pc'[r] = pc[r]
  <2>1. pc[r] \in {"delay"} \cup Answering /\ ~LeavesBody(r) => request'[r] = request[r]
    BY DEF Wire, Recorded
  <2>2. pc[r] \in Answering => /\ IsStream(r)' = IsStream(r) /\ HeadOf(r)' = HeadOf(r)
                               /\ SizeOut(r)' = SizeOut(r)
    <3> SUFFICES ASSUME pc[r] \in Answering
                 PROVE  /\ IsStream(r)' = IsStream(r) /\ HeadOf(r)' = HeadOf(r)
                        /\ SizeOut(r)' = SizeOut(r)
      OBVIOUS
    <3>1. request'[r] = request[r] \/ conf.runtime # "mcp" \/ conf.kind[r] = "misdirected"
      BY <2>1 DEF LeavesBody
    <3> QED BY <3>1, SameSizes
  <2>3. Written(r)'
    <3>1. pc[r] \in {"stream", "parked", "done"} => BodyWritten(r)' = BodyWritten(r)
      BY <1>4, <2>2 DEF BodyWritten, Notes, Piece, Closing, Answering
    <3> QED BY <1>4, <2>2, <3>1 DEF Wire, Written, Answering, Waiting
  <2>4. Recorded(r)'
    <3>1. pc[r] \in {"delay"} \cup Answering /\ ~LeavesBody(r) => SizeIn(r)' = SizeIn(r)
      BY <2>1 DEF SizeIn, HeadIn
    <3> QED BY <1>2, <1>4, <2>1, <2>2, <3>1 DEF Wire, Recorded, Waiting, Answering
  <2>5. Form(r)'
    BY <1>4, <2>2 DEF Wire, Form, Answering
  <2> QED BY <1>1, <2>3, <2>4, <2>5 DEF Wire
<1> QED BY <1>3, <1>4

(***************************************************************************)
(* The services.  One begins to read its request, or answers without; the  *)
(* static one answers or waits, and then answers; the MCP server answers.  *)
(***************************************************************************)
Kept(r) == \A q \in Requests : q # r => Stays(q)

LEMMA CollectWire ==
  ASSUME IInv, Metered, NEW r \in Requests, Wire(r), pc[r] = "idle",
         Goto(r, "collect"), UNCHANGED <<conf, request, body, elapsed, sent, tally>>
  PROVE  Wire(r)' /\ Kept(r)
<1>1. pc' = [pc EXCEPT ![r] = "collect"] /\ DOMAIN pc = Requests
  BY DEF Goto, IInv, Shape
<1>2. Written(r)' /\ Recorded(r)' /\ Form(r)' /\ Bare(r)'
  BY <1>1 DEF Wire, Written, Recorded, Form, Bare, Waiting, Answering
<1> QED BY <1>1, <1>2 DEF Wire, Kept, Stays

LEMMA RespondWire ==
  ASSUME IInv, Metered, NEW r \in Requests, Wire(r), NEW t, Ready(r, t),
         t.in = SizeIn(r), t.out = 0, request[r] \in {"bare", "whole", "broken"},
         DelayOrRespond(r, t) \/ Respond(r, t)
  PROVE  Wire(r)' /\ Kept(r)
<1>0. Requests' = Requests /\ UNCHANGED <<conf, request, elapsed, sent>> /\ conf \in Scenarios
  BY DEF Ready, Requests, IInv, Shape
<1>1. /\ IsTally(t) /\ t.responses = 0 /\ pc[r] \in Waiting /\ conf.runtime # "mcp"
      /\ sent'[r] = sent[r] /\ (~conf.reply.framing => sent[r].bytes = 0)
      /\ DOMAIN pc = Requests /\ DOMAIN body = Requests
  BY DEF Ready, Metered, Wire, Written, IInv, Shape
<1>2. Bare(r)' /\ ~IsStream(r)' /\ SizeIn(r)' = SizeIn(r)
  <2>1. conf.kind[r] # "stream"
    BY <1>0, <1>1, ConfFacts
  <2> QED BY <1>0, <2>1 DEF Wire, Bare, IsStream, SizeIn, HeadIn
<1>3. CASE Record(r, t) /\ Goto(r, "delay") /\ UNCHANGED body
  <2>1. tally'[r] = t /\ \A q \in Requests : q # r => tally'[q] = tally[q]
    BY <1>0, <1>1, <1>3, RecordFacts DEF IInv, Metered
  <2>2. pc' = [pc EXCEPT ![r] = "delay"]
    BY <1>3 DEF Goto
  <2>3. Written(r)' /\ Recorded(r)' /\ Form(r)'
    BY <1>0, <1>1, <1>2, <2>1, <2>2 DEF Written, Recorded, Form, Waiting, Answering
  <2> QED BY <1>0, <1>1, <1>2, <1>3, <2>1, <2>2, <2>3 DEF Wire, Kept, Stays
<1>4. CASE Record(r, t) /\ Fail(r) /\ UNCHANGED body
  <2>1. \A q \in Requests : q # r => tally'[q] = tally[q]
    BY <1>0, <1>1, <1>4, RecordFacts DEF IInv, Metered
  <2>2. pc'[r] = "failed" /\ \A q \in Requests : pc'[q] = pc[q] \/ pc'[q] \in {"failed", "refused"}
    BY <1>4 DEF Fail
  <2>3. Written(r)' /\ Recorded(r)' /\ Form(r)'
    BY <2>2 DEF Written, Recorded, Form, Waiting, Answering
  <2> QED BY <1>0, <1>2, <1>4, <2>1, <2>2, <2>3 DEF Wire, Kept, Stays
<1>5. CASE /\ body' = [body EXCEPT ![r] = StaticBody]
           /\ Record(r, CountOut(t, StaticSize(r)))
           /\ Goto(r, "head")
  <2> DEFINE u == CountOut(t, StaticSize(r))
  <2>1. IsTally(u) /\ u.in = t.in /\ u.out = t.out + StaticSize(r)
    BY <1>1, CountOutFacts
  <2>2. tally'[r] = u /\ \A q \in Requests : q # r => tally'[q] = tally[q]
    BY <1>0, <1>5, <2>1, RecordFacts DEF IInv, Metered
  <2> HIDE DEF u
  <2>3. pc' = [pc EXCEPT ![r] = "head"]
    BY <1>5 DEF Goto
  <2>4. body'[r].notes = 0 /\ \A q \in Requests : q # r => body'[q] = body[q]
    BY <1>1, <1>5 DEF StaticBody, FullBody, Body
  <2>5. u.out = SizeOut(r)'
    <3>1. StaticSize(r) \in Nat
      BY <1>0, <1>1, StaticRecorded
    <3>2. SizeOut(r)' = StaticSize(r)
      BY <1>0, <1>1, SameSizes DEF SizeOut
    <3> QED BY <2>1, <3>1, <3>2
  <2>6. Written(r)' /\ Recorded(r)' /\ Form(r)'
    BY <1>0, <1>1, <1>2, <2>1, <2>2, <2>3, <2>4, <2>5
    DEF Written, Recorded, Form, Waiting, Answering
  <2> QED BY <1>0, <1>1, <1>2, <2>2, <2>3, <2>4, <2>6 DEF Wire, Kept, Stays
<1> QED BY <1>3, <1>4, <1>5 DEF DelayOrRespond, Respond

LEMMA CollectedStaticWire ==
  ASSUME IInv, Metered, NEW r \in Requests, Wire(r), CollectedStatic(r)
  PROVE  Wire(r)' /\ Kept(r)
<1> DEFINE t == CountIn(tally[r], SizeIn(r))
<1>1. /\ pc[r] = "collect" /\ request[r] \in {"bare", "whole", "broken"}
      /\ conf.runtime # "mcp" /\ DelayOrRespond(r, t)
      /\ UNCHANGED <<conf, request, elapsed, sent>>
  BY DEF CollectedStatic, Collected
<1>2. /\ tally[r].requests = 0 /\ tally[r].responses = 0
      /\ IsTally(tally[r]) /\ tally[r].in = 0 /\ tally[r].out = 0
  BY <1>1 DEF IInv, Local, Counts, Shape, IsTally, Wire, Recorded, Waiting
<1>3. SizeIn(r) \in Nat
  BY RequestSizes DEF IInv, Shape
<1>4. IsTally(t) /\ t.requests = 1 /\ t.responses = 0 /\ t.in = SizeIn(r) /\ t.out = 0
  <2>1. IsTally(t) /\ t.requests = 1 /\ t.responses = 0 /\ t.in = 0 + SizeIn(r) /\ t.out = 0
    BY <1>2, CountInFacts
  <2> HIDE DEF t
  <2> QED BY <1>3, <2>1
<1> HIDE DEF t
<1>5. Ready(r, t)
  BY <1>1, <1>4 DEF Ready, Waiting, IInv, Order
<1> QED BY <1>1, <1>4, <1>5, RespondWire

LEMMA DelayOverWire ==
  ASSUME IInv, Metered, NEW r \in Requests, Wire(r), DelayOver(r)
  PROVE  Wire(r)' /\ Kept(r)
<1> DEFINE t == tally[r]
<1>1. pc[r] = "delay" /\ Respond(r, t) /\ UNCHANGED <<conf, request, elapsed, sent>>
  BY DEF DelayOver
<1>2. conf.runtime # "mcp" /\ ~LeavesBody(r)
  BY <1>1 DEF IInv, Local, Places, LeavesBody, Collects, Metered
<1>3. t.requests = 1 /\ t.responses = 0 /\ IsTally(t)
  BY <1>1 DEF IInv, Local, Counts, Shape, IsTally, Metered
<1>4. t.in = SizeIn(r) /\ t.out = 0 /\ request[r] \in {"bare", "whole", "broken"}
  BY <1>1, <1>2 DEF Wire, Recorded, Waiting
<1> HIDE DEF t
<1>5. Ready(r, t)
  BY <1>1, <1>2, <1>3 DEF Ready, Waiting, IInv, Order
<1> QED BY <1>1, <1>4, <1>5, RespondWire

LEMMA AnswerWire ==
  ASSUME IInv, Metered, NEW r \in Requests, Wire(r), NEW t, NEW b,
         IsTally(t), Record(r, t), Answer(r, b), pc[r] \in Waiting, conf.runtime = "mcp",
         UNCHANGED <<conf, request, elapsed, sent>>, t.out = McpSize(r),
         ~LeavesBody(r) => request[r] \in {"bare", "whole", "broken"} /\ t.in = SizeIn(r),
         IF IsStream(r) THEN b.notes = Len(conf.notifications) /\ b.last ELSE b.notes = 0
  PROVE  Wire(r)' /\ Kept(r)
<1>1. /\ Requests' = Requests /\ conf \in Scenarios
      /\ pc' = [pc EXCEPT ![r] = "head"] /\ DOMAIN pc = Requests
      /\ body' = [body EXCEPT ![r] = b] /\ DOMAIN body = Requests
  BY DEF Requests, Answer, Goto, IInv, Shape
<1>2. tally'[r] = t /\ \A q \in Requests : q # r => tally'[q] = tally[q]
  BY <1>1, RecordFacts DEF IInv, Metered
<1>3. /\ IsStream(r)' = IsStream(r) /\ SizeOut(r)' = SizeOut(r) /\ SizeIn(r)' = SizeIn(r)
  BY <1>1, SameSizes
<1>4. pc'[r] = "head" /\ body'[r] = b /\ (~conf.reply.framing => sent'[r].bytes = 0)
  BY <1>1 DEF Wire, Written
<1>5. LeavesBody(r)' = LeavesBody(r)
  BY DEF LeavesBody, Collects
<1>6. Written(r)' /\ Recorded(r)' /\ Bare(r)'
  BY <1>2, <1>3, <1>4, <1>5 DEF Wire, Written, Recorded, Bare, SizeOut, Waiting, Answering
<1>7. Form(r)'
  BY <1>3, <1>4 DEF Form
<1> QED BY <1>1, <1>2, <1>6, <1>7 DEF Wire, Kept, Stays

LEMMA CallMcpWire ==
  ASSUME IInv, Metered, NEW r \in Requests, Wire(r), CallMcp(r)
  PROVE  Wire(r)' /\ Kept(r)
<1>1. pc[r] = "idle" /\ conf.runtime = "mcp" /\ UNCHANGED <<conf, request, elapsed, sent>>
  BY DEF CallMcp, Callable
<1>2. CASE conf.kind[r] # "misdirected"
  BY <1>1, <1>2, CollectWire DEF CallMcp
<1>3. CASE conf.kind[r] = "misdirected"
  <2> DEFINE t == CountIn(tally[r], HeadIn)
             u == CountOut(t, McpSize(r))
  <2>1. Record(r, u) /\ Answer(r, FullBody(TRUE))
    BY <1>3 DEF CallMcp
  <2>2. /\ IsTally(tally[r]) /\ tally[r].requests = 0 /\ tally[r].responses = 0
        /\ tally[r].out = 0
    BY <1>1 DEF IInv, Shape, Local, Counts, IsTally, Wire, Recorded, Waiting
  <2>3. IsTally(t) /\ t.responses = 0 /\ t.out = 0
    BY <2>2, CountInFacts
  <2> HIDE DEF t
  <2>4. IsTally(u) /\ u.out = 0 + McpSize(r)
    BY <2>3, CountOutFacts
  <2>5. McpSize(r) \in Nat
    BY <1>1, McpRecorded DEF IInv, Shape
  <2> HIDE DEF u
  <2>6. u.out = McpSize(r)
    BY <2>4, <2>5
  <2>7. FullBody(TRUE).notes = 0 /\ ~IsStream(r) /\ LeavesBody(r) /\ pc[r] \in Waiting
    BY <1>1, <1>3 DEF FullBody, Body, IsStream, LeavesBody, Waiting
  <2> HIDE DEF FullBody
  <2> QED BY <1>1, <2>1, <2>4, <2>6, <2>7, AnswerWire
<1> QED BY <1>2, <1>3

LEMMA CollectedMcpWire ==
  ASSUME IInv, Metered, NEW r \in Requests, Wire(r), CollectedMcp(r)
  PROVE  Wire(r)' /\ Kept(r)
<1> DEFINE t == CountIn(tally[r], SizeIn(r))
           u == CountOut(t, McpSize(r))
           b == McpAnswer(r)
<1>1. /\ Record(r, u) /\ Answer(r, b) /\ pc[r] = "collect" /\ conf.runtime = "mcp"
      /\ request[r] \in {"bare", "whole", "broken"}
      /\ UNCHANGED <<conf, request, elapsed, sent>>
  BY DEF CollectedMcp, Collected
<1>2. /\ IsTally(tally[r]) /\ tally[r].requests = 0 /\ tally[r].responses = 0
      /\ tally[r].in = 0 /\ tally[r].out = 0
  BY <1>1 DEF IInv, Shape, Local, Counts, IsTally, Wire, Recorded, Waiting
<1>3. IsTally(t) /\ t.responses = 0 /\ t.in = 0 + SizeIn(r) /\ t.out = 0
  BY <1>2, CountInFacts
<1> HIDE DEF t
<1>4. IsTally(u) /\ u.in = t.in /\ u.out = 0 + McpSize(r)
  BY <1>3, CountOutFacts
<1>5. SizeIn(r) \in Nat /\ McpSize(r) \in Nat
  BY <1>1, RequestSizes, McpRecorded DEF IInv, Shape
<1> HIDE DEF u
<1>6. u.in = SizeIn(r) /\ u.out = McpSize(r)
  BY <1>3, <1>4, <1>5
<1>7. conf.kind[r] \in {"unary", "accepted", "stream"}
  <2>1. conf.kind[r] # "misdirected"
    BY <1>1 DEF IInv, Local, Places, LeavesBody
  <2> QED BY <1>1, <2>1, ConfFacts DEF IInv, Shape
<1>8. request[r] # "bare"
  BY <1>7 DEF Wire, Bare
<1>9. IF IsStream(r) THEN b.notes = Len(conf.notifications) /\ b.last ELSE b.notes = 0
  <2>1. /\ FullBody(TRUE).notes = 0 /\ FullBody(FALSE).notes = 0
        /\ SseBody.notes = Len(conf.notifications) /\ SseBody.last
    BY DEF FullBody, SseBody, Body
  <2> HIDE DEF FullBody, SseBody
  <2>2. CASE request[r] = "broken"
    BY <2>1, <2>2 DEF McpAnswer, IsStream
  <2>3. CASE request[r] = "whole" /\ conf.kind[r] = "stream"
    BY <2>1, <2>3 DEF McpAnswer, IsStream
  <2>4. CASE request[r] = "whole" /\ conf.kind[r] \in {"unary", "accepted"}
    BY <2>1, <2>4 DEF McpAnswer, IsStream
  <2> QED BY <1>1, <1>7, <1>8, <2>2, <2>3, <2>4
<1>10. pc[r] \in Waiting
  BY <1>1 DEF Waiting
<1> HIDE DEF b
<1> QED BY <1>1, <1>4, <1>6, <1>9, <1>10, AnswerWire

(***************************************************************************)
(* The response.                                                           *)
(***************************************************************************)
LEMMA SendHeadWire ==
  ASSUME IInv, Metered, NEW r \in Requests, Wire(r), SendHead(r)
  PROVE  Wire(r)' /\ Kept(r)
<1> DEFINE h == IF conf.reply.framing THEN 0 ELSE HeadWritten(HeadOf(r))
           m == sent[r].bytes + h
           v == [sent[r] EXCEPT !.head = TRUE, !.bytes = m]
           x == IF EndsWithHead(r) THEN "done" ELSE "stream"
<1>1. /\ Requests' = Requests /\ conf \in Scenarios
      /\ pc' = [pc EXCEPT ![r] = x] /\ DOMAIN pc = Requests /\ pc[r] = "head"
      /\ sent' = [sent EXCEPT ![r] = v] /\ DOMAIN sent = Requests
      /\ UNCHANGED <<conf, request, body, elapsed, tally>>
  BY DEF SendHead, Goto, IInv, Shape, Requests
<1>2. x \in {"done", "stream"} /\ pc'[r] = x
  BY <1>1
<1>3. ~conf.reply.framing => h \in Nat /\ sent[r].bytes = 0
  BY <1>1, HeadFacts DEF Wire, Written
<1> HIDE DEF h
<1>4. v.frames = sent[r].frames /\ (~conf.reply.framing => v.bytes = h)
  <2>1. ~conf.reply.framing => m = h
    BY <1>3
  <2> HIDE DEF m
  <2> QED BY <2>1 DEF IInv, Shape, IsSent
<1> HIDE DEF v
<1>5. sent'[r] = v /\ \A q \in Requests : q # r => sent'[q] = sent[q]
  BY <1>1
<1>6. Len(sent[r].frames) = 0
  BY <1>1 DEF IInv, Local, Sends
<1>7. IsStream(r)' = IsStream(r) /\ HeadOf(r)' = HeadOf(r) /\ SizeOut(r)' = SizeOut(r)
      /\ SizeIn(r)' = SizeIn(r)
  BY <1>1, SameSizes
<1>8. IsStream(r) => /\ body[r].notes = Len(conf.notifications) /\ body[r].last
                     /\ body[r].idx = 0 /\ x = "stream"
  <2> SUFFICES ASSUME IsStream(r)
               PROVE  /\ body[r].notes = Len(conf.notifications) /\ body[r].last
                      /\ body[r].idx = 0 /\ x = "stream"
    OBVIOUS
  <2>1. body[r].notes = Len(conf.notifications) /\ body[r].last
    BY <1>1 DEF Wire, Form, Answering
  <2>2. body[r].idx = 0
    BY <1>1, <1>6, <2>1 DEF IInv, Local, Bodies, Answering
  <2>3. conf.runtime = "mcp" /\ conf.kind[r] = "stream"
    BY <1>1, ConfFacts DEF IsStream
  <2>4. ~Bodiless(r) /\ HasFrame(body[r]) /\ ~IsEndStream(body[r])
    BY <2>1, <2>3 DEF Bodiless, HasFrame, IsEndStream
  <2> QED BY <2>1, <2>2, <2>4 DEF EndsWithHead
<1> HIDE DEF x
<1>9. Notes(0)' = 0
  BY <1>1, NotesFacts DEF Notes, Piece
<1>10. BodyWritten(r)' = 0
  BY <1>1, <1>2, <1>4, <1>5, <1>6, <1>7, <1>8, <1>9 DEF BodyWritten
<1>11. Written(r)'
  <2>1. ~conf.reply.framing => sent'[r].bytes = HeadWritten(HeadOf(r)') + 0
    BY <1>3, <1>4, <1>5, <1>7 DEF h
  <2> QED BY <1>1, <1>2, <1>10, <2>1 DEF Written, Waiting
<1>12. Recorded(r)' /\ Bare(r)'
  <2>1. LeavesBody(r)' = LeavesBody(r)
    BY <1>1 DEF LeavesBody, Collects
  <2> QED BY <1>1, <1>2, <1>7, <2>1 DEF Wire, Recorded, Bare, Waiting, Answering
<1>13. Form(r)'
  BY <1>1, <1>2, <1>7, <1>8 DEF Wire, Form, Answering
<1> QED BY <1>1, <1>5, <1>11, <1>12, <1>13 DEF Wire, Kept, Stays

LEMMA PollPendingWire ==
  ASSUME IInv, Metered, NEW r \in Requests, Wire(r),
         PollPending(r) \/ SleepOver(r)
  PROVE  Wire(r)' /\ Kept(r)
<1>1. /\ Requests' = Requests /\ conf \in Scenarios
      /\ UNCHANGED <<conf, request, body, sent, tally>>
      /\ pc[r] \in {"head", "stream", "parked"}
      /\ \E x \in {"head", "stream", "parked"} :
           pc' = [pc EXCEPT ![r] = x] /\ (x = "head" <=> pc[r] = "head")
      /\ DOMAIN pc = Requests
  BY DEF PollPending, SleepOver, Goto, IInv, Shape, Requests
<1>2. /\ pc'[r] \in {"head", "stream", "parked"} /\ (pc'[r] = "head" <=> pc[r] = "head")
      /\ \A q \in Requests : q # r => pc'[q] = pc[q]
  BY <1>1
<1>3. IsStream(r)' = IsStream(r) /\ HeadOf(r)' = HeadOf(r) /\ SizeOut(r)' = SizeOut(r)
      /\ SizeIn(r)' = SizeIn(r)
  BY <1>1, SameSizes
<1>4. BodyWritten(r)' = BodyWritten(r)
  BY <1>1, <1>2, <1>3 DEF BodyWritten, Notes, Piece, Closing
<1>5. Written(r)'
  BY <1>1, <1>2, <1>3, <1>4 DEF Wire, Written, Waiting
<1>6. Recorded(r)' /\ Bare(r)'
  <2>1. LeavesBody(r)' = LeavesBody(r)
    BY <1>1 DEF LeavesBody, Collects
  <2> QED BY <1>1, <1>2, <1>3, <2>1 DEF Wire, Recorded, Bare, Waiting, Answering
<1>7. Form(r)'
  BY <1>1, <1>2, <1>3 DEF Wire, Form, Answering
<1> QED BY <1>1, <1>2, <1>5, <1>6, <1>7 DEF Wire, Kept, Stays

LEMMA TakenExactly ==
  ASSUME NEW b \in [held : BOOLEAN, idx : Nat, notes : Nat, last : BOOLEAN]
  PROVE  /\ Taken(b).held = FALSE /\ Taken(b).notes = b.notes
         /\ Taken(b).idx = IF b.idx < b.notes THEN b.idx + 1 ELSE b.idx
         /\ Taken(b).last = IF b.idx < b.notes THEN b.last ELSE FALSE
<1>1. CASE b.idx < b.notes
  <2> DEFINE k == b.idx + 1
  <2>1. Taken(b) = [b EXCEPT !.held = FALSE, !.idx = k]
    BY <1>1 DEF Taken
  <2> HIDE DEF k
  <2>2. /\ Taken(b).held = FALSE /\ Taken(b).idx = k
        /\ Taken(b).notes = b.notes /\ Taken(b).last = b.last
    BY <2>1
  <2> QED BY <1>1, <2>2 DEF k
<1>2. CASE ~(b.idx < b.notes)
  <2>1. Taken(b) = [b EXCEPT !.held = FALSE, !.last = FALSE]
    BY <1>2 DEF Taken
  <2> QED BY <1>2, <2>1
<1> QED BY <1>1, <1>2

LEMMA PollFrameWire ==
  ASSUME IInv, Metered, NEW r \in Requests, Wire(r), PollFrame(r)
  PROVE  Wire(r)' /\ Kept(r)
<1> DEFINE b == Taken(body[r])
           ends == IsEndStream(b) \/ ~HasFrame(body[r])
           wire == FrameWritten(r, ends)
           m == sent[r].bytes + wire
           k == IF body[r].idx < body[r].notes THEN b.idx ELSE b.notes + 1
           n == Len(sent[r].frames)
           u == [sent[r] EXCEPT !.bytes = m, !.frames = Append(@, k)]
           v == IF HasFrame(body[r]) THEN u ELSE sent[r]
           x == IF ends THEN "done" ELSE "stream"
           h == HeadWritten(HeadOf(r))
<1>1. /\ Requests' = Requests /\ conf \in Scenarios
      /\ pc' = [pc EXCEPT ![r] = x] /\ DOMAIN pc = Requests /\ pc[r] = "stream"
      /\ body' = [body EXCEPT ![r] = b] /\ DOMAIN body = Requests
      /\ UNCHANGED <<conf, request, elapsed, tally>>
  BY DEF PollFrame, Goto, IInv, Shape, Requests
<1>2. sent' = [sent EXCEPT ![r] = v] /\ DOMAIN sent = Requests
  <2>1. CASE HasFrame(body[r])
    BY <2>1 DEF PollFrame, IInv, Shape
  <2>2. CASE ~HasFrame(body[r])
    BY <2>2 DEF PollFrame, IInv, Shape
  <2> QED BY <2>1, <2>2
<1>3. /\ x \in {"done", "stream"} /\ (x = "done" <=> ends) /\ pc'[r] = x
      /\ body'[r] = b /\ sent'[r] = v
      /\ \A q \in Requests : q # r =>
           pc'[q] = pc[q] /\ body'[q] = body[q] /\ sent'[q] = sent[q]
  BY <1>1, <1>2
<1>4. /\ body[r] \in [held : BOOLEAN, idx : Nat, notes : Nat, last : BOOLEAN]
      /\ IsSent(sent[r]) /\ n \in Nat
      /\ body[r].last => n = body[r].idx
      /\ body[r].idx <= body[r].notes
  BY <1>1 DEF IInv, Local, Shape, Bodies, IsSent, Answering
<1>5. /\ b.held = FALSE /\ b.notes = body[r].notes
      /\ b.idx = IF body[r].idx < body[r].notes THEN body[r].idx + 1 ELSE body[r].idx
      /\ b.last = IF body[r].idx < body[r].notes THEN body[r].last ELSE FALSE
  BY <1>4, TakenExactly
<1> HIDE DEF b
<1>6. /\ IsStream(r)' = IsStream(r) /\ HeadOf(r)' = HeadOf(r) /\ SizeOut(r)' = SizeOut(r)
      /\ SizeIn(r)' = SizeIn(r)
  BY <1>1, SameSizes
<1>7. /\ h \in Nat /\ HeadOf(r).length \in Nat
      /\ ~conf.reply.framing => sent[r].bytes = h + BodyWritten(r)
  BY <1>1, HeadFacts DEF Wire, Written
<1>8. HasFrame(body[r]) => v.bytes = m /\ Len(v.frames) = n + 1
  <2> SUFFICES ASSUME HasFrame(body[r]) PROVE v.bytes = m /\ Len(v.frames) = n + 1
    OBVIOUS
  <2> DEFINE f == Append(sent[r].frames, k)
  <2>1. v = [sent[r] EXCEPT !.bytes = m, !.frames = f]
    OBVIOUS
  <2>2. k \in Nat /\ sent[r].frames \in Seq(Nat)
    BY <1>4, <1>5 DEF IsSent
  <2> HIDE DEF m, k, v
  <2>3. Len(f) = n + 1
    BY <2>2
  <2> HIDE DEF f, n
  <2>4. v.bytes = m /\ v.frames = f
    BY <1>4, <2>1 DEF IsSent
  <2> QED BY <2>3, <2>4
<1>9. ~HasFrame(body[r]) => v = sent[r]
  OBVIOUS
<1>10. /\ IsStream(r) => /\ body[r].notes = Len(conf.notifications) /\ body[r].last
                         /\ IsChunked(r) /\ HeadOf(r).length = conf.reply.size
       /\ ~IsStream(r) => body[r].notes = 0 /\ ~IsChunked(r)
  <2>1. IF IsStream(r) THEN body[r].notes = Len(conf.notifications) /\ body[r].last
                       ELSE body[r].notes = 0
    BY <1>1 DEF Wire, Form, Answering
  <2>2. IsChunked(r) <=> IsStream(r)
    BY DEF IsChunked, Metered
  <2>3. IsStream(r) => HeadOf(r).length = conf.reply.size
    <3> SUFFICES ASSUME IsStream(r) PROVE HeadOf(r).length = conf.reply.size
      OBVIOUS
    <3>1. conf.kind[r] = "stream" /\ request[r] = "whole"
      BY DEF IsStream
    <3>2. conf.runtime = "mcp"
      BY <1>1, <3>1, ConfFacts
    <3> QED BY <3>1, <3>2 DEF HeadOf, McpHead, McpLength
  <2> QED BY <2>1, <2>2, <2>3
<1> HIDE DEF v, x
<1>11. IsStream(r) /\ x # "done" => b.last
  BY <1>3, <1>5 DEF IsEndStream
<1>12. ASSUME ~conf.reply.framing PROVE v.bytes = h + BodyWritten(r)'
  <2>1. CASE IsStream(r) /\ body[r].idx < body[r].notes
    <3> DEFINE i == body[r].idx
               c == Piece(conf.notifications[i + 1])
    <3>1. i \in 0..Len(conf.notifications) /\ i + 1 \in 1..Len(conf.notifications)
      BY <1>1, <1>4, <1>10, <2>1, ConfSizes
    <3>2. /\ c \in Nat /\ Notes(i) \in Nat /\ Notes(i + 1) = Notes(i) + c
      <4> DEFINE j == i + 1
      <4>1. j \in 1..Len(conf.notifications) /\ j - 1 = i
        BY <3>1
      <4>2. Notes(j) = Notes(j - 1) + Piece(conf.notifications[j])
            /\ Piece(conf.notifications[j]) \in Nat
        BY <1>1, <4>1, NotesFacts
      <4>3. Notes(i) \in Nat
        BY <1>1, <3>1, NotesFacts
      <4> QED BY <4>1, <4>2, <4>3
    <3>3. HasFrame(body[r]) /\ ~ends /\ b.last /\ b.idx = i + 1
      BY <1>5, <1>10, <2>1 DEF HasFrame, IsEndStream
    <3>4. FrameSize(r) = conf.notifications[i + 1]
      BY <2>1 DEF FrameSize
    <3>5. wire = c
      BY <1>10, <2>1, <3>2, <3>3, <3>4 DEF FrameWritten, Piece
    <3>6. BodyWritten(r) = Notes(i)
      BY <1>1, <1>10, <2>1, <3>2 DEF BodyWritten
    <3>7. BodyWritten(r)' = Notes(i + 1)
      <4>1. BodyWritten(r)' = Notes(b.idx) + 0 + 0
        BY <1>1, <1>3, <1>6, <2>1, <3>3 DEF BodyWritten, Notes, Piece, Closing
      <4>2. Notes(i + 1) \in Nat
        BY <3>2
      <4> HIDE DEF i
      <4> QED BY <3>3, <4>1, <4>2
    <3> HIDE DEF c, i, wire, h
    <3>8. v.bytes = (h + Notes(i)) + c
      BY <1>7, <1>8, <1>12, <3>3, <3>5, <3>6
    <3> QED BY <1>7, <3>2, <3>3, <3>7, <3>8
  <2>2. CASE IsStream(r) /\ ~(body[r].idx < body[r].notes)
    <3> DEFINE i == body[r].idx
               c == Piece(conf.reply.size)
    <3>1. i \in 0..Len(conf.notifications)
      BY <1>1, <1>4, <1>10, <2>2, ConfSizes
    <3>2. Notes(i) \in Nat
      BY <1>1, <3>1, NotesFacts
    <3>3. HasFrame(body[r]) /\ ends /\ ~b.last /\ b.idx = i /\ x = "done"
      BY <1>3, <1>5, <1>10, <2>2 DEF HasFrame, IsEndStream
    <3>4. FrameSize(r) = conf.reply.size
      BY <1>10, <2>2 DEF FrameSize
    <3>8. c \in Nat
      <4> DEFINE z == conf.reply.size
      <4>1. z \in Nat /\ 0 < z /\ z < SizeLimit
        <5>1. conf.runtime = "mcp"
          BY <1>1, <2>2, ConfFacts DEF IsStream
        <5> QED BY <1>1, <5>1, ConfSizes
      <4> HIDE DEF z
      <4>2. Piece(z) \in Nat
        BY <1>1, <4>1, PieceFacts
      <4> QED BY <4>2 DEF z
    <3>5. wire = c + Closing
      BY <1>10, <2>2, <3>3, <3>4, <3>8 DEF FrameWritten, Piece, Closing
    <3>6. BodyWritten(r) = Notes(i)
      BY <1>1, <1>10, <2>2, <3>2 DEF BodyWritten
    <3>7. BodyWritten(r)' = Notes(i) + c + Closing
      <4>1. BodyWritten(r)' = Notes(b.idx) + c + Closing
        BY <1>1, <1>3, <1>6, <2>2, <3>3 DEF BodyWritten, Notes, Piece, Closing
      <4> HIDE DEF i, c
      <4> QED BY <3>3, <4>1
    <3> HIDE DEF c, i, wire, h
    <3>9. v.bytes = (h + Notes(i)) + (c + Closing)
      BY <1>7, <1>8, <1>12, <3>3, <3>5, <3>6
    <3> QED BY <1>7, <3>2, <3>3, <3>7, <3>8, <3>9 DEF LastChunk, Closing
  <2>3. CASE ~IsStream(r) /\ HasFrame(body[r])
    <3> DEFINE l == HeadOf(r).length
    <3>1. body[r].idx = 0 /\ body[r].last /\ n = 0
      BY <1>4, <1>10, <2>3 DEF HasFrame
    <3>2. FrameSize(r) = l /\ wire = l
      <4>1. FrameSize(r) = l
        BY <1>10, <2>3, <3>1 DEF FrameSize
      <4> QED BY <1>7, <1>10, <2>3, <4>1 DEF FrameWritten
    <3>3. BodyWritten(r) = 0
      BY <2>3, <3>1 DEF BodyWritten
    <3>4. BodyWritten(r)' = l
      <4>1. Len(sent'[r].frames) = 1
        BY <1>3, <1>8, <2>3, <3>1
      <4> QED BY <1>6, <2>3, <4>1 DEF BodyWritten
    <3> HIDE DEF l, wire, h
    <3>5. v.bytes = (h + 0) + l
      BY <1>7, <1>8, <1>12, <2>3, <3>2, <3>3
    <3> QED BY <1>7, <2>3, <3>4, <3>5
  <2>4. CASE ~IsStream(r) /\ ~HasFrame(body[r])
    <3>1. BodyWritten(r)' = BodyWritten(r)
      <4>1. sent'[r] = sent[r]
        BY <1>3, <1>9, <2>4
      <4> QED BY <1>6, <2>4, <4>1 DEF BodyWritten
    <3> QED BY <1>7, <1>9, <1>12, <2>4, <3>1
  <2>5. IsStream(r) => HasFrame(body[r])
    BY <1>10 DEF HasFrame
  <2> QED BY <2>1, <2>2, <2>3, <2>4
<1>13. Written(r)'
  BY <1>1, <1>3, <1>6, <1>12 DEF Written, Waiting
<1>14. Recorded(r)' /\ Bare(r)'
  <2>1. LeavesBody(r)' = LeavesBody(r)
    BY <1>1 DEF LeavesBody, Collects
  <2> QED BY <1>1, <1>3, <1>6, <2>1 DEF Wire, Recorded, Bare, Waiting, Answering
<1>15. Form(r)'
  BY <1>1, <1>3, <1>5, <1>6, <1>10, <1>11 DEF Form, Answering
<1> QED BY <1>1, <1>3, <1>13, <1>14, <1>15 DEF Wire, Kept, Stays

(***************************************************************************)
(* The other steps leave every request as it is, but for giving it up.     *)
(***************************************************************************)
LEMMA QuietWire ==
  ASSUME IInv, Metered,
         \/ \E r \in Requests : RefuseHead(r) \/ Drain(r) \/ ClientHead(r) \/ ClientBody(r)
                                \/ ResetStream(r)
         \/ LoseConnection
         \/ UNCHANGED vars
  PROVE  \A q \in Requests : Stays(q)
<1> SUFFICES ASSUME NEW q \in Requests PROVE Stays(q)
  OBVIOUS
<1> USE DEF Stays
<1>1. CASE \E r \in Requests : Drain(r)
  <2>1. PICK r \in Requests : Drain(r)
    BY <1>1
  <2>2. /\ LeavesBody(r)
        /\ UNCHANGED <<conf, body, elapsed, sent, tally>>
        /\ \E how \in {"drained", "cut"} : request' = [request EXCEPT ![r] = how]
        /\ pc'[q] = pc[q] \/ pc'[q] = "refused"
        /\ DOMAIN request = Requests
    BY <2>1 DEF Drain, IInv, Shape
  <2>3. q # r => request'[q] = request[q]
    BY <2>2
  <2>4. q = r => LeavesBody(q) /\ request'[q] \in {"drained", "cut"}
    BY <2>2
  <2> QED BY <2>2, <2>3, <2>4
<1>2. CASE \E r \in Requests : ClientHead(r)
  <2>1. PICK r \in Requests : ClientHead(r)
    BY <1>2
  <2>2. /\ request[r] = "unsent" /\ UNCHANGED <<conf, pc, body, elapsed, sent, tally>>
        /\ DOMAIN request = Requests
        /\ \E how \in {"bare", "head"} :
             /\ request' = [request EXCEPT ![r] = how]
             /\ how = "bare" => conf.kind[r] \in {"static", "staticHead", "misdirected"}
    BY <2>1 DEF ClientHead, IInv, Shape
  <2>3. q # r => request'[q] = request[q]
    BY <2>2
  <2>4. q = r => /\ request'[q] = "bare" =>
                      conf.kind[q] \in {"static", "staticHead", "misdirected"}
                 /\ request[q] = "unsent"
    BY <2>2
  <2> QED BY <2>2, <2>3, <2>4
<1>3. CASE \E r \in Requests : ClientBody(r)
  <2>1. PICK r \in Requests : ClientBody(r)
    BY <1>3
  <2>2. /\ request[r] = "head" /\ UNCHANGED <<conf, pc, body, elapsed, sent, tally>>
        /\ DOMAIN request = Requests
        /\ \E how \in {"whole", "broken"} : request' = [request EXCEPT ![r] = how]
    BY <2>1 DEF ClientBody, IInv, Shape
  <2>3. q # r => request'[q] = request[q]
    BY <2>2
  <2>4. q = r => request'[q] # "bare" /\ request[q] = "head"
    BY <2>2
  <2> QED BY <2>2, <2>3, <2>4
<1>4. CASE \E r \in Requests : ResetStream(r)
  BY <1>4 DEF ResetStream, Metered
<1>5. CASE LoseConnection
  BY <1>5 DEF LoseConnection
<1>6. CASE UNCHANGED vars
  BY <1>6 DEF vars
<1>7. CASE \E r \in Requests : RefuseHead(r)
  BY <1>7 DEF RefuseHead, Fail
<1> QED BY <1>1, <1>2, <1>3, <1>4, <1>5, <1>6, <1>7

LEMMA WireStep ==
  ASSUME IInv, WireInv, [Next]_vars
  PROVE  WireInv'
<1>1. CASE Metered
  <2>1. conf \in Scenarios /\ \A q \in Requests : Wire(q)
    BY <1>1 DEF IInv, Shape, WireInv
  <2>2. (\A q \in Requests : Stays(q)) \/ \E r \in Requests : Wire(r)' /\ Kept(r)
    <3>1. ASSUME NEW r \in Requests, Serve(r), ~Drain(r), ~RefuseHead(r)
          PROVE  Wire(r)' /\ Kept(r)
      <4>1. CASE CallStatic(r)
        <5>1. Collects
          BY <1>1 DEF Collects, Metered
        <5>2. /\ pc[r] = "idle" /\ Goto(r, "collect")
              /\ UNCHANGED <<conf, request, body, elapsed, sent, tally>>
          BY <4>1, <5>1 DEF CallStatic, Callable
        <5> QED BY <1>1, <2>1, <5>2, CollectWire
      <4>2. CASE CollectedStatic(r) \/ DelayOver(r)
        BY <1>1, <2>1, <4>2, CollectedStaticWire, DelayOverWire
      <4>3. CASE CallMcp(r) \/ CollectedMcp(r)
        BY <1>1, <2>1, <4>3, CallMcpWire, CollectedMcpWire
      <4>4. CASE SendHead(r) \/ PollPending(r) \/ SleepOver(r)
        BY <1>1, <2>1, <4>4, SendHeadWire, PollPendingWire
      <4>5. CASE PollFrame(r)
        BY <1>1, <2>1, <4>5, PollFrameWire
      <4> QED BY <3>1, <4>1, <4>2, <4>3, <4>4, <4>5 DEF Serve
    <3>2. \/ \E r \in Requests : Serve(r) /\ ~Drain(r) /\ ~RefuseHead(r)
          \/ \E r \in Requests : RefuseHead(r) \/ Drain(r) \/ ClientHead(r) \/ ClientBody(r)
                                 \/ ResetStream(r)
          \/ LoseConnection
          \/ UNCHANGED vars
      BY DEF Next, Client, Serve
    <3> QED BY <1>1, <3>1, <3>2, QuietWire
  <2> QED
    <3>1. conf' = conf
      BY DEF Next, Client, Serve, CallStatic, CollectedStatic, DelayOver, CallMcp,
             CollectedMcp, RefuseHead, SendHead, PollPending, SleepOver, PollFrame,
             Drain, ClientHead, ClientBody, ResetStream, LoseConnection, vars
    <3>2. Requests' = Requests
      BY <3>1 DEF Requests
    <3>3. ASSUME NEW q \in Requests PROVE Wire(q)'
      <4>1. Wire(q)' \/ Stays(q)
        BY <2>2 DEF Kept
      <4> QED BY <1>1, <2>1, <4>1, StaysWire
    <3> QED BY <3>2, <3>3 DEF WireInv
<1>2. CASE ~Metered
  <2>1. conf' = conf
    BY DEF Next, Client, Serve, CallStatic, CollectedStatic, DelayOver, CallMcp,
           CollectedMcp, RefuseHead, SendHead, PollPending, SleepOver, PollFrame,
           Drain, ClientHead, ClientBody, ResetStream, LoseConnection, vars
  <2> QED BY <1>2, <2>1 DEF WireInv, Metered
<1> QED BY <1>1, <1>2
-----------------------------------------------------------------------------
LEMMA InitWire == Init => WireInv
<1> SUFFICES ASSUME Init, Metered, NEW r \in Requests PROVE Wire(r)
  BY DEF WireInv
<1>1. /\ pc[r] = "idle" /\ request[r] = "unsent" /\ sent[r].bytes = 0
      /\ tally[r].in = 0 /\ tally[r].out = 0
  BY DEF Init
<1> QED BY <1>1 DEF Wire, Written, Recorded, Form, Bare, Waiting, Answering

(***************************************************************************)
(* A body in several chunks costs more than was recorded for it, and in    *)
(* one chunk or none as much.                                              *)
(***************************************************************************)
LEMMA ChunkedRequest ==
  ASSUME conf \in Scenarios, NEW r \in Requests
  PROVE  LET s == conf.ask.pieces
             g == [i \in DOMAIN s |-> ChunkWritten(s[i])]
             n == Sizes(s)
         IN /\ Sizes(g) \in Nat /\ ChunkedBodyWireSize(n) \in Nat
            /\ IF Len(s) > 1 THEN ChunkedBodyWireSize(n) < Sizes(g) + LastChunk
                             ELSE ChunkedBodyWireSize(n) = Sizes(g) + LastChunk
<1> DEFINE s == conf.ask.pieces
           g == [i \in DOMAIN s |-> ChunkWritten(s[i])]
           n == Sizes(s)
           S == 1..Len(s)
<1>1. /\ s \in Seq(Nat \ {0}) /\ n < SizeLimit /\ n \in Nat
      /\ Len(s) \in Nat /\ DOMAIN s = S /\ DOMAIN g = S /\ IsFiniteSet(S)
  <2>1. s \in Seq(Nat \ {0}) /\ n < SizeLimit /\ n \in Nat
    BY ConfSizes, RequestSizes
  <2> HIDE DEF n
  <2>2. Len(s) \in Nat /\ DOMAIN s = S
    BY <2>1
  <2>3. DOMAIN g = S
    BY <2>2
  <2> QED BY <2>1, <2>2, <2>3, UpToFinite
<1>2. \A i \in S : s[i] \in Nat /\ 0 < s[i] /\ g[i] = ChunkWritten(s[i])
  BY <1>1
<1> HIDE DEF s, g
<1>3. n = SumOver(s, S) /\ Sizes(g) = SumOver(g, S)
  BY <1>1 DEF Sizes
<1>4. CASE Len(s) = 0
  <2>1. S = {}
    BY <1>4
  <2>2. n = 0 /\ Sizes(g) = 0
    BY <1>3, <2>1, SumEmpty
  <2> HIDE DEF n
  <2> QED BY <1>4, <2>2 DEF ChunkedBodyWireSize, LastChunk, s, g, n
<1>5. CASE Len(s) # 0
  <2>1. S # {} /\ 1 \in S
    <3>1. Len(s) \in Nat /\ Len(s) # 0
      BY <1>1, <1>5
    <3> QED BY ONLY <3>1
  <2>2. n # 0
    <3>1. n = s[1] + SumOver(s, S \ {1})
      BY <1>1, <1>2, <1>3, <2>1, SumTakeOut
    <3>2. SumOver(s, S \ {1}) \in Nat
      <4>1. IsFiniteSet(S \ {1}) /\ \A i \in S \ {1} : s[i] \in Nat
        BY <1>1, <1>2, FS_Subset
      <4> QED BY <4>1, SumNat
    <3>3. s[1] \in Nat /\ 0 < s[1]
      BY <1>2, <2>1
    <3> HIDE DEF n, S
    <3> QED BY <3>1, <3>2, <3>3
  <2>3. IF \E x \in S : S = {x} THEN Sizes(g) = ChunkWritten(n) ELSE Sizes(g) > ChunkWritten(n)
    <3> HIDE DEF S, n
    <3> QED BY <1>1, <1>2, <1>3, <2>1, ManyChunks
  <2>4. (\E x \in S : S = {x}) <=> Len(s) = 1
    <3>1. Len(s) = 1 => S = {1}
      OBVIOUS
    <3>2. ASSUME Len(s) # 1 PROVE 2 \in S /\ 1 \in S
      BY <1>1, <1>5, <3>2
    <3> QED BY <3>1, <3>2
  <2>5. /\ ChunkWritten(n) = HexLen(n) + n + 4 /\ HexLen(n) \in 1..8
        /\ ChunkedBodyWireSize(n) = ChunkWritten(n) + LastChunk
    <3>1. n \in Nat /\ 0 < n /\ n < SizeLimit
      BY <1>1, <2>2
    <3> HIDE DEF n
    <3> QED BY <3>1, OneChunk, HexLenType
  <2>6. Sizes(g) \in Nat
    <3>1. \A i \in S : g[i] \in Nat
      <4> SUFFICES ASSUME NEW i \in S PROVE ChunkWritten(s[i]) \in Nat
        BY <1>2
      <4> DEFINE k == s[i]
      <4>1. /\ k \in Nat /\ 0 < k
            /\ n = k + SumOver(s, S \ {i})
        BY <1>1, <1>2, <1>3, SumTakeOut
      <4>2. SumOver(s, S \ {i}) \in Nat
        <5>1. IsFiniteSet(S \ {i}) /\ \A j \in S \ {i} : s[j] \in Nat
          BY <1>1, <1>2, FS_Subset
        <5> QED BY <5>1, SumNat
      <4> HIDE DEF k, n, S
      <4>3. k < SizeLimit
        BY <1>1, <4>1, <4>2, SMT DEF SizeLimit
      <4>4. ChunkWritten(k) = HexLen(k) + k + 4 /\ HexLen(k) \in 1..8
        BY <4>1, <4>3, OneChunk, HexLenType
      <4> QED BY <4>1, <4>4 DEF k
    <3> HIDE DEF S
    <3> QED BY <1>1, <1>3, <3>1, SumNat
  <2> HIDE DEF n, S
  <2>7. /\ ChunkWritten(n) \in Nat /\ ChunkedBodyWireSize(n) \in Nat
        /\ IF Len(s) > 1 THEN ChunkedBodyWireSize(n) < Sizes(g) + LastChunk
                         ELSE ChunkedBodyWireSize(n) = Sizes(g) + LastChunk
    <3>1. ChunkWritten(n) \in Nat
      BY <1>1, <2>5
    <3>2. Len(s) = 1 => Sizes(g) = ChunkWritten(n)
      BY <2>3, <2>4
    <3>3. Len(s) # 1 => Sizes(g) > ChunkWritten(n)
      BY <2>3, <2>4
    <3>4. (Len(s) > 1 => Len(s) # 1) /\ (~(Len(s) > 1) => Len(s) = 1)
      <4> DEFINE j == Len(s)
      <4>1. j \in Nat /\ j # 0
        BY <1>1, <1>5
      <4> HIDE DEF j
      <4>2. (j > 1 => j # 1) /\ (~(j > 1) => j = 1)
        BY <4>1
      <4> QED BY <4>2 DEF j
    <3> QED BY <2>5, <2>6, <3>1, <3>2, <3>3, <3>4 DEF LastChunk
  <2> QED BY <2>6, <2>7 DEF s, g, n
<1> QED BY <1>4, <1>5

LEMMA WireRecorded ==
  ASSUME IInv, WireInv
  PROVE  RecordedIsWritten
<1> SUFFICES ASSUME Metered, NEW r \in Requests, pc[r] = "done"
             PROVE  /\ ~conf.reply.framing =>
                         tally[r].out + Uncounted(r) = sent[r].bytes + Withheld(r)
                    /\ request[r] = "whole" /\ ~LeavesBody(r) =>
                         IF conf.ask.chunked /\ Len(conf.ask.pieces) > 1
                           THEN tally[r].in < WireIn ELSE tally[r].in = WireIn
  BY DEF RecordedIsWritten, Metered
<1> DEFINE h == HeadWritten(HeadOf(r))
           l == HeadOf(r).length
           u == Uncounted(r)
           n == Len(sent[r].frames)
<1>1. /\ conf \in Scenarios
      /\ tally[r].out = SizeOut(r)
      /\ ~conf.reply.framing => sent[r].bytes = h + BodyWritten(r)
      /\ ~LeavesBody(r) => tally[r].in = SizeIn(r)
      /\ IF IsStream(r) THEN body[r].notes = Len(conf.notifications) ELSE body[r].notes = 0
  BY DEF IInv, Shape, WireInv, Wire, Written, Recorded, Form, Answering
<1>2. /\ h \in Nat /\ l \in Nat /\ u \in Nat
  BY <1>1, HeadFacts
<1>3. /\ body[r] \in [held : BOOLEAN, idx : Nat, notes : Nat, last : BOOLEAN]
      /\ n \in Nat
      /\ Bodiless(r) => n = 0
      /\ ~Bodiless(r) => FramesLeft(body[r]) = 0
      /\ n + FramesLeft(body[r]) = Total(r)
      /\ body[r].idx <= body[r].notes
  <2>1. /\ Sends(r) /\ Bodies(r) /\ IsSent(sent[r])
        /\ body[r] \in [held : BOOLEAN, idx : Nat, notes : Nat, last : BOOLEAN]
    BY DEF IInv, Local, Shape
  <2>2. n \in Nat /\ (Bodiless(r) => n = 0)
    BY <2>1 DEF IsSent, Sends
  <2> QED BY <2>1, <2>2 DEF Bodies, Answering
<1>4. ~Bodiless(r) => ~body[r].last /\ body[r].idx = body[r].notes /\ n = Total(r)
  <2> DEFINE b == body[r]
  <2>1. /\ b.idx \in Nat /\ b.notes \in Nat /\ b.last \in BOOLEAN /\ b.idx <= b.notes
        /\ n \in Nat
    BY <1>3
  <2>2. FramesLeft(b) = (b.notes - b.idx) + IF b.last THEN 1 ELSE 0
    BY DEF FramesLeft
  <2>3. ~Bodiless(r) => FramesLeft(b) = 0 /\ n + FramesLeft(b) = Total(r)
    BY <1>3
  <2> HIDE DEF b, n
  <2>4. FramesLeft(b) = 0 => ~b.last /\ b.idx = b.notes
    BY <2>1, <2>2
  <2> QED BY <2>1, <2>3, <2>4 DEF b
<1>5. ASSUME ~conf.reply.framing
      PROVE  tally[r].out + u = sent[r].bytes + Withheld(r)
  <2>1. CASE conf.runtime = "mcp"
    <3> DEFINE w == Withheld(r)
               k == Notes(Len(conf.notifications)) + Piece(conf.reply.size) + Closing
    <3>1. ~Bodiless(r) /\ w \in Nat
      BY <1>1, <2>1, ConfFacts, McpRecorded
    <3>2. SizeOut(r) + u = h + w + IF IsStream(r) THEN k ELSE l
      BY <1>1, <2>1, McpRecorded DEF SizeOut
    <3>3. CASE IsStream(r)
      <4>1. BodyWritten(r) = k
        BY <1>1, <1>4, <3>1, <3>3 DEF BodyWritten
      <4>2. k \in Nat
        BY <1>1, <2>1, <3>3, StreamWritten
      <4> HIDE DEF h, k, u
      <4> QED BY <1>1, <1>2, <1>5, <3>1, <3>2, <3>3, <4>1, <4>2
    <3>4. CASE ~IsStream(r)
      <4>1. BodyWritten(r) = l
        <5>1. CASE n # 0
          BY <3>4, <5>1 DEF BodyWritten
        <5>2. CASE n = 0
          <6>1. Total(r) = 0 /\ conf.kind[r] \in Kinds /\ Len(conf.notifications) \in Nat
            BY <1>1, <1>4, <3>1, <5>2, ConfFacts
          <6>2. conf.kind[r] = "misdirected"
                  \/ (request[r] # "broken" /\ conf.kind[r] = "accepted")
            <7>1. conf.kind[r] \in {"misdirected", "unary", "accepted", "stream"}
              BY <1>1, <2>1, <6>1, ConfFacts
            <7> QED BY <2>1, <6>1, <7>1 DEF Total
          <6>3. l = 0
            BY <2>1, <6>2 DEF HeadOf, McpHead, McpLength
          <6> QED BY <3>4, <5>2, <6>3 DEF BodyWritten
        <5> QED BY <5>1, <5>2
      <4> HIDE DEF h, l, u
      <4> QED BY <1>1, <1>2, <1>5, <3>1, <3>2, <3>4, <4>1
    <3> QED BY <3>3, <3>4
  <2>2. CASE conf.runtime # "mcp"
    <3> DEFINE z == conf.reply.size
    <3>1. SizeOut(r) + u = h + z + Zero(r)
      BY <1>1, <2>2, StaticRecorded DEF SizeOut
    <3>2. ~IsStream(r) /\ l = z /\ z \in Nat /\ Zero(r) \in Nat
      <4>1. ~IsStream(r)
        BY <1>1, <2>2, ConfFacts DEF IsStream
      <4>2. l = z
        BY <2>2 DEF HeadOf, StaticHead
      <4> QED BY <1>1, <4>1, <4>2, ConfSizes DEF Zero, Line
    <3>3. CASE Bodiless(r)
      <4>1. BodyWritten(r) = 0
        BY <1>3, <3>2, <3>3 DEF BodyWritten
      <4>2. Withheld(r) = z + Zero(r)
        BY <2>2, <3>3 DEF Withheld, Zero, Bodiless
      <4> HIDE DEF h, z, u
      <4> QED BY <1>1, <1>2, <1>5, <3>1, <3>2, <4>1, <4>2
    <3>4. CASE ~Bodiless(r)
      <4>1. BodyWritten(r) = z
        <5>1. n = IF z = 0 THEN 0 ELSE 1
          BY <1>4, <2>2, <3>4 DEF Total
        <5> QED BY <3>2, <5>1 DEF BodyWritten
      <4>2. Withheld(r) = 0 /\ Zero(r) = 0
        BY <2>2, <3>2, <3>4 DEF Withheld, Zero, Bodiless
      <4> HIDE DEF h, z, u
      <4> QED BY <1>1, <1>2, <1>5, <3>1, <3>2, <4>1, <4>2
    <3> QED BY <3>3, <3>4
  <2> QED BY <2>1, <2>2
<1>6. ASSUME request[r] = "whole", ~LeavesBody(r)
      PROVE  IF conf.ask.chunked /\ Len(conf.ask.pieces) > 1
               THEN tally[r].in < WireIn ELSE tally[r].in = WireIn
  <2> DEFINE s == conf.ask.pieces
             g == [i \in DOMAIN s |-> ChunkWritten(s[i])]
             k == Sizes(s)
             w == ChunkedBodyWireSize(k)
             y == Sizes(g)
  <2>1. tally[r].in = HeadIn + IF conf.ask.chunked THEN w ELSE k
    BY <1>1, <1>6 DEF SizeIn
  <2>2. WireIn = HeadIn + IF conf.ask.chunked THEN y + LastChunk ELSE k
    BY DEF WireIn
  <2>3. HeadIn \in Nat /\ k \in Nat
    BY <1>1, RequestSizes
  <2>4. /\ y \in Nat /\ w \in Nat
        /\ IF Len(s) > 1 THEN w < y + LastChunk ELSE w = y + LastChunk
    BY <1>1, ChunkedRequest
  <2> HIDE DEF k, w, y
  <2> QED BY <2>1, <2>2, <2>3, <2>4 DEF LastChunk
<1> QED BY <1>5, <1>6

(***************************************************************************)
(* The wire invariant, for every set of scenarios.                         *)
(***************************************************************************)
THEOREM WireInductive == Safe => []WireInv
<1>1. IInv /\ WireInv /\ [Next]_vars => WireInv'
  BY WireStep
<1> QED BY <1>1, InitWire, Inductive, PTL DEF Safe

(***************************************************************************)
(* RecordedIsWritten: over HTTP/1 the sizes recorded of a request and of   *)
(* its response, computed before the response is sent, are what was on the *)
(* wire, for sizes below SizeLimit; but for what is Withheld, and the      *)
(* Connection line and missing reason phrase that are Uncounted.           *)
(***************************************************************************)
THEOREM SizesAgree == Safe => []RecordedIsWritten
<1>1. IInv /\ WireInv => RecordedIsWritten
  BY WireRecorded
<1> QED BY <1>1, Inductive, WireInductive, PTL
-----------------------------------------------------------------------------
Lost == {"failed", "dropped", "refused"}

(***************************************************************************)
(* What NoneHeldUp rests on: a parked response has a timer to wake it, only*)
(* a body that nobody reads is drained, and over HTTP/1 a request that is  *)
(* lost leaves none behind it that waits for it.                           *)
(***************************************************************************)
Woken(r) == pc[r] = "parked" => body[r].held /\ ~elapsed[r]
Drained(r) == request[r] \in {"drained", "cut"} => LeavesBody(r)
LostTogether ==
  ~conf.http2 =>
    \A q, r \in Requests : q < r /\ pc[q] \in Lost => pc[r] \in Ended

LiveInv == (\A r \in Requests : Woken(r) /\ Drained(r)) /\ LostTogether

(***************************************************************************)
(* The steps, by what they change of the request served and of the others. *)
(***************************************************************************)
Alone(q) ==
  /\ request'[q] = request[q] /\ body'[q] = body[q] /\ elapsed'[q] = elapsed[q]
  /\ pc'[q] = pc[q] \/ (pc'[q] = "refused" /\ pc[q] \notin Ended)

MovesOn(r) ==
  \/ /\ \/ pc[r] = "idle" /\ pc'[r] \in {"collect", "delay", "head", "failed"}
        \/ pc[r] = "collect" /\ pc'[r] \in {"delay", "head", "failed"}
        \/ pc[r] = "delay" /\ pc'[r] \in {"head", "failed"}
        \/ pc[r] = "head" /\ pc'[r] \in {"stream", "done", "failed"} /\ body'[r] = body[r]
     /\ request'[r] = request[r] /\ elapsed'[r] = elapsed[r]
  \/ /\ pc[r] = "stream" /\ pc'[r] = "parked" /\ body[r].held /\ ~elapsed[r]
     /\ request'[r] = request[r] /\ elapsed'[r] = elapsed[r] /\ body'[r] = body[r]
  \/ /\ pc[r] \in {"head", "stream", "parked"} /\ ~elapsed[r] /\ elapsed'[r]
     /\ pc'[r] = IF pc[r] = "parked" THEN "stream" ELSE pc[r]
     /\ request'[r] = request[r] /\ body'[r] = body[r]
  \/ /\ pc[r] = "stream"
     /\ \/ pc'[r] = "done"
        \/ pc'[r] = "stream" /\ FramesLeft(body'[r]) < FramesLeft(body[r])
     /\ request'[r] = request[r] /\ elapsed'[r] = elapsed[r]
  \/ /\ pc'[r] = pc[r] /\ pc[r] \in Answering /\ LeavesBody(r)
     /\ request[r] \notin {"drained", "cut"} /\ request'[r] \in {"drained", "cut"}
     /\ elapsed'[r] = elapsed[r] /\ body'[r] = body[r]

GivenUpTogether ==
  ~conf.http2 =>
    \/ \A q \in Requests : pc'[q] \in Ended
    \/ \A q \in Requests : pc'[q] \in Lost =>
         \/ pc[q] \in Lost
         \/ pc[q] = "idle" /\ \A s \in Requests : pc[s] = "idle" => pc'[s] = "refused"

Served(r) ==
  /\ conf' = conf /\ MovesOn(r) /\ GivenUpTogether
  /\ \A q \in Requests : q # r => Alone(q)

(***************************************************************************)
(* Only the place of the service of r changes, and it is not lost.         *)
(***************************************************************************)
LEMMA GotoServed ==
  ASSUME Shape, NEW r \in Requests, NEW x, x \notin Lost, Goto(r, x), conf' = conf, MovesOn(r),
         \A q \in Requests : q # r => /\ request'[q] = request[q] /\ body'[q] = body[q]
                                      /\ elapsed'[q] = elapsed[q]
  PROVE  Served(r)
<1>1. pc' = [pc EXCEPT ![r] = x] /\ DOMAIN pc = Requests
  BY DEF Goto, Shape
<1>2. \A q \in Requests : pc'[q] \in Lost => pc[q] \in Lost
  BY <1>1
<1> QED BY <1>1, <1>2 DEF Served, Alone, GivenUpTogether

(***************************************************************************)
(* The end of a service: its response, or a failure.                       *)
(***************************************************************************)
LEMMA RespondServed ==
  ASSUME Shape, NEW r \in Requests, NEW t, pc[r] \in Waiting, Respond(r, t),
         UNCHANGED <<conf, request, elapsed, sent>>
  PROVE  Served(r)
<1>1. CASE conf.builds /\ ~SleepPanics
  <2>1. Goto(r, "head") /\ body' = [body EXCEPT ![r] = StaticBody]
    BY <1>1 DEF Respond
  <2>2. pc'[r] = "head" /\ \A q \in Requests : q # r => body'[q] = body[q]
    BY <2>1 DEF Goto, Shape
  <2>3. MovesOn(r)
    BY <2>2 DEF MovesOn, Waiting
  <2> QED BY <2>1, <2>2, <2>3, GotoServed DEF Lost
<1>2. CASE ~(conf.builds /\ ~SleepPanics)
  <2>1. Fail(r) /\ UNCHANGED body
    BY <1>2 DEF Respond
  <2>2. pc'[r] = "failed"
    BY <2>1 DEF Fail
  <2>3. MovesOn(r)
    BY <2>2 DEF MovesOn, Waiting
  <2>4. ~conf.http2 => \A q \in Requests : pc'[q] \in Ended
    BY <2>1 DEF Fail
  <2>5. ASSUME NEW q \in Requests, q # r PROVE Alone(q)
    BY <2>1, <2>5 DEF Fail, Alone
  <2> QED BY <2>3, <2>4, <2>5 DEF Served, GivenUpTogether
<1> QED BY <1>1, <1>2

LEMMA DelayOrRespondServed ==
  ASSUME Shape, NEW r \in Requests, NEW t, pc[r] \in {"idle", "collect"}, DelayOrRespond(r, t),
         UNCHANGED <<conf, request, elapsed, sent>>
  PROVE  Served(r)
<1>1. CASE conf.delay
  <2>1. Goto(r, "delay") /\ UNCHANGED body
    BY <1>1 DEF DelayOrRespond
  <2>2. pc'[r] = "delay"
    BY <2>1 DEF Goto, Shape
  <2>3. MovesOn(r)
    BY <2>2 DEF MovesOn
  <2> QED BY <2>1, <2>3, GotoServed DEF Lost
<1>2. CASE ~conf.delay
  BY <1>2, RespondServed DEF DelayOrRespond, Waiting
<1> QED BY <1>1, <1>2

(***************************************************************************)
(* Every step of a request is one of these.                                *)
(***************************************************************************)
LEMMA ServeMoves ==
  ASSUME IInv, NEW r \in Requests, Serve(r)
  PROVE  Served(r)
<1>0. Shape
  BY DEF IInv
<1>1. CASE CallStatic(r)
  <2>1. pc[r] = "idle" /\ UNCHANGED <<conf, request, elapsed, sent>>
    BY <1>1 DEF CallStatic, Callable
  <2>2. CASE Collects
    <3>1. Goto(r, "collect") /\ UNCHANGED body
      BY <1>1, <2>2 DEF CallStatic
    <3>2. pc'[r] = "collect"
      BY <1>0, <3>1 DEF Goto, Shape
    <3>3. MovesOn(r)
      BY <2>1, <3>2 DEF MovesOn
    <3> QED BY <1>0, <2>1, <3>1, <3>3, GotoServed DEF Lost
  <2>3. CASE ~Collects
    BY <1>0, <1>1, <2>1, <2>3, DelayOrRespondServed DEF CallStatic
  <2> QED BY <2>2, <2>3
<1>2. CASE CollectedStatic(r)
  BY <1>0, <1>2, DelayOrRespondServed DEF CollectedStatic, Collected
<1>3. CASE DelayOver(r)
  BY <1>0, <1>3, RespondServed DEF DelayOver, Waiting
<1>4. CASE CallMcp(r) \/ CollectedMcp(r)
  <2>1. /\ pc[r] \in {"idle", "collect"} /\ UNCHANGED <<conf, request, elapsed, sent>>
        /\ \A q \in Requests : q # r => body'[q] = body[q]
        /\ Goto(r, "head") \/ (pc[r] = "idle" /\ Goto(r, "collect"))
    BY <1>0, <1>4 DEF CallMcp, CollectedMcp, Callable, Collected, Answer, Shape
  <2>2. CASE Goto(r, "head")
    <3>1. pc'[r] = "head"
      BY <1>0, <2>2 DEF Goto, Shape
    <3>2. MovesOn(r)
      BY <2>1, <3>1 DEF MovesOn
    <3> QED BY <1>0, <2>1, <2>2, <3>2, GotoServed DEF Lost
  <2>3. CASE pc[r] = "idle" /\ Goto(r, "collect")
    <3>1. pc'[r] = "collect"
      BY <1>0, <2>3 DEF Goto, Shape
    <3>2. MovesOn(r)
      BY <2>1, <2>3, <3>1 DEF MovesOn
    <3> QED BY <1>0, <2>1, <2>3, <3>2, GotoServed DEF Lost
  <2> QED BY <2>1, <2>2, <2>3
<1>5. CASE SendHead(r)
  <2> DEFINE x == IF EndsWithHead(r) THEN "done" ELSE "stream"
  <2>1. pc[r] = "head" /\ Goto(r, x) /\ UNCHANGED <<conf, request, body, elapsed>>
    BY <1>5 DEF SendHead
  <2>2. x \in {"done", "stream"} /\ x \notin Lost
    BY DEF Lost
  <2> HIDE DEF x
  <2>3. pc'[r] = x
    BY <1>0, <2>1 DEF Goto, Shape
  <2>4. MovesOn(r)
    BY <2>1, <2>2, <2>3 DEF MovesOn
  <2> QED BY <1>0, <2>1, <2>2, <2>4, GotoServed
<1>6. CASE PollPending(r)
  <2>1. /\ pc[r] = "stream" /\ body[r].held /\ ~elapsed[r] /\ Goto(r, "parked")
        /\ UNCHANGED <<conf, request, body, elapsed>>
    BY <1>6 DEF PollPending
  <2>2. pc'[r] = "parked"
    BY <1>0, <2>1 DEF Goto, Shape
  <2>3. MovesOn(r)
    BY <2>1, <2>2 DEF MovesOn
  <2> QED BY <1>0, <2>1, <2>3, GotoServed DEF Lost
<1>7. CASE SleepOver(r)
  <2> DEFINE x == IF pc[r] = "parked" THEN "stream" ELSE pc[r]
  <2>1. /\ pc[r] \in {"head", "stream", "parked"} /\ ~elapsed[r] /\ Goto(r, x)
        /\ elapsed' = [elapsed EXCEPT ![r] = TRUE]
        /\ UNCHANGED <<conf, request, body>>
    BY <1>7 DEF SleepOver
  <2>2. x \notin Lost
    BY <2>1 DEF Lost
  <2>3. pc'[r] = x /\ elapsed'[r] /\ \A q \in Requests : q # r => elapsed'[q] = elapsed[q]
    BY <1>0, <2>1 DEF Goto, Shape
  <2>4. MovesOn(r)
    BY <2>1, <2>3 DEF MovesOn
  <2> HIDE DEF x
  <2> QED BY <1>0, <2>1, <2>2, <2>3, <2>4, GotoServed
<1>8. CASE PollFrame(r)
  <2> DEFINE b == body[r]
             c == Taken(b)
             x == IF IsEndStream(c) \/ ~HasFrame(b) THEN "done" ELSE "stream"
  <2>1. /\ pc[r] = "stream" /\ Goto(r, x) /\ body' = [body EXCEPT ![r] = c]
        /\ UNCHANGED <<conf, request, elapsed>>
    BY <1>8 DEF PollFrame
  <2>2. /\ b \in [held : BOOLEAN, idx : Nat, notes : Nat, last : BOOLEAN]
        /\ b.idx <= b.notes /\ (~b.last => b.idx = b.notes)
    BY <2>1 DEF IInv, Local, Bodies, Answering, Shape
  <2>3. x = "done" \/ (x = "stream" /\ HasFrame(b))
    OBVIOUS
  <2> HIDE DEF b
  <2>4. /\ FramesLeft(b) \in Nat /\ FramesLeft(c) \in Nat
        /\ HasFrame(b) => FramesLeft(c) + 1 = FramesLeft(b)
    BY <2>2, TakenFacts
  <2> HIDE DEF c, x
  <2>5. pc'[r] = x /\ body'[r] = c /\ \A q \in Requests : q # r => body'[q] = body[q]
    BY <1>0, <2>1 DEF Goto, Shape
  <2>6. x = "done" \/ (x = "stream" /\ FramesLeft(body'[r]) < FramesLeft(body[r]))
    BY <2>3, <2>4, <2>5 DEF b
  <2>7. MovesOn(r)
    BY <2>1, <2>5, <2>6 DEF MovesOn
  <2>8. x \notin Lost
    BY <2>3 DEF Lost
  <2> QED BY <1>0, <2>1, <2>5, <2>7, <2>8, GotoServed
<1>9. CASE Drain(r)
  <2>1. /\ ~conf.http2 /\ LeavesBody(r) /\ pc[r] \in Answering
        /\ request[r] \in {"head", "whole", "broken"}
        /\ UNCHANGED <<conf, body, elapsed>>
        /\ \/ request' = [request EXCEPT ![r] = "drained"] /\ pc' = pc
           \/ /\ request' = [request EXCEPT ![r] = "cut"]
              /\ pc' = [q \in Requests |-> IF pc[q] = "idle" THEN "refused" ELSE pc[q]]
    BY <1>9 DEF Drain, Answering
  <2>2. /\ request'[r] \in {"drained", "cut"} /\ pc'[r] = pc[r]
        /\ \A q \in Requests : q # r => request'[q] = request[q]
    BY <1>0, <2>1 DEF Shape, Answering
  <2>3. MovesOn(r)
    BY <2>1, <2>2 DEF MovesOn
  <2>4. \A q \in Requests : q # r => Alone(q)
    BY <2>1, <2>2 DEF Alone
  <2>5. GivenUpTogether
    BY <2>1 DEF GivenUpTogether, Lost
  <2> QED BY <2>1, <2>3, <2>4, <2>5 DEF Served
<1>10. CASE RefuseHead(r)
  <2>1. pc[r] = "head" /\ conf.reply.framing /\ Fail(r)
        /\ UNCHANGED <<conf, request, body, elapsed>>
    BY <1>10 DEF RefuseHead
  <2>2. pc'[r] = "failed"
    BY <2>1 DEF Fail
  <2>3. MovesOn(r)
    BY <2>1, <2>2 DEF MovesOn
  <2>4. ~conf.http2 => \A q \in Requests : pc'[q] \in Ended
    BY <2>1 DEF Fail
  <2>5. ASSUME NEW q \in Requests, q # r PROVE Alone(q)
    BY <2>1, <2>5 DEF Fail, Alone
  <2> QED BY <2>1, <2>3, <2>4, <2>5 DEF Served, GivenUpTogether
<1> QED BY <1>1, <1>2, <1>3, <1>4, <1>5, <1>6, <1>7, <1>8, <1>9, <1>10 DEF Serve
-----------------------------------------------------------------------------
(***************************************************************************)
(* LiveInv holds at first, and each step keeps it, given IInv.             *)
(***************************************************************************)
LEMMA InitLive == Init => LiveInv
<1> SUFFICES ASSUME Init PROVE LiveInv
  OBVIOUS
<1>1. \A r \in Requests : pc[r] = "idle" /\ request[r] = "unsent"
  BY DEF Init
<1> QED BY <1>1 DEF LiveInv, Woken, Drained, LostTogether, Lost

LEMMA LiveStep ==
  ASSUME IInv, LiveInv, [Next]_vars
  PROVE  LiveInv'
<1>1. Requests = 1..Len(conf.kind) /\ Len(conf.kind) \in Nat
  BY ConfFacts DEF IInv, Shape
<1>2. conf' = conf /\ Requests' = Requests
  BY ServeMoves DEF Next, Client, ClientHead, ClientBody, ResetStream, LoseConnection, vars,
                    Served, Requests
<1>3. ASSUME NEW q \in Requests, pc[q] \in Ended PROVE pc'[q] \in Ended
  <2>1. CASE \E r \in Requests : Serve(r)
    BY <1>3, <2>1, ServeMoves DEF Served, Alone, MovesOn, Answering
  <2>2. CASE Client \/ UNCHANGED vars
    BY <1>3, <2>2 DEF Client, ClientHead, ClientBody, ResetStream, LoseConnection, vars, Goto,
                     IInv, Shape
  <2> QED BY <2>1, <2>2 DEF Next
<1>4. ASSUME NEW q \in Requests PROVE Woken(q)' /\ Drained(q)'
  <2>0. Woken(q) /\ Drained(q) /\ LeavesBody(q)' = LeavesBody(q)
    BY <1>2 DEF LiveInv, LeavesBody, Collects
  <2>1. CASE \E r \in Requests : Serve(r)
    <3>1. PICK r \in Requests : Served(r)
      BY <2>1, ServeMoves
    <3>2. CASE q = r
      BY <2>0, <3>1, <3>2 DEF Served, MovesOn, Woken, Drained, Answering
    <3>3. CASE q # r
      BY <2>0, <3>1, <3>3 DEF Served, Alone, Woken, Drained
    <3> QED BY <3>2, <3>3
  <2>2. CASE Client \/ UNCHANGED vars
    <3>1. /\ body' = body /\ elapsed' = elapsed
          /\ request'[q] \in {"drained", "cut"} => request'[q] = request[q]
          /\ pc'[q] = pc[q] \/ pc'[q] = "dropped"
      BY <2>2 DEF Client, ClientHead, ClientBody, ResetStream, LoseConnection, vars, Goto,
                  IInv, Shape
    <3> QED BY <2>0, <3>1 DEF Woken, Drained
  <2> QED BY <2>1, <2>2 DEF Next
<1>5. LostTogether'
  <2> SUFFICES ASSUME ~conf.http2, NEW q \in Requests, NEW r \in Requests, q < r,
                      pc'[q] \in Lost
               PROVE  pc'[r] \in Ended
    BY <1>2 DEF LostTogether
  <2>1. CASE pc[q] \in Lost
    BY <1>3, <2>1 DEF LiveInv, LostTogether
  <2>2. CASE pc[q] \notin Lost
    <3>1. CASE \E s \in Requests : Serve(s)
      <4>1. GivenUpTogether
        BY <3>1, ServeMoves DEF Served
      <4>2. CASE \A s \in Requests : pc'[s] \in Ended
        BY <4>2
      <4>3. CASE pc[q] = "idle" /\ \A s \in Requests : pc[s] = "idle" => pc'[s] = "refused"
        <5>1. pc[r] \in {"collect", "delay"} \cup Answering => pc[q] = "done"
          BY <1>1 DEF IInv, Order
        <5>2. pc[r] \in Waiting \cup Answering \cup Ended
          BY DEF IInv, Shape
        <5>3. pc[r] \in Ended \/ pc[r] = "idle"
          BY <4>3, <5>1, <5>2 DEF Waiting, Answering
        <5> QED BY <1>3, <4>3, <5>3
      <4> QED BY <2>2, <4>1, <4>2, <4>3 DEF GivenUpTogether
    <3>2. CASE Client \/ UNCHANGED vars
      <4>1. LoseConnection
        BY <2>2, <3>2 DEF Client, ClientHead, ClientBody, ResetStream, vars
      <4> QED BY <4>1 DEF LoseConnection
    <3> QED BY <3>1, <3>2 DEF Next
  <2> QED BY <2>1, <2>2
<1> QED BY <1>2, <1>4, <1>5 DEF LiveInv

(***************************************************************************)
(* What has arrived and waits for nothing before it can go on.             *)
(***************************************************************************)
LEMMA LiveGoesOn ==
  ASSUME IInv, LiveInv, NEW r \in Requests, request[r] \in {"bare", "whole", "drained"},
         pc[r] \notin Ended,
         ~conf.http2 => \A q \in 1..(r - 1) : pc[q] = "done" /\ BodyOver(q)
  PROVE  CanGoOn(r)
<1>1. pc[r] \in Waiting \cup Answering \cup Ended /\ Places(r) /\ Woken(r) /\ Drained(r)
  BY DEF IInv, Shape, Local, LiveInv
<1>2. CASE pc[r] = "idle"
  BY <1>2 DEF CanGoOn, Callable
<1>3. CASE pc[r] = "collect"
  BY <1>1, <1>3 DEF CanGoOn, Collected, Places, Drained
<1>4. CASE pc[r] \in {"delay", "head", "stream", "parked"}
  BY <1>1, <1>4 DEF CanGoOn, Woken
<1> QED BY <1>1, <1>2, <1>3, <1>4 DEF Waiting, Answering

LEMMA LiveNoneHeldUp == IInv /\ LiveInv => NoneHeldUp
<1> SUFFICES ASSUME IInv, LiveInv, NEW r \in Requests, HasArrived(r), pc[r] \notin Ended
             PROVE  \E q \in WaitsFor(r) : CanGoOn(q)
  BY DEF NoneHeldUp
<1>1. Requests = 1..Len(conf.kind) /\ Len(conf.kind) \in Nat /\ r \in Nat
  BY ConfFacts DEF IInv, Shape
<1>2. CASE conf.http2
  <2>1. WaitsFor(r) = {r}
    BY <1>2 DEF WaitsFor
  <2>2. request[r] \in {"bare", "whole", "drained"}
    BY <2>1 DEF HasArrived
  <2> QED BY <1>2, <2>1, <2>2, LiveGoesOn
<1>3. CASE ~conf.http2
  <2> DEFINE B == {q \in 1..r : ~(pc[q] = "done" /\ BodyOver(q))}
  <2>1. WaitsFor(r) = 1..r
    BY <1>3 DEF WaitsFor
  <2>2. B \in SUBSET Nat /\ r \in B
    BY <1>1
  <2>3. PICK n \in B : \A m \in B : n <= m
    <3> HIDE DEF B
    <3> QED BY <2>2, LeastNumber
  <2>4. n \in 1..r /\ n \in Requests /\ ~(pc[n] = "done" /\ BodyOver(n))
    BY <1>1
  <2>5. \A q \in 1..(n - 1) : pc[q] = "done" /\ BodyOver(q)
    <3> SUFFICES ASSUME NEW q \in 1..(n - 1), q \in B PROVE FALSE
      BY <1>1, <2>4
    <3>1. n <= q
      BY <2>3
    <3> QED BY <1>1, <2>4, <3>1
  <2>6. request[n] \in {"bare", "whole", "drained"}
    BY <2>1, <2>4 DEF HasArrived
  <2> HIDE DEF B
  <2>7. CASE pc[n] \notin Ended
    <3>1. CanGoOn(n)
      BY <2>4, <2>5, <2>6, <2>7, LiveGoesOn
    <3> QED BY <2>1, <2>4, <3>1
  <2>8. CASE pc[n] = "done"
    <3>1. Drained(n)
      BY <2>4 DEF LiveInv
    <3>2. LeavesBody(n) /\ request[n] = "whole"
      BY <2>4, <2>6, <2>8, <3>1 DEF BodyOver, Drained
    <3>3. CanGoOn(n)
      BY <1>3, <2>8, <3>2 DEF CanGoOn
    <3> QED BY <2>1, <2>4, <3>3
  <2>9. CASE pc[n] \in Lost
    <3>1. n < r
      BY <1>1, <2>4, <2>9 DEF Lost
    <3> QED BY <1>3, <2>4, <2>9, <3>1 DEF LiveInv, LostTogether
  <2> QED BY <2>7, <2>8, <2>9 DEF Lost
<1> QED BY <1>2, <1>3

(***************************************************************************)
(* NoneHeldUp: a request that has arrived can go on, or one that it waits  *)
(* for can.                                                                *)
(***************************************************************************)
THEOREM NoRequestHeldUp == Safe => []NoneHeldUp
<1>1. IInv /\ LiveInv /\ [Next]_vars => LiveInv'
  BY LiveStep
<1>2. Safe => []LiveInv
  BY <1>1, InitLive, Inductive, PTL DEF Safe
<1> QED BY <1>2, Inductive, LiveNoneHeldUp, PTL
-----------------------------------------------------------------------------
(***************************************************************************)
(* How many frames are left to send, at any time.                          *)
(***************************************************************************)
MostFrames == Len(conf.notifications) + 1
FewFrames == \A r \in Requests : ToSend(r) \in 0..MostFrames

LEMMA FramesBounded == IInv => FewFrames
<1> SUFFICES ASSUME IInv, NEW r \in Requests PROVE ToSend(r) \in 0..MostFrames
  BY DEF FewFrames
<1>1. Len(conf.notifications) \in Nat /\ conf.kind[r] \in Kinds
      /\ (conf.runtime # "mcp" <=> conf.kind[r] \in {"static", "staticHead"})
  BY ConfFacts DEF IInv, Shape
<1>2. ASSUME pc[r] \in Answering
      PROVE  FramesLeft(body[r]) \in 0..MostFrames
  <2>1. /\ Len(sent[r].frames) + FramesLeft(body[r]) = Total(r)
        /\ body[r].idx <= body[r].notes /\ body[r].idx \in Nat /\ body[r].notes \in Nat
        /\ Len(sent[r].frames) \in Nat
    BY <1>2 DEF IInv, Local, Bodies, Shape, IsSent
  <2>2. FramesLeft(body[r]) \in Nat
    BY <2>1 DEF FramesLeft
  <2>3. Total(r) \in 0..MostFrames
    BY <1>1 DEF Total, MostFrames
  <2> QED BY <1>1, <2>1, <2>2, <2>3 DEF MostFrames
<1>3. pc[r] \in {"head", "stream", "parked"} => pc[r] \in Answering
  BY DEF Answering
<1> QED BY <1>1, <1>2, <1>3 DEF ToSend, MostFrames

(***************************************************************************)
(* Work, of a request at place p with n frames to send, its timer over or  *)
(* not, its body drained or not.                                           *)
(***************************************************************************)
Sum(p, n, e, d) == Place[p] + n + (IF e THEN 0 ELSE 2) + (IF d THEN 0 ELSE 1)
Done(r) == request[r] \in {"drained", "cut"}

LEMMA WorkIs == \A r : Work(r) = Sum(pc[r], ToSend(r), elapsed[r], Done(r))
BY DEF Work, Sum, Done

LEMMA PlaceFacts ==
  /\ \A p \in Waiting \cup Answering \cup Ended : Place[p] \in 0..7
  /\ \A p \in Ended : Place[p] = 0
  /\ Place["idle"] = 7 /\ Place["collect"] = 6 /\ Place["delay"] = 5 /\ Place["head"] = 4
  /\ Place["stream"] = 3 /\ Place["parked"] = 2
BY DEF Place, Waiting, Answering, Ended

LEMMA SumDown ==
  ASSUME NEW p, NEW p2, Place[p] \in 0..7, Place[p2] \in 0..7,
         NEW n \in Nat, NEW n2 \in Nat, NEW e, NEW e2, NEW d, NEW d2,
         Place[p2] <= Place[p], n2 <= n, e => e2, d => d2
  PROVE  /\ Sum(p2, n2, e2, d2) \in Nat /\ Sum(p2, n2, e2, d2) <= Sum(p, n, e, d)
         /\ \/ Place[p2] < Place[p] \/ n2 < n \/ (~d /\ d2)
            => Sum(p2, n2, e2, d2) < Sum(p, n, e, d)
<1> DEFINE a == Place[p]
           b == Place[p2]
<1>1. /\ Sum(p, n, e, d) = a + n + (IF e THEN 0 ELSE 2) + (IF d THEN 0 ELSE 1)
      /\ Sum(p2, n2, e2, d2) = b + n2 + (IF e2 THEN 0 ELSE 2) + (IF d2 THEN 0 ELSE 1)
  BY DEF Sum
<1>2. a \in Nat /\ b \in Nat /\ b <= a
  OBVIOUS
<1> HIDE DEF a, b
<1> DEFINE x == IF e THEN 0 ELSE 2
           x2 == IF e2 THEN 0 ELSE 2
           y == IF d THEN 0 ELSE 1
           y2 == IF d2 THEN 0 ELSE 1
<1>3. x \in Nat /\ x2 \in Nat /\ x2 <= x /\ y \in Nat /\ y2 \in Nat /\ y2 <= y
      /\ (~d /\ d2 => y2 < y)
  OBVIOUS
<1>4. Sum(p, n, e, d) = a + n + x + y /\ Sum(p2, n2, e2, d2) = b + n2 + x2 + y2
  BY <1>1
<1> HIDE DEF x, x2, y, y2
<1> QED BY <1>2, <1>3, <1>4 DEF a, b

(***************************************************************************)
(* The timer's end brings a parked response back, for less.                *)
(***************************************************************************)
LEMMA SumWoken ==
  ASSUME NEW p \in {"head", "stream", "parked"}, NEW p2, NEW n \in Nat, NEW d,
         p2 = IF p = "parked" THEN "stream" ELSE p
  PROVE  Sum(p2, n, TRUE, d) \in Nat /\ Sum(p2, n, TRUE, d) < Sum(p, n, FALSE, d)
<1>1. \A a, b, y \in Nat : b <= a + 1 => b + n + 0 + y \in Nat /\ b + n + 0 + y < a + n + 2 + y
  OBVIOUS
<1>2. Place[p] \in Nat /\ Place[p2] \in Nat /\ Place[p2] <= Place[p] + 1
  BY PlaceFacts
<1>3. PICK y \in Nat : y = IF d THEN 0 ELSE 1
  OBVIOUS
<1>4. /\ Sum(p2, n, TRUE, d) = Place[p2] + n + 0 + y
      /\ Sum(p, n, FALSE, d) = Place[p] + n + 2 + y
  BY <1>3 DEF Sum
<1>5. /\ Place[p2] + n + 0 + y \in Nat
      /\ Place[p2] + n + 0 + y < Place[p] + n + 2 + y
  BY <1>1, <1>2, <1>3
<1> QED BY <1>4, <1>5, Zenon

(***************************************************************************)
(* A step of a request leaves less work for it, and no more for another.   *)
(***************************************************************************)
LEMMA ServedLess ==
  ASSUME IInv, FewFrames, FewFrames', IInv', NEW r \in Requests, Served(r)
  PROVE  Work(r)' \in Nat /\ Work(r)' < Work(r)
<1>1. conf' = conf /\ MovesOn(r) /\ Requests' = Requests
  BY DEF Served, Requests
<1>2. /\ ToSend(r) \in 0..MostFrames /\ ToSend(r)' \in 0..MostFrames
      /\ pc[r] \in Waiting \cup Answering \cup Ended
      /\ pc'[r] \in Waiting \cup Answering \cup Ended
      /\ MostFrames \in Nat
  BY <1>1, ConfFacts DEF FewFrames, IInv, Shape, MostFrames
<1> DEFINE p == pc[r]
           p2 == pc'[r]
           n == ToSend(r)
           n2 == ToSend(r)'
           e == elapsed[r]
           e2 == elapsed'[r]
           d == Done(r)
           d2 == Done(r)'
<1>3. /\ Work(r) = Sum(p, n, e, d) /\ Work(r)' = Sum(p2, n2, e2, d2)
      /\ Place[p] \in 0..7 /\ Place[p2] \in 0..7 /\ n \in Nat /\ n2 \in Nat
  <2>1. Work(r)' = Sum(p2, n2, e2, d2)
    BY DEF Work, Sum, Done
  <2> QED BY <1>2, <2>1, WorkIs, PlaceFacts
<1>4. \/ Place[p2] < Place[p] /\ n2 <= n /\ (e => e2) /\ (d => d2)
      \/ p2 = p /\ n2 < n /\ (e => e2) /\ (d => d2)
      \/ p2 = p /\ n2 = n /\ (e => e2) /\ ~d /\ d2
      \/ /\ p \in {"head", "stream", "parked"} /\ n2 = n /\ ~e /\ e2 /\ d2 = d
         /\ p2 = IF p = "parked" THEN "stream" ELSE p
  <2>1. \/ /\ p = "idle" /\ p2 \in {"collect", "delay", "head", "failed"}
           /\ request'[r] = request[r] /\ e2 = e
        \/ /\ p = "collect" /\ p2 \in {"delay", "head", "failed"}
           /\ request'[r] = request[r] /\ e2 = e
        \/ /\ p = "delay" /\ p2 \in {"head", "failed"}
           /\ request'[r] = request[r] /\ e2 = e
        => Place[p2] < Place[p] /\ n2 <= n /\ (e => e2) /\ (d => d2)
    <3>1. p \in {"idle", "collect", "delay"} => n = MostFrames
      BY DEF ToSend, MostFrames
    <3>2. p2 = "failed" => Place[p2] = 0
      BY PlaceFacts
    <3> QED BY <1>2, <3>1, <3>2, PlaceFacts DEF Done
  <2>2. /\ p = "head" /\ p2 \in {"stream", "done", "failed"} /\ body'[r] = body[r]
        /\ request'[r] = request[r] /\ e2 = e
        => Place[p2] < Place[p] /\ n2 <= n /\ (e => e2) /\ (d => d2)
    <3>1. p = "head" => n = FramesLeft(body[r])
      BY DEF ToSend
    <3>2. p2 = "stream" /\ body'[r] = body[r] => n2 = FramesLeft(body[r])
      BY DEF ToSend, FramesLeft
    <3>3. p2 \in {"done", "failed"} => n2 = 0 /\ Place[p2] = 0
      BY PlaceFacts DEF ToSend
    <3> QED BY <1>2, <3>1, <3>2, <3>3, PlaceFacts DEF Done
  <2>3. /\ p = "stream" /\ p2 = "parked" /\ request'[r] = request[r] /\ e2 = e
        /\ body'[r] = body[r]
        => Place[p2] < Place[p] /\ n2 <= n /\ (e => e2) /\ (d => d2)
    <3>1. p = "stream" => n = FramesLeft(body[r])
      BY DEF ToSend
    <3>2. p2 = "parked" /\ body'[r] = body[r] => n2 = FramesLeft(body[r])
      BY DEF ToSend, FramesLeft
    <3> QED BY <1>2, <3>1, <3>2, PlaceFacts DEF Done
  <2>4. /\ p \in {"head", "stream", "parked"} /\ ~e /\ e2
        /\ p2 = IF p = "parked" THEN "stream" ELSE p
        /\ request'[r] = request[r] /\ body'[r] = body[r]
        => n2 = n /\ d2 = d
    BY DEF ToSend, FramesLeft, Done
  <2>5. /\ p = "stream"
        /\ \/ p2 = "done"
           \/ p2 = "stream" /\ FramesLeft(body'[r]) < FramesLeft(body[r])
        /\ request'[r] = request[r] /\ e2 = e
        => \/ Place[p2] < Place[p] /\ n2 <= n /\ (e => e2) /\ (d => d2)
           \/ p2 = p /\ n2 < n /\ (e => e2) /\ (d => d2)
    <3>1. p = "stream" => n = FramesLeft(body[r])
      BY DEF ToSend
    <3>2. p2 = "stream" => n2 = FramesLeft(body'[r])
      BY DEF ToSend, FramesLeft
    <3>3. p2 = "done" => n2 = 0 /\ Place[p2] = 0
      BY PlaceFacts DEF ToSend
    <3> QED BY <1>2, <3>1, <3>2, <3>3, PlaceFacts DEF Done
  <2>6. /\ p2 = p /\ request[r] \notin {"drained", "cut"} /\ request'[r] \in {"drained", "cut"}
        /\ e2 = e /\ body'[r] = body[r]
        => n2 = n /\ ~d /\ d2
    BY <1>1 DEF ToSend, FramesLeft, Done
  <2> HIDE DEF n, n2, d, d2
  <2> QED BY <1>1, <2>1, <2>2, <2>3, <2>4, <2>5, <2>6 DEF MovesOn
<1> HIDE DEF p, p2, n, n2, e, e2, d, d2
<1>5. CASE \/ Place[p2] < Place[p] /\ n2 <= n /\ (e => e2) /\ (d => d2)
           \/ p2 = p /\ n2 < n /\ (e => e2) /\ (d => d2)
           \/ p2 = p /\ n2 = n /\ (e => e2) /\ ~d /\ d2
  <2>1. /\ Place[p2] <= Place[p] /\ n2 <= n /\ (e => e2) /\ (d => d2)
        /\ \/ Place[p2] < Place[p] \/ n2 < n \/ (~d /\ d2)
    BY <1>3, <1>5
  <2>2. Sum(p2, n2, e2, d2) \in Nat /\ Sum(p2, n2, e2, d2) < Sum(p, n, e, d)
    BY <1>3, <2>1, SumDown, Zenon
  <2> QED BY <1>3, <2>2, Zenon
<1>6. CASE /\ p \in {"head", "stream", "parked"} /\ n2 = n /\ ~e /\ e2 /\ d2 = d
           /\ p2 = IF p = "parked" THEN "stream" ELSE p
  <2>1. Sum(p, n, e, d) = Sum(p, n, FALSE, d) /\ Sum(p2, n2, e2, d2) = Sum(p2, n, TRUE, d)
    BY <1>6 DEF Sum
  <2>2. Sum(p2, n, TRUE, d) \in Nat /\ Sum(p2, n, TRUE, d) < Sum(p, n, FALSE, d)
    <3>1. p \in {"head", "stream", "parked"} /\ n \in Nat
          /\ p2 = IF p = "parked" THEN "stream" ELSE p
      BY <1>3, <1>6
    <3> QED BY <3>1, SumWoken, Zenon
  <2>3. Sum(p2, n2, e2, d2) \in Nat /\ Sum(p2, n2, e2, d2) < Sum(p, n, e, d)
    BY <2>1, <2>2, Zenon
  <2> QED BY <1>3, <2>3, Zenon
<1> QED BY <1>4, <1>5, <1>6

(***************************************************************************)
(* A request that is left alone, or given up, has no more to do than it    *)
(* had.                                                                    *)
(***************************************************************************)
LEMMA AsideNoMore ==
  ASSUME FewFrames, NEW q \in Requests, conf' = conf, body'[q] = body[q],
         elapsed'[q] = elapsed[q], Done(q)' = Done(q),
         pc[q] \in Waiting \cup Answering \cup Ended, pc'[q] = pc[q] \/ pc'[q] \in Ended,
         MostFrames \in Nat
  PROVE  Work(q)' \in Nat /\ Work(q)' <= Work(q)
<1>1. Work(q) = Sum(pc[q], ToSend(q), elapsed[q], Done(q))
  BY WorkIs
<1>2. Work(q)' = Sum(pc'[q], ToSend(q)', elapsed[q], Done(q))
  BY DEF Work, Sum, Done
<1>3. ToSend(q) \in Nat
  BY DEF FewFrames
<1>4. ToSend(q)' = ToSend(q) \/ ToSend(q)' = 0
  BY DEF ToSend, FramesLeft
<1>5. ToSend(q)' \in Nat /\ ToSend(q)' <= ToSend(q)
  BY <1>3, <1>4
<1>6. Place[pc[q]] \in 0..7 /\ Place[pc'[q]] \in 0..7 /\ Place[pc'[q]] <= Place[pc[q]]
  BY PlaceFacts
<1> QED BY <1>1, <1>2, <1>3, <1>5, <1>6, SumDown

(***************************************************************************)
(* WorkGoesDown, of one step.                                              *)
(***************************************************************************)
LEMMA WorkStep ==
  ASSUME IInv, IInv', FewFrames, FewFrames', Next, NEW q \in Requests
  PROVE  /\ Work(q)' \in Nat /\ Work(q)' <= Work(q)
         /\ Serve(q) => Work(q)' < Work(q)
<1>1. pc[q] \in Waiting \cup Answering \cup Ended /\ MostFrames \in Nat
  BY ConfFacts DEF IInv, Shape, MostFrames
<1>2. Serve(q) => Work(q)' \in Nat /\ Work(q)' < Work(q)
  BY ServeMoves, ServedLess
<1>3. Work(q) \in Int
  BY <1>1, WorkIs, PlaceFacts DEF FewFrames, Sum
<1>4. CASE Serve(q)
  BY <1>2, <1>3, <1>4
<1>5. CASE ~Serve(q) /\ \E r \in Requests : Serve(r)
  <2>1. PICK r \in Requests : Served(r) /\ q # r
    BY <1>5, ServeMoves
  <2>2. Alone(q) /\ conf' = conf
    BY <2>1 DEF Served
  <2>3. Done(q)' = Done(q)
    BY <2>2 DEF Alone, Done
  <2>4. Work(q)' \in Nat /\ Work(q)' <= Work(q)
    BY <1>1, <2>2, <2>3, AsideNoMore DEF Alone
  <2> QED BY <1>5, <2>4
<1>6. CASE ~Serve(q) /\ Client
  <2>1. /\ conf' = conf /\ body' = body /\ elapsed' = elapsed
        /\ pc'[q] = pc[q] \/ pc'[q] \in Ended
    BY <1>6 DEF Client, ClientHead, ClientBody, ResetStream, LoseConnection, Goto, IInv, Shape
  <2>2. request'[q] = request[q]
        \/ (request[q] \notin {"drained", "cut"} /\ request'[q] \notin {"drained", "cut"})
    BY <1>6 DEF Client, ClientHead, ClientBody, ResetStream, LoseConnection, IInv, Shape
  <2>3. Done(q)' = Done(q)
    BY <2>2 DEF Done
  <2>4. Work(q)' \in Nat /\ Work(q)' <= Work(q)
    BY <1>1, <2>1, <2>3, AsideNoMore
  <2> QED BY <1>6, <2>4
<1> QED BY <1>4, <1>5, <1>6 DEF Next

(***************************************************************************)
(* WorkGoesDown: each step of a request leaves less for it to do, and no   *)
(* step more for any request; NoneHeldUp and this leave it no way out of   *)
(* being answered but to be starved, which fairness excludes.              *)
(***************************************************************************)
THEOREM WorkRunsOut == Safe => WorkGoesDown
<1>1. IInv /\ IInv' /\ FewFrames /\ FewFrames' /\ [Next]_vars
      => [\A r \in Requests : /\ Work(r)' \in Nat /\ Work(r)' <= Work(r)
                              /\ Serve(r) => Work(r)' < Work(r)]_vars
  BY WorkStep
<1> QED BY <1>1, Inductive, FramesBounded, PTL DEF WorkGoesDown, Safe
-----------------------------------------------------------------------------
(***************************************************************************)
(* CanGoOn is what it takes: a step of a request is taken only where it    *)
(* holds, and where it holds the state below may come next.                *)
(***************************************************************************)
LEMMA ServedCouldGoOn ==
  ASSUME NEW r \in Requests, Serve(r)
  PROVE  CanGoOn(r)
BY DEF Serve, CanGoOn, CallStatic, CollectedStatic, DelayOver, CallMcp, CollectedMcp, RefuseHead,
       SendHead, PollPending, SleepOver, PollFrame, Drain

At(r, where) == [pc EXCEPT ![r] = where]
Noted(r, t) == IF conf.meter THEN [tally EXCEPT ![r] = t] ELSE tally

Responded(r, t) ==
  IF conf.builds /\ ~SleepPanics
    THEN <<conf, request, At(r, "head"), [body EXCEPT ![r] = StaticBody], elapsed, sent,
           Noted(r, CountOut(t, StaticSize(r)))>>
    ELSE <<conf, request,
           [q \in Requests |->
              IF q = r THEN "failed"
              ELSE IF conf.http2 \/ pc[q] \in Ended THEN pc[q] ELSE "refused"],
           body, elapsed, sent, Noted(r, t)>>

DelayedOrResponded(r, t) ==
  IF conf.delay THEN <<conf, request, At(r, "delay"), body, elapsed, sent, Noted(r, t)>>
                ELSE Responded(r, t)

Read(r) == <<conf, request, At(r, "collect"), body, elapsed, sent, tally>>

AnsweredMcp(r, b, t) ==
  <<conf, request, At(r, "head"), [body EXCEPT ![r] = b], elapsed, sent,
    Noted(r, CountOut(t, McpSize(r)))>>

Called(r) ==
  IF conf.runtime = "mcp"
    THEN IF conf.kind[r] = "misdirected"
           THEN AnsweredMcp(r, FullBody(TRUE), CountIn(tally[r], HeadIn))
           ELSE Read(r)
    ELSE IF Collects THEN Read(r) ELSE DelayedOrResponded(r, tally[r])

AnsweredRead(r) ==
  LET t == CountIn(tally[r], SizeIn(r)) IN
    IF conf.runtime = "mcp" THEN AnsweredMcp(r, McpAnswer(r), t) ELSE DelayedOrResponded(r, t)

HeadSent(r) ==
  <<conf, request, At(r, IF EndsWithHead(r) THEN "done" ELSE "stream"), body, elapsed,
    [sent EXCEPT ![r].head = TRUE,
                 ![r].bytes = @ + IF conf.reply.framing THEN 0 ELSE HeadWritten(HeadOf(r))],
    tally>>

TimerOver(r) ==
  <<conf, request, At(r, IF pc[r] = "parked" THEN "stream" ELSE pc[r]), body,
    [elapsed EXCEPT ![r] = TRUE], sent, tally>>

FrameSent(r) ==
  LET b == Taken(body[r])
      ends == IsEndStream(b) \/ ~HasFrame(body[r])
      index == IF body[r].idx < body[r].notes THEN b.idx ELSE b.notes + 1
  IN <<conf, request, At(r, IF ends THEN "done" ELSE "stream"), [body EXCEPT ![r] = b], elapsed,
       IF HasFrame(body[r])
         THEN [sent EXCEPT ![r].bytes = @ + FrameWritten(r, ends),
                        ![r].frames = Append(@, index)]
         ELSE sent,
       tally>>

CutOff(r) ==
  <<conf, [request EXCEPT ![r] = "cut"],
    [q \in Requests |-> IF pc[q] = "idle" THEN "refused" ELSE pc[q]], body, elapsed, sent, tally>>

Outcome(r) ==
  IF Callable(r) THEN Called(r)
  ELSE IF Collected(r) THEN AnsweredRead(r)
  ELSE IF pc[r] = "delay" THEN Responded(r, tally[r])
  ELSE IF pc[r] = "head" THEN HeadSent(r)
  ELSE IF pc[r] = "parked" /\ body[r].held /\ ~elapsed[r] THEN TimerOver(r)
  ELSE IF pc[r] = "stream" THEN IF body[r].held /\ ~elapsed[r] THEN TimerOver(r) ELSE FrameSent(r)
  ELSE CutOff(r)

(***************************************************************************)
(* A service that has what it needs may end in its response, or a failure. *)
(***************************************************************************)
LEMMA RespondedIs ==
  ASSUME NEW r, NEW t, vars' = Responded(r, t)
  PROVE  Respond(r, t) /\ UNCHANGED <<conf, request, elapsed, sent>>
<1>1. CASE conf.builds /\ ~SleepPanics
  BY <1>1 DEF vars, Responded, Respond, At, Noted, Goto, Record
<1>2. CASE ~(conf.builds /\ ~SleepPanics)
  BY <1>2 DEF vars, Responded, Respond, Noted, Record, Fail
<1> QED BY <1>1, <1>2

LEMMA DelayedOrRespondedIs ==
  ASSUME NEW r, NEW t, vars' = DelayedOrResponded(r, t)
  PROVE  DelayOrRespond(r, t) /\ UNCHANGED <<conf, request, elapsed, sent>>
<1>1. CASE conf.delay
  BY <1>1 DEF vars, DelayedOrResponded, DelayOrRespond, At, Noted, Goto, Record
<1>2. CASE ~conf.delay
  BY <1>2, RespondedIs DEF DelayedOrResponded, DelayOrRespond
<1> QED BY <1>1, <1>2

(***************************************************************************)
(* CanGoOn(r) is enough: Outcome(r) is a step of r.  With ServedCouldGoOn, *)
(* CanGoOn(r) is Serve(r)'s being enabled, stated without ENABLED.         *)
(***************************************************************************)
THEOREM GoesOnWhenItCan ==
  ASSUME NEW r \in Requests, CanGoOn(r), vars' = Outcome(r)
  PROVE  Serve(r)
<1>1. CASE Callable(r)
  <2>1. vars' = Called(r)
    BY <1>1 DEF Outcome
  <2>2. CASE conf.runtime = "mcp"
    <3>1. CallMcp(r)
      BY <1>1, <2>1, <2>2 DEF vars, Called, CallMcp, AnsweredMcp, Answer, Read, At, Noted, Goto,
                              Record
    <3> QED BY <3>1 DEF Serve
  <2>3. CASE conf.runtime # "mcp" /\ Collects
    <3>1. CallStatic(r)
      BY <1>1, <2>1, <2>3 DEF vars, Called, CallStatic, Read, At, Goto
    <3> QED BY <3>1 DEF Serve
  <2>4. CASE conf.runtime # "mcp" /\ ~Collects
    <3>1. CallStatic(r)
      BY <1>1, <2>1, <2>4, DelayedOrRespondedIs DEF Called, CallStatic
    <3> QED BY <3>1 DEF Serve
  <2> QED BY <2>2, <2>3, <2>4
<1>2. CASE Collected(r) /\ ~Callable(r)
  <2>1. vars' = AnsweredRead(r)
    BY <1>2 DEF Outcome
  <2>2. CASE conf.runtime = "mcp"
    <3>1. CollectedMcp(r)
      BY <1>2, <2>1, <2>2 DEF vars, AnsweredRead, CollectedMcp, AnsweredMcp, Answer, At, Noted,
                              Goto, Record
    <3> QED BY <3>1 DEF Serve
  <2>3. CASE conf.runtime # "mcp"
    <3>1. CollectedStatic(r)
      BY <1>2, <2>1, <2>3, DelayedOrRespondedIs DEF AnsweredRead, CollectedStatic
    <3> QED BY <3>1 DEF Serve
  <2> QED BY <2>2, <2>3
<1>3. CASE ~Callable(r) /\ ~Collected(r)
  <2>1. CASE pc[r] = "delay"
    <3>1. DelayOver(r)
      BY <1>3, <2>1, RespondedIs DEF Outcome, DelayOver
    <3> QED BY <3>1 DEF Serve
  <2>2. CASE pc[r] = "head"
    <3>1. SendHead(r)
      BY <1>3, <2>2 DEF vars, Outcome, HeadSent, SendHead, At, Goto
    <3> QED BY <3>1 DEF Serve
  <2>3. CASE pc[r] \in {"parked", "stream"} /\ body[r].held /\ ~elapsed[r]
    <3>1. vars' = TimerOver(r)
      BY <1>3, <2>3 DEF Outcome
    <3>2. SleepOver(r)
      BY <2>3, <3>1 DEF vars, TimerOver, SleepOver, At, Goto
    <3> QED BY <3>2 DEF Serve
  <2>4. CASE pc[r] = "stream" /\ ~(body[r].held /\ ~elapsed[r])
    <3>1. vars' = FrameSent(r)
      BY <1>3, <2>4 DEF Outcome
    <3>2. PollFrame(r)
      BY <2>4, <3>1 DEF vars, FrameSent, PollFrame, At, Goto
    <3> QED BY <3>2 DEF Serve
  <2>5. CASE /\ pc[r] \notin {"delay", "head", "stream"}
             /\ ~(pc[r] = "parked" /\ body[r].held /\ ~elapsed[r])
    <3>1. vars' = CutOff(r)
      BY <1>3, <2>5 DEF Outcome
    <3>2. Drain(r)
      BY <1>3, <2>5, <3>1 DEF vars, CutOff, Drain, CanGoOn
    <3> QED BY <3>2 DEF Serve
  <2> QED BY <2>1, <2>2, <2>3, <2>4, <2>5
<1> QED BY <1>1, <1>2, <1>3
=============================================================================
