------------------------------ MODULE Counters -----------------------------
(***************************************************************************)
(* The counters of --meter, as the worker threads write them.              *)
(*                                                                         *)
(* record_request and record_response are four separate adds each, the     *)
(* global counters first; nothing makes the four one step.  They hold no   *)
(* await, so the tasks of one thread do not interleave within a call, and  *)
(* those of different threads do.  Meter and FinalReport add the threads   *)
(* that read the counters meanwhile.                                       *)
(***************************************************************************)
EXTENDS Integers, Sequences, Sums

CONSTANTS
  Workers,        \* worker threads
  Ports,          \* registered ports
  Sizes,          \* bytes of a request
  ResponseSize,   \* bytes of a response
  MaxRequests     \* bound: requests recorded

ASSUME CountersAssumption ==
  /\ IsFiniteSet(Workers)
  /\ IsFiniteSet(Ports) /\ "total" \notin Ports
  /\ Sizes \subseteq Nat \ {0}
  /\ ResponseSize \in Nat \ {0}
  /\ MaxRequests \in Nat

(***************************************************************************)
(* The four values, and the order in which read_counters reads them.       *)
(***************************************************************************)
Counter == {"requests", "requestBytes", "responses", "responseBytes"}
Order == <<"requests", "requestBytes", "responses", "responseBytes">>
Values == [Counter -> Nat]
Zero == [c \in Counter |-> 0]

VARIABLES
  total,  \* REQUESTS, REQUEST_BYTES, RESPONSES, RESPONSE_BYTES
  port,   \* PORT_COUNTERS
  adds,   \* the adds each worker still has to do in its record_ call
  open    \* requests recorded whose response is not, per worker and port

counterVars == <<total, port, adds, open>>

Add == [to : Ports \cup {"total"}, counter : Counter, n : Nat]

CountersTypeOK ==
  /\ total \in Values
  /\ port \in [Ports -> Values]
  /\ adds \in [Workers -> Seq(Add)]
  /\ open \in [Workers -> [Ports -> Nat]]

CountersInit ==
  /\ total = Zero
  /\ port = [p \in Ports |-> Zero]
  /\ adds = [w \in Workers |-> <<>>]
  /\ open = [w \in Workers |-> [p \in Ports |-> 0]]

(* Mutants of Record: no count for the port; a port counted twice.         *)
RecordNoPortCount(p, count, bytes, n) ==
  <<[to |-> "total", counter |-> count, n |-> 1],
    [to |-> "total", counter |-> bytes, n |-> n],
    [to |-> p, counter |-> bytes, n |-> n]>>
RecordPortTwice(p, count, bytes, n) ==
  <<[to |-> "total", counter |-> count, n |-> 1],
    [to |-> "total", counter |-> bytes, n |-> n],
    [to |-> p, counter |-> count, n |-> 2],
    [to |-> p, counter |-> bytes, n |-> n]>>

(***************************************************************************)
(* The bodies of record_request and record_response: count and bytes.      *)
(***************************************************************************)
Record(p, count, bytes, n) ==
  <<[to |-> "total", counter |-> count, n |-> 1],
    [to |-> "total", counter |-> bytes, n |-> n],
    [to |-> p, counter |-> count, n |-> 1],
    [to |-> p, counter |-> bytes, n |-> n]>>

RecordRequest(w, p, n) ==
  /\ adds[w] = <<>>
  /\ total["requests"] < MaxRequests
  /\ adds' = [adds EXCEPT ![w] = Record(p, "requests", "requestBytes", n)]
  /\ open' = [open EXCEPT ![w][p] = @ + 1]
  /\ UNCHANGED <<total, port>>

(* Mutant of RecordResponse: recorded again for the same request.          *)
RecordResponseAgain(w, p) ==
  /\ adds[w] = <<>>
  /\ open[w][p] > 0
  /\ total["responses"] < 2 * MaxRequests
  /\ adds' = [adds EXCEPT ![w] =
                Record(p, "responses", "responseBytes", ResponseSize)]
  /\ UNCHANGED <<total, port, open>>

(***************************************************************************)
(* A response is recorded by the thread that recorded its request.         *)
(***************************************************************************)
RecordResponse(w, p) ==
  /\ adds[w] = <<>>
  /\ open[w][p] > 0
  /\ adds' = [adds EXCEPT ![w] =
                Record(p, "responses", "responseBytes", ResponseSize)]
  /\ open' = [open EXCEPT ![w][p] = @ - 1]
  /\ UNCHANGED <<total, port>>

(***************************************************************************)
(* One counter.add(n) of the call.                                         *)
(***************************************************************************)
AddTotal(w) ==
  /\ adds[w] # <<>>
  /\ LET a == Head(adds[w]) IN
       /\ a.to = "total"
       /\ total' = [total EXCEPT ![a.counter] = @ + a.n]
  /\ adds' = [adds EXCEPT ![w] = Tail(@)]
  /\ UNCHANGED <<port, open>>

AddPort(w) ==
  /\ adds[w] # <<>>
  /\ LET a == Head(adds[w]) IN
       /\ a.to \in Ports
       /\ port' = [port EXCEPT ![a.to][a.counter] = @ + a.n]
  /\ adds' = [adds EXCEPT ![w] = Tail(@)]
  /\ UNCHANGED <<total, open>>

(***************************************************************************)
(* A connection that ends between the two calls (its write failed, or the  *)
(* client left) never records its response.                                *)
(***************************************************************************)
Abandon(w, p) ==
  /\ adds[w] = <<>>
  /\ open[w][p] > 0
  /\ open' = [open EXCEPT ![w][p] = @ - 1]
  /\ UNCHANGED <<total, port, adds>>

WorkerStep ==
  \E w \in Workers :
    \/ \E p \in Ports, n \in Sizes : RecordRequest(w, p, n)
    \/ \E p \in Ports : RecordResponse(w, p) \/ Abandon(w, p)
    \/ AddTotal(w) \/ AddPort(w)

CountersSpec == CountersInit /\ [][WorkerStep]_counterVars
-----------------------------------------------------------------------------
(***************************************************************************)
(* Properties.                                                             *)
(***************************************************************************)
SumPorts(c) == SumOver([p \in Ports |-> port[p][c]], Ports)

(***************************************************************************)
(* What the adds `q' still add to the counter c of `to', and of all the    *)
(* ports together.                                                         *)
(***************************************************************************)
LeftIn(q, to, c) ==
  SumOver([i \in DOMAIN q |-> q[i].n],
          {i \in DOMAIN q : q[i].to = to /\ q[i].counter = c})

LeftInPorts(q, c) == SumOver([p \in Ports |-> LeftIn(q, p, c)], Ports)

(***************************************************************************)
(* Nothing is lost or counted twice on the way from the global counters to *)
(* the ports': they differ by what calls in progress have still to add.    *)
(***************************************************************************)
PortsAccountForTotal ==
  \A c \in Counter :
    total[c] + SumOver([w \in Workers |-> LeftIn(adds[w], "total", c)], Workers)
      = SumPorts(c) + SumOver([w \in Workers |-> LeftInPorts(adds[w], c)], Workers)

(***************************************************************************)
(* At no moment, on no port and not in total, are more responses counted   *)
(* than requests, whichever threads stand between which adds.              *)
(***************************************************************************)
ResponsesFollowRequests ==
  /\ total["responses"] <= total["requests"]
  /\ \A p \in Ports : port[p]["responses"] <= port[p]["requests"]
=============================================================================
