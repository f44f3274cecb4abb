--------------------------- MODULE RequestService --------------------------
(***************************************************************************)
(* What a connection of the hyper-based servers promises to its client and *)
(* to the counters, with no body, timer or protocol in sight.  A request   *)
(* is counted before its response is, and the response before the client   *)
(* sees anything of it; the client sees the head, then the parts in their  *)
(* order, each once, and the end only after the last; a request given up   *)
(* is neither counted nor answered any further.  A serial connection       *)
(* (HTTP/1) begins a response when those before it are over.               *)
(*                                                                         *)
(* HyperService implements this module (HyperService!Service).             *)
(***************************************************************************)
EXTENDS Integers, Sequences

VARIABLES
  requests,   \* the requests of the connection, numbered in their order
  serial,     \* one at a time
  metered,    \* counters are kept
  stage,      \* per request: waiting, answered, headed, over, lost
  counted,    \* per request: 0, 1 (the request), 2 (and its response)
  parts,      \* per request: how many parts its response has
  delivered   \* per request: the parts the client was sent

vars == <<requests, serial, metered, stage, counted, parts, delivered>>

Init ==
  /\ requests \subseteq Nat
  /\ serial \in BOOLEAN
  /\ metered \in BOOLEAN
  /\ stage = [r \in requests |-> "waiting"]
  /\ counted = [r \in requests |-> 0]
  /\ parts = [r \in requests |-> 0]
  /\ delivered = [r \in requests |-> <<>>]

Move(r, from, to) ==
  /\ stage[r] = from
  /\ stage' = [stage EXCEPT ![r] = to]

Count(r) ==
  /\ metered
  /\ stage[r] = "waiting"
  /\ counted[r] = 0
  /\ counted' = [counted EXCEPT ![r] = 1]
  /\ UNCHANGED <<stage, parts, delivered>>

(***************************************************************************)
(* The response is decided, and counted, with the request if it was not.   *)
(***************************************************************************)
Answer(r) ==
  /\ Move(r, "waiting", "answered")
  /\ counted' = [counted EXCEPT ![r] = IF metered THEN 2 ELSE 0]
  /\ parts'[r] \in Nat
  /\ parts' = [parts EXCEPT ![r] = parts'[r]]
  /\ UNCHANGED delivered

SendHead(r) ==
  /\ serial => \A q \in requests : q < r => stage[q] = "over"
  /\ \/ Move(r, "answered", "headed")
     \/ parts[r] = 0 /\ Move(r, "answered", "over")
  /\ UNCHANGED <<counted, parts, delivered>>

Deliver(r) ==
  LET n == Len(delivered[r]) + 1 IN
  /\ n <= parts[r]
  /\ delivered' = [delivered EXCEPT ![r] = Append(@, n)]
  /\ \/ Move(r, "headed", "headed")
     \/ n = parts[r] /\ Move(r, "headed", "over")
  /\ UNCHANGED <<counted, parts>>

Finish(r) ==
  /\ Len(delivered[r]) = parts[r]
  /\ Move(r, "headed", "over")
  /\ UNCHANGED <<counted, parts, delivered>>

(***************************************************************************)
(* Any requests that are not over are lost; one that fails as it is        *)
(* counted leaves its count.                                               *)
(***************************************************************************)
GiveUp ==
  /\ stage' = [r \in requests |-> stage'[r]]
  /\ counted' = [r \in requests |-> counted'[r]]
  /\ \A r \in requests :
       /\ stage'[r] = stage[r] \/ (stage'[r] = "lost" /\ stage[r] # "over")
       /\ \/ counted'[r] = counted[r]
          \/ /\ metered /\ stage[r] = "waiting" /\ stage'[r] = "lost"
             /\ counted[r] = 0 /\ counted'[r] = 1
  /\ UNCHANGED <<parts, delivered>>

Next ==
  /\ \/ \E r \in requests :
          Count(r) \/ Answer(r) \/ SendHead(r) \/ Deliver(r) \/ Finish(r)
     \/ GiveUp
  /\ UNCHANGED <<requests, serial, metered>>

Spec == Init /\ [][Next]_vars
=============================================================================
