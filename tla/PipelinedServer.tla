-------------------------- MODULE PipelinedServer --------------------------
(***************************************************************************)
(* What a connection handler of the completion-based runtimes promises to  *)
(* its client, with no buffer, cursor or system call in sight: the         *)
(* requests that have arrived in full are taken in order, one at a time,   *)
(* each is answered once before the next is taken, and the handler ends    *)
(* the connection cleanly only when nothing that arrived is unanswered.    *)
(*                                                                         *)
(* PipelinedConn implements this module (PipelinedConn!Server).            *)
(***************************************************************************)
EXTENDS Naturals

VARIABLES
  arrived,   \* the requests, numbered from 1, that have been sent in full
  taken,     \* how many of them the handler has taken
  answered,  \* how many it has answered
  ending     \* "open", "clean" (end of stream seen) or "aborted"

vars == <<arrived, taken, answered, ending>>

Init ==
  /\ arrived = {}
  /\ taken = 0
  /\ answered = 0
  /\ ending = "open"

(***************************************************************************)
(* More requests arrive.  A clean end is final: nothing arrives after it.  *)
(***************************************************************************)
Arrive ==
  /\ ending # "clean"
  /\ arrived \subseteq arrived'
  /\ UNCHANGED <<taken, answered, ending>>

(***************************************************************************)
(* The next request in order, and only when the previous one is answered.  *)
(***************************************************************************)
Take ==
  /\ ending = "open"
  /\ taken = answered
  /\ taken + 1 \in arrived
  /\ taken' = taken + 1
  /\ UNCHANGED <<arrived, answered, ending>>

Answer ==
  /\ ending = "open"
  /\ answered < taken
  /\ answered' = answered + 1
  /\ UNCHANGED <<arrived, taken, ending>>

Finish ==
  /\ ending = "open"
  /\ taken = answered
  /\ arrived \subseteq 1..answered
  /\ ending' = "clean"
  /\ UNCHANGED <<arrived, taken, answered>>

Abort ==
  /\ ending = "open"
  /\ ending' = "aborted"
  /\ UNCHANGED <<arrived, taken, answered>>

Next == Arrive \/ Take \/ Answer \/ Finish \/ Abort

Spec == Init /\ [][Next]_vars
=============================================================================
