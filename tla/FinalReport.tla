---------------------------- MODULE FinalReport ----------------------------
(***************************************************************************)
(* Ctrl-C with --meter: the handler reads the four global counters, then,  *)
(* if there are several ports, the counters of each port in turn, and      *)
(* exits the process.  Nothing stops the workers of Counters meanwhile:    *)
(* the report is not a snapshot, and this module says how far from one it  *)
(* can be.                                                                 *)
(***************************************************************************)
EXTENDS Counters

CONSTANT PortOrder  \* the ports, sorted

ASSUME PortOrderAssumption ==
  /\ PortOrder \in Seq(Ports) /\ PortOrder # <<>>
  /\ \A p \in Ports : \E i \in DOMAIN PortOrder : PortOrder[i] = p

VARIABLES
  rpc,       \* "none", "totals", "ports" or "exited"
  done,      \* how many of the four values of the table at hand are read
  at,        \* the port at hand: its place in PortOrder
  totals,    \* the totals read
  portions   \* the values read of each port

reportVars == <<rpc, done, at, totals, portions>>
vars == <<counterVars, reportVars>>

TypeOK ==
  /\ CountersTypeOK
  /\ rpc \in {"none", "totals", "ports", "exited"}
  /\ done \in 0..3
  /\ at \in 1..Len(PortOrder)
  /\ totals \in Values
  /\ portions \in [Ports -> Values]

Init ==
  /\ CountersInit
  /\ rpc = "none" /\ done = 0 /\ at = 1
  /\ totals = Zero
  /\ portions = [p \in Ports |-> Zero]

CtrlC ==
  /\ rpc = "none"
  /\ rpc' = "totals"
  /\ UNCHANGED <<counterVars, done, at, totals, portions>>

SeveralPorts == Len(PortOrder) > 1

(***************************************************************************)
(* read_counters(); the per-port statistics follow when port_stats.        *)
(***************************************************************************)
ReadTotal ==
  /\ rpc = "totals"
  /\ totals' = [totals EXCEPT ![Order[done + 1]] = total[Order[done + 1]]]
  /\ done' = (done + 1) % 4
  /\ rpc' = IF done < 3 THEN "totals"
            ELSE IF SeveralPorts THEN "ports" ELSE "exited"
  /\ UNCHANGED <<counterVars, at, portions>>

(***************************************************************************)
(* The four values of each port, in the same order.                        *)
(***************************************************************************)
ReadPort ==
  /\ rpc = "ports"
  /\ LET p == PortOrder[at] IN
       portions' = [portions EXCEPT ![p][Order[done + 1]] = port[p][Order[done + 1]]]
  /\ done' = (done + 1) % 4
  /\ at' = IF done = 3 /\ at < Len(PortOrder) THEN at + 1 ELSE at
  /\ rpc' = IF done = 3 /\ at = Len(PortOrder) THEN "exited" ELSE "ports"
  /\ UNCHANGED <<counterVars, totals>>

(***************************************************************************)
(* process::exit stops the workers where they stand.                       *)
(***************************************************************************)
Work ==
  /\ rpc # "exited"
  /\ WorkerStep
  /\ UNCHANGED reportVars

Report == ReadTotal \/ ReadPort

Next == CtrlC \/ Report \/ Work

Spec == Init /\ [][Next]_vars
-----------------------------------------------------------------------------
(***************************************************************************)
(* Properties.                                                             *)
(***************************************************************************)
SumPortions(c) == SumOver([p \in Ports |-> portions[p][c]], Ports)

(***************************************************************************)
(* The ports of a finished report account for its totals, up to one        *)
(* request or response per worker: the totals are read first and added to  *)
(* first, so a worker whose count is missing from the ports was in one and *)
(* the same call from before the last total was read until after the first *)
(* port was.                                                               *)
(***************************************************************************)
PortsCoverTotals ==
  rpc = "exited" /\ SeveralPorts =>
    totals["requests"] + totals["responses"]
      <= SumPortions("requests") + SumPortions("responses") + Cardinality(Workers)

(***************************************************************************)
(* The report shows nothing that was not counted, in total or by a port,   *)
(* and no port's share exceeds what was counted in total when the process  *)
(* exited.                                                                 *)
(***************************************************************************)
NothingInvented ==
  \A c \in Counter :
    /\ totals[c] <= total[c]
    /\ \A p \in Ports : portions[p][c] <= port[p][c]

ReportIsPast == NothingInvented /\ \A c \in Counter : SumPortions(c) <= total[c]
=============================================================================
