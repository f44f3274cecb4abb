------------------------------- MODULE Meter -------------------------------
(***************************************************************************)
(* The meter thread of --meter: once per slot it reads the four global     *)
(* counters, prints how much each grew per second of the time that really  *)
(* passed, and keeps what it read for the next slot.  It runs beside the   *)
(* workers of Counters, which go on adding while it reads.                 *)
(*                                                                         *)
(* A counter is a Monotone, sharded, whose value is summed shard by shard: *)
(* a read takes two steps and returns anything between the counter's value *)
(* at its beginning and at its end.                                        *)
(***************************************************************************)
EXTENDS Counters

CONSTANTS
  Slot,      \* SLOT, in ticks of the clock
  MaxTime    \* bound: ticks of the clock

ASSUME MeterAssumption == Slot \in Nat \ {0} /\ MaxTime \in Nat

VARIABLES
  now,          \* the monotonic clock
  mpc,          \* "read" (the counters), "note" (what was read) or "wait"
  done,         \* how many counters of the read in progress are read
  values,       \* their values
  low,          \* what the next one held when its sum was begun, else -1
  prev,         \* prev_req, prev_req_bytes, prev_res, prev_res_bytes
  prevInstant,  \* prev_instant
  deadline,     \* deadline
  lines,        \* lines printed (history)
  printed,      \* the sum of the differences they show (history)
  elapsed,      \* the sum of the times they are divided by (history)
  first         \* the snapshot taken before the loop, and its time (history)

readVars  == <<done, values, low>>
meterVars == <<now, mpc, readVars, prev, prevInstant, deadline, lines, printed,
               elapsed, first>>
vars == <<counterVars, meterVars>>

TypeOK ==
  /\ CountersTypeOK
  /\ now \in Nat
  /\ mpc \in {"read", "note", "wait"}
  /\ done \in 0..3 /\ values \in Values /\ low \in Nat \cup {-1}
  /\ prev \in Values /\ prevInstant \in Nat /\ deadline \in Nat
  /\ lines \in Nat \cup {-1} /\ printed \in Values /\ elapsed \in Nat
  /\ first \in [values : Values, time : Nat]

(***************************************************************************)
(* lines = -1: the snapshot before the loop is still to be taken.          *)
(***************************************************************************)
Init ==
  /\ CountersInit
  /\ now = 0
  /\ mpc = "read" /\ done = 0 /\ values = Zero /\ low = -1
  /\ prev = Zero /\ prevInstant = 0 /\ deadline = 0
  /\ lines = -1 /\ printed = Zero /\ elapsed = 0
  /\ first = [values |-> Zero, time |-> 0]

BeginSum ==
  /\ mpc = "read"
  /\ low = -1
  /\ low' = total[Order[done + 1]]
  /\ UNCHANGED <<counterVars, now, mpc, done, values, prev, prevInstant,
                 deadline, lines, printed, elapsed, first>>

EndSum ==
  /\ mpc = "read"
  /\ low # -1
  /\ \E v \in low..total[Order[done + 1]] :
       values' = [values EXCEPT ![Order[done + 1]] = v]
  /\ low' = -1
  /\ done' = (done + 1) % 4
  /\ mpc' = IF done = 3 THEN "note" ELSE "read"
  /\ UNCHANGED <<counterVars, now, prev, prevInstant, deadline, lines, printed,
                 elapsed, first>>

(***************************************************************************)
(* Before the loop: deadline = prev_instant = now; the loop begins with    *)
(* deadline += SLOT.                                                       *)
(***************************************************************************)
Start ==
  /\ mpc = "note"
  /\ lines = -1
  /\ prev' = values
  /\ prevInstant' = now
  /\ deadline' = now + Slot
  /\ lines' = 0
  /\ first' = [values |-> values, time |-> now]
  /\ mpc' = "wait"
  /\ UNCHANGED <<counterVars, now, readVars, printed, elapsed>>

(***************************************************************************)
(* Sleep until the deadline, if it is still to come; a sleep may last      *)
(* longer than asked, and the thread may be held up anywhere.              *)
(***************************************************************************)
Wake ==
  /\ mpc = "wait"
  /\ deadline <= now
  /\ mpc' = "read"
  /\ UNCHANGED <<counterVars, now, readVars, prev, prevInstant, deadline, lines,
                 printed, elapsed, first>>

(* Mutants of Difference: the requests subtracted from the responses; one  *)
(* previous value never used.                                              *)
DifferenceMixed(c) ==
  values[c] - prev[IF c = "responses" THEN "requests" ELSE c]
DifferenceOfNothing(c) ==
  values[c] - IF c = "responseBytes" THEN 0 ELSE prev[c]

Difference(c) == values[c] - prev[c]

(* Mutant of PrintLine: the next line is a slot after this one.            *)
PrintLineDrifting ==
  /\ mpc = "note"
  /\ lines >= 0
  /\ printed' = [c \in Counter |-> printed[c] + Difference(c)]
  /\ elapsed' = elapsed + (now - prevInstant)
  /\ lines' = lines + 1
  /\ prev' = values
  /\ prevInstant' = now
  /\ deadline' = now + Slot
  /\ mpc' = "wait"
  /\ UNCHANGED <<counterVars, now, readVars, first>>

(***************************************************************************)
(* Print the line, keep the values, and begin the next round.              *)
(***************************************************************************)
PrintLine ==
  /\ mpc = "note"
  /\ lines >= 0
  /\ printed' = [c \in Counter |-> printed[c] + Difference(c)]
  /\ elapsed' = elapsed + (now - prevInstant)
  /\ lines' = lines + 1
  /\ prev' = values
  /\ prevInstant' = now
  /\ deadline' = deadline + Slot
  /\ mpc' = "wait"
  /\ UNCHANGED <<counterVars, now, readVars, first>>

Tick ==
  /\ now < MaxTime
  /\ now' = now + 1
  /\ UNCHANGED <<counterVars, mpc, readVars, prev, prevInstant, deadline, lines,
                 printed, elapsed, first>>

MeterStep == BeginSum \/ EndSum \/ Start \/ Wake \/ PrintLine

Next ==
  \/ WorkerStep /\ UNCHANGED meterVars
  \/ MeterStep
  \/ Tick

Spec == Init /\ [][Next]_vars
-----------------------------------------------------------------------------
(***************************************************************************)
(* Properties.                                                             *)
(***************************************************************************)

(***************************************************************************)
(* Every request, response and byte counted since the meter began is in    *)
(* exactly one line, and so is every instant: what the lines show adds up  *)
(* to the last snapshot, however the adds fell among the reads.            *)
(***************************************************************************)
LinesPartition ==
  lines >= 0 =>
    /\ \A c \in Counter : printed[c] = prev[c] - first.values[c]
    /\ elapsed = prevInstant - first.time

(***************************************************************************)
(* The subtractions of counter values never go below zero (they would wrap *)
(* to about 2^64): a value read is never less than the one read before.    *)
(***************************************************************************)
NoUnderflow ==
  [][PrintLine => \A c \in Counter : Difference(c) >= 0]_vars

(***************************************************************************)
(* The schedule does not drift: a late line does not delay the later ones, *)
(* and no line comes before its time, counted from the beginning.          *)
(***************************************************************************)
NoDrift ==
  lines >= 0 =>
    /\ deadline = first.time + (lines + 1) * Slot
    /\ lines * Slot <= elapsed
=============================================================================
