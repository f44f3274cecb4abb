---------------------------- MODULE Meter_proofs ---------------------------
(***************************************************************************)
(* Proofs about the meter thread, for any number of workers, ports, slots  *)
(* and requests: the lines it prints partition what was counted and the    *)
(* time that passed, its subtractions never go below zero, and its         *)
(* schedule does not drift.                                                *)
(***************************************************************************)
EXTENDS Meter, Counters_proofs, TLAPS

(***************************************************************************)
(* The inductive invariant: each value kept is between the last snapshot   *)
(* and the counter, and so is the beginning of a sum.                      *)
(***************************************************************************)
ReadInv ==
  /\ \A c \in Counter : prev[c] <= values[c] /\ values[c] <= total[c]
  /\ low # -1 => /\ mpc = "read"
                 /\ values[Order[done + 1]] <= low
                 /\ low <= total[Order[done + 1]]

ClockInv ==
  /\ prevInstant <= now
  /\ lines >= 0 => first.time <= prevInstant
  /\ lines >= 0 /\ mpc # "wait" => deadline <= now
  /\ mpc = "wait" => lines >= 0

NothingYet == lines = -1 => printed = Zero /\ elapsed = 0

IInv ==
  /\ TypeOK /\ LinesPartition /\ NoDrift
  /\ ReadInv /\ ClockInv /\ NothingYet
-----------------------------------------------------------------------------
LEMMA InitIInv == Init => IInv
<1> SUFFICES ASSUME Init PROVE IInv
  OBVIOUS
<1>1. Zero \in Values /\ \A c \in Counter : Zero[c] = 0
  BY DEF Zero, Values
<1>2. CountersTypeOK
  BY <1>1 DEF Init, CountersInit, CountersTypeOK
<1>3. TypeOK
  BY <1>1, <1>2 DEF Init, TypeOK
<1>4. LinesPartition /\ NoDrift /\ ClockInv
  BY DEF Init, LinesPartition, NoDrift, ClockInv
<1>5. ReadInv
  BY <1>1 DEF Init, CountersInit, ReadInv
<1>6. NothingYet
  BY DEF Init, NothingYet
<1> QED BY <1>3, <1>4, <1>5, <1>6 DEF IInv

(***************************************************************************)
(* The workers only raise the counters.                                    *)
(***************************************************************************)
LEMMA WorkerIInv == IInv /\ WorkerStep /\ UNCHANGED meterVars => IInv'
<1> SUFFICES ASSUME IInv, WorkerStep, UNCHANGED meterVars PROVE IInv'
  OBVIOUS
<1>1. UNCHANGED <<now, mpc, done, values, low, prev, prevInstant, deadline, lines,
                  printed, elapsed, first>>
  BY DEF meterVars, readVars
<1>2. CountersTypeOK' /\ \A c \in Counter : total[c] <= total'[c]
  BY WorkerGrows DEF IInv, TypeOK, Grows
<1>3. TypeOK'
  BY <1>1, <1>2 DEF IInv, TypeOK
<1>4. LinesPartition' /\ NoDrift' /\ ClockInv' /\ NothingYet'
  BY <1>1 DEF IInv, LinesPartition, NoDrift, ClockInv, NothingYet
<1>5. ReadInv'
  <2>1. /\ total \in Values /\ total' \in Values /\ values \in Values
        /\ low \in Nat \cup {-1} /\ done \in 0..3
    BY <1>2 DEF IInv, TypeOK, CountersTypeOK
  <2>2. ASSUME NEW c \in Counter PROVE prev[c] <= values[c] /\ values[c] <= total'[c]
    BY <1>2, <2>1 DEF IInv, ReadInv, Values
  <2>3. ASSUME low # -1 PROVE low <= total'[Order[done + 1]]
    <3>1. low <= total[Order[done + 1]]
      BY <2>3 DEF IInv, ReadInv
    <3>2. Order[done + 1] \in Counter
      BY <2>1, <3>1, OrderType
    <3> QED BY <1>2, <2>1, <3>1, <3>2, <2>3 DEF Values
  <2> QED BY <1>1, <2>2, <2>3 DEF IInv, ReadInv
<1> QED BY <1>3, <1>4, <1>5 DEF IInv

LEMMA ReadIInv == IInv /\ (BeginSum \/ EndSum) => IInv'
<1> SUFFICES ASSUME IInv, BeginSum \/ EndSum PROVE IInv'
  OBVIOUS
<1> USE DEF counterVars
<1>1. /\ mpc = "read"
      /\ UNCHANGED <<total, port, adds, open, now, prev, prevInstant, deadline,
                     lines, printed, elapsed, first>>
  BY DEF BeginSum, EndSum
<1>2. /\ TypeOK /\ total \in Values /\ values \in Values /\ prev \in Values
      /\ low \in Nat \cup {-1} /\ done \in 0..3
  BY <1>1 DEF IInv, TypeOK, CountersTypeOK, ReadInv
<1>3. Order[done + 1] \in Counter
  BY <1>2, OrderType
<1>4. mpc' \in {"read", "note"}
  BY DEF BeginSum, EndSum
<1>5. LinesPartition' /\ NoDrift' /\ ClockInv' /\ NothingYet'
  BY <1>1, <1>4 DEF IInv, LinesPartition, NoDrift, ClockInv, NothingYet
<1>6. CASE BeginSum
  <2>1. low' = total[Order[done + 1]] /\ UNCHANGED <<mpc, done, values>>
    BY <1>6 DEF BeginSum
  <2>2. low' \in Nat
    BY <1>2, <1>3, <2>1 DEF Values
  <2>3. TypeOK'
    BY <1>1, <1>2, <2>1, <2>2 DEF TypeOK, CountersTypeOK
  <2>4. ReadInv'
    BY <1>1, <1>2, <1>3, <2>1, <2>2 DEF IInv, ReadInv, Values
  <2> QED BY <1>5, <2>3, <2>4 DEF IInv
<1>7. CASE EndSum
  <2> DEFINE o == Order[done + 1]
  <2>1. PICK v \in low..total[o] : values' = [values EXCEPT ![o] = v]
    BY <1>7 DEF EndSum
  <2>2. low # -1 /\ low' = -1 /\ done' = (done + 1) % 4
        /\ mpc' = IF done = 3 THEN "note" ELSE "read"
    BY <1>7 DEF EndSum
  <2>3. values[o] <= low /\ prev[o] <= values[o] /\ o \in Counter
    BY <1>3, <2>2 DEF IInv, ReadInv
  <2>4. v \in Nat /\ values[o] <= v /\ v <= total[o]
    BY <1>2, <2>1, <2>2, <2>3 DEF Values
  <2>5. done' \in 0..3
    BY <1>2, <2>2
  <2> HIDE DEF o
  <2>6. values' \in Values
    BY <1>2, <2>1, <2>3, <2>4 DEF Values
  <2>7. TypeOK'
    BY <1>1, <1>2, <1>4, <2>2, <2>5, <2>6 DEF TypeOK, CountersTypeOK
  <2>8. ASSUME NEW c \in Counter
        PROVE  prev[c] <= values'[c] /\ values'[c] <= total[c]
    <3>1. prev[c] <= values[c] /\ values[c] <= total[c]
      BY DEF IInv, ReadInv
    <3> QED BY <1>2, <2>1, <2>3, <2>4, <3>1 DEF Values
  <2>9. ReadInv'
    BY <1>1, <2>2, <2>5, <2>8 DEF ReadInv
  <2> QED BY <1>5, <2>7, <2>9 DEF IInv
<1> QED BY <1>6, <1>7

(***************************************************************************)
(* Taking the first snapshot and printing a line both make prev what was   *)
(* just read.                                                              *)
(***************************************************************************)
LEMMA NoteIInv == IInv /\ (Start \/ PrintLine) => IInv'
<1> SUFFICES ASSUME IInv, Start \/ PrintLine PROVE IInv'
  OBVIOUS
<1> USE DEF counterVars, readVars
<1>1. /\ mpc = "note" /\ mpc' = "wait" /\ prev' = values /\ prevInstant' = now
      /\ UNCHANGED <<total, port, adds, open, now, values, low, done>>
  BY DEF Start, PrintLine
<1>2. /\ TypeOK /\ total \in Values /\ values \in Values /\ prev \in Values
      /\ printed \in Values /\ now \in Nat /\ prevInstant \in Nat
      /\ deadline \in Nat /\ elapsed \in Nat /\ lines \in Nat \cup {-1}
      /\ first.values \in Values /\ first.time \in Nat /\ low = -1
  BY <1>1 DEF IInv, TypeOK, CountersTypeOK, ReadInv
<1>3. ReadInv'
  BY <1>1, <1>2 DEF IInv, ReadInv, Values
<1>4. prevInstant <= now /\ Slot \in Nat \ {0}
  BY MeterAssumption DEF IInv, ClockInv
<1>5. CASE Start
  <2>1. /\ deadline' = now + Slot /\ lines' = 0 /\ lines = -1
        /\ first' = [values |-> values, time |-> now]
        /\ UNCHANGED <<printed, elapsed>>
    BY <1>5 DEF Start
  <2>2. TypeOK'
    BY <1>1, <1>2, <1>4, <2>1 DEF TypeOK, CountersTypeOK
  <2>3. printed = Zero /\ elapsed = 0
    BY <2>1 DEF IInv, NothingYet
  <2>4. LinesPartition' /\ NoDrift' /\ ClockInv'
    BY <1>1, <1>2, <1>4, <2>1, <2>3 DEF LinesPartition, NoDrift, ClockInv, Zero, Values
  <2> QED BY <1>3, <2>1, <2>2, <2>4 DEF IInv, NothingYet
<1>6. CASE PrintLine
  <2>1. /\ lines \in Nat
        /\ printed' = [c \in Counter |-> printed[c] + Difference(c)]
        /\ elapsed' = elapsed + (now - prevInstant)
        /\ lines' = lines + 1 /\ deadline' = deadline + Slot
        /\ first' = first
    BY <1>2, <1>6 DEF PrintLine
  <2>2. /\ deadline <= now /\ first.time <= prevInstant
        /\ deadline = first.time + (lines + 1) * Slot
        /\ elapsed = prevInstant - first.time
    BY <1>1, <2>1 DEF IInv, ClockInv, NoDrift, LinesPartition
  <2>3. ASSUME NEW c \in Counter
        PROVE  printed'[c] \in Nat /\ printed'[c] = values[c] - first.values[c]
    <3>1. printed[c] = prev[c] - first.values[c] /\ prev[c] <= values[c]
      BY <2>1 DEF IInv, LinesPartition, ReadInv
    <3>2. /\ printed[c] \in Nat /\ prev[c] \in Nat /\ values[c] \in Nat
          /\ first.values[c] \in Nat
      BY <1>2 DEF Values
    <3> QED BY <2>1, <3>1, <3>2 DEF Difference
  <2>4. printed' \in Values
    BY <2>1, <2>3 DEF Values
  <2>5. elapsed' \in Nat /\ elapsed' = now - first.time
    BY <1>2, <1>4, <2>1, <2>2
  <2>6. TypeOK'
    BY <1>1, <1>2, <1>4, <2>1, <2>4, <2>5 DEF TypeOK, CountersTypeOK
  <2>7. LinesPartition'
    BY <1>1, <2>1, <2>3, <2>5 DEF LinesPartition
  <2>8. (lines + 1 + 1) * Slot = (lines + 1) * Slot + Slot
    BY <1>4, <2>1
  <2>9. NoDrift'
    <3>1. (lines + 1) * Slot <= elapsed'
      BY <1>2, <1>4, <2>1, <2>2, <2>5
    <3>2. deadline' = first.time + (lines + 1 + 1) * Slot
      BY <1>2, <1>4, <2>1, <2>2, <2>8
    <3> QED BY <2>1, <3>1, <3>2 DEF NoDrift
  <2>10. ClockInv'
    BY <1>1, <1>2, <2>1, <2>2, <1>4 DEF ClockInv
  <2> QED BY <1>3, <2>1, <2>6, <2>7, <2>9, <2>10 DEF IInv, NothingYet
<1> QED BY <1>5, <1>6

LEMMA ClockIInv == IInv /\ (Wake \/ Tick) => IInv'
<1> SUFFICES ASSUME IInv, Wake \/ Tick PROVE IInv'
  OBVIOUS
<1> USE DEF counterVars, readVars
<1>1. /\ UNCHANGED <<total, port, adds, open, done, values, low, prev, prevInstant,
                     deadline, lines, printed, elapsed, first>>
      /\ now' \in {now, now + 1} /\ now \in Nat
      /\ mpc' \in {"read", "note", "wait"}
  BY DEF Wake, Tick, IInv, TypeOK
<1>2. TypeOK'
  BY <1>1 DEF IInv, TypeOK, CountersTypeOK
<1>3. LinesPartition' /\ NoDrift'
  BY <1>1 DEF IInv, LinesPartition, NoDrift
<1>4. ReadInv'
  BY <1>1 DEF IInv, ReadInv, Wake, Tick
<1>5. ClockInv'
  <2>1. prevInstant \in Nat /\ deadline \in Nat
    BY DEF IInv, TypeOK
  <2> QED BY <1>1, <2>1 DEF IInv, ClockInv, Wake, Tick
<1> QED BY <1>1, <1>2, <1>3, <1>4, <1>5 DEF IInv, NothingYet
-----------------------------------------------------------------------------
LEMMA NextIInv == IInv /\ [Next]_vars => IInv'
<1> SUFFICES ASSUME IInv, [Next]_vars PROVE IInv'
  OBVIOUS
<1>1. CASE UNCHANGED vars
  BY <1>1 DEF vars, counterVars, meterVars, readVars, IInv, TypeOK, CountersTypeOK,
     LinesPartition, NoDrift, ReadInv, ClockInv, NothingYet
<1> QED BY <1>1, WorkerIInv, ReadIInv, NoteIInv, ClockIInv DEF Next, MeterStep

(***************************************************************************)
(* The inductive invariant holds in every state.                           *)
(***************************************************************************)
THEOREM Inductive == Spec => []IInv
BY InitIInv, NextIInv, PTL DEF Spec

(***************************************************************************)
(* Type correctness: in particular no sum of differences is negative.      *)
(***************************************************************************)
THEOREM TypeCorrect == Spec => []TypeOK
<1>1. IInv => TypeOK
  BY DEF IInv
<1> QED BY <1>1, Inductive, PTL

(***************************************************************************)
(* Each thing counted, and each instant, is in exactly one line.           *)
(***************************************************************************)
THEOREM Partition == Spec => []LinesPartition
<1>1. IInv => LinesPartition
  BY DEF IInv
<1> QED BY <1>1, Inductive, PTL

(***************************************************************************)
(* The schedule of the lines does not drift.                               *)
(***************************************************************************)
THEOREM Schedule == Spec => []NoDrift
<1>1. IInv => NoDrift
  BY DEF IInv
<1> QED BY <1>1, Inductive, PTL

(***************************************************************************)
(* No subtraction of counter values wraps.                                 *)
(***************************************************************************)
THEOREM NeverUnderflows == Spec => NoUnderflow
<1>1. IInv => \A c \in Counter : Difference(c) >= 0
  <2> SUFFICES ASSUME IInv, NEW c \in Counter PROVE Difference(c) >= 0
    OBVIOUS
  <2>1. prev[c] \in Nat /\ values[c] \in Nat /\ prev[c] <= values[c]
    BY DEF IInv, TypeOK, ReadInv, Values
  <2> QED BY <2>1 DEF Difference
<1>2. IInv /\ [Next]_vars => [PrintLine => \A c \in Counter : Difference(c) >= 0]_vars
  BY <1>1
<1> QED BY <1>2, Inductive, PTL DEF NoUnderflow, Spec
=============================================================================
