------------------------- MODULE FinalReport_proofs ------------------------
(***************************************************************************)
(* Proofs about the report of Ctrl-C, for any number of workers and ports: *)
(* it reads within its tables, shows nothing that was not counted, and its *)
(* ports account for its totals up to one count per worker; and it has one *)
(* value less to read after each of its steps, until the process exits.    *)
(***************************************************************************)
EXTENDS FinalReport, Counters_proofs

(***************************************************************************)
(* The handler starts at the first value of the first table.               *)
(***************************************************************************)
InOrder ==
  /\ rpc = "none" => done = 0
  /\ rpc \in {"none", "totals"} => at = 1

(***************************************************************************)
(* What the finished report will show of a port at least: the value read,  *)
(* or, before it is read, the counter.  From the moment the two counts of  *)
(* the totals are read, this covers them up to one count per worker.       *)
(***************************************************************************)
HasRead(p, c) ==
  \/ rpc = "exited"
  \/ /\ rpc = "ports"
     /\ \E i \in 1..at : /\ PortOrder[i] = p
                         /\ i < at \/ \E k \in 1..done : Order[k] = c

Seen(p, c) == IF HasRead(p, c) THEN portions[p][c] ELSE port[p][c]

TotalsRead ==
  \/ rpc = "totals" /\ done = 3
  \/ rpc = "ports"
  \/ rpc = "exited" /\ SeveralPorts

SeenCoversTotals ==
  TotalsRead =>
    totals["requests"] + totals["responses"]
      <= SumOver([p \in Ports |-> Seen(p, "requests") + Seen(p, "responses")], Ports)
           + Cardinality(Workers)

IInv == TypeOK /\ CInv /\ NothingInvented /\ InOrder /\ SeenCoversTotals

LEMMA Started == Init => IInv
<1> SUFFICES ASSUME Init PROVE IInv
  OBVIOUS
<1>1. Zero \in Values /\ \A c \in Counter : Zero[c] = 0
  BY DEF Zero, Values
<1>2. Len(PortOrder) \in Nat \ {0}
  BY PortOrderAssumption
<1>3. TypeOK
  BY <1>1, <1>2 DEF Init, CountersInit, CountersTypeOK, TypeOK
<1>4. NothingInvented
  BY <1>1 DEF Init, CountersInit, NothingInvented
<1>5. InOrder /\ SeenCoversTotals
  BY DEF Init, InOrder, SeenCoversTotals, TotalsRead
<1> QED
  BY <1>3, <1>4, <1>5, CountersStart DEF IInv, Init

(***************************************************************************)
(* What is seen of the ports only grows, so that it goes on covering the   *)
(* totals.                                                                 *)
(***************************************************************************)
LEMMA SeenGrows ==
  ASSUME TypeOK, TypeOK', SeenCoversTotals, TotalsRead, totals' = totals,
         \A p \in Ports, c \in Counter : Seen(p, c) <= Seen(p, c)'
  PROVE  SeenCoversTotals'
<1> DEFINE f == [p \in Ports |-> Seen(p, "requests") + Seen(p, "responses")]
           f1 == [p \in Ports |-> Seen(p, "requests")' + Seen(p, "responses")']
<1>1. \A p \in Ports : f[p] \in Nat /\ f1[p] \in Nat /\ f[p] <= f1[p]
  <2> SUFFICES ASSUME NEW p \in Ports PROVE f[p] \in Nat /\ f1[p] \in Nat /\ f[p] <= f1[p]
    OBVIOUS
  <2>1. /\ portions \in [Ports -> Values] /\ port \in [Ports -> Values]
        /\ portions' \in [Ports -> Values] /\ port' \in [Ports -> Values]
    BY DEF TypeOK, CountersTypeOK
  <2>2. \A c \in Counter : Seen(p, c) \in Nat /\ Seen(p, c)' \in Nat
    BY <2>1 DEF Seen, Values
  <2>3. "requests" \in Counter /\ "responses" \in Counter
    BY DEF Counter
  <2>4. /\ Seen(p, "requests") \in Nat /\ Seen(p, "requests")' \in Nat
        /\ Seen(p, "responses") \in Nat /\ Seen(p, "responses")' \in Nat
        /\ Seen(p, "requests") <= Seen(p, "requests")'
        /\ Seen(p, "responses") <= Seen(p, "responses")'
    BY <2>2, <2>3
  <2> QED BY <2>4
<1>2. totals["requests"] + totals["responses"] <= SumOver(f, Ports) + Cardinality(Workers)
  BY DEF SeenCoversTotals
<1>3. totals["requests"] \in Nat /\ totals["responses"] \in Nat
  BY DEF TypeOK, Values, Counter
<1>4. Cardinality(Workers) \in Nat
  BY FS_CardinalityType, CountersAssumption
<1> HIDE DEF f, f1
<1>5. SumOver(f, Ports) <= SumOver(f1, Ports)
  BY <1>1, SumAtMost, CountersAssumption
<1>6. SumOver(f, Ports) \in Nat /\ SumOver(f1, Ports) \in Nat
  BY <1>1, SumNat, CountersAssumption
<1>7. totals["requests"] + totals["responses"] <= SumOver(f1, Ports) + Cardinality(Workers)
  BY <1>2, <1>3, <1>4, <1>5, <1>6
<1> QED BY <1>7 DEF SeenCoversTotals, f1

(***************************************************************************)
(* What was read stays below what is counted: the workers only add.        *)
(***************************************************************************)
LEMMA WorkKeeps == IInv /\ Work => IInv'
<1> SUFFICES ASSUME IInv, Work PROVE IInv'
  OBVIOUS
<1>1. CountersTypeOK' /\ Grows /\ UNCHANGED <<rpc, done, at, totals, portions>>
  BY WorkerGrows DEF IInv, TypeOK, Work, reportVars
<1>2. TypeOK'
  BY <1>1 DEF IInv, TypeOK
<1>3. NothingInvented'
  <2> SUFFICES ASSUME NEW c \in Counter
               PROVE  /\ totals[c] <= total'[c]
                      /\ \A p \in Ports : portions[p][c] <= port'[p][c]
    BY <1>1 DEF NothingInvented
  <2>1. /\ totals \in Values /\ total \in Values /\ total' \in Values
        /\ portions \in [Ports -> Values] /\ port \in [Ports -> Values]
        /\ port' \in [Ports -> Values]
    BY <1>1 DEF IInv, TypeOK, CountersTypeOK
  <2>2. totals[c] <= total'[c]
    BY <1>1, <2>1 DEF IInv, NothingInvented, Grows, Values
  <2>3. ASSUME NEW p \in Ports PROVE portions[p][c] <= port'[p][c]
    BY <1>1, <2>1 DEF IInv, NothingInvented, Grows, Values
  <2> QED
    BY <2>2, <2>3
<1>4. InOrder'
  BY <1>1 DEF IInv, InOrder
<1>5. SeenCoversTotals'
  <2> SUFFICES ASSUME TotalsRead PROVE SeenCoversTotals'
    BY <1>1 DEF SeenCoversTotals, TotalsRead
  <2>1. /\ portions \in [Ports -> Values] /\ port \in [Ports -> Values]
        /\ port' \in [Ports -> Values]
    BY <1>1 DEF IInv, TypeOK, CountersTypeOK
  <2>2. ASSUME NEW p \in Ports, NEW c \in Counter PROVE Seen(p, c) <= Seen(p, c)'
    <3>1. HasRead(p, c)' <=> HasRead(p, c)
      BY <1>1 DEF HasRead
    <3>2. portions[p][c] \in Nat /\ port[p][c] <= port'[p][c]
      BY <1>1, <2>1 DEF Grows, Values
    <3> QED BY <1>1, <3>1, <3>2 DEF Seen
  <2> QED BY <1>1, <1>2, <2>2, SeenGrows DEF IInv
<1>6. CInv'
  BY WorkerKeeps DEF IInv, Work
<1> QED
  BY <1>2, <1>3, <1>4, <1>5, <1>6 DEF IInv

LEMMA CountersStays ==
  ASSUME CInv, UNCHANGED <<total, port, adds, open>>
  PROVE  CInv'
BY DEF CInv, CountersTypeOK, CallsInProgress, PortsAccountForTotal, SumPorts,
       RequestsAreOpen, ResponsesAreOwed, Shown, Owed

LEMMA ReadKeeps == IInv /\ Report => IInv'
<1> SUFFICES ASSUME IInv, Report PROVE IInv'
  OBVIOUS
<1> DEFINE c0 == Order[done + 1]
<1>1. /\ done \in 0..3 /\ c0 \in Counter /\ (done + 1) % 4 \in 0..3
      /\ at \in 1..Len(PortOrder) /\ Len(PortOrder) \in Nat \ {0}
      /\ PortOrder[at] \in Ports
      /\ totals \in Values /\ total \in Values
      /\ portions \in [Ports -> Values] /\ port \in [Ports -> Values]
  BY OrderType, PortOrderAssumption DEF IInv, TypeOK, CountersTypeOK
<1> HIDE DEF c0
<1>2. CASE ReadTotal
  <2>1. /\ totals' = [totals EXCEPT ![c0] = total[c0]] /\ done' = (done + 1) % 4
        /\ rpc' \in {"totals", "ports", "exited"}
        /\ UNCHANGED <<total, port, adds, open, at, portions>>
    BY <1>2 DEF ReadTotal, counterVars, c0
  <2>2. TypeOK'
    BY <1>1, <2>1 DEF IInv, TypeOK, CountersTypeOK, Values
  <2>3. ASSUME NEW c \in Counter PROVE totals'[c] <= total'[c]
    <3>1. total[c] \in Nat /\ totals[c] <= total[c]
      BY <1>1 DEF IInv, NothingInvented, Values
    <3>2. totals'[c] = (IF c = c0 THEN total[c] ELSE totals[c])
      BY <1>1, <2>1 DEF Values
    <3> QED
      BY <2>1, <3>1, <3>2
  <2>4. NothingInvented'
    BY <2>1, <2>3 DEF IInv, NothingInvented
  <2>5. InOrder'
    BY <1>2, <2>1 DEF IInv, InOrder, ReadTotal
  <2>6. CInv'
    BY <2>1, CountersStays DEF IInv
  <2>7. SeenCoversTotals'
    <3> SUFFICES ASSUME TotalsRead' PROVE SeenCoversTotals'
      BY DEF SeenCoversTotals
    <3>1. done \in {2, 3}
      BY <1>1, <1>2, <2>1 DEF ReadTotal, TotalsRead
    <3>2. ASSUME NEW p \in Ports, NEW c \in Counter
          PROVE  Seen(p, c) = port[p][c] /\ Seen(p, c)' = port[p][c]
      <4>1. ~ HasRead(p, c)
        BY <1>2 DEF HasRead, ReadTotal
      <4>2. ~ HasRead(p, c)'
        <5>1. /\ at' = 1
              /\ \/ rpc' = "totals"
                 \/ rpc' = "ports" /\ done' = 0
                 \/ rpc' = "exited" /\ ~ SeveralPorts
          BY <1>1, <1>2, <2>1 DEF IInv, InOrder, ReadTotal
        <5>2. rpc' # "exited"
          BY <5>1 DEF TotalsRead, SeveralPorts
        <5> QED BY <5>1, <5>2 DEF HasRead
      <4> QED BY <2>1, <4>1, <4>2 DEF Seen
    <3>3. CASE done = 3
      <4>1. TotalsRead /\ c0 = "responseBytes"
        BY <1>2, <3>3 DEF TotalsRead, ReadTotal, c0, Order
      <4>2. totals'["requests"] = totals["requests"] /\ totals'["responses"] = totals["responses"]
        BY <1>1, <2>1, <4>1 DEF Values, Counter
      <4>3. [p \in Ports |-> Seen(p, "requests") + Seen(p, "responses")]
              = [p \in Ports |-> Seen(p, "requests")' + Seen(p, "responses")']
        BY <3>2 DEF Counter
      <4> QED BY <4>1, <4>2, <4>3 DEF SeenCoversTotals, IInv
    <3>4. CASE done = 2
      <4>1. c0 = "responses"
        BY <3>4 DEF c0, Order
      <4>2. totals'["requests"] = totals["requests"] /\ totals'["responses"] = total["responses"]
        BY <1>1, <2>1, <4>1 DEF Values, Counter
      <4> DEFINE f1 == [p \in Ports |-> Seen(p, "requests")' + Seen(p, "responses")']
                 g == [p \in Ports |-> port[p]["requests"]]
                 h == [p \in Ports |-> port[p]["responses"]]
      <4>3. \A p \in Ports : g[p] \in Nat /\ h[p] \in Nat /\ f1[p] = g[p] + h[p]
        BY <1>1, <3>2 DEF Counter, Values
      <4>4. SumPorts("requests") = SumOver(g, Ports) /\ SumPorts("responses") = SumOver(h, Ports)
        BY DEF SumPorts
      <4> HIDE DEF f1, g, h
      <4>5. SumOver(f1, Ports) = SumOver(g, Ports) + SumOver(h, Ports)
        BY <4>3, SumOfSums, CountersAssumption
      <4>6. SumOver(g, Ports) \in Nat /\ SumOver(h, Ports) \in Nat
        BY <4>3, SumNat, CountersAssumption
      <4>7. total["requests"] + total["responses"]
              <= SumOver(g, Ports) + SumOver(h, Ports) + Cardinality(Workers)
        BY <4>4, CallsPerWorker DEF IInv
      <4>8. /\ total["requests"] \in Nat /\ total["responses"] \in Nat
            /\ totals["requests"] \in Nat /\ totals["requests"] <= total["requests"]
            /\ Cardinality(Workers) \in Nat
        BY <1>1, FS_CardinalityType, CountersAssumption DEF IInv, NothingInvented, Values, Counter
      <4>9. totals'["requests"] + totals'["responses"] <= SumOver(f1, Ports) + Cardinality(Workers)
        BY <4>2, <4>5, <4>6, <4>7, <4>8
      <4> QED BY <4>9 DEF SeenCoversTotals, f1
    <3> QED BY <3>1, <3>3, <3>4
  <2> QED
    BY <2>2, <2>4, <2>5, <2>6, <2>7 DEF IInv
<1>3. CASE ReadPort
  <2> DEFINE p0 == PortOrder[at]
  <2>1. /\ portions' = [portions EXCEPT ![p0][c0] = port[p0][c0]]
        /\ done' = (done + 1) % 4 /\ rpc' \in {"ports", "exited"}
        /\ at' = (IF done = 3 /\ at < Len(PortOrder) THEN at + 1 ELSE at)
        /\ UNCHANGED <<total, port, adds, open, totals>>
    BY <1>3 DEF ReadPort, counterVars, c0
  <2>2. at' \in 1..Len(PortOrder)
    BY <1>1, <2>1
  <2> HIDE DEF p0
  <2>3. p0 \in Ports
    BY <1>1 DEF p0
  <2>4. TypeOK'
    BY <1>1, <2>1, <2>2, <2>3 DEF IInv, TypeOK, CountersTypeOK, Values
  <2>5. ASSUME NEW c \in Counter, NEW p \in Ports
        PROVE portions'[p][c] <= port'[p][c]
    <3>1. port[p][c] \in Nat /\ portions[p][c] <= port[p][c]
      BY <1>1 DEF IInv, NothingInvented, Values
    <3>2. portions[p0] \in [Counter -> Nat]
      BY <1>1, <2>3 DEF Values
    <3>3. portions'[p][c] = (IF p = p0 /\ c = c0 THEN port[p][c] ELSE portions[p][c])
      BY <1>1, <2>1, <2>3, <3>2
    <3> QED
      BY <2>1, <3>1, <3>3
  <2>6. NothingInvented'
    BY <2>1, <2>5 DEF IInv, NothingInvented
  <2>7. InOrder'
    BY <2>1 DEF InOrder
  <2>8. CInv'
    BY <2>1, CountersStays DEF IInv
  <2>9. ASSUME NEW p \in Ports, NEW c \in Counter, HasRead(p, c)', ~ HasRead(p, c)
        PROVE  p = p0 /\ c = c0
    <3>1. ASSUME NEW i \in 1..at, PortOrder[i] = p, i < at
          PROVE  FALSE
      BY <1>3, <2>9, <3>1 DEF HasRead, ReadPort
    <3>2. ASSUME p = p0, NEW k \in 1..done, Order[k] = c
          PROVE  FALSE
      BY <1>1, <1>3, <2>9, <3>2 DEF HasRead, ReadPort, p0
    <3>3. CASE done < 3
      <4>1. rpc' = "ports" /\ at' = at /\ done' = done + 1
        BY <1>1, <1>3, <3>3 DEF ReadPort
      <4>2. PICK i \in 1..at : PortOrder[i] = p /\ (i < at \/ \E k \in 1..(done + 1) : Order[k] = c)
        BY <2>9, <4>1 DEF HasRead
      <4>3. i = at /\ \E k \in 1..(done + 1) : Order[k] = c
        BY <1>1, <3>1, <4>2
      <4>4. PICK k \in 1..(done + 1) : Order[k] = c
        BY <4>3
      <4>5. p = p0
        BY <4>2, <4>3 DEF p0
      <4>6. k = done + 1
        BY <1>1, <3>2, <4>4, <4>5
      <4> QED BY <4>4, <4>5, <4>6 DEF c0
    <3>4. CASE done = 3
      <4>1. PICK i \in 1..at : PortOrder[i] = p
        <5>1. CASE at < Len(PortOrder)
          <6>1. rpc' = "ports" /\ at' = at + 1 /\ done' = 0
            BY <1>1, <1>3, <3>4, <5>1 DEF ReadPort
          <6> QED BY <1>1, <2>9, <6>1 DEF HasRead
        <5>2. CASE at = Len(PortOrder)
          BY <1>1, <5>2, PortOrderAssumption
        <5> QED BY <1>1, <5>1, <5>2
      <4>2. i = at /\ p = p0
        BY <1>1, <3>1, <4>1 DEF p0
      <4>3. PICK k \in 1..4 : Order[k] = c
        BY DEF Order, Counter
      <4>4. k = 4
        BY <3>2, <3>4, <4>2, <4>3
      <4> QED BY <3>4, <4>2, <4>3, <4>4 DEF c0
    <3> QED BY <1>1, <3>3, <3>4
  <2>10. ASSUME NEW p \in Ports, NEW c \in Counter
         PROVE  Seen(p, c) <= Seen(p, c)'
    <3>1. /\ port[p][c] \in Nat /\ portions[p][c] \in Nat
          /\ portions[p][c] <= port[p][c]
      BY <1>1 DEF IInv, NothingInvented, Values
    <3>2. portions[p0] \in [Counter -> Nat]
      BY <1>1, <2>3 DEF Values
    <3>3. portions'[p][c] = (IF p = p0 /\ c = c0 THEN port[p][c] ELSE portions[p][c])
      BY <1>1, <2>1, <2>3, <3>2
    <3> QED BY <2>1, <2>9, <3>1, <3>3 DEF Seen
  <2>11. TotalsRead
    BY <1>3 DEF ReadPort, TotalsRead
  <2>12. SeenCoversTotals'
    BY <2>1, <2>4, <2>10, <2>11, SeenGrows DEF IInv
  <2> QED
    BY <2>4, <2>6, <2>7, <2>8, <2>12 DEF IInv
<1> QED
  BY <1>2, <1>3 DEF Report

THEOREM Inductive == Spec => []IInv
<1>1. IInv /\ [Next]_vars => IInv'
  <2> SUFFICES ASSUME IInv, [Next]_vars PROVE IInv'
    OBVIOUS
  <2>1. CASE CtrlC
    <3>1. /\ UNCHANGED <<total, port, adds, open, done, at, totals, portions>>
          /\ rpc = "none" /\ rpc' = "totals"
      BY <2>1 DEF CtrlC, counterVars
    <3>2. TypeOK' /\ NothingInvented' /\ InOrder' /\ done' = 0
      BY <3>1 DEF IInv, TypeOK, CountersTypeOK, NothingInvented, InOrder
    <3>3. SeenCoversTotals'
      BY <3>1, <3>2 DEF SeenCoversTotals, TotalsRead
    <3> QED
      BY <3>1, <3>2, <3>3, CountersStays DEF IInv
  <2>2. CASE UNCHANGED vars
    <3>1. UNCHANGED <<total, port, adds, open, rpc, done, at, totals, portions>>
      BY <2>2 DEF vars, counterVars, reportVars
    <3>2. TypeOK' /\ NothingInvented' /\ InOrder'
      BY <3>1 DEF IInv, TypeOK, CountersTypeOK, NothingInvented, InOrder
    <3>3. SeenCoversTotals'
      BY <3>1 DEF IInv, SeenCoversTotals, TotalsRead, Seen, HasRead
    <3> QED
      BY <3>1, <3>2, <3>3, CountersStays DEF IInv
  <2> QED
    BY <2>1, <2>2, WorkKeeps, ReadKeeps DEF Next
<1> QED
  BY <1>1, Started, PTL DEF Spec

(***************************************************************************)
(* Every variable keeps its type: the report never reads past a table.     *)
(***************************************************************************)
THEOREM TypeCorrect == Spec => []TypeOK
<1>1. IInv => TypeOK
  BY DEF IInv
<1> QED
  BY <1>1, Inductive, PTL

(***************************************************************************)
(* Of ReportIsPast: no value read exceeds what was counted.                *)
(***************************************************************************)
THEOREM ReadsArePast == Spec => []NothingInvented
<1>1. IInv => NothingInvented
  BY DEF IInv
<1> QED
  BY <1>1, Inductive, PTL

(***************************************************************************)
(* Totals and ports differ by what calls in progress have still to add.    *)
(***************************************************************************)
THEOREM NothingLost == Spec => []PortsAccountForTotal
<1>1. IInv => PortsAccountForTotal
  BY DEF IInv, CInv
<1> QED
  BY <1>1, Inductive, PTL

(***************************************************************************)
(* On no port and not in total are more responses counted than requests.   *)
(***************************************************************************)
THEOREM RequestsFirst == Spec => []ResponsesFollowRequests
<1>1. IInv => ResponsesFollowRequests
  BY ResponsesBehind DEF IInv
<1> QED
  BY <1>1, Inductive, PTL

(***************************************************************************)
(* A port's share is never more than what is counted in total.             *)
(***************************************************************************)
THEOREM NotAhead == Spec => []ReportIsPast
<1>1. IInv => ReportIsPast
  <2> SUFFICES ASSUME IInv, NEW c \in Counter PROVE SumPortions(c) <= total[c]
    BY DEF ReportIsPast, IInv
  <2> DEFINE f == [p \in Ports |-> portions[p][c]]
             g == [p \in Ports |-> port[p][c]]
  <2>1. \A p \in Ports : f[p] \in Nat /\ g[p] \in Nat /\ f[p] <= g[p]
    BY DEF IInv, TypeOK, CountersTypeOK, NothingInvented, Values
  <2>2. SumPortions(c) = SumOver(f, Ports) /\ SumPorts(c) = SumOver(g, Ports)
    BY DEF SumPortions, SumPorts
  <2>3. SumPorts(c) <= total[c] /\ total[c] \in Nat
    BY PortsBehind DEF IInv, CInv, CountersTypeOK, Values
  <2> HIDE DEF f, g
  <2>4. SumOver(f, Ports) <= SumOver(g, Ports)
    BY <2>1, SumAtMost, CountersAssumption
  <2>5. SumOver(f, Ports) \in Nat /\ SumOver(g, Ports) \in Nat
    BY <2>1, SumNat, CountersAssumption
  <2> QED BY <2>2, <2>3, <2>4, <2>5
<1> QED
  BY <1>1, Inductive, PTL

(***************************************************************************)
(* A finished report's ports account for its totals, up to one request or  *)
(* response per worker, however many ports it read one after the other.    *)
(***************************************************************************)
THEOREM ReportAddsUp == Spec => []PortsCoverTotals
<1>1. IInv => PortsCoverTotals
  <2> SUFFICES ASSUME IInv, rpc = "exited", SeveralPorts
               PROVE  totals["requests"] + totals["responses"]
                        <= SumPortions("requests") + SumPortions("responses") + Cardinality(Workers)
    BY DEF PortsCoverTotals
  <2> DEFINE f == [p \in Ports |-> Seen(p, "requests") + Seen(p, "responses")]
             g == [p \in Ports |-> portions[p]["requests"]]
             h == [p \in Ports |-> portions[p]["responses"]]
  <2>1. \A p \in Ports : g[p] \in Nat /\ h[p] \in Nat /\ f[p] = g[p] + h[p]
    BY DEF IInv, TypeOK, Values, Counter, Seen, HasRead
  <2>2. SumPortions("requests") = SumOver(g, Ports) /\ SumPortions("responses") = SumOver(h, Ports)
    BY DEF SumPortions
  <2>3. totals["requests"] + totals["responses"] <= SumOver(f, Ports) + Cardinality(Workers)
    BY DEF IInv, SeenCoversTotals, TotalsRead
  <2> HIDE DEF f, g, h
  <2>4. SumOver(f, Ports) = SumOver(g, Ports) + SumOver(h, Ports)
    BY <2>1, SumOfSums, CountersAssumption
  <2> QED BY <2>2, <2>3, <2>4
<1> QED
  BY <1>1, Inductive, PTL
=============================================================================
