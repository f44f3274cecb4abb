----------------------- MODULE PipelinedConn_proofs ------------------------
(***************************************************************************)
(* Proofs about the connection handler, for every scenario and every size: *)
(* the inductive invariant, the properties that follow from it, and that   *)
(* every step is a step of the abstract server or leaves it unchanged.     *)
(***************************************************************************)
EXTENDS PipelinedConn, TLAPS

(***************************************************************************)
(* A submitted read has room, and buf.len() is lent out only by glommio.   *)
(***************************************************************************)
ReadHasRoom ==
  pc = "read" => /\ Spare >= MinSpare
                 /\ len = IF conf.runtime = "glommio" THEN cap ELSE currentLen

(***************************************************************************)
(* The two directions of the stream, and the request in hand.              *)
(***************************************************************************)
Flow ==
  /\ rcvd <= sent /\ sent <= Total
  /\ got <= written /\ written - got <= SocketOut
  /\ served <= conf.count
  /\ 1..served \subseteq conf.wellFormed
  /\ pc \in {"delay", "write"} => served = written + 1
  /\ pc \in {"start", "top", "read", "decode", "closed"} => served = written
  /\ pc = "failed" => served - written \in {0, 1}
  /\ pc = "closed" => peer # "open" /\ rcvd = sent

(***************************************************************************)
(* Outside the decode loop the buffer holds no whole request: this is why  *)
(* waiting for more bytes is right, why an end of stream leaves nothing    *)
(* unanswered, and why the remainder is bounded.                           *)
(***************************************************************************)
NoneWhole ==
  pc \in {"start", "top", "read", "closed"} /\ served + 1 \in conf.wellFormed
    => rcvd < conf.bounds[served + 1]

IInv ==
  /\ TypeOK /\ BufferIsWindow /\ InOrder /\ MeterAgrees /\ CapacityBounded
  /\ ReadHasRoom /\ Flow /\ NoneWhole
-----------------------------------------------------------------------------
(***************************************************************************)
(* The types of a scenario's fields, and the order of its boundaries.      *)
(***************************************************************************)
LEMMA ScenarioFacts ==
  ASSUME conf \in Scenarios
  PROVE  /\ conf.count \in Nat
         /\ conf.bounds \in [0..conf.count -> Nat]
         /\ conf.bounds[0] = 0
         /\ \A i, j \in 0..conf.count : i < j => conf.bounds[i] < conf.bounds[j]
         /\ conf.wellFormed \subseteq 1..conf.count
         /\ conf.meter \in BOOLEAN
         /\ conf.delay \in BOOLEAN
         /\ \A k \in 1..conf.count : Size(k) <= MaxRequest
BY ScenarioAssumption DEF IsScenario, Size

(***************************************************************************)
(* A request has at least one byte, and ends within the stream.            *)
(***************************************************************************)
LEMMA RequestFacts ==
  ASSUME conf \in Scenarios, NEW k \in 1..conf.count
  PROVE  /\ conf.bounds[k] \in Nat /\ conf.bounds[k - 1] \in Nat
         /\ conf.bounds[k - 1] < conf.bounds[k]
         /\ Size(k) \in Nat \ {0}
         /\ conf.bounds[k] <= Total
         /\ Total \in Nat
<1>1. k \in 0..conf.count /\ k - 1 \in 0..conf.count /\ k - 1 < k
  BY ScenarioFacts
<1>2. conf.bounds[k] \in Nat /\ conf.bounds[k - 1] \in Nat
  BY <1>1, ScenarioFacts
<1>3. conf.bounds[k - 1] < conf.bounds[k]
  BY <1>1, ScenarioFacts
<1>4. conf.bounds[k] <= Total /\ Total \in Nat
  <2>1. conf.count \in 0..conf.count
    BY ScenarioFacts
  <2>2. k = conf.count \/ k < conf.count
    BY ScenarioFacts
  <2> QED BY <1>1, <2>1, <2>2, ScenarioFacts DEF Total
<1> QED BY <1>2, <1>3, <1>4 DEF Size

LEMMA ReservedFacts ==
  ASSUME cap \in Nat, NEW l \in Nat, l <= cap
  PROVE  /\ Reserved(l) \in Nat
         /\ cap <= Reserved(l)
         /\ Reserved(l) - l >= MinSpare
         /\ \A b \in Nat \ {0} :
              cap <= b /\ 2 * (l + MinSpare - 1) <= b => Reserved(l) <= b
<1>1. CASE cap - l < MinSpare
  <2>1. 2 * cap <= 2 * (l + MinSpare - 1)
    BY <1>1, SizesAssumption
  <2>2. Reserved(l) = 2 * cap \/ Reserved(l) = l + MinSpare
    BY <1>1 DEF Reserved, MaxOf
  <2>3. Reserved(l) >= 2 * cap /\ Reserved(l) >= l + MinSpare
    BY <1>1, SizesAssumption DEF Reserved, MaxOf
  <2> QED BY <2>1, <2>2, <2>3, SizesAssumption
<1>2. CASE ~(cap - l < MinSpare)
  BY <1>2, SizesAssumption DEF Reserved
<1> QED BY <1>1, <1>2

(***************************************************************************)
(* What the decoder accepts is the next request, and it lies wholly within *)
(* the bytes received.                                                     *)
(***************************************************************************)
LEMMA DecodesNext ==
  ASSUME TypeOK, BufferIsWindow, InOrder, Flow, pc = "decode",
         NEW k \in 1..conf.count, Holds(k)
  PROVE  k = served + 1 /\ conf.bounds[k] <= rcvd
<1>0. /\ conf \in Scenarios /\ served \in Nat /\ rcvd \in Nat
      /\ parsed \in Nat /\ len \in Nat
  BY DEF TypeOK
<1>1. /\ Size(k) = conf.bounds[k] - conf.bounds[k - 1]
      /\ Size(k) \in Nat \ {0}
      /\ conf.bounds[k - 1] \in Nat /\ conf.bounds[k] \in Nat
  BY <1>0, RequestFacts DEF Size
<1>2. parsed + Size(k) <= len /\ mem[parsed + 1] = conf.bounds[k - 1] + 1
  <2>1. 1 \in 1..Size(k)
    BY <1>1
  <2> QED BY <2>1 DEF Holds
<1>3. mem[parsed + 1] = rcvd - len + (parsed + 1)
  <2>1. parsed + 1 \in 1..len
    BY <1>0, <1>1, <1>2
  <2> QED BY <2>1 DEF BufferIsWindow, Valid
<1>4. rcvd - (len - parsed) = conf.bounds[served]
  BY DEF InOrder, Valid
<1>5. conf.bounds[served] = conf.bounds[k - 1]
  BY <1>0, <1>1, <1>2, <1>3, <1>4
<1>6. served \in 0..conf.count /\ k - 1 \in 0..conf.count
  BY <1>0, ScenarioFacts DEF Flow
<1>7. ~(served < k - 1) /\ ~(k - 1 < served)
  BY <1>0, <1>1, <1>5, <1>6, ScenarioFacts
<1>8. served = k - 1
  BY <1>0, <1>6, <1>7
<1> QED BY <1>0, <1>1, <1>2, <1>4, <1>5, <1>8

(***************************************************************************)
(* Conversely the decoder refuses only when the next request is malformed  *)
(* or not wholly in the buffer.                                            *)
(***************************************************************************)
LEMMA RefusesIncomplete ==
  ASSUME TypeOK, BufferIsWindow, InOrder, Flow, pc = "decode",
         \A k \in 1..conf.count : ~Holds(k),
         served + 1 \in conf.wellFormed
  PROVE  rcvd < conf.bounds[served + 1]
<1> DEFINE k == served + 1
<1>1. k \in 1..conf.count /\ k \in conf.wellFormed /\ k - 1 = served
  BY ScenarioFacts DEF TypeOK
<1>2. conf \in Scenarios /\ Size(k) \in Nat \ {0}
        /\ conf.bounds[k - 1] \in Nat /\ conf.bounds[k] \in Nat
  BY <1>1, RequestFacts DEF TypeOK
<1>3. rcvd - (len - parsed) = conf.bounds[k - 1] /\ parsed <= len
  BY <1>1 DEF InOrder, Valid
<1>4. SUFFICES ASSUME conf.bounds[k] <= rcvd PROVE FALSE
  BY <1>2 DEF TypeOK
<1>5. Size(k) = conf.bounds[k] - conf.bounds[k - 1]
  BY DEF Size
<1> HIDE DEF k
<1>6. parsed + Size(k) <= len
  BY SMTT(30), <1>2, <1>3, <1>4, <1>5 DEF TypeOK
<1>7. ASSUME NEW j \in 1..Size(k)
      PROVE  mem[parsed + j] = conf.bounds[k - 1] + j
  <2>1. parsed + j \in 1..len
    BY <1>2, <1>6 DEF TypeOK
  <2>2. mem[parsed + j] = rcvd - len + (parsed + j)
    BY <2>1 DEF BufferIsWindow, Valid
  <2> QED BY <1>2, <1>3, <2>2 DEF TypeOK
<1> QED BY <1>1, <1>6, <1>7 DEF Holds
-----------------------------------------------------------------------------
LEMMA InitIInv == Init => IInv
<1> SUFFICES ASSUME Init PROVE IInv
  OBVIOUS
<1>1. conf \in Scenarios
  BY DEF Init
<1>2. /\ conf.count \in Nat /\ conf.bounds[0] = 0
      /\ conf.wellFormed \subseteq 1..conf.count
      /\ conf.bounds \in [0..conf.count -> Nat]
  BY <1>1, ScenarioFacts
<1>3. TypeOK
  BY SizesAssumption DEF Init, TypeOK, Uninit
<1>4. BufferIsWindow /\ InOrder /\ MeterAgrees /\ ReadHasRoom
  BY <1>2, <1>3 DEF Init, BufferIsWindow, InOrder, MeterAgrees, ReadHasRoom, Valid, TypeOK
<1>5. Total \in Nat
  BY <1>2 DEF Total
<1>6. Flow
  BY <1>2, <1>5, SizesAssumption DEF Init, Flow
<1>7. NoneWhole
  <2> SUFFICES ASSUME 1 \in conf.wellFormed PROVE 0 < conf.bounds[1]
    BY DEF Init, NoneWhole
  <2> QED BY <1>1, <1>2, RequestFacts
<1>8. CapacityBounded
  BY SizesAssumption DEF Init, CapacityBounded, CapacityBound, MaxOf
<1> QED BY <1>3, <1>4, <1>6, <1>7, <1>8 DEF IInv
-----------------------------------------------------------------------------
(***************************************************************************)
(* The top of the loop.  The three ways to prepare the buffer hand         *)
(* SubmitRead a buffer that is still a window, holds the same unparsed     *)
(* bytes, and is short if every request is well formed.                    *)
(***************************************************************************)
Prepared(m, l, p) ==
  /\ m \in [1..cap -> Nat] /\ l \in Nat /\ p \in Nat
  /\ l <= cap /\ l <= rcvd /\ p <= l /\ l - p = len - parsed
  /\ \A i \in 1..l : m[i] = rcvd - l + i
  /\ conf.wellFormed = 1..conf.count => l <= CompactAbove + MaxRequest - 1

LEMMA SubmitReadIInv ==
  ASSUME IInv, pc = "top", NEW m, NEW l, NEW p,
         Prepared(m, l, p), SubmitRead(m, l, p)
  PROVE  IInv'
<1> USE DEF Prepared, SubmitRead, peerVars
<1>1. TypeOK /\ cap \in Nat /\ rcvd \in Nat
  BY DEF IInv, TypeOK
<1>2. cap' \in Nat /\ cap <= cap' /\ cap' - l >= MinSpare /\ l <= cap'
  <2>1. cap' = Reserved(l)
    OBVIOUS
  <2> QED BY <1>1, <2>1, ReservedFacts, SizesAssumption
<1>3. mem' \in [1..cap' -> Nat] /\ \A i \in 1..l : mem'[i] = m[i]
  <2>1. mem' = [i \in 1..cap' |-> IF i <= cap THEN m[i] ELSE Uninit]
    OBVIOUS
  <2>2. ASSUME NEW i \in 1..cap'
        PROVE  (IF i <= cap THEN m[i] ELSE Uninit) \in Nat
    BY <1>1, <1>2 DEF Uninit
  <2>3. ASSUME NEW i \in 1..l PROVE mem'[i] = m[i]
    BY <1>1, <1>2, <2>1, <2>3
  <2> QED BY <2>1, <2>2, <2>3
<1>4. pc' = "read" /\ currentLen' = l /\ parsed' = p /\ len' \in Nat
      /\ len' = IF conf.runtime = "glommio" THEN cap' ELSE l
  BY <1>2
<1>5. TypeOK'
  BY <1>1, <1>2, <1>3, <1>4 DEF TypeOK
<1>6. Valid' = l
  BY <1>4 DEF Valid
<1>7. BufferIsWindow'
  BY <1>2, <1>3, <1>6 DEF BufferIsWindow
<1>8. InOrder'
  BY <1>1, <1>4, <1>6 DEF InOrder, IInv, Valid
<1>9. MeterAgrees'
  BY DEF MeterAgrees, IInv
<1>10. CapacityBounded'
  <2> SUFFICES ASSUME conf.wellFormed = 1..conf.count PROVE cap' <= CapacityBound
    BY DEF CapacityBounded, CapacityBound, MaxOf
  <2>1. cap <= CapacityBound
    BY DEF IInv, CapacityBounded
  <2>2. CapacityBound \in Nat \ {0}
        /\ 2 * (CompactAbove + MaxRequest + MinSpare - 2) <= CapacityBound
    BY SizesAssumption DEF CapacityBound, MaxOf
  <2>3. 2 * (l + MinSpare - 1) <= CapacityBound
    BY <2>2, SizesAssumption
  <2>4. cap' = Reserved(l)
    OBVIOUS
  <2>5. l \in Nat /\ l <= cap
    OBVIOUS
  <2> HIDE DEF SubmitRead, Prepared
  <2> QED BY <1>1, <2>1, <2>2, <2>3, <2>4, <2>5, ReservedFacts
<1>11. ReadHasRoom'
  BY <1>2, <1>4 DEF ReadHasRoom, Spare
<1>12. Flow'
  BY <1>4 DEF Flow, IInv, Total
<1>13. NoneWhole'
  BY <1>4 DEF NoneWhole, IInv
<1> QED BY <1>5, <1>7, <1>8, <1>9, <1>10, <1>11, <1>12, <1>13 DEF IInv

(***************************************************************************)
(* What is left unparsed at the top of the loop is shorter than a request. *)
(***************************************************************************)
LEMMA RemainderIsShort ==
  ASSUME IInv, pc = "top", conf.wellFormed = 1..conf.count
  PROVE  len - parsed <= MaxRequest - 1
<1>1. /\ conf \in Scenarios /\ served \in Nat /\ rcvd \in Nat /\ sent \in Nat
      /\ parsed \in Nat /\ len \in Nat
  BY DEF IInv, TypeOK
<1>2. rcvd - (len - parsed) = conf.bounds[served]
  BY DEF IInv, InOrder, Valid
<1>3. served <= conf.count /\ rcvd <= sent /\ sent <= Total
  BY DEF IInv, Flow
<1>4. CASE served < conf.count
  <2>1. served + 1 \in 1..conf.count /\ (served + 1) - 1 = served
    BY <1>1, <1>4, ScenarioFacts
  <2>2. rcvd < conf.bounds[served + 1]
    BY <2>1 DEF IInv, NoneWhole
  <2>3. Size(served + 1) <= MaxRequest
    BY <1>1, <2>1, ScenarioFacts
  <2>4. conf.bounds[served + 1] - conf.bounds[served] <= MaxRequest
    BY <2>1, <2>3 DEF Size
  <2>5. conf.bounds[served + 1] \in Nat /\ conf.bounds[served] \in Nat
    BY <1>1, <2>1, RequestFacts
  <2> QED BY <1>1, <1>2, <2>2, <2>4, <2>5, SizesAssumption
<1>5. CASE served = conf.count
  <2>1. conf.bounds[served] = Total /\ Total \in Nat
    BY <1>1, <1>5, ScenarioFacts DEF Total
  <2> QED BY <1>1, <1>2, <1>3, <2>1, SizesAssumption
<1> QED BY <1>1, <1>3, <1>4, <1>5, ScenarioFacts

LEMMA BeginIInv == IInv /\ Begin => IInv'
<1> SUFFICES ASSUME IInv, Begin PROVE IInv'
  OBVIOUS
<1>1. /\ pc = "start" /\ pc' \in {"top", "failed"}
      /\ UNCHANGED <<conf, mem, cap, len, currentLen, parsed, served, last,
                     written, rcvd, counted, sent, got, peer>>
  BY DEF Begin, bufVars, peerVars
<1>2. TypeOK'
  BY <1>1 DEF IInv, TypeOK
<1>3. BufferIsWindow' /\ InOrder' /\ MeterAgrees' /\ CapacityBounded'
  BY <1>1 DEF IInv, BufferIsWindow, InOrder, Valid, MeterAgrees, CapacityBounded
<1>4. ReadHasRoom' /\ NoneWhole'
  BY <1>1 DEF IInv, ReadHasRoom, NoneWhole
<1>5. Flow'
  BY <1>1 DEF IInv, TypeOK, Flow, Total
<1> QED BY <1>2, <1>3, <1>4, <1>5 DEF IInv

LEMMA PrepareIInv == IInv /\ (FastReset \/ Compact \/ KeepBuffer) => IInv'
<1> SUFFICES ASSUME IInv, FastReset \/ Compact \/ KeepBuffer PROVE IInv'
  OBVIOUS
<1>1. pc = "top"
  BY DEF FastReset, Compact, KeepBuffer
<1>2. /\ cap \in Nat /\ len \in Nat /\ parsed \in Nat /\ rcvd \in Nat
      /\ mem \in [1..cap -> Nat]
  BY DEF IInv, TypeOK
<1>3. len <= cap /\ len <= rcvd /\ \A i \in 1..len : mem[i] = rcvd - len + i
  BY <1>1 DEF IInv, BufferIsWindow, Valid
<1>4. parsed <= len
  BY <1>1 DEF IInv, InOrder, Valid
<1>5. conf.wellFormed = 1..conf.count => len - parsed <= MaxRequest - 1
  BY <1>1, RemainderIsShort
<1>6. CASE FastReset
  <2>1. SubmitRead(mem, 0, 0) /\ len - parsed = 0
    BY <1>2, <1>6 DEF FastReset, AllParsed
  <2>2. Prepared(mem, 0, 0)
    BY <1>2, <2>1, SizesAssumption DEF Prepared
  <2> QED BY <1>1, <2>1, <2>2, SubmitReadIInv
<1>7. CASE Compact
  <2> DEFINE l == len - parsed
  <2>1. SubmitRead(CopiedDown, l, 0)
    BY <1>7 DEF Compact
  <2>2. l \in Nat /\ l <= cap /\ l <= rcvd /\ l - 0 = len - parsed
    BY <1>2, <1>3, <1>4
  <2>3. CopiedDown \in [1..cap -> Nat]
    <3>1. ASSUME NEW i \in 1..cap, i <= len - parsed PROVE mem[parsed + i] \in Nat
      <4>1. parsed + i \in 1..cap
        BY <1>2, <1>3, <3>1
      <4> QED BY <1>2, <4>1
    <3> QED BY <1>2, <3>1 DEF CopiedDown
  <2>4. ASSUME NEW i \in 1..l PROVE CopiedDown[i] = rcvd - l + i
    <3>1. i \in 1..cap /\ i <= len - parsed /\ parsed + i \in 1..len
      BY <1>2, <1>3, <1>4
    <3>2. mem[parsed + i] = rcvd - len + (parsed + i)
      BY <1>3, <3>1
    <3>3. CopiedDown[i] = mem[parsed + i]
      BY <3>1 DEF CopiedDown
    <3> QED BY <1>2, <3>2, <3>3
  <2>5. conf.wellFormed = 1..conf.count => l <= CompactAbove + MaxRequest - 1
    BY <1>2, <1>5, SizesAssumption
  <2>6. Prepared(CopiedDown, l, 0)
    BY <2>2, <2>3, <2>4, <2>5 DEF Prepared
  <2> QED BY <1>1, <2>1, <2>6, SubmitReadIInv
<1>8. CASE KeepBuffer
  <2>1. SubmitRead(mem, len, parsed) /\ parsed <= CompactAbove
    BY <1>2, <1>8, SizesAssumption DEF KeepBuffer, ManyDead
  <2>2. conf.wellFormed = 1..conf.count => len <= CompactAbove + MaxRequest - 1
    BY <1>2, <1>5, <2>1, SizesAssumption
  <2>3. Prepared(mem, len, parsed)
    BY <1>2, <1>3, <1>4, <2>2 DEF Prepared
  <2> QED BY <1>1, <2>1, <2>3, SubmitReadIInv
<1> QED BY <1>6, <1>7, <1>8
-----------------------------------------------------------------------------
(***************************************************************************)
(* The read appends what it received to the window.                        *)
(***************************************************************************)
LEMMA ReadOkIInv == IInv /\ ReadOk => IInv'
<1> SUFFICES ASSUME IInv, ReadOk PROVE IInv'
  OBVIOUS
<1> USE DEF peerVars
<1>1. /\ pc = "read" /\ pc' = "decode"
      /\ UNCHANGED <<conf, cap, currentLen, parsed, served, last, written,
                     counted, sent, got, peer>>
  BY DEF ReadOk
<1>2. /\ cap \in Nat /\ currentLen \in Nat /\ parsed \in Nat /\ rcvd \in Nat
      /\ sent \in Nat /\ mem \in [1..cap -> Nat]
  BY DEF IInv, TypeOK
<1>3. PICK n \in 1..MinOf(Spare, sent - rcvd) :
        /\ mem' = [i \in 1..cap |->
                     IF i \in (currentLen + 1)..(currentLen + n)
                       THEN rcvd + (i - currentLen) ELSE mem[i]]
        /\ len' = currentLen + n
        /\ rcvd' = rcvd + n
  BY DEF ReadOk
<1>4. n \in Nat /\ currentLen + n <= cap /\ rcvd + n <= sent
  BY <1>2 DEF MinOf, Spare
<1>5. /\ currentLen <= cap /\ currentLen <= rcvd
      /\ \A i \in 1..currentLen : mem[i] = rcvd - currentLen + i
  BY <1>1 DEF IInv, BufferIsWindow, Valid
<1>6. mem' \in [1..cap -> Nat]
  <2>1. ASSUME NEW i \in 1..cap, i \in (currentLen + 1)..(currentLen + n)
        PROVE  rcvd + (i - currentLen) \in Nat
    BY <1>2, <1>4, <2>1
  <2> QED BY <1>2, <1>3, <2>1
<1>7. TypeOK'
  BY <1>1, <1>2, <1>3, <1>4, <1>6 DEF IInv, TypeOK
<1>8. Valid' = currentLen + n
  BY <1>1, <1>3 DEF Valid
<1>9. BufferIsWindow'
  <2>1. ASSUME NEW i \in 1..(currentLen + n)
        PROVE  mem'[i] = (rcvd + n) - (currentLen + n) + i
    <3>1. i \in 1..cap
      BY <1>2, <1>4
    <3>2. CASE i \in 1..currentLen
      <4>1. i \notin (currentLen + 1)..(currentLen + n)
        BY <1>2, <1>4, <3>2
      <4>2. mem'[i] = mem[i]
        BY <1>3, <3>1, <4>1
      <4> QED BY <1>2, <1>4, <1>5, <3>2, <4>2
    <3>3. CASE i \in (currentLen + 1)..(currentLen + n)
      <4>1. mem'[i] = rcvd + (i - currentLen)
        BY <1>3, <3>1, <3>3
      <4> QED BY <1>2, <1>4, <4>1
    <3> QED BY <1>2, <1>4, <3>2, <3>3
  <2> QED BY <1>1, <1>2, <1>3, <1>4, <1>5, <1>8, <2>1 DEF BufferIsWindow
<1>10. InOrder'
  <2>1. parsed <= currentLen /\ rcvd - (currentLen - parsed) = conf.bounds[served]
    BY <1>1 DEF IInv, InOrder, Valid
  <2>2. (rcvd + n) - ((currentLen + n) - parsed) = rcvd - (currentLen - parsed)
    BY <1>2, <1>4
  <2> QED BY <1>1, <1>2, <1>3, <1>4, <1>8, <2>1, <2>2 DEF IInv, InOrder
<1>11. MeterAgrees' /\ CapacityBounded'
  BY <1>1 DEF IInv, MeterAgrees, CapacityBounded
<1>12. ReadHasRoom' /\ NoneWhole'
  BY <1>1 DEF ReadHasRoom, NoneWhole
<1>13. Flow'
  BY <1>1, <1>3, <1>4 DEF IInv, Flow, Total
<1> QED BY <1>7, <1>9, <1>10, <1>11, <1>12, <1>13 DEF IInv

(***************************************************************************)
(* A read that returns 0 had room, so the client has shut its side.        *)
(***************************************************************************)
LEMMA EofFacts == IInv /\ ReadEof => peer = "shut" /\ rcvd = sent
BY SizesAssumption DEF IInv, TypeOK, ReadEof, ReadHasRoom, Spare

LEMMA ReadEndIInv == IInv /\ (ReadEof \/ ReadErr) => IInv'
<1> USE DEF peerVars, bufVars
<1>1. ASSUME IInv, ReadEof PROVE IInv'
  <2>1. /\ pc = "read" /\ pc' = "closed" /\ peer = "shut" /\ rcvd = sent
        /\ UNCHANGED <<conf, mem, cap, len, currentLen, parsed, served, last,
                       written, rcvd, counted, sent, got, peer>>
    BY <1>1, EofFacts DEF ReadEof
  <2>2. TypeOK'
    BY <1>1, <2>1 DEF IInv, TypeOK
  <2>3. BufferIsWindow' /\ InOrder' /\ MeterAgrees' /\ CapacityBounded'
    BY <1>1, <2>1 DEF IInv, BufferIsWindow, InOrder, MeterAgrees, CapacityBounded
  <2>4. ReadHasRoom' /\ Flow' /\ NoneWhole'
    BY <1>1, <2>1 DEF IInv, ReadHasRoom, Flow, Total, NoneWhole
  <2> QED BY <2>2, <2>3, <2>4 DEF IInv
<1>2. ASSUME IInv, ReadErr PROVE IInv'
  <2>1. /\ pc = "read" /\ pc' = "failed" /\ len' = currentLen
        /\ UNCHANGED <<conf, mem, cap, currentLen, parsed, served, last,
                       written, rcvd, counted, sent, got, peer>>
    BY <1>2 DEF ReadErr
  <2>2. TypeOK'
    BY <1>2, <2>1 DEF IInv, TypeOK
  <2>3. Valid' = Valid
    BY <2>1 DEF Valid
  <2>4. BufferIsWindow' /\ InOrder'
    BY <1>2, <2>1, <2>3 DEF IInv, BufferIsWindow, InOrder
  <2>5. MeterAgrees' /\ CapacityBounded'
    BY <1>2, <2>1 DEF IInv, MeterAgrees, CapacityBounded
  <2>6. ReadHasRoom' /\ NoneWhole'
    BY <2>1 DEF ReadHasRoom, NoneWhole
  <2>7. Flow'
    BY <1>2, <2>1 DEF IInv, TypeOK, Flow, Total
  <2> QED BY <2>2, <2>4, <2>5, <2>6, <2>7 DEF IInv
<1> QED BY <1>1, <1>2
-----------------------------------------------------------------------------
(***************************************************************************)
(* The decode loop.                                                        *)
(***************************************************************************)
LEMMA DecodeOkIInv ==
  ASSUME IInv, NEW k \in 1..conf.count, DecodeOk(k)
  PROVE  IInv'
<1> USE DEF peerVars, bufVars
<1>1. /\ pc = "decode" /\ pc' \in {"delay", "write"}
      /\ served' = served + 1 /\ last' = k /\ parsed' = parsed + Size(k)
      /\ counted' = CountRequest(Size(k))
      /\ UNCHANGED <<conf, mem, cap, len, currentLen, written, rcvd, sent, got, peer>>
      /\ Holds(k)
  BY DEF DecodeOk
<1>2. /\ TypeOK /\ conf \in Scenarios /\ parsed \in Nat /\ served \in Nat
      /\ written \in Nat /\ len \in Nat /\ rcvd \in Nat
  BY DEF IInv, TypeOK
<1>3. k = served + 1 /\ k - 1 = served
  BY <1>1, <1>2, DecodesNext DEF IInv
<1>4. /\ Size(k) = conf.bounds[k] - conf.bounds[k - 1] /\ Size(k) \in Nat
      /\ conf.bounds[k] \in Nat /\ conf.bounds[k - 1] \in Nat
  BY <1>2, RequestFacts DEF Size
<1>5. parsed + Size(k) <= len /\ k \in conf.wellFormed
  BY <1>1 DEF Holds
<1>6. /\ rcvd - (len - parsed) = conf.bounds[served] /\ last = served
  BY <1>1 DEF IInv, InOrder, Valid
<1>7. served = written
  BY <1>1 DEF IInv, Flow
<1>8. MeterAgrees' /\ counted' \in [requests : Nat, requestBytes : Nat, responses : Nat]
  <2>1. CASE conf.meter
    <3>1. counted = [requests |-> served, requestBytes |-> conf.bounds[served],
                     responses |-> written]
      BY <2>1 DEF IInv, MeterAgrees
    <3>2. counted' = [requests |-> served + 1,
                      requestBytes |-> conf.bounds[served] + Size(k),
                      responses |-> written]
      BY <1>1, <2>1, <3>1 DEF CountRequest
    <3>3. conf.bounds[served] + Size(k) = conf.bounds[k]
      BY <1>3, <1>4
    <3>4. counted' = [requests |-> served', requestBytes |-> conf.bounds[served'],
                      responses |-> written']
      BY <1>1, <1>3, <3>2, <3>3
    <3>5. (served + 1) - written \in {0, 1}
      BY <1>2, <1>7
    <3> QED BY <1>1, <1>2, <1>3, <1>4, <2>1, <3>2, <3>3, <3>4, <3>5 DEF MeterAgrees
  <2>2. CASE ~conf.meter
    BY <1>1, <1>2, <2>2 DEF IInv, TypeOK, MeterAgrees, CountRequest
  <2> QED BY <2>1, <2>2
<1>9. TypeOK'
  <2>1. served' \in Nat /\ last' \in Nat /\ parsed' \in Nat
    BY <1>1, <1>2, <1>3, <1>4
  <2>2. counted' \in [requests : Nat, requestBytes : Nat, responses : Nat]
    BY <1>8
  <2> QED BY <1>1, <1>2, <2>1, <2>2 DEF TypeOK
<1>10. Valid = len /\ Valid' = len
  BY <1>1 DEF Valid
<1>11. BufferIsWindow'
  BY <1>1, <1>10 DEF IInv, BufferIsWindow
<1>12. InOrder'
  <2>1. rcvd - (len - (parsed + Size(k))) = conf.bounds[k]
    BY <1>2, <1>3, <1>4, <1>6
  <2> QED BY <1>1, <1>3, <1>5, <1>10, <2>1 DEF InOrder
<1>13. CapacityBounded' /\ ReadHasRoom' /\ NoneWhole'
  BY <1>1 DEF IInv, CapacityBounded, ReadHasRoom, NoneWhole
<1>14. Flow'
  <2>1. served + 1 <= conf.count
    BY <1>3
  <2>2. 1..(served + 1) \subseteq conf.wellFormed
    BY <1>2, <1>3, <1>5 DEF IInv, Flow
  <2> QED BY <1>1, <1>2, <1>7, <2>1, <2>2 DEF IInv, Flow, Total
<1> QED BY <1>8, <1>9, <1>11, <1>12, <1>13, <1>14 DEF IInv

LEMMA DecodeErrIInv == IInv /\ DecodeErr => IInv'
<1> SUFFICES ASSUME IInv, DecodeErr PROVE IInv'
  OBVIOUS
<1> USE DEF peerVars, bufVars
<1>1. /\ pc = "decode" /\ pc' = "top" /\ \A k \in 1..conf.count : ~Holds(k)
      /\ UNCHANGED <<conf, mem, cap, len, currentLen, parsed, served, last,
                     written, rcvd, counted, sent, got, peer>>
  BY DEF DecodeErr
<1>2. TypeOK'
  BY <1>1 DEF IInv, TypeOK
<1>3. BufferIsWindow' /\ InOrder' /\ MeterAgrees' /\ CapacityBounded'
  BY <1>1 DEF IInv, BufferIsWindow, InOrder, Valid, MeterAgrees, CapacityBounded
<1>4. ReadHasRoom' /\ Flow'
  BY <1>1 DEF IInv, ReadHasRoom, Flow, Total
<1>5. NoneWhole'
  BY <1>1, RefusesIncomplete DEF IInv, NoneWhole
<1> QED BY <1>2, <1>3, <1>4, <1>5 DEF IInv

LEMMA AnswerIInv == IInv /\ (DelayOver \/ WriteOk \/ WriteErr) => IInv'
<1> USE DEF peerVars, bufVars
<1>1. ASSUME IInv, DelayOver \/ WriteErr PROVE IInv'
  <2>1. /\ pc \in {"delay", "write"} /\ pc' \in {"write", "failed"}
        /\ UNCHANGED <<conf, mem, cap, len, currentLen, parsed, served, last,
                       written, rcvd, counted, sent, got, peer>>
    BY <1>1 DEF DelayOver, WriteErr
  <2>2. TypeOK'
    BY <1>1, <2>1 DEF IInv, TypeOK
  <2>3. BufferIsWindow' /\ InOrder' /\ MeterAgrees' /\ CapacityBounded'
    BY <1>1, <2>1 DEF IInv, BufferIsWindow, InOrder, Valid, MeterAgrees, CapacityBounded
  <2>4. ReadHasRoom' /\ NoneWhole'
    BY <2>1 DEF ReadHasRoom, NoneWhole
  <2>5. Flow'
    BY <1>1, <2>1 DEF IInv, TypeOK, Flow, Total
  <2> QED BY <2>2, <2>3, <2>4, <2>5 DEF IInv
<1>2. ASSUME IInv, WriteOk PROVE IInv'
  <2>1. /\ pc = "write" /\ pc' = "decode" /\ written' = written + 1
        /\ counted' = CountResponse /\ written - got < SocketOut
        /\ UNCHANGED <<conf, mem, cap, len, currentLen, parsed, served, last,
                       rcvd, sent, got, peer>>
    BY <1>2 DEF WriteOk
  <2>2. served = written + 1 /\ written \in Nat /\ TypeOK
    BY <1>2, <2>1 DEF IInv, TypeOK, Flow
  <2> got \in Nat
    BY <2>2 DEF TypeOK
  <2>3. MeterAgrees' /\ counted' \in [requests : Nat, requestBytes : Nat, responses : Nat]
    <3>1. CASE conf.meter
      <4>1. counted' = [requests |-> served, requestBytes |-> conf.bounds[served],
                        responses |-> written + 1]
        BY <1>2, <2>1, <3>1 DEF IInv, MeterAgrees, CountResponse
      <4>2. counted.requestBytes \in Nat /\ counted.requestBytes = conf.bounds[served]
        BY <1>2, <3>1 DEF IInv, TypeOK, MeterAgrees
      <4>3. served - (written + 1) \in {0, 1} /\ served \in Nat
        BY <2>2
      <4> QED BY <2>1, <2>2, <3>1, <4>1, <4>2, <4>3 DEF MeterAgrees
    <3>2. CASE ~conf.meter
      BY <1>2, <2>1, <3>2 DEF IInv, TypeOK, MeterAgrees, CountResponse
    <3> QED BY <3>1, <3>2
  <2>4. TypeOK'
    BY <2>1, <2>2, <2>3 DEF TypeOK
  <2>5. BufferIsWindow' /\ InOrder' /\ CapacityBounded'
    BY <1>2, <2>1 DEF IInv, BufferIsWindow, InOrder, Valid, CapacityBounded
  <2>6. ReadHasRoom' /\ NoneWhole'
    BY <2>1 DEF ReadHasRoom, NoneWhole
  <2>7. Flow'
    BY <1>2, <2>1, <2>2, SizesAssumption DEF IInv, Flow, Total
  <2> QED BY <2>3, <2>4, <2>5, <2>6, <2>7 DEF IInv
<1> QED BY <1>1, <1>2
-----------------------------------------------------------------------------
(***************************************************************************)
(* The client and the stuttering steps leave the handler alone.            *)
(***************************************************************************)
LEMMA ClientIInv == IInv /\ (Client \/ UNCHANGED vars) => IInv'
<1> SUFFICES ASSUME IInv, Client \/ UNCHANGED vars PROVE IInv'
  OBVIOUS
<1> USE DEF peerVars, bufVars
<1>1. UNCHANGED <<conf, pc, mem, cap, len, currentLen, parsed, served, last,
                  written, rcvd, counted>>
  BY DEF Client, ClientSend, ClientRead, ClientShutdown, ClientReset, vars
<1>2. sent \in Nat /\ got \in Nat /\ Total \in Nat /\ written \in Nat
  <2>1. conf \in Scenarios
    BY DEF IInv, TypeOK
  <2>2. conf.count \in 0..conf.count
    BY <2>1, ScenarioFacts
  <2> QED BY <2>1, <2>2, ScenarioFacts DEF IInv, TypeOK, Total
<1>3. /\ sent' \in Nat /\ sent <= sent' /\ sent' <= Total
      /\ got' \in Nat
      /\ peer' \in {"open", "shut", "reset"}
      /\ peer # "open" => peer' # "open" /\ sent' = sent
      /\ got' <= written /\ written - got' <= SocketOut
  <2>1. /\ sent <= Total /\ peer \in {"open", "shut", "reset"}
        /\ got <= written /\ written - got <= SocketOut
    BY DEF IInv, TypeOK, Flow
  <2>2. rcvd \in Nat
    BY DEF IInv, TypeOK
  <2>3. CASE ClientSend
    <3>1. PICK n \in 1..MinOf(SocketIn - (sent - rcvd), Total - sent) : sent' = sent + n
      BY <2>3 DEF ClientSend
    <3>2. n \in Nat /\ n <= Total - sent
      BY <1>2, <2>2, SizesAssumption DEF MinOf
    <3> QED BY <1>2, <2>1, <2>3, <3>1, <3>2 DEF ClientSend
  <2>4. CASE ClientRead
    BY <1>2, <2>1, <2>4, SizesAssumption DEF ClientRead
  <2>5. CASE ClientShutdown \/ ClientReset \/ UNCHANGED vars
    BY <1>2, <2>1, <2>5 DEF ClientShutdown, ClientReset, vars
  <2> QED BY <2>3, <2>4, <2>5 DEF Client
<1>4. TypeOK'
  BY <1>1, <1>3 DEF IInv, TypeOK
<1>5. BufferIsWindow' /\ InOrder' /\ MeterAgrees' /\ CapacityBounded'
  BY <1>1 DEF IInv, BufferIsWindow, InOrder, Valid, MeterAgrees, CapacityBounded
<1>6. ReadHasRoom' /\ NoneWhole'
  BY <1>1 DEF IInv, ReadHasRoom, Spare, NoneWhole
<1>7. Flow'
  <2>1. rcvd <= sent'
    BY <1>2, <1>3 DEF IInv, Flow, TypeOK
  <2>2. Total' = Total
    BY <1>1 DEF Total
  <2> QED BY <1>1, <1>3, <2>1, <2>2 DEF IInv, Flow
<1> QED BY <1>4, <1>5, <1>6, <1>7 DEF IInv

LEMMA NextIInv == IInv /\ [Next]_vars => IInv'
BY BeginIInv, PrepareIInv, ReadOkIInv, ReadEndIInv, DecodeOkIInv, DecodeErrIInv, AnswerIInv,
   ClientIInv DEF Next, Handler

(***************************************************************************)
(* The inductive invariant holds in every state of every connection.       *)
(***************************************************************************)
THEOREM Inductive == Safe => []IInv
BY InitIInv, NextIInv, PTL DEF Safe

(***************************************************************************)
(* Type correctness.                                                       *)
(***************************************************************************)
THEOREM TypeCorrect == Safe => []TypeOK
<1>1. IInv => TypeOK
  BY DEF IInv
<1> QED BY <1>1, Inductive, PTL

(***************************************************************************)
(* The buffer is always a window on the client's stream.                   *)
(***************************************************************************)
THEOREM WindowAlways == Safe => []BufferIsWindow
<1>1. IInv => BufferIsWindow
  BY DEF IInv
<1> QED BY <1>1, Inductive, PTL

(***************************************************************************)
(* Requests are decoded in order, each exactly once.                       *)
(***************************************************************************)
THEOREM OrderAlways == Safe => []InOrder
<1>1. IInv => InOrder
  BY DEF IInv
<1> QED BY <1>1, Inductive, PTL

(***************************************************************************)
(* The metered values are those of the requests served and answered.       *)
(***************************************************************************)
THEOREM MeterAlways == Safe => []MeterAgrees
<1>1. IInv => MeterAgrees
  BY DEF IInv
<1> QED BY <1>1, Inductive, PTL

(***************************************************************************)
(* Well-formed requests never need more than the bound.                    *)
(***************************************************************************)
THEOREM BoundedAlways == Safe => []CapacityBounded
<1>1. IInv => CapacityBounded
  BY DEF IInv
<1> QED BY <1>1, Inductive, PTL

(***************************************************************************)
(* The handler closes a connection only at the client's end of stream.     *)
(***************************************************************************)
THEOREM EofGenuine == Safe => EofIsGenuine
<1>1. IInv => (ReadEof => peer = "shut" /\ rcvd = sent)
  BY EofFacts
<1>2. IInv /\ [Next]_vars => [ReadEof => peer = "shut" /\ rcvd = sent]_vars
  BY <1>1
<1> QED BY <1>2, Inductive, PTL DEF EofIsGenuine, Safe
-----------------------------------------------------------------------------
(***************************************************************************)
(* Outside the decode loop, once everything sent has been received,        *)
(* everything that arrived is answered.                                    *)
(***************************************************************************)
LEMMA NothingOwed ==
  ASSUME IInv, pc \in {"start", "top", "read", "closed"}, rcvd = sent
  PROVE  Arrived \subseteq 1..written
<1>1. conf \in Scenarios /\ served \in Nat /\ sent \in Nat
  BY DEF IInv, TypeOK
<1>2. served = written
  BY DEF IInv, Flow
<1> SUFFICES ASSUME NEW k \in Arrived PROVE k \in 1..written
  OBVIOUS
<1>3. k \in 1..conf.count /\ conf.bounds[k] <= sent /\ 1..k \subseteq conf.wellFormed
  BY DEF Arrived
<1> SUFFICES ASSUME served < k PROVE FALSE
  BY <1>1, <1>2, <1>3
<1>4. served + 1 \in 1..k /\ served + 1 \in 1..conf.count
  BY <1>1, <1>3, ScenarioFacts
<1>5. sent < conf.bounds[served + 1]
  BY <1>3, <1>4 DEF IInv, NoneWhole
<1>6. conf.bounds[served + 1] \in Nat /\ conf.bounds[k] \in Nat
  BY <1>1, <1>3, <1>4, RequestFacts
<1>7. served + 1 = k \/ conf.bounds[served + 1] < conf.bounds[k]
  <2>1. served + 1 \in 0..conf.count /\ k \in 0..conf.count
    BY <1>1, <1>3, <1>4, ScenarioFacts
  <2>2. served + 1 = k \/ served + 1 < k
    BY <1>1, <1>3, <1>4
  <2> QED BY <1>1, <2>1, <2>2, ScenarioFacts
<1> QED BY <1>1, <1>3, <1>5, <1>6, <1>7

-----------------------------------------------------------------------------
(***************************************************************************)
(* Refinement.  What happens inside the buffer does not show.              *)
(***************************************************************************)
LEMMA InitRefines == Init => Server!Init
<1> SUFFICES ASSUME Init PROVE Server!Init
  OBVIOUS
<1>1. Arrived = {}
  <2> SUFFICES ASSUME NEW k \in 1..conf.count, conf.bounds[k] <= sent PROVE FALSE
    BY DEF Arrived
  <2>1. conf \in Scenarios /\ sent = 0
    BY DEF Init
  <2> QED BY <2>1, RequestFacts
<1> QED BY <1>1 DEF Init, Server!Init, Ending

(***************************************************************************)
(* The request the handler takes has arrived and is the next in order.     *)
(***************************************************************************)
LEMMA DecodeOkTakes ==
  ASSUME IInv, NEW k \in 1..conf.count, DecodeOk(k)
  PROVE  Server!Take
<1>1. /\ pc = "decode" /\ pc' \in {"delay", "write"} /\ Holds(k)
      /\ served' = served + 1
      /\ UNCHANGED <<conf, written, sent>>
  BY DEF DecodeOk, peerVars
<1>2. k = served + 1 /\ conf.bounds[k] <= rcvd
  BY <1>1, DecodesNext DEF IInv
<1>3. /\ conf \in Scenarios /\ rcvd \in Nat /\ sent \in Nat /\ served \in Nat
  BY DEF IInv, TypeOK
<1>4. rcvd <= sent /\ 1..served \subseteq conf.wellFormed /\ served = written
  BY <1>1 DEF IInv, Flow
<1>5. k \in Arrived
  <2>1. conf.bounds[k] \in Nat
    BY <1>3, RequestFacts
  <2>2. conf.bounds[k] <= sent
    BY <1>2, <1>3, <1>4, <2>1
  <2>3. k \in conf.wellFormed
    BY <1>1 DEF Holds
  <2>4. 1..k \subseteq conf.wellFormed
    BY <1>2, <1>3, <1>4, <2>3
  <2> QED BY <2>2, <2>4 DEF Arrived
<1>6. UNCHANGED <<Arrived, Ending>> /\ Ending = "open"
  BY <1>1 DEF Arrived, Ending
<1> QED BY <1>1, <1>2, <1>4, <1>5, <1>6 DEF Server!Take

(***************************************************************************)
(* At the end of the stream everything that arrived is answered.           *)
(***************************************************************************)
LEMMA ReadEofFinishes ==
  ASSUME IInv, ReadEof
  PROVE  Server!Finish
<1>1. /\ pc = "read" /\ pc' = "closed" /\ rcvd = sent
      /\ UNCHANGED <<conf, served, written, sent>>
  BY EofFacts DEF ReadEof, peerVars
<1>2. served = written
  BY <1>1 DEF IInv, Flow
<1>3. Arrived \subseteq 1..written
  BY <1>1, NothingOwed
<1>4. UNCHANGED Arrived /\ Ending = "open" /\ Ending' = "clean"
  BY <1>1 DEF Arrived, Ending
<1> QED BY <1>1, <1>2, <1>3, <1>4 DEF Server!Finish

(***************************************************************************)
(* Nothing arrives at a connection that was closed cleanly.                *)
(***************************************************************************)
LEMMA ClientSendArrives ==
  ASSUME IInv, ClientSend
  PROVE  Server!Arrive
<1>1. PICK n \in 1..MinOf(SocketIn - (sent - rcvd), Total - sent) : sent' = sent + n
  BY DEF ClientSend
<1>2. /\ peer = "open"
      /\ UNCHANGED <<conf, pc, served, written>>
  BY DEF ClientSend
<1>3. conf \in Scenarios /\ sent \in Nat
  BY DEF IInv, TypeOK
<1>4. sent <= sent' /\ sent' \in Int
  BY <1>1, <1>3
<1>5. ASSUME NEW k \in Arrived PROVE k \in Arrived'
  <2>1. k \in 1..conf.count /\ conf.bounds[k] <= sent /\ conf.bounds[k] \in Nat
    BY <1>3, RequestFacts DEF Arrived
  <2>2. conf.bounds[k] <= sent'
    BY <1>3, <1>4, <2>1
  <2> QED BY <1>2, <2>1, <2>2 DEF Arrived
<1>6. pc # "closed"
  BY <1>2 DEF IInv, Flow
<1>7. Ending # "clean" /\ Ending' = Ending
  BY <1>2, <1>6 DEF Ending
<1> QED BY <1>2, <1>5, <1>7 DEF Server!Arrive

LEMMA StepRefines == IInv /\ [Next]_vars => [Server!Next]_(Server!vars)
<1> SUFFICES ASSUME IInv, [Next]_vars PROVE Server!Next \/ UNCHANGED Server!vars
  OBVIOUS
<1> USE DEF peerVars, bufVars
<1>0. CASE Begin
  <2>1. UNCHANGED <<conf, sent, served, written>>
    BY <1>0 DEF Begin
  <2>2. pc = "start" /\ pc' \in {"top", "failed"}
    BY <1>0 DEF Begin
  <2>3. Ending = "open" /\ Ending' \in {"open", "aborted"} /\ Arrived' = Arrived
    BY <2>1, <2>2 DEF Ending, Arrived
  <2> QED BY <2>1, <2>3 DEF Server!Next, Server!Abort, Server!vars
<1>1. CASE FastReset \/ Compact \/ KeepBuffer \/ ReadOk \/ DecodeErr \/ DelayOver
  <2>1. UNCHANGED <<conf, sent, served, written>>
    BY <1>1 DEF FastReset, Compact, KeepBuffer, SubmitRead, ReadOk, DecodeErr, DelayOver
  <2>2. pc \notin {"closed", "failed"} /\ pc' \notin {"closed", "failed"}
    BY <1>1 DEF FastReset, Compact, KeepBuffer, SubmitRead, ReadOk, DecodeErr, DelayOver
  <2>3. Ending' = Ending /\ Arrived' = Arrived
    BY <2>1, <2>2 DEF Ending, Arrived
  <2> QED BY <2>1, <2>3 DEF Server!vars
<1>2. CASE ReadEof
  BY <1>2, ReadEofFinishes DEF Server!Next
<1>3. CASE ReadErr \/ WriteErr
  <2>1. UNCHANGED <<conf, sent, served, written>>
    BY <1>3 DEF ReadErr, WriteErr
  <2>2. pc \in {"read", "write"} /\ pc' = "failed"
    BY <1>3 DEF ReadErr, WriteErr
  <2>3. Ending = "open" /\ Ending' = "aborted" /\ Arrived' = Arrived
    BY <2>1, <2>2 DEF Ending, Arrived
  <2> QED BY <2>1, <2>3 DEF Server!Next, Server!Abort
<1>4. CASE \E k \in 1..conf.count : DecodeOk(k)
  BY <1>4, DecodeOkTakes DEF Server!Next
<1>5. CASE WriteOk
  <2>1. /\ pc = "write" /\ pc' = "decode" /\ written' = written + 1
        /\ UNCHANGED <<conf, sent, served>>
    BY <1>5 DEF WriteOk
  <2>2. written < served
    BY <2>1 DEF IInv, TypeOK, Flow
  <2>3. Ending = "open" /\ Ending' = "open" /\ Arrived' = Arrived
    BY <2>1 DEF Ending, Arrived
  <2> QED BY <2>1, <2>2, <2>3 DEF Server!Next, Server!Answer
<1>6. CASE ClientSend
  BY <1>6, ClientSendArrives DEF Server!Next
<1>7. CASE ClientRead \/ ClientShutdown \/ ClientReset \/ UNCHANGED vars
  <2>1. UNCHANGED <<conf, pc, sent, served, written>>
    BY <1>7 DEF ClientRead, ClientShutdown, ClientReset, vars
  <2> QED BY <2>1 DEF Server!vars, Ending, Arrived
<1> QED BY <1>0, <1>1, <1>2, <1>3, <1>4, <1>5, <1>6, <1>7 DEF Next, Handler, Client

(***************************************************************************)
(* The safety of the abstract server holds of the handler.                 *)
(***************************************************************************)
THEOREM Refinement == Safe => RefinesServer
<1>1. Init => Server!Init
  BY InitRefines
<1>2. IInv /\ [Next]_vars => [Server!Next]_(Server!vars)
  BY StepRefines
<1> QED BY <1>1, <1>2, Inductive, PTL DEF Safe, RefinesServer, Server!Spec
-----------------------------------------------------------------------------
(***************************************************************************)
(* Progress: what liveness rests on, but for fairness.                     *)
(***************************************************************************)

(***************************************************************************)
(* Whatever the handler does, it was ready to do.                          *)
(***************************************************************************)
LEMMA HandlerWasReady == IInv /\ Handler => Ready
<1> SUFFICES ASSUME IInv, Handler PROVE Ready
  OBVIOUS
<1>1. CASE Begin \/ FastReset \/ Compact \/ KeepBuffer \/ DecodeErr \/ DelayOver
  BY <1>1 DEF Ready, Begin, FastReset, Compact, KeepBuffer, DecodeErr, DelayOver
<1>2. CASE \E k \in 1..conf.count : DecodeOk(k)
  BY <1>2 DEF Ready, DecodeOk
<1>3. CASE ReadOk
  <2>1. rcvd \in Nat /\ sent \in Nat /\ Spare \in Int
    BY DEF IInv, TypeOK, Spare
  <2>2. pc = "read" /\ \E n \in 1..MinOf(Spare, sent - rcvd) : TRUE
    BY <1>3 DEF ReadOk
  <2>3. 1 <= MinOf(Spare, sent - rcvd)
    BY <2>1, <2>2 DEF MinOf
  <2>4. rcvd < sent
    BY <2>1, <2>3 DEF MinOf
  <2> QED BY <2>2, <2>4 DEF Ready
<1>4. CASE ReadEof \/ ReadErr
  BY <1>4 DEF Ready, ReadEof, ReadErr
<1>5. CASE WriteOk \/ WriteErr
  BY <1>5 DEF Ready, WriteOk, WriteErr
<1> QED BY <1>1, <1>2, <1>3, <1>4, <1>5 DEF Handler

(***************************************************************************)
(* When it is ready there is something it can do: a state to go to, from   *)
(* each control point.                                                     *)
(***************************************************************************)
After(p, l) ==
  <<conf, p, mem, cap, l, currentLen, parsed, served, last, written, sent, rcvd, got, peer,
    counted>>

Submitted(m, l, p) ==
  <<conf, "read", [i \in 1..Reserved(l) |-> IF i <= cap THEN m[i] ELSE Uninit], Reserved(l),
    IF conf.runtime = "glommio" THEN Reserved(l) ELSE l, l, p, served, last, written, sent,
    rcvd, got, peer, counted>>

OneByteRead ==
  <<conf, "decode",
    [i \in 1..cap |-> IF i \in (currentLen + 1)..(currentLen + 1)
                        THEN rcvd + (i - currentLen) ELSE mem[i]],
    cap, currentLen + 1, currentLen, parsed, served, last, written, sent, rcvd + 1, got, peer,
    counted>>

Decoded(k) ==
  <<conf, IF conf.delay THEN "delay" ELSE "write", mem, cap, len, currentLen,
    parsed + Size(k), served + 1, k, written, sent, rcvd, got, peer, CountRequest(Size(k))>>

Answered ==
  <<conf, "decode", mem, cap, len, currentLen, parsed, served, last, written + 1, sent, rcvd,
    got, peer, CountResponse>>

Outcome ==
  CASE pc = "start"  -> After(IF conf.builds THEN "top" ELSE "failed", len)
    [] pc = "top"    -> IF AllParsed THEN Submitted(mem, 0, 0)
                        ELSE IF ManyDead THEN Submitted(CopiedDown, len - parsed, 0)
                        ELSE Submitted(mem, len, parsed)
    [] pc = "read"   -> IF peer = "reset" THEN After("failed", currentLen)
                        ELSE IF rcvd < sent THEN OneByteRead ELSE After("closed", len)
    [] pc = "decode" -> IF \E k \in 1..conf.count : Holds(k)
                          THEN Decoded(CHOOSE k \in 1..conf.count : Holds(k))
                          ELSE After("top", len)
    [] pc = "delay"  -> After("write", len)
    [] OTHER         -> IF peer = "reset" THEN After("failed", len) ELSE Answered

(***************************************************************************)
(* A handler that is Ready can take the step to Outcome.  With             *)
(* HandlerWasReady: Handler is enabled in the states that are Ready.       *)
(***************************************************************************)
THEOREM ReadySteps == IInv /\ Ready /\ vars' = Outcome => Handler
<1> SUFFICES ASSUME IInv, Ready, vars' = Outcome PROVE Handler
  OBVIOUS
<1> USE DEF vars, bufVars, peerVars
<1>1. CASE pc = "start"
  <2>1. vars' = After(IF conf.builds THEN "top" ELSE "failed", len)
    BY <1>1 DEF Outcome
  <2>2. Begin
    BY <1>1, <2>1 DEF After, Begin
  <2> QED BY <2>2 DEF Handler
<1>2. CASE pc = "top"
  <2>1. ASSUME NEW m, NEW l, NEW p, vars' = Submitted(m, l, p) PROVE SubmitRead(m, l, p)
    BY <2>1 DEF Submitted, SubmitRead
  <2>2. CASE AllParsed
    <3>1. FastReset
      BY <1>2, <2>1, <2>2 DEF Outcome, FastReset
    <3> QED BY <3>1 DEF Handler
  <2>3. CASE ~AllParsed /\ ManyDead
    <3>1. Compact
      BY <1>2, <2>1, <2>3 DEF Outcome, Compact
    <3> QED BY <3>1 DEF Handler
  <2>4. CASE ~AllParsed /\ ~ManyDead
    <3>1. KeepBuffer
      BY <1>2, <2>1, <2>4 DEF Outcome, KeepBuffer
    <3> QED BY <3>1 DEF Handler
  <2> QED BY <2>2, <2>3, <2>4
<1>3. CASE pc = "read"
  <2>1. /\ rcvd \in Nat /\ sent \in Nat /\ currentLen \in Nat /\ rcvd <= sent
        /\ Spare \in Nat \ {0} /\ peer \in {"open", "shut", "reset"}
    BY <1>3, SizesAssumption DEF IInv, TypeOK, Flow, ReadHasRoom, Spare
  <2>2. CASE peer = "reset"
    <3>1. vars' = After("failed", currentLen)
      BY <1>3, <2>2 DEF Outcome
    <3>2. ReadErr
      BY <1>3, <2>2, <3>1 DEF After, ReadErr
    <3> QED BY <3>2 DEF Handler
  <2>3. CASE peer # "reset" /\ rcvd < sent
    <3>1. vars' = OneByteRead
      BY <1>3, <2>3 DEF Outcome
    <3>2. 1 \in 1..MinOf(Spare, sent - rcvd)
      BY <2>1, <2>3 DEF MinOf
    <3>3. ReadOk
      BY <1>3, <3>1, <3>2 DEF OneByteRead, ReadOk
    <3> QED BY <3>3 DEF Handler
  <2>4. CASE peer # "reset" /\ ~(rcvd < sent)
    <3>1. vars' = After("closed", len)
      BY <1>3, <2>4 DEF Outcome
    <3>2. peer = "shut" /\ rcvd = sent
      BY <1>3, <2>1, <2>4 DEF Ready
    <3>3. ReadEof
      BY <1>3, <3>1, <3>2 DEF After, ReadEof
    <3> QED BY <3>3 DEF Handler
  <2> QED BY <2>2, <2>3, <2>4
<1>4. CASE pc = "decode"
  <2>1. CASE \E k \in 1..conf.count : Holds(k)
    <3> DEFINE k == CHOOSE i \in 1..conf.count : Holds(i)
    <3>1. k \in 1..conf.count /\ Holds(k)
      BY <2>1
    <3>2. vars' = Decoded(k)
      BY <1>4, <2>1 DEF Outcome
    <3> HIDE DEF k
    <3>3. DecodeOk(k)
      BY <1>4, <3>1, <3>2 DEF Decoded, DecodeOk
    <3> QED BY <3>1, <3>3 DEF Handler
  <2>2. CASE ~\E k \in 1..conf.count : Holds(k)
    <3>1. vars' = After("top", len)
      BY <1>4, <2>2 DEF Outcome
    <3>2. DecodeErr
      BY <1>4, <2>2, <3>1 DEF After, DecodeErr
    <3> QED BY <3>2 DEF Handler
  <2> QED BY <2>1, <2>2
<1>5. CASE pc = "delay"
  <2>1. vars' = After("write", len)
    BY <1>5 DEF Outcome
  <2>2. DelayOver
    BY <1>5, <2>1 DEF After, DelayOver
  <2> QED BY <2>2 DEF Handler
<1>6. CASE pc = "write"
  <2>1. CASE peer = "reset"
    <3>1. vars' = After("failed", len)
      BY <1>6, <2>1 DEF Outcome
    <3>2. WriteErr
      BY <1>6, <2>1, <3>1 DEF After, WriteErr
    <3> QED BY <3>2 DEF Handler
  <2>2. CASE peer # "reset"
    <3>1. vars' = Answered
      BY <1>6, <2>2 DEF Outcome
    <3>2. WriteOk
      BY <1>6, <2>2, <3>1 DEF Ready, Answered, WriteOk
    <3> QED BY <3>2 DEF Handler
  <2> QED BY <2>1, <2>2
<1> QED BY <1>1, <1>2, <1>3, <1>4, <1>5, <1>6 DEF Ready

(***************************************************************************)
(* A handler that cannot go on with an answer due waits for its client to  *)
(* read: it is not at a read, where nothing would be due, and a write      *)
(* waits only for a full socket.                                           *)
(***************************************************************************)
THEOREM StuckAlways == Safe => []StuckOnlyByClient
<1>1. ASSUME IInv, ~Ready, pc # "failed", ~(Arrived \subseteq 1..written)
      PROVE  written - got = SocketOut
  <2>1. /\ pc \in {"start", "top", "read", "decode", "delay", "write", "closed", "failed"}
        /\ written \in Nat /\ got \in Nat /\ rcvd \in Nat /\ sent \in Nat
        /\ rcvd <= sent /\ written - got <= SocketOut /\ SocketOut \in Nat
        /\ pc = "closed" => rcvd = sent
    BY <1>1, SizesAssumption DEF IInv, TypeOK, Flow
  <2>2. pc \in {"read", "write", "closed"}
    BY <1>1, <2>1 DEF Ready
  <2>3. pc \in {"read", "closed"} => rcvd = sent
    BY <1>1, <2>1 DEF Ready
  <2>4. pc = "write"
    BY <1>1, <2>2, <2>3, NothingOwed
  <2> QED BY <1>1, <2>1, <2>4 DEF Ready
<1>2. IInv => StuckOnlyByClient
  BY <1>1 DEF StuckOnlyByClient
<1> QED BY <1>2, Inductive, PTL

(***************************************************************************)
(* What is left to do at a control point, and that it is a number.         *)
(***************************************************************************)
Phase == [start |-> 3, top |-> 2, read |-> 1, decode |-> 3, delay |-> 5, write |-> 4]

LeftIs ==
  /\ sent \in Nat /\ rcvd \in Nat /\ rcvd <= sent /\ conf.bounds[served] \in Nat
  /\ IF pc \in {"closed", "failed"} THEN Left = 0
     ELSE /\ Left = 3 * (sent - rcvd) + 3 * (sent - conf.bounds[served]) + Phase[pc]
          /\ conf.bounds[served] <= rcvd /\ Phase[pc] \in 1..5

LEMMA LeftFacts == IInv => LeftIs
<1> SUFFICES ASSUME IInv PROVE LeftIs
  OBVIOUS
<1>1. conf \in Scenarios /\ sent \in Nat /\ rcvd \in Nat /\ served \in Nat /\ rcvd <= sent
  BY DEF IInv, TypeOK, Flow
<1>2. conf.bounds[served] \in Nat
  BY <1>1, ScenarioFacts DEF IInv, Flow
<1>3. ASSUME pc \notin {"closed", "failed"} PROVE conf.bounds[served] <= rcvd
  <2>1. rcvd - (Valid - parsed) = conf.bounds[served] /\ parsed <= Valid
    BY <1>3 DEF IInv, InOrder
  <2>2. Valid \in Nat /\ parsed \in Nat
    BY DEF IInv, TypeOK, Valid
  <2> QED BY <1>1, <2>1, <2>2
<1>4. pc \notin {"closed", "failed"} => Phase[pc] \in 1..5
  BY DEF IInv, TypeOK, Phase
<1>5. pc \notin {"closed", "failed"} =>
        Left = 3 * (sent - rcvd) + 3 * (sent - conf.bounds[served]) + Phase[pc]
  BY DEF Left, Phase
<1> QED BY <1>1, <1>2, <1>3, <1>4, <1>5 DEF LeftIs, Left

(***************************************************************************)
(* The three ways forward: a later control point, bytes read, a request    *)
(* served; s, r and b are the bytes sent, read and served.                 *)
(***************************************************************************)
LEMMA LessLeft ==
  ASSUME NEW s \in Nat, NEW r \in Nat, NEW b \in Nat, NEW c \in Nat,
         NEW r2 \in Nat, NEW b2 \in Nat, NEW c2 \in Nat,
         r2 <= s, b2 <= s,
         \/ c2 < c /\ b2 = b /\ r2 = r
         \/ r + 1 <= r2 /\ c = 1 /\ c2 = 3 /\ b2 = b
         \/ b + 1 <= b2 /\ c = 3 /\ c2 <= 5 /\ r2 = r
  PROVE  /\ 3 * (s - r2) + 3 * (s - b2) + c2 \in Nat
         /\ 3 * (s - r2) + 3 * (s - b2) + c2 < 3 * (s - r) + 3 * (s - b) + c
OBVIOUS

(***************************************************************************)
(* Every step of the handler brings it closer to waiting for its client.   *)
(***************************************************************************)
LEMMA HandlerAdvances == IInv /\ LeftIs /\ LeftIs' /\ Handler => Left' \in Nat /\ Left' < Left
<1> SUFFICES ASSUME IInv, LeftIs, LeftIs', Handler PROVE Left' \in Nat /\ Left' < Left
  OBVIOUS
<1> DEFINE b == conf.bounds[served]
           c == Phase[pc]
<1>1. /\ sent \in Nat /\ rcvd \in Nat /\ rcvd <= sent /\ b \in Nat
      /\ sent' \in Nat /\ rcvd' \in Nat /\ rcvd' <= sent' /\ b' \in Nat
  BY DEF LeftIs
<1>2. pc \notin {"closed", "failed"}
  BY DEF Handler, Begin, FastReset, Compact, KeepBuffer, ReadOk, ReadEof, ReadErr, DecodeOk,
         DecodeErr, DelayOver, WriteOk, WriteErr
<1>3. Left = 3 * (sent - rcvd) + 3 * (sent - b) + c /\ b <= rcvd /\ c \in 1..5
  BY <1>2 DEF LeftIs
<1>4. sent' = sent
  BY DEF Handler, Begin, FastReset, Compact, KeepBuffer, SubmitRead, ReadOk, ReadEof, ReadErr,
         DecodeOk, DecodeErr, DelayOver, WriteOk, WriteErr, peerVars
<1>5. \/ pc' \in {"closed", "failed"}
      \/ c' < c /\ UNCHANGED <<conf, served, rcvd>>
      \/ rcvd < rcvd' /\ c = 1 /\ c' = 3 /\ UNCHANGED <<conf, served>>
      \/ b < b' /\ c = 3 /\ c' <= 5 /\ UNCHANGED rcvd
  <2>1. CASE Begin \/ FastReset \/ Compact \/ KeepBuffer \/ ReadEof \/ ReadErr \/ DecodeErr
               \/ DelayOver \/ WriteOk \/ WriteErr
    BY <2>1 DEF Begin, FastReset, Compact, KeepBuffer, SubmitRead, ReadEof, ReadErr,
                DecodeErr, DelayOver, WriteOk, WriteErr, Phase
  <2>2. CASE ReadOk
    <3>1. PICK n \in 1..MinOf(Spare, sent - rcvd) : rcvd' = rcvd + n
      BY <2>2 DEF ReadOk
    <3>2. Spare \in Int
      BY DEF IInv, TypeOK, Spare
    <3>3. rcvd < rcvd'
      BY <1>1, <3>1, <3>2 DEF MinOf
    <3> QED BY <2>2, <3>3 DEF ReadOk, Phase
  <2>3. CASE \E k \in 1..conf.count : DecodeOk(k)
    <3>1. PICK k \in 1..conf.count : DecodeOk(k)
      BY <2>3
    <3>2. /\ served' = served + 1 /\ last' = k /\ UNCHANGED <<conf, rcvd>>
          /\ pc = "decode" /\ pc' \in {"delay", "write"}
      BY <3>1 DEF DecodeOk
    <3>3. served \in Nat /\ conf \in Scenarios
      BY DEF IInv, TypeOK
    <3>4. served' = k /\ served = k - 1
      BY <3>1, <3>2, <3>3, DecodesNext DEF IInv, DecodeOk
    <3>5. b < b'
      BY <3>2, <3>3, <3>4, RequestFacts
    <3> QED BY <3>2, <3>5 DEF Phase
  <2> QED BY <2>1, <2>2, <2>3 DEF Handler
<1>6. CASE pc' \in {"closed", "failed"}
  <2>1. Left' = 0
    BY <1>6 DEF LeftIs
  <2> QED BY <1>1, <1>3, <1>4, <2>1
<1>7. CASE pc' \notin {"closed", "failed"}
  <2>1. Left' = 3 * (sent' - rcvd') + 3 * (sent' - b') + c' /\ b' <= rcvd' /\ c' \in 1..5
    BY <1>7 DEF LeftIs
  <2>2. UNCHANGED <<conf, served>> => b' = b
    OBVIOUS
  <2>3. \/ c' < c /\ b' = b /\ rcvd' = rcvd
        \/ rcvd + 1 <= rcvd' /\ c = 1 /\ c' = 3 /\ b' = b
        \/ b + 1 <= b' /\ c = 3 /\ c' <= 5 /\ rcvd' = rcvd
    BY <1>1, <1>5, <1>7, <2>2
  <2> QED BY <1>1, <1>3, <1>4, <2>1, <2>3, LessLeft
<1> QED BY <1>6, <1>7

(***************************************************************************)
(* Between two sends of its client a handler takes finitely many steps: no *)
(* more than Left, which is at most six for each byte sent and not yet     *)
(* served, and five.                                                       *)
(***************************************************************************)
THEOREM ProgressAlways == Safe => NeverSpins
<1>1. IInv /\ LeftIs /\ LeftIs' /\ [Next]_vars => [Handler => Left' \in Nat /\ Left' < Left]_vars
  BY HandlerAdvances
<1> QED BY <1>1, LeftFacts, Inductive, PTL DEF NeverSpins, Safe
=============================================================================
