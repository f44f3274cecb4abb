--------------------------- MODULE Startup_proofs --------------------------
(***************************************************************************)
(* Proofs about PortBalance and Startup, for any number of ports, threads  *)
(* and connections.                                                        *)
(*                                                                         *)
(* balance_ports: no slice is out of bounds, every element of the list is  *)
(* in one chunk, no chunk is longer than another by more than one or holds *)
(* a port twice, and fewer threads than ports are left without any.  The   *)
(* invariant knows where a chunk starts without adding up the ones before: *)
(* after i chunks, i * Base elements and one more for each of the first    *)
(* Remainder chunks are given out.                                         *)
(*                                                                         *)
(* Startup: main's life, the sockets the kernel queues connections on, and *)
(* what a connection is served.  What PortBalance promises of the chunks   *)
(* holds here because Startup takes its steps and no other on its          *)
(* variables.  Last, why connections settle, up to fairness: none is       *)
(* forgotten, and every step brings a thread or a connection forward.      *)
(***************************************************************************)
EXTENDS Startup, FiniteSetTheorems, TLAPS

Longer(n) == IF n < Remainder THEN n ELSE Remainder

Chunking == pc = "chunk" \/ (pc = "done" /\ ~conf.bindAll)

OffsetInv ==
  /\ Chunking => conf.threads > 0 /\ offset = i * Base + Longer(i)
  /\ pc = "done" => i = conf.threads
  /\ pc \in {"clone", "done"} /\ conf.bindAll => len = conf.ports
  /\ pc \in {"expand", "chunk"} => ~conf.bindAll
  /\ pc = "clone" => conf.bindAll

(***************************************************************************)
(* The chunks made so far stand behind one another, and reach the offset.  *)
(***************************************************************************)
ChunksInv ==
  Chunking =>
    /\ \A e \in 0..(offset - 1) : \E t \in 0..(i - 1) : e \in Elements(t)
    /\ \A t \in 0..(i - 1) : chunks[t].from + chunks[t].size <= offset
    /\ \A t, u \in 0..(i - 1) :
         t < u => chunks[t].from + chunks[t].size <= chunks[u].from

EmptyInv == pc = "expand" => i = 0 /\ offset = 0

(***************************************************************************)
(* How long the list is, and the chunks made so far.                       *)
(***************************************************************************)
SizesInv ==
  /\ Chunking => /\ len = Repeated
                 /\ \A t \in 0..(i - 1) :
                      chunks[t].size = Base + (IF t < Remainder THEN 1 ELSE 0)
  /\ conf.bindAll => \A t \in 0..(i - 1) : chunks[t].size = conf.ports

BalanceInv ==
  BalanceTypeOK /\ NeverPanics /\ OffsetInv /\ ChunksInv /\ EmptyInv /\ SizesInv

(***************************************************************************)
(* len / threads and len % threads share len out among the threads.        *)
(***************************************************************************)
LEMMA DivMod ==
  ASSUME NEW n \in Nat, NEW k \in Nat \ {0}
  PROVE  /\ n \div k \in Nat /\ n % k \in Nat
         /\ n % k < k
         /\ n = k * (n \div k) + (n % k)
OBVIOUS

(***************************************************************************)
(* A product with one factor grows with the other.                         *)
(***************************************************************************)
LEMMA ProductGrows ==
  ASSUME NEW a \in Nat, NEW b \in Nat, NEW c \in Nat, a <= b
  PROVE  a * c <= b * c
OBVIOUS

LEMMA ProductNext ==
  ASSUME NEW a \in Nat, NEW c \in Nat
  PROVE  (a + 1) * c = a * c + c
OBVIOUS

LEMMA Quotient ==
  ASSUME NEW n \in Nat, NEW k \in Nat \ {0}
  PROVE  /\ n \div k \in Nat /\ n % k \in Nat /\ n % k < k
         /\ (n \div k) * k \in Nat
         /\ n = (n \div k) * k + (n % k)
OBVIOUS

THEOREM Initially == BalanceInit => BalanceInv
<1> SUFFICES ASSUME BalanceInit PROVE BalanceInv
  OBVIOUS
<1>1. conf.ports \in Nat /\ conf.threads \in Nat /\ conf.bindAll \in BOOLEAN
  BY BalanceAssumption DEF BalanceInit
<1>2. BalanceTypeOK
  BY <1>1 DEF BalanceInit, BalanceTypeOK
<1>3. pc \in {"clone", "expand"} /\ (pc = "clone" <=> conf.bindAll)
  BY DEF BalanceInit
<1>4. OffsetInv /\ ChunksInv /\ EmptyInv /\ SizesInv /\ NeverPanics
  BY <1>3 DEF BalanceInit, OffsetInv, ChunksInv, EmptyInv, SizesInv, NeverPanics, Chunking
<1> QED
  BY <1>2, <1>4 DEF BalanceInv

(***************************************************************************)
(* The one slice that matters: chunk i ends where chunk i + 1 starts, and  *)
(* the last one at the end of the list.                                    *)
(***************************************************************************)
LEMMA NextOffset ==
  ASSUME BalanceTypeOK, conf.threads \in Nat \ {0}, i < conf.threads,
         offset = i * Base + Longer(i)
  PROVE  /\ Base \in Nat /\ ChunkSize \in Nat
         /\ offset + ChunkSize = (i + 1) * Base + Longer(i + 1)
         /\ offset + ChunkSize <= len
<1>1. i \in Nat /\ len \in Nat /\ i + 1 <= conf.threads
  BY DEF BalanceTypeOK
<1>2. /\ Base \in Nat /\ Remainder \in Nat
      /\ len = conf.threads * Base + Remainder
  BY <1>1, DivMod DEF Base, Remainder
<1>3. (i + 1) * Base = i * Base + Base
  BY <1>1, <1>2, ProductNext
<1>4. (i + 1) * Base <= conf.threads * Base
  BY <1>1, <1>2, ProductGrows
<1>5. i * Base \in Nat /\ conf.threads * Base \in Nat
  BY <1>1, <1>2
<1>6. offset + ChunkSize = (i + 1) * Base + Longer(i + 1)
  <2> DEFINE p == i * Base
  <2>1. offset = p + Longer(i) /\ (i + 1) * Base = p + Base /\ p \in Nat
    BY <1>3, <1>5
  <2> HIDE DEF p
  <2> QED
    BY <2>1, <1>1, <1>2 DEF ChunkSize, Longer
<1>7. Longer(i + 1) <= Remainder /\ Longer(i + 1) \in Nat
  BY <1>1, <1>2 DEF Longer
<1> QED
  <2> DEFINE p == (i + 1) * Base
             q == conf.threads * Base
  <2>1. /\ offset + ChunkSize = p + Longer(i + 1) /\ p <= q /\ len = q + Remainder
        /\ p \in Nat /\ q \in Nat
    BY <1>1, <1>2, <1>4, <1>5, <1>6
  <2> HIDE DEF p, q
  <2>2. offset + ChunkSize <= len
    BY <2>1, <1>2, <1>7
  <2>3. ChunkSize \in Nat
    BY <1>1, <1>2 DEF ChunkSize
  <2> QED
    BY <1>2, <1>6, <2>2, <2>3

(***************************************************************************)
(* The chunk just pushed, and those before it.                             *)
(***************************************************************************)
LEMMA Pushed ==
  ASSUME BalanceTypeOK, NEW from \in Nat, NEW size \in Nat,
         i < conf.threads, conf.threads \in Nat, Push(from, size), i' = i + 1
  PROVE  /\ chunks' \in [0..(i' - 1) -> [from : Nat, size : Nat]]
         /\ chunks'[i] = [from |-> from, size |-> size]
         /\ \A t \in 0..(i - 1) : chunks'[t] = chunks[t]
<1>1. i \in Nat /\ i' - 1 = i
  BY DEF BalanceTypeOK
<1>2. \A t \in 0..i : t # i => t \in 0..(i - 1)
  BY <1>1
<1>3. chunks \in [0..(i - 1) -> [from : Nat, size : Nat]]
  BY DEF BalanceTypeOK
<1> QED
  BY <1>1, <1>2, <1>3 DEF Push

LEMMA CloneAllKeeps == BalanceInv /\ CloneAll => BalanceInv'
<1> SUFFICES ASSUME BalanceInv, CloneAll PROVE BalanceInv'
  OBVIOUS
<1> USE DEF BalanceInv
<1>1. conf.threads \in Nat /\ i \in Nat /\ len \in Nat
  BY BalanceAssumption DEF BalanceTypeOK
<1>2. BalanceTypeOK'
  <2>1. chunks' \in [0..(i' - 1) -> [from : Nat, size : Nat]]
    BY <1>1, Pushed DEF CloneAll
  <2> QED
    BY <1>1, <2>1 DEF BalanceTypeOK, CloneAll
<1>3. (OffsetInv /\ ChunksInv /\ EmptyInv /\ NeverPanics)'
  BY DEF CloneAll, OffsetInv, ChunksInv, EmptyInv, NeverPanics, Chunking
<1>4. SizesInv'
  <2>1. /\ chunks'[i] = [from |-> 0, size |-> len]
        /\ \A t \in 0..(i - 1) : chunks'[t] = chunks[t]
    BY <1>1, Pushed DEF CloneAll
  <2>2. conf.bindAll /\ len = conf.ports /\ i' = i + 1 /\ conf' = conf /\ pc' = "clone"
    BY DEF CloneAll, OffsetInv
  <2>3. ASSUME NEW t \in 0..i PROVE chunks'[t].size = conf.ports
    <3>1. CASE t = i
      BY <2>1, <2>2, <3>1
    <3>2. CASE t # i
      <4>1. t \in 0..(i - 1)
        BY <1>1, <3>2
      <4> QED BY <2>1, <2>2, <4>1 DEF SizesInv
    <3> QED BY <3>1, <3>2
  <2> QED BY <1>1, <2>2, <2>3 DEF SizesInv, Chunking
<1> QED
  BY <1>2, <1>3, <1>4

LEMMA ExpandKeeps == BalanceInv /\ Expand => BalanceInv'
<1> SUFFICES ASSUME BalanceInv, Expand PROVE BalanceInv'
  OBVIOUS
<1> USE DEF BalanceInv
<1>1. conf.threads \in Nat /\ conf.ports \in Nat \ {0} /\ len \in Nat
  BY BalanceAssumption DEF BalanceTypeOK
<1>2. Repeated \in Nat
  <2>1. conf.threads \div conf.ports \in Nat
    BY <1>1, DivMod
  <2> QED
    BY <1>1, <2>1 DEF Repeated
<1>3. BalanceTypeOK'
  BY <1>1, <1>2 DEF BalanceTypeOK, Expand
<1>4. i' = 0 /\ offset' = 0 /\ conf' = conf /\ ~conf.bindAll
  BY DEF Expand, EmptyInv, OffsetInv
<1>5. ASSUME conf.threads > 0
      PROVE  offset' = i' * Base' + Longer(i)'
  <2>1. Base' \in Nat /\ Remainder' \in Nat
    BY <1>1, <1>2, <1>4, <1>5, DivMod DEF Base, Remainder, Expand
  <2>2. Longer(i)' = 0
    BY <1>4, <2>1 DEF Longer
  <2>3. \A n \in Nat : 0 * n = 0
    OBVIOUS
  <2> QED
    BY <1>4, <2>1, <2>2, <2>3
<1>6. OffsetInv'
  BY <1>1, <1>4, <1>5 DEF Expand, OffsetInv, Chunking
<1>7. (ChunksInv /\ EmptyInv /\ SizesInv /\ NeverPanics)'
  BY <1>1, <1>4 DEF Expand, ChunksInv, EmptyInv, SizesInv, NeverPanics, Chunking, Repeated
<1> QED
  BY <1>3, <1>6, <1>7

LEMMA PushChunkKeeps == BalanceInv /\ PushChunk => BalanceInv'
<1> SUFFICES ASSUME BalanceInv, PushChunk PROVE BalanceInv'
  OBVIOUS
<1> USE DEF BalanceInv
<1>1. /\ conf.threads \in Nat \ {0} /\ i \in Nat /\ len \in Nat /\ offset \in Nat
      /\ pc = "chunk" /\ i < conf.threads /\ ~conf.bindAll
      /\ offset = i * Base + Longer(i)
  BY BalanceAssumption DEF BalanceTypeOK, PushChunk, OffsetInv, Chunking
<1>2. /\ ChunkSize \in Nat /\ offset + ChunkSize <= len
      /\ offset + ChunkSize = (i + 1) * Base + Longer(i + 1)
  BY <1>1, NextOffset
<1>3. /\ Push(offset, ChunkSize) /\ offset' = offset + ChunkSize /\ i' = i + 1
      /\ pc' = "chunk" /\ conf' = conf /\ len' = len
  BY <1>1, <1>2 DEF PushChunk
<1>4. /\ chunks' \in [0..(i' - 1) -> [from : Nat, size : Nat]]
      /\ chunks'[i] = [from |-> offset, size |-> ChunkSize]
      /\ \A t \in 0..(i - 1) : chunks'[t] = chunks[t]
  BY <1>1, <1>2, <1>3, Pushed
<1>5. BalanceTypeOK'
  <2>1. i' \in 0..conf.threads /\ len' \in Nat /\ pc' = "chunk" /\ conf' = conf
    BY <1>1, <1>3
  <2>2. offset' \in Nat
    <3>1. offset \in Nat /\ ChunkSize \in Nat /\ offset' = offset + ChunkSize
      BY <1>1, <1>2, <1>3
    <3> QED
      BY <3>1
  <2>3. chunks' \in [0..(i' - 1) -> [from : Nat, size : Nat]]
    BY <1>4
  <2>4. conf \in Scenarios
    BY DEF BalanceTypeOK
  <2> QED
    BY <2>1, <2>2, <2>3, <2>4 DEF BalanceTypeOK
<1>6. OffsetInv'
  <2>1. Base' = Base /\ Longer(i)' = Longer(i + 1)
    BY <1>3 DEF Base, Longer, Remainder
  <2> QED
    BY <1>1, <1>2, <1>3, <2>1 DEF OffsetInv, Chunking
<1>7. ChunksInv'
  <2>1. chunks \in [0..(i - 1) -> [from : Nat, size : Nat]]
    BY DEF BalanceTypeOK
  <2>2. /\ \A e \in 0..(offset - 1) : \E t \in 0..(i - 1) : e \in Elements(t)
        /\ \A t \in 0..(i - 1) : chunks[t].from + chunks[t].size <= offset
        /\ \A t, u \in 0..(i - 1) :
             t < u => chunks[t].from + chunks[t].size <= chunks[u].from
    BY <1>1 DEF ChunksInv, Chunking
  <2>5. 0..(i' - 1) = 0..(i - 1) \cup {i}
    BY <1>1, <1>3
  <2>6. ASSUME NEW e \in 0..(offset' - 1)
        PROVE  \E t \in 0..(i' - 1) : e \in chunks'[t].from..(chunks'[t].from + chunks'[t].size - 1)
    <3>1. CASE e < offset
      <4>1. PICK t \in 0..(i - 1) : e \in Elements(t)
        BY <1>1, <2>2, <3>1
      <4> QED
        BY <1>4, <2>5, <4>1 DEF Elements
    <3>2. CASE e >= offset
      <4>1. e \in offset..(offset + ChunkSize - 1)
        BY <1>1, <1>2, <1>3, <3>2
      <4> QED
        BY <1>4, <2>5, <4>1
    <3> QED
      BY <1>1, <3>1, <3>2
  <2>7. ASSUME NEW t \in 0..(i' - 1)
        PROVE  chunks'[t].from + chunks'[t].size <= offset'
    <3>1. CASE t = i
      BY <1>1, <1>2, <1>3, <1>4, <3>1
    <3>2. CASE t \in 0..(i - 1)
      <4>1. /\ chunks'[t].from \in Nat /\ chunks'[t].size \in Nat
            /\ chunks'[t].from + chunks'[t].size <= offset
        BY <1>4, <2>1, <2>2, <3>2
      <4> QED
        BY <1>1, <1>2, <1>3, <4>1
    <3> QED
      BY <2>5, <3>1, <3>2
  <2>8. ASSUME NEW t \in 0..(i' - 1), NEW u \in 0..(i' - 1), t < u
        PROVE  chunks'[t].from + chunks'[t].size <= chunks'[u].from
    <3>1. t \in 0..(i - 1)
      BY <1>1, <1>3, <2>8
    <3>2. CASE u = i
      BY <1>4, <2>2, <3>1, <3>2
    <3>3. CASE u # i
      BY <1>4, <2>2, <2>5, <2>8, <3>1, <3>3
    <3> QED
      BY <3>2, <3>3
  <2> QED
    BY <2>6, <2>7, <2>8 DEF ChunksInv, Elements
<1>8. (EmptyInv /\ NeverPanics)'
  BY <1>3 DEF EmptyInv, NeverPanics
<1>9. SizesInv'
  <2>1. Repeated' = Repeated /\ Base' = Base /\ Remainder' = Remainder /\ len = Repeated
    BY <1>1, <1>3 DEF Repeated, Base, Remainder, SizesInv, Chunking
  <2>2. ASSUME NEW t \in 0..i
        PROVE  chunks'[t].size = Base + (IF t < Remainder THEN 1 ELSE 0)
    <3>1. CASE t = i
      BY <1>4, <3>1 DEF ChunkSize
    <3>2. CASE t # i
      <4>1. t \in 0..(i - 1)
        BY <1>1, <3>2
      <4> QED BY <1>1, <1>4, <4>1 DEF SizesInv, Chunking
    <3> QED BY <3>1, <3>2
  <2>3. i' - 1 = i
    BY <1>1, <1>3
  <2> QED BY <1>1, <1>3, <2>1, <2>2, <2>3 DEF SizesInv
<1> QED
  BY <1>5, <1>6, <1>7, <1>8, <1>9

LEMMA SharedKeeps == BalanceInv /\ Shared => BalanceInv'
<1> SUFFICES ASSUME BalanceInv, Shared PROVE BalanceInv'
  OBVIOUS
<1> USE DEF BalanceInv
<1>1. BalanceTypeOK'
  BY DEF BalanceTypeOK, Shared
<1>2. Base' = Base /\ Longer(i)' = Longer(i) /\ i' = i /\ offset' = offset
  BY DEF Shared, Base, Longer, Remainder
<1>3. OffsetInv'
  BY <1>2 DEF Shared, OffsetInv, Chunking
<1>4. ChunksInv'
  <2>1. Chunking' => Chunking
    BY DEF Shared, Chunking, OffsetInv
  <2>2. chunks' = chunks /\ i' = i /\ offset' = offset
    BY DEF Shared
  <2> QED
    BY <2>1, <2>2 DEF ChunksInv, Elements
<1>5. (EmptyInv /\ NeverPanics)'
  BY DEF Shared, EmptyInv, NeverPanics
<1>6. SizesInv'
  BY <1>2 DEF Shared, SizesInv, Chunking, Repeated, Base, Remainder, OffsetInv
<1> QED
  BY <1>1, <1>3, <1>4, <1>5, <1>6

(***************************************************************************)
(* The invariant of balance_ports.                                         *)
(***************************************************************************)
THEOREM Inductive == BalanceSpec => []BalanceInv
<1>1. BalanceInit => BalanceInv
  BY Initially
<1>2. BalanceInv /\ [Balance]_balanceVars => BalanceInv'
  <2> SUFFICES ASSUME BalanceInv, [Balance]_balanceVars PROVE BalanceInv'
    OBVIOUS
  <2>1. CASE Balance
    BY <2>1, CloneAllKeeps, ExpandKeeps, PushChunkKeeps, SharedKeeps DEF Balance
  <2>2. CASE UNCHANGED balanceVars
    BY <2>2 DEF balanceVars, BalanceInv, BalanceTypeOK, NeverPanics, OffsetInv,
                ChunksInv, EmptyInv, SizesInv, Repeated, Chunking, Longer, Base,
                Remainder, Elements
  <2> QED
    BY <2>1, <2>2
<1> QED
  BY <1>1, <1>2, PTL DEF BalanceSpec

(***************************************************************************)
(* No slice of the list of ports is out of bounds.                         *)
(***************************************************************************)
THEOREM Bounds == BalanceSpec => []NeverPanics
<1>1. BalanceInv => NeverPanics
  BY DEF BalanceInv
<1> QED
  BY <1>1, Inductive, PTL

(***************************************************************************)
(* Every element of the list is given to one thread, and one only.         *)
(***************************************************************************)
THEOREM Partition == BalanceSpec => []EveryElementOnce
<1>1. BalanceInv => EveryElementOnce
  <2> SUFFICES ASSUME BalanceInv, pc = "done", ~conf.bindAll
               PROVE  \A e \in 0..(len - 1) :
                        /\ \E t \in Threads : e \in Elements(t)
                        /\ \A t, u \in Threads :
                             e \in Elements(t) /\ e \in Elements(u) => t = u
    BY DEF EveryElementOnce
  <2>1. /\ conf.threads \in Nat \ {0} /\ i = conf.threads /\ len \in Nat
        /\ offset = conf.threads * Base + Longer(i)
    BY BalanceAssumption DEF BalanceInv, BalanceTypeOK, OffsetInv, Chunking
  <2>2. offset = len
    <3>1. /\ Base \in Nat /\ Remainder \in Nat /\ Remainder < conf.threads
          /\ len = conf.threads * Base + Remainder
      BY <2>1, DivMod DEF Base, Remainder
    <3>2. Longer(i) = Remainder
      BY <2>1, <3>1 DEF Longer
    <3> QED
      BY <2>1, <3>1, <3>2
  <2>3. /\ \A e \in 0..(len - 1) : \E t \in Threads : e \in Elements(t)
        /\ \A t, u \in Threads :
             t < u => chunks[t].from + chunks[t].size <= chunks[u].from
    BY <2>1, <2>2 DEF BalanceInv, ChunksInv, Chunking, Threads
  <2>4. \A t \in Threads : t \in Nat /\ chunks[t].from \in Nat /\ chunks[t].size \in Nat
    BY <2>1 DEF BalanceInv, BalanceTypeOK, Threads
  <2>5. ASSUME NEW t \in Threads, NEW u \in Threads, t < u,
               NEW e \in Elements(t), e \in Elements(u)
        PROVE  FALSE
    BY <2>3, <2>4, <2>5 DEF Elements
  <2> QED
    BY <2>3, <2>4, <2>5
<1> QED
  BY <1>1, Inductive, PTL

(***************************************************************************)
(* A multiple of k below another is below it by k at least; so two numbers *)
(* with the same remainder that are less than k apart are one.             *)
(***************************************************************************)
LEMMA SameRemainder ==
  ASSUME NEW k \in Nat \ {0}, NEW e \in Nat, NEW f \in Nat,
         e % k = f % k, f <= e, e < f + k
  PROVE  e = f
<1> DEFINE a == e \div k
           b == f \div k
<1>1. a \in Nat /\ a * k \in Nat /\ e = a * k + (e % k) /\ e % k \in Nat
  BY Quotient
<1>2. b \in Nat /\ b * k \in Nat /\ f = b * k + (f % k)
  BY Quotient
<1> HIDE DEF a, b
<1>3. ~(b + 1 <= a)
  <2> SUFFICES ASSUME b + 1 <= a PROVE FALSE
    OBVIOUS
  <2>1. b * k + k <= a * k
    <3>1. b + 1 \in Nat
      BY <1>2
    <3>2. (b + 1) * k <= a * k
      BY <1>1, <3>1, ProductGrows
    <3>3. (b + 1) * k = b * k + k
      BY <1>2, ProductNext
    <3> QED BY <3>2, <3>3
  <2> DEFINE x == a * k
             y == b * k
             w == e % k
  <2>2. e = x + w /\ x \in Nat /\ w \in Nat
    BY <1>1
  <2>3. f = y + w /\ y \in Nat
    BY <1>2
  <2>4. y + k <= x
    BY <2>1
  <2> HIDE DEF x, y, w
  <2> QED BY <2>2, <2>3, <2>4
<1>4. a <= b
  BY <1>1, <1>2, <1>3
<1>5. a * k <= b * k
  BY <1>1, <1>2, <1>4, ProductGrows
<1> DEFINE x == a * k
           y == b * k
           w == e % k
<1>6. e = x + w /\ x \in Nat /\ w \in Nat
  BY <1>1
<1>7. f = y + w /\ y \in Nat
  BY <1>2
<1>8. x <= y
  BY <1>5
<1> HIDE DEF x, y, w
<1> QED BY <1>6, <1>7, <1>8

(***************************************************************************)
(* The list is repeated as often as there are threads for it: it is not    *)
(* longer than the threads, unless they are fewer than twice the ports and *)
(* it is left as it is.                                                    *)
(***************************************************************************)
LEMMA ListLength ==
  ASSUME conf.threads \in Nat, conf.ports \in Nat \ {0}
  PROVE  /\ Repeated \in Nat /\ conf.ports <= Repeated
         /\ \/ Repeated = conf.ports /\ conf.threads < 2 * conf.ports
            \/ Repeated <= conf.threads /\ conf.threads < Repeated + conf.ports
<1> DEFINE m == conf.threads \div conf.ports
           w == conf.threads % conf.ports
           x == m * conf.ports
<1>1. /\ m \in Nat /\ w \in Nat /\ w < conf.ports
      /\ conf.threads = conf.ports * m + w
  BY DivMod
<1>2. Repeated = IF m > 1 THEN m * conf.ports ELSE conf.ports
  BY DEF Repeated
<1> HIDE DEF m, w
<1>3. x \in Nat /\ conf.threads = x + w
  BY <1>1
<1>4. CASE m > 1
  <2>1. 1 * conf.ports <= x
    BY <1>1, <1>4, ProductGrows
  <2>2. Repeated = x
    BY <1>2, <1>4
  <2> HIDE DEF x
  <2> QED BY <1>1, <1>3, <2>1, <2>2
<1>5. CASE ~(m > 1)
  <2>1. x <= 1 * conf.ports
    BY <1>1, <1>5, ProductGrows
  <2>2. Repeated = conf.ports
    BY <1>2, <1>5
  <2> HIDE DEF x
  <2> QED BY <1>1, <1>3, <2>1, <2>2
<1> QED BY <1>4, <1>5

LEMMA ShortList ==
  ASSUME conf.threads \in Nat \ {0}, len \in Nat
  PROVE  /\ len < conf.threads => Base = 0 /\ Remainder = len
         /\ len = conf.threads => Base = 1 /\ Remainder = 0
         /\ len > conf.threads => Base >= 1
<1>1. /\ Base \in Nat /\ Remainder \in Nat /\ Remainder < conf.threads
      /\ len = Base * conf.threads + Remainder
  BY Quotient DEF Base, Remainder
<1>2. Base >= 1 => 1 * conf.threads <= Base * conf.threads
  BY <1>1, ProductGrows
<1>3. Base >= 2 => 2 * conf.threads <= Base * conf.threads
  BY <1>1, ProductGrows
<1>4. Base = 0 => Base * conf.threads = 0
  BY <1>1
<1>5. Base = 1 => Base * conf.threads = conf.threads
  BY <1>1
<1> DEFINE x == Base * conf.threads
<1>6. x \in Nat
  BY <1>1
<1> HIDE DEF x
<1>7. len = x + Remainder /\ (Base >= 1 => conf.threads <= x)
      /\ (Base >= 2 => 2 * conf.threads <= x) /\ (Base = 0 => x = 0)
      /\ (Base = 1 => x = conf.threads)
  BY <1>1, <1>2, <1>3, <1>4, <1>5 DEF x
<1> QED BY <1>1, <1>6, <1>7

(***************************************************************************)
(* What every thread has in the end.                                       *)
(***************************************************************************)
LEMMA AtTheEnd ==
  ASSUME BalanceInv, pc = "done"
  PROVE  /\ conf.threads \in Nat /\ conf.ports \in Nat \ {0} /\ conf.bindAll \in BOOLEAN
         /\ Threads = 0..(i - 1) /\ i = conf.threads
         /\ \A t \in Threads : chunks[t].from \in Nat /\ chunks[t].size \in Nat
         /\ IF conf.bindAll
              THEN \A t \in Threads : chunks[t].size = conf.ports
              ELSE /\ conf.threads > 0 /\ len = Repeated
                   /\ Base \in Nat /\ Remainder \in Nat
                   /\ \A t \in Threads :
                        /\ chunks[t].size = Base + (IF t < Remainder THEN 1 ELSE 0)
                        /\ chunks[t].size <= len
<1>1. /\ conf.threads \in Nat /\ conf.ports \in Nat \ {0} /\ conf.bindAll \in BOOLEAN
      /\ i = conf.threads /\ Threads = 0..(i - 1)
  BY BalanceAssumption DEF BalanceInv, BalanceTypeOK, OffsetInv, Threads
<1>2. \A t \in Threads : chunks[t].from \in Nat /\ chunks[t].size \in Nat
  BY <1>1 DEF BalanceInv, BalanceTypeOK
<1>3. CASE conf.bindAll
  BY <1>1, <1>2, <1>3 DEF BalanceInv, SizesInv
<1>4. CASE ~conf.bindAll
  <2>1. /\ conf.threads \in Nat \ {0} /\ len \in Nat /\ len = Repeated
        /\ offset = conf.threads * Base + Longer(i)
        /\ \A t \in Threads : chunks[t].size = Base + (IF t < Remainder THEN 1 ELSE 0)
        /\ \A t \in Threads : chunks[t].from + chunks[t].size <= offset
    BY <1>1, <1>4 DEF BalanceInv, BalanceTypeOK, OffsetInv, SizesInv, ChunksInv, Chunking
  <2>0. conf.threads \in Nat \ {0} /\ len \in Nat
    BY <2>1
  <2>2. /\ Base \in Nat /\ Remainder \in Nat /\ Remainder < conf.threads
        /\ len = conf.threads * Base + Remainder
    BY <2>0, DivMod DEF Base, Remainder
  <2>3. offset = len
    BY <1>1, <2>1, <2>2 DEF Longer
  <2>4. ASSUME NEW t \in Threads PROVE chunks[t].size <= len
    BY <1>2, <2>1, <2>3
  <2> QED BY <1>1, <1>2, <1>4, <2>1, <2>2, <2>4
<1> QED BY <1>1, <1>3, <1>4

(***************************************************************************)
(* Fair: no chunk is longer than another by more than one, and none holds  *)
(* a port twice.                                                           *)
(***************************************************************************)
LEMMA FairAtTheEnd == BalanceInv => Fair
<1>1. BalanceInv => Fair
  <2> SUFFICES ASSUME BalanceInv, pc = "done"
               PROVE  /\ \A t, u \in Threads : chunks[t].size <= chunks[u].size + 1
                      /\ \A t \in Threads : \A e, f \in Elements(t) :
                           e % conf.ports = f % conf.ports => e = f
    BY DEF Fair
  <2>1. \A t \in Threads :
          t \in Nat /\ chunks[t].from \in Nat /\ chunks[t].size \in Nat
    BY AtTheEnd
  <2>2. ASSUME NEW t \in Threads, NEW u \in Threads
        PROVE  chunks[t].size <= chunks[u].size + 1
    <3>1. CASE conf.bindAll
      BY <2>1, <3>1, AtTheEnd
    <3>2. CASE ~conf.bindAll
      BY <3>2, AtTheEnd
    <3> QED BY <3>1, <3>2
  <2>3. ASSUME NEW t \in Threads PROVE chunks[t].size <= conf.ports
    <3>1. CASE conf.bindAll
      BY <2>1, <3>1, AtTheEnd
    <3>2. CASE ~conf.bindAll
      <4>1. /\ conf.threads \in Nat \ {0} /\ conf.ports \in Nat \ {0} /\ len \in Nat
            /\ len = Repeated /\ chunks[t].size <= len
            /\ Base \in Nat /\ Remainder \in Nat
            /\ chunks[t].size = Base + (IF t < Remainder THEN 1 ELSE 0)
        BY <3>2, AtTheEnd, ListLength
      <4>2. CASE len = conf.ports
        BY <4>1, <4>2
      <4>3. CASE len <= conf.threads
        <5>1. \/ Base = 0 /\ chunks[t].size <= 1
              \/ Base = 1 /\ Remainder = 0
          BY <4>1, <4>3, ShortList
        <5> QED BY <2>1, <4>1, <5>1
      <4> QED BY <4>1, <4>2, <4>3, ListLength
    <3> QED BY <3>1, <3>2, AtTheEnd
  <2>4. ASSUME NEW t \in Threads, NEW e \in Elements(t), NEW f \in Elements(t),
               e % conf.ports = f % conf.ports
        PROVE  e = f
    <3>1. /\ e \in Nat /\ f \in Nat /\ conf.ports \in Nat \ {0}
          /\ e < f + conf.ports /\ f < e + conf.ports
      BY SMTT(30), <2>1, <2>3, AtTheEnd DEF Elements
    <3>2. CASE f <= e
      BY <2>4, <3>1, <3>2, SameRemainder
    <3>3. CASE e <= f
      BY <2>4, <3>1, <3>3, SameRemainder
    <3> QED BY <3>1, <3>2, <3>3
  <2> QED BY <2>2, <2>4
<1> QED BY <1>1

THEOREM Fairly == BalanceSpec => []Fair
BY FairAtTheEnd, Inductive, PTL

(***************************************************************************)
(* FewIdle: threads are without a port only if there are more of them than *)
(* ports, and they are fewer than the ports.                               *)
(***************************************************************************)
THEOREM FewAreIdle == BalanceSpec => []FewIdle
<1>1. BalanceInv => FewIdle
  <2> SUFFICES ASSUME BalanceInv, pc = "done"
               PROVE  /\ Idle # {} => conf.ports < conf.threads
                      /\ Cardinality(Idle) < conf.ports
    BY DEF FewIdle
  <2>1. /\ conf.threads \in Nat /\ conf.ports \in Nat \ {0}
        /\ \A t \in Threads : t \in 0..(conf.threads - 1) /\ chunks[t].size \in Nat
    BY AtTheEnd
  <2>2. CASE Idle = {}
    BY <2>1, <2>2, FS_EmptySet
  <2>3. CASE Idle # {}
    <3>1. PICK t \in Threads : chunks[t].size = 0
      BY <2>3 DEF Idle
    <3>2. ~conf.bindAll
      BY <2>1, <3>1, AtTheEnd
    <3>3. /\ conf.threads \in Nat \ {0} /\ len = Repeated /\ len \in Nat
          /\ Base \in Nat /\ Remainder \in Nat
          /\ \A u \in Threads : chunks[u].size = Base + (IF u < Remainder THEN 1 ELSE 0)
      BY <3>2, AtTheEnd, ListLength
    <3>4. Base = 0
      BY <2>1, <3>1, <3>3
    <3>5. len < conf.threads /\ Remainder = len
      BY <3>3, <3>4, ShortList
    <3>6. conf.ports <= len /\ conf.threads - len < conf.ports
      BY <2>1, <3>3, <3>5, ListLength
    <3>7. Idle \subseteq len..(conf.threads - 1)
      BY <2>1, <3>3, <3>4, <3>5 DEF Idle
    <3>8. /\ IsFiniteSet(len..(conf.threads - 1))
          /\ Cardinality(len..(conf.threads - 1)) = conf.threads - len
      <4>1. len \in Int /\ conf.threads - 1 \in Int /\ ~(len > conf.threads - 1)
        BY <3>3, <3>5
      <4>2. (conf.threads - 1) - len + 1 = conf.threads - len
        BY <3>3
      <4> QED BY <4>1, <4>2, FS_Interval
    <3>9. Cardinality(Idle) <= conf.threads - len /\ Cardinality(Idle) \in Nat
      BY <3>7, <3>8, FS_Subset, FS_CardinalityType
    <3> QED BY <2>1, <3>3, <3>5, <3>6, <3>9
  <2> QED BY <2>2, <2>3
<1> QED BY <1>1, Inductive, PTL
-----------------------------------------------------------------------------
Safe == Init /\ [][Next]_vars

Alive == {"setup", "bind", "accept"}

TypeInv == conf \in Scenarios /\ TypeOK

(***************************************************************************)
(* main: what it has done when it is where it is, and why it can be dead.  *)
(***************************************************************************)
MayPanic ==
  \/ Unregistered \/ RingRefused \/ SleepPanics(conf)
  \/ UnwrapsSetup /\ Scarce /\ \E t \in Threads : wpc[t] = "setup"

MainInv ==
  /\ mainpc \in {"options", "refused"} => spawned = 0
  /\ mainpc \notin {"options", "refused"} => pc = "done" /\ ~Refused(conf)
  /\ mainpc \in {"join", "returned"} => spawned = conf.threads
  /\ mainpc = "returned" => joined = conf.threads
  /\ mainpc = "aborted" => MayPanic
  /\ mainpc \in {"returned", "aborted"} => sockets = {}
  /\ \A t \in AnyThread : t >= spawned => wpc[t] = "unborn"
  /\ \A t \in AnyThread : t < joined => wpc[t] = "ended"

(***************************************************************************)
(* A thread: the listeners it has made are those of its first ports, and   *)
(* if it ended, it had no port, or a broken one, or its ring was refused,  *)
(* or there are not descriptors for everyone.                              *)
(***************************************************************************)
PortAt(t, k) == (chunks[t].from + k) % conf.ports

MayEnd(t) ==
  \/ chunks[t].size = 0
  \/ \E k \in 0..(chunks[t].size - 1) : PortAt(t, k) \in conf.broken
  \/ RingRefused \/ Scarce

ThreadInv(t) ==
  /\ wpc[t] = "unborn" => made[t] = 0
  /\ wpc[t] = "setup" => /\ SetupFirst => made[t] = 0
                         /\ SetupLast => made[t] = chunks[t].size
  /\ wpc[t] # "unborn" => made[t] <= chunks[t].size
  /\ wpc[t] \in Alive =>
       \A k \in 0..(made[t] - 1) :
         /\ PortAt(t, k) \notin conf.broken
         /\ mainpc \in {"spawn", "join"} => <<t, PortAt(t, k)>> \in sockets
  /\ wpc[t] = "accept" => made[t] = chunks[t].size /\ made[t] > 0
  /\ wpc[t] = "ended" => MayEnd(t)

(***************************************************************************)
(* A socket listens on a port whose listener its thread has made, and that *)
(* thread is going to accept, or leaked it under glommio.                  *)
(***************************************************************************)
SocketInv ==
  \A s \in sockets :
    /\ \E k \in 0..(made[s[1]] - 1) : s[2] = PortAt(s[1], k)
    /\ \/ wpc[s[1]] \in Alive
       \/ wpc[s[1]] = "ended" /\ conf.runtime = "glommio" /\ result[s[1]] = "err"

(***************************************************************************)
(* A connection x: queued on a socket, then held by a thread that accepts, *)
(* and served as Session says.                                             *)
(***************************************************************************)
ConnInv(x) ==
  /\ x.state = "queued" => <<x.thread, x.port>> \in sockets
  /\ x.state \in Holding => /\ x.thread \in AnyThread /\ wpc[x.thread] = "accept"
                            /\ mainpc \in {"spawn", "join"}
  /\ x.state \in Holding \cup {"queued", "failed"} => x.client \in conf.clients
  /\ x.state \in {"served", "failed", "ignored"} => x.state = Session(conf, x.client)
  /\ x.state = "failed" => mainpc \notin {"options", "refused"}

IInv ==
  /\ TypeInv /\ MainInv /\ SocketInv
  /\ \A t \in AnyThread : ThreadInv(t)
  /\ \A c \in Connections : ConnInv(conns[c])
-----------------------------------------------------------------------------
(***************************************************************************)
(* Startup takes the steps of PortBalance, and no other, on its variables: *)
(* all that is proved of BalanceSpec holds of the process.                 *)
(***************************************************************************)
THEOREM Composition == Safe => BalanceSpec
<1>1. Init => BalanceInit
  BY DEF Init
<1>2. [Next]_vars => [Balance]_balanceVars
  <2> SUFFICES ASSUME [Next]_vars PROVE Balance \/ UNCHANGED balanceVars
    OBVIOUS
  <2>1. CASE Main
    BY <2>1 DEF Main, BalanceStep, CheckOptions, Spawn, AllSpawned, Join, Return
  <2>2. CASE \E t \in AnyThread : Worker(t)
    <3>1. PICK t \in AnyThread : Worker(t)
      BY <2>2
    <3>2. UNCHANGED balanceVars
      BY <3>1 DEF Worker, Setup, SetupFails, CreateListener, ListenerFails, Bound,
                  Accept, AcceptFails, TasksOf, Begin, Leave, vars
    <3> QED
      BY <3>2
  <2>3. CASE Client
    BY <2>3 DEF Client, HangUp, Request, Connect, Refuse
  <2>4. CASE UNCHANGED vars
    BY <2>4 DEF vars
  <2> QED
    BY <2>1, <2>2, <2>3, <2>4 DEF Next
<1> QED
  BY <1>1, <1>2, PTL DEF Safe, BalanceSpec
-----------------------------------------------------------------------------
LEMMA Started == Init => IInv
<1> SUFFICES ASSUME Init PROVE IInv
  OBVIOUS
<1>1. conf.threads \in Nat
  BY BalanceAssumption DEF Init, BalanceInit
<1>2. NoConn \in Connection
  BY DEF NoConn, NoClient, Connection, ClientKinds, ConnStates
<1>3. TypeInv
  BY <1>1, <1>2 DEF TypeInv, TypeOK, Init, BalanceInit
<1>4. MainInv /\ SocketInv
  BY <1>1 DEF MainInv, SocketInv, Init, AnyThread
<1>5. \A t \in AnyThread : ThreadInv(t)
  BY DEF ThreadInv, Init, Alive
<1>6. \A c \in Connections : ConnInv(conns[c])
  BY DEF ConnInv, Init, NoConn, Holding
<1> QED
  BY <1>3, <1>4, <1>5, <1>6 DEF IInv

(***************************************************************************)
(* What the command line is, and what the balancing is worth when threads  *)
(* run: a thread's chunk is one of natural numbers.                        *)
(***************************************************************************)
LEMMA Chunks ==
  ASSUME IInv, BalanceInv
  PROVE  /\ conf.threads \in Nat /\ conf.ports \in Nat \ {0}
         /\ spawned \in Nat /\ spawned <= conf.threads
         /\ mainpc \notin {"options", "refused"} =>
              /\ Threads \subseteq AnyThread
              /\ \A t \in Threads : chunks[t].from \in Nat /\ chunks[t].size \in Nat
         /\ \A t \in AnyThread : wpc[t] # "unborn" =>
              t \in Threads /\ mainpc \notin {"options", "refused"}
<1>1. conf \in Scenarios
  BY DEF IInv, TypeInv, TypeOK
<1>2. conf.threads \in Nat /\ conf.ports \in Nat \ {0} /\ spawned \in Nat /\ spawned <= conf.threads
  BY <1>1, BalanceAssumption DEF IInv, TypeInv, TypeOK
<1>3. ASSUME mainpc \notin {"options", "refused"}
      PROVE  /\ Threads \subseteq AnyThread
             /\ \A t \in Threads : chunks[t].from \in Nat /\ chunks[t].size \in Nat
  <2>1. pc = "done" /\ ~Refused(conf)
    BY <1>3 DEF IInv, MainInv
  <2>2. conf.threads <= MaxThreads /\ MaxThreads \in Nat
    BY <1>1, <2>1, StartupAssumption
  <2>3. Threads \subseteq AnyThread
    BY <1>2, <2>2 DEF Threads, AnyThread
  <2>4. \A t \in Threads : chunks[t].from \in Nat /\ chunks[t].size \in Nat
    BY <2>1, AtTheEnd
  <2> QED
    BY <2>3, <2>4
<1>4. ASSUME NEW t \in AnyThread, wpc[t] # "unborn"
      PROVE  t \in Threads /\ mainpc \notin {"options", "refused"}
  <2>1. t \in Nat /\ t < spawned
    BY <1>2, <1>4, StartupAssumption DEF IInv, MainInv, AnyThread
  <2>2. spawned # 0
    BY <1>2, <2>1
  <2> QED
    BY <1>2, <2>1, <2>2 DEF IInv, MainInv, Threads
<1> QED
  BY <1>2, <1>3, <1>4

(***************************************************************************)
(* A thread that is where it was, with its sockets, as long as main needs  *)
(* them.                                                                   *)
(***************************************************************************)
LEMMA SameScarce ==
  ASSUME UNCHANGED <<conf, chunks>>
  PROVE  /\ Scarce' = Scarce /\ RingRefused' = RingRefused
         /\ \A t : MayEnd(t)' = MayEnd(t)
BY DEF Scarce, Demand, Wanted, PortsOf, Elements, Threads, RingRefused, MayEnd, PortAt

LEMMA SamePanic ==
  ASSUME UNCHANGED <<conf, chunks>>, UNCHANGED wpc
  PROVE  MayPanic' = MayPanic
BY SameScarce DEF MayPanic, Unregistered, UnwrapsSetup, Threads

LEMMA SameThread ==
  ASSUME NEW t \in AnyThread, ThreadInv(t), UNCHANGED <<conf, chunks>>,
         wpc'[t] = wpc[t], made'[t] = made[t],
         mainpc' \in {"spawn", "join"} => mainpc \in {"spawn", "join"},
         mainpc' \in {"spawn", "join"} /\ wpc[t] # "ended" =>
           \A p : <<t, p>> \in sockets => <<t, p>> \in sockets'
  PROVE  ThreadInv(t)'
BY SameScarce DEF ThreadInv, PortAt, SetupFirst, SetupLast, Alive

LEMMA UnbornThread ==
  ASSUME NEW t \in AnyThread, ThreadInv(t), wpc[t] = "unborn",
         wpc'[t] = wpc[t], made'[t] = made[t]
  PROVE  ThreadInv(t)'
BY DEF ThreadInv, Alive

(***************************************************************************)
(* A step that only moves main, or shares out ports, among states in which *)
(* the threads and the connections may be what they are.                   *)
(***************************************************************************)
LEMMA MainMoves ==
  ASSUME IInv, UNCHANGED <<conf, workerVars>>,
         mainpc \in {"options", "spawn", "join"},
         mainpc' \in {"options", "refused", "spawn", "join"},
         mainpc \in {"spawn", "join"} => mainpc' \in {"spawn", "join"} /\ chunks' = chunks,
         MainInv', spawned' \in 0..conf.threads, joined' \in 0..conf.threads
  PROVE  IInv'
<1> USE DEF IInv, workerVars
<1>1. TypeInv'
  BY DEF TypeInv, TypeOK
<1>0. mainpc = "options" => \A t \in AnyThread : wpc[t] = "unborn"
  <2>1. \A t \in AnyThread : t >= 0
    BY StartupAssumption DEF AnyThread
  <2> QED
    BY <2>1 DEF MainInv
<1>2. SocketInv'
  <2>1. CASE mainpc = "options"
    <3>1. \A s \in sockets : s[1] \in AnyThread
      BY DEF TypeInv, TypeOK
    <3>2. sockets = {}
      BY <1>0, <2>1, <3>1 DEF SocketInv, Alive
    <3> QED
      BY <3>2 DEF SocketInv
  <2>2. CASE mainpc \in {"spawn", "join"}
    BY <2>2 DEF SocketInv, PortAt
  <2> QED
    BY <2>1, <2>2
<1>3. \A t \in AnyThread : ThreadInv(t)'
  <2> TAKE t \in AnyThread
  <2>1. CASE mainpc = "options"
    BY <1>0, <2>1, UnbornThread
  <2>2. CASE mainpc \in {"spawn", "join"}
    BY <2>2, SameThread
  <2> QED
    BY <2>1, <2>2
<1>4. \A c \in Connections : ConnInv(conns[c])'
  BY DEF ConnInv, Holding
<1> QED
  BY <1>1, <1>2, <1>3, <1>4

LEMMA MainKeeps ==
  ASSUME IInv, BalanceInv, Running,
         BalanceStep \/ CheckOptions \/ AllSpawned \/ Join
  PROVE  IInv'
<1> USE DEF IInv
<1>1. /\ mainpc \in {"options", "spawn", "join"}
      /\ conf.threads \in Nat /\ spawned \in 0..conf.threads /\ joined \in 0..conf.threads
  BY Chunks DEF Running, TypeInv, TypeOK
<1>2. CASE BalanceStep
  <2>1. UNCHANGED <<conf, mainVars, workerVars>> /\ pc # "done"
    BY <1>2 DEF BalanceStep, Balance, CloneAll, Expand, PushChunk, Shared
  <2>2. mainpc = "options"
    BY <1>1, <2>1 DEF MainInv
  <2>3. MainInv'
    BY <2>1, <2>2 DEF MainInv, mainVars, workerVars
  <2> QED
    BY <1>1, <2>1, <2>2, <2>3, MainMoves DEF mainVars
<1>3. CASE CheckOptions
  <2>1. /\ UNCHANGED <<balanceVars, spawned, joined, workerVars>> /\ mainpc = "options"
        /\ pc = "done" /\ mainpc' \in {"refused", "spawn"}
        /\ mainpc' = "spawn" => ~Refused(conf)
    BY <1>3 DEF CheckOptions
  <2>2. MainInv'
    BY <2>1 DEF MainInv, workerVars, balanceVars
  <2> QED
    BY <1>1, <2>1, <2>2, MainMoves DEF balanceVars
<1>4. CASE AllSpawned
  <2>1. /\ UNCHANGED <<balanceVars, spawned, joined, workerVars>>
        /\ mainpc = "spawn" /\ mainpc' = "join" /\ spawned = conf.threads
    BY <1>4 DEF AllSpawned
  <2>2. MainInv'
    BY <2>1 DEF MainInv, workerVars, balanceVars
  <2> QED
    BY <1>1, <2>1, <2>2, MainMoves DEF balanceVars
<1>5. CASE Join
  <2>1. /\ UNCHANGED <<balanceVars, mainpc, spawned, workerVars>>
        /\ mainpc = "join" /\ joined < conf.threads /\ wpc[joined] = "ended"
        /\ joined' = joined + 1
    BY <1>5 DEF Join
  <2>2. \A t \in AnyThread : t < joined' => wpc'[t] = "ended"
    <3> SUFFICES ASSUME NEW t \in AnyThread, t < joined' PROVE wpc[t] = "ended"
      BY <2>1 DEF workerVars
    <3>1. t \in Nat /\ joined \in Nat /\ (t < joined \/ t = joined)
      BY <1>1, <2>1, StartupAssumption DEF AnyThread
    <3> QED
      BY <2>1, <3>1 DEF MainInv
  <2>3. MainInv'
    BY <2>1, <2>2 DEF MainInv, workerVars, balanceVars
  <2>4. joined' \in 0..conf.threads
    BY <1>1, <2>1
  <2> QED
    BY <1>1, <2>1, <2>3, <2>4, MainMoves DEF balanceVars
<1> QED
  BY <1>2, <1>3, <1>4, <1>5

LEMMA SpawnKeeps == ASSUME IInv, BalanceInv, Spawn PROVE IInv'
<1> USE DEF IInv, Spawn, balanceVars
<1>1. /\ conf.threads \in Nat /\ spawned \in Nat /\ spawned \in Threads
      /\ spawned \in AnyThread /\ joined \in 0..conf.threads
      /\ chunks[spawned].size \in Nat
  BY Chunks DEF Threads, TypeInv, TypeOK
<1>2. wpc[spawned] = "unborn" /\ made[spawned] = 0
  BY <1>1 DEF MainInv, ThreadInv
<1>3. /\ wpc'[spawned] = Entry /\ made' = made
      /\ \A t \in AnyThread : t # spawned => wpc'[t] = wpc[t]
  BY <1>1 DEF TypeInv, TypeOK
<1>4. Entry = (IF SetupFirst THEN "setup" ELSE "bind") /\ Entry \in {"setup", "bind"}
  BY DEF Entry
<1>5. TypeInv'
  BY <1>1, <1>4 DEF TypeInv, TypeOK, Alive
<1>6. MainInv'
  <2>1. \A t \in AnyThread : t >= spawned' => wpc'[t] = "unborn"
    BY <1>1, <1>3, StartupAssumption DEF MainInv, AnyThread
  <2>2. \A t \in AnyThread : t < joined => t # spawned /\ wpc'[t] = "ended"
    BY <1>2, <1>3 DEF MainInv
  <2> QED
    BY <1>1, <2>1, <2>2 DEF MainInv
<1>7. SocketInv'
  <2>1. \A s \in sockets : s[1] \in AnyThread /\ s[1] # spawned
    BY <1>2 DEF SocketInv, TypeInv, TypeOK, Alive
  <2> QED
    BY <1>3, <2>1 DEF SocketInv, PortAt
<1>8. \A t \in AnyThread : ThreadInv(t)'
  <2> TAKE t \in AnyThread
  <2>1. CASE t # spawned
    BY <1>3, <2>1, SameThread
  <2>2. CASE t = spawned
    <3>1. 0..(made'[t] - 1) = {}
      BY <1>2, <2>2
    <3> QED
      BY <1>1, <1>2, <1>3, <1>4, <2>2, <3>1
      DEF ThreadInv, SetupFirst, SetupLast, Alive
  <2> QED
    BY <2>1, <2>2
<1>9. \A c \in Connections : ConnInv(conns[c])'
  BY <1>2, <1>3 DEF ConnInv, Holding
<1> QED
  BY <1>5, <1>6, <1>7, <1>8, <1>9

(***************************************************************************)
(* Closing sockets: a connection that waited on one is reset, and no other *)
(* changes.                                                                *)
(***************************************************************************)
LEMMA CloseFacts ==
  ASSUME TypeInv, NEW S, Close(S)
  PROVE  /\ sockets' = sockets \ S
         /\ conns' \in [Connections -> Connection]
         /\ \A c \in Connections :
              \/ conns'[c].state = "reset"
              \/ /\ conns'[c] = conns[c]
                 /\ conns[c].state = "queued" => <<conns[c].thread, conns[c].port>> \notin S
<1>1. \A c \in Connections : conns[c] \in Connection
  BY DEF TypeInv, TypeOK
<1>2. \A x \in Connection : /\ [x EXCEPT !.state = "reset"] \in Connection
                            /\ [x EXCEPT !.state = "reset"].state = "reset"
  BY DEF Connection, ConnStates
<1> QED
  BY <1>1, <1>2 DEF Close

(***************************************************************************)
(* A panic: no socket is left, and no connection queued or held.           *)
(***************************************************************************)
LEMMA AbortKeeps ==
  ASSUME IInv, BalanceInv, Abort, UNCHANGED balanceVars,
         mainpc \notin {"options", "refused"}, MayPanic
  PROVE  IInv'
<1> USE DEF IInv, balanceVars
<1>1. \A c \in Connections : conns[c] \in Connection
  BY DEF TypeInv, TypeOK
<1>2. \A x \in Connection : /\ [x EXCEPT !.state = "reset"] \in Connection
                            /\ [x EXCEPT !.state = "reset"].state = "reset"
  BY DEF Connection, ConnStates
<1>3. /\ conns' \in [Connections -> Connection]
      /\ \A c \in Connections :
           \/ conns'[c].state = "reset"
           \/ conns'[c] = conns[c] /\ conns[c].state \notin Holding \cup {"queued"}
  BY <1>1, <1>2 DEF Abort
<1>4. TypeInv'
  BY <1>3 DEF TypeInv, TypeOK, Abort
<1>5. MainInv'
  BY SamePanic DEF MainInv, Abort
<1>6. SocketInv'
  BY DEF SocketInv, Abort
<1>7. \A t \in AnyThread : ThreadInv(t)'
  BY SameThread DEF Abort
<1>8. \A c \in Connections : ConnInv(conns[c])'
  BY <1>3 DEF ConnInv, Abort, Holding
<1> QED
  BY <1>4, <1>5, <1>6, <1>7, <1>8

LEMMA ReturnKeeps == ASSUME IInv, BalanceInv, Return PROVE IInv'
<1> USE DEF IInv, balanceVars
<1>1. /\ mainpc = "join" /\ joined = conf.threads /\ mainpc' = "returned" /\ Close(sockets)
      /\ UNCHANGED <<balanceVars, spawned, joined, wpc, result, made>>
  BY DEF Return
<1>2. /\ sockets' = {} /\ conns' \in [Connections -> Connection]
      /\ \A c \in Connections :
           \/ conns'[c].state = "reset"
           \/ /\ conns'[c] = conns[c]
              /\ conns[c].state = "queued" => <<conns[c].thread, conns[c].port>> \notin sockets
  BY <1>1, CloseFacts
<1>3. \A t \in AnyThread : wpc[t] # "accept"
  <2> SUFFICES ASSUME NEW t \in AnyThread, wpc[t] = "accept" PROVE FALSE
    OBVIOUS
  <2>1. t \in Threads /\ conf.threads \in Nat
    BY Chunks
  <2> QED
    BY <1>1, <2>1 DEF MainInv, Threads
<1>4. TypeInv'
  BY <1>1, <1>2 DEF TypeInv, TypeOK
<1>5. MainInv'
  BY <1>1, <1>2 DEF MainInv
<1>6. SocketInv'
  BY <1>2 DEF SocketInv
<1>7. \A t \in AnyThread : ThreadInv(t)'
  BY <1>1, SameThread
<1>8. \A c \in Connections : ConnInv(conns[c])'
  BY <1>1, <1>2, <1>3 DEF ConnInv, Holding
<1> QED
  BY <1>4, <1>5, <1>6, <1>7, <1>8
-----------------------------------------------------------------------------
(***************************************************************************)
(* A thread goes from one place to another and touches nothing else: the   *)
(* rest holds if its own invariant does, and it leaves no socket behind.   *)
(***************************************************************************)
LEMMA ThreadMoves ==
  ASSUME IInv, BalanceInv, Running, NEW t \in AnyThread, wpc[t] \in {"setup", "bind"},
         NEW q \in {"setup", "bind", "accept", "ended"},
         wpc' = [wpc EXCEPT ![t] = q],
         result' \in [AnyThread -> {"none", "ok", "err"}],
         \A u \in AnyThread : u # t => result'[u] = result[u],
         UNCHANGED <<balanceVars, mainVars, made, sockets, conns>>,
         q = "ended" => made[t] = 0,
         ThreadInv(t)'
  PROVE  IInv'
<1> USE DEF IInv, balanceVars, mainVars
<1>1. wpc'[t] = q /\ \A u \in AnyThread : u # t => wpc'[u] = wpc[u]
  BY DEF TypeInv, TypeOK
<1>2. TypeInv'
  BY DEF TypeInv, TypeOK, Alive
<1>3. t < spawned
  BY Chunks, StartupAssumption DEF MainInv, AnyThread
<1>4. MainInv'
  <2>1. \A u \in AnyThread : u >= spawned => wpc'[u] = "unborn"
    BY <1>1, <1>3 DEF MainInv
  <2>2. \A u \in AnyThread : u < joined => wpc'[u] = "ended"
    BY <1>1 DEF MainInv
  <2> QED
    BY <2>1, <2>2 DEF MainInv, Running
<1>5. SocketInv'
  <2> SUFFICES ASSUME NEW s \in sockets
               PROVE  /\ \E k \in 0..(made[s[1]] - 1) : s[2] = PortAt(s[1], k)'
                      /\ \/ wpc'[s[1]] \in Alive
                         \/ /\ wpc'[s[1]] = "ended" /\ conf.runtime = "glommio"
                            /\ result'[s[1]] = "err"
    BY DEF SocketInv
  <2>1. s[1] \in AnyThread /\ made[s[1]] \in Nat
    BY DEF TypeInv, TypeOK
  <2>2. \E k \in 0..(made[s[1]] - 1) : s[2] = PortAt(s[1], k)'
    BY DEF SocketInv, PortAt
  <2>3. q = "ended" => s[1] # t
    BY <2>1, <2>2
  <2> QED
    BY <1>1, <2>1, <2>2, <2>3 DEF SocketInv, Alive
<1>6. \A u \in AnyThread : ThreadInv(u)'
  BY <1>1, SameThread
<1>7. \A c \in Connections : ConnInv(conns[c])'
  BY <1>1 DEF ConnInv, Holding
<1> QED
  BY <1>2, <1>4, <1>5, <1>6, <1>7

LEMMA ListenInv ==
  ASSUME IInv, BalanceInv, Running, NEW t \in AnyThread, wpc[t] \in {"setup", "bind"},
         made[t] = chunks[t].size,
         Listen(t), UNCHANGED <<balanceVars, mainVars, made, sockets, conns>>
  PROVE  IInv'
<1> USE DEF IInv, balanceVars, mainVars
<1>1. made[t] \in Nat
  BY DEF TypeInv, TypeOK
<1>2. CASE made[t] = 0
  <2>1. /\ wpc' = [wpc EXCEPT ![t] = "ended"] /\ wpc'[t] = "ended"
        /\ result' = [result EXCEPT ![t] = "ok"]
        /\ \A u \in AnyThread : u # t => result'[u] = result[u]
        /\ result' \in [AnyThread -> {"none", "ok", "err"}]
    BY <1>2 DEF Listen, End, TypeInv, TypeOK
  <2>2. ThreadInv(t)'
    BY <1>2, <2>1 DEF ThreadInv, Alive, MayEnd
  <2> QED
    BY <1>2, <2>1, <2>2, ThreadMoves
<1>3. CASE made[t] # 0
  <2>1. wpc' = [wpc EXCEPT ![t] = "accept"] /\ result' = result /\ wpc'[t] = "accept"
    BY <1>3 DEF Listen, TypeInv, TypeOK
  <2>2. ThreadInv(t)'
    BY <1>1, <1>3, <2>1 DEF ThreadInv, PortAt, Alive
  <2>3. result' \in [AnyThread -> {"none", "ok", "err"}]
    BY <2>1 DEF TypeInv, TypeOK
  <2> QED
    BY <2>1, <2>2, <2>3, ThreadMoves
<1> QED
  BY <1>2, <1>3

(***************************************************************************)
(* A thread ends and its listeners are closed; only glommio's stay, when   *)
(* it returns an error.                                                    *)
(***************************************************************************)
LEMMA ThreadEnds ==
  ASSUME IInv, BalanceInv, Running, NEW t \in AnyThread, wpc[t] \in {"setup", "bind"},
         NEW e \in {"ok", "err"}, NEW S, End(t, e), Close(S), MayEnd(t),
         S = Own(t) \/ (S = {} /\ conf.runtime = "glommio" /\ e = "err"),
         UNCHANGED <<balanceVars, mainVars, made>>
  PROVE  IInv'
<1> USE DEF IInv, balanceVars, mainVars
<1>1. /\ wpc' = [wpc EXCEPT ![t] = "ended"] /\ wpc'[t] = "ended"
      /\ \A u \in AnyThread : u # t => wpc'[u] = wpc[u]
      /\ result' = [result EXCEPT ![t] = e] /\ result'[t] = e
      /\ \A u \in AnyThread : u # t => result'[u] = result[u]
      /\ result' \in [AnyThread -> {"none", "ok", "err"}]
      /\ UNCHANGED <<conf, pc, chunks, mainpc, spawned, joined, made>>
  BY DEF TypeInv, TypeOK, End
<1>2. t \in Threads /\ mainpc \notin {"options", "refused"}
  BY Chunks
<1>3. /\ sockets' = sockets \ S
      /\ conns' \in [Connections -> Connection]
      /\ \A c \in Connections :
           \/ conns'[c].state = "reset"
           \/ /\ conns'[c] = conns[c]
              /\ conns[c].state = "queued" => <<conns[c].thread, conns[c].port>> \notin S
  BY CloseFacts
<1>4. \A s \in sockets : s[1] # t => s \in sockets'
  BY <1>3 DEF Own
<1>5. TypeInv'
  BY <1>1, <1>3 DEF TypeInv, TypeOK, Alive
<1>6. MainInv'
  <2>1. t < spawned
    BY Chunks, StartupAssumption DEF MainInv, AnyThread
  <2> QED
    BY <1>1, <1>2, <1>3, <2>1 DEF MainInv, Running
<1>7. SocketInv'
  <2> SUFFICES ASSUME NEW s \in sockets'
               PROVE  /\ \E k \in 0..(made[s[1]] - 1) : s[2] = PortAt(s[1], k)'
                      /\ \/ wpc'[s[1]] \in Alive
                         \/ /\ wpc'[s[1]] = "ended" /\ conf.runtime = "glommio"
                            /\ result'[s[1]] = "err"
    BY <1>1 DEF SocketInv
  <2>1. s \in sockets /\ s[1] \in AnyThread
    BY <1>3 DEF TypeInv, TypeOK
  <2>2. \E k \in 0..(made[s[1]] - 1) : s[2] = PortAt(s[1], k)'
    BY <1>1, <2>1 DEF SocketInv, PortAt
  <2>3. CASE s[1] # t
    BY <1>1, <2>1, <2>2, <2>3 DEF SocketInv
  <2>4. CASE s[1] = t
    <3>1. conf.runtime = "glommio" /\ e = "err"
      BY <1>3, <2>1, <2>4 DEF Own
    <3> QED
      BY <1>1, <2>2, <2>4, <3>1
  <2> QED
    BY <2>3, <2>4
<1>8. \A u \in AnyThread : ThreadInv(u)'
  <2> TAKE u \in AnyThread
  <2>1. CASE u # t
    BY <1>1, <1>4, <2>1, SameThread
  <2>2. CASE u = t
    <3>1. MayEnd(t)' /\ made[t] <= chunks[t].size
      BY <1>1, SameScarce DEF ThreadInv
    <3> QED
      BY <1>1, <2>2, <3>1 DEF ThreadInv, Alive
  <2> QED
    BY <2>1, <2>2
<1>9. \A c \in Connections : ConnInv(conns[c])'
  <2> TAKE c \in Connections
  <2>1. CASE conns'[c].state = "reset"
    BY <2>1 DEF ConnInv, Holding
  <2>2. CASE /\ conns'[c] = conns[c]
             /\ conns[c].state = "queued" => <<conns[c].thread, conns[c].port>> \notin S
    BY <1>1, <1>3, <2>2 DEF ConnInv, Holding
  <2> QED
    BY <1>3, <2>1, <2>2
<1> QED
  BY <1>5, <1>6, <1>7, <1>8, <1>9
-----------------------------------------------------------------------------
(***************************************************************************)
(* A chunk's ports, as the listeners of its thread count them.             *)
(***************************************************************************)
LEMMA PortsAre ==
  ASSUME NEW t, chunks[t].from \in Nat, chunks[t].size \in Nat
  PROVE  \A p : p \in PortsOf(t) <=> \E k \in 0..(chunks[t].size - 1) : p = PortAt(t, k)
<1> TAKE p
<1>1. ASSUME p \in PortsOf(t)
      PROVE  \E k \in 0..(chunks[t].size - 1) : p = PortAt(t, k)
  <2>1. PICK e \in Elements(t) : p = e % conf.ports
    BY <1>1 DEF PortsOf
  <2>2. e - chunks[t].from \in 0..(chunks[t].size - 1)
        /\ chunks[t].from + (e - chunks[t].from) = e
    BY <2>1 DEF Elements
  <2> QED
    BY <2>1, <2>2 DEF PortAt
<1>2. ASSUME NEW k \in 0..(chunks[t].size - 1), p = PortAt(t, k)
      PROVE  p \in PortsOf(t)
  <2>1. chunks[t].from + k \in Elements(t)
    BY DEF Elements
  <2> QED
    BY <1>2, <2>1 DEF PortsOf, PortAt
<1> QED
  BY <1>1, <1>2

(***************************************************************************)
(* What is in use is part of the demand: the sockets are wanted, no thread *)
(* has more than its runtime, and only clients that connected are held.    *)
(***************************************************************************)
Due == IF conf.runtime = "smol" THEN 1 ELSE conf.threads

LEMMA SocketsWanted ==
  ASSUME IInv, BalanceInv, mainpc \notin {"options", "refused"}
  PROVE  /\ IsFiniteSet(Wanted) /\ sockets \subseteq Wanted
         /\ Cardinality(sockets) \in Nat /\ Cardinality(Wanted) \in Nat
         /\ Cardinality(sockets) <= Cardinality(Wanted)
<1>1. conf.threads \in Nat /\ conf.ports \in Nat \ {0} /\ Threads = 0..(conf.threads - 1)
  BY Chunks DEF Threads
<1>2. IsFiniteSet(Threads) /\ IsFiniteSet(0..(conf.ports - 1))
  <2>1. 0 \in Int /\ conf.threads - 1 \in Int /\ conf.ports - 1 \in Int
    BY <1>1
  <2>2. IsFiniteSet(0..(conf.threads - 1)) /\ IsFiniteSet(0..(conf.ports - 1))
    BY <2>1, FS_Interval
  <2> QED
    BY <1>1, <2>2
<1>3. IsFiniteSet(Wanted)
  <2>1. IsFiniteSet(Threads \X (0..(conf.ports - 1)))
    BY <1>2, FS_Product
  <2>2. Wanted \subseteq Threads \X (0..(conf.ports - 1))
    BY DEF Wanted
  <2> QED
    BY <2>1, <2>2, FS_Subset
<1>4. ASSUME NEW s \in sockets PROVE s \in Wanted
  <2>1. s \in AnyThread \X (0..(conf.ports - 1)) /\ s[1] \in AnyThread /\ made[s[1]] \in Nat
    BY DEF IInv, TypeInv, TypeOK
  <2>2. wpc[s[1]] # "unborn" /\ \E k \in 0..(made[s[1]] - 1) : s[2] = PortAt(s[1], k)
    BY DEF IInv, SocketInv, Alive
  <2>3. /\ s[1] \in Threads /\ chunks[s[1]].from \in Nat /\ chunks[s[1]].size \in Nat
        /\ made[s[1]] <= chunks[s[1]].size
    BY <2>1, <2>2, Chunks DEF IInv, ThreadInv
  <2>4. s[2] \in PortsOf(s[1])
    BY <2>1, <2>2, <2>3, PortsAre
  <2> QED
    BY <2>1, <2>3, <2>4 DEF Wanted
<1> QED
  BY <1>3, <1>4, FS_Subset, FS_CardinalityType

LEMMA HeldConnected ==
  /\ Cardinality(Held) \in Nat /\ Cardinality(Connections) \in Nat
  /\ Cardinality(Held) <= Cardinality(Connections)
BY StartupAssumption, FS_Subset, FS_CardinalityType DEF Held

LEMMA BuiltDue ==
  ASSUME IInv, BalanceInv
  PROVE  /\ Built \in Nat /\ Due \in Nat
         /\ mainpc \notin {"options", "refused"} /\ Threads # {} => Built <= Due
         /\ \A t \in Threads \cap AnyThread :
              wpc[t] = "setup" /\ ~(conf.runtime = "smol" /\ Reactor) => Built + 1 <= Due
<1>1. conf.threads \in Nat /\ Threads = 0..(conf.threads - 1)
  BY Chunks DEF Threads
<1>2. IsFiniteSet(Threads) /\ Cardinality(Threads) = conf.threads
  <2>1. CASE conf.threads = 0
    BY <1>1, <2>1, FS_EmptySet
  <2>2. CASE conf.threads > 0
    BY <1>1, <2>2, FS_Interval
  <2> QED
    BY <1>1, <2>1, <2>2
<1>3. CASE conf.runtime = "smol"
  BY <1>1, <1>3 DEF Built, Due
<1>4. CASE conf.runtime # "smol"
  <2> DEFINE B == {t \in AnyThread : HasRuntime(t)}
  <2>1. B \subseteq Threads
    BY Chunks DEF HasRuntime
  <2>2. IsFiniteSet(B) /\ Cardinality(B) \in Nat /\ Cardinality(B) <= conf.threads
    BY <1>2, <2>1, FS_Subset, FS_CardinalityType
  <2>3. ASSUME NEW t \in Threads \cap AnyThread, wpc[t] = "setup"
        PROVE  Cardinality(B) + 1 <= conf.threads
    <3>1. B \subseteq Threads \ {t}
      BY <2>1, <2>3 DEF HasRuntime
    <3>2. IsFiniteSet(Threads \ {t}) /\ Cardinality(Threads \ {t}) = conf.threads - 1
      BY <1>2, FS_RemoveElement
    <3>3. Cardinality(B) <= conf.threads - 1
      BY <3>1, <3>2, FS_Subset
    <3> QED
      BY <1>1, <2>2, <3>3
  <2>4. Built = Cardinality(B) /\ Due = conf.threads
    BY <1>4 DEF Built, Due
  <2> HIDE DEF B
  <2> QED
    BY <1>1, <2>2, <2>3, <2>4
<1> QED
  BY <1>3, <1>4

(***************************************************************************)
(* A thread that is refused a descriptor, for a listener or for its        *)
(* runtime, is in a process that may not have enough of them.              *)
(***************************************************************************)
LEMMA RefusedListener ==
  ASSUME IInv, BalanceInv, NEW t \in AnyThread, wpc[t] = "bind",
         made[t] < chunks[t].size, Exhausted
  PROVE  Scarce
<1>1. /\ t \in Threads /\ mainpc \notin {"options", "refused"} /\ conf.ports \in Nat \ {0}
      /\ chunks[t].from \in Nat /\ chunks[t].size \in Nat /\ made[t] \in Nat
      /\ SetupCost \in Nat /\ conf.limit \in Nat
  BY Chunks, StartupAssumption DEF IInv, TypeInv, TypeOK
<1> DEFINE w == <<t, PortAt(t, made[t])>>
<1>2. w \in Wanted
  <2>1. PortAt(t, made[t]) \in PortsOf(t) /\ PortAt(t, made[t]) \in 0..(conf.ports - 1)
    BY <1>1, PortsAre DEF PortAt
  <2> QED
    BY <1>1, <2>1 DEF Wanted
<1>3. w \notin sockets
  <2> SUFFICES ASSUME w \in sockets PROVE FALSE
    OBVIOUS
  <2>1. PICK k \in 0..(made[t] - 1) : PortAt(t, made[t]) = PortAt(t, k)
    BY DEF IInv, SocketInv
  <2>2. pc = "done"
    BY <1>1 DEF IInv, MainInv
  <2>3. \A e, f \in Elements(t) : e % conf.ports = f % conf.ports => e = f
    BY <1>1, <2>2, FairAtTheEnd DEF Fair
  <2>4. chunks[t].from + made[t] \in Elements(t) /\ chunks[t].from + k \in Elements(t)
    BY <1>1 DEF Elements
  <2>5. chunks[t].from + made[t] = chunks[t].from + k
    BY <2>1, <2>3, <2>4 DEF PortAt
  <2> QED
    BY <1>1, <2>5
<1> HIDE DEF w
<1>4. /\ Cardinality(sockets) \in Nat /\ Cardinality(Wanted) \in Nat
      /\ Cardinality(sockets) + 1 <= Cardinality(Wanted)
  <2>1. /\ IsFiniteSet(Wanted) /\ sockets \subseteq Wanted \ {w}
        /\ Cardinality(sockets) \in Nat /\ Cardinality(Wanted) \in Nat
    BY <1>1, <1>3, SocketsWanted
  <2>2. IsFiniteSet(Wanted \ {w}) /\ Cardinality(Wanted \ {w}) = Cardinality(Wanted) - 1
    BY <1>2, <2>1, FS_RemoveElement
  <2>3. Cardinality(sockets) <= Cardinality(Wanted) - 1
    BY <2>1, <2>2, FS_Subset
  <2> QED
    BY <2>1, <2>3
<1>5. Built \in Nat /\ Due \in Nat /\ Built <= Due
  BY <1>1, BuiltDue
<1>6. SetupCost * Built \in Nat /\ SetupCost * Due \in Nat /\ SetupCost * Built <= SetupCost * Due
  BY <1>1, <1>5, ProductGrows
<1>7. Used >= conf.limit /\ Used = Cardinality(sockets) + SetupCost * Built + Cardinality(Held)
  BY DEF Exhausted, Used
<1>8. Demand = Cardinality(Wanted) + Cardinality(Connections) + SetupCost * Due
  BY DEF Demand, Due
<1> QED
  <2> DEFINE a == SetupCost * Built
             b == SetupCost * Due
  <2>1. a \in Nat /\ b \in Nat /\ a <= b
    BY <1>6
  <2>2. Used = Cardinality(sockets) + a + Cardinality(Held)
    BY <1>7
  <2>3. Demand = Cardinality(Wanted) + Cardinality(Connections) + b
    BY <1>8
  <2> HIDE DEF a, b
  <2> QED
    BY <1>1, <1>4, <1>7, <2>1, <2>2, <2>3, HeldConnected DEF Scarce

LEMMA RefusedRuntime ==
  ASSUME IInv, BalanceInv, NEW t \in AnyThread, wpc[t] = "setup", SetupShort
  PROVE  Scarce
<1>1. /\ t \in Threads /\ mainpc \notin {"options", "refused"}
      /\ SetupCost \in Nat /\ conf.limit \in Nat
  BY Chunks, StartupAssumption DEF IInv, TypeInv, TypeOK
<1>2. /\ Cardinality(sockets) \in Nat /\ Cardinality(Wanted) \in Nat
      /\ Cardinality(sockets) <= Cardinality(Wanted)
  BY <1>1, SocketsWanted
<1>3. Built \in Nat /\ Due \in Nat /\ Built + 1 <= Due
  BY <1>1, BuiltDue DEF SetupShort
<1>4. /\ SetupCost * Built \in Nat /\ SetupCost * Due \in Nat
      /\ SetupCost * Built + SetupCost <= SetupCost * Due
  <2>1. (Built + 1) * SetupCost = Built * SetupCost + SetupCost
    BY <1>1, <1>3, ProductNext
  <2>2. Built + 1 \in Nat
    BY <1>3
  <2>3. (Built + 1) * SetupCost <= Due * SetupCost
    BY <1>1, <1>3, <2>2, ProductGrows
  <2>4. Built * SetupCost = SetupCost * Built /\ Due * SetupCost = SetupCost * Due
        /\ SetupCost * Built \in Nat /\ SetupCost * Due \in Nat
    BY <1>1, <1>3
  <2> QED
    BY <2>1, <2>3, <2>4
<1>5. /\ Used + SetupCost > conf.limit
      /\ Used = Cardinality(sockets) + SetupCost * Built + Cardinality(Held)
  BY DEF SetupShort, Used
<1>6. Demand = Cardinality(Wanted) + Cardinality(Connections) + SetupCost * Due
  BY DEF Demand, Due
<1> QED
  <2> DEFINE a == SetupCost * Built
             b == SetupCost * Due
  <2>1. a \in Nat /\ b \in Nat /\ a + SetupCost <= b
    BY <1>4
  <2>2. Used = Cardinality(sockets) + a + Cardinality(Held)
    BY <1>5
  <2>3. Demand = Cardinality(Wanted) + Cardinality(Connections) + b
    BY <1>6
  <2> HIDE DEF a, b
  <2> QED
    BY <1>1, <1>2, <1>5, <2>1, <2>2, <2>3, HeldConnected DEF Scarce
-----------------------------------------------------------------------------
LEMMA SetupKeeps ==
  ASSUME IInv, BalanceInv, Running, NEW t \in AnyThread, Setup(t) \/ SetupFails(t)
  PROVE  IInv'
<1> USE DEF IInv
<1>1. /\ wpc[t] = "setup" /\ made[t] \in Nat
      /\ SetupFirst => made[t] = 0
      /\ SetupLast => made[t] = chunks[t].size
  BY DEF Setup, SetupFails, ThreadInv, TypeInv, TypeOK
<1>2. t \in Threads /\ mainpc \notin {"options", "refused"} /\ chunks[t].size \in Nat
  BY <1>1, Chunks
<1>3. CASE Setup(t) /\ ~SetupLast
  <2>1. /\ wpc' = [wpc EXCEPT ![t] = "bind"] /\ result' = result
        /\ UNCHANGED <<balanceVars, mainVars, made, sockets, conns>>
    BY <1>3 DEF Setup
  <2>2. wpc'[t] = "bind" /\ result' \in [AnyThread -> {"none", "ok", "err"}]
    BY <2>1 DEF TypeInv, TypeOK
  <2>3. ThreadInv(t)'
    BY <1>1, <2>1, <2>2 DEF ThreadInv, PortAt, Alive, balanceVars, mainVars
  <2> QED
    BY <1>1, <2>1, <2>2, <2>3, ThreadMoves
<1>4. CASE Setup(t) /\ SetupLast
  BY <1>1, <1>4, ListenInv DEF Setup
<1>5. ASSUME SetupFails(t) PROVE RingRefused \/ Scarce
  BY <1>1, <1>5, RefusedRuntime DEF SetupFails
<1>6. CASE SetupFails(t) /\ ~UnwrapsSetup
  <2>1. /\ End(t, "err") /\ Close(Own(t)) /\ UNCHANGED <<balanceVars, mainVars, made>>
    BY <1>6 DEF SetupFails
  <2>2. MayEnd(t)
    BY <1>5, <1>6 DEF MayEnd
  <2> QED
    BY <1>1, <2>1, <2>2, ThreadEnds
<1>7. CASE SetupFails(t) /\ UnwrapsSetup
  <2>1. MayPanic
    BY <1>1, <1>2, <1>5, <1>7 DEF MayPanic
  <2> QED
    BY <1>2, <1>7, <2>1, AbortKeeps DEF SetupFails
<1> QED
  BY <1>3, <1>4, <1>6, <1>7

LEMMA BoundKeeps ==
  ASSUME IInv, BalanceInv, Running, NEW t \in AnyThread, Bound(t)
  PROVE  IInv'
<1> USE DEF IInv
<1>1. wpc[t] = "bind" /\ made[t] = chunks[t].size /\ made[t] \in Nat
  BY DEF Bound, TypeInv, TypeOK
<1>2. CASE SetupLast
  <2>1. /\ wpc' = [wpc EXCEPT ![t] = "setup"] /\ result' = result
        /\ UNCHANGED <<balanceVars, mainVars, made, sockets, conns>>
    BY <1>2 DEF Bound
  <2>2. wpc'[t] = "setup" /\ result' \in [AnyThread -> {"none", "ok", "err"}]
    BY <2>1 DEF TypeInv, TypeOK
  <2>3. ThreadInv(t)'
    BY <1>1, <1>2, <2>1, <2>2
    DEF ThreadInv, PortAt, Alive, SetupFirst, SetupLast, balanceVars, mainVars
  <2> QED
    BY <1>1, <2>1, <2>2, <2>3, ThreadMoves
<1>3. CASE ~SetupLast
  BY <1>1, <1>3, ListenInv DEF Bound
<1> QED
  BY <1>2, <1>3

LEMMA CreateKeeps ==
  ASSUME IInv, BalanceInv, Running, NEW t \in AnyThread, CreateListener(t)
  PROVE  IInv'
<1> USE DEF IInv, CreateListener, balanceVars, mainVars
<1>1. /\ wpc[t] = "bind" /\ made[t] \in Nat /\ made[t] < chunks[t].size
      /\ made' = [made EXCEPT ![t] = @ + 1]
      /\ made'[t] = made[t] + 1
      /\ \A u \in AnyThread : u # t => made'[u] = made[u] /\ wpc'[u] = wpc[u]
      /\ wpc'[t] \in {"setup", "bind"}
      /\ wpc'[t] = "setup" => conf.runtime = "smol"
      /\ wpc' \in [AnyThread -> {"unborn", "setup", "bind", "accept", "ended"}]
      /\ NextPort(t) \notin conf.broken
      /\ sockets' = sockets \cup {<<t, NextPort(t)>>}
  BY DEF TypeInv, TypeOK, CannotListen
<1>2. /\ t \in Threads /\ mainpc \notin {"options", "refused"}
      /\ chunks[t].size \in Nat /\ chunks[t].from \in Nat /\ conf.ports \in Nat \ {0}
  BY <1>1, Chunks
<1>3. NextPort(t) \in 0..(conf.ports - 1) /\ NextPort(t) = PortAt(t, made[t])
  BY <1>1, <1>2 DEF NextPort, PortAt
<1>4. TypeInv'
  <2>1. sockets' \subseteq AnyThread \X (0..(conf.ports - 1))
    BY <1>1, <1>3 DEF TypeInv, TypeOK
  <2>2. made' \in [AnyThread -> Nat]
    BY <1>1 DEF TypeInv, TypeOK
  <2> QED
    BY <1>1, <2>1, <2>2 DEF TypeInv, TypeOK
<1>5. MainInv'
  <2>1. t < spawned
    BY <1>1, Chunks, StartupAssumption DEF MainInv, AnyThread
  <2>2. \A u \in AnyThread : u >= spawned => wpc'[u] = "unborn"
    BY <1>1, <2>1 DEF MainInv
  <2>3. \A u \in AnyThread : u < joined => wpc'[u] = "ended"
    BY <1>1 DEF MainInv
  <2> QED
    BY <1>2, <2>2, <2>3 DEF MainInv, Running
<1>6. SocketInv'
  <2> SUFFICES ASSUME NEW s \in sockets'
               PROVE  /\ \E k \in 0..(made'[s[1]] - 1) : s[2] = PortAt(s[1], k)'
                      /\ \/ wpc'[s[1]] \in Alive
                         \/ /\ wpc'[s[1]] = "ended" /\ conf.runtime = "glommio"
                            /\ result[s[1]] = "err"
    BY DEF SocketInv
  <2>0. \A u, k : PortAt(u, k)' = PortAt(u, k)
    BY DEF PortAt
  <2>1. CASE s = <<t, NextPort(t)>>
    <3>1. made[t] \in 0..(made'[t] - 1)
      BY <1>1
    <3> QED
      BY <1>1, <1>3, <2>0, <2>1, <3>1 DEF Alive
  <2>2. CASE s \in sockets
    <3>1. s[1] \in AnyThread /\ made[s[1]] \in Nat
      BY <2>2 DEF TypeInv, TypeOK
    <3>2. PICK k \in 0..(made[s[1]] - 1) : s[2] = PortAt(s[1], k)
      BY <2>2 DEF SocketInv
    <3>3. k \in 0..(made'[s[1]] - 1)
      BY <1>1, <3>1
    <3>4. \/ wpc'[s[1]] \in Alive
          \/ wpc'[s[1]] = "ended" /\ conf.runtime = "glommio" /\ result[s[1]] = "err"
      BY <1>1, <2>2, <3>1 DEF SocketInv, Alive
    <3> QED
      BY <2>0, <3>2, <3>3, <3>4
  <2> QED
    BY <1>1, <2>1, <2>2
<1>7. \A u \in AnyThread : ThreadInv(u)'
  <2> TAKE u \in AnyThread
  <2>1. CASE u # t
    BY <1>1, <2>1, SameThread
  <2>2. CASE u = t
    <3>1. ThreadInv(t) /\ \A k : PortAt(t, k)' = PortAt(t, k)
      BY <1>1 DEF PortAt
    <3>2. made'[t] <= chunks[t].size
      BY <1>1, <1>2
    <3>3. ASSUME NEW k \in 0..(made'[t] - 1)
          PROVE  /\ PortAt(t, k) \notin conf.broken
                 /\ mainpc \in {"spawn", "join"} => <<t, PortAt(t, k)>> \in sockets'
      <4>1. k = made[t] \/ k \in 0..(made[t] - 1)
        BY <1>1
      <4> QED
        BY <1>1, <1>3, <4>1 DEF ThreadInv, Alive
    <3> QED
      BY <1>1, <2>2, <3>1, <3>2, <3>3 DEF ThreadInv, SetupFirst, SetupLast
  <2> QED
    BY <2>1, <2>2
<1>8. \A c \in Connections : ConnInv(conns[c])'
  BY <1>1 DEF ConnInv, Holding
<1> QED
  BY <1>4, <1>5, <1>6, <1>7, <1>8

(***************************************************************************)
(* The listeners that the thread had made are closed, but for glommio's:   *)
(* those stay, and it has returned an error.                               *)
(***************************************************************************)
LEMMA FailKeeps ==
  ASSUME IInv, BalanceInv, Running, NEW t \in AnyThread, ListenerFails(t)
  PROVE  IInv'
<1> DEFINE e == IF conf.runtime \in ReturnError THEN "err" ELSE "ok"
<1>1. /\ wpc[t] = "bind" /\ made[t] \in Nat /\ made[t] < chunks[t].size
      /\ End(t, e) /\ Close(ClosedOnError(t))
      /\ UNCHANGED <<balanceVars, mainVars, made>>
      /\ CannotListen(t)
  BY DEF IInv, TypeInv, TypeOK, ListenerFails
<1>2. chunks[t].size \in Nat /\ chunks[t].from \in Nat
  BY <1>1, Chunks
<1>3. MayEnd(t)
  <2>1. CASE Exhausted
    BY <1>1, <2>1, RefusedListener DEF MayEnd
  <2>2. CASE NextPort(t) \in conf.broken
    <3>1. made[t] \in 0..(chunks[t].size - 1) /\ PortAt(t, made[t]) \in conf.broken
      BY <1>1, <1>2, <2>2 DEF NextPort, PortAt
    <3> QED
      BY <3>1 DEF MayEnd
  <2> QED
    BY <1>1, <2>1, <2>2 DEF CannotListen
<1>4. \/ ClosedOnError(t) = Own(t)
      \/ ClosedOnError(t) = {} /\ conf.runtime = "glommio" /\ e = "err"
  BY DEF ClosedOnError, ReturnError
<1>5. e \in {"ok", "err"}
  OBVIOUS
<1> HIDE DEF e
<1> QED
  BY <1>1, <1>3, <1>4, <1>5, ThreadEnds
-----------------------------------------------------------------------------
(***************************************************************************)
(* One connection becomes y, and nothing else changes.                     *)
(***************************************************************************)
LEMMA ConnMoves ==
  ASSUME IInv, NEW c \in Connections, NEW y \in Connection, ConnInv(y),
         conns' = [conns EXCEPT ![c] = y],
         UNCHANGED <<balanceVars, mainVars, wpc, result, made, sockets>>
  PROVE  IInv'
<1> USE DEF IInv, balanceVars, mainVars
<1>1. TypeInv'
  BY DEF TypeInv, TypeOK
<1>2. MainInv' /\ SocketInv'
  BY SamePanic DEF MainInv, SocketInv, PortAt
<1>3. \A t \in AnyThread : ThreadInv(t)'
  BY SameThread
<1>4. \A d \in Connections : ConnInv(conns[d])'
  <2> TAKE d \in Connections
  <2>1. conns'[d] = y \/ conns'[d] = conns[d]
    BY DEF TypeInv, TypeOK
  <2> QED
    BY <2>1 DEF ConnInv, Holding
<1> QED
  BY <1>1, <1>2, <1>3, <1>4

LEMMA StateMoves ==
  ASSUME IInv, NEW c \in Connections, NEW s \in ConnStates, SetState(c, s),
         UNCHANGED <<balanceVars, mainVars, wpc, result, made, sockets>>,
         ConnInv([conns[c] EXCEPT !.state = s])
  PROVE  IInv'
<1> DEFINE y == [conns[c] EXCEPT !.state = s]
<1>1. conns[c] \in Connection
  BY DEF IInv, TypeInv, TypeOK
<1>2. y \in Connection
  BY <1>1 DEF Connection
<1>3. conns' = [conns EXCEPT ![c] = y]
  BY DEF SetState
<1> QED
  BY <1>2, <1>3, ConnMoves

(***************************************************************************)
(* Every field of a connection but its state is kept.                      *)
(***************************************************************************)
LEMMA WithState ==
  ASSUME NEW x \in Connection, NEW s \in ConnStates
  PROVE  LET y == [x EXCEPT !.state = s]
         IN  y.state = s /\ y.thread = x.thread /\ y.port = x.port /\ y.client = x.client
BY DEF Connection

LEMMA SessionStates ==
  ASSUME NEW o, NEW k
  PROVE  Session(o, k) \in {"served", "failed", "ignored"} /\ Session(o, k) \in ConnStates
BY DEF Session, ConnStates, Holding

LEMMA AcceptKeeps ==
  ASSUME IInv, BalanceInv, Running, NEW t \in AnyThread, Accept(t)
  PROVE  IInv'
<1>1. PICK c \in QueuedOn(t) :
        IF Unregistered /\ OnHyper(conf)
          THEN Abort
          ELSE SetState(c, "open") /\ UNCHANGED <<mainVars, wpc, result, made, sockets>>
  BY DEF Accept
<1>2. /\ wpc[t] = "accept" /\ UNCHANGED balanceVars
      /\ c \in Connections /\ conns[c].state = "queued" /\ conns[c].thread = t
      /\ conns[c] \in Connection /\ ConnInv(conns[c])
  BY <1>1 DEF Accept, QueuedOn, IInv, TypeInv, TypeOK
<1>3. mainpc \notin {"options", "refused"} /\ mainpc \in {"spawn", "join"}
  BY <1>2, Chunks DEF Running, IInv, TypeInv, TypeOK
<1>4. CASE Abort /\ Unregistered
  BY <1>2, <1>3, <1>4, AbortKeeps DEF MayPanic
<1>5. CASE SetState(c, "open") /\ UNCHANGED <<mainVars, wpc, result, made, sockets>>
  <2> DEFINE y == [conns[c] EXCEPT !.state = "open"]
  <2>1. "open" \in ConnStates
    BY DEF ConnStates, Holding
  <2>2. /\ y.state = "open" /\ y.thread = conns[c].thread
        /\ y.port = conns[c].port /\ y.client = conns[c].client
    BY <1>2, <2>1, WithState
  <2> HIDE DEF y
  <2>3. ConnInv(y)
    BY <1>2, <1>3, <2>2 DEF ConnInv, Holding
  <2> QED
    BY <1>2, <1>5, <2>1, <2>3, StateMoves DEF y
<1> QED
  BY <1>1, <1>4, <1>5

LEMMA TasksKeep ==
  ASSUME IInv, BalanceInv, Running, NEW c \in Connections, Begin(c) \/ Leave(c)
  PROVE  IInv'
<1>1. conns[c] \in Connection /\ ConnInv(conns[c]) /\ conns[c].state \in {"open", "left"}
  BY DEF IInv, TypeInv, TypeOK, Begin, Leave
<1>2. mainpc \in {"spawn", "join"} /\ UNCHANGED balanceVars
  BY <1>1 DEF ConnInv, Holding, Begin, Leave
<1>3. CASE Abort /\ Unregistered
  BY <1>2, <1>3, AbortKeeps DEF MayPanic
<1>4. CASE /\ Begin(c) /\ SetState(c, Session(conf, conns[c].client))
           /\ UNCHANGED <<mainVars, wpc, result, made, sockets>>
  <2> DEFINE s == Session(conf, conns[c].client)
             y == [conns[c] EXCEPT !.state = s]
  <2>1. s \in {"served", "failed", "ignored"} /\ s \in ConnStates
    BY SessionStates
  <2>2. /\ y.state = s /\ y.thread = conns[c].thread
        /\ y.port = conns[c].port /\ y.client = conns[c].client
    BY <1>1, <2>1, WithState
  <2>3. y.state = Session(conf, y.client)
    BY <2>2
  <2> HIDE DEF y, s
  <2>4. ConnInv(y)
    BY <1>1, <1>2, <1>4, <2>1, <2>2, <2>3 DEF ConnInv, Holding, Begin
  <2> QED
    BY <1>2, <1>4, <2>1, <2>4, StateMoves DEF y, s
<1>5. CASE Leave(c)
  <2> DEFINE y == [conns[c] EXCEPT !.state = "closed"]
  <2>1. "closed" \in ConnStates
    BY DEF ConnStates
  <2>2. y.state = "closed"
    BY <1>1, <2>1, WithState
  <2> HIDE DEF y
  <2>3. ConnInv(y)
    BY <2>2 DEF ConnInv, Holding
  <2>4. SetState(c, "closed") /\ UNCHANGED <<balanceVars, mainVars, wpc, result, made, sockets>>
    BY <1>5 DEF Leave
  <2> QED
    BY <2>1, <2>3, <2>4, StateMoves DEF y
<1> QED
  BY <1>3, <1>4, <1>5 DEF Begin

LEMMA ClientKeeps ==
  ASSUME IInv, BalanceInv, Client
  PROVE  IInv'
<1>1. PICK c \in Connections :
        HangUp(c) \/ Request(c) \/ \E p \in 0..(conf.ports - 1) : Connect(c, p) \/ Refuse(c, p)
  BY DEF Client
<1>2. conns[c] \in Connection /\ ConnInv(conns[c]) /\ conns \in [Connections -> Connection]
  BY DEF IInv, TypeInv, TypeOK
<1>3. CASE HangUp(c)
  <2> DEFINE y == [conns[c] EXCEPT !.state = "left"]
  <2>1. "left" \in ConnStates /\ conns[c].state \in {"open", "served", "ignored"}
    BY <1>3 DEF ConnStates, Holding, HangUp
  <2>2. /\ y.state = "left" /\ y.thread = conns[c].thread
        /\ y.port = conns[c].port /\ y.client = conns[c].client
    BY <1>2, <2>1, WithState
  <2> HIDE DEF y
  <2>3. ConnInv(y)
    BY <1>2, <2>1, <2>2 DEF ConnInv, Holding
  <2>4. SetState(c, "left") /\ UNCHANGED <<balanceVars, mainVars, wpc, result, made, sockets>>
    BY <1>3 DEF HangUp
  <2> QED
    BY <2>1, <2>3, <2>4, StateMoves DEF y
<1>4. ASSUME NEW p \in 0..(conf.ports - 1), Connect(c, p) PROVE IInv'
  <2>1. PICK s \in sockets, k \in conf.clients :
          /\ s[2] = p
          /\ conns' = [conns EXCEPT ![c] =
                         [state |-> "queued", thread |-> s[1], port |-> p, client |-> k]]
    BY <1>4 DEF Connect
  <2> DEFINE y == [state |-> "queued", thread |-> s[1], port |-> p, client |-> k]
  <2>2. s \in AnyThread \X (0..(conf.ports - 1)) /\ s = <<s[1], s[2]>> /\ k \in ClientKinds /\ p \in Nat
    BY StartupAssumption, Chunks DEF IInv, TypeInv, TypeOK
  <2>3. y \in Connection
    BY <2>2 DEF Connection, ConnStates
  <2>4. ConnInv(y)
    BY <2>1, <2>2 DEF ConnInv, Holding
  <2>5. UNCHANGED <<balanceVars, mainVars, wpc, result, made, sockets>>
    BY <1>4 DEF Connect
  <2> QED
    BY <2>1, <2>3, <2>4, <2>5, ConnMoves
<1>5. ASSUME NEW p \in 0..(conf.ports - 1), Refuse(c, p) PROVE IInv'
  <2> DEFINE y == [[conns[c] EXCEPT !.state = "refused"] EXCEPT !.port = p]
  <2>1. p \in Nat
    BY Chunks
  <2>2. y \in Connection /\ y.state = "refused"
    BY <1>2, <2>1 DEF Connection, ConnStates
  <2>3. conns' = [conns EXCEPT ![c] = y]
    BY <1>2, <1>5 DEF Refuse
  <2> HIDE DEF y
  <2>4. ConnInv(y)
    BY <2>2 DEF ConnInv, Holding
  <2>5. UNCHANGED <<balanceVars, mainVars, wpc, result, made, sockets>>
    BY <1>5 DEF Refuse
  <2> QED
    BY <2>2, <2>3, <2>4, <2>5, ConnMoves
<1>6. CASE Request(c)
  <2>1. /\ conns[c].state = "served" /\ SleepPanics(conf) /\ Abort /\ UNCHANGED balanceVars
    BY <1>6 DEF Request
  <2>2. mainpc \in {"spawn", "join"}
    BY <1>2, <2>1 DEF ConnInv, Holding
  <2> QED
    BY <2>1, <2>2, AbortKeeps DEF MayPanic
<1> QED
  BY <1>1, <1>3, <1>4, <1>5, <1>6
-----------------------------------------------------------------------------
LEMMA SameAgain == ASSUME IInv, UNCHANGED vars PROVE IInv'
<1> USE DEF vars, balanceVars, mainVars, workerVars, IInv
<1>1. TypeInv' /\ SocketInv'
  BY DEF TypeInv, TypeOK, SocketInv, PortAt
<1>2. MainInv'
  BY SamePanic DEF MainInv
<1>3. \A t \in AnyThread : ThreadInv(t)'
  BY SameThread
<1>4. \A c \in Connections : ConnInv(conns[c])'
  BY DEF ConnInv
<1> QED
  BY <1>1, <1>2, <1>3, <1>4

(***************************************************************************)
(* IInv holds always: each step keeps it, given what PortBalance promises. *)
(***************************************************************************)
THEOREM Invariance == Safe => []IInv
<1>1. Init => IInv
  BY Started
<1>2. IInv /\ BalanceInv /\ [Next]_vars => IInv'
  <2> SUFFICES ASSUME IInv, BalanceInv, [Next]_vars PROVE IInv'
    OBVIOUS
  <2>1. CASE Running /\ Main
    BY <2>1, MainKeeps, SpawnKeeps, ReturnKeeps DEF Main
  <2>2. CASE \E t \in AnyThread : Worker(t)
    <3>1. PICK t \in AnyThread : Worker(t)
      BY <2>2
    <3>2. Running
      BY <3>1 DEF Worker
    <3>3. CASE Setup(t) \/ SetupFails(t)
      BY <3>2, <3>3, SetupKeeps
    <3>4. CASE CreateListener(t)
      BY <3>2, <3>4, CreateKeeps
    <3>5. CASE ListenerFails(t)
      BY <3>2, <3>5, FailKeeps
    <3>6. CASE Bound(t)
      BY <3>2, <3>6, BoundKeeps
    <3>7. CASE Accept(t)
      BY <3>2, <3>7, AcceptKeeps
    <3>8. CASE TasksOf(t)
      BY <3>2, <3>8, TasksKeep DEF TasksOf
    <3>9. CASE AcceptFails(t)
      <4>1. UNCHANGED vars
        BY <3>9 DEF AcceptFails
      <4> QED
        BY <4>1, SameAgain
    <3> QED
      BY <3>1, <3>3, <3>4, <3>5, <3>6, <3>7, <3>8, <3>9 DEF Worker
  <2>3. CASE Client
    BY <2>3, ClientKeeps
  <2>4. CASE UNCHANGED vars
    BY <2>4, SameAgain
  <2> QED
    BY <2>1, <2>2, <2>3, <2>4 DEF Next
<1>3. Safe => []BalanceInv
  BY Composition, Inductive, PTL
<1> QED
  BY <1>1, <1>2, <1>3, PTL DEF Safe

(***************************************************************************)
(* Every variable keeps its type.                                          *)
(***************************************************************************)
THEOREM TypeCorrect == Safe => []TypeOK
<1>1. IInv => TypeOK
  BY DEF IInv, TypeInv
<1> QED
  BY <1>1, Invariance, PTL

(***************************************************************************)
(* What is promised of the chunks holds in the running process.            *)
(***************************************************************************)
THEOREM SharedFairly == Safe => [](NeverPanics /\ EveryElementOnce /\ EvenlyShared)
BY Composition, Bounds, Partition, Fairly, FewAreIdle, PTL DEF EvenlyShared

(***************************************************************************)
(* No connection waits on a socket without a thread, but under glommio.    *)
(***************************************************************************)
THEOREM NeverStranded == Safe => []NoneStranded
<1>1. IInv => NoneStranded
  <2> SUFFICES ASSUME IInv, NEW c \in Connections, Stranded(c)
               PROVE  conf.runtime = "glommio" /\ result[conns[c].thread] = "err"
    BY DEF NoneStranded
  <2>1. /\ <<conns[c].thread, conns[c].port>> \in sockets
        /\ wpc[conns[c].thread] = "ended"
    BY DEF Stranded, IInv, ConnInv
  <2> QED
    BY <2>1 DEF IInv, SocketInv, Alive
<1> QED
  BY <1>1, Invariance, PTL

(***************************************************************************)
(* main returns only when every thread has ended, with nobody waiting; and *)
(* a panic has one of the causes that Outlives names: with descriptors for *)
(* everyone, or once every thread has set up, the lack of one is none.     *)
(***************************************************************************)
THEOREM OutlivesItsThreads == Safe => []Outlives
<1>1. IInv /\ BalanceInv => Outlives
  <2> SUFFICES ASSUME IInv, BalanceInv PROVE Outlives
    OBVIOUS
  <2>1. ASSUME mainpc = "returned", NEW t \in Threads PROVE wpc[t] = "ended"
    <3>1. t \in AnyThread /\ t < joined /\ conf.threads \in Nat
      BY <2>1, Chunks DEF Threads, IInv, MainInv
    <3> QED
      BY <3>1 DEF IInv, MainInv
  <2>2. ASSUME mainpc = "returned", NEW c \in Connections
        PROVE  conns[c].state \notin Holding \cup {"queued"}
    BY <2>2 DEF IInv, MainInv, ConnInv
  <2>3. mainpc = "aborted" => MayPanic
    BY DEF IInv, MainInv
  <2> QED
    BY <2>1, <2>2, <2>3 DEF Outlives, MayPanic
<1>2. Safe => []BalanceInv
  BY Composition, Inductive, PTL
<1> QED
  BY <1>1, <1>2, Invariance, PTL

(***************************************************************************)
(* A thread listens on all its ports or on none; and on none only for a    *)
(* port that cannot be bound, a ring that is refused, or want of           *)
(* descriptors in a process that may not have as many as it demands.       *)
(***************************************************************************)
THEOREM ChunksFailAlone == Safe => []OnlyChunksFail
<1>1. IInv /\ BalanceInv => OnlyChunksFail
  <2> SUFFICES ASSUME IInv, BalanceInv, Settled, NEW t \in Threads
               PROVE  IF wpc[t] = "accept"
                        THEN /\ PortsOf(t) # {} /\ PortsOf(t) \cap conf.broken = {}
                             /\ \A p \in PortsOf(t) : <<t, p>> \in sockets
                        ELSE \/ PortsOf(t) = {} \/ PortsOf(t) \cap conf.broken # {}
                             \/ RingRefused \/ Scarce
    BY DEF OnlyChunksFail
  <2>1. /\ mainpc = "join" /\ wpc[t] \in {"accept", "ended"}
        /\ t \in AnyThread /\ chunks[t].from \in Nat /\ chunks[t].size \in Nat
        /\ ThreadInv(t)
    BY Chunks DEF Settled, IInv
  <2>2. \A p : p \in PortsOf(t) <=> \E k \in 0..(chunks[t].size - 1) : p = PortAt(t, k)
    BY <2>1, PortsAre
  <2>3. CASE wpc[t] = "accept"
    <3>1. made[t] = chunks[t].size /\ made[t] > 0
      BY <2>1, <2>3 DEF ThreadInv
    <3>2. \A k \in 0..(chunks[t].size - 1) :
            PortAt(t, k) \notin conf.broken /\ <<t, PortAt(t, k)>> \in sockets
      BY <2>1, <2>3, <3>1 DEF ThreadInv, Alive
    <3>3. PortAt(t, 0) \in PortsOf(t)
      BY <2>1, <2>2, <3>1
    <3> QED
      BY <2>2, <2>3, <3>2, <3>3
  <2>4. CASE wpc[t] = "ended"
    <3>1. MayEnd(t)
      BY <2>1, <2>4 DEF ThreadInv
    <3>2. chunks[t].size = 0 => PortsOf(t) = {}
      BY <2>1, <2>2
    <3> QED
      BY <2>2, <2>4, <3>1, <3>2 DEF MayEnd
  <2> QED
    BY <2>1, <2>3, <2>4
<1>2. Safe => []BalanceInv
  BY Composition, Inductive, PTL
<1> QED
  BY <1>1, <1>2, Invariance, PTL
-----------------------------------------------------------------------------
(***************************************************************************)
(* What main does not refuse, the server speaks: the protocol asked for,   *)
(* to whoever offers it over the transport asked for.                      *)
(***************************************************************************)
LEMMA SpokenAsAsked ==
  ASSUME NEW k \in ClientKinds, IsOptions(conf), ~Refused(conf),
         AskedTls => conf.runtime = "tokio",
         ~k.tls => \E p \in k.offers : k.offers = {p}
  PROVE  Session(conf, k) = "served" <=> (k.tls = AskedTls /\ AskedProtocol \in Offers(k))
<1>1. OnHyper(conf) \/ "http2" \notin conf.asks
  BY DEF Refused, OnHyper, Server
<1>2. Protocol(conf) = AskedProtocol
  BY <1>1 DEF Protocol, AskedProtocol
<1>3. UsesTls(conf) = AskedTls
  BY DEF UsesTls, AskedTls, Server
<1>4. /\ k.tls \in BOOLEAN /\ k.offers \subseteq {"h2", "http/1.1"}
      /\ AskedTls \in BOOLEAN
  BY DEF ClientKinds, AskedTls
<1>5. Spoken(conf, k) = AskedProtocol <=> AskedProtocol \in Offers(k)
  <2>1. CASE ~k.tls
    <3>1. PICK p \in k.offers : k.offers = {p}
      BY <2>1
    <3>2. Spoken(conf, k) = p
      BY <2>1, <3>1 DEF Spoken
    <3> QED
      BY <3>1, <3>2 DEF Offers
  <2>2. CASE k.tls /\ k.offers = {}
    <3>1. Spoken(conf, k) = "http/1.1"
      BY <2>2 DEF Spoken
    <3> QED
      BY <2>2, <3>1 DEF Offers, AskedProtocol
  <2>3. CASE k.tls /\ k.offers # {} /\ Negotiable(conf, k) = {}
    <3>1. Spoken(conf, k) = "none"
      BY <2>3 DEF Spoken
    <3>2. DOMAIN AlpnProtocols(conf) = IF "http2" \in conf.asks THEN 1..2 ELSE 1..1
      BY DEF AlpnProtocols
    <3>3. 1 \in DOMAIN AlpnProtocols(conf) /\ AlpnProtocols(conf)[1] = AskedProtocol
      BY <3>2 DEF AlpnProtocols, AskedProtocol
    <3> QED
      BY <2>3, <3>1, <3>3 DEF Negotiable, Offers, AskedProtocol
  <2>4. CASE k.tls /\ k.offers # {} /\ Negotiable(conf, k) # {}
    <3> DEFINE i0 == CHOOSE j \in Negotiable(conf, k) :
                       \A l \in Negotiable(conf, k) : j <= l
    <3>1. Spoken(conf, k) = AlpnProtocols(conf)[i0]
      BY <2>4 DEF Spoken
    <3>2. Negotiable(conf, k) \subseteq 1..2
      BY DEF Negotiable, AlpnProtocols
    <3>3. i0 \in Negotiable(conf, k) /\ \A l \in Negotiable(conf, k) : i0 <= l
      <4>1. \E j \in Negotiable(conf, k) : \A l \in Negotiable(conf, k) : j <= l
        BY <2>4, <3>2
      <4> QED
        BY <4>1
    <3> HIDE DEF i0
    <3>4. /\ AlpnProtocols(conf)[1] = AskedProtocol
          /\ 1 \in DOMAIN AlpnProtocols(conf)
          /\ 2 \in DOMAIN AlpnProtocols(conf) =>
               AskedProtocol = "h2" /\ AlpnProtocols(conf)[2] = "http/1.1"
      BY DEF AlpnProtocols, AskedProtocol
    <3>5. CASE AskedProtocol \in k.offers
      <4>1. 1 \in Negotiable(conf, k)
        BY <3>4, <3>5 DEF Negotiable
      <4>2. i0 = 1
        BY <3>2, <3>3, <4>1
      <4> QED
        BY <2>4, <3>1, <3>4, <3>5, <4>2 DEF Offers
    <3>6. CASE AskedProtocol \notin k.offers
      <4>1. i0 # 1
        BY <3>3, <3>4, <3>6 DEF Negotiable
      <4>2. i0 = 2 /\ 2 \in DOMAIN AlpnProtocols(conf)
        BY <3>2, <3>3, <4>1 DEF Negotiable
      <4> QED
        BY <2>4, <3>1, <3>4, <3>6, <4>2 DEF Offers
    <3> QED
      BY <3>5, <3>6
  <2> QED
    BY <1>4, <2>1, <2>2, <2>3, <2>4
<1> QED
  BY <1>2, <1>3, <1>5 DEF Session

(***************************************************************************)
(* A connection is served exactly when the client offers what the command  *)
(* line asks for.                                                          *)
(***************************************************************************)
THEOREM AsAsked == Safe => []ServedAsAsked
<1>1. IInv => ServedAsAsked
  <2> SUFFICES ASSUME IInv, NEW c \in Connections, AskedTls => conf.runtime = "tokio",
                      conns[c].state \in {"served", "failed", "ignored"}
               PROVE  LET k == conns[c].client
                          agreed == k.tls = AskedTls /\ AskedProtocol \in Offers(k)
                      IN  /\ conns[c].state = "served" => agreed
                          /\ conns[c].state \in {"failed", "ignored"} => ~agreed
    BY DEF ServedAsAsked
  <2>1. /\ conns[c].client \in conf.clients /\ conf \in Scenarios
        /\ conns[c].client \in ClientKinds
        /\ conns[c].state = Session(conf, conns[c].client)
        /\ mainpc \notin {"options", "refused"}
    BY DEF IInv, TypeInv, TypeOK, ConnInv, Connection, Holding
  <2>2. /\ ~Refused(conf) /\ IsOptions(conf)
        /\ ~conns[c].client.tls =>
             \E p \in conns[c].client.offers : conns[c].client.offers = {p}
    BY <2>1, StartupAssumption DEF IInv, MainInv
  <2>3. Session(conf, conns[c].client) = "served" <=>
          (conns[c].client.tls = AskedTls /\ AskedProtocol \in Offers(conns[c].client))
    BY <2>1, <2>2, SpokenAsAsked
  <2> QED
    BY <2>1, <2>3
<1> QED
  BY <1>1, Invariance, PTL
-----------------------------------------------------------------------------
(***************************************************************************)
(* A thread that is setting up always has its next step to take, and one   *)
(* that accepts has one as long as a connection is queued for it.          *)
(***************************************************************************)
ThreadGoesOn(t) == wpc[t] \in {"setup", "bind"} \/ (wpc[t] = "accept" /\ QueuedOn(t) # {})

(***************************************************************************)
(* What the two liveness properties rest on but for fairness: a connection *)
(* that is queued has a thread, in a running process, with a step to take, *)
(* unless it is stranded; and one whose client has left is closed by its   *)
(* thread's next step but for connections that are accepted before.        *)
(***************************************************************************)
NoneForgotten ==
  \A c \in Connections :
    /\ conns[c].state = "queued" /\ ~Stranded(c) =>
         Running /\ conns[c].thread \in AnyThread /\ ThreadGoesOn(conns[c].thread)
    /\ conns[c].state = "left" =>
         /\ Running /\ conns[c].thread \in AnyThread /\ wpc[conns[c].thread] = "accept"
         /\ TasksRun(conns[c].thread) \/ ThreadGoesOn(conns[c].thread)

(***************************************************************************)
(* NoneForgotten always holds: a socket that listens has a thread that is  *)
(* on its way to accept, and what is held, one that accepts.               *)
(***************************************************************************)
THEOREM NoneIsForgotten == Safe => []NoneForgotten
<1>1. ASSUME IInv, BalanceInv PROVE NoneForgotten
  <2> SUFFICES ASSUME NEW c \in Connections
               PROVE  /\ conns[c].state = "queued" /\ ~Stranded(c) =>
                           /\ Running /\ conns[c].thread \in AnyThread
                           /\ ThreadGoesOn(conns[c].thread)
                      /\ conns[c].state = "left" =>
                           /\ Running /\ conns[c].thread \in AnyThread
                           /\ wpc[conns[c].thread] = "accept"
                           /\ TasksRun(conns[c].thread) \/ ThreadGoesOn(conns[c].thread)
    BY DEF NoneForgotten
  <2>1. ConnInv(conns[c])
    BY <1>1 DEF IInv
  <2>2. ASSUME conns[c].state = "queued", ~Stranded(c)
        PROVE  Running /\ conns[c].thread \in AnyThread /\ ThreadGoesOn(conns[c].thread)
    <3> DEFINE t == conns[c].thread
    <3>1. <<t, conns[c].port>> \in sockets
      BY <2>1, <2>2 DEF ConnInv
    <3>2. t \in AnyThread /\ wpc[t] \in Alive
      BY <1>1, <2>2, <3>1 DEF IInv, TypeInv, TypeOK, SocketInv, Stranded
    <3>3. mainpc \notin {"options", "refused"}
      BY <1>1, <3>2, Chunks DEF Alive
    <3>4. mainpc \notin {"returned", "aborted"}
      BY <1>1, <3>1 DEF IInv, MainInv
    <3>5. c \in QueuedOn(t)
      BY <2>2 DEF QueuedOn
    <3> QED BY <3>2, <3>3, <3>4, <3>5 DEF Running, ThreadGoesOn, Alive
  <2>3. ASSUME conns[c].state = "left"
        PROVE  /\ Running /\ conns[c].thread \in AnyThread /\ wpc[conns[c].thread] = "accept"
               /\ TasksRun(conns[c].thread) \/ ThreadGoesOn(conns[c].thread)
    BY <2>1, <2>3 DEF ConnInv, Holding, Running, TasksRun, ThreadGoesOn
  <2> QED BY <2>2, <2>3
<1> QED
  BY <1>1, Invariance, Composition, Inductive, PTL

(***************************************************************************)
(* Onward(t): a state that thread t, if it can go on, may bring about next.*)
(* Without a descriptor to spare its accept fails, and nothing changes.    *)
(***************************************************************************)
Dead ==
  <<balanceVars, <<"aborted", spawned, joined>>,
    <<wpc, result, made, {},
      [c \in Connections |->
         IF conns[c].state \in Holding \cup {"queued"}
           THEN [conns[c] EXCEPT !.state = "reset"] ELSE conns[c]]>>>>

Moved(t, where) ==
  <<balanceVars, mainVars, <<[wpc EXCEPT ![t] = where], result, made, sockets, conns>>>>

Ended(t, r) ==
  <<balanceVars, mainVars,
    <<[wpc EXCEPT ![t] = "ended"], [result EXCEPT ![t] = r], made, sockets, conns>>>>
Listening(t) == IF made[t] = 0 THEN Ended(t, "ok") ELSE Moved(t, "accept")

Closing(t, r, closed) ==
  <<balanceVars, mainVars,
    <<[wpc EXCEPT ![t] = "ended"], [result EXCEPT ![t] = r], made, sockets \ closed,
      [c \in Connections |->
         IF conns[c].state = "queued" /\ <<conns[c].thread, conns[c].port>> \in closed
           THEN [conns[c] EXCEPT !.state = "reset"] ELSE conns[c]]>>>>

Created(t) ==
  <<balanceVars, mainVars,
    <<[wpc EXCEPT ![t] = IF conf.runtime = "smol" /\ made[t] = 0 THEN "setup" ELSE "bind"],
      result, [made EXCEPT ![t] = @ + 1], sockets \cup {<<t, NextPort(t)>>}, conns>>>>

OnwardSetup(t) ==
  IF RingRefused \/ SetupShort
    THEN IF UnwrapsSetup THEN Dead ELSE Closing(t, "err", Own(t))
    ELSE IF SetupLast THEN Listening(t) ELSE Moved(t, "bind")

OnwardBind(t) ==
  IF made[t] = chunks[t].size
    THEN IF SetupLast THEN Moved(t, "setup") ELSE Listening(t)
  ELSE IF CannotListen(t)
    THEN Closing(t, IF conf.runtime \in ReturnError THEN "err" ELSE "ok", ClosedOnError(t))
  ELSE Created(t)

Onward(t) ==
  IF wpc[t] = "setup" THEN OnwardSetup(t)
  ELSE IF wpc[t] = "bind" THEN OnwardBind(t)
  ELSE IF Exhausted THEN vars
  ELSE IF Unregistered /\ OnHyper(conf) THEN Dead
  ELSE <<balanceVars, mainVars,
         <<wpc, result, made, sockets,
           [conns EXCEPT ![CHOOSE c \in QueuedOn(t) : TRUE].state = "open"]>>>>

(***************************************************************************)
(* These states come of the parts of a thread's steps.                     *)
(***************************************************************************)
LEMMA DeadIs ==
  ASSUME vars' = Dead
  PROVE  Abort /\ UNCHANGED balanceVars
BY DEF vars, mainVars, workerVars, Dead, Abort

LEMMA MovedIs ==
  ASSUME NEW t, NEW where, vars' = Moved(t, where)
  PROVE  /\ wpc' = [wpc EXCEPT ![t] = where]
         /\ UNCHANGED <<balanceVars, mainVars, result, made, sockets, conns>>
BY DEF vars, workerVars, Moved

LEMMA EndedIs ==
  ASSUME NEW t, NEW r, vars' = Ended(t, r)
  PROVE  End(t, r) /\ UNCHANGED <<balanceVars, mainVars, made, sockets, conns>>
BY DEF vars, workerVars, Ended, End

LEMMA ClosingIs ==
  ASSUME NEW t, NEW r, NEW closed, vars' = Closing(t, r, closed)
  PROVE  End(t, r) /\ Close(closed) /\ UNCHANGED <<balanceVars, mainVars, made>>
BY DEF vars, workerVars, Closing, End, Close

LEMMA ListeningIs ==
  ASSUME NEW t, vars' = Listening(t)
  PROVE  Listen(t) /\ UNCHANGED <<balanceVars, mainVars, made, sockets, conns>>
<1>1. CASE made[t] = 0
  BY <1>1, EndedIs DEF Listening, Listen
<1>2. CASE made[t] # 0
  BY <1>2, MovedIs DEF Listening, Listen
<1> QED BY <1>1, <1>2

(***************************************************************************)
(* Onward(t) is a step of t: with NoneIsForgotten, a connection that is    *)
(* queued and not stranded always has a thread whose step is enabled.      *)
(***************************************************************************)
THEOREM ThreadMayGoOn ==
  ASSUME IInv, BalanceInv, Running, NEW t \in AnyThread, ThreadGoesOn(t), vars' = Onward(t)
  PROVE  Worker(t)
<1>1. CASE wpc[t] = "setup"
  <2>0. vars' = OnwardSetup(t)
    BY <1>1 DEF Onward
  <2>1. CASE ~RingRefused /\ ~SetupShort /\ ~SetupLast
    <3>1. vars' = Moved(t, "bind")
      BY <2>0, <2>1 DEF OnwardSetup
    <3>2. Setup(t)
      BY <1>1, <2>1, <3>1, MovedIs DEF Setup
    <3> QED BY <3>2 DEF Worker
  <2>2. CASE ~RingRefused /\ ~SetupShort /\ SetupLast
    <3>1. vars' = Listening(t)
      BY <2>0, <2>2 DEF OnwardSetup
    <3>2. Setup(t)
      BY <1>1, <2>2, <3>1, ListeningIs DEF Setup
    <3> QED BY <3>2 DEF Worker
  <2>3. CASE (RingRefused \/ SetupShort) /\ ~UnwrapsSetup
    <3>1. vars' = Closing(t, "err", Own(t))
      BY <2>0, <2>3 DEF OnwardSetup
    <3>2. SetupFails(t)
      BY <1>1, <2>3, <3>1, ClosingIs DEF SetupFails
    <3> QED BY <3>2 DEF Worker
  <2>4. CASE (RingRefused \/ SetupShort) /\ UnwrapsSetup
    <3>1. vars' = Dead
      BY <2>0, <2>4 DEF OnwardSetup
    <3>2. SetupFails(t)
      BY <1>1, <2>4, <3>1, DeadIs DEF SetupFails
    <3> QED BY <3>2 DEF Worker
  <2> QED BY <2>1, <2>2, <2>3, <2>4
<1>2. CASE wpc[t] = "bind"
  <2>0. /\ made[t] \in Nat /\ chunks[t].size \in Nat /\ made[t] <= chunks[t].size
        /\ vars' = OnwardBind(t)
    BY <1>2, Chunks DEF IInv, TypeInv, TypeOK, ThreadInv, Onward
  <2>1. CASE made[t] = chunks[t].size /\ SetupLast
    <3>1. vars' = Moved(t, "setup")
      BY <2>0, <2>1 DEF OnwardBind
    <3>2. Bound(t)
      BY <1>2, <2>1, <3>1, MovedIs DEF Bound
    <3> QED BY <3>2 DEF Worker
  <2>2. CASE made[t] = chunks[t].size /\ ~SetupLast
    <3>1. vars' = Listening(t)
      BY <2>0, <2>2 DEF OnwardBind
    <3>2. Bound(t)
      BY <1>2, <2>2, <3>1, ListeningIs DEF Bound
    <3> QED BY <3>2 DEF Worker
  <2>3. CASE made[t] < chunks[t].size /\ CannotListen(t)
    <3> DEFINE r == IF conf.runtime \in ReturnError THEN "err" ELSE "ok"
    <3>1. vars' = Closing(t, r, ClosedOnError(t))
      BY <2>0, <2>3 DEF OnwardBind
    <3>2. End(t, r) /\ Close(ClosedOnError(t)) /\ UNCHANGED <<balanceVars, mainVars, made>>
      <4> HIDE DEF r
      <4> QED BY <3>1, ClosingIs
    <3>3. ListenerFails(t)
      BY <1>2, <2>3, <3>2 DEF ListenerFails
    <3> QED BY <3>3 DEF Worker
  <2>4. CASE made[t] < chunks[t].size /\ ~CannotListen(t)
    <3>1. vars' = Created(t)
      BY <2>0, <2>4 DEF OnwardBind
    <3>2. CreateListener(t)
      BY <1>2, <2>4, <3>1 DEF Created, CreateListener, vars, workerVars
    <3> QED BY <3>2 DEF Worker
  <2> QED BY <2>0, <2>1, <2>2, <2>3, <2>4
<1>3. CASE wpc[t] = "accept" /\ QueuedOn(t) # {}
  <2>1. CASE Exhausted
    <3>1. AcceptFails(t)
      BY <1>3, <2>1 DEF Onward, AcceptFails
    <3> QED BY <3>1 DEF Worker
  <2>2. CASE ~Exhausted /\ Unregistered /\ OnHyper(conf)
    <3>1. vars' = Dead
      BY <1>3, <2>2 DEF Onward
    <3>2. Accept(t)
      BY <1>3, <2>2, <3>1, DeadIs DEF Accept
    <3> QED BY <3>2 DEF Worker
  <2>3. CASE ~Exhausted /\ ~(Unregistered /\ OnHyper(conf))
    <3> DEFINE c == CHOOSE x \in QueuedOn(t) : TRUE
    <3>1. c \in QueuedOn(t)
      BY <1>3
    <3>2. /\ UNCHANGED <<balanceVars, mainVars, wpc, result, made, sockets>>
          /\ conns' = [conns EXCEPT ![c].state = "open"]
      BY <1>3, <2>3 DEF Onward, vars, workerVars
    <3> HIDE DEF c
    <3>3. SetState(c, "open")
      BY <3>2 DEF SetState
    <3>4. Accept(t)
      BY <1>3, <2>3, <3>1, <3>2, <3>3 DEF Accept
    <3> QED BY <3>4 DEF Worker
  <2> QED BY <2>1, <2>2, <2>3
<1> QED BY <1>1, <1>2, <1>3 DEF ThreadGoesOn
-----------------------------------------------------------------------------
(***************************************************************************)
(* What a thread that was spawned has left to do before it accepts, and    *)
(* how far a connection is from its end.                                   *)
(***************************************************************************)
Sooner == IF SetupLast THEN "bind" ELSE "setup"

ToSetUp(t) ==
  IF wpc[t] \in {"setup", "bind"}
    THEN 2 * (chunks[t].size - made[t]) + IF wpc[t] = Sooner THEN 2 ELSE 1
    ELSE 0

ToGo(c) ==
  CASE conns[c].state = "none" -> 5
    [] conns[c].state = "queued" -> 4
    [] conns[c].state = "open" -> 3
    [] conns[c].state \in {"served", "ignored"} -> 2
    [] conns[c].state = "left" -> 1
    [] conns[c].state \in {"failed", "closed", "refused", "reset"} -> 0

Settling(c) == ToGo(c)' \in Nat /\ ToGo(c)' <= ToGo(c)
Quiet(t) == ToSetUp(t)' \in Nat /\ ToSetUp(t)' <= ToSetUp(t)

(***************************************************************************)
(* ToGo by the state of the connection, before a step and after it.        *)
(***************************************************************************)
LEMMA ToGoFacts ==
  ASSUME NEW c \in Connections
  PROVE  /\ conns[c].state = "none" => ToGo(c) = 5
         /\ conns[c].state = "queued" => ToGo(c) = 4
         /\ conns[c].state = "open" => ToGo(c) = 3
         /\ conns[c].state \in {"served", "ignored"} => ToGo(c) = 2
         /\ conns[c].state = "left" => ToGo(c) = 1
         /\ conns[c].state \in {"failed", "closed", "refused", "reset"} => ToGo(c) = 0
BY DEF ToGo

LEMMA ToGoAfter ==
  ASSUME NEW c \in Connections
  PROVE  /\ conns'[c].state = "none" => ToGo(c)' = 5
         /\ conns'[c].state = "queued" => ToGo(c)' = 4
         /\ conns'[c].state = "open" => ToGo(c)' = 3
         /\ conns'[c].state \in {"served", "ignored"} => ToGo(c)' = 2
         /\ conns'[c].state = "left" => ToGo(c)' = 1
         /\ conns'[c].state \in {"failed", "closed", "refused", "reset"} => ToGo(c)' = 0
BY DEF ToGo

(***************************************************************************)
(* A connection that is as it was, or reset, is no further from its end.   *)
(***************************************************************************)
LEMMA SameOrReset ==
  ASSUME TypeInv, NEW c \in Connections,
         conns'[c] = conns[c] \/ conns'[c].state = "reset"
  PROVE  Settling(c)
<1>1. conns[c].state \in ConnStates
  BY DEF TypeInv, TypeOK, Connection
<1>2. ToGo(c) \in 0..5
  BY <1>1, ToGoFacts DEF ConnStates, Holding
<1>3. ToGo(c)' = ToGo(c) \/ ToGo(c)' = 0
  BY ToGoAfter DEF ToGo
<1> QED BY <1>2, <1>3 DEF Settling

LEMMA StateSet ==
  ASSUME TypeInv, NEW d \in Connections, NEW s, SetState(d, s)
  PROVE  conns'[d].state = s /\ \A c \in Connections : c # d => conns'[c] = conns[c]
BY DEF TypeInv, TypeOK, SetState, Connection

(***************************************************************************)
(* A step forward of one connection, the others staying where they are.    *)
(***************************************************************************)
LEMMA OneAhead ==
  ASSUME TypeInv, NEW d \in Connections, NEW s, SetState(d, s),
         \/ conns[d].state = "queued" /\ s = "open"
         \/ conns[d].state = "open" /\ s \in {"served", "ignored", "failed", "left"}
         \/ conns[d].state \in {"served", "ignored"} /\ s = "left"
         \/ conns[d].state = "left" /\ s = "closed"
         \/ conns[d].state = "none" /\ s = "refused"
  PROVE  (\A c \in Connections : Settling(c)) /\ ToGo(d)' < ToGo(d)
<1>1. conns'[d].state = s /\ \A c \in Connections : c # d => conns'[c] = conns[c]
  BY StateSet
<1>2. Settling(d) /\ ToGo(d)' < ToGo(d)
  BY <1>1, ToGoFacts, ToGoAfter DEF Settling
<1>3. \A c \in Connections : c # d => Settling(c)
  BY <1>1, SameOrReset
<1> QED BY <1>2, <1>3

LEMMA AllReset ==
  ASSUME TypeInv, Abort
  PROVE  /\ \A c \in Connections : Settling(c)
         /\ \A c \in Connections :
              conns[c].state \in Holding \cup {"queued"} => ToGo(c)' < ToGo(c)
<1>1. \A c \in Connections :
        /\ conns'[c] = conns[c] \/ conns'[c].state = "reset"
        /\ conns[c].state \in Holding \cup {"queued"} => conns'[c].state = "reset"
  BY DEF Abort, TypeInv, TypeOK, Connection
<1>2. \A c \in Connections : Settling(c)
  BY <1>1, SameOrReset
<1>3. ASSUME NEW c \in Connections, conns[c].state \in Holding \cup {"queued"}
      PROVE  ToGo(c)' < ToGo(c)
  BY <1>1, <1>3, ToGoFacts, ToGoAfter DEF Holding
<1> QED BY <1>2, <1>3

LEMMA ClosedSettle ==
  ASSUME TypeInv, NEW S, Close(S), NEW c \in Connections
  PROVE  Settling(c)
BY CloseFacts, SameOrReset

(***************************************************************************)
(* A thread that is where it was, or has ended or got to accept.           *)
(***************************************************************************)
LEMMA ThreadSame ==
  ASSUME IInv, BalanceInv, NEW t \in AnyThread, wpc[t] # "unborn",
         UNCHANGED <<conf, chunks>>, made'[t] = made[t],
         wpc'[t] = wpc[t] \/ wpc'[t] \in {"accept", "ended"}
  PROVE  /\ Quiet(t)
         /\ wpc[t] \in {"setup", "bind"} /\ wpc'[t] \in {"accept", "ended"} =>
              ToSetUp(t)' < ToSetUp(t)
<1>1. made[t] \in Nat /\ chunks[t].size \in Nat /\ made[t] <= chunks[t].size
  BY Chunks DEF IInv, TypeInv, TypeOK, ThreadInv
<1>2. Sooner' = Sooner
  BY DEF Sooner, SetupLast
<1>3. ToSetUp(t) \in Nat /\ (wpc[t] \in {"setup", "bind"} => ToSetUp(t) > 0)
  BY <1>1 DEF ToSetUp
<1>4. wpc'[t] = wpc[t] => ToSetUp(t)' = ToSetUp(t)
  BY <1>2 DEF ToSetUp
<1>5. wpc'[t] \in {"accept", "ended"} => ToSetUp(t)' = 0
  BY DEF ToSetUp
<1> QED BY <1>3, <1>4, <1>5 DEF Quiet

(***************************************************************************)
(* AllGoForward, of one step.                                              *)
(***************************************************************************)
LEMMA SettledStep ==
  ASSUME IInv, BalanceInv, Next
  PROVE  /\ \A c \in Connections : Settling(c)
         /\ \A t \in AnyThread : wpc[t] # "unborn" => Quiet(t)
         /\ \A t \in AnyThread : Worker(t) =>
              \/ AcceptFails(t)
              \/ ~Running'
              \/ ToSetUp(t)' < ToSetUp(t)
              \/ \E c \in Connections : ToGo(c)' < ToGo(c)
<1> DEFINE Less(t) == \/ AcceptFails(t) \/ ~Running' \/ ToSetUp(t)' < ToSetUp(t)
                     \/ \E c \in Connections : ToGo(c)' < ToGo(c)
           Down == /\ \A c \in Connections : Settling(c)
                   /\ \A t \in AnyThread : wpc[t] # "unborn" => Quiet(t)
<1>0. TypeInv
  BY DEF IInv
<1>1. ASSUME Running, Main PROVE Down
  <2>1. \A c \in Connections : Settling(c)
    <3>1. conns' = conns \/ Close(sockets)
      BY <1>1 DEF Main, BalanceStep, CheckOptions, Spawn, AllSpawned, Join, Return, workerVars
    <3> QED BY <1>0, <3>1, ClosedSettle, SameOrReset
  <2>2. ASSUME NEW t \in AnyThread, wpc[t] # "unborn" PROVE Quiet(t)
    <3>1. /\ UNCHANGED <<conf, chunks>> /\ made' = made /\ wpc'[t] = wpc[t]
      <4>1. CASE BalanceStep
        <5>1. pc # "done"
          BY <4>1 DEF BalanceStep, Balance, CloneAll, Expand, PushChunk, Shared
        <5> QED BY <2>2, <5>1, Chunks DEF IInv, MainInv
      <4>2. CASE Spawn
        <5>1. wpc[spawned] = "unborn"
          <6>1. spawned \in AnyThread /\ spawned \in Nat
            BY <4>2, Chunks DEF Spawn, Threads
          <6> QED BY <6>1 DEF IInv, MainInv
        <5> QED BY <1>0, <2>2, <4>2, <5>1 DEF Spawn, balanceVars, TypeInv, TypeOK
      <4>3. CASE CheckOptions \/ AllSpawned \/ Join \/ Return
        BY <4>3 DEF CheckOptions, AllSpawned, Join, Return, balanceVars, workerVars
      <4> QED BY <1>1, <4>1, <4>2, <4>3 DEF Main
    <3> QED BY <2>2, <3>1, ThreadSame
  <2> QED BY <2>1, <2>2
<1>2. ASSUME Client PROVE Down
  <2>1. UNCHANGED <<balanceVars, wpc, made>>
    BY <1>2 DEF Client, HangUp, Request, Abort, Connect, Refuse
  <2>2. \A t \in AnyThread : wpc[t] # "unborn" => Quiet(t)
    BY <2>1, ThreadSame DEF balanceVars
  <2>3. PICK d \in Connections :
          HangUp(d) \/ Request(d) \/ \E p \in 0..(conf.ports - 1) : Connect(d, p) \/ Refuse(d, p)
    BY <1>2 DEF Client
  <2>4. CASE HangUp(d)
    BY <1>0, <2>2, <2>4, OneAhead DEF HangUp
  <2>5. CASE \E p \in 0..(conf.ports - 1) : Connect(d, p) \/ Refuse(d, p)
    <3>1. /\ conns[d].state = "none" /\ conns'[d].state \in {"queued", "refused"}
          /\ \A c \in Connections : c # d => conns'[c] = conns[c]
      BY <1>0, <2>5 DEF Connect, Refuse, TypeInv, TypeOK, Connection
    <3>2. Settling(d)
      BY <3>1, ToGoFacts, ToGoAfter DEF Settling
    <3> QED BY <1>0, <2>2, <3>1, <3>2, SameOrReset
  <2>6. CASE Request(d)
    BY <1>0, <2>2, <2>6, AllReset DEF Request
  <2> QED BY <2>3, <2>4, <2>5, <2>6
<1>3. ASSUME NEW t \in AnyThread, Worker(t) PROVE Down /\ Less(t)
  <2>0. UNCHANGED <<conf, chunks>>
    BY <1>3 DEF Worker, Setup, SetupFails, CreateListener, ListenerFails, Bound, Accept,
                AcceptFails, TasksOf, Begin, Leave, vars, balanceVars
  <2>1. CASE Setup(t) \/ SetupFails(t) \/ CreateListener(t) \/ ListenerFails(t) \/ Bound(t)
    <3>1. \A c \in Connections : Settling(c)
      <4>1. conns' = conns \/ Close(ClosedOnError(t)) \/ Close(Own(t)) \/ Abort
        BY <2>1 DEF Setup, SetupFails, CreateListener, ListenerFails, Bound
      <4> QED BY <1>0, <4>1, SameOrReset, ClosedSettle, AllReset
    <3>2. ASSUME NEW u \in AnyThread, u # t, wpc[u] # "unborn" PROVE Quiet(u)
      <4>1. wpc'[u] = wpc[u] /\ made'[u] = made[u]
        BY <1>0, <2>1, <3>2 DEF Setup, SetupFails, CreateListener, ListenerFails, Bound, Listen,
                                End, Abort, TypeInv, TypeOK
      <4> QED BY <2>0, <3>2, <4>1, ThreadSame
    <3>3. Quiet(t) /\ (~Running' \/ ToSetUp(t)' < ToSetUp(t))
      <4>0. wpc[t] \in {"setup", "bind"}
        BY <2>1 DEF Setup, SetupFails, CreateListener, ListenerFails, Bound
      <4>1. made[t] \in Nat /\ chunks[t].size \in Nat /\ made[t] <= chunks[t].size
        BY <4>0, Chunks DEF IInv, TypeInv, TypeOK, ThreadInv
      <4>2. Sooner' = Sooner
        BY <2>0 DEF Sooner, SetupLast
      <4>3. CASE made'[t] = made[t] /\ wpc'[t] \in {"accept", "ended"}
        BY <2>0, <4>0, <4>3, ThreadSame
      <4>4. CASE /\ made'[t] = made[t] /\ wpc[t] = Sooner
                 /\ wpc'[t] \in {"setup", "bind"} /\ wpc'[t] # Sooner
        BY <2>0, <4>0, <4>1, <4>2, <4>4 DEF ToSetUp, Quiet
      <4>5. CASE /\ made'[t] = made[t] + 1 /\ made[t] < chunks[t].size
                 /\ wpc'[t] = wpc[t] \/ (wpc[t] # Sooner /\ wpc'[t] = Sooner)
        <5>1. 2 * (chunks[t].size - made'[t]) = 2 * (chunks[t].size - made[t]) - 2
          BY <4>1, <4>5
        <5>2. 2 * (chunks[t].size - made[t]) \in Nat /\ 2 * (chunks[t].size - made'[t]) \in Nat
          BY <4>1, <4>5
        <5>3. wpc'[t] \in {"setup", "bind"}
          BY <4>0, <4>5 DEF Sooner
        <5> DEFINE a == 2 * (chunks[t].size - made[t])
                   b == 2 * (chunks[t].size - made'[t])
        <5>4. /\ ToSetUp(t) = a + (IF wpc[t] = Sooner THEN 2 ELSE 1)
              /\ ToSetUp(t)' = b + (IF wpc'[t] = Sooner THEN 2 ELSE 1)
          BY <2>0, <4>0, <4>2, <5>3 DEF ToSetUp
        <5>5. a \in Nat /\ b \in Nat /\ b = a - 2
          BY <5>1, <5>2
        <5> HIDE DEF a, b
        <5> QED BY <4>5, <5>4, <5>5 DEF Quiet
      <4>6. CASE Abort
        BY <2>0, <4>0, <4>6, ThreadSame DEF Abort, Running
      <4>7. CASE ~Abort
        <5>1. CASE Setup(t) \/ Bound(t)
          <6>1. \/ wpc' = [wpc EXCEPT ![t] = "ended"] \/ wpc' = [wpc EXCEPT ![t] = "accept"]
                \/ /\ wpc[t] = "setup" /\ ~SetupLast /\ wpc' = [wpc EXCEPT ![t] = "bind"]
                \/ /\ wpc[t] = "bind" /\ SetupLast /\ wpc' = [wpc EXCEPT ![t] = "setup"]
            BY <5>1 DEF Setup, Bound, Listen, End
          <6>2. made' = made
            BY <5>1 DEF Setup, Bound
          <6> QED BY <1>0, <4>3, <4>4, <6>1, <6>2 DEF TypeInv, TypeOK, Sooner
        <5>2. CASE SetupFails(t) \/ ListenerFails(t)
          BY <1>0, <4>3, <4>7, <5>2 DEF SetupFails, ListenerFails, End, TypeInv, TypeOK
        <5>3. CASE CreateListener(t)
          <6>1. made'[t] = made[t] + 1 /\ made[t] < chunks[t].size /\ wpc[t] = "bind"
            BY <1>0, <5>3 DEF CreateListener, TypeInv, TypeOK
          <6>2. wpc'[t] = IF conf.runtime = "smol" /\ made[t] = 0 THEN "setup" ELSE "bind"
            BY <1>0, <5>3 DEF CreateListener, TypeInv, TypeOK
          <6>3. conf.runtime = "smol" => Sooner = "setup"
            BY DEF Sooner, SetupLast
          <6> QED BY <4>5, <6>1, <6>2, <6>3
        <5> QED BY <2>1, <5>1, <5>2, <5>3
      <4> QED BY <4>6, <4>7
    <3> QED BY <3>1, <3>2, <3>3
  <2>2. CASE UNCHANGED <<wpc, made>> /\ \E d \in Connections :
                \/ /\ conns[d].state \in Holding \cup {"queued"} /\ Abort
                \/ conns[d].state = "queued" /\ SetState(d, "open")
                \/ conns[d].state = "open" /\ SetState(d, Session(conf, conns[d].client))
                \/ conns[d].state = "left" /\ SetState(d, "closed")
    <3>1. \A u \in AnyThread : wpc[u] # "unborn" => Quiet(u)
      BY <2>0, <2>2, ThreadSame
    <3>2. PICK d \in Connections :
            \/ /\ conns[d].state \in Holding \cup {"queued"} /\ Abort
            \/ conns[d].state = "queued" /\ SetState(d, "open")
            \/ conns[d].state = "open" /\ SetState(d, Session(conf, conns[d].client))
            \/ conns[d].state = "left" /\ SetState(d, "closed")
      BY <2>2
    <3>3. (\A c \in Connections : Settling(c)) /\ ToGo(d)' < ToGo(d)
      BY <1>0, <3>2, AllReset, OneAhead, SessionStates
    <3> QED BY <3>1, <3>3
  <2>3. CASE AcceptFails(t)
    <3>1. vars' = vars /\ UNCHANGED <<balanceVars, wpc, made, conns>>
      BY <2>3 DEF AcceptFails, vars, workerVars
    <3> QED BY <1>0, <2>0, <2>3, <3>1, ThreadSame, SameOrReset
  <2>4. CASE Accept(t)
    <3>1. PICK d \in QueuedOn(t) :
            IF Unregistered /\ OnHyper(conf) THEN Abort
            ELSE SetState(d, "open") /\ UNCHANGED <<mainVars, wpc, result, made, sockets>>
      BY <2>4 DEF Accept
    <3>2. d \in Connections /\ conns[d].state = "queued" /\ UNCHANGED <<wpc, made>>
      BY <3>1 DEF QueuedOn, Abort
    <3>3. Abort \/ SetState(d, "open")
      BY <3>1
    <3> QED
      <4> HIDE DEF Down, Less
      <4> QED BY <2>2, <3>2, <3>3
  <2>5. CASE TasksOf(t)
    <3>1. PICK d \in Connections : Begin(d) \/ Leave(d)
      BY <2>5 DEF TasksOf
    <3>2. /\ UNCHANGED <<wpc, made>>
          /\ \/ conns[d].state = "open" /\ Abort
             \/ conns[d].state = "open" /\ SetState(d, Session(conf, conns[d].client))
             \/ conns[d].state = "left" /\ SetState(d, "closed")
      BY <3>1 DEF Begin, Leave, Abort
    <3> QED
      <4> HIDE DEF Down, Less
      <4> QED BY <2>2, <3>2 DEF Holding
  <2> QED BY <1>3, <2>1, <2>3, <2>4, <2>5 DEF Worker
<1> QED
  <2> HIDE DEF Down
  <2>1. Down
    BY <1>1, <1>2, <1>3 DEF Next
  <2>2. \A t \in AnyThread : Worker(t) => Less(t)
    BY <1>3
  <2> QED BY <2>1, <2>2 DEF Down

(***************************************************************************)
(* No step of anyone sets a spawned thread back or takes a connection away *)
(* from its end; and each step of a thread brings itself or a connection   *)
(* forward, or ends the process, but for an accept that fails for want of  *)
(* a descriptor.  With NoneIsForgotten and ThreadMayGoOn, this is what the *)
(* liveness properties need besides fairness.                              *)
(***************************************************************************)
THEOREM AllGoForward ==
  Safe => [][/\ \A c \in Connections : ToGo(c)' \in Nat /\ ToGo(c)' <= ToGo(c)
             /\ \A t \in AnyThread : wpc[t] # "unborn" =>
                  ToSetUp(t)' \in Nat /\ ToSetUp(t)' <= ToSetUp(t)
             /\ \A t \in AnyThread : Worker(t) =>
                  \/ AcceptFails(t)
                  \/ ~Running'
                  \/ ToSetUp(t)' < ToSetUp(t)
                  \/ \E c \in Connections : ToGo(c)' < ToGo(c)]_vars
<1>1. IInv /\ BalanceInv /\ [Next]_vars =>
        [/\ \A c \in Connections : ToGo(c)' \in Nat /\ ToGo(c)' <= ToGo(c)
         /\ \A t \in AnyThread : wpc[t] # "unborn" =>
              ToSetUp(t)' \in Nat /\ ToSetUp(t)' <= ToSetUp(t)
         /\ \A t \in AnyThread : Worker(t) =>
              \/ AcceptFails(t)
              \/ ~Running'
              \/ ToSetUp(t)' < ToSetUp(t)
              \/ \E c \in Connections : ToGo(c)' < ToGo(c)]_vars
  BY SettledStep DEF Settling, Quiet
<1> QED
  BY <1>1, Invariance, Composition, Inductive, PTL DEF Safe
=============================================================================
