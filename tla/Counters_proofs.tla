-------------------------- MODULE Counters_proofs --------------------------
(***************************************************************************)
(* What both readers of the counters rely on, proved once for any number   *)
(* of workers and ports: the adds keep their type, nothing goes down, and  *)
(* what the sums over workers and ports say at any moment.                 *)
(***************************************************************************)
EXTENDS Counters, Sums_proofs, SequenceTheorems

-----------------------------------------------------------------------------
(***************************************************************************)
(* The bodies of the two record_ functions are adds.                       *)
(***************************************************************************)
LEMMA RecordType ==
  ASSUME NEW p \in Ports, NEW c \in Counter, NEW b \in Counter, NEW n \in Nat
  PROVE  Record(p, c, b, n) \in Seq(Add)
BY DEF Record, Add

(***************************************************************************)
(* What is left of a call.                                                 *)
(***************************************************************************)
LEMMA LeftNothing == \A to, c : LeftIn(<<>>, to, c) = 0
<1> SUFFICES ASSUME NEW to, NEW c PROVE LeftIn(<<>>, to, c) = 0
  OBVIOUS
<1>1. {i \in DOMAIN <<>> : <<>>[i].to = to /\ <<>>[i].counter = c} = {}
  OBVIOUS
<1> QED BY <1>1, SumEmpty DEF LeftIn

Of(q, to, c) == {i \in DOMAIN q : q[i].to = to /\ q[i].counter = c}
Amounts(q) == [i \in DOMAIN q |-> q[i].n]

LEMMA OfFinite ==
  ASSUME NEW q \in Seq(Add), NEW to, NEW c
  PROVE  /\ IsFiniteSet(Of(q, to, c))
         /\ \A i \in Of(q, to, c) : Amounts(q)[i] \in Nat
<1>1. DOMAIN q = 1..Len(q) /\ Len(q) \in Nat /\ \A i \in 1..Len(q) : q[i] \in Add
  BY LenProperties, ElementOfSeq
<1> DEFINE dom == 1..Len(q)
<1>2. IsFiniteSet(dom)
  BY <1>1, UpToFinite
<1>3. IsFiniteSet(Of(q, to, c))
  <2>1. Of(q, to, c) \in SUBSET dom
    BY <1>1 DEF Of
  <2> HIDE DEF dom
  <2> QED BY <1>2, <2>1, FS_Subset
<1> QED BY <1>1, <1>3 DEF Of, Amounts, Add

LEMMA LeftType ==
  ASSUME NEW q \in Seq(Add), NEW to, NEW c
  PROVE  LeftIn(q, to, c) \in Nat
<1>1. SumOver(Amounts(q), Of(q, to, c)) \in Nat
  BY OfFinite, SumNat
<1> QED BY <1>1 DEF LeftIn, Of, Amounts

(***************************************************************************)
(* The first add, and those after it.                                      *)
(***************************************************************************)
Share(a, to, c) == IF a.to = to /\ a.counter = c THEN a.n ELSE 0

LEMMA LeftHead ==
  ASSUME NEW q \in Seq(Add), q # <<>>, NEW to, NEW c
  PROVE  LeftIn(q, to, c) = LeftIn(Tail(q), to, c) + Share(Head(q), to, c)
<1> DEFINE t == Tail(q)
           D == Of(q, to, c)
           E == Of(t, to, c)
           h == [i \in E |-> i + 1]
<1>1. t \in Seq(Add)
  BY HeadTailProperties
<1>2. PICK n \in Nat \ {0} :
        /\ DOMAIN q = 1..n /\ DOMAIN t = 1..(n - 1)
        /\ \A i \in 1..(n - 1) : t[i] = q[i + 1]
  <2>1. Len(t) = Len(q) - 1 /\ \A i \in 1..Len(t) : t[i] = q[i + 1]
    BY HeadTailProperties
  <2>2. Len(q) \in Nat \ {0}
    BY EmptySeq
  <2>3. DOMAIN q = 1..Len(q) /\ DOMAIN t = 1..Len(t)
    BY <1>1, LenProperties
  <2> HIDE DEF t
  <2> QED BY <2>1, <2>2, <2>3
<1>3. Head(q) = q[1]
  OBVIOUS
<1> HIDE DEF t
<1>4. /\ IsFiniteSet(D) /\ \A i \in D : Amounts(q)[i] \in Nat
      /\ IsFiniteSet(E) /\ \A i \in E : Amounts(t)[i] \in Nat
  BY <1>1, OfFinite
<1>5. ASSUME NEW i \in E
      PROVE  i + 1 \in D \ {1} /\ Amounts(t)[i] = Amounts(q)[i + 1]
  <2>1. i \in 1..(n - 1) /\ i \in DOMAIN t
    BY <1>2 DEF Of
  <2>2. i + 1 \in DOMAIN q /\ i + 1 # 1 /\ t[i] = q[i + 1]
    BY <1>2, <2>1
  <2> QED BY <2>1, <2>2 DEF Of, Amounts
<1>6. ASSUME NEW i \in D \ {1}
      PROVE  i - 1 \in E /\ (i - 1) + 1 = i
  <2>1. i \in 1..n
    BY <1>2 DEF Of
  <2>2. i - 1 \in DOMAIN t /\ (i - 1) + 1 = i /\ t[i - 1] = q[i]
    BY <1>2, <2>1
  <2> QED BY <2>1, <2>2 DEF Of
<1>7. \A i, j \in E : i + 1 = j + 1 => i = j
  BY <1>2 DEF Of
<1> HIDE DEF D, E
<1>8. SumOver(Amounts(t), E) = SumOver(Amounts(q), D \ {1})
  <2> DEFINE T == D \ {1}
             f == Amounts(t)
             g == Amounts(q)
  <2>1. \A i \in E : h[i] \in T /\ g[h[i]] \in Nat /\ f[i] = g[h[i]]
    BY <1>4, <1>5
  <2>2. \A i, j \in E : h[i] = h[j] => i = j
    BY <1>7
  <2>3. \A i \in T : \E j \in E : i = h[j]
    BY <1>6
  <2>4. IsFiniteSet(E)
    BY <1>4
  <2> HIDE DEF h, T, f, g
  <2>5. SumOver(f, E) = SumOver(g, T)
    BY ONLY <2>1, <2>2, <2>3, <2>4, SumImage
  <2> QED BY <2>5 DEF f, g, T
<1>9. LeftIn(q, to, c) = SumOver(Amounts(q), D) /\ LeftIn(t, to, c) = SumOver(Amounts(t), E)
  BY DEF LeftIn, Amounts, D, E, Of
<1>10. LeftIn(t, to, c) \in Nat
  BY <1>1, LeftType
<1>11. CASE 1 \in D
  <2>1. SumOver(Amounts(q), D) = Amounts(q)[1] + SumOver(Amounts(q), D \ {1})
    BY <1>4, <1>11, SumTakeOut
  <2>2. Amounts(q)[1] = Share(Head(q), to, c)
    BY <1>3, <1>11 DEF D, Of, Amounts, Share
  <2>3. Amounts(q)[1] \in Nat
    BY <1>4, <1>11
  <2> HIDE DEF h
  <2> QED BY <1>8, <1>9, <1>10, <2>1, <2>2, <2>3 DEF t
<1>12. CASE 1 \notin D
  <2>1. SumOver(Amounts(q), D \ {1}) = SumOver(Amounts(q), D)
    <3>1. D \ {1} = D
      BY <1>12
    <3> QED BY <3>1
  <2>2. Share(Head(q), to, c) = 0
    BY <1>2, <1>3, <1>12 DEF D, Of, Share
  <2> HIDE DEF h
  <2> QED BY <1>8, <1>9, <1>10, <2>1, <2>2 DEF t
<1> QED BY <1>11, <1>12

LEMMA LeftTuples ==
  ASSUME NEW a1 \in Add, NEW a2 \in Add, NEW a3 \in Add, NEW a4 \in Add
  PROVE  \A to, c :
           /\ LeftIn(<<a4>>, to, c) = Share(a4, to, c)
           /\ LeftIn(<<a3, a4>>, to, c) = Share(a4, to, c) + Share(a3, to, c)
           /\ LeftIn(<<a2, a3, a4>>, to, c)
                = (Share(a4, to, c) + Share(a3, to, c)) + Share(a2, to, c)
           /\ LeftIn(<<a1, a2, a3, a4>>, to, c)
                = ((Share(a4, to, c) + Share(a3, to, c)) + Share(a2, to, c)) + Share(a1, to, c)
<1>1. \A to, c : LeftIn(<<a4>>, to, c) = Share(a4, to, c)
  <2>1. <<a4>> \in Seq(Add) /\ Head(<<a4>>) = a4 /\ Tail(<<a4>>) = <<>> /\ <<a4>> # <<>>
    OBVIOUS
  <2>2. \A to, c : Share(a4, to, c) \in Nat
    BY DEF Share, Add
  <2>3. \A to, c : LeftIn(<<a4>>, to, c) = 0 + Share(a4, to, c)
    BY <2>1, LeftHead, LeftNothing
  <2> QED BY <2>2, <2>3
<1>2. \A to, c : LeftIn(<<a3, a4>>, to, c) = Share(a4, to, c) + Share(a3, to, c)
  <2>1. /\ <<a3, a4>> \in Seq(Add) /\ Head(<<a3, a4>>) = a3 /\ Tail(<<a3, a4>>) = <<a4>>
        /\ <<a3, a4>> # <<>>
    OBVIOUS
  <2> QED BY <1>1, <2>1, LeftHead
<1>3. \A to, c : LeftIn(<<a2, a3, a4>>, to, c)
                   = (Share(a4, to, c) + Share(a3, to, c)) + Share(a2, to, c)
  <2>1. /\ <<a2, a3, a4>> \in Seq(Add) /\ Head(<<a2, a3, a4>>) = a2
        /\ Tail(<<a2, a3, a4>>) = <<a3, a4>> /\ <<a2, a3, a4>> # <<>>
    OBVIOUS
  <2> DEFINE q == <<a2, a3, a4>>
  <2>2. q \in Seq(Add) /\ q # <<>> /\ Head(q) = a2 /\ Tail(q) = <<a3, a4>>
    BY <2>1
  <2> HIDE DEF q
  <2>3. \A to, c : LeftIn(q, to, c) = LeftIn(<<a3, a4>>, to, c) + Share(a2, to, c)
    BY <2>2, LeftHead
  <2> QED BY <1>2, <2>3 DEF q
<1>4. \A to, c : LeftIn(<<a1, a2, a3, a4>>, to, c)
                   = ((Share(a4, to, c) + Share(a3, to, c)) + Share(a2, to, c)) + Share(a1, to, c)
  <2>1. /\ <<a1, a2, a3, a4>> \in Seq(Add) /\ Head(<<a1, a2, a3, a4>>) = a1
        /\ Tail(<<a1, a2, a3, a4>>) = <<a2, a3, a4>> /\ <<a1, a2, a3, a4>> # <<>>
    OBVIOUS
  <2> DEFINE q == <<a1, a2, a3, a4>>
  <2>2. q \in Seq(Add) /\ q # <<>> /\ Head(q) = a1 /\ Tail(q) = <<a2, a3, a4>>
    BY <2>1
  <2> HIDE DEF q
  <2>3. \A to, c : LeftIn(q, to, c) = LeftIn(<<a2, a3, a4>>, to, c) + Share(a1, to, c)
    BY <2>2, LeftHead
  <2> QED BY <1>3, <2>3 DEF q
<1> QED BY <1>1, <1>2, <1>3, <1>4

(***************************************************************************)
(* A worker's adds are what is left of one call of record_request or       *)
(* record_response: all four, the last three, two or one, or none.         *)
(***************************************************************************)
CountAdd(to, count) == [to |-> to, counter |-> count, n |-> 1]
BytesAdd(to, bytes, n) == [to |-> to, counter |-> bytes, n |-> n]

Rests(p, count, bytes, n) ==
  {<<CountAdd("total", count), BytesAdd("total", bytes, n),
     CountAdd(p, count), BytesAdd(p, bytes, n)>>,
   <<BytesAdd("total", bytes, n), CountAdd(p, count), BytesAdd(p, bytes, n)>>,
   <<CountAdd(p, count), BytesAdd(p, bytes, n)>>,
   <<BytesAdd(p, bytes, n)>>,
   <<>>}

Call(q) ==
  \/ q = <<>>
  \/ \E p \in Ports, n \in Nat :
       \/ q \in Rests(p, "requests", "requestBytes", n)
       \/ q \in Rests(p, "responses", "responseBytes", n)

LEMMA CallTail == ASSUME NEW q, Call(q), q # <<>> PROVE Call(Tail(q))
<1>1. PICK p \in Ports, n \in Nat :
        \/ q \in Rests(p, "requests", "requestBytes", n)
        \/ q \in Rests(p, "responses", "responseBytes", n)
  BY DEF Call
<1>2. ASSUME NEW count, NEW bytes, q \in Rests(p, count, bytes, n)
      PROVE  Tail(q) \in Rests(p, count, bytes, n)
  <2> DEFINE a1 == CountAdd("total", count)
             a2 == BytesAdd("total", bytes, n)
             a3 == CountAdd(p, count)
             a4 == BytesAdd(p, bytes, n)
             forms == {<<a1, a2, a3, a4>>, <<a2, a3, a4>>, <<a3, a4>>, <<a4>>, <<>>}
  <2>1. q \in forms /\ Rests(p, count, bytes, n) = forms
    BY <1>2 DEF Rests
  <2> HIDE DEF a1, a2, a3, a4
  <2>2. /\ Tail(<<a1, a2, a3, a4>>) = <<a2, a3, a4>>
        /\ Tail(<<a2, a3, a4>>) = <<a3, a4>>
        /\ Tail(<<a3, a4>>) = <<a4>>
        /\ Tail(<<a4>>) = <<>>
    OBVIOUS
  <2>3. q # <<>>
    OBVIOUS
  <2> QED BY <2>1, <2>2, <2>3, Zenon
<1> QED BY <1>1, <1>2 DEF Call

(***************************************************************************)
(* Such a call adds to one port, there as much as in total or more, and    *)
(* counts one request or response.                                         *)
(***************************************************************************)
OnePort(q, p) ==
  /\ \A x \in Ports \ {p}, c \in Counter : LeftIn(q, x, c) = 0
  /\ \A c \in Counter : LeftIn(q, "total", c) <= LeftIn(q, p, c)
  /\ LeftIn(q, p, "requests") + LeftIn(q, p, "responses") <= 1

LEMMA RestOnePort ==
  ASSUME NEW p \in Ports, NEW n \in Nat, NEW count, NEW bytes,
         \/ count = "requests" /\ bytes = "requestBytes"
         \/ count = "responses" /\ bytes = "responseBytes",
         NEW q \in Rests(p, count, bytes, n)
  PROVE  OnePort(q, p)
<1> DEFINE a1 == CountAdd("total", count)
           a2 == BytesAdd("total", bytes, n)
           a3 == CountAdd(p, count)
           a4 == BytesAdd(p, bytes, n)
<1>1. a1 \in Add /\ a2 \in Add /\ a3 \in Add /\ a4 \in Add
  BY DEF Add, Counter, CountAdd, BytesAdd
<1>2. \A to, c : /\ Share(a1, to, c) = IF to = "total" /\ c = count THEN 1 ELSE 0
                 /\ Share(a2, to, c) = IF to = "total" /\ c = bytes THEN n ELSE 0
                 /\ Share(a3, to, c) = IF to = p /\ c = count THEN 1 ELSE 0
                 /\ Share(a4, to, c) = IF to = p /\ c = bytes THEN n ELSE 0
  BY DEF Share, CountAdd, BytesAdd
<1>3. q \in {<<a1, a2, a3, a4>>, <<a2, a3, a4>>, <<a3, a4>>, <<a4>>, <<>>}
  BY DEF Rests
<1> HIDE DEF a1, a2, a3, a4
<1>4. \A to, c :
        /\ LeftIn(<<a4>>, to, c) = Share(a4, to, c)
        /\ LeftIn(<<a3, a4>>, to, c) = Share(a4, to, c) + Share(a3, to, c)
        /\ LeftIn(<<a2, a3, a4>>, to, c)
             = (Share(a4, to, c) + Share(a3, to, c)) + Share(a2, to, c)
        /\ LeftIn(<<a1, a2, a3, a4>>, to, c)
             = ((Share(a4, to, c) + Share(a3, to, c)) + Share(a2, to, c)) + Share(a1, to, c)
  BY <1>1, LeftTuples
<1>5. p # "total" /\ count # bytes
  BY CountersAssumption
<1>6. CASE q = <<a1, a2, a3, a4>>
  <2>1. \A x \in Ports \ {p}, c \in Counter : LeftIn(q, x, c) = 0
    BY <1>2, <1>4, <1>5, <1>6, CountersAssumption
  <2>2. \A c \in Counter : LeftIn(q, "total", c) <= LeftIn(q, p, c)
    BY <1>2, <1>4, <1>5, <1>6
  <2>3. LeftIn(q, p, "requests") + LeftIn(q, p, "responses") <= 1
    BY <1>2, <1>4, <1>5, <1>6
  <2> QED BY <2>1, <2>2, <2>3 DEF OnePort
<1>7. CASE q = <<a2, a3, a4>>
  <2>1. \A x \in Ports \ {p}, c \in Counter : LeftIn(q, x, c) = 0
    BY <1>2, <1>4, <1>5, <1>7, CountersAssumption
  <2>2. \A c \in Counter : LeftIn(q, "total", c) <= LeftIn(q, p, c)
    BY <1>2, <1>4, <1>5, <1>7
  <2>3. LeftIn(q, p, "requests") + LeftIn(q, p, "responses") <= 1
    BY <1>2, <1>4, <1>5, <1>7
  <2> QED BY <2>1, <2>2, <2>3 DEF OnePort
<1>8. CASE q = <<a3, a4>>
  <2>1. \A x \in Ports \ {p}, c \in Counter : LeftIn(q, x, c) = 0
    BY <1>2, <1>4, <1>5, <1>8, CountersAssumption
  <2>2. \A c \in Counter : LeftIn(q, "total", c) <= LeftIn(q, p, c)
    BY <1>2, <1>4, <1>5, <1>8
  <2>3. LeftIn(q, p, "requests") + LeftIn(q, p, "responses") <= 1
    BY <1>2, <1>4, <1>5, <1>8
  <2> QED BY <2>1, <2>2, <2>3 DEF OnePort
<1>9. CASE q = <<a4>>
  <2>1. \A x \in Ports \ {p}, c \in Counter : LeftIn(q, x, c) = 0
    BY <1>2, <1>4, <1>5, <1>9, CountersAssumption
  <2>2. \A c \in Counter : LeftIn(q, "total", c) <= LeftIn(q, p, c)
    BY <1>2, <1>4, <1>5, <1>9
  <2>3. LeftIn(q, p, "requests") + LeftIn(q, p, "responses") <= 1
    BY <1>2, <1>4, <1>5, <1>9
  <2> QED BY <2>1, <2>2, <2>3 DEF OnePort
<1>10. CASE q = <<>>
  BY <1>10, LeftNothing DEF OnePort
<1> QED BY <1>3, <1>6, <1>7, <1>8, <1>9, <1>10

(***************************************************************************)
(* What a call of record_request or record_response adds when it starts:   *)
(* the same in total and to its port.                                      *)
(***************************************************************************)
Begun(q, p, count, bytes, n) ==
  /\ Call(q)
  /\ \A c : /\ LeftIn(q, "total", c) = LeftIn(q, p, c)
            /\ LeftIn(q, p, c) = IF c = count THEN 1 ELSE IF c = bytes THEN n ELSE 0
            /\ \A x \in Ports \ {p} : LeftIn(q, x, c) = 0

LEMMA RecordBegun ==
  ASSUME NEW p \in Ports, NEW n \in Nat, NEW count, NEW bytes,
         \/ count = "requests" /\ bytes = "requestBytes"
         \/ count = "responses" /\ bytes = "responseBytes"
  PROVE  Begun(Record(p, count, bytes, n), p, count, bytes, n)
<1> DEFINE a1 == CountAdd("total", count)
           a2 == BytesAdd("total", bytes, n)
           a3 == CountAdd(p, count)
           a4 == BytesAdd(p, bytes, n)
           q == Record(p, count, bytes, n)
<1>1. a1 \in Add /\ a2 \in Add /\ a3 \in Add /\ a4 \in Add
  BY DEF Add, Counter, CountAdd, BytesAdd
<1>2. \A to, c : /\ Share(a1, to, c) = IF to = "total" /\ c = count THEN 1 ELSE 0
                 /\ Share(a2, to, c) = IF to = "total" /\ c = bytes THEN n ELSE 0
                 /\ Share(a3, to, c) = IF to = p /\ c = count THEN 1 ELSE 0
                 /\ Share(a4, to, c) = IF to = p /\ c = bytes THEN n ELSE 0
  BY DEF Share, CountAdd, BytesAdd
<1>3. q = <<a1, a2, a3, a4>> /\ q \in Rests(p, count, bytes, n)
  BY DEF Record, Rests, CountAdd, BytesAdd
<1> HIDE DEF a1, a2, a3, a4, q
<1>4. \A to, c : LeftIn(q, to, c)
        = ((Share(a4, to, c) + Share(a3, to, c)) + Share(a2, to, c)) + Share(a1, to, c)
  <2>1. \A to, c :
          /\ LeftIn(<<a4>>, to, c) = Share(a4, to, c)
          /\ LeftIn(<<a3, a4>>, to, c) = Share(a4, to, c) + Share(a3, to, c)
          /\ LeftIn(<<a2, a3, a4>>, to, c)
               = (Share(a4, to, c) + Share(a3, to, c)) + Share(a2, to, c)
          /\ LeftIn(<<a1, a2, a3, a4>>, to, c)
               = ((Share(a4, to, c) + Share(a3, to, c)) + Share(a2, to, c)) + Share(a1, to, c)
    BY <1>1, LeftTuples
  <2> QED BY <1>3, <2>1
<1>5. p # "total" /\ count # bytes
  BY CountersAssumption
<1>6. \A c : /\ LeftIn(q, "total", c) = LeftIn(q, p, c)
             /\ LeftIn(q, p, c) = IF c = count THEN 1 ELSE IF c = bytes THEN n ELSE 0
  BY <1>2, <1>4, <1>5
<1>7. \A c : \A x \in Ports \ {p} : LeftIn(q, x, c) = 0
  BY <1>2, <1>4, <1>5, CountersAssumption
<1>8. Call(q)
  BY <1>3 DEF Call
<1> QED BY <1>6, <1>7, <1>8 DEF Begun, q

(***************************************************************************)
(* The sum over the ports of what is left: of a call that adds to one      *)
(* port, of a call that starts, and after one more add.                    *)
(***************************************************************************)
LEMMA OnePortSum ==
  ASSUME NEW q \in Seq(Add), NEW p \in Ports, NEW c,
         \A x \in Ports \ {p} : LeftIn(q, x, c) = 0
  PROVE  LeftInPorts(q, c) = LeftIn(q, p, c)
<1> DEFINE f == [x \in Ports |-> LeftIn(q, x, c)]
<1>1. f[p] \in Nat /\ f[p] = LeftIn(q, p, c) /\ \A x \in Ports \ {p} : f[x] = 0
  BY LeftType
<1>2. LeftInPorts(q, c) = SumOver(f, Ports)
  BY DEF LeftInPorts
<1> HIDE DEF f
<1> QED BY <1>1, <1>2, SumOne, CountersAssumption

LEMMA NothingInPorts == \A c : LeftInPorts(<<>>, c) = 0
<1> SUFFICES ASSUME NEW c PROVE LeftInPorts(<<>>, c) = 0
  OBVIOUS
<1> DEFINE f == [x \in Ports |-> LeftIn(<<>>, x, c)]
<1>1. \A x \in Ports : f[x] = 0
  BY LeftNothing
<1>2. LeftInPorts(<<>>, c) = SumOver(f, Ports)
  BY DEF LeftInPorts
<1> HIDE DEF f
<1> QED BY <1>1, <1>2, SumZero, CountersAssumption

LEMMA CallAmounts ==
  ASSUME NEW q \in Seq(Add), Call(q)
  PROVE  /\ \A c \in Counter : LeftIn(q, "total", c) <= LeftInPorts(q, c)
         /\ LeftInPorts(q, "requests") + LeftInPorts(q, "responses") <= 1
<1>1. CASE q = <<>>
  BY <1>1, LeftNothing, NothingInPorts
<1>2. CASE q # <<>>
  <2>1. PICK p \in Ports : OnePort(q, p)
    BY <1>2, RestOnePort DEF Call
  <2>2. \A c \in Counter : LeftInPorts(q, c) = LeftIn(q, p, c)
    BY <2>1, OnePortSum DEF OnePort
  <2> QED BY <2>1, <2>2 DEF OnePort, Counter
<1> QED BY <1>1, <1>2

LEMMA InPortsType ==
  ASSUME NEW q \in Seq(Add), NEW c
  PROVE  LeftInPorts(q, c) \in Nat
<1> DEFINE f == [x \in Ports |-> LeftIn(q, x, c)]
<1>1. \A x \in Ports : f[x] \in Nat
  BY LeftType
<1>2. LeftInPorts(q, c) = SumOver(f, Ports)
  BY DEF LeftInPorts
<1> HIDE DEF f
<1> QED BY <1>1, <1>2, SumNat, CountersAssumption

LEMMA InPortsHead ==
  ASSUME NEW q \in Seq(Add), q # <<>>, NEW c
  PROVE  LeftInPorts(q, c) = LeftInPorts(Tail(q), c)
           + (IF Head(q).to \in Ports THEN Share(Head(q), Head(q).to, c) ELSE 0)
<1> DEFINE f == [x \in Ports |-> LeftIn(q, x, c)]
           g == [x \in Ports |-> LeftIn(Tail(q), x, c)]
           a == Head(q)
<1>1. Tail(q) \in Seq(Add) /\ a \in Add
  BY HeadTailProperties
<1>2. \A x \in Ports : /\ f[x] \in Nat /\ g[x] \in Nat /\ Share(a, x, c) \in Nat
                       /\ f[x] = g[x] + Share(a, x, c)
  <2>1. \A x \in Ports : Share(a, x, c) \in Nat
    BY <1>1 DEF Share, Add
  <2> QED BY <1>1, <2>1, LeftHead, LeftType
<1>3. \A x \in Ports : x # a.to => Share(a, x, c) = 0
  BY DEF Share
<1>4. LeftInPorts(q, c) = SumOver(f, Ports) /\ LeftInPorts(Tail(q), c) = SumOver(g, Ports)
  BY DEF LeftInPorts
<1>5. LeftInPorts(Tail(q), c) \in Nat /\ LeftInPorts(q, c) \in Nat
  BY <1>1, InPortsType
<1> HIDE DEF f, g, a
<1>6. CASE a.to \in Ports
  <2>1. SumOver(f, Ports) + g[a.to] = SumOver(g, Ports) + f[a.to]
    <3>1. \A y \in Ports \ {a.to} : g[y] = f[y]
      BY <1>2, <1>3
    <3>2. IsFiniteSet(Ports) /\ \A y \in Ports : g[y] \in Nat /\ f[y] \in Nat
      BY <1>2, CountersAssumption
    <3> HIDE DEF LeftInPorts
    <3> QED BY ONLY <1>6, <3>1, <3>2, SumUpdate
  <2> QED BY SMTT(30), <1>2, <1>4, <1>5, <1>6, <2>1 DEF a
<1>7. CASE a.to \notin Ports
  <2>1. \A x \in Ports : f[x] = g[x]
    BY <1>2, <1>3, <1>7
  <2>2. SumOver(f, Ports) = SumOver(g, Ports)
    BY <2>1, SumEqual, CountersAssumption
  <2> QED BY <1>4, <1>5, <1>7, <2>2 DEF a
<1> QED BY <1>6, <1>7

(***************************************************************************)
(* What a reader sees of a worker's step: no counter goes down.            *)
(***************************************************************************)
Grows ==
  /\ \A c \in Counter : total[c] <= total'[c]
  /\ \A p \in Ports, c \in Counter : port[p][c] <= port'[p][c]

LEMMA WorkerGrows ==
  ASSUME CountersTypeOK, WorkerStep
  PROVE  CountersTypeOK' /\ Grows
<1> USE DEF Values
<1>1. PICK w \in Workers :
        \/ \E p \in Ports, n \in Sizes : RecordRequest(w, p, n)
        \/ \E p \in Ports : RecordResponse(w, p) \/ Abandon(w, p)
        \/ AddTotal(w) \/ AddPort(w)
  BY DEF WorkerStep
<1>2. /\ total \in Values /\ port \in [Ports -> Values]
      /\ adds \in [Workers -> Seq(Add)] /\ open \in [Workers -> [Ports -> Nat]]
  BY DEF CountersTypeOK
<1>3. ASSUME NEW p \in Ports, NEW n \in Sizes, RecordRequest(w, p, n)
      PROVE  CountersTypeOK' /\ Grows
  <2>1. Record(p, "requests", "requestBytes", n) \in Seq(Add)
    BY CountersAssumption, RecordType DEF Counter
  <2>2. adds' \in [Workers -> Seq(Add)] /\ open' \in [Workers -> [Ports -> Nat]]
    BY <1>2, <1>3, <2>1 DEF RecordRequest
  <2> QED BY <1>2, <1>3, <2>2 DEF RecordRequest, CountersTypeOK, Grows
<1>4. ASSUME NEW p \in Ports, RecordResponse(w, p)
      PROVE  CountersTypeOK' /\ Grows
  <2>1. Record(p, "responses", "responseBytes", ResponseSize) \in Seq(Add)
    BY CountersAssumption, RecordType DEF Counter
  <2>2. adds' \in [Workers -> Seq(Add)] /\ open' \in [Workers -> [Ports -> Nat]]
    BY <1>2, <1>4, <2>1 DEF RecordResponse
  <2> QED BY <1>2, <1>4, <2>2 DEF RecordResponse, CountersTypeOK, Grows
<1>5. ASSUME NEW p \in Ports, Abandon(w, p)
      PROVE  CountersTypeOK' /\ Grows
  <2>1. open' \in [Workers -> [Ports -> Nat]]
    BY <1>2, <1>5 DEF Abandon
  <2> QED BY <1>2, <1>5, <2>1 DEF Abandon, CountersTypeOK, Grows
<1>6. adds[w] # <<>> =>
        /\ Head(adds[w]) \in Add
        /\ [adds EXCEPT ![w] = Tail(@)] \in [Workers -> Seq(Add)]
  BY <1>2, HeadTailProperties
<1>7. ASSUME AddTotal(w)
      PROVE  CountersTypeOK' /\ Grows
  <2> DEFINE a == Head(adds[w])
  <2>1. a.counter \in Counter /\ a.n \in Nat
    BY <1>6, <1>7 DEF AddTotal, Add
  <2>2. total' = [total EXCEPT ![a.counter] = @ + a.n]
    BY <1>7 DEF AddTotal
  <2> HIDE DEF a
  <2>3. total' \in Values /\ \A c \in Counter : total[c] <= total'[c]
    BY <1>2, <2>1, <2>2
  <2>4. adds' \in [Workers -> Seq(Add)]
    BY <1>6, <1>7 DEF AddTotal
  <2> QED BY <1>2, <1>7, <2>3, <2>4 DEF AddTotal, CountersTypeOK, Grows
<1>8. ASSUME AddPort(w)
      PROVE  CountersTypeOK' /\ Grows
  <2> DEFINE a == Head(adds[w])
  <2>1. a.counter \in Counter /\ a.n \in Nat /\ a.to \in Ports
    BY <1>6, <1>8 DEF AddPort, Add
  <2>2. port' = [port EXCEPT ![a.to][a.counter] = @ + a.n]
    BY <1>8 DEF AddPort
  <2> HIDE DEF a
  <2>3. /\ port' \in [Ports -> Values]
        /\ \A p \in Ports, c \in Counter : port[p][c] <= port'[p][c]
    BY <1>2, <2>1, <2>2
  <2>4. adds' \in [Workers -> Seq(Add)]
    BY <1>6, <1>8 DEF AddPort
  <2>5. total' = total /\ open' = open
    BY <1>8 DEF AddPort
  <2>6. \A c \in Counter : total[c] <= total'[c]
    BY <1>2, <2>5
  <2> QED BY <1>2, <2>3, <2>4, <2>5, <2>6 DEF CountersTypeOK, Grows
<1> QED BY <1>1, <1>3, <1>4, <1>5, <1>7, <1>8

LEMMA OrderType == \A i \in 1..4 : Order[i] \in Counter
BY DEF Order, Counter
-----------------------------------------------------------------------------
(***************************************************************************)
(* The inductive invariant of the counters.  Workers are in one call at a  *)
(* time; the ports and the totals differ by what these have still to add;  *)
(* a request being counted is open; and the responses counted, with those  *)
(* still owed, stay below the requests counted.  A response is owed from   *)
(* its request's count on: until it is counted itself or abandoned.        *)
(***************************************************************************)
Everywhere == Ports \cup {"total"}

Shown(to, c) == IF to = "total" THEN total[c] ELSE port[to][c]
OpenAt(o, to) == IF to = "total" THEN SumOver(o, Ports) ELSE o[to]
Owed(w, to) == OpenAt(open[w], to)
                 + LeftIn(adds[w], to, "responses") - LeftIn(adds[w], to, "requests")

CallsInProgress == \A w \in Workers : Call(adds[w])

RequestsAreOpen ==
  \A w \in Workers, to \in Everywhere :
    LeftIn(adds[w], to, "requests") <= OpenAt(open[w], to)

ResponsesAreOwed ==
  \A to \in Everywhere :
    Shown(to, "responses") + SumOver([w \in Workers |-> Owed(w, to)], Workers)
      <= Shown(to, "requests")

CInv ==
  /\ CountersTypeOK
  /\ CallsInProgress
  /\ PortsAccountForTotal
  /\ RequestsAreOpen
  /\ ResponsesAreOwed

(***************************************************************************)
(* The requests open at one worker, when those of one port change.         *)
(***************************************************************************)
LEMMA OpenType ==
  ASSUME NEW o \in [Ports -> Nat], NEW to \in Everywhere
  PROVE  OpenAt(o, to) \in Nat
<1>1. SumOver(o, Ports) \in Nat
  BY SumNat, CountersAssumption
<1> QED BY <1>1 DEF OpenAt, Everywhere

LEMMA OpenChanges ==
  ASSUME NEW o \in [Ports -> Nat], NEW p \in Ports, NEW m \in Nat
  PROVE  \A to \in Everywhere :
           OpenAt([o EXCEPT ![p] = m], to)
             = IF to \in {p, "total"} THEN OpenAt(o, to) + m - o[p] ELSE OpenAt(o, to)
<1> DEFINE r == [o EXCEPT ![p] = m]
<1>1. /\ r[p] = m /\ \A x \in Ports : r[x] \in Nat /\ o[x] \in Nat
      /\ \A x \in Ports \ {p} : o[x] = r[x]
  OBVIOUS
<1> HIDE DEF r
<1>2. SumOver(r, Ports) + o[p] = SumOver(o, Ports) + r[p]
  BY <1>1, SumUpdate, CountersAssumption
<1>3. SumOver(r, Ports) \in Nat /\ SumOver(o, Ports) \in Nat
  BY <1>1, SumNat, CountersAssumption
<1>4. \A to \in Everywhere :
        OpenAt(r, to) = IF to \in {p, "total"} THEN OpenAt(o, to) + m - o[p] ELSE OpenAt(o, to)
  BY <1>1, <1>2, <1>3, CountersAssumption DEF OpenAt, Everywhere
<1> QED BY <1>4 DEF r

LEMMA OwedType ==
  ASSUME NEW q \in Seq(Add), NEW o \in [Ports -> Nat], NEW to \in Everywhere,
         LeftIn(q, to, "requests") <= OpenAt(o, to)
  PROVE  OpenAt(o, to) + LeftIn(q, to, "responses") - LeftIn(q, to, "requests") \in Nat
<1>1. LeftIn(q, to, "responses") \in Nat /\ LeftIn(q, to, "requests") \in Nat
  BY LeftType
<1> QED BY <1>1, OpenType

LEMMA ShownType ==
  ASSUME CountersTypeOK, NEW to \in Everywhere, NEW c \in Counter
  PROVE  Shown(to, c) \in Nat
BY DEF CountersTypeOK, Shown, Everywhere, Values

LEMMA SumPortsType ==
  ASSUME NEW t \in [Ports -> Values], NEW c \in Counter
  PROVE  SumOver([p \in Ports |-> t[p][c]], Ports) \in Nat
<1> DEFINE f == [p \in Ports |-> t[p][c]]
<1>1. \A p \in Ports : f[p] \in Nat
  BY DEF Values
<1> HIDE DEF f
<1>2. SumOver(f, Ports) \in Nat
  BY <1>1, SumNat, CountersAssumption
<1> QED BY <1>2 DEF f

(***************************************************************************)
(* A step of one worker keeps the two sums over the workers, if its own    *)
(* terms balance.                                                          *)
(***************************************************************************)
OnlyChanges(w) ==
  \A v \in Workers \ {w} : adds'[v] = adds[v] /\ open'[v] = open[v]

LEMMA Balance ==
  ASSUME NEW a \in Nat, NEW b \in Nat, NEW d \in Nat, NEW e \in Nat,
         NEW a1 \in Nat, NEW b1 \in Nat, NEW d1 \in Nat, NEW e1 \in Nat,
         NEW k \in Nat, NEW k1 \in Nat, NEW l \in Nat, NEW l1 \in Nat,
         a + d = b + e, d1 + k = d + k1, e1 + l = e + l1,
         a1 + k1 + b + l = a + k + b1 + l1
  PROVE  a1 + d1 = b1 + e1
OBVIOUS

LEMMA AccountStep ==
  ASSUME CountersTypeOK, CountersTypeOK', PortsAccountForTotal,
         NEW w \in Workers, OnlyChanges(w),
         \A c \in Counter :
           total'[c] + LeftIn(adds'[w], "total", c) + SumPorts(c) + LeftInPorts(adds[w], c)
             = total[c] + LeftIn(adds[w], "total", c) + SumPorts(c)' + LeftInPorts(adds'[w], c)
  PROVE  PortsAccountForTotal'
<1> SUFFICES ASSUME NEW c \in Counter
             PROVE  total'[c] + SumOver([v \in Workers |-> LeftIn(adds'[v], "total", c)], Workers)
                      = SumPorts(c)' + SumOver([v \in Workers |-> LeftInPorts(adds'[v], c)], Workers)
  BY DEF PortsAccountForTotal
<1> DEFINE f == [v \in Workers |-> LeftIn(adds[v], "total", c)]
           f1 == [v \in Workers |-> LeftIn(adds'[v], "total", c)]
           g == [v \in Workers |-> LeftInPorts(adds[v], c)]
           g1 == [v \in Workers |-> LeftInPorts(adds'[v], c)]
<1>1. \A v \in Workers : adds[v] \in Seq(Add) /\ adds'[v] \in Seq(Add)
  BY DEF CountersTypeOK
<1>2. \A v \in Workers : f[v] \in Nat /\ f1[v] \in Nat /\ g[v] \in Nat /\ g1[v] \in Nat
  BY <1>1, LeftType, InPortsType
<1>3. \A v \in Workers \ {w} : f[v] = f1[v] /\ g[v] = g1[v]
  BY DEF OnlyChanges
<1>4. /\ f[w] = LeftIn(adds[w], "total", c) /\ f1[w] = LeftIn(adds'[w], "total", c)
      /\ g[w] = LeftInPorts(adds[w], c) /\ g1[w] = LeftInPorts(adds'[w], c)
  OBVIOUS
<1>5. total[c] + SumOver(f, Workers) = SumPorts(c) + SumOver(g, Workers)
  BY DEF PortsAccountForTotal
<1>6. total[c] \in Nat /\ total'[c] \in Nat /\ SumPorts(c) \in Nat /\ SumPorts(c)' \in Nat
  <2>1. total[c] \in Nat /\ total'[c] \in Nat
    BY DEF CountersTypeOK, Values
  <2>2. port \in [Ports -> Values] /\ port' \in [Ports -> Values]
    BY DEF CountersTypeOK
  <2> QED BY <2>1, <2>2, SumPortsType DEF SumPorts
<1> HIDE DEF f, f1, g, g1
<1>7. /\ SumOver(f1, Workers) + f[w] = SumOver(f, Workers) + f1[w]
      /\ SumOver(g1, Workers) + g[w] = SumOver(g, Workers) + g1[w]
  BY <1>2, <1>3, SumUpdate, CountersAssumption
<1>8. /\ SumOver(f, Workers) \in Nat /\ SumOver(f1, Workers) \in Nat
      /\ SumOver(g, Workers) \in Nat /\ SumOver(g1, Workers) \in Nat
  BY <1>2, SumNat, CountersAssumption
<1>9. total'[c] + f1[w] + SumPorts(c) + g[w] = total[c] + f[w] + SumPorts(c)' + g1[w]
  BY <1>4
<1>10. total'[c] + SumOver(f1, Workers) = SumPorts(c)' + SumOver(g1, Workers)
  <2>1. f[w] \in Nat /\ f1[w] \in Nat /\ g[w] \in Nat /\ g1[w] \in Nat
    BY <1>2
  <2> QED BY <1>5, <1>6, <1>7, <1>8, <1>9, <2>1, Balance
<1> QED BY <1>10 DEF f1, g1

LEMMA OwedStep ==
  ASSUME CountersTypeOK, CountersTypeOK', RequestsAreOpen, RequestsAreOpen',
         ResponsesAreOwed, NEW w \in Workers, OnlyChanges(w),
         \A to \in Everywhere :
           Shown(to, "responses")' + Owed(w, to)' + Shown(to, "requests")
             <= Shown(to, "requests")' + Owed(w, to) + Shown(to, "responses")
  PROVE  ResponsesAreOwed'
<1> SUFFICES ASSUME NEW to \in Everywhere
             PROVE  Shown(to, "responses")' + SumOver([v \in Workers |-> Owed(v, to)'], Workers)
                      <= Shown(to, "requests")'
  BY DEF ResponsesAreOwed, Everywhere
<1> DEFINE f == [v \in Workers |-> Owed(v, to)]
           f1 == [v \in Workers |-> Owed(v, to)']
<1>1. \A v \in Workers : f[v] \in Nat /\ f1[v] \in Nat
  <2> SUFFICES ASSUME NEW v \in Workers PROVE f[v] \in Nat /\ f1[v] \in Nat
    OBVIOUS
  <2>1. /\ adds[v] \in Seq(Add) /\ open[v] \in [Ports -> Nat]
        /\ adds'[v] \in Seq(Add) /\ open'[v] \in [Ports -> Nat]
    BY DEF CountersTypeOK
  <2>2. /\ LeftIn(adds[v], to, "requests") <= OpenAt(open[v], to)
        /\ LeftIn(adds'[v], to, "requests") <= OpenAt(open'[v], to)
    BY DEF RequestsAreOpen, Everywhere
  <2>3. Owed(v, to) \in Nat /\ Owed(v, to)' \in Nat
    BY <2>1, <2>2, OwedType DEF Owed
  <2> QED BY <2>3
<1>2. \A v \in Workers \ {w} : f[v] = f1[v]
  BY DEF OnlyChanges, Owed
<1>3. f[w] = Owed(w, to) /\ f1[w] = Owed(w, to)'
  OBVIOUS
<1>4. Shown(to, "responses") + SumOver(f, Workers) <= Shown(to, "requests")
  BY DEF ResponsesAreOwed
<1>5. /\ Shown(to, "responses") \in Nat /\ Shown(to, "requests") \in Nat
      /\ Shown(to, "responses")' \in Nat /\ Shown(to, "requests")' \in Nat
  BY DEF CountersTypeOK, Shown, Everywhere, Values, Counter
<1> HIDE DEF f, f1
<1>6. SumOver(f1, Workers) + f[w] = SumOver(f, Workers) + f1[w]
  BY <1>1, <1>2, SumUpdate, CountersAssumption
<1>7. SumOver(f, Workers) \in Nat /\ SumOver(f1, Workers) \in Nat
  BY <1>1, SumNat, CountersAssumption
<1>8. Shown(to, "responses")' + f1[w] + Shown(to, "requests")
        <= Shown(to, "requests")' + f[w] + Shown(to, "responses")
  BY <1>3
<1>9. Shown(to, "responses")' + SumOver(f1, Workers) <= Shown(to, "requests")'
  BY <1>1, <1>4, <1>5, <1>6, <1>7, <1>8
<1> QED BY <1>9 DEF f1

(***************************************************************************)
(* One record_request, one record_response, one abandoned request.         *)
(***************************************************************************)
LEMMA RequestKeeps ==
  ASSUME CInv, CountersTypeOK', NEW w \in Workers, NEW p \in Ports, NEW n \in Sizes,
         RecordRequest(w, p, n)
  PROVE  CInv'
<1> DEFINE q == Record(p, "requests", "requestBytes", n)
<1>1. Begun(q, p, "requests", "requestBytes", n)
  BY RecordBegun, CountersAssumption
<1>2. /\ adds[w] = <<>> /\ adds'[w] = q /\ q \in Seq(Add) /\ OnlyChanges(w)
      /\ open[w] \in [Ports -> Nat] /\ open'[w] = [open[w] EXCEPT ![p] = open[w][p] + 1]
      /\ total' = total /\ port' = port
  BY DEF CInv, CountersTypeOK, RecordRequest, OnlyChanges
<1> HIDE DEF q
<1>3. CallsInProgress'
  BY <1>1, <1>2 DEF CInv, CallsInProgress, OnlyChanges, Begun
<1>4. \A to \in Everywhere :
        OpenAt(open'[w], to) = IF to \in {p, "total"} THEN OpenAt(open[w], to) + 1
                               ELSE OpenAt(open[w], to)
  <2>1. open[w][p] + 1 \in Nat /\ open[w][p] \in Nat
    BY <1>2
  <2>2. \A to \in Everywhere : OpenAt(open[w], to) \in Nat
    BY <1>2, OpenType
  <2>3. \A to \in Everywhere :
          OpenAt([open[w] EXCEPT ![p] = open[w][p] + 1], to)
            = IF to \in {p, "total"} THEN OpenAt(open[w], to) + (open[w][p] + 1) - open[w][p]
              ELSE OpenAt(open[w], to)
    BY ONLY <1>2, <2>1, p \in Ports, OpenChanges
  <2> QED BY <1>2, <2>1, <2>2, <2>3
<1>5. \A to \in Everywhere :
        /\ LeftIn(adds'[w], to, "requests") = IF to \in {p, "total"} THEN 1 ELSE 0
        /\ LeftIn(adds'[w], to, "responses") = 0
        /\ LeftIn(adds[w], to, "requests") = 0
        /\ LeftIn(adds[w], to, "responses") = 0
  <2>1. \A to \in Everywhere : to = "total" \/ to = p \/ to \in Ports \ {p}
    BY DEF Everywhere
  <2> QED BY <1>1, <1>2, <2>1, LeftNothing, CountersAssumption DEF Begun
<1>6. RequestsAreOpen'
  <2> SUFFICES ASSUME NEW v \in Workers, NEW to \in Everywhere
               PROVE  LeftIn(adds'[v], to, "requests") <= OpenAt(open'[v], to)
    BY DEF RequestsAreOpen, Everywhere
  <2>1. CASE v # w
    BY <1>2, <2>1 DEF CInv, RequestsAreOpen, OnlyChanges
  <2>2. CASE v = w
    <3>1. OpenAt(open[w], to) \in Nat
      BY <1>2, OpenType
    <3> QED BY <1>4, <1>5, <2>2, <3>1
  <2> QED BY <2>1, <2>2
<1>7. PortsAccountForTotal'
  <2> SUFFICES ASSUME NEW c \in Counter
               PROVE  total'[c] + LeftIn(adds'[w], "total", c) + SumPorts(c) + LeftInPorts(adds[w], c)
                        = total[c] + LeftIn(adds[w], "total", c) + SumPorts(c)' + LeftInPorts(adds'[w], c)
    BY <1>2, AccountStep DEF CInv
  <2>1. LeftIn(adds[w], "total", c) = 0 /\ LeftInPorts(adds[w], c) = 0
    BY <1>2, LeftNothing, NothingInPorts
  <2>2. LeftInPorts(q, c) = LeftIn(q, p, c) /\ LeftIn(q, "total", c) = LeftIn(q, p, c)
    BY <1>1, <1>2, OnePortSum DEF Begun
  <2>3. SumPorts(c)' = SumPorts(c)
    BY <1>2 DEF SumPorts
  <2>4. LeftIn(q, p, c) \in Nat /\ SumPorts(c) \in Nat /\ total[c] \in Nat
    BY <1>2, LeftType, SumPortsType DEF CInv, CountersTypeOK, Values, SumPorts
  <2> QED BY <1>2, <2>1, <2>2, <2>3, <2>4
<1>8. ResponsesAreOwed'
  <2> SUFFICES ASSUME NEW to \in Everywhere
               PROVE  Shown(to, "responses")' + Owed(w, to)' + Shown(to, "requests")
                        <= Shown(to, "requests")' + Owed(w, to) + Shown(to, "responses")
    BY <1>2, <1>6, OwedStep DEF CInv
  <2>1. /\ Shown(to, "responses")' = Shown(to, "responses")
        /\ Shown(to, "requests")' = Shown(to, "requests")
    BY <1>2 DEF Shown
  <2>2. Shown(to, "responses") \in Nat /\ Shown(to, "requests") \in Nat
    BY ShownType DEF CInv, Counter
  <2>3. OpenAt(open[w], to) \in Nat
    BY <1>2, OpenType
  <2>4. Owed(w, to)' = Owed(w, to) /\ Owed(w, to) \in Nat
    BY <1>4, <1>5, <2>3 DEF Owed
  <2> QED BY <2>1, <2>2, <2>4
<1> QED BY <1>3, <1>6, <1>7, <1>8 DEF CInv

LEMMA ResponseKeeps ==
  ASSUME CInv, CountersTypeOK', NEW w \in Workers, NEW p \in Ports,
         RecordResponse(w, p)
  PROVE  CInv'
<1> DEFINE q == Record(p, "responses", "responseBytes", ResponseSize)
<1>1. Begun(q, p, "responses", "responseBytes", ResponseSize)
  BY RecordBegun, CountersAssumption
<1>2. /\ adds[w] = <<>> /\ adds'[w] = q /\ q \in Seq(Add) /\ OnlyChanges(w)
      /\ open[w] \in [Ports -> Nat] /\ open'[w] = [open[w] EXCEPT ![p] = open[w][p] - 1] /\ open[w][p] > 0
      /\ total' = total /\ port' = port
  BY DEF CInv, CountersTypeOK, RecordResponse, OnlyChanges
<1> HIDE DEF q
<1>3. CallsInProgress'
  BY <1>1, <1>2 DEF CInv, CallsInProgress, OnlyChanges, Begun
<1>4. \A to \in Everywhere :
        OpenAt(open'[w], to) = IF to \in {p, "total"} THEN OpenAt(open[w], to) - 1
                               ELSE OpenAt(open[w], to)
  <2>1. open[w][p] - 1 \in Nat /\ open[w][p] \in Nat
    BY <1>2
  <2>2. \A to \in Everywhere : OpenAt(open[w], to) \in Nat
    BY <1>2, OpenType
  <2>3. \A to \in Everywhere :
          OpenAt([open[w] EXCEPT ![p] = open[w][p] - 1], to)
            = IF to \in {p, "total"} THEN OpenAt(open[w], to) + (open[w][p] - 1) - open[w][p]
              ELSE OpenAt(open[w], to)
    BY ONLY <1>2, <2>1, p \in Ports, OpenChanges
  <2> QED BY SMTT(30), <1>2, <2>1, <2>2, <2>3
<1>5. \A to \in Everywhere :
        /\ LeftIn(adds'[w], to, "requests") = 0
        /\ LeftIn(adds'[w], to, "responses") = IF to \in {p, "total"} THEN 1 ELSE 0
        /\ LeftIn(adds[w], to, "requests") = 0
        /\ LeftIn(adds[w], to, "responses") = 0
  <2>1. \A to \in Everywhere : to = "total" \/ to = p \/ to \in Ports \ {p}
    BY DEF Everywhere
  <2> QED BY <1>1, <1>2, <2>1, LeftNothing, CountersAssumption DEF Begun
<1>6. RequestsAreOpen'
  <2> SUFFICES ASSUME NEW v \in Workers, NEW to \in Everywhere
               PROVE  LeftIn(adds'[v], to, "requests") <= OpenAt(open'[v], to)
    BY DEF RequestsAreOpen, Everywhere
  <2>1. CASE v # w
    BY <1>2, <2>1 DEF CInv, RequestsAreOpen, OnlyChanges
  <2>2. CASE v = w
    <3>1. open'[w] \in [Ports -> Nat]
      BY DEF CountersTypeOK
    <3>2. OpenAt(open'[w], to) \in Nat
      BY <3>1, OpenType
    <3> QED BY <1>5, <2>2, <3>2
  <2> QED BY <2>1, <2>2
<1>7. PortsAccountForTotal'
  <2> SUFFICES ASSUME NEW c \in Counter
               PROVE  total'[c] + LeftIn(adds'[w], "total", c) + SumPorts(c) + LeftInPorts(adds[w], c)
                        = total[c] + LeftIn(adds[w], "total", c) + SumPorts(c)' + LeftInPorts(adds'[w], c)
    BY <1>2, AccountStep DEF CInv
  <2>1. LeftIn(adds[w], "total", c) = 0 /\ LeftInPorts(adds[w], c) = 0
    BY <1>2, LeftNothing, NothingInPorts
  <2>2. LeftInPorts(q, c) = LeftIn(q, p, c) /\ LeftIn(q, "total", c) = LeftIn(q, p, c)
    BY <1>1, <1>2, OnePortSum DEF Begun
  <2>3. SumPorts(c)' = SumPorts(c)
    BY <1>2 DEF SumPorts
  <2>4. LeftIn(q, p, c) \in Nat /\ SumPorts(c) \in Nat /\ total[c] \in Nat
    BY <1>2, LeftType, SumPortsType DEF CInv, CountersTypeOK, Values, SumPorts
  <2> QED BY <1>2, <2>1, <2>2, <2>3, <2>4
<1>8. ResponsesAreOwed'
  <2> SUFFICES ASSUME NEW to \in Everywhere
               PROVE  Shown(to, "responses")' + Owed(w, to)' + Shown(to, "requests")
                        <= Shown(to, "requests")' + Owed(w, to) + Shown(to, "responses")
    BY <1>2, <1>6, OwedStep DEF CInv
  <2>1. /\ Shown(to, "responses")' = Shown(to, "responses")
        /\ Shown(to, "requests")' = Shown(to, "requests")
    BY <1>2 DEF Shown
  <2>2. Shown(to, "responses") \in Nat /\ Shown(to, "requests") \in Nat
    BY ShownType DEF CInv, Counter
  <2>3. OpenAt(open[w], to) \in Nat
    BY <1>2, OpenType
  <2>4. Owed(w, to)' = Owed(w, to) /\ Owed(w, to) \in Nat
    BY <1>4, <1>5, <2>3 DEF Owed
  <2> QED BY <2>1, <2>2, <2>4
<1> QED BY <1>3, <1>6, <1>7, <1>8 DEF CInv

LEMMA AbandonKeeps ==
  ASSUME CInv, CountersTypeOK', NEW w \in Workers, NEW p \in Ports,
         Abandon(w, p)
  PROVE  CInv'
<1>1. /\ adds[w] = <<>> /\ adds' = adds /\ OnlyChanges(w)
      /\ open[w] \in [Ports -> Nat] /\ open'[w] = [open[w] EXCEPT ![p] = open[w][p] - 1] /\ open[w][p] > 0
      /\ total' = total /\ port' = port
  BY DEF CInv, CountersTypeOK, Abandon, OnlyChanges
<1>2. CallsInProgress'
  BY <1>1 DEF CInv, CallsInProgress
<1>3. \A to \in Everywhere :
        OpenAt(open'[w], to) = IF to \in {p, "total"} THEN OpenAt(open[w], to) - 1
                               ELSE OpenAt(open[w], to)
  <2>1. open[w][p] - 1 \in Nat /\ open[w][p] \in Nat
    BY <1>1
  <2>2. \A to \in Everywhere : OpenAt(open[w], to) \in Nat
    BY <1>1, OpenType
  <2>3. \A to \in Everywhere :
          OpenAt([open[w] EXCEPT ![p] = open[w][p] - 1], to)
            = IF to \in {p, "total"} THEN OpenAt(open[w], to) + (open[w][p] - 1) - open[w][p]
              ELSE OpenAt(open[w], to)
    BY ONLY <1>1, <2>1, p \in Ports, OpenChanges
  <2> QED BY <1>1, <2>1, <2>2, <2>3
<1>4. \A to : LeftIn(adds[w], to, "requests") = 0 /\ LeftIn(adds[w], to, "responses") = 0
  BY <1>1, LeftNothing
<1>5. RequestsAreOpen'
  <2> SUFFICES ASSUME NEW v \in Workers, NEW to \in Everywhere
               PROVE  LeftIn(adds'[v], to, "requests") <= OpenAt(open'[v], to)
    BY DEF RequestsAreOpen, Everywhere
  <2>1. CASE v # w
    BY <1>1, <2>1 DEF CInv, RequestsAreOpen, OnlyChanges
  <2>2. CASE v = w
    <3>1. open'[w] \in [Ports -> Nat]
      BY DEF CountersTypeOK
    <3>2. OpenAt(open'[w], to) \in Nat
      BY <3>1, OpenType
    <3> QED BY <1>1, <1>4, <2>2, <3>2
  <2> QED BY <2>1, <2>2
<1>6. PortsAccountForTotal'
  <2> SUFFICES ASSUME NEW c \in Counter
               PROVE  total'[c] + LeftIn(adds'[w], "total", c) + SumPorts(c) + LeftInPorts(adds[w], c)
                        = total[c] + LeftIn(adds[w], "total", c) + SumPorts(c)' + LeftInPorts(adds'[w], c)
    BY <1>1, AccountStep DEF CInv
  <2>1. SumPorts(c)' = SumPorts(c)
    BY <1>1 DEF SumPorts
  <2> QED BY <1>1, <2>1
<1>7. ResponsesAreOwed'
  <2> SUFFICES ASSUME NEW to \in Everywhere
               PROVE  Shown(to, "responses")' + Owed(w, to)' + Shown(to, "requests")
                        <= Shown(to, "requests")' + Owed(w, to) + Shown(to, "responses")
    BY <1>1, <1>5, OwedStep DEF CInv
  <2>1. /\ Shown(to, "responses")' = Shown(to, "responses")
        /\ Shown(to, "requests")' = Shown(to, "requests")
    BY <1>1 DEF Shown
  <2>2. Shown(to, "responses") \in Nat /\ Shown(to, "requests") \in Nat
    BY ShownType DEF CInv, Counter
  <2>3. OpenAt(open[w], to) \in Nat
    BY <1>1, OpenType
  <2>4. Owed(w, to)' <= Owed(w, to) /\ Owed(w, to) \in Nat /\ Owed(w, to)' \in Int
    BY <1>1, <1>3, <1>4, <2>3 DEF Owed
  <2> QED BY <2>1, <2>2, <2>4
<1> QED BY <1>2, <1>5, <1>6, <1>7 DEF CInv

(***************************************************************************)
(* One add, to the totals or to a port: the reader sees the share that is  *)
(* no longer left.                                                         *)
(***************************************************************************)
LEMMA AddKeeps ==
  ASSUME CInv, CountersTypeOK', NEW w \in Workers, adds[w] # <<>>,
         adds' = [adds EXCEPT ![w] = Tail(@)], open' = open,
         \A c \in Counter :
           /\ total'[c] = total[c] + Share(Head(adds[w]), "total", c)
           /\ \A p \in Ports : port'[p][c] = port[p][c] + Share(Head(adds[w]), p, c)
  PROVE  CInv'
<1> DEFINE q == adds[w]
           a == Head(q)
<1>1. /\ q \in Seq(Add) /\ q # <<>> /\ adds'[w] = Tail(q) /\ Tail(q) \in Seq(Add)
      /\ a \in Add /\ OnlyChanges(w) /\ open[w] \in [Ports -> Nat]
  BY HeadTailProperties DEF CInv, CountersTypeOK, OnlyChanges
<1>2. \A to, c : /\ LeftIn(q, to, c) = LeftIn(Tail(q), to, c) + Share(a, to, c)
                 /\ LeftIn(q, to, c) \in Nat /\ LeftIn(Tail(q), to, c) \in Nat
                 /\ Share(a, to, c) \in Nat
  <2>1. \A to, c : LeftIn(q, to, c) \in Nat /\ LeftIn(Tail(q), to, c) \in Nat
    BY <1>1, LeftType
  <2>2. \A to, c : Share(a, to, c) \in Nat
    BY <1>1 DEF Share, Add
  <2> QED BY <1>1, <2>1, <2>2, LeftHead
<1> HIDE DEF q, a
<1>3. CallsInProgress'
  BY <1>1, CallTail DEF CInv, CallsInProgress, OnlyChanges, q
<1>4. RequestsAreOpen'
  <2> SUFFICES ASSUME NEW v \in Workers, NEW to \in Everywhere
               PROVE  LeftIn(adds'[v], to, "requests") <= OpenAt(open'[v], to)
    BY DEF RequestsAreOpen, Everywhere
  <2>1. CASE v # w
    BY <1>1, <2>1 DEF CInv, RequestsAreOpen, OnlyChanges
  <2>2. CASE v = w
    <3>1. OpenAt(open[w], to) \in Nat /\ LeftIn(q, to, "requests") <= OpenAt(open[w], to)
      BY <1>1, OpenType DEF CInv, RequestsAreOpen, q
    <3>2. LeftIn(Tail(q), to, "requests") <= LeftIn(q, to, "requests")
      BY <1>2
    <3>3. LeftIn(Tail(q), to, "requests") \in Nat /\ LeftIn(q, to, "requests") \in Nat
      BY <1>2
    <3>4. LeftIn(Tail(q), to, "requests") <= OpenAt(open[w], to)
      BY <3>1, <3>2, <3>3
    <3> QED BY <1>1, <2>2, <3>4
  <2> QED BY <2>1, <2>2
<1>5. PortsAccountForTotal'
  <2> SUFFICES ASSUME NEW c \in Counter
               PROVE  total'[c] + LeftIn(adds'[w], "total", c) + SumPorts(c) + LeftInPorts(adds[w], c)
                        = total[c] + LeftIn(adds[w], "total", c) + SumPorts(c)' + LeftInPorts(adds'[w], c)
    BY <1>1, AccountStep DEF CInv
  <2> DEFINE s == IF a.to \in Ports THEN Share(a, a.to, c) ELSE 0
  <2>1. LeftInPorts(q, c) = LeftInPorts(Tail(q), c) + s
    BY <1>1, InPortsHead DEF a
  <2>2. SumPorts(c)' = SumPorts(c) + s
    <3> DEFINE f == [p \in Ports |-> port[p][c]]
               f1 == [p \in Ports |-> port'[p][c]]
    <3>1. SumPorts(c) = SumOver(f, Ports) /\ SumPorts(c)' = SumOver(f1, Ports)
      BY DEF SumPorts
    <3>2. \A p \in Ports : f[p] \in Nat /\ f1[p] \in Nat /\ f1[p] = f[p] + Share(a, p, c)
      BY DEF CInv, CountersTypeOK, Values, a, q
    <3>3. \A p \in Ports : p # a.to => f1[p] = f[p]
      <4>1. \A p \in Ports : p # a.to => Share(a, p, c) = 0
        BY DEF Share
      <4> QED BY <3>2, <4>1
    <3> HIDE DEF f, f1
    <3>4. SumOver(f, Ports) \in Nat /\ SumOver(f1, Ports) \in Nat
      BY <3>2, SumNat, CountersAssumption
    <3>5. CASE a.to \in Ports
      <4>1. IsFiniteSet(Ports) /\ \A p \in Ports \ {a.to} : f[p] = f1[p]
        BY <3>3, CountersAssumption
      <4>2. SumOver(f1, Ports) + f[a.to] = SumOver(f, Ports) + f1[a.to]
        BY ONLY <3>2, <3>5, <4>1, SumUpdate
      <4>3. f[a.to] \in Nat /\ f1[a.to] = f[a.to] + s /\ s \in Nat
        BY <1>2, <3>2, <3>5
      <4> HIDE DEF s
      <4> QED BY <3>1, <3>4, <4>2, <4>3
    <3>6. CASE a.to \notin Ports
      <4>1. \A p \in Ports : f[p] = f1[p]
        BY <3>3, <3>6
      <4>2. SumOver(f, Ports) = SumOver(f1, Ports)
        BY <4>1, SumEqual, CountersAssumption
      <4> QED BY <3>1, <3>4, <3>6, <4>2
    <3> QED BY <3>5, <3>6
  <2>3. total'[c] = total[c] + Share(a, "total", c)
    BY DEF a, q
  <2>4. s \in Nat /\ total[c] \in Nat /\ SumPorts(c) \in Nat /\ LeftInPorts(Tail(q), c) \in Nat
    BY <1>1, <1>2, SumPortsType, InPortsType DEF CInv, CountersTypeOK, Values, SumPorts
  <2>5. LeftIn(q, "total", c) = LeftIn(Tail(q), "total", c) + Share(a, "total", c)
    BY <1>2
  <2> HIDE DEF s
  <2>6. total'[c] + LeftIn(Tail(q), "total", c) + SumPorts(c) + LeftInPorts(q, c)
          = total[c] + LeftIn(q, "total", c) + SumPorts(c)' + LeftInPorts(Tail(q), c)
    BY SMTT(30), <1>2, <2>1, <2>2, <2>3, <2>4, <2>5
  <2> QED BY <1>1, <2>6 DEF q
<1>6. ResponsesAreOwed'
  <2> SUFFICES ASSUME NEW to \in Everywhere
               PROVE  Shown(to, "responses")' + Owed(w, to)' + Shown(to, "requests")
                        <= Shown(to, "requests")' + Owed(w, to) + Shown(to, "responses")
    BY <1>1, <1>4, OwedStep DEF CInv
  <2>1. /\ Shown(to, "responses")' = Shown(to, "responses") + Share(a, to, "responses")
        /\ Shown(to, "requests")' = Shown(to, "requests") + Share(a, to, "requests")
    BY DEF Shown, Everywhere, Counter, a, q
  <2>2. Shown(to, "responses") \in Nat /\ Shown(to, "requests") \in Nat
    BY ShownType DEF CInv, Counter
  <2>3. OpenAt(open[w], to) \in Nat
    BY <1>1, OpenType
  <2>4. /\ Owed(w, to)' = OpenAt(open[w], to) + LeftIn(Tail(q), to, "responses")
                            - LeftIn(Tail(q), to, "requests")
        /\ Owed(w, to) = OpenAt(open[w], to) + LeftIn(q, to, "responses")
                           - LeftIn(q, to, "requests")
    BY <1>1 DEF Owed, q
  <2>5. /\ LeftIn(q, to, "responses")
             = LeftIn(Tail(q), to, "responses") + Share(a, to, "responses")
        /\ LeftIn(q, to, "requests")
             = LeftIn(Tail(q), to, "requests") + Share(a, to, "requests")
        /\ Share(a, to, "responses") \in Nat /\ Share(a, to, "requests") \in Nat
        /\ LeftIn(Tail(q), to, "responses") \in Nat
        /\ LeftIn(Tail(q), to, "requests") \in Nat
    BY <1>2
  <2> QED BY SMTT(30), <2>1, <2>2, <2>3, <2>4, <2>5
<1> QED BY <1>3, <1>4, <1>5, <1>6 DEF CInv

LEMMA TotalKeeps ==
  ASSUME CInv, CountersTypeOK', NEW w \in Workers, AddTotal(w)
  PROVE  CInv'
<1> DEFINE a == Head(adds[w])
<1>1. adds[w] \in Seq(Add) /\ adds[w] # <<>>
  BY DEF CInv, CountersTypeOK, AddTotal
<1>2. a \in Add /\ a.to = "total"
  BY <1>1, HeadTailProperties DEF AddTotal
<1>3. total' = [total EXCEPT ![a.counter] = @ + a.n] /\ port' = port
  BY DEF AddTotal
<1> HIDE DEF a
<1>4. \A c \in Counter : total'[c] = total[c] + Share(a, "total", c)
  BY <1>2, <1>3 DEF CInv, CountersTypeOK, Values, Share, Add
<1>5. \A c \in Counter, p \in Ports : port'[p][c] = port[p][c] + Share(a, p, c)
  <2>1. \A c \in Counter, p \in Ports : Share(a, p, c) = 0 /\ port[p][c] \in Nat
    BY <1>2, CountersAssumption DEF Share, CInv, CountersTypeOK, Values
  <2> QED BY <1>3, <2>1
<1> QED BY <1>1, <1>4, <1>5, AddKeeps DEF AddTotal, a

LEMMA PortKeeps ==
  ASSUME CInv, CountersTypeOK', NEW w \in Workers, AddPort(w)
  PROVE  CInv'
<1> DEFINE a == Head(adds[w])
<1>1. adds[w] \in Seq(Add) /\ adds[w] # <<>>
  BY DEF CInv, CountersTypeOK, AddPort
<1>2. a \in Add /\ a.to \in Ports
  BY <1>1, HeadTailProperties DEF AddPort
<1>3. port' = [port EXCEPT ![a.to][a.counter] = @ + a.n] /\ total' = total
  BY DEF AddPort
<1> HIDE DEF a
<1>4. \A c \in Counter, p \in Ports : port'[p][c] = port[p][c] + Share(a, p, c)
  BY <1>2, <1>3 DEF CInv, CountersTypeOK, Values, Share, Add
<1>5. \A c \in Counter : total'[c] = total[c] + Share(a, "total", c)
  <2>1. \A c \in Counter : Share(a, "total", c) = 0 /\ total[c] \in Nat
    BY <1>2, CountersAssumption DEF Share, CInv, CountersTypeOK, Values
  <2> QED BY <1>3, <2>1
<1> QED BY <1>1, <1>4, <1>5, AddKeeps DEF AddPort, a

LEMMA WorkerKeeps == CInv /\ WorkerStep => CInv'
<1> SUFFICES ASSUME CInv, WorkerStep PROVE CInv'
  OBVIOUS
<1>1. CountersTypeOK'
  BY WorkerGrows DEF CInv
<1> QED
  BY <1>1, RequestKeeps, ResponseKeeps, AbandonKeeps, TotalKeeps, PortKeeps DEF WorkerStep

LEMMA CountersStart == CountersInit => CInv
<1> SUFFICES ASSUME CountersInit PROVE CInv
  OBVIOUS
<1>1. Zero \in Values /\ \A c \in Counter : Zero[c] = 0
  BY DEF Zero, Values
<1>2. CountersTypeOK
  BY <1>1 DEF CountersInit, CountersTypeOK
<1>3. \A w \in Workers : adds[w] = <<>>
  BY DEF CountersInit
<1>4. CallsInProgress
  BY <1>3 DEF CallsInProgress, Call
<1>5. \A w \in Workers, to \in Everywhere : OpenAt(open[w], to) = 0
  <2> SUFFICES ASSUME NEW w \in Workers PROVE \A to \in Everywhere : OpenAt(open[w], to) = 0
    OBVIOUS
  <2>1. \A p \in Ports : open[w][p] = 0
    BY DEF CountersInit
  <2>2. SumOver(open[w], Ports) = 0
    BY <2>1, SumZero, CountersAssumption
  <2> QED BY <2>1, <2>2 DEF OpenAt, Everywhere
<1>6. RequestsAreOpen
  BY <1>3, <1>5, LeftNothing DEF RequestsAreOpen
<1>7. PortsAccountForTotal
  <2> SUFFICES ASSUME NEW c \in Counter
               PROVE  total[c] + SumOver([w \in Workers |-> LeftIn(adds[w], "total", c)], Workers)
                 = SumPorts(c) + SumOver([w \in Workers |-> LeftInPorts(adds[w], c)], Workers)
    BY DEF PortsAccountForTotal
  <2> DEFINE f == [w \in Workers |-> LeftIn(adds[w], "total", c)]
             g == [w \in Workers |-> LeftInPorts(adds[w], c)]
             k == [p \in Ports |-> port[p][c]]
  <2>1. /\ \A w \in Workers : f[w] = 0 /\ g[w] = 0
        /\ \A p \in Ports : k[p] = 0
    BY <1>1, <1>3, LeftNothing, NothingInPorts DEF CountersInit
  <2> HIDE DEF f, g, k
  <2>2. SumOver(f, Workers) = 0 /\ SumOver(g, Workers) = 0 /\ SumOver(k, Ports) = 0
    BY <2>1, SumZero, CountersAssumption
  <2>3. total[c] = 0
    BY <1>1 DEF CountersInit
  <2> QED BY <2>2, <2>3 DEF SumPorts, f, g, k
<1>8. ResponsesAreOwed
  <2> SUFFICES ASSUME NEW to \in Everywhere
               PROVE  Shown(to, "responses") + SumOver([w \in Workers |-> Owed(w, to)], Workers)
                        <= Shown(to, "requests")
    BY DEF ResponsesAreOwed
  <2> DEFINE f == [w \in Workers |-> Owed(w, to)]
  <2>1. \A w \in Workers : f[w] = 0
    BY <1>3, <1>5, LeftNothing DEF Owed
  <2> HIDE DEF f
  <2>2. SumOver(f, Workers) = 0
    BY <2>1, SumZero, CountersAssumption
  <2>3. Shown(to, "responses") = 0 /\ Shown(to, "requests") = 0
    BY <1>1 DEF CountersInit, Shown, Everywhere, Counter
  <2> QED BY <2>2, <2>3 DEF f
<1> QED BY <1>2, <1>4, <1>6, <1>7, <1>8 DEF CInv

(***************************************************************************)
(* What a reader may rely on at any moment: the ports' counters stay below *)
(* the totals, behind by at most one request or response per worker, and   *)
(* responses stay below requests.                                          *)
(***************************************************************************)
LEMMA ResponsesBehind == CInv => ResponsesFollowRequests
<1> SUFFICES ASSUME CInv PROVE ResponsesFollowRequests
  OBVIOUS
<1>1. ASSUME NEW to \in Everywhere PROVE Shown(to, "responses") <= Shown(to, "requests")
  <2> DEFINE f == [w \in Workers |-> Owed(w, to)]
  <2>1. ASSUME NEW w \in Workers PROVE f[w] \in Nat
    BY OwedType DEF CInv, CountersTypeOK, RequestsAreOpen, Owed
  <2>2. Shown(to, "responses") + SumOver(f, Workers) <= Shown(to, "requests")
    BY DEF CInv, ResponsesAreOwed
  <2> HIDE DEF f
  <2>3. SumOver(f, Workers) \in Nat
    BY <2>1, SumNat, CountersAssumption
  <2>4. Shown(to, "responses") \in Nat /\ Shown(to, "requests") \in Nat
    BY ShownType DEF CInv, Counter
  <2> QED BY <2>2, <2>3, <2>4
<1>2. total["responses"] <= total["requests"]
  BY <1>1 DEF Shown, Everywhere
<1>3. \A p \in Ports : port[p]["responses"] <= port[p]["requests"]
  BY <1>1, CountersAssumption DEF Shown, Everywhere
<1> QED BY <1>2, <1>3 DEF ResponsesFollowRequests

LEMMA PortsBehind ==
  ASSUME CInv, NEW c \in Counter
  PROVE  /\ SumPorts(c) <= total[c]
         /\ total[c] <= SumPorts(c) + SumOver([w \in Workers |-> LeftInPorts(adds[w], c)], Workers)
<1> DEFINE f == [w \in Workers |-> LeftIn(adds[w], "total", c)]
           g == [w \in Workers |-> LeftInPorts(adds[w], c)]
<1>1. \A w \in Workers : adds[w] \in Seq(Add) /\ Call(adds[w])
  BY DEF CInv, CountersTypeOK, CallsInProgress
<1>2. \A w \in Workers : f[w] \in Nat /\ g[w] \in Nat /\ f[w] <= g[w]
  BY <1>1, LeftType, InPortsType, CallAmounts
<1>3. total[c] + SumOver(f, Workers) = SumPorts(c) + SumOver(g, Workers)
  BY DEF CInv, PortsAccountForTotal
<1>4. total[c] \in Nat /\ SumPorts(c) \in Nat
  BY SumPortsType DEF CInv, CountersTypeOK, Values, SumPorts
<1> HIDE DEF f, g
<1>5. SumOver(f, Workers) <= SumOver(g, Workers)
  BY <1>2, SumAtMost, CountersAssumption
<1>6. SumOver(f, Workers) \in Nat /\ SumOver(g, Workers) \in Nat
  BY <1>2, SumNat, CountersAssumption
<1>7. SumPorts(c) <= total[c] /\ total[c] <= SumPorts(c) + SumOver(g, Workers)
  BY <1>3, <1>4, <1>5, <1>6
<1> QED BY <1>7 DEF g

LEMMA CallsPerWorker ==
  ASSUME CInv
  PROVE  total["requests"] + total["responses"]
           <= SumPorts("requests") + SumPorts("responses") + Cardinality(Workers)
<1> DEFINE f == [w \in Workers |-> LeftInPorts(adds[w], "requests")]
           g == [w \in Workers |-> LeftInPorts(adds[w], "responses")]
           h == [w \in Workers |-> f[w] + g[w]]
           one == [w \in Workers |-> 1]
<1>1. \A w \in Workers : adds[w] \in Seq(Add) /\ Call(adds[w])
  BY DEF CInv, CountersTypeOK, CallsInProgress
<1>2. \A w \in Workers : /\ f[w] \in Nat /\ g[w] \in Nat /\ h[w] = f[w] + g[w]
                         /\ h[w] \in Nat /\ one[w] \in Nat /\ h[w] <= one[w]
  BY <1>1, InPortsType, CallAmounts
<1>3. \A w \in Workers : one[w] = 1
  OBVIOUS
<1>4. /\ total["requests"] <= SumPorts("requests") + SumOver(f, Workers)
      /\ total["responses"] <= SumPorts("responses") + SumOver(g, Workers)
  BY PortsBehind DEF Counter
<1>5. /\ total["requests"] \in Nat /\ SumPorts("requests") \in Nat
      /\ total["responses"] \in Nat /\ SumPorts("responses") \in Nat
  BY SumPortsType DEF CInv, CountersTypeOK, Values, SumPorts, Counter
<1> HIDE DEF f, g, h, one
<1>6. SumOver(h, Workers) = SumOver(f, Workers) + SumOver(g, Workers)
  BY <1>2, SumOfSums, CountersAssumption
<1>7. SumOver(h, Workers) <= SumOver(one, Workers)
  BY <1>2, SumAtMost, CountersAssumption
<1>8. SumOver(one, Workers) = Cardinality(Workers)
  BY <1>3, SumOnes, CountersAssumption
<1>9. SumOver(f, Workers) \in Nat /\ SumOver(g, Workers) \in Nat
  BY <1>2, SumNat, CountersAssumption
<1>10. SumOver(f, Workers) + SumOver(g, Workers) <= Cardinality(Workers) /\ Cardinality(Workers) \in Nat
  BY <1>6, <1>7, <1>8, FS_CardinalityType, CountersAssumption
<1> QED BY <1>4, <1>5, <1>9, <1>10
=============================================================================
