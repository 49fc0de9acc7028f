---------------------------- MODULE Slave104Proofs ----------------------------
(***************************************************************************)
(* Proofs about Slave104, for every number of connections and frames, every  *)
(* splitting of the streams, every size of the transmit tables and of bytes. *)
(***************************************************************************)
EXTENDS Slave104, FiniteSetTheorems, SequenceTheorems, TLAPS

-----------------------------------------------------------------------------
(* The numbers.                                                            *)

(* A byte has two halves, and a number more values than one of them.         *)
LEMMA HalfFacts ==
    /\ Half \in Nat /\ Half >= 1 /\ ByteValues = 2 * Half
    /\ Half * ByteValues \in Nat /\ Half * ByteValues >= Half
    /\ ByteValues * ByteValues \in Nat /\ ByteValues * ByteValues >= Half
<1>1. Half \in Nat /\ Half >= 1 /\ ByteValues = 2 * Half
  BY SlaveAssumption DEF Half
<1>2. \A x, y \in Nat : x * y \in Nat /\ (x >= 1 => x * y >= y)
  OBVIOUS
<1>3. QED
  BY <1>1, <1>2

(* A number in range stays itself.                                          *)
LEMMA ModFacts ==
    ASSUME NEW x \in Nat, NEW n \in Nat, n >= 1
    PROVE  x % n \in 0..(n - 1) /\ (x < n => x % n = x) /\ (x < n => x \div n = 0)
OBVIOUS

(* What a station reads is what was meant, up to 127.                        *)
LEMMA NumberIsRight ==
    ASSUME NEW x \in Nat
    PROVE  Number(x) \in Nat /\ (x < Half => Number(x) = x)
<1>1. CASE x < Half
  <2> DEFINE y == x * 2
  <2>0. y \in Nat /\ y < ByteValues /\ y \div 2 = x /\ ByteValues \in Nat /\ ByteValues >= 1
    BY <1>1, HalfFacts
  <2> HIDE DEF y
  <2>1. Low(x) = y /\ Low(x) \div 2 = x
    BY <2>0, ModFacts DEF Low, y
  <2>2. High(x) = 0
    BY <1>1, HalfFacts, ModFacts DEF High
  <2>3. High(x) * Half = 0
    BY <2>2, HalfFacts
  <2>4. QED
    BY <2>1, <2>3 DEF Number
<1>2. Number(x) \in Nat
  <2>1. Low(x) \in Nat
    BY HalfFacts, ModFacts DEF Low
  <2>2. x \div ByteValues \in Nat
    BY HalfFacts
  <2>3. High(x) \in Nat
    BY <2>2, HalfFacts, ModFacts DEF High
  <2>4. Low(x) \div 2 \in Nat /\ High(x) * Half \in Nat
    BY <2>1, <2>3, HalfFacts
  <2>5. QED
    BY <2>4 DEF Number
<1>3. QED
  BY <1>1, <1>2
-----------------------------------------------------------------------------
(* The loops of an interrogation.                                          *)

(* They end after as many rounds as it takes to send all points.             *)
LEMMA RoundsFacts ==
    ASSUME NEW num \in Nat, num >= 1
    PROVE  /\ Rounds(num) \in 1..(num + 1)
           /\ num <= Rounds(num) * SQ_MAX_NUM
           /\ (Rounds(num) - 1) * SQ_MAX_NUM < num
<1> DEFINE M == SQ_MAX_NUM
           d == (num - 1) \div M
           r0 == d + 1
<1>1. M \in Nat /\ M >= 1
  BY SlaveAssumption
<1>2. d \in Nat /\ d * M <= num - 1 /\ num - 1 < d * M + M
  BY <1>1
<1>3. \A x, y \in Nat : x <= y => x * M <= y * M
  BY <1>1
<1>4. \A x \in Nat : x * M <= num => x <= num \div M
  BY <1>1
<1>5. \A x \in Nat : x <= x * M /\ (x + 1) * M = x * M + M
  BY <1>1
<1>6. num \div M \in Nat
  BY <1>1
<1> HIDE DEF d, M
<1>7. r0 \in 1..(num + 1)
  <2>1. d <= d * M /\ d * M \in Nat
    BY <1>1, <1>2, <1>5 DEF M
  <2>2. QED
    BY <1>2, <2>1
<1>8. ~GoesOn(num, r0)
  BY <1>1, <1>2, <1>5, <1>6 DEF GoesOn, M
<1>9. ASSUME NEW q \in 1..(r0 - 1) PROVE GoesOn(num, q)
  <2>1. q \in Nat /\ q <= d
    BY <1>2
  <2>2. q * M <= d * M /\ q * M \in Nat /\ d * M \in Nat
    BY <1>1, <1>2, <1>3, <2>1
  <2>3. q * M < num
    BY <1>2, <2>2
  <2>4. q <= num \div M
    BY <1>4, <2>1, <2>2, <2>3
  <2>5. QED
    BY <1>6, <2>1, <2>2, <2>3, <2>4 DEF GoesOn, M
<1>10. ASSUME NEW r \in 1..(num + 1),
              ~GoesOn(num, r), \A q \in 1..(r - 1) : GoesOn(num, q)
       PROVE  r = r0
  <2>1. ~(r < r0)
    BY <1>9, <1>7, <1>10
  <2>2. ~(r0 < r)
    BY <1>8, <1>7, <1>10
  <2>3. QED
    BY <1>7, <2>1, <2>2
<1>11. Rounds(num) = r0
  BY <1>7, <1>8, <1>9, <1>10 DEF Rounds
<1>12. QED
  BY <1>1, <1>2, <1>5, <1>7, <1>11 DEF M

(* What frames may say, and what is sent.                                   *)
Type == ITypes \cup {"S"} \cup UAct
Content == [type : Type] \cup [type : Type, first : Nat, num : Nat]
OutFrame == [content : Content] \cup [content : Content, nr : Nat]
                \cup [content : Content, ns : Nat, nr : Nat]

(* The frames with points cover them all, and nothing else.                  *)
LEMMA PointsFacts ==
    ASSUME NEW num \in Nat, NEW type \in {"yx", "yc"}
    PROVE  /\ Points(type, num) \in Seq([type : {type}, first : Nat, num : Nat])
           /\ \A r \in 1..Len(Points(type, num)) :
                 LET p == Points(type, num)[r] IN
                 \A j \in 0..(p.num - 1) : p.first + j \in 0..(num - 1)
           /\ \A x \in 0..(num - 1) :
                 \E r \in 1..Len(Points(type, num)) :
                    LET p == Points(type, num)[r] IN
                    \E j \in 0..(p.num - 1) : x = p.first + j
<1> DEFINE M == SQ_MAX_NUM
           S == [type : {type}, first : Nat, num : Nat]
           P == Points(type, num)
           R == Rounds(num)
           first(r) == (r - 1) * M
           left(r) == num - (r - 1) * M
           n(r) == IF left(r) < M THEN left(r) ELSE M
<1>1. CASE num = 0
  <2>1. P = <<>>
    BY <1>1 DEF Points
  <2>2. P \in Seq(S) /\ Len(P) = 0
    BY <2>1
  <2>3. 1..0 = {} /\ 0..(num - 1) = {}
    BY <1>1
  <2> HIDE DEF P
  <2>4. QED
    BY <2>2, <2>3 DEF P
<1>2. CASE num # 0
  <2>1. M \in Nat /\ M >= 1
    BY SlaveAssumption
  <2>2. R \in Nat /\ R >= 1 /\ num <= R * M /\ (R - 1) * M < num
    BY <1>2, RoundsFacts
  <2>3. P = [r \in 1..R |-> [type |-> type, first |-> first(r), num |-> n(r)]]
    BY <1>2 DEF Points
  <2>4. \A x, y \in Nat : x <= y => x * M <= y * M
    BY <2>1
  <2>5. \A x \in Nat : x * M \in Nat /\ (x + 1) * M = x * M + M
    BY <2>1
  <2> HIDE DEF M, R, P
  <2>6. ASSUME NEW r \in 1..R
        PROVE  /\ first(r) \in Nat /\ first(r) < num /\ left(r) \in Nat
               /\ n(r) \in Nat /\ first(r) + n(r) <= num
    <3>1. r - 1 \in Nat /\ R - 1 \in Nat /\ r - 1 <= R - 1
      BY <2>2
    <3>2. (r - 1) * M \in Nat /\ (r - 1) * M <= (R - 1) * M /\ (R - 1) * M \in Nat
      BY <3>1, <2>4, <2>5
    <3> DEFINE z == (r - 1) * M
               y == (R - 1) * M
    <3>3. z \in Nat /\ y \in Nat /\ z <= y /\ y < num /\ first(r) = z /\ left(r) = num - z
      BY <2>2, <3>2
    <3> HIDE DEF z, y, first, left
    <3>4. QED
      BY <2>1, <3>3
  <2> HIDE DEF first, n
  <2>7. P \in [1..R -> S]
    BY <2>3, <2>6
  <2>8. P \in Seq(S) /\ Len(P) = R
    <3> HIDE DEF S
    <3>1. R \in Nat
      BY <2>2
    <3>2. QED
      BY <2>7, <3>1
  <2>9. \A r \in 1..R : P[r].first = first(r) /\ P[r].num = n(r)
    BY <2>3
  <2>10. \A r \in 1..R : \A j \in 0..(P[r].num - 1) : P[r].first + j \in 0..(num - 1)
    BY <2>6, <2>9
  <2>11. ASSUME NEW x \in 0..(num - 1)
         PROVE  \E r \in 1..R : \E j \in 0..(P[r].num - 1) : x = P[r].first + j
    <3> DEFINE q == x \div M
               z == q * M
    <3>1. q \in Nat /\ z \in Nat /\ z <= x /\ x < z + M
      BY <2>1
    <3>2. z + M = (q + 1) * M
      BY <3>1, <2>5
    <3> HIDE DEF q
    <3>3. q + 1 <= R
      <4>1. CASE R <= q
        <5>1. R * M <= z
          BY <2>2, <2>4, <3>1, <4>1
        <5>2. R * M \in Nat
          BY <2>2, <2>5
        <5>3. FALSE
          BY <2>2, <3>1, <5>1, <5>2
        <5>4. QED
          BY <5>3
      <4>2. QED
        BY <2>2, <3>1, <4>1
    <3>4. q + 1 \in 1..R
      BY <2>2, <3>1, <3>3
    <3>5. first(q + 1) = z
      BY <3>1 DEF first
    <3>6. left(q + 1) = num - z
      BY <3>1
    <3> HIDE DEF z, left
    <3>7. x - z \in 0..(n(q + 1) - 1)
      BY <2>1, <3>1, <3>6 DEF n
    <3>8. x = first(q + 1) + (x - z)
      BY <3>1, <3>5
    <3>9. QED
      BY <2>9, <3>4, <3>7, <3>8
  <2>12. QED
    BY <2>8, <2>10, <2>11 DEF P
<1>3. QED
  BY <1>1, <1>2

(* u is s followed by t.                                                   *)
Joined(s, t, u) ==
    /\ Len(u) = Len(s) + Len(t) /\ Len(s) \in Nat /\ Len(t) \in Nat
    /\ \A i \in 1..Len(s) : u[i] = s[i]
    /\ \A i \in 1..Len(t) : u[Len(s) + i] = t[i]

LEMMA Concat ==
    ASSUME NEW S, NEW s \in Seq(S), NEW t \in Seq(S)
    PROVE  s \o t \in Seq(S) /\ Joined(s, t, s \o t)
<1> DEFINE m == Len(s)
           n == Len(t)
           u == s \o t
<1>1. /\ m \in Nat /\ n \in Nat /\ u \in Seq(S) /\ Len(u) = m + n
      /\ \A i \in 1..(m + n) : u[i] = IF i <= m THEN s[i] ELSE t[i - m]
  BY LenProperties, ConcatProperties
<1> HIDE DEF m, n, u
<1>2. /\ \A i \in 1..m : u[i] = s[i]
      /\ \A i \in 1..n : u[m + i] = t[i]
  BY <1>1
<1>3. QED
  BY <1>1, <1>2 DEF m, n, u, Joined

(* Every place of u is one of s or one of t.                                *)
LEMMA JoinedPlaces ==
    ASSUME NEW s, NEW t, NEW u, Joined(s, t, u), NEW i \in 1..Len(u)
    PROVE  \/ i \in 1..Len(s) /\ u[i] = s[i]
           \/ i - Len(s) \in 1..Len(t) /\ u[i] = t[i - Len(s)]
<1>1. CASE i <= Len(s)
  BY <1>1 DEF Joined
<1>2. CASE ~(i <= Len(s))
  <2>1. i - Len(s) \in 1..Len(t) /\ Len(s) + (i - Len(s)) = i
    BY <1>2 DEF Joined
  <2>2. u[Len(s) + (i - Len(s))] = t[i - Len(s)]
    BY <2>1 DEF Joined
  <2>3. QED
    BY <2>1, <2>2
<1>3. QED
  BY <1>1, <1>2

(* Three sequences can be joined in either order.                           *)
LEMMA JoinedLeft ==
    ASSUME NEW r, NEW w, NEW b, NEW x, NEW u, NEW v,
           Joined(r, w, u), Joined(w, b, x), Joined(r, x, v)
    PROVE  Joined(u, b, v)
<1>1. /\ Len(r) \in Nat /\ Len(w) \in Nat /\ Len(b) \in Nat
      /\ Len(u) = Len(r) + Len(w) /\ Len(x) = Len(w) + Len(b) /\ Len(v) = Len(r) + Len(x)
  BY DEF Joined
<1>2. ASSUME NEW i \in 1..Len(u) PROVE v[i] = u[i]
  <2>1. CASE i \in 1..Len(r)
    BY <2>1 DEF Joined
  <2>2. CASE ~(i \in 1..Len(r))
    <3> DEFINE j == i - Len(r)
    <3>1. j \in 1..Len(w) /\ j \in 1..Len(x) /\ Len(r) + j = i
      BY <1>1, <2>2
    <3> HIDE DEF j
    <3>2. u[Len(r) + j] = w[j] /\ x[j] = w[j] /\ v[Len(r) + j] = x[j]
      BY <3>1 DEF Joined
    <3>3. QED
      BY <3>1, <3>2
  <2>3. QED
    BY <2>1, <2>2
<1>3. ASSUME NEW i \in 1..Len(b) PROVE v[Len(u) + i] = b[i]
  <2> DEFINE j == Len(w) + i
  <2>1. j \in 1..Len(x) /\ Len(r) + j = Len(u) + i
    BY <1>1
  <2>2. x[j] = b[i]
    BY DEF Joined
  <2> HIDE DEF j
  <2>3. v[Len(r) + j] = x[j]
    BY <2>1 DEF Joined
  <2>4. QED
    BY <2>1, <2>2, <2>3
<1>4. QED
  BY <1>1, <1>2, <1>3 DEF Joined

LEMMA JoinedRight ==
    ASSUME NEW r, NEW w, NEW b, NEW x, NEW u, NEW v,
           Joined(r, w, u), Joined(u, b, v), Joined(w, b, x)
    PROVE  Joined(r, x, v)
<1>1. /\ Len(r) \in Nat /\ Len(w) \in Nat /\ Len(b) \in Nat
      /\ Len(u) = Len(r) + Len(w) /\ Len(x) = Len(w) + Len(b) /\ Len(v) = Len(u) + Len(b)
  BY DEF Joined
<1>2. ASSUME NEW i \in 1..Len(r) PROVE v[i] = r[i]
  <2>1. i \in 1..Len(u)
    BY <1>1
  <2>2. QED
    BY <2>1 DEF Joined
<1>3. ASSUME NEW i \in 1..Len(x) PROVE v[Len(r) + i] = x[i]
  <2>1. CASE i \in 1..Len(w)
    <3>1. Len(r) + i \in 1..Len(u)
      BY <1>1, <2>1
    <3>2. v[Len(r) + i] = u[Len(r) + i] /\ u[Len(r) + i] = w[i] /\ x[i] = w[i]
      BY <2>1, <3>1 DEF Joined
    <3>3. QED
      BY <3>2
  <2>2. CASE ~(i \in 1..Len(w))
    <3> DEFINE j == i - Len(w)
    <3>1. j \in 1..Len(b) /\ Len(w) + j = i /\ Len(r) + i = Len(u) + j
      BY <1>1, <2>2
    <3> HIDE DEF j
    <3>2. x[Len(w) + j] = b[j] /\ v[Len(u) + j] = b[j]
      BY <3>1 DEF Joined
    <3>3. QED
      BY <3>1, <3>2
  <2>3. QED
    BY <2>1, <2>2
<1>4. QED
  BY <1>1, <1>2, <1>3 DEF Joined

(* A sequence over a set is one over a larger set.                          *)
LEMMA LargerSeq ==
    ASSUME NEW S, NEW T, S \subseteq T, NEW s \in Seq(S)
    PROVE  s \in Seq(T)
OBVIOUS

(* An interrogation is a confirmation, the points, and the termination.       *)
LEMMA InterrogationFacts ==
    ASSUME yxNum \in Nat, ycNum \in Nat
    PROVE  LET py == Points("yx", yxNum)
               pc == Points("yc", ycNum)
               a  == Len(py)
               b  == Len(pc)
           IN  /\ a \in Nat /\ b \in Nat
               /\ Interrogation \in Seq(Content) /\ Len(Interrogation) = a + b + 2
               /\ Interrogation[1].type = "con" /\ Interrogation[a + b + 2].type = "fin"
               /\ Interrogation[1] = [type |-> "con"]
               /\ Interrogation[a + b + 2] = [type |-> "fin"]
               /\ \A k \in 1..a : Interrogation[k + 1] = py[k] /\ py[k].type = "yx"
               /\ \A k \in 1..b : Interrogation[a + k + 1] = pc[k] /\ pc[k].type = "yc"
<1> DEFINE YX == [type : {"yx"}, first : Nat, num : Nat]
           YC == [type : {"yc"}, first : Nat, num : Nat]
           py == Points("yx", yxNum)
           pc == Points("yc", ycNum)
           a  == Len(py)
           b  == Len(pc)
           S1 == <<[type |-> "con"]>>
           S4 == <<[type |-> "fin"]>>
           A  == S1 \o py
           B  == A \o pc
           C  == B \o S4
<1>1. py \in Seq(YX) /\ pc \in Seq(YC)
  BY PointsFacts
<1>2. Interrogation = C
  BY DEF Interrogation
<1>3. /\ YX \subseteq Content /\ YC \subseteq Content
      /\ [type |-> "con"] \in Content /\ [type |-> "fin"] \in Content
  BY DEF Content, Type, ITypes
<1>4. (\A y \in YX : y.type = "yx") /\ (\A y \in YC : y.type = "yc")
  OBVIOUS
<1>5. S1 \in Seq(Content) /\ S4 \in Seq(Content) /\ Len(S1) = 1 /\ Len(S4) = 1
      /\ S1[1] = [type |-> "con"] /\ S4[1] = [type |-> "fin"]
  BY <1>3
<1> HIDE DEF YX, YC, py, pc, S1, S4
<1>6. py \in Seq(Content) /\ pc \in Seq(Content)
  BY <1>1, <1>3, LargerSeq
<1>7. /\ \A k \in 1..a : py[k].type = "yx"
      /\ \A k \in 1..b : pc[k].type = "yc"
  BY <1>1, <1>4, ElementOfSeq
<1>8. /\ A \in Seq(Content) /\ Len(A) = 1 + a /\ a \in Nat
      /\ A[1] = S1[1] /\ \A i \in 1..a : A[1 + i] = py[i]
  <2>1. A \in Seq(Content) /\ Joined(S1, py, A)
    BY Zenon, <1>5, <1>6, Concat
  <2> HIDE DEF A
  <2>2. QED
    BY <1>5, <2>1 DEF Joined
<1> HIDE DEF A
<1>9. /\ B \in Seq(Content) /\ Len(B) = 1 + a + b /\ b \in Nat
      /\ \A i \in 1..(1 + a) : B[i] = A[i]
      /\ \A i \in 1..b : B[1 + a + i] = pc[i]
  <2>1. B \in Seq(Content) /\ Joined(A, pc, B)
    BY Zenon, <1>6, <1>8, Concat
  <2>2. Len(A) = 1 + a /\ b = Len(pc)
    BY <1>8
  <2> HIDE DEF B, a, b
  <2>3. QED
    BY <2>1, <2>2 DEF Joined
<1> HIDE DEF B
<1>10. /\ C \in Seq(Content) /\ Len(C) = 1 + a + b + 1
       /\ \A i \in 1..(1 + a + b) : C[i] = B[i]
       /\ C[1 + a + b + 1] = S4[1]
  <2>1. C \in Seq(Content) /\ Joined(B, S4, C)
    BY Zenon, <1>5, <1>9, Concat
  <2>2. Len(B) = 1 + a + b /\ 1 \in 1..Len(S4) /\ Len(S4) = 1
    BY <1>5, <1>9
  <2> HIDE DEF C, a, b
  <2>3. QED
    BY <2>1, <2>2 DEF Joined
<1> HIDE DEF C, a, b
<1>11. C[1] = [type |-> "con"] /\ C[a + b + 2] = [type |-> "fin"] /\ Len(C) = a + b + 2
  BY <1>5, <1>8, <1>9, <1>10
<1>12. ASSUME NEW k \in 1..a PROVE C[k + 1] = py[k]
  <2>1. k + 1 \in 1..(1 + a) /\ k + 1 \in 1..(1 + a + b) /\ k + 1 = 1 + k
    BY <1>8, <1>9
  <2>2. QED
    BY <1>8, <1>9, <1>10, <2>1
<1>13. ASSUME NEW k \in 1..b PROVE C[a + k + 1] = pc[k]
  <2>1. a + k + 1 \in 1..(1 + a + b) /\ a + k + 1 = 1 + a + k
    BY <1>8, <1>9
  <2>2. QED
    BY <1>9, <1>10, <2>1
<1>14. QED
  BY <1>2, <1>7, <1>8, <1>9, <1>10, <1>11, <1>12, <1>13 DEF py, pc, a, b

(* Its frames are of these types, and each end is where it should be.         *)
LEMMA InterrogationTypes ==
    ASSUME yxNum \in Nat, ycNum \in Nat
    PROVE  /\ Len(Interrogation) \in Nat /\ Len(Interrogation) >= 2
           /\ Interrogation[1].type = "con"
           /\ Interrogation[Len(Interrogation)].type = "fin"
           /\ \A k \in 2..(Len(Interrogation) - 1) : Interrogation[k].type \in {"yx", "yc"}
           /\ \A k \in 1..Len(Interrogation) :
                 Interrogation[k] \in Content /\ Interrogation[k].type \in ITypes
<1> DEFINE py == Points("yx", yxNum)
           pc == Points("yc", ycNum)
           a  == Len(py)
           b  == Len(pc)
           I  == Interrogation
<1>1. /\ a \in Nat /\ b \in Nat
      /\ I \in Seq(Content) /\ Len(I) = a + b + 2
      /\ I[1].type = "con" /\ I[a + b + 2].type = "fin"
      /\ \A k \in 1..a : I[k + 1] = py[k] /\ py[k].type = "yx"
      /\ \A k \in 1..b : I[a + k + 1] = pc[k] /\ pc[k].type = "yc"
  BY InterrogationFacts
<1> HIDE DEF py, pc, I, a, b
<1>2. ASSUME NEW k \in 2..(Len(I) - 1) PROVE I[k].type \in {"yx", "yc"}
  <2>1. CASE k <= a + 1
    <3>1. k - 1 \in 1..a /\ (k - 1) + 1 = k
      BY <1>1, <2>1
    <3>2. I[(k - 1) + 1].type = "yx"
      BY ZenonT(40), <1>1, <3>1
    <3>3. QED
      BY <3>1, <3>2
  <2>2. CASE k > a + 1
    <3>1. k - a - 1 \in 1..b /\ a + (k - a - 1) + 1 = k
      BY <1>1, <2>2
    <3>2. I[a + (k - a - 1) + 1].type = "yc"
      BY ZenonT(40), <1>1, <3>1
    <3>3. QED
      BY <3>1, <3>2
  <2>3. QED
    BY <1>1, <2>1, <2>2
<1>3. ASSUME NEW k \in 1..Len(I) PROVE I[k] \in Content /\ I[k].type \in ITypes
  <2>1. k = 1 \/ k = Len(I) \/ k \in 2..(Len(I) - 1)
    BY <1>1
  <2>2. I[k].type \in ITypes
    BY <1>1, <1>2, <2>1 DEF ITypes
  <2>3. QED
    BY <1>1, <2>2, ElementOfSeq
<1>4. QED
  BY <1>1, <1>2, <1>3 DEF I

(* What is sent for a frame: for an I frame all I frames of the answer, with   *)
(* the numbers as they go up, and one acknowledgement.                       *)
LEMMA ReplyFacts ==
    ASSUME yxNum \in Nat, ycNum \in Nat, NEW kind \in Kinds, NEW nr \in Nat, sendIdx \in Nat
    PROVE  /\ Reply(kind, nr) \in Seq(OutFrame) /\ Len(Reply(kind, nr)) \in Nat
           /\ kind \notin IKinds =>
                 \A i \in 1..Len(Reply(kind, nr)) :
                    Reply(kind, nr)[i].content.type \notin ITypes \cup {"S"}
           /\ kind \in IKinds =>
                 /\ Len(IFrames(kind)) \in Nat
                 /\ Len(Reply(kind, nr)) = Len(IFrames(kind)) + 1
                 /\ \A i \in 1..Len(IFrames(kind)) :
                       /\ Reply(kind, nr)[i].content = IFrames(kind)[i]
                       /\ IFrames(kind)[i].type \in ITypes
                       /\ Reply(kind, nr)[i].ns = Number(SendIdxAfter(i - 1))
                       /\ Reply(kind, nr)[i].nr = nr
                 /\ Reply(kind, nr)[Len(IFrames(kind)) + 1].content = [type |-> "S"]
                 /\ Reply(kind, nr)[Len(IFrames(kind)) + 1].content.type = "S"
                 /\ Reply(kind, nr)[Len(IFrames(kind)) + 1].nr = nr
           /\ kind \notin {"GI", "CS"} => IFrames(kind) = <<>>
           /\ kind # "GI" => \A i \in 1..Len(Reply(kind, nr)) :
                                Reply(kind, nr)[i].content.type # "con"
<1>1. CASE kind \in UAct
  <2> DEFINE x == [content |-> [type |-> kind]]
  <2>0. kind \notin IKinds
    BY <1>1 DEF UAct, IKinds
  <2>1. Reply(kind, nr) = <<x>>
    BY <1>1, <2>0 DEF Reply
  <2>2. x \in OutFrame /\ x.content.type = kind
    <3>1. kind \in Type
      BY <1>1 DEF Type
    <3>2. [type |-> kind] \in Content
      BY <3>1 DEF Content
    <3>3. QED
      BY <3>2 DEF OutFrame
  <2>3. kind \notin IKinds /\ kind \notin ITypes \cup {"S"} /\ kind \notin {"GI", "CS"}
    BY <1>1 DEF UAct, IKinds, ITypes
  <2>4. IFrames(kind) = <<>>
    BY <2>3 DEF IFrames
  <2> HIDE DEF x
  <2>5. <<x>> \in Seq(OutFrame) /\ Len(<<x>>) = 1 /\ <<x>>[1] = x
    BY <2>2
  <2>6. "con" \in ITypes
    BY DEF ITypes
  <2> DEFINE R == Reply(kind, nr)
  <2>7. /\ R \in Seq(OutFrame) /\ Len(R) \in Nat
        /\ \A i \in 1..Len(R) : R[i].content.type \notin ITypes \cup {"S"}
    BY <2>1, <2>2, <2>3, <2>5
  <2>8. \A i \in 1..Len(R) : R[i].content.type # "con"
    BY <2>6, <2>7
  <2>9. QED
    BY <2>3, <2>4, <2>7, <2>8
<1>2. CASE kind \in IKinds
  <2> DEFINE fs == IFrames(kind)
             N  == Numbered(fs, nr)
             x  == [content |-> [type |-> "S"], nr |-> nr]
             R  == Reply(kind, nr)
  <2>1. kind \notin UAct
    BY <1>2 DEF UAct, IKinds
  <2>2. R = N \o <<x>>
    BY <1>2, <2>1 DEF Reply, Ack
  <2>3. /\ fs \in Seq(Content) /\ Len(fs) \in Nat
        /\ \A i \in 1..Len(fs) : fs[i] \in Content /\ fs[i].type \in ITypes
        /\ kind # "GI" => \A i \in 1..Len(fs) : fs[i].type # "con"
        /\ kind \notin {"GI", "CS"} => fs = <<>>
    <3>1. CASE kind = "GI"
      <4>1. fs = Interrogation
        BY <3>1 DEF IFrames
      <4>2. QED
        BY <3>1, <4>1, InterrogationTypes, InterrogationFacts
    <3>2. CASE kind = "CS"
      <4>1. fs = <<[type |-> "clock"]>>
        BY <3>2 DEF IFrames
      <4>2. [type |-> "clock"] \in Content /\ "clock" \in ITypes
        BY DEF Content, Type, ITypes
      <4>3. "clock" # "con" /\ kind # "GI" /\ kind \in {"GI", "CS"}
        BY <3>2
      <4> DEFINE y == [type |-> "clock"]
      <4>4. y \in Content /\ y.type \in ITypes /\ y.type # "con"
        BY <4>2, <4>3
      <4> HIDE DEF y
      <4>5. <<y>> \in Seq(Content) /\ Len(<<y>>) = 1 /\ <<y>>[1] = y
        BY <4>4
      <4>6. fs = <<y>>
        BY <4>1 DEF y
      <4> HIDE DEF fs
      <4>7. QED
        BY <4>3, <4>4, <4>5, <4>6
    <3>3. CASE kind \notin {"GI", "CS"}
      <4>1. fs = <<>>
        BY <3>3 DEF IFrames
      <4>2. <<>> \in Seq(Content) /\ Len(<<>>) = 0
        OBVIOUS
      <4> HIDE DEF fs
      <4>3. QED
        BY <4>1, <4>2
    <3>4. QED
      BY <3>1, <3>2, <3>3
  <2> HIDE DEF fs
  <2>4. /\ N = [i \in 1..Len(fs) |-> [content |-> fs[i], ns |-> Number(SendIdxAfter(i - 1)),
                                      nr |-> nr]]
    BY <2>3 DEF Numbered
  <2>5. \A i \in 1..Len(fs) : Number(SendIdxAfter(i - 1)) \in Nat
    <3> SUFFICES ASSUME NEW i \in 1..Len(fs) PROVE Number(SendIdxAfter(i - 1)) \in Nat
      OBVIOUS
    <3> DEFINE y == sendIdx + (i - 1)
    <3>1. y \in Nat
      BY <2>3
    <3> DEFINE n == Half * ByteValues
    <3>2. n \in Nat /\ n >= 1
      BY HalfFacts
    <3>3. SendIdxAfter(i - 1) = y % n
      BY DEF SendIdxAfter
    <3> HIDE DEF y, n
    <3>4. SendIdxAfter(i - 1) \in Nat
      BY <3>1, <3>2, <3>3, ModFacts
    <3>5. QED
      BY <3>4, NumberIsRight
  <2>6. \A i \in 1..Len(fs) : N[i] \in OutFrame
    BY <2>3, <2>4, <2>5 DEF OutFrame
  <2>7. N \in Seq(OutFrame) /\ Len(N) = Len(fs)
    <3>1. N \in [1..Len(fs) -> OutFrame]
      BY <2>4, <2>6
    <3> HIDE DEF N
    <3>2. QED
      BY <2>3, <3>1
  <2>8. x \in OutFrame /\ x.content = [type |-> "S"] /\ x.content.type = "S" /\ x.nr = nr
    BY DEF OutFrame, Content, Type
  <2>9. \A i \in 1..Len(fs) : N[i].content = fs[i] /\ N[i].nr = nr
                              /\ N[i].ns = Number(SendIdxAfter(i - 1))
    BY <2>4
  <2> HIDE DEF N, x
  <2>10. <<x>> \in Seq(OutFrame) /\ Len(<<x>>) = 1 /\ <<x>>[1] = x
    BY <2>8
  <2> HIDE DEF R
  <2>11. R \in Seq(OutFrame) /\ Joined(N, <<x>>, R)
    BY Zenon, <2>2, <2>7, <2>10, Concat
  <2>12. /\ Len(R) = Len(fs) + 1
         /\ \A i \in 1..Len(fs) : R[i] = N[i]
         /\ R[Len(fs) + 1] = x
    BY <2>3, <2>7, <2>10, <2>11 DEF Joined
  <2>13. kind # "GI" => \A i \in 1..Len(R) : R[i].content.type # "con"
    <3> SUFFICES ASSUME kind # "GI", NEW i \in 1..Len(R) PROVE R[i].content.type # "con"
      OBVIOUS
    <3>1. i \in 1..Len(fs) \/ i = Len(fs) + 1
      BY <2>3, <2>12
    <3>2. QED
      BY <2>3, <2>8, <2>9, <2>12, <3>1
  <2>14. QED
    BY <1>2, <2>3, <2>8, <2>9, <2>11, <2>12, <2>13 DEF fs, R
<1>3. CASE kind \notin UAct /\ kind \notin IKinds
  <2>1. Reply(kind, nr) = <<>>
    BY <1>3 DEF Reply
  <2>2. IFrames(kind) = <<>>
    BY <1>3 DEF IFrames, IKinds
  <2>3. QED
    BY <1>3, <2>1, <2>2
<1>4. QED
  BY <1>1, <1>2, <1>3
-----------------------------------------------------------------------------
(* Frames and bytes.                                                       *)

(* A sequence in two parts.                                                 *)
LEMMA Split ==
    ASSUME NEW S, NEW s \in Seq(S), NEW n \in 0..Len(s)
    PROVE  LET a == SubSeq(s, 1, n)
               b == SubSeq(s, n + 1, Len(s))
           IN  a \in Seq(S) /\ b \in Seq(S) /\ Joined(a, b, s) /\ Len(a) = n
<1> DEFINE a == SubSeq(s, 1, n)
           b == SubSeq(s, n + 1, Len(s))
<1>0. Len(s) \in Nat /\ n \in Nat /\ n <= Len(s)
  OBVIOUS
<1>1. a \in Seq(S) /\ Len(a) = n /\ \A i \in 1..n : a[i] = s[i]
  BY <1>0
<1>2. b \in Seq(S) /\ Len(b) = Len(s) - n /\ \A i \in 1..(Len(s) - n) : b[i] = s[n + i]
  <2> DEFINE m == Len(s)
  <2>1. m \in Int /\ n + 1 \in Int /\ \A i \in (n + 1)..m : s[i] \in S
    BY <1>0, ElementOfSeq
  <2> HIDE DEF m
  <2>2. /\ SubSeq(s, n + 1, m) \in Seq(S)
        /\ Len(SubSeq(s, n + 1, m)) = IF n + 1 <= m THEN m - (n + 1) + 1 ELSE 0
        /\ \A i \in 1..(m - (n + 1) + 1) : SubSeq(s, n + 1, m)[i] = s[(n + 1) + i - 1]
    BY <2>1, SubSeqProperties
  <2>3. /\ (IF n + 1 <= m THEN m - (n + 1) + 1 ELSE 0) = m - n
        /\ m - (n + 1) + 1 = m - n
    BY <1>0 DEF m
  <2> DEFINE t == SubSeq(s, n + 1, m)
  <2> HIDE DEF t
  <2>4. t \in Seq(S) /\ Len(t) = m - n
    BY <2>2, <2>3 DEF t
  <2>5. \A i \in 1..(m - n) : t[i] = s[n + i]
    <3> SUFFICES ASSUME NEW i \in 1..(m - n) PROVE t[i] = s[n + i]
      OBVIOUS
    <3>1. (n + 1) + i - 1 = n + i
      BY <1>0, <2>1
    <3>2. t[i] = s[(n + 1) + i - 1]
      BY <2>2, <2>3 DEF t
    <3>3. QED
      BY <3>1, <3>2
  <2>6. QED
    BY <2>4, <2>5 DEF m, t
<1> HIDE DEF a, b
<1>3. Joined(a, b, s)
  BY <1>0, <1>1, <1>2 DEF Joined
<1>4. QED
  BY Zenon, <1>1, <1>2, <1>3 DEF a, b

(* Two sequences joined from the same parts are the same.                   *)
LEMMA SameJoined ==
    ASSUME NEW S, NEW s, NEW t, NEW u \in Seq(S), NEW v \in Seq(S),
           Joined(s, t, u), Joined(s, t, v)
    PROVE  u = v
<1>1. Len(u) = Len(v) /\ Len(u) \in Nat
  BY DEF Joined
<1>2. \A i \in 1..Len(u) : u[i] = v[i]
  <2> SUFFICES ASSUME NEW i \in 1..Len(u) PROVE u[i] = v[i]
    OBVIOUS
  <2>1. i \in 1..Len(v)
    BY <1>1
  <2>2. CASE i <= Len(s)
    <3>1. i \in 1..Len(s)
      BY <2>2 DEF Joined
    <3>2. QED
      BY <3>1 DEF Joined
  <2>3. CASE ~(i <= Len(s))
    <3>1. i - Len(s) \in 1..Len(t) /\ Len(s) + (i - Len(s)) = i
      BY <2>3 DEF Joined
    <3>2. u[Len(s) + (i - Len(s))] = v[Len(s) + (i - Len(s))]
      BY <3>1 DEF Joined
    <3>3. QED
      BY <3>1, <3>2
  <2>4. QED
    BY <2>2, <2>3
<1>3. QED
  BY <1>1, <1>2, SeqEqual

(* A frame is a connection and a number there.                              *)
LEMMA FrameFacts ==
    ASSUME TypeOK
    PROVE  /\ conns \in Nat /\ DOMAIN sent = 1..conns
           /\ \A c \in 1..conns : sent[c] \in Seq(Kinds) /\ Len(sent[c]) \in Nat
           /\ \A c, n : <<c, n>> \in Frames <=> c \in 1..conns /\ n \in 1..Len(sent[c])
           /\ \A f \in Frames : /\ f = <<f[1], f[2]>> /\ f[1] \in 1..conns
                                /\ f[2] \in 1..Len(sent[f[1]]) /\ Kind(f) \in Kinds
<1>1. conns \in Nat /\ sent \in Seq(Seq(Kinds)) /\ Len(sent) = conns
  BY SlaveAssumption DEF TypeOK
<1>2. DOMAIN sent = 1..conns
  BY <1>1
<1>3. \A c \in 1..conns : sent[c] \in Seq(Kinds)
  BY <1>1
<1>4. \A c \in 1..conns : Len(sent[c]) \in Nat /\ DOMAIN sent[c] = 1..Len(sent[c])
  BY <1>3
<1>5. \A c, n : <<c, n>> \in Frames <=> c \in 1..conns /\ n \in 1..Len(sent[c])
  BY <1>2, <1>4 DEF Frames
<1>6. \A f \in Frames : f = <<f[1], f[2]>>
  BY DEF Frames
<1>7. \A f \in Frames : f[1] \in 1..conns /\ f[2] \in 1..Len(sent[f[1]])
  BY <1>5, <1>6
<1>8. \A f \in Frames : Kind(f) \in Kinds
  BY <1>3, <1>7 DEF Kind
<1>9. QED
  BY <1>1, <1>2, <1>3, <1>4, <1>5, <1>6, <1>7, <1>8

(* What is sent later changes nothing of what has been sent.                 *)
LEMMA FramesGrow ==
    ASSUME TypeOK,
           \/ UNCHANGED sent
           \/ sent' = Append(sent, <<>>)
           \/ \E c \in 1..conns, kind \in Kinds :
                 sent' = [sent EXCEPT ![c] = Append(@, kind)]
    PROVE  /\ \A f \in Frames : f \in Frames' /\ Kind(f)' = Kind(f)
           /\ ByteType \subseteq ByteType'
           /\ \A S : S \in Seq(ByteType) => S \in Seq(ByteType')
<1> DEFINE Grown == \A c \in DOMAIN sent :
                       /\ c \in DOMAIN sent'
                       /\ \A n \in DOMAIN sent[c] : n \in DOMAIN sent'[c] /\ sent'[c][n] = sent[c][n]
<1>1. sent \in Seq(Seq(Kinds))
  BY DEF TypeOK
<1>2. Grown
  <2>1. CASE UNCHANGED sent
    BY <2>1
  <2>2. CASE sent' = Append(sent, <<>>)
    BY <1>1, <2>2
  <2>3. ASSUME NEW c \in 1..conns, NEW kind \in Kinds,
               sent' = [sent EXCEPT ![c] = Append(@, kind)]
        PROVE  Grown
    <3>1. sent[c] \in Seq(Kinds) /\ c \in DOMAIN sent
      BY FrameFacts
    <3>2. sent'[c] = Append(sent[c], kind) /\ DOMAIN sent' = DOMAIN sent
      BY <2>3, <3>1
    <3>3. \A n \in DOMAIN sent[c] : n \in DOMAIN sent'[c] /\ sent'[c][n] = sent[c][n]
      BY <3>1, <3>2
    <3>4. \A d \in DOMAIN sent : d # c => sent'[d] = sent[d]
      BY <2>3
    <3>5. QED
      BY <3>2, <3>3, <3>4
  <2>4. QED
    BY <2>1, <2>2, <2>3
<1>3. \A f \in Frames : f[1] \in DOMAIN sent /\ f[2] \in DOMAIN sent[f[1]] /\ f = <<f[1], f[2]>>
  BY DEF Frames
<1>4. \A f \in Frames : f \in Frames' /\ Kind(f)' = Kind(f)
  BY <1>2, <1>3 DEF Frames, Kind
<1>5. ByteType \subseteq ByteType'
  BY <1>4 DEF ByteType
<1>6. \A S : S \in Seq(ByteType) => S \in Seq(ByteType')
  BY <1>5, LargerSeq
<1>7. QED
  BY <1>4, <1>5, <1>6

(* A frame has bytes.                                                      *)
LEMMA BytesFacts ==
    ASSUME NEW f \in Frames, NEW kind
    PROVE  /\ BytesOfKind(f, kind) \in Seq(ByteType)
           /\ Len(BytesOfKind(f, kind)) = FrameLen(kind) /\ FrameLen(kind) \in {3, 4}
           /\ \A i \in 1..FrameLen(kind) : BytesOfKind(f, kind)[i] = Byte(f, i)
<1>1. FrameLen(kind) \in {3, 4}
  BY DEF FrameLen
<1>2. \A i \in 1..FrameLen(kind) : Byte(f, i) \in ByteType
  BY <1>1 DEF Byte, ByteType
<1>3. QED
  BY <1>1, <1>2 DEF BytesOfKind

(* What fixFrame says; a frame it cuts out has two bytes at least.            *)
LEMMA LengthFacts ==
    ASSUME TypeOK, NEW buf \in Seq(ByteType), buf # <<>>
    PROVE  /\ Len(buf) \in Nat /\ Len(buf) >= 1
           /\ fixFrame(buf) = "COMPLETE" =>
                 Len(buf) >= 2 /\ ValidLen(buf) \in 2..Len(buf)
<1>1. Len(buf) \in Nat /\ Len(buf) >= 1
  OBVIOUS
<1>2. ASSUME fixFrame(buf) = "COMPLETE" PROVE Len(buf) >= 2 /\ ValidLen(buf) \in 2..Len(buf)
  <2>1. Len(buf) >= 2 /\ ~(Length(buf) > Len(buf))
    BY <1>1, <1>2 DEF fixFrame
  <2>2. Length(buf) \in {StartValue, -1, 3, 4}
    BY DEF Length, FrameLen
  <2>3. StartValue \in Nat /\ StartValue > 2
    BY SlaveAssumption
  <2> HIDE DEF Length
  <2>4. QED
    BY <1>1, <2>1, <2>2, <2>3 DEF ValidLen
<1>3. QED
  BY <1>1, <1>2
-----------------------------------------------------------------------------
(* The types.                                                              *)

OutType == out \in Seq(Seq(OutFrame))
Types == TypeOK /\ OutType

LEMMA TypeInit == Init => Types
<1> SUFFICES ASSUME Init PROVE Types
  OBVIOUS
<1>1. 0 \in 0..MaxConn /\ 0 \in 0..0 /\ 0 \in Idx /\ 0 \in 0..(Half * ByteValues - 1)
  BY SlaveAssumption, HalfFacts DEF Idx
<1>2. \A S : <<>> \in Seq(S) /\ Len(<<>>) = 0
  OBVIOUS
<1>3. QED
  BY <1>1, <1>2 DEF Init, Types, TypeOK, OutType

(* Larger sets of frames have larger sets of all that is made of their bytes.  *)
LEMMA HistoriesGrow ==
    ASSUME ByteType \subseteq ByteType', analysed \in Seq(Seq(Seq(ByteType)))
    PROVE  analysed \in Seq(Seq(Seq(ByteType')))
<1>1. Seq(ByteType) \subseteq Seq(ByteType')
  BY LargerSeq
<1>2. Seq(Seq(ByteType)) \subseteq Seq(Seq(ByteType'))
  BY <1>1, LargerSeq
<1>3. QED
  BY <1>2, LargerSeq

(* Appending to a sequence, and to an element of one.                        *)
LEMMA AppendFacts ==
    ASSUME NEW S, NEW s \in Seq(S), NEW e \in S
    PROVE  /\ Append(s, e) \in Seq(S) /\ Len(Append(s, e)) = Len(s) + 1 /\ Len(s) \in Nat
           /\ \A i \in 1..Len(s) : Append(s, e)[i] = s[i]
           /\ Append(s, e)[Len(s) + 1] = e
OBVIOUS

(* Replacing an element of a sequence.                                      *)
LEMMA ReplaceFacts ==
    ASSUME NEW S, NEW s \in Seq(S), NEW c \in 1..Len(s), NEW e \in S
    PROVE  /\ [s EXCEPT ![c] = e] \in Seq(S) /\ Len([s EXCEPT ![c] = e]) = Len(s)
           /\ [s EXCEPT ![c] = e][c] = e
           /\ \A d \in 1..Len(s) : d # c => [s EXCEPT ![c] = e][d] = s[d]
OBVIOUS

LEMMA ConnectTypes ==
    ASSUME Types, NEW fd \in Fd, Connect(fd)
    PROVE  Types'
<1> USE DEF Types
<1>1. conns \in Nat /\ conns + 1 \in 0..MaxConn /\ MaxConn \in Nat
  BY SlaveAssumption DEF Connect, TypeOK
<1>2. conns' = conns + 1 /\ conn' = [conn EXCEPT ![fd] = conns + 1]
  BY DEF Connect
<1>3. conns' \in 0..MaxConn /\ conn' \in [Fd -> 0..conns']
  BY <1>1, <1>2 DEF TypeOK
<1>4. ByteType \subseteq ByteType' /\ (\A S : S \in Seq(ByteType) => S \in Seq(ByteType'))
  BY FramesGrow DEF Connect
<1>5. sent' \in Seq(Seq(Kinds)) /\ Len(sent') = conns'
  <2>1. sent \in Seq(Seq(Kinds)) /\ <<>> \in Seq(Kinds) /\ sent' = Append(sent, <<>>) /\ Len(sent) = conns
    BY DEF TypeOK, Connect
  <2>2. QED
    BY <1>2, <2>1, AppendFacts
<1>6. out' \in Seq(Seq(OutFrame)) /\ Len(out') = conns'
  <2>1. out \in Seq(Seq(OutFrame)) /\ <<>> \in Seq(OutFrame) /\ out' = Append(out, <<>>) /\ Len(out) = conns
    BY DEF TypeOK, OutType, Connect
  <2>2. QED
    BY <1>2, <2>1, AppendFacts
<1>7. analysed' \in Seq(Seq(Seq(ByteType'))) /\ Len(analysed') = conns'
  <2>1. analysed \in Seq(Seq(Seq(ByteType'))) /\ Len(analysed) = conns
    BY <1>4, HistoriesGrow DEF TypeOK
  <2>2. <<>> \in Seq(Seq(ByteType')) /\ analysed' = Append(analysed, <<>>)
    BY DEF Connect
  <2>3. QED
    BY <1>2, <2>1, <2>2, AppendFacts
<1>8. wire' \in [Fd -> Seq(ByteType')] /\ recvBuf' \in [Fd -> Seq(ByteType')]
  BY <1>4 DEF TypeOK, Connect
<1>9. /\ m_fd' \in Fd /\ busy' \in BOOLEAN /\ ~busy'
      /\ sendIdx' \in 0..(Half * ByteValues - 1) /\ recvIdx' \in Idx
      /\ yxNum' \in YxNum /\ ycNum' \in YcNum /\ cut' \in BOOLEAN
  BY DEF TypeOK, Connect, idxVars
<1>10. QED
  BY <1>3, <1>5, <1>6, <1>7, <1>8, <1>9 DEF TypeOK, OutType

(* A frame more of a connection.                                            *)
LEMMA SendFacts ==
    ASSUME TypeOK, NEW fd \in Fd, NEW kind \in Kinds, Send(fd, kind)
    PROVE  LET c == conn[fd]
               m == Len(sent[c])
               f == <<c, m + 1>>
           IN  /\ c \in 1..conns /\ m \in Nat /\ f \in Frames' /\ conns' = conns
               /\ sent' = [sent EXCEPT ![c] = Append(@, kind)]
               /\ sent'[c] = Append(sent[c], kind) /\ Len(sent'[c]) = m + 1
               /\ \A d \in 1..conns : d # c => sent'[d] = sent[d]
               /\ sent' \in Seq(Seq(Kinds)) /\ Len(sent') = conns
               /\ sent'[c][m + 1] = kind
               /\ \A n \in 1..m : sent'[c][n] = sent[c][n]
<1> DEFINE c == conn[fd]
           m == Len(sent[c])
           f == <<c, m + 1>>
<1>1. c \in 1..conns /\ conns \in Nat /\ conns' = conns
  BY FrameFacts DEF TypeOK, Send
<1>2. sent \in Seq(Seq(Kinds)) /\ Len(sent) = conns /\ sent[c] \in Seq(Kinds)
  BY <1>1, FrameFacts DEF TypeOK
<1>3. sent' = [sent EXCEPT ![c] = Append(sent[c], kind)]
  BY DEF Send
<1>4. Append(sent[c], kind) \in Seq(Kinds)
  BY <1>2, AppendFacts
<1> HIDE DEF c
<1>5. /\ sent' \in Seq(Seq(Kinds)) /\ Len(sent') = conns /\ sent'[c] = Append(sent[c], kind)
      /\ \A d \in 1..conns : d # c => sent'[d] = sent[d]
  BY <1>1, <1>2, <1>3, <1>4, ReplaceFacts
<1>6. m \in Nat /\ Len(sent'[c]) = m + 1 /\ sent'[c][m + 1] = kind
  BY <1>2, <1>5, AppendFacts
<1>7. c \in DOMAIN sent' /\ m + 1 \in DOMAIN sent'[c]
  <2>1. Append(sent[c], kind) \in Seq(Kinds) /\ Len(Append(sent[c], kind)) = m + 1
    BY <1>2, AppendFacts
  <2>2. DOMAIN sent'[c] = 1..(m + 1)
    BY <1>5, <2>1
  <2>3. DOMAIN sent' = 1..conns
    BY <1>1, <1>5
  <2>4. QED
    BY <1>1, <1>6, <2>2, <2>3
<1>8. f \in Frames'
  BY <1>7 DEF Frames
<1>9. \A n \in 1..m : sent'[c][n] = sent[c][n]
  BY <1>2, <1>5, AppendFacts
<1>10. sent' = [sent EXCEPT ![c] = Append(@, kind)]
  BY DEF Send, c
<1>11. QED
  BY <1>1, <1>5, <1>6, <1>8, <1>9, <1>10 DEF c

LEMMA SendTypes ==
    ASSUME Types, NEW fd \in Fd, NEW kind \in Kinds, Send(fd, kind)
    PROVE  Types'
<1> USE DEF Types
<1> DEFINE c == conn[fd]
           m == Len(sent[c])
           f == <<c, m + 1>>
           b == BytesOfKind(f, kind)
<1>1. /\ c \in 1..conns /\ f \in Frames' /\ conns' = conns
      /\ sent' = [sent EXCEPT ![c] = Append(@, kind)]
      /\ sent' \in Seq(Seq(Kinds)) /\ Len(sent') = conns
  BY SendFacts
<1>2. ByteType \subseteq ByteType' /\ (\A S : S \in Seq(ByteType) => S \in Seq(ByteType'))
  BY <1>1, FramesGrow
<1>3. b \in Seq(ByteType')
  <2>1. FrameLen(kind) \in {3, 4}
    BY DEF FrameLen
  <2>2. \A i \in 1..FrameLen(kind) : Byte(f, i) \in ByteType'
    BY <1>1, <2>1 DEF Byte, ByteType
  <2> HIDE DEF f
  <2>3. QED
    BY <2>1, <2>2 DEF BytesOfKind
<1>4. wire' = [wire EXCEPT ![fd] = wire[fd] \o b] /\ wire \in [Fd -> Seq(ByteType)]
  BY DEF Send, TypeOK
<1>5. wire[fd] \in Seq(ByteType')
  BY <1>2, <1>4
<1> HIDE DEF b
<1>6. wire[fd] \o b \in Seq(ByteType')
  BY <1>3, <1>5, ConcatProperties
<1>7. wire' \in [Fd -> Seq(ByteType')] /\ recvBuf' \in [Fd -> Seq(ByteType')]
  BY <1>2, <1>4, <1>6 DEF TypeOK, Send
<1>8. analysed' \in Seq(Seq(Seq(ByteType')))
  BY <1>2, HistoriesGrow DEF TypeOK, Send
<1>9. /\ conns' \in 0..MaxConn /\ conn' \in [Fd -> 0..conns']
      /\ Len(sent') = conns' /\ Len(analysed') = conns' /\ Len(out') = conns'
      /\ out' \in Seq(Seq(OutFrame))
      /\ m_fd' \in Fd /\ busy' \in BOOLEAN /\ ~busy'
      /\ sendIdx' \in 0..(Half * ByteValues - 1) /\ recvIdx' \in Idx
      /\ yxNum' \in YxNum /\ ycNum' \in YcNum /\ cut' \in BOOLEAN
  BY <1>1 DEF TypeOK, OutType, Send, idxVars
<1>10. QED
  BY <1>1, <1>7, <1>8, <1>9 DEF TypeOK, OutType

LEMMA DisconnectTypes ==
    ASSUME Types, NEW fd \in Fd, Disconnect(fd)
    PROVE  Types'
<1> USE DEF Types
<1>1. ByteType' = ByteType
  BY DEF Disconnect, ByteType, Frames
<1>2. conns \in Nat /\ conns' = conns
  BY FrameFacts DEF Disconnect
<1>3. conn' \in [Fd -> 0..conns'] /\ wire' \in [Fd -> Seq(ByteType)]
  BY <1>2 DEF Disconnect, TypeOK
<1>4. cut' \in BOOLEAN
  BY DEF Disconnect, TypeOK
<1>5. QED
  BY <1>1, <1>2, <1>3, <1>4 DEF Disconnect, TypeOK, OutType, idxVars

(* A part of what is on its way is received.                                *)
LEMMA HandleFacts ==
    ASSUME TypeOK, NEW fd \in Fd, HandleMessage(fd)
    PROVE  \E n \in 1..Len(wire[fd]) :
              LET a == SubSeq(wire[fd], 1, n)
                  r == SubSeq(wire[fd], n + 1, Len(wire[fd]))
              IN  /\ a \in Seq(ByteType) /\ r \in Seq(ByteType) /\ Joined(a, r, wire[fd])
                  /\ Len(a) >= 1
                  /\ recvBuf' = [recvBuf EXCEPT ![fd] = @ \o a]
                  /\ wire' = [wire EXCEPT ![fd] = r]
<1> DEFINE w == wire[fd]
<1>1. w \in Seq(ByteType)
  BY DEF TypeOK
<1>2. PICK n \in 1..Len(w) :
         /\ recvBuf' = [recvBuf EXCEPT ![fd] = @ \o SubSeq(w, 1, n)]
         /\ wire' = [wire EXCEPT ![fd] = SubSeq(w, n + 1, Len(w))]
  BY DEF HandleMessage
<1>3. n \in 0..Len(w) /\ n >= 1
  BY <1>1
<1> HIDE DEF w
<1>4. /\ SubSeq(w, 1, n) \in Seq(ByteType) /\ SubSeq(w, n + 1, Len(w)) \in Seq(ByteType)
      /\ Joined(SubSeq(w, 1, n), SubSeq(w, n + 1, Len(w)), w)
      /\ Len(SubSeq(w, 1, n)) = n
  BY <1>1, <1>3, Split
<1>5. Len(SubSeq(w, 1, n)) >= 1
  BY <1>3, <1>4
<1>6. QED
  BY Zenon, <1>2, <1>4, <1>5 DEF w

LEMMA HandleTypes ==
    ASSUME Types, NEW fd \in Fd, HandleMessage(fd)
    PROVE  Types'
<1> USE DEF Types
<1>1. ByteType' = ByteType
  BY DEF HandleMessage, ByteType, Frames
<1>2. PICK a, r : /\ a \in Seq(ByteType) /\ r \in Seq(ByteType) /\ Len(a) >= 1
                  /\ recvBuf' = [recvBuf EXCEPT ![fd] = @ \o a]
                  /\ wire' = [wire EXCEPT ![fd] = r]
  BY Zenon, HandleFacts
<1>3. recvBuf \in [Fd -> Seq(ByteType)] /\ wire \in [Fd -> Seq(ByteType)]
  BY DEF TypeOK
<1>4. recvBuf[fd] \o a \in Seq(ByteType) /\ Joined(recvBuf[fd], a, recvBuf[fd] \o a)
  BY <1>2, <1>3, Concat
<1> DEFINE u == recvBuf[fd] \o a
<1>5. u \in Seq(ByteType) /\ Len(u) >= 1 /\ recvBuf' = [recvBuf EXCEPT ![fd] = u]
  BY <1>2, <1>4 DEF Joined
<1> HIDE DEF u
<1>6. u # <<>>
  BY <1>5
<1>7. /\ recvBuf' \in [Fd -> Seq(ByteType)] /\ wire' \in [Fd -> Seq(ByteType)]
      /\ recvBuf'[fd] # <<>>
  BY <1>2, <1>3, <1>5, <1>6
<1>8. QED
  BY <1>1, <1>7 DEF HandleMessage, TypeOK, OutType, idxVars

(* A frame is cut out of the buffer.                                        *)
LEMMA AnalyseFacts ==
    ASSUME TypeOK, AnalyseFrame
    PROVE  LET c == conn[m_fd]
               buf == recvBuf[m_fd]
               fr == SubSeq(buf, 1, ValidLen(buf))
               rest == Rest(buf)
           IN  /\ c \in 1..conns /\ fixFrame(buf) = "COMPLETE"
               /\ fr \in Seq(ByteType) /\ rest \in Seq(ByteType) /\ Joined(fr, rest, buf)
               /\ Len(fr) = ValidLen(buf) /\ Len(fr) >= 2
               /\ analysed' = [analysed EXCEPT ![c] = Append(@, fr)]
               /\ recvBuf' = [recvBuf EXCEPT ![m_fd] = rest]
               /\ busy' = (rest # <<>>)
               /\ \E kind \in KindsOf(fr) : kind \in Kinds /\ Answer(kind)
<1> DEFINE c == conn[m_fd]
           buf == recvBuf[m_fd]
           n == ValidLen(buf)
           fr == SubSeq(buf, 1, n)
           rest == Rest(buf)
<1>1. /\ c \in 1..conns /\ fixFrame(buf) = "COMPLETE"
      /\ buf \in Seq(ByteType) /\ buf # <<>>
  BY FrameFacts DEF AnalyseFrame, TypeOK
<1>2. n \in 2..Len(buf)
  BY <1>1, LengthFacts
<1>3. /\ analysed' = [analysed EXCEPT ![c] = Append(@, fr)]
      /\ recvBuf' = [recvBuf EXCEPT ![m_fd] = rest]
      /\ busy' = (rest # <<>>)
      /\ \E kind \in KindsOf(fr) : Answer(kind)
  BY Zenon DEF AnalyseFrame, GoesRound
<1>4. rest = SubSeq(buf, n + 1, Len(buf))
  BY DEF Rest
<1> HIDE DEF buf, n, rest
<1>5. n \in 0..Len(buf) /\ n >= 2
  BY <1>1, <1>2
<1>6. fr \in Seq(ByteType) /\ rest \in Seq(ByteType) /\ Joined(fr, rest, buf) /\ Len(fr) = n
  BY <1>1, <1>4, <1>5, Split
<1> HIDE DEF fr, c
<1>7. KindsOf(fr) \subseteq Kinds
  <2>1. CASE Len(fr) > 2
    <3>1. fr[3] \in ByteType
      BY <1>6, <2>1
    <3>2. fr[3].frame \in Frames
      BY <3>1 DEF ByteType
    <3>3. QED
      BY <3>2, FrameFacts DEF KindsOf
  <2>2. QED
    BY <2>1 DEF KindsOf
<1>8. \E kind \in KindsOf(fr) : kind \in Kinds /\ Answer(kind)
  BY <1>3, <1>7
<1>9. Len(fr) >= 2
  BY <1>5, <1>6
<1>10. QED
  BY Zenon, <1>1, <1>3, <1>6, <1>8, <1>9 DEF c, buf, n, fr, rest

(* What is sent of it.                                                     *)
LEMMA AnswerFacts ==
    ASSUME Types, NEW kind \in Kinds, Answer(kind), conn[m_fd] \in 1..conns
    PROVE  LET c == conn[m_fd]
               r == Reply(kind, Number(recvIdx'))
           IN  /\ yxNum \in Nat /\ ycNum \in Nat /\ sendIdx \in Nat /\ recvIdx \in Nat
               /\ Number(recvIdx') \in Nat
               /\ recvIdx' \in Idx /\ sendIdx' \in 0..(Half * ByteValues - 1)
               /\ out' \in Seq(Seq(OutFrame)) /\ Len(out') = conns
               /\ out[c] \in Seq(OutFrame) /\ r \in Seq(OutFrame)
               /\ Joined(out[c], r, out'[c])
               /\ \A d \in 1..conns : d # c => out'[d] = out[d]
<1> DEFINE c == conn[m_fd]
           nr == Number(recvIdx')
           r == Reply(kind, nr)
<1>1. /\ yxNum \in Nat /\ ycNum \in Nat
      /\ sendIdx \in 0..(Half * ByteValues - 1) /\ recvIdx \in Idx
      /\ out \in Seq(Seq(OutFrame)) /\ Len(out) = conns /\ c \in 1..conns
  BY SlaveAssumption DEF Types, TypeOK, OutType
<1>2. sendIdx \in Nat /\ recvIdx \in Nat
  BY <1>1, HalfFacts DEF Idx
<1>3. recvIdx' \in Idx
  <2> DEFINE b == ByteValues * ByteValues
             x == recvIdx + 1
  <2>1. b \in Nat /\ b >= 1 /\ x \in Nat
    BY <1>2, HalfFacts
  <2>2. recvIdx \in 0..(b - 1) /\ (recvIdx' = x % b \/ recvIdx' = recvIdx) /\ Idx = 0..(b - 1)
    BY <1>1 DEF Answer, NextRecvIdx, Idx
  <2> HIDE DEF b, x
  <2>3. QED
    BY <2>1, <2>2, ModFacts
<1>4. sendIdx' \in 0..(Half * ByteValues - 1)
  <2> DEFINE b == Half * ByteValues
             x == sendIdx + Len(Interrogation)
  <2>1. b \in Nat /\ b >= 1 /\ x \in Nat
    BY <1>1, <1>2, HalfFacts, InterrogationTypes
  <2>2. sendIdx' = x % b \/ sendIdx' = sendIdx
    BY DEF Answer, SendIdxAfter
  <2> HIDE DEF x
  <2>3. x % b \in 0..(b - 1)
    <3> HIDE DEF b
    <3>1. QED
      BY <2>1, ModFacts
  <2>4. QED
    BY <1>1, <2>2, <2>3
<1>5. nr \in Nat
  BY <1>3, HalfFacts, NumberIsRight DEF Idx
<1>6. out' = [out EXCEPT ![c] = out[c] \o r]
  BY DEF Answer
<1> HIDE DEF c, nr
<1>7. r \in Seq(OutFrame)
  BY <1>1, <1>2, <1>5, ReplyFacts
<1> HIDE DEF r
<1>8. out[c] \in Seq(OutFrame)
  BY <1>1
<1>9. out[c] \o r \in Seq(OutFrame) /\ Joined(out[c], r, out[c] \o r)
  BY Zenon, <1>7, <1>8, Concat
<1> DEFINE u == out[c] \o r
<1>10. u \in Seq(OutFrame) /\ out' = [out EXCEPT ![c] = u]
  BY <1>6, <1>9
<1> HIDE DEF u
<1>11. /\ out' \in Seq(Seq(OutFrame)) /\ Len(out') = conns /\ out'[c] = u
       /\ \A d \in 1..conns : d # c => out'[d] = out[d]
  BY <1>1, <1>10, ReplaceFacts
<1>12. Joined(out[c], r, out'[c])
  BY <1>9, <1>11 DEF u
<1>13. QED
  BY Zenon, <1>1, <1>2, <1>3, <1>4, <1>5, <1>7, <1>8, <1>11, <1>12 DEF c, nr, r

LEMMA AnalyseTypes ==
    ASSUME Types, AnalyseFrame
    PROVE  Types'
<1> USE DEF Types
<1>1. ByteType' = ByteType
  BY DEF AnalyseFrame, linkVars, ByteType, Frames
<1>2. PICK fr, rest, kind :
         /\ conn[m_fd] \in 1..conns
         /\ fr \in Seq(ByteType) /\ rest \in Seq(ByteType)
         /\ analysed' = [analysed EXCEPT ![conn[m_fd]] = Append(@, fr)]
         /\ recvBuf' = [recvBuf EXCEPT ![m_fd] = rest]
         /\ busy' = (rest # <<>>)
         /\ kind \in Kinds /\ Answer(kind)
  BY Zenon, AnalyseFacts
<1>3. /\ recvIdx' \in Idx /\ sendIdx' \in 0..(Half * ByteValues - 1)
      /\ out' \in Seq(Seq(OutFrame)) /\ Len(out') = conns
  BY Zenon, <1>2, AnswerFacts
<1>4. analysed' \in Seq(Seq(Seq(ByteType))) /\ Len(analysed') = conns
  <2>1. /\ analysed \in Seq(Seq(Seq(ByteType))) /\ Len(analysed) = conns
        /\ analysed[conn[m_fd]] \in Seq(Seq(ByteType))
    BY <1>2 DEF TypeOK
  <2>2. Append(analysed[conn[m_fd]], fr) \in Seq(Seq(ByteType))
    BY <1>2, <2>1, AppendFacts
  <2>3. QED
    BY <1>2, <2>1, <2>2, ReplaceFacts
<1>5. recvBuf' \in [Fd -> Seq(ByteType)] /\ (busy' => recvBuf'[m_fd] # <<>>)
  BY <1>2 DEF TypeOK
<1>6. /\ UNCHANGED <<conn, conns, sent, wire, m_fd, yxNum, ycNum, cut>> /\ conn[m_fd] # 0
  BY <1>2 DEF AnalyseFrame, linkVars
<1>7. busy' \in BOOLEAN
  BY <1>2
<1>8. QED
  BY <1>1, <1>3, <1>4, <1>5, <1>6, <1>7 DEF TypeOK, OutType

LEMMA EndTypes ==
    ASSUME Types, EndMessage
    PROVE  Types'
<1> USE DEF Types
<1>1. ByteType' = ByteType
  BY DEF EndMessage, linkVars, ByteType, Frames
<1>2. recvBuf' \in [Fd -> Seq(ByteType)]
  <2>1. <<>> \in Seq(ByteType) /\ recvBuf \in [Fd -> Seq(ByteType)]
    BY DEF TypeOK
  <2>2. QED
    BY <2>1 DEF EndMessage
<1>3. busy' \in BOOLEAN /\ ~busy'
  BY DEF EndMessage
<1>4. UNCHANGED <<linkVars, m_fd, idxVars, yxNum, ycNum, out, analysed, cut>>
  BY DEF EndMessage
<1>5. QED
  BY <1>1, <1>2, <1>3, <1>4 DEF TypeOK, OutType, linkVars, idxVars

LEMMA TypesStutter ==
    ASSUME Types, UNCHANGED vars
    PROVE  Types'
<1>1. ByteType' = ByteType
  BY DEF vars, linkVars, ByteType, Frames
<1>2. QED
  BY <1>1 DEF Types, TypeOK, OutType, vars, linkVars, idxVars

LEMMA TypesStep == Types /\ [Next]_vars => Types'
BY ConnectTypes, SendTypes, DisconnectTypes, HandleTypes, AnalyseTypes, EndTypes, TypesStutter
   DEF Next, Handle

LEMMA TypesInvariant == Spec => []Types
BY TypeInit, TypesStep, PTL DEF Spec

(* The variables stay in their types: the numbers in range, every byte one of  *)
(* a frame that was sent, and a handler has something to handle.              *)
THEOREM TypeCorrect == Spec => []TypeOK
BY TypesInvariant, PTL DEF Types
-----------------------------------------------------------------------------
(* No complete frame waits.                                                *)

(* Every buffer but the one that is being handled, those of closed            *)
(* descriptors too, holds nothing or the beginning of a frame.               *)
Waits == \A fd \in Fd :
            recvBuf[fd] # <<>> /\ ~(busy /\ fd = m_fd) => fixFrame(recvBuf[fd]) = "INCOMPLETE"

Grows ==
    \/ UNCHANGED sent
    \/ sent' = Append(sent, <<>>)
    \/ \E c \in 1..conns, kind \in Kinds : sent' = [sent EXCEPT ![c] = Append(@, kind)]

(* What a buffer says does not depend on what is sent later.                 *)
LEMMA FixFrameKept ==
    ASSUME TypeOK, Grows, NEW fd \in Fd, recvBuf[fd] # <<>>, recvBuf'[fd] = recvBuf[fd]
    PROVE  fixFrame(recvBuf[fd])' = fixFrame(recvBuf[fd])
<1> DEFINE buf == recvBuf[fd]
<1>1. buf \in Seq(ByteType) /\ buf # <<>>
  BY DEF TypeOK
<1>2. \A f \in Frames : Kind(f)' = Kind(f)
  BY FramesGrow DEF Grows
<1>3. ASSUME Len(buf) >= 2 PROVE Kind(buf[2].frame)' = Kind(buf[2].frame)
  <2>1. buf[2] \in ByteType
    BY <1>1, <1>3
  <2>2. buf[2].frame \in Frames
    BY <2>1 DEF ByteType
  <2>3. sent'[buf[2].frame[1]][buf[2].frame[2]] = Kind(buf[2].frame)
    BY <1>2, <2>2 DEF Kind
  <2>4. QED
    BY <2>3 DEF Kind
<1>4. Len(buf) >= 2 => Length(buf)' = Length(buf)
  BY <1>3 DEF Length
<1>5. Len(buf) \in Nat
  BY <1>1
<1>6. QED
  BY <1>4, <1>5 DEF fixFrame

LEMMA WaitsInit == Init => Waits
BY DEF Init, Waits

LEMMA WaitsStep ==
    ASSUME Types, Waits, [Next]_vars
    PROVE  Waits'
<1> USE DEF Types
<1>1. ASSUME UNCHANGED <<recvBuf, m_fd, busy>>, Grows
      PROVE  Waits'
  BY <1>1, FixFrameKept DEF Waits
<1>2. ASSUME NEW fd \in Fd, Connect(fd) PROVE Waits'
  BY <1>1, <1>2 DEF Connect, Grows
<1>3. ASSUME NEW fd \in Fd, NEW kind \in Kinds, Send(fd, kind) PROVE Waits'
  <2>1. conn[fd] \in 1..conns /\ sent' = [sent EXCEPT ![conn[fd]] = Append(@, kind)]
    BY Zenon, <1>3, SendFacts
  <2>2. Grows
    BY <2>1 DEF Grows
  <2>3. QED
    BY <1>1, <1>3, <2>2 DEF Send
<1>4. ASSUME NEW fd \in Fd, Disconnect(fd) PROVE Waits'
  BY <1>1, <1>4 DEF Disconnect, Grows
<1>5. ASSUME NEW fd \in Fd, HandleMessage(fd) PROVE Waits'
  <2>1. ASSUME NEW g \in Fd, g # fd, recvBuf[g] # <<>>
        PROVE  (fixFrame(recvBuf[g]) = "INCOMPLETE")'
    <3>1. recvBuf'[g] = recvBuf[g] /\ Grows
      BY <1>5, <2>1 DEF HandleMessage, TypeOK, Grows
    <3>2. fixFrame(recvBuf[g]) = "INCOMPLETE"
      BY <1>5, <2>1 DEF Waits, HandleMessage
    <3>3. QED
      BY <2>1, <3>1, <3>2, FixFrameKept
  <2>2. \A g \in Fd : g # fd => recvBuf'[g] = recvBuf[g]
    BY <1>5 DEF HandleMessage, TypeOK
  <2>3. QED
    BY <1>5, <2>1, <2>2 DEF Waits, HandleMessage
<1>6. ASSUME AnalyseFrame PROVE Waits'
  <2>1. ASSUME NEW g \in Fd, g # m_fd, recvBuf[g] # <<>>
        PROVE  (fixFrame(recvBuf[g]) = "INCOMPLETE")'
    <3>1. recvBuf'[g] = recvBuf[g] /\ Grows
      BY <1>6, <2>1 DEF AnalyseFrame, linkVars, TypeOK, Grows
    <3>2. QED
      BY <1>6, <2>1, <3>1, FixFrameKept DEF Waits
  <2>2. \A g \in Fd : g # m_fd => recvBuf'[g] = recvBuf[g]
    BY <1>6 DEF AnalyseFrame, TypeOK
  <2>3. m_fd' = m_fd /\ (busy' \/ recvBuf'[m_fd] = <<>>)
    BY <1>6 DEF AnalyseFrame, TypeOK, GoesRound
  <2>4. QED
    BY <2>1, <2>2, <2>3 DEF Waits
<1>7. ASSUME EndMessage PROVE Waits'
  <2>1. ASSUME NEW g \in Fd, recvBuf'[g] # <<>>
        PROVE  (fixFrame(recvBuf[g]) = "INCOMPLETE")'
    <3>1. recvBuf'[g] = recvBuf[g] /\ Grows
      BY <1>7, <2>1 DEF EndMessage, linkVars, TypeOK, Grows
    <3>2. fixFrame(recvBuf[g]) = "INCOMPLETE"
      <4>1. CASE g = m_fd
        <5>1. fixFrame(recvBuf[g]) # "COMPLETE" /\ fixFrame(recvBuf[g]) # "INVALID"
          BY <1>7, <2>1, <4>1 DEF EndMessage, TypeOK
        <5>2. QED
          BY <5>1 DEF fixFrame
      <4>2. CASE g # m_fd
        BY <2>1, <3>1, <4>2 DEF Waits
      <4>3. QED
        BY <4>1, <4>2
    <3>3. QED
      BY <2>1, <3>1, <3>2, FixFrameKept
  <2>2. QED
    BY <2>1 DEF Waits
<1>8. CASE UNCHANGED vars
  BY <1>1, <1>8 DEF vars, linkVars, Grows
<1>9. QED
  BY <1>2, <1>3, <1>4, <1>5, <1>6, <1>7, <1>8 DEF Next, Handle

(* When the handler has returned, no buffer of a connection begins with a      *)
(* complete frame.                                                         *)
THEOREM NoFrameWaitsHolds == Spec => []NoFrameWaits
<1>1. Waits => NoFrameWaits
  BY DEF Waits, NoFrameWaits
<1>2. Types /\ Waits /\ [Next]_vars => Waits'
  BY WaitsStep
<1>3. QED
  BY <1>1, <1>2, TypesInvariant, WaitsInit, PTL DEF Spec
-----------------------------------------------------------------------------
(* Streams.                                                                *)

(* Successor, IsStream and Whole for given frames; snt[c] are the kinds of     *)
(* those sent on connection c.                                             *)
SuccessorIn(snt, b) ==
    IF b.pos < FrameLen(snt[b.frame[1]][b.frame[2]]) THEN Byte(b.frame, b.pos + 1)
    ELSE Byte(<<b.frame[1], b.frame[2] + 1>>, 1)

StreamIn(snt, u, c, n) ==
    /\ u = <<>> => n = Len(snt[c])
    /\ u # <<>> => /\ u[1] = Byte(<<c, n + 1>>, 1)
                   /\ u[Len(u)] = Byte(<<c, Len(snt[c])>>, FrameLen(snt[c][Len(snt[c])]))
    /\ \A k \in 1..(Len(u) - 1) : u[k + 1] = SuccessorIn(snt, u[k])

WholeIn(snt, an, c) ==
    /\ Len(an[c]) <= Len(snt[c])
    /\ \A i \in DOMAIN an[c] : an[c][i] = BytesOfKind(<<c, i>>, snt[c][i])

LEMMA ByteFacts ==
    ASSUME NEW f, NEW i
    PROVE  Byte(f, i).frame = f /\ Byte(f, i).pos = i
BY DEF Byte

(* The bytes of a frame follow one another, and the next frame follows them.   *)
LEMMA SuccessorInside ==
    ASSUME NEW snt, NEW c, NEW n, NEW i, i < FrameLen(snt[c][n])
    PROVE  SuccessorIn(snt, Byte(<<c, n>>, i)) = Byte(<<c, n>>, i + 1)
<1> DEFINE L == FrameLen(snt[c][n])
<1>1. Byte(<<c, n>>, i).frame = <<c, n>> /\ Byte(<<c, n>>, i).pos = i /\ i < L
  BY ByteFacts
<1>2. <<c, n>>[1] = c /\ <<c, n>>[2] = n
  OBVIOUS
<1> HIDE DEF L
<1>3. QED
  BY <1>1, <1>2 DEF SuccessorIn, L

LEMMA SuccessorNext ==
    ASSUME NEW snt, NEW c, NEW n
    PROVE  SuccessorIn(snt, Byte(<<c, n>>, FrameLen(snt[c][n]))) = Byte(<<c, n + 1>>, 1)
<1> DEFINE L == FrameLen(snt[c][n])
<1>1. L \in {3, 4} /\ ~(L < L)
  BY DEF FrameLen
<1>2. Byte(<<c, n>>, L).frame = <<c, n>> /\ Byte(<<c, n>>, L).pos = L
  BY ByteFacts
<1>3. <<c, n>>[1] = c /\ <<c, n>>[2] = n
  OBVIOUS
<1> HIDE DEF L
<1>4. QED
  BY <1>1, <1>2, <1>3 DEF SuccessorIn, L

(* What is cut off a stream at the length of its first frame is that frame,    *)
(* and what is left is the stream from the next one on.                      *)
LEMMA StreamCut ==
    ASSUME NEW snt, NEW c, NEW n \in Nat, NEW S,
           NEW u \in Seq(S), NEW fr \in Seq(S), NEW rest \in Seq(S),
           Joined(fr, rest, u), StreamIn(snt, u, c, n),
           Len(fr) = FrameLen(snt[c][n + 1]), Len(snt[c]) \in Nat
    PROVE  /\ fr = BytesOfKind(<<c, n + 1>>, snt[c][n + 1])
           /\ StreamIn(snt, rest, c, n + 1)
<1> DEFINE L == FrameLen(snt[c][n + 1])
           f == <<c, n + 1>>
<1>1. L \in {3, 4} /\ Len(fr) = L
  BY DEF FrameLen
<1>2. Len(u) = L + Len(rest) /\ Len(rest) \in Nat /\ Len(u) \in Nat /\ Len(u) >= 3
  BY <1>1 DEF Joined
<1>3. u # <<>>
  BY <1>2
<1> HIDE DEF L, f
<1>4. u[1] = Byte(f, 1)
  BY <1>3 DEF StreamIn, f
<1>5. \A k \in 1..(Len(u) - 1) : u[k + 1] = SuccessorIn(snt, u[k])
  BY DEF StreamIn
<1>6. ASSUME NEW i \in 1..3, i < L, u[i] = Byte(f, i)
      PROVE  u[i + 1] = Byte(f, i + 1)
  <2>1. i \in 1..(Len(u) - 1) /\ i \in Nat /\ n + 1 \in Nat
    BY <1>1, <1>2, <1>6
  <2>2. u[i + 1] = SuccessorIn(snt, Byte(f, i))
    BY <1>5, <1>6, <2>1
  <2>3. SuccessorIn(snt, Byte(f, i)) = Byte(f, i + 1)
    <3> DEFINE m == n + 1
    <3>1. i < FrameLen(snt[c][m])
      BY <1>6 DEF L
    <3> HIDE DEF m
    <3>2. SuccessorIn(snt, Byte(<<c, m>>, i)) = Byte(<<c, m>>, i + 1)
      BY <3>1, SuccessorInside
    <3>3. QED
      BY <3>2 DEF m, f
  <2>4. QED
    BY <2>2, <2>3
<1>7. u[2] = Byte(f, 2)
  BY <1>1, <1>4, <1>6
<1>8. u[3] = Byte(f, 3)
  <2>1. 2 \in 1..3 /\ 2 < L /\ 2 + 1 = 3
    BY <1>1
  <2>2. u[2 + 1] = Byte(f, 2 + 1)
    BY <1>6, <1>7, <2>1
  <2>3. QED
    BY <2>1, <2>2
<1>9. L = 4 => u[4] = Byte(f, 4)
  <2>1. SUFFICES ASSUME L = 4 PROVE u[4] = Byte(f, 4)
    OBVIOUS
  <2>2. 3 \in 1..3 /\ 3 < L /\ 3 + 1 = 4
    BY <2>1
  <2>3. u[3 + 1] = Byte(f, 3 + 1)
    BY <1>6, <1>8, <2>2
  <2>4. QED
    BY <2>2, <2>3
<1>10. \A i \in 1..L : u[i] = Byte(f, i)
  <2> SUFFICES ASSUME NEW i \in 1..L PROVE u[i] = Byte(f, i)
    OBVIOUS
  <2>1. i = 1 \/ i = 2 \/ i = 3 \/ (i = 4 /\ L = 4)
    BY <1>1
  <2>2. QED
    BY <1>4, <1>7, <1>8, <1>9, <2>1
<1>11. \A i \in 1..L : fr[i] = Byte(f, i)
  BY <1>1, <1>10 DEF Joined
<1>12. fr = [i \in 1..L |-> Byte(f, i)]
  <2>1. fr = [i \in 1..L |-> fr[i]]
    BY <1>1
  <2>2. QED
    BY <1>11, <2>1
<1>13. fr = BytesOfKind(<<c, n + 1>>, snt[c][n + 1])
  BY <1>12 DEF BytesOfKind, L, f
<1>14. u[L] = Byte(f, L)
  BY <1>1, <1>10
<1>15. ASSUME rest = <<>> PROVE n + 1 = Len(snt[c])
  <2>1. Len(u) = L
    BY <1>1, <1>2, <1>15
  <2>2. Byte(f, L) = Byte(<<c, Len(snt[c])>>, FrameLen(snt[c][Len(snt[c])]))
    BY <1>3, <1>14, <2>1 DEF StreamIn
  <2>3. f = <<c, Len(snt[c])>>
    BY <2>2, ByteFacts
  <2>4. QED
    BY <2>3 DEF f
<1>16. ASSUME rest # <<>>
       PROVE  /\ rest[1] = Byte(<<c, (n + 1) + 1>>, 1)
              /\ rest[Len(rest)] = u[Len(u)]
  <2>1. Len(rest) >= 1
    BY <1>16
  <2>2. rest[1] = u[L + 1] /\ rest[Len(rest)] = u[L + Len(rest)]
    BY <1>1, <1>2, <2>1 DEF Joined
  <2>3. L \in 1..(Len(u) - 1) /\ L \in Nat /\ n + 1 \in Nat
    BY <1>1, <1>2, <2>1
  <2>4. u[L + 1] = SuccessorIn(snt, Byte(f, L))
    BY <1>5, <1>14, <2>3
  <2>5. SuccessorIn(snt, Byte(f, L)) = Byte(<<c, (n + 1) + 1>>, 1)
    <3> DEFINE m == n + 1
    <3> HIDE DEF m
    <3>1. SuccessorIn(snt, Byte(<<c, m>>, FrameLen(snt[c][m]))) = Byte(<<c, m + 1>>, 1)
      BY SuccessorNext
    <3>2. QED
      BY <3>1 DEF m, f, L
  <2>6. QED
    BY <1>2, <2>2, <2>4, <2>5
<1>17. ASSUME NEW k \in 1..(Len(rest) - 1)
       PROVE  rest[k + 1] = SuccessorIn(snt, rest[k])
  <2>1. /\ k \in 1..Len(rest) /\ k + 1 \in 1..Len(rest) /\ L + k \in 1..(Len(u) - 1)
        /\ L + (k + 1) = (L + k) + 1
    BY <1>1, <1>2
  <2>2. rest[k] = u[L + k] /\ rest[k + 1] = u[L + (k + 1)]
    BY <1>1, <2>1 DEF Joined
  <2>3. QED
    BY <1>5, <2>1, <2>2
<1>18. StreamIn(snt, rest, c, n + 1)
  BY <1>3, <1>15, <1>16, <1>17 DEF StreamIn
<1>19. QED
  BY <1>13, <1>18

(* A stream stays one as long as nothing is sent on its connection.           *)
LEMMA StreamSame ==
    ASSUME NEW snt, NEW snt2, NEW c, NEW n, NEW u, NEW S, u \in Seq(S),
           snt2[c] = snt[c], StreamIn(snt, u, c, n),
           \A k \in 1..Len(u) : SuccessorIn(snt2, u[k]) = SuccessorIn(snt, u[k])
    PROVE  StreamIn(snt2, u, c, n)
<1>1. \A k \in 1..(Len(u) - 1) : k \in 1..Len(u)
  OBVIOUS
<1>2. \A k \in 1..(Len(u) - 1) : u[k + 1] = SuccessorIn(snt2, u[k])
  BY <1>1 DEF StreamIn
<1>3. QED
  BY <1>2 DEF StreamIn

(* A stream goes on with the next frame that is sent on its connection.        *)
LEMMA StreamAppend ==
    ASSUME NEW snt, NEW snt2, NEW c, NEW n \in Nat, NEW kind, NEW S,
           NEW u \in Seq(S), NEW v, Len(snt[c]) \in Nat,
           Joined(u, BytesOfKind(<<c, Len(snt[c]) + 1>>, kind), v), v \in Seq(S),
           StreamIn(snt, u, c, n),
           Len(snt2[c]) = Len(snt[c]) + 1, snt2[c][Len(snt[c]) + 1] = kind,
           \A k \in 1..Len(u) : SuccessorIn(snt2, u[k]) = SuccessorIn(snt, u[k]),
           u # <<>> => snt2[c][Len(snt[c])] = snt[c][Len(snt[c])]
    PROVE  StreamIn(snt2, v, c, n)
<1> DEFINE m == Len(snt[c])
           f == <<c, m + 1>>
           L == FrameLen(kind)
           b == BytesOfKind(f, kind)
           a == Len(u)
<1>1. L \in {3, 4}
  BY DEF FrameLen
<1>2. b = [i \in 1..L |-> Byte(f, i)]
  BY DEF BytesOfKind
<1>3. Len(b) = L /\ \A i \in 1..L : b[i] = Byte(f, i)
  <2> DEFINE T == {b[i] : i \in 1..L}
  <2>1. b \in [1..L -> T]
    BY <1>2
  <2>0. L \in Nat
    BY <1>1
  <2> HIDE DEF b, T, L
  <2>2. b \in Seq(T) /\ Len(b) = L
    BY SMTT(40), <2>0, <2>1
  <2>3. QED
    BY <1>2, <2>2
<1> HIDE DEF L, b
<1>4. a \in Nat /\ m \in Nat
  OBVIOUS
<1> HIDE DEF m, f, a
<1>5. Joined(u, b, v)
  BY DEF m, f, b
<1>6. /\ Len(v) = a + L
      /\ \A i \in 1..a : v[i] = u[i]
      /\ \A i \in 1..L : v[a + i] = Byte(f, i)
  BY <1>3, <1>5 DEF Joined, a
<1>7. v # <<>>
  BY <1>1, <1>4, <1>6
<1>8. v[1] = Byte(<<c, n + 1>>, 1)
  <2>1. CASE u = <<>>
    <3>1. n = m /\ a = 0
      BY <2>1 DEF StreamIn, m, a
    <3>2. v[0 + 1] = Byte(f, 1)
      BY <1>1, <1>6, <3>1
    <3>3. QED
      BY <3>1, <3>2 DEF f
  <2>2. CASE u # <<>>
    <3>1. a >= 1
      BY <2>2 DEF a
    <3>2. v[1] = u[1]
      BY <1>4, <1>6, <3>1
    <3>3. QED
      BY <2>2, <3>2 DEF StreamIn
  <2>3. QED
    BY <2>1, <2>2
<1>9. v[Len(v)] = Byte(<<c, Len(snt2[c])>>, FrameLen(snt2[c][Len(snt2[c])]))
  <2>1. Len(snt2[c]) = m + 1 /\ snt2[c][m + 1] = kind
    BY DEF m
  <2>2. v[a + L] = Byte(f, L)
    BY <1>1, <1>6
  <2>3. QED
    BY <1>6, <2>1, <2>2 DEF f, L
<1>10. ASSUME NEW k \in 1..(Len(v) - 1) PROVE v[k + 1] = SuccessorIn(snt2, v[k])
  <2>1. CASE k < a
    <3>1. k \in 1..a /\ k + 1 \in 1..a /\ k \in 1..(a - 1)
      BY <1>1, <1>4, <1>6, <2>1
    <3>2. u[k + 1] = SuccessorIn(snt, u[k]) /\ SuccessorIn(snt2, u[k]) = SuccessorIn(snt, u[k])
      BY <3>1 DEF StreamIn, a
    <3>3. QED
      BY <1>6, <3>1, <3>2
  <2>2. CASE k = a
    <3>1. u # <<>> /\ k \in 1..a
      BY <1>1, <1>4, <1>6, <2>2 DEF a
    <3>2. v[k] = Byte(<<c, m>>, FrameLen(snt[c][m]))
      BY <1>6, <2>2, <3>1 DEF StreamIn, m, a
    <3>3. snt2[c][m] = snt[c][m]
      BY <3>1 DEF m
    <3>4. SuccessorIn(snt2, v[k]) = Byte(f, 1)
      <4>1. v[k] = Byte(<<c, m>>, FrameLen(snt2[c][m]))
        BY <3>2, <3>3
      <4>2. SuccessorIn(snt2, Byte(<<c, m>>, FrameLen(snt2[c][m]))) = Byte(<<c, m + 1>>, 1)
        BY SuccessorNext
      <4>3. QED
        BY <4>1, <4>2 DEF f
    <3>5. v[k + 1] = Byte(f, 1)
      BY <1>1, <1>6, <2>2
    <3>6. QED
      BY <3>4, <3>5
  <2>3. CASE k > a
    <3> DEFINE i == k - a
    <3>1. i \in 1..L /\ i + 1 \in 1..L /\ i < L /\ a + i = k /\ a + (i + 1) = k + 1
      BY <1>1, <1>4, <1>6, <2>3
    <3> HIDE DEF i
    <3>2. v[k] = Byte(f, i) /\ v[k + 1] = Byte(f, i + 1)
      BY <1>6, <3>1
    <3>3. snt2[c][m + 1] = kind
      BY DEF m
    <3>4. SuccessorIn(snt2, Byte(f, i)) = Byte(f, i + 1)
      <4> DEFINE p == m + 1
      <4>1. i < FrameLen(snt2[c][p])
        BY <3>1, <3>3 DEF L
      <4> HIDE DEF p
      <4>2. SuccessorIn(snt2, Byte(<<c, p>>, i)) = Byte(<<c, p>>, i + 1)
        BY <4>1, SuccessorInside
      <4>3. QED
        BY <4>2 DEF p, f
    <3>5. QED
      BY <3>2, <3>4
  <2>4. QED
    BY <1>4, <2>1, <2>2, <2>3
<1>11. QED
  BY <1>7, <1>8, <1>9, <1>10 DEF StreamIn
-----------------------------------------------------------------------------
(* The stream of every connection is kept.                                  *)

(* A connection has one descriptor; nothing is left on one that is closed,     *)
(* unless a frame was cut; what has been analysed are the first frames, and    *)
(* what has not is the stream from the next one on.                          *)
Apart  == \A fd, g \in Fd : conn[fd] = conn[g] /\ conn[fd] # 0 => fd = g
Closed == \A fd \in Fd : conn[fd] = 0 => wire[fd] = <<>> /\ (cut \/ recvBuf[fd] = <<>>)

WholeNow == \A c \in 1..conns : WholeIn(sent, analysed, c)
StreamNow(fd) ==
    StreamIn(sent, recvBuf[fd] \o wire[fd], conn[fd], Len(analysed[conn[fd]]))
Kept == Sound => WholeNow /\ \A fd \in Fd : conn[fd] # 0 => StreamNow(fd)

Streams == Apart /\ Closed /\ Kept

LEMMA StreamsMeaning == Streams => FramesWhole /\ StreamKept
<1> SUFFICES ASSUME Streams PROVE FramesWhole /\ StreamKept
  OBVIOUS
<1>1. ASSUME NEW c \in 1..conns, WholeIn(sent, analysed, c)
      PROVE  /\ Len(analysed[c]) <= Len(sent[c])
             /\ \A i \in DOMAIN analysed[c] : analysed[c][i] = BytesOf(<<c, i>>)
  <2>1. \A i : BytesOf(<<c, i>>) = BytesOfKind(<<c, i>>, sent[c][i])
    BY DEF BytesOf, Kind
  <2>2. QED
    BY <1>1, <2>1 DEF WholeIn
<1>2. ASSUME NEW u, NEW c, NEW n, StreamIn(sent, u, c, n)
      PROVE  IsStream(u, c, n)
  BY <1>2 DEF StreamIn, IsStream, SuccessorIn, Successor, LastByte, Kind
<1>3. QED
  BY <1>1, <1>2 DEF Streams, Kept, WholeNow, StreamNow, FramesWhole, Whole, StreamKept, Unread

LEMMA StepGrows == Types /\ [Next]_vars => Grows
<1> SUFFICES ASSUME Types, [Next]_vars PROVE Grows
  OBVIOUS
<1>1. ASSUME NEW fd \in Fd, NEW kind \in Kinds, Send(fd, kind) PROVE Grows
  <2>1. conn[fd] \in 1..conns /\ sent' = [sent EXCEPT ![conn[fd]] = Append(@, kind)]
    BY Zenon, <1>1, SendFacts DEF Types
  <2>2. QED
    BY <2>1 DEF Grows
<1>2. ASSUME NEW fd \in Fd, Connect(fd) PROVE Grows
  BY <1>2 DEF Connect, Grows
<1>3. ASSUME NEW fd \in Fd, Disconnect(fd) \/ HandleMessage(fd) PROVE Grows
  BY <1>3 DEF Disconnect, HandleMessage, Grows
<1>4. ASSUME AnalyseFrame \/ EndMessage \/ UNCHANGED vars PROVE Grows
  BY <1>4 DEF AnalyseFrame, EndMessage, vars, linkVars, Grows
<1>5. QED
  BY <1>1, <1>2, <1>3, <1>4 DEF Next, Handle

(* Once a frame has been cut, or a long one sent where char is signed, it      *)
(* remains so.                                                             *)
LEMMA SoundBefore == Types /\ [Next]_vars /\ Sound' => Sound
<1> SUFFICES ASSUME Types, [Next]_vars, Sound' PROVE Sound
  OBVIOUS
<1>1. \A f \in Frames : f \in Frames' /\ Kind(f)' = Kind(f)
  BY StepGrows, FramesGrow DEF Grows, Types
<1>2. cut => cut'
  <2>1. ASSUME NEW fd \in Fd, Disconnect(fd) PROVE cut => cut'
    BY <2>1 DEF Disconnect
  <2>2. ASSUME NEW fd \in Fd, Connect(fd) \/ HandleMessage(fd) PROVE cut => cut'
    BY <2>2 DEF Connect, HandleMessage
  <2>3. ASSUME NEW fd \in Fd, NEW kind \in Kinds, Send(fd, kind) PROVE cut => cut'
    BY <2>3 DEF Send
  <2>4. ASSUME AnalyseFrame \/ EndMessage \/ UNCHANGED vars PROVE cut => cut'
    BY <2>4 DEF AnalyseFrame, EndMessage, vars
  <2>5. QED
    BY <2>1, <2>2, <2>3, <2>4 DEF Next, Handle
<1>3. QED
  BY <1>1, <1>2 DEF Sound

LEMMA SuccessorKept ==
    ASSUME TypeOK, Grows, NEW b \in ByteType
    PROVE  SuccessorIn(sent', b) = SuccessorIn(sent, b)
<1>1. b.frame \in Frames
  BY DEF ByteType
<1>2. sent'[b.frame[1]][b.frame[2]] = sent[b.frame[1]][b.frame[2]]
  BY <1>1, FramesGrow DEF Grows, Kind
<1>3. QED
  BY <1>2 DEF SuccessorIn

LEMMA UnreadFacts ==
    ASSUME TypeOK, NEW fd \in Fd
    PROVE  /\ recvBuf[fd] \in Seq(ByteType) /\ wire[fd] \in Seq(ByteType)
           /\ recvBuf[fd] \o wire[fd] \in Seq(ByteType)
           /\ Joined(recvBuf[fd], wire[fd], recvBuf[fd] \o wire[fd])
<1>1. recvBuf[fd] \in Seq(ByteType) /\ wire[fd] \in Seq(ByteType)
  BY DEF TypeOK
<1>2. QED
  BY <1>1, Concat

(* The stream of a connection on which nothing is sent or analysed.           *)
LEMMA StreamStays ==
    ASSUME TypeOK, Grows, NEW g \in Fd, StreamNow(g), conn'[g] = conn[g],
           recvBuf'[g] \o wire'[g] = recvBuf[g] \o wire[g],
           sent'[conn[g]] = sent[conn[g]], analysed'[conn[g]] = analysed[conn[g]]
    PROVE  StreamNow(g)'
<1> DEFINE u == recvBuf[g] \o wire[g]
           c == conn[g]
           n == Len(analysed[conn[g]])
<1>1. u \in Seq(ByteType)
  BY UnreadFacts
<1>2. \A k \in 1..Len(u) : SuccessorIn(sent', u[k]) = SuccessorIn(sent, u[k])
  <2> HIDE DEF u
  <2>1. \A k \in 1..Len(u) : u[k] \in ByteType
    BY <1>1
  <2>2. QED
    BY <2>1, SuccessorKept
<1>3. StreamIn(sent, u, c, n)
  BY DEF StreamNow
<1>4. sent'[c] = sent[c] /\ conn'[g] = c /\ Len(analysed'[conn'[g]]) = n
      /\ recvBuf'[g] \o wire'[g] = u
  OBVIOUS
<1> HIDE DEF u, c, n
<1>5. StreamIn(sent', u, c, n)
  BY <1>1, <1>2, <1>3, <1>4, StreamSame
<1>6. QED
  BY <1>4, <1>5 DEF StreamNow

LEMMA StreamsInit == Init => Streams
<1> SUFFICES ASSUME Init PROVE Streams
  OBVIOUS
<1>1. \A fd \in Fd : conn[fd] = 0 /\ wire[fd] = <<>> /\ recvBuf[fd] = <<>>
  BY DEF Init
<1>2. 1..conns = {}
  BY DEF Init
<1>3. QED
  BY <1>1, <1>2 DEF Streams, Apart, Closed, Kept, WholeNow

(* What has been analysed stays whole on connections whose histories stay.     *)
LEMMA WholeStays ==
    ASSUME NEW c, WholeIn(sent, analysed, c), sent'[c] = sent[c], analysed'[c] = analysed[c]
    PROVE  WholeIn(sent', analysed', c)
BY DEF WholeIn

LEMMA ConnectStreams ==
    ASSUME Types, Streams, NEW fd \in Fd, Connect(fd), Sound' => Sound
    PROVE  Streams'
<1> USE DEF Types, Streams
<1> DEFINE c == conns + 1
<1>1. /\ conns \in Nat /\ conns' = c /\ conn' = [conn EXCEPT ![fd] = c] /\ conn[fd] = 0
      /\ UNCHANGED <<wire, recvBuf, cut>>
      /\ conn \in [Fd -> 0..conns]
  BY FrameFacts DEF Connect, TypeOK
<1>2. /\ sent' = Append(sent, <<>>) /\ analysed' = Append(analysed, <<>>)
      /\ sent \in Seq(Seq(Kinds)) /\ analysed \in Seq(Seq(Seq(ByteType)))
      /\ Len(sent) = conns /\ Len(analysed) = conns
  BY DEF Connect, TypeOK
<1>3. /\ \A d \in 1..conns : sent'[d] = sent[d] /\ analysed'[d] = analysed[d]
      /\ sent'[c] = <<>> /\ analysed'[c] = <<>>
  <2>1. <<>> \in Seq(Kinds) /\ <<>> \in Seq(Seq(ByteType))
    OBVIOUS
  <2>2. QED
    BY <1>2, <2>1, AppendFacts
<1>4. \A g \in Fd : g # fd => conn'[g] = conn[g] /\ conn[g] \in 0..conns
  BY <1>1
<1>5. conn'[fd] = c
  BY <1>1
<1>6. Apart'
  BY <1>1, <1>4, <1>5 DEF Apart
<1>7. Closed'
  BY <1>1, <1>4, <1>5 DEF Closed
<1>8. ASSUME Sound' PROVE WholeNow'
  <2>1. \A d \in 1..conns : WholeIn(sent', analysed', d)
    BY <1>3, <1>8, WholeStays DEF Kept, WholeNow
  <2>2. WholeIn(sent', analysed', c)
    BY <1>3 DEF WholeIn
  <2>3. \A d \in 1..conns' : d \in 1..conns \/ d = c
    BY <1>1
  <2>4. QED
    BY <2>1, <2>2, <2>3 DEF WholeNow
<1>9. ASSUME Sound', NEW g \in Fd, conn'[g] # 0 PROVE StreamNow(g)'
  <2>1. CASE g = fd
    <3>1. wire[fd] = <<>> /\ recvBuf[fd] = <<>>
      BY <1>1, <1>9 DEF Closed, Sound
    <3>2. recvBuf'[fd] \o wire'[fd] = <<>>
      BY <1>1, <3>1
    <3>3. Len(<<>>) = 0 /\ 1..(0 - 1) = {}
      OBVIOUS
    <3>4. StreamIn(sent', <<>>, c, 0)
      BY <1>3, <3>3 DEF StreamIn
    <3>5. QED
      BY <1>3, <1>5, <2>1, <3>2, <3>3, <3>4 DEF StreamNow
  <2>2. CASE g # fd
    <3>1. conn'[g] = conn[g] /\ conn[g] \in 1..conns
      BY <1>4, <1>9, <2>2
    <3>2. StreamNow(g)
      BY <1>9, <3>1 DEF Kept
    <3>3. Grows
      BY <1>2 DEF Grows
    <3>4. QED
      BY <1>1, <1>3, <3>1, <3>2, <3>3, StreamStays
  <2>3. QED
    BY <2>1, <2>2
<1>10. QED
  BY <1>6, <1>7, <1>8, <1>9 DEF Kept

LEMMA SendStreams ==
    ASSUME Types, Streams, NEW fd \in Fd, NEW kind \in Kinds, Send(fd, kind), Sound' => Sound
    PROVE  Streams'
<1> USE DEF Types, Streams
<1> DEFINE c == conn[fd]
           m == Len(sent[c])
           b == BytesOfKind(<<c, m + 1>>, kind)
<1>1. /\ c \in 1..conns /\ m \in Nat /\ conns' = conns
      /\ sent' = [sent EXCEPT ![c] = Append(@, kind)]
      /\ Len(sent'[c]) = m + 1 /\ sent'[c][m + 1] = kind
      /\ \A n \in 1..m : sent'[c][n] = sent[c][n]
      /\ \A d \in 1..conns : d # c => sent'[d] = sent[d]
  BY Zenon, SendFacts
<1>2. /\ UNCHANGED <<conn, recvBuf, cut, analysed>>
      /\ wire' = [wire EXCEPT ![fd] = wire[fd] \o b]
      /\ wire \in [Fd -> Seq(ByteType)]
  BY DEF Send, TypeOK
<1>3. Grows
  BY <1>1 DEF Grows
<1>4. TypeOK'
  BY SendTypes
<1> HIDE DEF c, m, b
<1>5. c = conn[fd] /\ wire'[fd] = wire[fd] \o b /\ \A g \in Fd : g # fd => wire'[g] = wire[g]
  BY <1>2 DEF c
<1>6. Apart'
  BY <1>2 DEF Apart
<1>7. Closed'
  BY <1>1, <1>2, <1>5 DEF Closed
<1>8. ASSUME Sound' PROVE WholeNow'
  <2>1. ASSUME NEW d \in 1..conns PROVE WholeIn(sent', analysed', d)
    <3>1. WholeIn(sent, analysed, d)
      BY <1>8 DEF Kept, WholeNow
    <3>2. CASE d # c
      BY <1>1, <1>2, <3>1, <3>2 DEF WholeIn
    <3>3. CASE d = c
      <4>1. Len(analysed[c]) <= m /\ analysed[c] \in Seq(Seq(ByteType))
        BY <1>1, <3>1, <3>3 DEF WholeIn, m, TypeOK
      <4>2. Len(analysed[c]) \in Nat /\ DOMAIN analysed[c] = 1..Len(analysed[c])
        BY <4>1
      <4>3. \A i \in DOMAIN analysed[c] : sent'[c][i] = sent[c][i]
        BY <1>1, <4>1, <4>2
      <4>4. Len(analysed[c]) <= m + 1
        BY <1>1, <4>1, <4>2
      <4>5. QED
        BY <1>1, <1>2, <3>1, <3>3, <4>3, <4>4 DEF WholeIn
    <3>4. QED
      BY <3>2, <3>3
  <2>2. QED
    BY <1>1, <2>1 DEF WholeNow
<1>9. ASSUME Sound', NEW g \in Fd, conn'[g] # 0 PROVE StreamNow(g)'
  <2>1. StreamNow(g) /\ conn[g] \in 1..conns /\ conn[g] # 0 /\ conn'[g] = conn[g]
    BY <1>2, <1>9 DEF Kept, TypeOK
  <2>2. CASE g # fd
    <3>1. conn[g] # c
      BY <1>5, <2>1, <2>2 DEF Apart
    <3>2. sent'[conn[g]] = sent[conn[g]] /\ analysed'[conn[g]] = analysed[conn[g]]
      BY <1>1, <1>2, <2>1, <3>1
    <3>3. recvBuf'[g] \o wire'[g] = recvBuf[g] \o wire[g]
      BY <1>2, <1>5, <2>2
    <3>4. QED
      BY <1>3, <2>1, <3>2, <3>3, StreamStays
  <2>3. CASE g = fd
    <3> DEFINE r == recvBuf[fd]
               w == wire[fd]
               u == r \o w
               v == recvBuf'[fd] \o wire'[fd]
               n == Len(analysed[c])
               B == ByteType'
    <3>1. r \in Seq(B) /\ w \in Seq(B) /\ u \in Seq(ByteType) /\ Joined(r, w, u)
      BY <1>3, UnreadFacts, FramesGrow DEF Grows
    <3>2. v \in Seq(B) /\ wire'[fd] \in Seq(B) /\ Joined(r, wire'[fd], v)
      <4>1. wire'[fd] \in Seq(B)
        BY <1>4 DEF TypeOK
      <4>2. r \o wire'[fd] \in Seq(B) /\ Joined(r, wire'[fd], r \o wire'[fd])
        BY Zenon, <3>1, <4>1, Concat
      <4>3. recvBuf'[fd] = r
        BY <1>2
      <4>4. QED
        BY <4>1, <4>2, <4>3
    <3>3. b \in Seq(B)
      <4>1. <<c, m + 1>> \in Frames'
        BY Zenon, SendFacts DEF c, m
      <4>2. FrameLen(kind) \in {3, 4}
        BY DEF FrameLen
      <4>3. \A i \in 1..FrameLen(kind) : Byte(<<c, m + 1>>, i) \in B
        BY <4>1, <4>2 DEF Byte, ByteType
      <4> HIDE DEF B
      <4>4. QED
        BY <4>2, <4>3 DEF BytesOfKind, b
    <3>4. Joined(w, b, wire'[fd])
      <4>1. Joined(w, b, w \o b)
        BY Zenon, <3>1, <3>3, Concat
      <4>2. QED
        BY <1>5, <4>1
    <3>5. u \in Seq(B)
      BY <1>3, <3>1, FramesGrow DEF Grows
    <3>6. \A k \in 1..Len(u) : SuccessorIn(sent', u[k]) = SuccessorIn(sent, u[k])
      <4> HIDE DEF u
      <4>1. \A k \in 1..Len(u) : u[k] \in ByteType
        BY <3>1
      <4>2. QED
        BY <1>3, <4>1, SuccessorKept
    <3>7. StreamIn(sent, u, c, n)
      BY <1>5, <2>1, <2>3 DEF StreamNow
    <3>8. u # <<>> => sent'[c][m] = sent[c][m]
      <4> SUFFICES ASSUME u # <<>> PROVE sent'[c][m] = sent[c][m]
        OBVIOUS
      <4>1. u[Len(u)] = Byte(<<c, m>>, FrameLen(sent[c][m]))
        BY <3>7 DEF StreamIn, m
      <4> HIDE DEF u
      <4>2. u[Len(u)] \in ByteType
        BY <3>1
      <4>3. <<c, m>> \in Frames
        BY <4>1, <4>2, ByteFacts DEF ByteType
      <4>4. m \in 1..Len(sent[c])
        BY <4>3, FrameFacts
      <4>5. QED
        BY <1>1, <4>4 DEF m
    <3>9. n \in Nat
      BY <1>1 DEF TypeOK
    <3> HIDE DEF r, w, u, v, n, B
    <3>10. Joined(u, b, v)
      BY <3>1, <3>2, <3>4, JoinedLeft
    <3>11. StreamIn(sent', v, c, n)
      <4>1. Len(sent[c]) \in Nat /\ Joined(u, BytesOfKind(<<c, Len(sent[c]) + 1>>, kind), v)
        BY <1>1, <3>10 DEF b, m
      <4>2. Len(sent'[c]) = Len(sent[c]) + 1 /\ sent'[c][Len(sent[c]) + 1] = kind
        BY <1>1 DEF m
      <4>3. u # <<>> => sent'[c][Len(sent[c])] = sent[c][Len(sent[c])]
        BY <3>8 DEF m
      <4>4. QED
        BY <3>2, <3>5, <3>6, <3>7, <3>9, <4>1, <4>2, <4>3, StreamAppend
    <3>12. conn'[fd] = c /\ Len(analysed'[conn'[fd]]) = n
      BY <1>2, <1>5 DEF n
    <3>13. QED
      BY <2>3, <3>11, <3>12 DEF StreamNow, v
  <2>4. QED
    BY <2>2, <2>3
<1>10. QED
  BY <1>6, <1>7, <1>8, <1>9 DEF Kept

LEMMA DisconnectStreams ==
    ASSUME Types, Streams, NEW fd \in Fd, Disconnect(fd), Sound' => Sound
    PROVE  Streams'
<1> USE DEF Types, Streams
<1>1. /\ UNCHANGED <<conns, sent, recvBuf, analysed>>
      /\ conn' = [conn EXCEPT ![fd] = 0] /\ wire' = [wire EXCEPT ![fd] = <<>>]
      /\ cut' = (cut \/ recvBuf[fd] # <<>>)
      /\ conn \in [Fd -> 0..conns] /\ wire \in [Fd -> Seq(ByteType)]
  BY DEF Disconnect, TypeOK
<1>2. \A g \in Fd : g # fd => conn'[g] = conn[g] /\ wire'[g] = wire[g]
  BY <1>1
<1>3. conn'[fd] = 0 /\ wire'[fd] = <<>>
  BY <1>1
<1>4. Apart'
  BY <1>2, <1>3 DEF Apart
<1>5. Closed'
  BY <1>1, <1>2, <1>3 DEF Closed
<1>6. ASSUME Sound' PROVE WholeNow'
  BY <1>1, <1>6 DEF Kept, WholeNow, WholeIn
<1>7. ASSUME Sound', NEW g \in Fd, conn'[g] # 0 PROVE StreamNow(g)'
  <2>1. g # fd /\ conn'[g] = conn[g] /\ wire'[g] = wire[g]
    BY <1>2, <1>3, <1>7
  <2>2. StreamNow(g)
    BY <1>7, <2>1 DEF Kept
  <2>3. Grows
    BY <1>1 DEF Grows
  <2>4. QED
    BY <1>1, <2>1, <2>2, <2>3, StreamStays
<1>8. QED
  BY <1>4, <1>5, <1>6, <1>7 DEF Kept

LEMMA HandleStreams ==
    ASSUME Types, Streams, NEW fd \in Fd, HandleMessage(fd), Sound' => Sound
    PROVE  Streams'
<1> USE DEF Types, Streams
<1>1. PICK a, rest :
         /\ a \in Seq(ByteType) /\ rest \in Seq(ByteType) /\ Joined(a, rest, wire[fd])
         /\ recvBuf' = [recvBuf EXCEPT ![fd] = @ \o a]
         /\ wire' = [wire EXCEPT ![fd] = rest]
  BY Zenon, HandleFacts
<1>2. UNCHANGED <<conn, conns, sent, analysed, cut>> /\ conn[fd] # 0
  BY DEF HandleMessage
<1>3. /\ recvBuf'[fd] = recvBuf[fd] \o a /\ wire'[fd] = rest
      /\ \A g \in Fd : g # fd => recvBuf'[g] = recvBuf[g] /\ wire'[g] = wire[g]
  BY <1>1 DEF TypeOK
<1>4. Apart' /\ Closed'
  BY <1>2, <1>3 DEF Apart, Closed
<1>5. ASSUME Sound' PROVE WholeNow'
  BY <1>2, <1>5 DEF Kept, WholeNow, WholeIn
<1>6. recvBuf'[fd] \o wire'[fd] = recvBuf[fd] \o wire[fd]
  <2> DEFINE r == recvBuf[fd]
             w == wire[fd]
             p == r \o a
             u == r \o w
             v == p \o rest
  <2>1. r \in Seq(ByteType) /\ w \in Seq(ByteType) /\ u \in Seq(ByteType) /\ Joined(r, w, u)
    BY UnreadFacts
  <2>2. p \in Seq(ByteType) /\ Joined(r, a, p)
    BY Zenon, <1>1, <2>1, Concat
  <2> HIDE DEF p
  <2>3. v \in Seq(ByteType) /\ Joined(p, rest, v)
    BY Zenon, <1>1, <2>2, Concat
  <2>4. Joined(a, rest, w)
    BY <1>1
  <2> HIDE DEF r, w, u, v
  <2>5. Joined(p, rest, u)
    BY <2>1, <2>2, <2>4, JoinedLeft
  <2>6. u = v
    BY <2>1, <2>3, <2>5, SameJoined
  <2>7. QED
    BY <1>3, <2>6 DEF r, w, u, v, p
<1>7. ASSUME Sound', NEW g \in Fd, conn'[g] # 0 PROVE StreamNow(g)'
  <2>1. StreamNow(g) /\ conn'[g] = conn[g]
    BY <1>2, <1>7 DEF Kept
  <2>2. recvBuf'[g] \o wire'[g] = recvBuf[g] \o wire[g]
    <3>1. CASE g = fd
      BY <1>6, <3>1
    <3>2. CASE g # fd
      BY <1>3, <3>2
    <3>3. QED
      BY <3>1, <3>2
  <2>3. Grows
    BY <1>2 DEF Grows
  <2>4. QED
    BY <1>2, <2>1, <2>2, <2>3, StreamStays
<1>8. QED
  BY <1>4, <1>5, <1>7 DEF Kept

(* Where the buffer begins with a whole frame, that frame is what is cut out.  *)
LEMMA SoundCut ==
    ASSUME TypeOK, Sound, NEW fd \in Fd, conn[fd] \in 1..conns, recvBuf[fd] # <<>>,
           StreamNow(fd), Len(analysed[conn[fd]]) \in Nat
    PROVE  LET c == conn[fd]
               n == Len(analysed[c])
               buf == recvBuf[fd]
           IN  /\ n + 1 \in 1..Len(sent[c])
               /\ fixFrame(buf) # "INVALID"
               /\ fixFrame(buf) = "COMPLETE" => ValidLen(buf) = FrameLen(sent[c][n + 1])
<1> DEFINE c == conn[fd]
           n == Len(analysed[c])
           buf == recvBuf[fd]
           w == wire[fd]
           u == buf \o w
           f == <<c, n + 1>>
<1>1. buf \in Seq(ByteType) /\ Joined(buf, w, u)
  BY UnreadFacts
<1>2. StreamIn(sent, u, c, n)
  BY DEF StreamNow
<1>3. buf # <<>> /\ n \in Nat
  OBVIOUS
<1> HIDE DEF c, n, buf, w, u
<1>4. Len(buf) \in Nat /\ Len(buf) >= 1
  BY <1>1, <1>3
<1>5. u # <<>> /\ u[1] = buf[1] /\ Len(u) \in Nat /\ Len(u) >= Len(buf)
  BY <1>1, <1>4 DEF Joined
<1>6. buf[1] = Byte(f, 1)
  BY <1>2, <1>5 DEF StreamIn
<1>7. f \in Frames
  <2>1. buf[1] \in ByteType
    BY <1>1, <1>4
  <2>2. QED
    BY <1>6, <2>1, ByteFacts DEF ByteType
<1>8. n + 1 \in 1..Len(sent[c])
  BY <1>7, FrameFacts
<1>9. fixFrame(buf) # "INVALID"
  <2>1. buf[1].pos = 1
    BY <1>6, ByteFacts
  <2>2. QED
    BY <2>1 DEF fixFrame
<1>10. ASSUME fixFrame(buf) = "COMPLETE" PROVE ValidLen(buf) = FrameLen(sent[c][n + 1])
  <2>1. Len(buf) >= 2
    BY <1>1, <1>3, <1>10, LengthFacts
  <2>2. buf[2] = SuccessorIn(sent, Byte(f, 1))
    <3>1. 1 \in 1..(Len(u) - 1) /\ 1 + 1 = 2 /\ 2 \in 1..Len(buf)
      BY <1>4, <1>5, <2>1
    <3>2. u[1 + 1] = SuccessorIn(sent, u[1])
      BY <1>2, <3>1 DEF StreamIn
    <3>3. u[2] = buf[2]
      BY <1>1, <3>1 DEF Joined
    <3>4. QED
      BY <1>5, <1>6, <3>1, <3>2, <3>3
  <2>3. FrameLen(sent[c][n + 1]) \in {3, 4}
    BY DEF FrameLen
  <2>4. buf[2] = Byte(f, 2)
    <3> DEFINE m == n + 1
    <3>1. 1 < FrameLen(sent[c][m]) /\ 1 + 1 = 2
      BY <2>3
    <3> HIDE DEF m
    <3>2. SuccessorIn(sent, Byte(<<c, m>>, 1)) = Byte(<<c, m>>, 1 + 1)
      BY <3>1, SuccessorInside
    <3>3. QED
      BY <2>2, <3>1, <3>2 DEF m
  <2>5. Kind(buf[2].frame) = sent[c][n + 1] /\ buf[2].pos = 2 /\ Kind(f) = sent[c][n + 1]
    BY <2>4, ByteFacts DEF Kind
  <2>6. CharSigned => sent[c][n + 1] # "LONG"
    BY <1>7, <2>5 DEF Sound
  <2>7. Length(buf) = FrameLen(sent[c][n + 1])
    <3> HIDE DEF FrameLen
    <3>1. QED
      BY <2>5, <2>6 DEF Length
  <2>8. QED
    BY <2>3, <2>7 DEF ValidLen
<1>11. QED
  BY <1>8, <1>9, <1>10 DEF c, n, buf

LEMMA AnalyseStreams ==
    ASSUME Types, Streams, AnalyseFrame, Sound' => Sound
    PROVE  Streams'
<1> USE DEF Types, Streams
<1> DEFINE c == conn[m_fd]
           buf == recvBuf[m_fd]
           w == wire[m_fd]
           fr == SubSeq(buf, 1, ValidLen(buf))
           rest == Rest(buf)
           n == Len(analysed[c])
           f == <<c, n + 1>>
           u == buf \o w
           x == rest \o w
<1>1. /\ c \in 1..conns /\ fixFrame(buf) = "COMPLETE"
      /\ fr \in Seq(ByteType) /\ rest \in Seq(ByteType) /\ Joined(fr, rest, buf)
      /\ Len(fr) = ValidLen(buf)
      /\ analysed' = [analysed EXCEPT ![c] = Append(@, fr)]
      /\ recvBuf' = [recvBuf EXCEPT ![m_fd] = rest]
  BY Zenon, AnalyseFacts
<1>2. /\ UNCHANGED <<conn, conns, sent, wire, cut>> /\ m_fd \in Fd /\ c = conn[m_fd]
      /\ buf # <<>> /\ conns \in Nat
  BY FrameFacts DEF AnalyseFrame, linkVars, TypeOK
<1>3. /\ recvBuf'[m_fd] = rest
      /\ \A g \in Fd : g # m_fd => recvBuf'[g] = recvBuf[g]
  BY <1>1 DEF TypeOK
<1>4. /\ analysed \in Seq(Seq(Seq(ByteType))) /\ Len(analysed) = conns
      /\ analysed[c] \in Seq(Seq(ByteType)) /\ n \in Nat
  BY <1>1 DEF TypeOK
<1>5. buf \in Seq(ByteType) /\ w \in Seq(ByteType) /\ u \in Seq(ByteType) /\ Joined(buf, w, u)
  BY <1>2, UnreadFacts
<1>6. x \in Seq(ByteType) /\ Joined(rest, w, x)
  BY Zenon, <1>1, <1>5, Concat
<1>7. Sound => StreamIn(sent, u, c, n) /\ StreamNow(m_fd) /\ WholeNow
  BY <1>1, <1>2 DEF Kept, StreamNow
<1>8. Sound => n + 1 \in 1..Len(sent[c]) /\ ValidLen(buf) = FrameLen(sent[c][n + 1])
  BY <1>1, <1>2, <1>4, <1>7, SoundCut
<1>9. Len(sent[c]) \in Nat
  BY <1>1, FrameFacts
<1> HIDE DEF c, buf, w, rest, fr, n, u, x
<1>10. Append(analysed[c], fr) \in Seq(Seq(ByteType)) /\ Len(Append(analysed[c], fr)) = n + 1
       /\ (\A i \in 1..n : Append(analysed[c], fr)[i] = analysed[c][i])
       /\ Append(analysed[c], fr)[n + 1] = fr
  BY <1>1, <1>4, AppendFacts DEF n
<1> DEFINE an == Append(analysed[c], fr)
<1>11. an \in Seq(Seq(ByteType)) /\ analysed' = [analysed EXCEPT ![c] = an]
  BY <1>1, <1>10
<1> HIDE DEF an
<1>12. analysed'[c] = an /\ \A d \in 1..conns : d # c => analysed'[d] = analysed[d]
  BY <1>1, <1>4, <1>11, ReplaceFacts
<1>13. Apart'
  BY <1>2 DEF Apart
<1>14. Closed'
  BY <1>1, <1>2, <1>3 DEF Closed
<1>15. ASSUME Sound PROVE fr = BytesOfKind(f, sent[c][n + 1]) /\ StreamIn(sent, x, c, n + 1)
  <2>1. Joined(fr, x, u)
    BY <1>1, <1>5, <1>6, JoinedRight
  <2>2. Len(fr) = FrameLen(sent[c][n + 1])
    BY <1>1, <1>8, <1>15
  <2>3. QED
    BY <1>1, <1>4, <1>5, <1>6, <1>7, <1>9, <1>15, <2>1, <2>2, StreamCut
<1>16. ASSUME Sound' PROVE WholeNow'
  <2>1. ASSUME NEW d \in 1..conns PROVE WholeIn(sent', analysed', d)
    <3>1. WholeIn(sent, analysed, d)
      BY <1>7, <1>16 DEF WholeNow
    <3>2. CASE d # c
      BY <1>2, <1>12, <3>1, <3>2, WholeStays
    <3>3. CASE d = c
      <4>1. Len(an) <= Len(sent[c]) /\ DOMAIN an = 1..(n + 1)
        BY <1>4, <1>8, <1>9, <1>10, <1>11, <1>16 DEF an
      <4>2. ASSUME NEW i \in 1..(n + 1) PROVE an[i] = BytesOfKind(<<c, i>>, sent[c][i])
        <5>1. CASE i \in 1..n
          <6>1. i \in DOMAIN analysed[c]
            BY <1>4, <5>1 DEF n
          <6>2. QED
            BY <1>10, <3>1, <3>3, <5>1, <6>1 DEF WholeIn, an
        <5>2. CASE i = n + 1
          BY <1>10, <1>15, <1>16, <5>2 DEF an
        <5>3. QED
          BY <1>4, <5>1, <5>2
      <4>3. QED
        BY <1>2, <1>12, <3>3, <4>1, <4>2 DEF WholeIn
    <3>4. QED
      BY <3>2, <3>3
  <2>2. QED
    BY <1>2, <2>1 DEF WholeNow
<1>17. ASSUME Sound', NEW g \in Fd, conn'[g] # 0 PROVE StreamNow(g)'
  <2>1. CASE g = m_fd
    <3>1. conn'[g] = c /\ recvBuf'[g] \o wire'[g] = x
      BY <1>2, <1>3, <2>1 DEF x, w
    <3>2. Len(analysed'[conn'[g]]) = n + 1
      BY <1>10, <1>12, <3>1 DEF an
    <3>3. QED
      BY <1>2, <1>15, <1>17, <3>1, <3>2 DEF StreamNow
  <2>2. CASE g # m_fd
    <3>1. conn'[g] = conn[g] /\ conn[g] # 0 /\ conn[g] \in 1..conns /\ StreamNow(g)
      BY <1>2, <1>17 DEF Kept, TypeOK
    <3>2. conn[g] # c
      BY <1>2, <2>2, <3>1 DEF Apart
    <3>3. analysed'[conn[g]] = analysed[conn[g]] /\ sent'[conn[g]] = sent[conn[g]]
      BY <1>2, <1>12, <3>1, <3>2
    <3>4. recvBuf'[g] \o wire'[g] = recvBuf[g] \o wire[g]
      BY <1>2, <1>3, <2>2
    <3>5. Grows
      BY <1>2 DEF Grows
    <3>6. QED
      BY <3>1, <3>3, <3>4, <3>5, StreamStays
  <2>3. QED
    BY <2>1, <2>2
<1>18. QED
  BY <1>13, <1>14, <1>16, <1>17 DEF Kept

LEMMA EndStreams ==
    ASSUME Types, Streams, EndMessage, Sound' => Sound
    PROVE  Streams'
<1> USE DEF Types, Streams
<1>1. UNCHANGED <<conn, conns, sent, wire, analysed, cut>> /\ m_fd \in Fd
  BY DEF EndMessage, linkVars, TypeOK
<1>2. Apart'
  BY <1>1 DEF Apart
<1>3. \A g \in Fd : recvBuf'[g] = recvBuf[g] \/ recvBuf'[g] = <<>>
  BY DEF EndMessage, TypeOK
<1>4. Closed'
  BY <1>1, <1>3 DEF Closed
<1>5. Sound => UNCHANGED recvBuf
  <2>1. conn[m_fd] \in 1..conns /\ conn[m_fd] # 0 /\ recvBuf[m_fd] # <<>>
    BY FrameFacts DEF EndMessage, TypeOK
  <2>2. Len(analysed[conn[m_fd]]) \in Nat
    BY <2>1 DEF TypeOK
  <2>3. ASSUME Sound PROVE fixFrame(recvBuf[m_fd]) # "INVALID"
    <3>1. StreamNow(m_fd)
      BY <1>1, <2>1, <2>3 DEF Kept
    <3>2. QED
      BY <1>1, <2>1, <2>2, <2>3, <3>1, SoundCut
  <2>4. QED
    BY <2>3 DEF EndMessage
<1>6. ASSUME Sound' PROVE WholeNow'
  BY <1>1, <1>6 DEF Kept, WholeNow, WholeIn
<1>7. ASSUME Sound', NEW g \in Fd, conn'[g] # 0 PROVE StreamNow(g)'
  BY <1>1, <1>5, <1>7 DEF Kept, StreamNow
<1>8. QED
  BY <1>2, <1>4, <1>6, <1>7 DEF Kept

LEMMA StreamsStutter ==
    ASSUME Streams, UNCHANGED vars, Sound' => Sound
    PROVE  Streams'
<1>1. UNCHANGED <<conn, conns, sent, wire, recvBuf, analysed, cut>>
  BY DEF vars, linkVars
<1>2. Apart' /\ Closed'
  BY <1>1 DEF Streams, Apart, Closed
<1>3. Sound' => WholeNow'
  BY <1>1 DEF Streams, Kept, WholeNow, WholeIn
<1>4. ASSUME Sound', NEW g \in Fd, conn'[g] # 0 PROVE StreamNow(g)'
  BY <1>1, <1>4 DEF Streams, Kept, StreamNow
<1>5. QED
  BY <1>2, <1>3, <1>4 DEF Streams, Kept

LEMMA StreamsStep == Types /\ Streams /\ [Next]_vars => Streams'
BY SoundBefore, ConnectStreams, SendStreams, DisconnectStreams, HandleStreams, AnalyseStreams,
   EndStreams, StreamsStutter DEF Next, Handle

LEMMA StreamsInvariant == Spec => []Streams
BY TypesInvariant, StreamsInit, StreamsStep, PTL DEF Spec

(* What is taken for a frame is one that was sent, whole and in its turn, if    *)
(* no frame has been cut and lengths fit in a char.                          *)
THEOREM FramesWholeHolds == Spec => []FramesWhole
BY StreamsInvariant, StreamsMeaning, PTL

(* And the bytes received or on their way are those of the frames that follow. *)
THEOREM StreamKeptHolds == Spec => []StreamKept
BY StreamsInvariant, StreamsMeaning, PTL
-----------------------------------------------------------------------------
(* Interrogations.                                                         *)

(* A confirmation is followed by all the rest of an interrogation.            *)
InterrogatedIn(o, all) ==
    \A i \in 1..Len(o) : o[i].content.type = "con" =>
        /\ i + Len(all) - 1 <= Len(o)
        /\ \A k \in 1..Len(all) : o[i + k - 1].content = all[k]

Interrogated == \A c \in 1..conns : InterrogatedIn(out[c], Interrogation)

LEMMA InterrogatedJoined ==
    ASSUME NEW all, Len(all) \in Nat, NEW o, NEW r, NEW v, Joined(o, r, v),
           InterrogatedIn(o, all), InterrogatedIn(r, all)
    PROVE  InterrogatedIn(v, all)
<1> DEFINE L == Len(all)
           n == Len(o)
<1> SUFFICES ASSUME NEW i \in 1..Len(v), v[i].content.type = "con"
             PROVE  /\ i + L - 1 <= Len(v)
                    /\ \A k \in 1..L : v[i + k - 1].content = all[k]
  BY DEF InterrogatedIn
<1>1. /\ n \in Nat /\ Len(r) \in Nat /\ Len(v) = n + Len(r) /\ L \in Nat
      /\ (\A j \in 1..n : v[j] = o[j]) /\ (\A j \in 1..Len(r) : v[n + j] = r[j])
  BY DEF Joined
<1>2. CASE i <= n
  <2>1. i \in 1..n /\ v[i] = o[i]
    BY <1>1, <1>2
  <2>2. i + L - 1 <= n /\ \A k \in 1..L : o[i + k - 1].content = all[k]
    BY <2>1 DEF InterrogatedIn
  <2>3. \A k \in 1..L : i + k - 1 \in 1..n
    BY <1>1, <2>1, <2>2
  <2> HIDE DEF n, L
  <2>4. QED
    BY <1>1, <2>1, <2>2, <2>3
<1>3. CASE ~(i <= n)
  <2> DEFINE j == i - n
  <2>1. j \in 1..Len(r) /\ n + j = i
    BY <1>1, <1>3
  <2> HIDE DEF j
  <2>2. v[i] = r[j]
    BY <1>1, <2>1
  <2>3. j + L - 1 <= Len(r) /\ \A k \in 1..L : r[j + k - 1].content = all[k]
    BY <2>1, <2>2 DEF InterrogatedIn
  <2>4. ASSUME NEW k \in 1..L PROVE v[i + k - 1].content = all[k]
    <3> HIDE DEF n, L
    <3>0. j \in Nat /\ n \in Nat /\ L \in Nat /\ Len(r) \in Nat /\ k <= L /\ k >= 1 /\ j >= 1
      BY <1>1, <2>1
    <3>1. j + k - 1 \in 1..Len(r) /\ n + (j + k - 1) = i + k - 1
      BY <2>1, <2>3, <3>0
    <3>2. v[n + (j + k - 1)] = r[j + k - 1]
      BY <1>1, <3>1
    <3>3. QED
      BY <2>3, <3>1, <3>2
  <2>5. i + L - 1 <= Len(v)
    BY <1>1, <2>1, <2>3
  <2>6. QED
    BY <2>4, <2>5
<1>4. QED
  BY <1>1, <1>2, <1>3

(* No reply has a confirmation elsewhere than at its beginning.               *)
LEMMA ReplyInterrogated ==
    ASSUME yxNum \in Nat, ycNum \in Nat, NEW kind \in Kinds, NEW nr \in Nat, sendIdx \in Nat
    PROVE  InterrogatedIn(Reply(kind, nr), Interrogation)
<1> DEFINE R == Reply(kind, nr)
           I == Interrogation
<1>1. CASE kind # "GI"
  <2>1. \A i \in 1..Len(R) : R[i].content.type # "con"
    BY <1>1, ReplyFacts
  <2>2. QED
    BY <2>1 DEF InterrogatedIn
<1>2. CASE kind = "GI"
  <2>1. kind \in IKinds /\ IFrames(kind) = I
    BY <1>2 DEF IKinds, IFrames
  <2>2. /\ Len(I) \in Nat /\ Len(I) >= 2 /\ I[Len(I)].type = "fin"
        /\ \A k \in 2..(Len(I) - 1) : I[k].type \in {"yx", "yc"}
    BY InterrogationTypes
  <2>3. /\ Len(R) = Len(I) + 1
        /\ \A i \in 1..Len(I) : R[i].content = I[i]
        /\ R[Len(I) + 1].content.type = "S"
    BY <2>1, ReplyFacts
  <2> HIDE DEF R, I
  <2>4. ASSUME NEW i \in 1..Len(R), R[i].content.type = "con" PROVE i = 1
    <3>1. i = 1 \/ i \in 2..(Len(I) - 1) \/ i = Len(I) \/ i = Len(I) + 1
      BY <2>2, <2>3
    <3>2. i \in 2..(Len(I) - 1) => R[i].content.type \in {"yx", "yc"}
      BY <2>2, <2>3
    <3>3. R[Len(I)].content.type = "fin"
      BY <2>2, <2>3
    <3>4. QED
      BY <2>3, <2>4, <3>1, <3>2, <3>3
  <2>5. \A k \in 1..Len(I) : 1 + k - 1 = k
    BY <2>2
  <2>6. QED
    BY <2>2, <2>3, <2>4, <2>5 DEF InterrogatedIn, R, I
<1>3. QED
  BY <1>1, <1>2

LEMMA InterrogatedInit == Init => Interrogated
<1>1. Init => 1..conns = {}
  BY DEF Init
<1>2. QED
  BY <1>1 DEF Interrogated

LEMMA InterrogatedStep ==
    ASSUME Types, Interrogated, [Next]_vars
    PROVE  Interrogated'
<1> USE DEF Types
<1>1. Interrogation' = Interrogation /\ UNCHANGED <<yxNum, ycNum>>
  <2>1. UNCHANGED <<yxNum, ycNum>>
    BY DEF Next, Handle, Connect, Disconnect, Send, HandleMessage, AnalyseFrame, EndMessage, vars
  <2>2. QED
    BY <2>1 DEF Interrogation
<1>2. ASSUME UNCHANGED <<conns, out>> PROVE Interrogated'
  BY <1>1, <1>2 DEF Interrogated
<1>3. ASSUME NEW fd \in Fd, Connect(fd) PROVE Interrogated'
  <2>1. /\ conns' = conns + 1 /\ conns \in Nat /\ out' = Append(out, <<>>)
        /\ out \in Seq(Seq(OutFrame)) /\ Len(out) = conns
    BY <1>3, FrameFacts DEF Connect, OutType, TypeOK
  <2>2. <<>> \in Seq(OutFrame) /\ 1..Len(<<>>) = {}
    OBVIOUS
  <2>3. (\A d \in 1..conns : out'[d] = out[d]) /\ out'[conns + 1] = <<>>
    BY <2>1, <2>2, AppendFacts
  <2>4. InterrogatedIn(<<>>, Interrogation)
    BY <2>2 DEF InterrogatedIn
  <2>5. \A d \in 1..conns' : d \in 1..conns \/ d = conns + 1
    BY <2>1
  <2>6. QED
    BY <1>1, <2>3, <2>4, <2>5 DEF Interrogated
<1>4. ASSUME AnalyseFrame PROVE Interrogated'
  <2>1. PICK kind \in Kinds : Answer(kind) /\ conn[m_fd] \in 1..conns
    BY Zenon, <1>4, AnalyseFacts
  <2> DEFINE c == conn[m_fd]
             r == Reply(kind, Number(recvIdx'))
  <2>2. /\ yxNum \in Nat /\ ycNum \in Nat /\ sendIdx \in Nat /\ Number(recvIdx') \in Nat
        /\ Joined(out[c], r, out'[c])
        /\ \A d \in 1..conns : d # c => out'[d] = out[d]
    BY Zenon, <2>1, AnswerFacts
  <2>3. InterrogatedIn(r, Interrogation)
    BY <2>2, ReplyInterrogated
  <2>4. Len(Interrogation) \in Nat
    BY <2>2, InterrogationTypes
  <2>5. c \in 1..conns
    BY <2>1
  <2> HIDE DEF c, r
  <2>6. InterrogatedIn(out'[c], Interrogation)
    BY <2>2, <2>3, <2>4, <2>5, InterrogatedJoined DEF Interrogated
  <2>7. conns' = conns
    BY <1>4 DEF AnalyseFrame, linkVars
  <2>8. QED
    BY <1>1, <2>2, <2>6, <2>7 DEF Interrogated
<1>5. CASE UNCHANGED vars
  BY <1>2, <1>5 DEF vars, linkVars
<1>6. ASSUME NEW fd \in Fd, Disconnect(fd) \/ HandleMessage(fd) PROVE Interrogated'
  BY <1>2, <1>6 DEF Disconnect, HandleMessage
<1>7. ASSUME NEW fd \in Fd, NEW kind \in Kinds, Send(fd, kind) PROVE Interrogated'
  BY <1>2, <1>7 DEF Send
<1>8. CASE EndMessage
  BY <1>2, <1>8 DEF EndMessage, linkVars
<1>9. QED
  BY <1>3, <1>4, <1>5, <1>6, <1>7, <1>8 DEF Next, Handle

(* No two rounds announce the same point.                                   *)
LEMMA PointsApart ==
    ASSUME NEW num \in Nat, NEW type \in {"yx", "yc"},
           NEW r \in 1..Len(Points(type, num)), NEW s \in 1..Len(Points(type, num)),
           r < s
    PROVE  Points(type, num)[r].first + Points(type, num)[r].num
              <= Points(type, num)[s].first
<1> DEFINE M == SQ_MAX_NUM
           R == Rounds(num)
           P == Points(type, num)
           first(k) == (k - 1) * M
           left(k) == num - (k - 1) * M
           n(k) == IF left(k) < M THEN left(k) ELSE M
<1>1. M \in Nat /\ M >= 1
  BY SlaveAssumption
<1>2. num # 0
  <2>1. num = 0 => P = <<>>
    BY DEF Points
  <2>2. num = 0 => 1..Len(P) = {}
    BY <2>1
  <2>3. QED
    BY <2>2
<1>3. R \in Nat /\ P = [k \in 1..R |-> [type |-> type, first |-> first(k), num |-> n(k)]]
  BY <1>2, RoundsFacts DEF Points
<1>4. Len(P) \in Nat /\ DOMAIN P = 1..Len(P)
  <2> DEFINE S == [type : {type}, first : Nat, num : Nat]
  <2>1. P \in Seq(S)
    BY PointsFacts
  <2> HIDE DEF P, S
  <2>2. QED
    BY <2>1, LenProperties
<1> HIDE DEF P, R, M
<1>5. r \in 1..R /\ s \in 1..R
  BY <1>3, <1>4 DEF P
<1>6. P[r].first = first(r) /\ P[r].num = n(r) /\ P[s].first = first(s)
  BY <1>3, <1>5
<1>7. \A x, y \in Nat : x <= y => x * M \in Nat /\ y * M \in Nat /\ x * M <= y * M
  BY <1>1
<1>8. \A x \in Nat : (x + 1) * M = x * M + M
  BY <1>1
<1>9. r - 1 \in Nat /\ s - 1 \in Nat /\ r <= s - 1 /\ r \in Nat /\ r = (r - 1) + 1
  BY <1>3, <1>5
<1>10. first(r) \in Nat /\ first(r) + M = r * M /\ r * M <= first(s) /\ first(s) \in Nat
  <2>1. (r - 1) * M \in Nat
    BY <1>7, <1>9
  <2>2. (s - 1) * M \in Nat /\ r * M <= (s - 1) * M
    BY <1>7, <1>9
  <2>3. ((r - 1) + 1) * M = (r - 1) * M + M
    BY <1>8, <1>9
  <2>4. QED
    BY <1>9, <2>1, <2>2, <2>3
<1>11. n(r) <= M /\ n(r) \in Int
  <2>1. left(r) \in Int
    BY <1>10
  <2> HIDE DEF left
  <2>2. QED
    BY <1>1, <2>1
<1>12. r * M \in Nat
  BY <1>7, <1>9
<1> HIDE DEF first, n
<1>13. first(r) + n(r) <= first(s)
  BY <1>1, <1>10, <1>11, <1>12
<1>14. QED
  BY <1>6, <1>13 DEF P

(* If the points are in their turn among the frames, from off + 1 on, and all  *)
(* other frames are of other types, each address is announced by one frame.   *)
LEMMA AnnouncedFacts ==
    ASSUME NEW num \in Nat, NEW type \in {"yx", "yc"}, NEW frames, NEW off \in Nat,
           \A r \in 1..Len(Points(type, num)) :
              off + r \in DOMAIN frames /\ frames[off + r].content = Points(type, num)[r],
           \A k \in DOMAIN frames : frames[k].content.type = type =>
              \E r \in 1..Len(Points(type, num)) : k = off + r
    PROVE  AnnouncedOnce(frames, type, num)
<1> DEFINE P == Points(type, num)
           of == {k \in DOMAIN frames : frames[k].content.type = type}
           At(r) == {P[r].first + i : i \in 0..(P[r].num - 1)}
<1>1. /\ \A r \in 1..Len(P) : \A i \in 0..(P[r].num - 1) : P[r].first + i \in 0..(num - 1)
      /\ \A x \in 0..(num - 1) :
            \E r \in 1..Len(P) : \E i \in 0..(P[r].num - 1) : x = P[r].first + i
      /\ P \in Seq([type : {type}, first : Nat, num : Nat])
  BY PointsFacts
<1>2. \A r \in 1..Len(P) : P[r].type = type /\ P[r].first \in Nat /\ P[r].num \in Nat
  <2> DEFINE S == [type : {type}, first : Nat, num : Nat]
  <2>1. \A y \in S : y.type = type /\ y.first \in Nat /\ y.num \in Nat
    OBVIOUS
  <2> HIDE DEF S, P
  <2>2. P \in Seq(S)
    BY <1>1 DEF S
  <2>3. QED
    BY <2>1, <2>2, ElementOfSeq
<1>3. \A r, s \in 1..Len(P) : r < s => P[r].first + P[r].num <= P[s].first
  BY PointsApart
<1>4. Len(P) \in Nat
  BY <1>1, LenProperties
<1> HIDE DEF P
<1>5. \A r \in 1..Len(P) : off + r \in DOMAIN frames /\ frames[off + r].content = P[r]
  BY DEF P
<1>6. \A k \in of : \E r \in 1..Len(P) : k = off + r
  BY DEF P
<1>7. \A r \in 1..Len(P) : off + r \in of /\ Addresses(frames[off + r]) = At(r)
  BY <1>2, <1>5 DEF Addresses
<1>8. ASSUME NEW r \in 1..Len(P), NEW s \in 1..Len(P), r < s
      PROVE  At(r) \cap At(s) = {}
  <2>1. P[r].first + P[r].num <= P[s].first
    BY <1>3, <1>8
  <2>2. P[r].first \in Nat /\ P[r].num \in Nat /\ P[s].first \in Nat /\ P[s].num \in Nat
    BY <1>2
  <2>3. \A x \in At(r) : x < P[s].first
    BY <2>1, <2>2
  <2>4. \A x \in At(s) : x >= P[s].first /\ x \in Nat
    BY <2>2
  <2> HIDE DEF At
  <2>5. \A x \in At(s) : ~(x < P[s].first)
    BY <2>2, <2>4
  <2>6. QED
    BY <2>3, <2>5
<1>9. ASSUME NEW k \in of, NEW l \in of, k # l
      PROVE  Addresses(frames[k]) \cap Addresses(frames[l]) = {}
  <2>1. PICK r \in 1..Len(P) : k = off + r
    BY <1>6
  <2>2. PICK s \in 1..Len(P) : l = off + s
    BY <1>6
  <2>3. Addresses(frames[k]) = At(r) /\ Addresses(frames[l]) = At(s)
    BY <1>7, <2>1, <2>2
  <2>4. r < s \/ s < r
    BY <1>4, <1>9, <2>1, <2>2
  <2> HIDE DEF At, of
  <2>5. At(r) \cap At(s) = {}
    BY <1>8, <2>4
  <2>6. QED
    BY <2>3, <2>5
<1>10. ASSUME NEW x \in 0..(num - 1) PROVE \E k \in of : x \in Addresses(frames[k])
  <2>1. PICK r \in 1..Len(P) : x \in At(r)
    BY <1>1
  <2>2. QED
    BY <1>7, <2>1
<1>11. ASSUME NEW k \in of PROVE Addresses(frames[k]) \subseteq 0..(num - 1)
  <2>1. PICK r \in 1..Len(P) : k = off + r
    BY <1>6
  <2>2. Addresses(frames[k]) = At(r) /\ At(r) \subseteq 0..(num - 1)
    BY <1>1, <1>7, <2>1
  <2>3. QED
    BY <2>2
<1> HIDE DEF of, At
<1>12. UNION {Addresses(frames[k]) : k \in of} = 0..(num - 1)
  BY <1>10, <1>11
<1>13. QED
  BY <1>9, <1>12 DEF AnnouncedOnce, of

(* What is between the two ends of an interrogation are the points.           *)
LEMMA BodyFacts ==
    ASSUME yxNum \in Nat, ycNum \in Nat, NEW body,
           NEW m \in Nat, DOMAIN body = 1..m, m = Len(Interrogation) - 2,
           \A k \in 1..m : body[k].content = Interrogation[k + 1]
    PROVE  /\ AnnouncedOnce(body, "yx", yxNum)
           /\ AnnouncedOnce(body, "yc", ycNum)
<1> DEFINE py == Points("yx", yxNum)
           pc == Points("yc", ycNum)
           a  == Len(py)
           b  == Len(pc)
           I  == Interrogation
<1>1. /\ a \in Nat /\ b \in Nat /\ Len(I) = a + b + 2
      /\ \A k \in 1..a : I[k + 1] = py[k] /\ py[k].type = "yx"
      /\ \A k \in 1..b : I[a + k + 1] = pc[k] /\ pc[k].type = "yc"
  BY InterrogationFacts
<1> HIDE DEF py, pc, I, a, b
<1>2. m = a + b /\ \A k \in 1..m : body[k].content = I[k + 1]
  BY <1>1 DEF I
<1>3. ASSUME NEW k \in 1..a PROVE k \in 1..m /\ body[k].content = py[k]
  BY <1>1, <1>2
<1>4. ASSUME NEW k \in 1..b PROVE a + k \in 1..m /\ body[a + k].content = pc[k]
  <2>1. a + k \in 1..m /\ (a + k) + 1 = a + k + 1
    BY <1>1, <1>2
  <2>2. body[a + k].content = I[(a + k) + 1]
    BY <1>2, <2>1
  <2>3. QED
    BY <1>1, <2>1, <2>2
<1>5. ASSUME NEW k \in 1..m
      PROVE  \/ k \in 1..a /\ body[k].content.type = "yx"
             \/ \E q \in 1..b : k = a + q /\ body[k].content.type = "yc"
  <2>1. CASE k <= a
    <3>1. k \in 1..a
      BY <1>1, <2>1
    <3>2. QED
      BY <1>1, <1>3, <3>1
  <2>2. CASE ~(k <= a)
    <3> DEFINE q == k - a
    <3>1. q \in 1..b /\ a + q = k
      BY <1>1, <1>2, <2>2
    <3> HIDE DEF q
    <3>2. body[a + q].content = pc[q] /\ pc[q].type = "yc"
      BY <1>1, <1>4, <3>1
    <3>3. QED
      BY <3>1, <3>2
  <2>3. QED
    BY <2>1, <2>2
<1>6. AnnouncedOnce(body, "yx", yxNum)
  <2>1. \A k \in DOMAIN body : body[k].content.type = "yx" => \E r \in 1..a : k = 0 + r
    BY <1>5
  <2>2. \A r \in 1..a : 0 + r \in DOMAIN body /\ body[0 + r].content = py[r]
    BY <1>3
  <2>3. QED
    BY <2>1, <2>2, AnnouncedFacts DEF py, a
<1>7. AnnouncedOnce(body, "yc", ycNum)
  <2>1. \A k \in DOMAIN body : body[k].content.type = "yc" => \E r \in 1..b : k = a + r
    BY <1>5
  <2>2. \A r \in 1..b : a + r \in DOMAIN body /\ body[a + r].content = pc[r]
    BY <1>4
  <2>3. QED
    BY <1>1, <2>1, <2>2, AnnouncedFacts DEF pc, b
<1>8. QED
  BY <1>6, <1>7

LEMMA InterrogatedMeaning == Types /\ Interrogated => PointsAnnounced
<1> SUFFICES ASSUME Types, Interrogated,
                    NEW c \in 1..conns, NEW i \in DOMAIN out[c], NEW j \in DOMAIN out[c],
                    i < j, out[c][i].content.type = "con", out[c][j].content.type = "fin",
                    \A k \in (i + 1)..(j - 1) : out[c][k].content.type \notin {"con", "fin"}
             PROVE  /\ AnnouncedOnce(SubSeq(out[c], i + 1, j - 1), "yx", yxNum)
                    /\ AnnouncedOnce(SubSeq(out[c], i + 1, j - 1), "yc", ycNum)
  BY DEF PointsAnnounced
<1> DEFINE o == out[c]
           I == Interrogation
           L == Len(I)
<1>1. yxNum \in Nat /\ ycNum \in Nat /\ o \in Seq(OutFrame)
  BY SlaveAssumption DEF Types, TypeOK, OutType
<1>2. DOMAIN o = 1..Len(o) /\ Len(o) \in Nat /\ i \in 1..Len(o) /\ j \in 1..Len(o)
  BY <1>1
<1>3. /\ L \in Nat /\ L >= 2 /\ I[L].type = "fin"
      /\ \A k \in 2..(L - 1) : I[k].type \in {"yx", "yc"}
  BY <1>1, InterrogationTypes
<1>4. /\ i + L - 1 <= Len(o)
      /\ \A k \in 1..L : o[i + k - 1].content = I[k]
  BY <1>2 DEF Interrogated, InterrogatedIn
<1>5. /\ i < j /\ o[j].content.type = "fin"
      /\ \A k \in (i + 1)..(j - 1) : o[k].content.type \notin {"con", "fin"}
  OBVIOUS
<1> HIDE DEF o, I, L
<1>6. ~(j < i + L - 1)
  <2> SUFFICES ASSUME j < i + L - 1 PROVE FALSE
    OBVIOUS
  <2> DEFINE k == j - i + 1
  <2>1. k \in 2..(L - 1) /\ k \in 1..L /\ i + k - 1 = j
    BY <1>2, <1>3, <1>5
  <2> HIDE DEF k
  <2>2. o[i + k - 1].content = I[k] /\ I[k].type \in {"yx", "yc"}
    BY <1>3, <1>4, <2>1
  <2>3. QED
    BY <1>5, <2>1, <2>2
<1>7. ~(j > i + L - 1)
  <2> SUFFICES ASSUME j > i + L - 1 PROVE FALSE
    OBVIOUS
  <2>1. i + L - 1 \in (i + 1)..(j - 1) /\ L \in 1..L
    BY <1>2, <1>3
  <2>2. o[i + L - 1].content.type = "fin"
    BY <1>3, <1>4, <2>1
  <2>3. QED
    BY <1>5, <2>1, <2>2
<1>8. j = i + L - 1
  <2>1. i \in Nat /\ j \in Nat /\ L \in Nat
    BY <1>2, <1>3
  <2>2. QED
    BY <1>6, <1>7, <2>1
<1> DEFINE m == L - 2
           body == SubSeq(o, i + 1, j - 1)
<1>9. m \in Nat /\ i + 1 \in Int /\ j - 1 \in Int /\ (j - 1) - (i + 1) + 1 = m
  BY <1>2, <1>3, <1>8
<1>10. \A k \in (i + 1)..(j - 1) : o[k] \in OutFrame
  BY <1>1, <1>2
<1>11. /\ body \in Seq(OutFrame)
       /\ Len(body) = IF i + 1 <= j - 1 THEN (j - 1) - (i + 1) + 1 ELSE 0
       /\ \A k \in 1..((j - 1) - (i + 1) + 1) : body[k] = o[(i + 1) + k - 1]
  BY <1>9, <1>10, SubSeqProperties
<1> HIDE DEF body, m
<1>12. Len(body) = m /\ DOMAIN body = 1..m
  <2>1. (IF i + 1 <= j - 1 THEN (j - 1) - (i + 1) + 1 ELSE 0) = m
    BY <1>2, <1>8, <1>9
  <2>2. QED
    BY <1>11, <2>1
<1>13. ASSUME NEW k \in 1..m PROVE body[k].content = I[k + 1]
  <2>1. body[k] = o[(i + 1) + k - 1]
    BY <1>9, <1>11
  <2>2. k + 1 \in 1..L /\ i + (k + 1) - 1 = (i + 1) + k - 1
    BY <1>2, <1>3, <1>9 DEF m
  <2>3. o[i + (k + 1) - 1].content = I[k + 1]
    BY <1>4, <2>2
  <2>4. QED
    BY <2>1, <2>2, <2>3
<1>14. m = Len(Interrogation) - 2
  BY DEF m, L, I
<1>15. AnnouncedOnce(body, "yx", yxNum) /\ AnnouncedOnce(body, "yc", ycNum)
  BY <1>1, <1>9, <1>12, <1>13, <1>14, BodyFacts DEF I
<1>16. QED
  BY Zenon, <1>15 DEF body, o

(* sendGIYx, sendGIYc: between a confirmation and the termination that follows  *)
(* it the headers announce every point of both tables once, for all sizes of   *)
(* the tables and of the frames.                                            *)
THEOREM PointsAnnouncedHolds == Spec => []PointsAnnounced
<1>1. Types /\ Interrogated /\ [Next]_vars => Interrogated'
  BY InterrogatedStep
<1>2. QED
  BY <1>1, TypesInvariant, InterrogatedInit, InterrogatedMeaning, PTL DEF Spec
-----------------------------------------------------------------------------
(* The numbers that frames carry.                                          *)

(* How many of the first n frames of o are of these types.                   *)
Count(o, types, n) == Cardinality({j \in 1..n : o[j].content.type \in types})

LEMMA CountFacts ==
    ASSUME NEW o, NEW types, NEW n \in Nat, NEW m \in Nat
    PROVE  /\ IsFiniteSet({j \in 1..n : o[j].content.type \in types})
           /\ Count(o, types, n) \in Nat
           /\ Count(o, types, n) <= Count(o, types, n + m)
<1> DEFINE C(k) == {j \in 1..k : o[j].content.type \in types}
<1>1. ASSUME NEW k \in Nat PROVE IsFiniteSet(C(k)) /\ Cardinality(C(k)) \in Nat
  <2>1. IsFiniteSet(1..k)
    BY FS_Interval
  <2>2. C(k) \subseteq 1..k
    OBVIOUS
  <2> HIDE DEF C
  <2>3. IsFiniteSet(C(k))
    BY <2>1, <2>2, FS_Subset
  <2>4. QED
    BY <2>3, FS_CardinalityType
<1>2. n + m \in Nat
  OBVIOUS
<1>3. C(n) \subseteq C(n + m)
  OBVIOUS
<1> HIDE DEF C
<1>4. Cardinality(C(n)) <= Cardinality(C(n + m))
  BY <1>1, <1>2, <1>3, FS_Subset
<1>5. QED
  BY <1>1, <1>4 DEF Count, C

(* Frames of the types that are counted, and frames of others.               *)
AllAre(o, types, n, k)  == \A i \in 1..k : o[n + i].content.type \in types
NoneAre(o, types, n, k) == \A i \in 1..k : o[n + i].content.type \notin types

LEMMA CountAll ==
    ASSUME NEW o, NEW types, NEW n \in Nat, NEW k \in Nat,
           AllAre(o, types, n, k)
    PROVE  Count(o, types, n + k) = Count(o, types, n) + k
<1> DEFINE A == {j \in 1..n : o[j].content.type \in types}
           B == (n + 1)..(n + k)
           C == {j \in 1..(n + k) : o[j].content.type \in types}
<1>1. IsFiniteSet(A) /\ Cardinality(A) = Count(o, types, n) /\ Count(o, types, n) \in Nat
  BY CountFacts DEF Count
<1>2. IsFiniteSet(B) /\ Cardinality(B) = k
  <2>1. n + 1 \in Int /\ n + k \in Int
    OBVIOUS
  <2>2. IsFiniteSet(B) /\ Cardinality(B) = IF n + 1 > n + k THEN 0 ELSE (n + k) - (n + 1) + 1
    BY <2>1, FS_Interval
  <2> HIDE DEF B
  <2>3. QED
    BY <2>2
<1>3. C = A \cup B
  <2>1. ASSUME NEW j \in B PROVE o[j].content.type \in types
    <3>1. j - n \in 1..k /\ n + (j - n) = j
      OBVIOUS
    <3>2. o[n + (j - n)].content.type \in types
      BY <3>1 DEF AllAre
    <3>3. QED
      BY <3>1, <3>2
  <2>2. \A j : j \in 1..(n + k) <=> j \in 1..n \/ j \in B
    OBVIOUS
  <2> HIDE DEF B
  <2>3. QED
    BY <2>1, <2>2
<1>4. A \cap B = {}
  OBVIOUS
<1>5. Cardinality(C) = Count(o, types, n + k)
  BY DEF Count
<1> HIDE DEF A, B, C
<1>6. Cardinality(A \cup B) = Cardinality(A) + Cardinality(B)
  BY <1>1, <1>2, <1>4, FS_Union, FS_EmptySet
<1>7. QED
  BY <1>1, <1>2, <1>3, <1>5, <1>6

LEMMA CountNone ==
    ASSUME NEW o, NEW types, NEW n \in Nat, NEW k \in Nat,
           NoneAre(o, types, n, k)
    PROVE  Count(o, types, n + k) = Count(o, types, n)
<1>1. ASSUME NEW j \in 1..(n + k), o[j].content.type \in types PROVE j \in 1..n
  <2> SUFFICES ASSUME ~(j \in 1..n) PROVE FALSE
    OBVIOUS
  <2>1. j - n \in 1..k /\ n + (j - n) = j
    OBVIOUS
  <2>2. o[n + (j - n)].content.type \notin types
    BY <2>1 DEF NoneAre
  <2>3. QED
    BY <1>1, <2>1, <2>2
<1>2. \A j \in 1..n : j \in 1..(n + k)
  OBVIOUS
<1>3. {j \in 1..(n + k) : o[j].content.type \in types} = {j \in 1..n : o[j].content.type \in types}
  BY <1>1, <1>2
<1>4. QED
  BY <1>3 DEF Count

LEMMA CountSame ==
    ASSUME NEW o, NEW v, NEW types, NEW n \in Nat, \A j \in 1..n : v[j] = o[j]
    PROVE  Count(v, types, n) = Count(o, types, n)
<1>1. {j \in 1..n : v[j].content.type \in types} = {j \in 1..n : o[j].content.type \in types}
  OBVIOUS
<1>2. QED
  BY <1>1 DEF Count

(* The frames of o carry the numbers that NumbersRight says.                 *)
RightIn(o) ==
    \A i \in 1..Len(o) :
        /\ o[i].content.type \in ITypes =>
              o[i].ns = Count(o, ITypes, i - 1) /\ o[i].nr = Count(o, {"S"}, i) + 1
        /\ o[i].content.type = "S" => o[i].nr = Count(o, {"S"}, i)

(* The counts go up with a reply: by all of its I frames, and by the             *)
(* acknowledgement at its end.                                              *)
Counted(o, v, m) ==
    LET n == Len(o) IN
    /\ \A i \in 0..m : /\ Count(v, ITypes, n + i) = Count(o, ITypes, n) + i
                       /\ Count(v, {"S"}, n + i) = Count(o, {"S"}, n)
    /\ Count(v, ITypes, n + m + 1) = Count(o, ITypes, n) + m
    /\ Count(v, {"S"}, n + m + 1) = Count(o, {"S"}, n) + 1

LEMMA ReplyCounts ==
    ASSUME NEW o, NEW r, NEW v, Joined(o, r, v), NEW m \in Nat, Len(r) = m + 1,
           \A i \in 1..m : r[i].content.type \in ITypes,
           r[m + 1].content.type = "S"
    PROVE  Counted(o, v, m)
<1> DEFINE n == Len(o)
<1>1. /\ n \in Nat
      /\ (\A j \in 1..n : v[j] = o[j]) /\ (\A j \in 1..Len(r) : v[n + j] = r[j])
  BY DEF Joined
<1> HIDE DEF n
<1>2. Count(v, ITypes, n) = Count(o, ITypes, n) /\ Count(v, {"S"}, n) = Count(o, {"S"}, n)
  BY <1>1, CountSame
<1>3. ASSUME NEW i \in 1..m
      PROVE  v[n + i].content.type \in ITypes /\ v[n + i].content.type \notin {"S"}
  <2>1. i \in 1..Len(r)
    OBVIOUS
  <2>2. v[n + i] = r[i]
    BY <1>1, <2>1
  <2>3. r[i].content.type \in ITypes /\ "S" \notin ITypes
    BY DEF ITypes
  <2>4. QED
    BY <2>2, <2>3
<1>4. ASSUME NEW i \in 0..m
      PROVE  /\ Count(v, ITypes, n + i) = Count(o, ITypes, n) + i
             /\ Count(v, {"S"}, n + i) = Count(o, {"S"}, n)
  <2>1. i \in Nat /\ \A k \in 1..i : k \in 1..m
    OBVIOUS
  <2>2. AllAre(v, ITypes, n, i) /\ NoneAre(v, {"S"}, n, i)
    BY <1>3, <2>1 DEF AllAre, NoneAre
  <2>3. Count(v, ITypes, n + i) = Count(v, ITypes, n) + i
    BY <1>1, <2>1, <2>2, CountAll
  <2>4. Count(v, {"S"}, n + i) = Count(v, {"S"}, n)
    BY <1>1, <2>1, <2>2, CountNone
  <2>5. QED
    BY <1>2, <2>3, <2>4
<1> DEFINE p == n + m
<1>5. p \in Nat /\ 1 \in Nat /\ v[p + 1] = r[m + 1]
  <2>1. m + 1 \in 1..Len(r) /\ p + 1 = n + (m + 1)
    BY <1>1
  <2>2. v[n + (m + 1)] = r[m + 1]
    BY <1>1, <2>1
  <2>3. QED
    BY <1>1, <2>1, <2>2
<1>6. m \in 0..m
  OBVIOUS
<1>7. Count(v, ITypes, p) = Count(o, ITypes, n) + m /\ Count(v, {"S"}, p) = Count(o, {"S"}, n)
  BY <1>4, <1>6
<1> HIDE DEF p
<1>8. AllAre(v, {"S"}, p, 1) /\ NoneAre(v, ITypes, p, 1)
  BY <1>5 DEF ITypes, AllAre, NoneAre
<1>9. Count(v, ITypes, p + 1) = Count(v, ITypes, p) /\ Count(v, {"S"}, p + 1) = Count(v, {"S"}, p) + 1
  BY <1>5, <1>8, CountAll, CountNone
<1>10. QED
  BY <1>4, <1>7, <1>9 DEF p, n, Counted

LEMMA ReplyRight ==
    ASSUME NEW o, NEW r, NEW v, Joined(o, r, v), NEW m \in Nat, Len(r) = m + 1, RightIn(o),
           NEW si \in Nat, si = Count(o, ITypes, Len(o)),
           NEW ri \in Nat, ri = Count(o, {"S"}, Len(o)),
           \A i \in 1..m : /\ r[i].content.type \in ITypes
                           /\ r[i].ns = si + (i - 1) /\ r[i].nr = ri + 1,
           r[m + 1].content.type = "S", r[m + 1].nr = ri + 1
    PROVE  RightIn(v)
<1> DEFINE n == Len(o)
<1>1. /\ n \in Nat /\ Len(v) = n + m + 1
      /\ (\A j \in 1..n : v[j] = o[j]) /\ (\A j \in 1..Len(r) : v[n + j] = r[j])
  BY DEF Joined
<1>2. /\ \A i \in 0..m : /\ Count(v, ITypes, n + i) = si + i
                         /\ Count(v, {"S"}, n + i) = ri
      /\ Count(v, {"S"}, n + m + 1) = ri + 1
  <2>1. \A i \in 1..m : r[i].content.type \in ITypes
    OBVIOUS
  <2>2. Counted(o, v, m)
    BY <2>1, ReplyCounts
  <2>3. QED
    BY <2>2 DEF Counted
<1> HIDE DEF n
<1> DEFINE Right(i) == /\ v[i].content.type \in ITypes =>
                             /\ v[i].ns = Count(v, ITypes, i - 1)
                             /\ v[i].nr = Count(v, {"S"}, i) + 1
                       /\ v[i].content.type = "S" => v[i].nr = Count(v, {"S"}, i)
<1>3. ASSUME NEW i \in 1..n PROVE Right(i)
  <2>1. i \in Nat /\ i - 1 \in Nat /\ v[i] = o[i] /\ i \in 1..Len(o)
        /\ (\A j \in 1..i : v[j] = o[j]) /\ (\A j \in 1..(i - 1) : v[j] = o[j])
    BY <1>1 DEF n
  <2>2. /\ Count(v, ITypes, i - 1) = Count(o, ITypes, i - 1)
        /\ Count(v, {"S"}, i) = Count(o, {"S"}, i)
    BY <2>1, CountSame
  <2>3. QED
    BY <2>1, <2>2 DEF RightIn
<1>4. ASSUME NEW i \in 1..m PROVE Right(n + i)
  <2>1. i \in 1..Len(r) /\ i \in 0..m /\ i - 1 \in 0..m /\ (n + i) - 1 = n + (i - 1)
    BY SMTT(40), <1>1
  <2>2. v[n + i] = r[i]
    BY <1>1, <2>1
  <2>3. r[i].content.type \in ITypes /\ r[i].content.type # "S"
    BY DEF ITypes
  <2>4. Count(v, ITypes, (n + i) - 1) = si + (i - 1) /\ Count(v, {"S"}, n + i) = ri
    BY <1>2, <2>1
  <2>5. QED
    BY <2>2, <2>3, <2>4
<1>5. Right(n + m + 1)
  <2>1. m + 1 \in 1..Len(r) /\ n + m + 1 = n + (m + 1)
    BY <1>1
  <2>2. v[n + m + 1] = r[m + 1]
    BY <1>1, <2>1
  <2>3. "S" \notin ITypes
    BY DEF ITypes
  <2>4. QED
    BY <1>2, <2>2, <2>3
<1>6. ASSUME NEW i \in 1..Len(v) PROVE Right(i)
  <2>1. CASE i <= n
    BY <1>1, <1>3, <2>1
  <2>2. CASE i > n /\ i <= n + m
    <3> DEFINE j == i - n
    <3>1. j \in 1..m /\ n + j = i
      BY <1>1, <2>2
    <3> HIDE DEF j, Right
    <3>2. Right(n + j)
      BY <1>4, <3>1
    <3>3. QED
      BY <3>1, <3>2
  <2>3. CASE i = n + m + 1
    BY <1>5, <2>3
  <2>4. QED
    BY <1>1, <2>1, <2>2, <2>3
<1>7. QED
  BY <1>6 DEF RightIn

(* The third byte of a frame, with its kind, knows the frame.                 *)
LEMMA ThirdByte ==
    ASSUME NEW f, NEW kind
    PROVE  LET b == BytesOfKind(f, kind) IN Len(b) > 2 /\ b[3].pos = 3 /\ b[3].frame = f
<1> DEFINE L == FrameLen(kind)
           b == BytesOfKind(f, kind)
<1>1. L \in {3, 4}
  BY DEF FrameLen
<1>2. b = [i \in 1..L |-> Byte(f, i)]
  BY DEF BytesOfKind
<1> HIDE DEF L, b
<1>3. L \in Nat /\ L > 2
  BY <1>1
<1>4. b[3] = Byte(f, 3)
  BY <1>2, <1>3
<1>5. Len(b) = L
  BY <1>2, <1>3
<1>6. QED
  BY <1>3, <1>4, <1>5, ByteFacts DEF b

(* The counters are what has been sent, and right, under the conditions of     *)
(* NumbersRight: Few, said of the kinds of frames sent.                      *)
Plain ==
    /\ Sound /\ conns = 1
    /\ \A i \in 1..Len(analysed[1]) : sent[1][i] # "CS"
    /\ Count(out[1], ITypes, Len(out[1])) <= Half /\ Len(analysed[1]) < Half

Indexed ==
    /\ sendIdx = Count(out[1], ITypes, Len(out[1]))
    /\ recvIdx = Count(out[1], {"S"}, Len(out[1]))
    /\ recvIdx <= Len(analysed[1])

Numbers ==
    /\ conns = 0 => sendIdx = 0 /\ recvIdx = 0
    /\ Plain => Indexed /\ RightIn(out[1])

LEMMA OnlyConnection ==
    ASSUME Types, conns = 1
    PROVE  /\ analysed \in Seq(Seq(Seq(ByteType))) /\ Len(analysed) = 1
           /\ analysed[1] \in Seq(Seq(ByteType)) /\ Len(analysed[1]) \in Nat
           /\ DOMAIN analysed[1] = 1..Len(analysed[1])
           /\ out[1] \in Seq(OutFrame) /\ DOMAIN out[1] = 1..Len(out[1])
<1>1. /\ analysed \in Seq(Seq(Seq(ByteType))) /\ Len(analysed) = 1
      /\ out \in Seq(Seq(OutFrame)) /\ Len(out) = 1
  BY DEF Types, TypeOK, OutType
<1>2. analysed[1] \in Seq(Seq(ByteType)) /\ out[1] \in Seq(OutFrame)
  <2>1. 1 \in 1..Len(analysed) /\ 1 \in 1..Len(out)
    BY <1>1
  <2>2. QED
    BY <1>1, <2>1, ElementOfSeq
<1> DEFINE a == analysed[1]
           o == out[1]
<1>3. a \in Seq(Seq(ByteType)) /\ o \in Seq(OutFrame)
  BY <1>2
<1> HIDE DEF a, o
<1>4. Len(a) \in Nat /\ DOMAIN a = 1..Len(a) /\ DOMAIN o = 1..Len(o)
  BY <1>3
<1>5. QED
  BY <1>1, <1>2, <1>4 DEF a, o

LEMMA NumbersMeaning == Types /\ Streams /\ Numbers => NumbersRight
<1> SUFFICES ASSUME Types, Streams, Numbers, Few
             PROVE  \A i \in DOMAIN out[1] :
                       /\ out[1][i].content.type \in ITypes =>
                             out[1][i].ns = Out(ITypes, i - 1) /\ out[1][i].nr = Out({"S"}, i) + 1
                       /\ out[1][i].content.type = "S" => out[1][i].nr = Out({"S"}, i)
  BY DEF NumbersRight
<1>1. conns = 1 /\ Sound
  BY DEF Few
<1>2. /\ analysed[1] \in Seq(Seq(ByteType)) /\ DOMAIN analysed[1] = 1..Len(analysed[1])
      /\ out[1] \in Seq(OutFrame) /\ DOMAIN out[1] = 1..Len(out[1])
  BY <1>1, OnlyConnection
<1>3. ASSUME NEW i \in 1..Len(analysed[1]) PROVE sent[1][i] # "CS"
  <2>1. analysed[1][i] = BytesOfKind(<<1, i>>, sent[1][i])
    BY <1>1, <1>2 DEF Streams, Kept, WholeNow, WholeIn
  <2>2. analysed[1][i][3].frame = <<1, i>>
    BY <2>1, ThirdByte
  <2>3. Kind(analysed[1][i][3].frame) = sent[1][i]
    BY <2>2 DEF Kind
  <2>4. QED
    BY <1>2, <2>3 DEF Few
<1>4. \A types, n : Out(types, n) = Count(out[1], types, n)
  BY DEF Out, Count
<1>5. Plain
  BY <1>1, <1>3, <1>4 DEF Few, Plain
<1>6. RightIn(out[1])
  BY <1>5 DEF Numbers
<1>7. QED
  BY <1>2, <1>4, <1>6 DEF RightIn

LEMMA NumbersInit == Init => Numbers
<1>1. Init => conns # 1 /\ sendIdx = 0 /\ recvIdx = 0
  BY DEF Init
<1>2. QED
  BY <1>1 DEF Numbers, Plain

(* A step that neither analyses nor connects.                               *)
LEMMA NumbersStay ==
    ASSUME Types, Streams, Numbers, Grows, Sound' => Sound,
           UNCHANGED <<conns, out, analysed, sendIdx, recvIdx>>
    PROVE  Numbers'
<1> SUFFICES ASSUME Plain' PROVE Indexed' /\ RightIn(out'[1])
  BY DEF Numbers
<1>1. Sound /\ conns = 1
  BY DEF Plain
<1>2. ASSUME NEW i \in 1..Len(analysed[1]) PROVE sent'[1][i] = sent[1][i]
  <2>1. Len(analysed[1]) <= Len(sent[1]) /\ Len(analysed[1]) \in Nat
    BY <1>1 DEF Streams, Kept, WholeNow, WholeIn, Types, TypeOK
  <2>2. 1 \in 1..conns /\ Len(sent[1]) \in Nat
    BY <1>1, FrameFacts DEF Types
  <2>3. i \in 1..Len(sent[1])
    BY <2>1, <2>2
  <2>4. <<1, i>> \in Frames
    BY <2>2, <2>3, FrameFacts DEF Types
  <2>5. Kind(<<1, i>>)' = Kind(<<1, i>>)
    BY <2>4, FramesGrow DEF Grows, Types
  <2>6. QED
    BY <2>5 DEF Kind
<1>3. Plain
  BY <1>1, <1>2 DEF Plain
<1>4. QED
  BY <1>3 DEF Numbers, Indexed

LEMMA ConnectNumbers ==
    ASSUME Types, Numbers, NEW fd \in Fd, Connect(fd)
    PROVE  Numbers'
<1>1. conns' = conns + 1 /\ conns \in Nat
  BY FrameFacts DEF Connect, Types
<1>2. conns' # 0
  BY <1>1
<1>3. ASSUME Plain' PROVE Indexed' /\ RightIn(out'[1])
  <2>1. conns = 0 /\ sendIdx = 0 /\ recvIdx = 0
    BY <1>1, <1>3 DEF Plain, Numbers
  <2>2. /\ out \in Seq(Seq(OutFrame)) /\ Len(out) = 0 /\ out' = Append(out, <<>>)
        /\ analysed \in Seq(Seq(Seq(ByteType))) /\ Len(analysed) = 0
        /\ analysed' = Append(analysed, <<>>)
        /\ sendIdx' = 0 /\ recvIdx' = 0
    BY <2>1 DEF Connect, Types, TypeOK, OutType, idxVars
  <2>3. out'[1] = <<>> /\ analysed'[1] = <<>>
    <3>1. <<>> \in Seq(OutFrame) /\ <<>> \in Seq(Seq(ByteType)) /\ 0 + 1 = 1
      OBVIOUS
    <3>2. QED
      BY <2>2, <3>1, AppendFacts
  <2>4. Len(<<>>) = 0 /\ 1..0 = {}
    OBVIOUS
  <2>5. ASSUME NEW types PROVE Count(<<>>, types, 0) = 0
    <3>1. {j \in 1..0 : <<>>[j].content.type \in types} = {}
      BY <2>4
    <3>2. QED
      BY <3>1, FS_EmptySet DEF Count
  <2>6. Indexed'
    BY <2>2, <2>3, <2>4, <2>5 DEF Indexed
  <2>7. RightIn(<<>>)
    BY <2>4 DEF RightIn
  <2>8. QED
    BY <2>3, <2>6, <2>7
<1>4. QED
  BY <1>2, <1>3 DEF Numbers

(* Under these conditions the kind that is answered is that of the frame.      *)
LEMMA PlainAnalyse ==
    ASSUME Types, Streams', AnalyseFrame, Plain'
    PROVE  /\ conns = 1 /\ conn[m_fd] = 1 /\ Len(analysed'[1]) = Len(analysed[1]) + 1
           /\ Len(analysed[1]) \in Nat
           /\ \A i \in 1..Len(analysed[1]) : sent[1][i] # "CS"
           /\ \E kind \in Kinds : kind # "CS" /\ Answer(kind)
<1> DEFINE c == conn[m_fd]
           n == Len(analysed[1])
<1>1. UNCHANGED <<conn, conns, sent>>
  BY DEF AnalyseFrame, linkVars
<1>2. PICK fr, kind :
         /\ c \in 1..conns /\ fr \in Seq(ByteType)
         /\ analysed' = [analysed EXCEPT ![c] = Append(@, fr)]
         /\ kind \in KindsOf(fr) /\ kind \in Kinds /\ Answer(kind)
  BY Zenon, AnalyseFacts DEF Types
<1>3. conns = 1 /\ c = 1 /\ Sound'
  BY <1>1, <1>2 DEF Plain
<1>4. /\ analysed \in Seq(Seq(Seq(ByteType))) /\ Len(analysed) = 1
      /\ analysed[1] \in Seq(Seq(ByteType)) /\ n \in Nat
  BY <1>3, OnlyConnection
<1> HIDE DEF c, n
<1> DEFINE an == Append(analysed[1], fr)
<1>5. an \in Seq(Seq(ByteType)) /\ Len(an) = n + 1 /\ an[n + 1] = fr
  BY <1>2, <1>4, AppendFacts DEF n
<1>6. analysed' = [analysed EXCEPT ![1] = an]
  BY <1>2, <1>3
<1> HIDE DEF an
<1>7. analysed'[1] = an
  BY <1>4, <1>5, <1>6, ReplaceFacts
<1>8. fr = BytesOfKind(<<1, n + 1>>, sent[1][n + 1])
  <2>1. WholeIn(sent', analysed', 1)
    BY <1>1, <1>3 DEF Streams, Kept, WholeNow
  <2>2. n + 1 \in DOMAIN an
    BY <1>4, <1>5
  <2>3. QED
    BY <1>1, <1>5, <1>7, <2>1, <2>2 DEF WholeIn
<1>9. kind = sent[1][n + 1]
  <2>1. Len(fr) > 2 /\ fr[3].pos = 3 /\ fr[3].frame = <<1, n + 1>>
    BY <1>8, ThirdByte
  <2>2. KindsOf(fr) = {Kind(<<1, n + 1>>)}
    BY <2>1 DEF KindsOf
  <2>3. QED
    BY <1>2, <2>2 DEF Kind
<1>10. \A i \in 1..(n + 1) : sent[1][i] # "CS"
  BY <1>1, <1>5, <1>7 DEF Plain
<1>11. n + 1 \in 1..(n + 1) /\ \A i \in 1..n : i \in 1..(n + 1)
  BY <1>4
<1>12. kind # "CS" /\ \A i \in 1..n : sent[1][i] # "CS"
  BY <1>9, <1>10, <1>11
<1>13. QED
  BY <1>2, <1>3, <1>4, <1>5, <1>7, <1>12 DEF c, n

LEMMA AnalyseNumbers ==
    ASSUME Types, Streams', Numbers, AnalyseFrame, Sound' => Sound
    PROVE  Numbers'
<1>0. UNCHANGED <<conn, conns>> /\ conn[m_fd] \in 1..conns /\ conns \in Nat
  BY FrameFacts DEF AnalyseFrame, linkVars, Types, TypeOK
<1>1. conns' # 0
  BY <1>0
<1> SUFFICES ASSUME Plain' PROVE Indexed' /\ RightIn(out'[1])
  BY <1>1 DEF Numbers
<1>2. /\ conns = 1 /\ conn[m_fd] = 1 /\ Len(analysed'[1]) = Len(analysed[1]) + 1
      /\ Len(analysed[1]) \in Nat
      /\ \A i \in 1..Len(analysed[1]) : sent[1][i] # "CS"
  BY Zenon, PlainAnalyse
<1>3. PICK kind \in Kinds : kind # "CS" /\ Answer(kind)
  BY Zenon, PlainAnalyse
<1> DEFINE nr == Number(recvIdx')
           r == Reply(kind, nr)
           o == out[1]
           v == out'[1]
           n == Len(o)
           m == Len(IFrames(kind))
           si == Count(o, ITypes, n)
           ri == Count(o, {"S"}, n)
<1>4. /\ yxNum \in Nat /\ ycNum \in Nat /\ sendIdx \in Nat /\ recvIdx \in Nat
      /\ nr \in Nat /\ Joined(o, r, v)
  BY Zenon, <1>0, <1>2, <1>3, AnswerFacts
<1>5. /\ Count(v, ITypes, Len(v)) <= Half /\ Len(analysed'[1]) < Half /\ Sound
  BY DEF Plain
<1>6. n \in Nat /\ Len(r) \in Nat /\ Len(v) = n + Len(r)
  BY <1>4 DEF Joined
<1>7. si \in Nat /\ ri \in Nat
  BY <1>6, CountFacts
<1>8. Count(v, ITypes, n) = si /\ Count(v, {"S"}, n) = ri
  <2>1. \A j \in 1..n : v[j] = o[j]
    BY <1>4 DEF Joined
  <2> HIDE DEF v, o, n
  <2>2. \A types : Count(v, types, n) = Count(o, types, n)
    BY <1>6, <2>1, CountSame
  <2>3. QED
    BY <2>2 DEF n
<1>9. Plain
  <2>1. Count(v, ITypes, n) <= Count(v, ITypes, n + Len(r)) /\ Count(v, ITypes, n + Len(r)) \in Nat
    <3> DEFINE k == Len(r)
    <3>1. n \in Nat /\ k \in Nat /\ n + k \in Nat
      BY <1>6
    <3> HIDE DEF n, k, v
    <3>2. Count(v, ITypes, n) <= Count(v, ITypes, n + k) /\ Count(v, ITypes, n + k) \in Nat
      BY <3>1, CountFacts
    <3>3. QED
      BY <3>2 DEF k
  <2>2. si <= Half
    BY <1>5, <1>6, <1>7, <1>8, <2>1, HalfFacts
  <2>3. Len(analysed[1]) < Half
    BY <1>2, <1>5, HalfFacts
  <2>4. QED
    BY <1>2, <1>5, <2>2, <2>3 DEF Plain
<1>10. sendIdx = si /\ recvIdx = ri /\ ri <= Len(analysed[1]) /\ RightIn(o)
  BY <1>9 DEF Numbers, Indexed
<1>11. /\ recvIdx' = IF kind \in IKinds THEN NextRecvIdx(recvIdx) ELSE recvIdx
       /\ sendIdx' = IF kind = "GI" THEN SendIdxAfter(Len(Interrogation)) ELSE sendIdx
  BY <1>3 DEF Answer
<1> HIDE DEF nr, r, o, v, n, m, si, ri
<1>12. CASE kind \notin IKinds
  <2>1. kind # "GI"
    BY <1>12 DEF IKinds
  <2>2. NoneAre(v, ITypes, n, Len(r)) /\ NoneAre(v, {"S"}, n, Len(r))
    <3>1. \A i \in 1..Len(r) : r[i].content.type \notin ITypes \cup {"S"}
      BY <1>4, <1>12, ReplyFacts DEF r, nr
    <3>2. \A i \in 1..Len(r) : v[n + i] = r[i]
      BY <1>4 DEF Joined, n
    <3>3. QED
      BY <3>1, <3>2 DEF NoneAre
  <2>3. Count(v, ITypes, Len(v)) = si /\ Count(v, {"S"}, Len(v)) = ri
    BY <1>6, <1>8, <2>2, CountNone
  <2>4. Indexed'
    BY <1>2, <1>7, <1>10, <1>11, <1>12, <2>1, <2>3 DEF Indexed, v
  <2>5. ASSUME NEW i \in 1..Len(v)
        PROVE  /\ v[i].content.type \in ITypes =>
                     v[i].ns = Count(v, ITypes, i - 1) /\ v[i].nr = Count(v, {"S"}, i) + 1
               /\ v[i].content.type = "S" => v[i].nr = Count(v, {"S"}, i)
    <3>1. CASE i <= n
      <4>1. /\ i \in 1..Len(o) /\ i \in Nat /\ i - 1 \in Nat /\ v[i] = o[i]
            /\ (\A j \in 1..i : v[j] = o[j]) /\ (\A j \in 1..(i - 1) : v[j] = o[j])
        BY <1>4, <1>6, <3>1 DEF Joined, n
      <4>2. /\ Count(v, ITypes, i - 1) = Count(o, ITypes, i - 1)
            /\ Count(v, {"S"}, i) = Count(o, {"S"}, i)
        BY <4>1, CountSame
      <4>3. QED
        BY <1>10, <4>1, <4>2 DEF RightIn
    <3>2. CASE i > n
      <4>1. i - n \in 1..Len(r) /\ n + (i - n) = i
        BY <1>6, <3>2
      <4>2. v[n + (i - n)].content.type \notin ITypes /\ v[n + (i - n)].content.type \notin {"S"}
        BY <2>2, <4>1 DEF NoneAre
      <4>3. QED
        BY <4>1, <4>2
    <3>3. QED
      BY <1>6, <3>1, <3>2
  <2>6. RightIn(v)
    BY <2>5 DEF RightIn
  <2>7. QED
    BY <2>4, <2>6 DEF v
<1>13. CASE kind \in IKinds
  <2>1. /\ m \in Nat /\ Len(r) = m + 1
        /\ \A i \in 1..m : /\ r[i].content.type \in ITypes
                           /\ r[i].ns = Number(SendIdxAfter(i - 1)) /\ r[i].nr = nr
        /\ r[m + 1].content.type = "S" /\ r[m + 1].nr = nr
    BY <1>4, <1>13, ReplyFacts DEF r, nr, m
  <2>2. Counted(o, v, m)
    BY <1>4, <2>1, ReplyCounts
  <2>3. Count(v, ITypes, Len(v)) = si + m /\ Count(v, {"S"}, Len(v)) = ri + 1
    <3>1. Len(v) = n + m + 1
      BY <1>6, <2>1
    <3>2. QED
      BY <2>2, <3>1 DEF Counted, n, si, ri
  <2>4. si + m <= Half
    BY <1>5, <2>3
  <2>5. ASSUME NEW k \in 0..m PROVE SendIdxAfter(k) = si + k
    <3> DEFINE b == Half * ByteValues
               x == sendIdx + k
    <3>1. b \in Nat /\ x = si + k /\ x \in Nat /\ x <= Half
      BY <1>7, <1>10, <2>1, <2>4, HalfFacts
    <3>2. Half < b
      <4>1. b = 2 * (Half * Half) /\ Half * Half \in Nat /\ Half * Half >= Half /\ Half >= 1
        BY HalfFacts
      <4>2. QED
        BY <4>1, HalfFacts
    <3>3. SendIdxAfter(k) = x % b
      BY DEF SendIdxAfter
    <3> HIDE DEF b, x
    <3>4. x < b /\ b >= 1
      BY <3>1, <3>2, HalfFacts
    <3>5. QED
      BY <3>1, <3>3, <3>4, ModFacts
  <2>6. \A i \in 1..m : r[i].ns = si + (i - 1)
    <3> SUFFICES ASSUME NEW i \in 1..m PROVE r[i].ns = si + (i - 1)
      OBVIOUS
    <3>1. i - 1 \in 0..m /\ si + (i - 1) \in Nat /\ si + (i - 1) < Half
      BY <1>7, <2>1, <2>4, HalfFacts
    <3>2. SendIdxAfter(i - 1) = si + (i - 1)
      BY <2>5, <3>1
    <3>3. QED
      BY <2>1, <3>1, <3>2, NumberIsRight
  <2>7. recvIdx' = ri + 1 /\ ri + 1 < Half
    <3> DEFINE b == ByteValues * ByteValues
               x == recvIdx + 1
    <3>1. x = ri + 1 /\ x \in Nat /\ x < Half
      BY <1>2, <1>5, <1>7, <1>10, HalfFacts
    <3>2. b \in Nat /\ b >= Half /\ Half >= 1 /\ Half \in Nat
      BY HalfFacts
    <3>3. recvIdx' = x % b
      BY <1>11, <1>13 DEF NextRecvIdx
    <3> HIDE DEF b, x
    <3>4. x % b = x
      <4>1. x < b /\ b >= 1
        BY <3>1, <3>2
      <4>2. QED
        BY <3>1, <3>2, <4>1, ModFacts
    <3>5. QED
      BY <3>1, <3>3, <3>4
  <2>8. nr = ri + 1
    BY <1>7, <2>7, NumberIsRight DEF nr
  <2>9. sendIdx' = si + m
    <3>1. CASE kind = "GI"
      <4>1. m = Len(Interrogation)
        BY <3>1 DEF IFrames, m
      <4>2. m \in 0..m
        BY <2>1
      <4>3. QED
        BY <1>11, <2>5, <3>1, <4>1, <4>2
    <3>2. CASE kind # "GI"
      <4>1. IFrames(kind) = <<>>
        BY <1>3, <1>4, <3>2, ReplyFacts
      <4>2. m = 0
        BY <4>1 DEF m
      <4>3. QED
        BY <1>7, <1>10, <1>11, <3>2, <4>2
    <3>3. QED
      BY <3>1, <3>2
  <2>10. Indexed'
    <3>1. ri + 1 <= Len(analysed[1]) + 1
      BY <1>2, <1>7, <1>10
    <3>2. QED
      BY <1>2, <2>3, <2>7, <2>9, <3>1 DEF Indexed, v
  <2>11. RightIn(v)
    <3>1. \A i \in 1..m : /\ r[i].content.type \in ITypes
                          /\ r[i].ns = si + (i - 1) /\ r[i].nr = ri + 1
      BY <2>1, <2>6, <2>8
    <3>2. r[m + 1].content.type = "S" /\ r[m + 1].nr = ri + 1
      BY <2>1, <2>8
    <3>3. si = Count(o, ITypes, Len(o)) /\ ri = Count(o, {"S"}, Len(o))
      BY DEF si, ri, n
    <3>4. /\ Joined(o, r, v) /\ m \in Nat /\ Len(r) = m + 1 /\ RightIn(o)
          /\ si \in Nat /\ ri \in Nat
      BY <1>4, <1>7, <1>10, <2>1
    <3>5. QED
      BY ONLY <3>1, <3>2, <3>3, <3>4, ReplyRight
  <2>12. QED
    BY <2>10, <2>11 DEF v
<1>14. QED
  BY <1>12, <1>13

LEMMA NumbersStep ==
    ASSUME Types, Streams, Streams', Numbers, [Next]_vars
    PROVE  Numbers'
<1>1. Grows /\ (Sound' => Sound)
  BY StepGrows, SoundBefore
<1>2. ASSUME UNCHANGED <<conns, out, analysed, sendIdx, recvIdx>> PROVE Numbers'
  BY <1>1, <1>2, NumbersStay
<1>3. ASSUME NEW fd \in Fd, Disconnect(fd) \/ HandleMessage(fd) PROVE Numbers'
  BY <1>2, <1>3 DEF Disconnect, HandleMessage, idxVars
<1>4. ASSUME NEW fd \in Fd, NEW kind \in Kinds, Send(fd, kind) PROVE Numbers'
  BY <1>2, <1>4 DEF Send, idxVars
<1>5. CASE EndMessage \/ UNCHANGED vars
  BY <1>2, <1>5 DEF EndMessage, vars, linkVars, idxVars
<1>6. QED
  BY <1>1, <1>3, <1>4, <1>5, ConnectNumbers, AnalyseNumbers DEF Next, Handle

(* On the only connection there has been, fewer than 128 frames of either kind  *)
(* carry the numbers the stations expect.                                   *)
THEOREM NumbersRightHolds == Spec => []NumbersRight
<1>1. Types /\ Streams /\ Numbers /\ [Next]_vars => Numbers'
  BY StreamsStep, NumbersStep
<1>2. QED
  BY <1>1, TypesInvariant, StreamsInvariant, NumbersInit, NumbersMeaning, PTL DEF Spec
=============================================================================
