--------------------------- MODULE OutstationProofs ---------------------------
(***************************************************************************)
(* Slave104 implements Outstation, for every number of descriptors,           *)
(* connections and frames, every splitting of the streams and every size of   *)
(* the transmit tables: the proof.                                         *)
(***************************************************************************)
EXTENDS Slave104Proofs

-----------------------------------------------------------------------------
(* The answers.                                                            *)

(* The frames of sendGIYx and sendGIYc announce all points, each beginning     *)
(* where the one before has ended.                                         *)
LEMMA PointsReport ==
    ASSUME NEW num \in Nat, NEW type \in {"yx", "yc"}
    PROVE  O!Reports(Points(type, num), type, num)
<1> DEFINE M == SQ_MAX_NUM
           P == Points(type, num)
           R == Rounds(num)
           z(r) == (r - 1) * M
           n(r) == IF num - z(r) < M THEN num - z(r) ELSE M
<1>1. CASE num = 0
  <2>1. P = <<>>
    BY <1>1 DEF Points
  <2>2. DOMAIN P = {} /\ Len(P) = 0 /\ 1..(0 - 1) = {}
    BY <2>1
  <2> HIDE DEF P
  <2>3. QED
    BY <1>1, <2>1, <2>2 DEF O!Reports, P
<1>2. CASE num # 0
  <2>1. M \in Nat /\ M >= 1
    BY SlaveAssumption
  <2>2. R \in Nat /\ R >= 1 /\ num <= R * M /\ (R - 1) * M < num
    BY <1>2, RoundsFacts
  <2>3. P = [r \in 1..R |-> [type |-> type, first |-> z(r), num |-> n(r)]]
    BY <1>2 DEF Points
  <2>4. \A x, y \in Nat : x <= y => x * M <= y * M
    BY <2>1
  <2>5. \A x \in Nat : x * M \in Nat /\ (x + 1) * M = x * M + M
    BY <2>1
  <2> HIDE DEF M, R, P
  <2>6. ASSUME NEW r \in 1..R
        PROVE  /\ z(r) \in Nat /\ z(r) < num /\ r * M = z(r) + M
               /\ r < R => z(r) + M < num
               /\ r = R => num <= z(r) + M
    <3>1. r - 1 \in Nat /\ R - 1 \in Nat /\ r - 1 <= R - 1 /\ (r - 1) + 1 = r /\ r \in Nat
      BY <2>2
    <3>2. z(r) \in Nat /\ z(r) <= (R - 1) * M /\ (R - 1) * M \in Nat
      BY <3>1, <2>4, <2>5
    <3>3. r * M = z(r) + M
      BY <3>1, <2>5
    <3>4. r < R => r * M <= (R - 1) * M
      <4>1. r < R => r <= R - 1
        BY <2>2, <3>1
      <4>2. QED
        BY <2>4, <3>1, <4>1
    <3> DEFINE y == (R - 1) * M
               x == z(r)
    <3>5. /\ x \in Nat /\ y \in Nat /\ x <= y /\ y < num /\ r * M = x + M
          /\ r < R => x + M <= y
          /\ r = R => num <= x + M
      BY <2>2, <3>2, <3>3, <3>4
    <3> HIDE DEF x, y
    <3>6. x < num /\ (r < R => x + M < num)
      BY <2>1, <3>5
    <3>7. QED
      BY <3>5, <3>6 DEF x
  <2> HIDE DEF z
  <2>7. ASSUME NEW r \in 1..R
        PROVE  n(r) \in 1..M /\ (r < R => n(r) = M) /\ (r = R => z(r) + n(r) = num)
    BY <2>1, <2>6
  <2> HIDE DEF n
  <2>8. /\ DOMAIN P = 1..R /\ P # <<>>
        /\ \A r \in 1..R : P[r].type = type /\ P[r].first = z(r) /\ P[r].num = n(r)
    BY <2>2, <2>3
  <2>9. Len(P) = R
    BY <2>2, <2>3
  <2>10. P[1].first = 0
    <3>1. z(1) = 0
      BY <2>1 DEF z
    <3>2. QED
      BY <2>2, <2>8, <3>1
  <2>11. P[R].first + P[R].num = num
    BY <2>2, <2>7, <2>8
  <2>12. ASSUME NEW r \in 1..(R - 1) PROVE P[r + 1].first = P[r].first + P[r].num
    <3>1. r \in 1..R /\ r + 1 \in 1..R /\ r < R /\ (r + 1) - 1 = r
      BY <2>2
    <3>2. z(r + 1) = r * M
      BY <3>1 DEF z
    <3>3. QED
      BY <2>6, <2>7, <2>8, <3>1, <3>2
  <2>13. \A r \in 1..R : P[r].type = type /\ P[r].num \in 1..M
    BY <2>7, <2>8
  <2>14. QED
    BY <1>2, <2>8, <2>9, <2>10, <2>11, <2>12, <2>13 DEF O!Reports, M, P
<1>3. QED
  BY <1>1, <1>2

(* An interrogation reports all points of both types, in between its ends.    *)
LEMMA InterrogationReports ==
    ASSUME yxNum \in Nat, ycNum \in Nat
    PROVE  O!FullReport(Interrogation)
<1> DEFINE I  == Interrogation
           py == Points("yx", yxNum)
           pc == Points("yc", ycNum)
           a  == Len(py)
           b  == Len(pc)
           YX == [type : {"yx"}, first : Nat, num : Nat]
           YC == [type : {"yc"}, first : Nat, num : Nat]
           u  == SubSeq(I, 2, a + 1)
           v  == SubSeq(I, a + 2, Len(I) - 1)
<1>1. py \in Seq(YX) /\ pc \in Seq(YC)
  BY PointsFacts
<1>2. O!Reports(py, "yx", yxNum) /\ O!Reports(pc, "yc", ycNum)
  BY PointsReport
<1>3. /\ a \in Nat /\ b \in Nat /\ I \in Seq(Content) /\ Len(I) = a + b + 2
      /\ I[1] = [type |-> "con"] /\ I[a + b + 2] = [type |-> "fin"]
      /\ \A k \in 1..a : I[k + 1] = py[k]
      /\ \A k \in 1..b : I[a + k + 1] = pc[k]
  BY InterrogationFacts
<1>4. py \in Seq(Content) /\ pc \in Seq(Content)
  <2>1. YX \subseteq Content /\ YC \subseteq Content
    BY DEF Content, Type, ITypes
  <2> HIDE DEF YX, YC, py, pc
  <2>2. QED
    BY <1>1, <2>1, LargerSeq
<1> HIDE DEF I, py, pc, a, b
<1>5. u = py
  <2>1. \A i \in 2..(a + 1) : I[i] \in Content
    BY <1>3, ElementOfSeq
  <2>2. /\ u \in Seq(Content) /\ Len(u) = a
        /\ \A i \in 1..a : u[i] = I[2 + i - 1]
    BY <1>3, <2>1, SubSeqProperties
  <2>3. \A i \in 1..a : u[i] = py[i]
    <3> SUFFICES ASSUME NEW i \in 1..a PROVE u[i] = py[i]
      OBVIOUS
    <3>1. 2 + i - 1 = i + 1
      BY <1>3
    <3>2. QED
      BY <1>3, <2>2, <3>1
  <2>4. Len(py) = a
    BY DEF a
  <2> HIDE DEF u
  <2>5. QED
    BY <1>4, <2>2, <2>3, <2>4, SeqEqual
<1>6. v = pc
  <2>1. \A i \in (a + 2)..(Len(I) - 1) : I[i] \in Content
    BY <1>3, ElementOfSeq
  <2>2. /\ v \in Seq(Content) /\ Len(v) = b
        /\ \A i \in 1..b : v[i] = I[(a + 2) + i - 1]
    BY <1>3, <2>1, SubSeqProperties
  <2>3. \A i \in 1..b : v[i] = pc[i]
    <3> SUFFICES ASSUME NEW i \in 1..b PROVE v[i] = pc[i]
      OBVIOUS
    <3>1. (a + 2) + i - 1 = a + i + 1
      BY <1>3
    <3>2. QED
      BY <1>3, <2>2, <3>1
  <2>4. Len(pc) = b
    BY DEF b
  <2> HIDE DEF v
  <2>5. QED
    BY <1>4, <2>2, <2>3, <2>4, SeqEqual
<1>7. a + 1 \in 1..(Len(I) - 1) /\ (a + 1) + 1 = a + 2 /\ Len(I) >= 2
  BY <1>3
<1>8. /\ O!Reports(SubSeq(I, 2, a + 1), "yx", yxNum)
      /\ O!Reports(SubSeq(I, (a + 1) + 1, Len(I) - 1), "yc", ycNum)
  BY <1>2, <1>5, <1>6, <1>7
<1>9. I[1] = [type |-> "con"] /\ I[Len(I)] = [type |-> "fin"]
  BY <1>3
<1>10. QED
  BY Zenon, <1>7, <1>8, <1>9 DEF O!FullReport, I

(* What the frames of a connection say, without their numbers.               *)
Contents(o) == [i \in DOMAIN o |-> o[i].content]

LEMMA ContentsFacts ==
    ASSUME NEW o \in Seq(OutFrame)
    PROVE  /\ Contents(o) \in Seq(Content) /\ Len(Contents(o)) = Len(o) /\ Len(o) \in Nat
           /\ \A i \in 1..Len(o) : Contents(o)[i] = o[i].content
<1>1. Len(o) \in Nat /\ DOMAIN o = 1..Len(o)
  OBVIOUS
<1>2. \A i \in 1..Len(o) : o[i].content \in Content
  <2>1. \A f \in OutFrame : f.content \in Content
    BY DEF OutFrame
  <2>2. QED
    BY <2>1, ElementOfSeq
<1>3. Contents(o) = [i \in 1..Len(o) |-> o[i].content]
  BY <1>1 DEF Contents
<1> DEFINE n == Len(o)
<1> HIDE DEF n
<1>4. Contents(o) = [i \in 1..n |-> o[i].content] /\ n \in Nat
      /\ \A i \in 1..n : o[i].content \in Content
  BY <1>1, <1>2, <1>3 DEF n
<1>5. Contents(o) \in Seq(Content) /\ Len(Contents(o)) = n
      /\ \A i \in 1..n : Contents(o)[i] = o[i].content
  BY <1>4
<1>6. QED
  BY <1>4, <1>5 DEF n

(* All that is sent for a frame is its answer.                              *)
LEMMA ReplyAnswers ==
    ASSUME yxNum \in Nat, ycNum \in Nat, NEW kind \in Kinds, NEW nr \in Nat, sendIdx \in Nat
    PROVE  O!IsAnswer(kind, Contents(Reply(kind, nr)))
<1> DEFINE R == Reply(kind, nr)
           C == Contents(R)
           fs == IFrames(kind)
           k == Len(fs)
<1>1. R \in Seq(OutFrame)
  BY ReplyFacts
<1>2. C \in Seq(Content) /\ Len(C) = Len(R) /\ \A i \in 1..Len(R) : C[i] = R[i].content
  BY <1>1, ContentsFacts
<1>3. CASE kind \in UAct
  <2> DEFINE y == [type |-> kind]
  <2>0. kind \notin IKinds
    BY <1>3 DEF UAct, IKinds
  <2>1. R = <<[content |-> y]>>
    BY <1>3, <2>0 DEF Reply
  <2>2. Len(R) = 1 /\ R[1].content = y
    BY <2>1
  <2>3. C = <<y>>
    <3> HIDE DEF y, R, C
    <3>1. Len(C) = 1 /\ C[1] = y /\ C \in Seq(Content)
      BY <1>2, <2>2
    <3>2. QED
      BY <3>1
  <2>4. QED
    BY <1>3, <2>0, <2>3 DEF O!IsAnswer
<1>4. CASE kind \in IKinds
  <2>1. kind \notin UAct
    BY <1>4 DEF UAct, IKinds
  <2>2. /\ k \in Nat /\ Len(R) = k + 1
        /\ \A i \in 1..k : R[i].content = fs[i]
        /\ R[k + 1].content = [type |-> "S"]
    BY <1>4, ReplyFacts
  <2>3. fs \in Seq(Content)
    <3>1. kind = "GI" => fs = Interrogation
      BY DEF IFrames
    <3>2. kind = "CS" => fs = <<[type |-> "clock"]>>
      BY DEF IFrames
    <3>3. kind \notin {"GI", "CS"} => fs = <<>>
      BY DEF IFrames
    <3> DEFINE y == [type |-> "clock"]
    <3>4. y \in Content
      BY DEF Content, Type, ITypes
    <3> HIDE DEF fs, y
    <3>5. Interrogation \in Seq(Content) /\ <<y>> \in Seq(Content) /\ <<>> \in Seq(Content)
      BY <3>4, InterrogationFacts
    <3>6. QED
      BY <3>1, <3>2, <3>3, <3>5 DEF y
  <2> DEFINE D == SubSeq(C, 1, k)
  <2> HIDE DEF R, C, fs, k
  <2>4. D = fs
    <3>1. \A i \in 1..k : C[i] \in Content
      BY <1>2, <2>2, ElementOfSeq
    <3>2. D \in Seq(Content) /\ Len(D) = k /\ \A i \in 1..k : D[i] = C[i]
      BY <1>2, <2>2, <3>1, SubSeqProperties
    <3>3. \A i \in 1..k : D[i] = fs[i]
      BY <1>2, <2>2, <3>2
    <3>4. Len(fs) = k
      BY DEF k
    <3> HIDE DEF D
    <3>5. QED
      BY <2>3, <3>2, <3>3, <3>4, SeqEqual
  <2>5. C # <<>> /\ C[Len(C)] = [type |-> "S"] /\ Len(C) - 1 = k
    BY <1>2, <2>2
  <2>6. O!CarriedOut(kind, fs)
    <3>1. CASE kind = "GI"
      <4>1. O!FullReport(Interrogation)
        BY InterrogationReports
      <4>2. fs = Interrogation
        BY <3>1 DEF fs, IFrames
      <4>3. QED
        BY <3>1, <4>1, <4>2 DEF O!CarriedOut
    <3>2. CASE kind = "CS"
      BY <3>2 DEF O!CarriedOut, fs, IFrames
    <3>3. CASE kind \notin {"GI", "CS"}
      BY <3>3 DEF O!CarriedOut, fs, IFrames
    <3>4. QED
      BY <3>1, <3>2, <3>3
  <2>7. O!CarriedOut(kind, SubSeq(C, 1, Len(C) - 1))
    BY <2>4, <2>5, <2>6
  <2>8. QED
    BY <1>4, <2>1, <2>5, <2>7 DEF O!IsAnswer, C, R
<1>5. CASE kind \notin UAct /\ kind \notin IKinds
  <2>1. R = <<>>
    BY <1>5 DEF Reply
  <2>2. C = <<>>
    BY <1>2, <2>1
  <2>3. QED
    BY <1>5, <2>2 DEF O!IsAnswer
<1>6. QED
  BY <1>3, <1>4, <1>5
-----------------------------------------------------------------------------
(* Sequences.                                                              *)

(* What follows n elements of a sequence.                                   *)
LEMMA RestFacts ==
    ASSUME NEW S, NEW s \in Seq(S), NEW n \in 0..Len(s)
    PROVE  LET t == SubSeq(s, n + 1, Len(s)) IN
           /\ t \in Seq(S) /\ Len(t) = Len(s) - n
           /\ \A i \in 1..(Len(s) - n) : t[i] = s[n + i]
<1> DEFINE a == SubSeq(s, 1, n)
           t == SubSeq(s, n + 1, Len(s))
<1>1. t \in Seq(S) /\ Joined(a, t, s) /\ Len(a) = n
  BY Split
<1> HIDE DEF a, t
<1>2. Len(t) = Len(s) - n /\ Len(t) \in Nat
  BY <1>1 DEF Joined
<1>3. \A i \in 1..(Len(s) - n) : t[i] = s[n + i]
  BY <1>1, <1>2 DEF Joined
<1>4. QED
  BY <1>1, <1>2, <1>3 DEF t

(* It begins with the next element, and goes on with what follows that.      *)
LEMMA RestTail ==
    ASSUME NEW S, NEW s \in Seq(S), NEW n \in Nat, n + 1 \in 1..Len(s)
    PROVE  LET t == SubSeq(s, n + 1, Len(s)) IN
           t # <<>> /\ Head(t) = s[n + 1] /\ Tail(t) = SubSeq(s, (n + 1) + 1, Len(s))
<1> DEFINE t == SubSeq(s, n + 1, Len(s))
           u == SubSeq(s, (n + 1) + 1, Len(s))
           L == Len(s)
<1>1. L \in Nat /\ n \in 0..L /\ n + 1 \in 0..L
  OBVIOUS
<1>2. t \in Seq(S) /\ Len(t) = L - n /\ \A i \in 1..(L - n) : t[i] = s[n + i]
  BY <1>1, RestFacts
<1>3. u \in Seq(S) /\ Len(u) = L - (n + 1) /\ \A i \in 1..(L - (n + 1)) : u[i] = s[(n + 1) + i]
  BY <1>1, RestFacts
<1> HIDE DEF t, u, L
<1>4. t # <<>> /\ Head(t) = s[n + 1]
  BY <1>1, <1>2
<1>5. Tail(t) \in Seq(S) /\ Len(Tail(t)) = L - (n + 1)
  BY <1>1, <1>2, <1>4
<1>6. \A i \in 1..(L - (n + 1)) : Tail(t)[i] = u[i]
  <2> SUFFICES ASSUME NEW i \in 1..(L - (n + 1)) PROVE Tail(t)[i] = u[i]
    OBVIOUS
  <2>1. i + 1 \in 1..(L - n) /\ n + (i + 1) = (n + 1) + i
    BY <1>1
  <2>2. Tail(t)[i] = t[i + 1]
    BY <1>2, <1>4, <2>1
  <2>3. QED
    BY <1>2, <1>3, <2>1, <2>2
<1>7. Tail(t) = u
  BY <1>3, <1>5, <1>6, SeqEqual
<1>8. QED
  BY <1>4, <1>7 DEF t, u

(* Appending to a sequence appends to what follows n elements of it.         *)
LEMMA RestAppend ==
    ASSUME NEW S, NEW s \in Seq(S), NEW n \in 0..Len(s), NEW e \in S
    PROVE  SubSeq(Append(s, e), n + 1, Len(Append(s, e))) = Append(SubSeq(s, n + 1, Len(s)), e)
<1> DEFINE L == Len(s)
           a == Append(s, e)
           t == SubSeq(s, n + 1, L)
           u == SubSeq(a, n + 1, Len(a))
           v == Append(t, e)
<1>1. /\ L \in Nat /\ n \in 0..L /\ a \in Seq(S) /\ Len(a) = L + 1
      /\ (\A i \in 1..L : a[i] = s[i]) /\ a[L + 1] = e
  BY AppendFacts
<1>2. n \in 0..Len(a)
  BY <1>1
<1>3. t \in Seq(S) /\ Len(t) = L - n /\ \A i \in 1..(L - n) : t[i] = s[n + i]
  BY RestFacts
<1> HIDE DEF L, a
<1>4. u \in Seq(S) /\ Len(u) = Len(a) - n /\ \A i \in 1..(Len(a) - n) : u[i] = a[n + i]
  BY <1>1, <1>2, RestFacts
<1> HIDE DEF t, u
<1>5. /\ v \in Seq(S) /\ Len(v) = (L - n) + 1
      /\ (\A i \in 1..(L - n) : v[i] = t[i]) /\ v[(L - n) + 1] = e
  <2>1. v \in Seq(S) /\ Len(v) = Len(t) + 1 /\ (\A i \in 1..Len(t) : v[i] = t[i]) /\ v[Len(t) + 1] = e
    BY <1>3, AppendFacts
  <2> HIDE DEF v
  <2>2. QED
    BY <1>3, <2>1
<1> HIDE DEF v
<1>6. Len(u) = Len(v) /\ Len(u) = (L - n) + 1
  BY <1>1, <1>4, <1>5
<1>7. \A i \in 1..Len(u) : u[i] = v[i]
  <2> SUFFICES ASSUME NEW i \in 1..Len(u) PROVE u[i] = v[i]
    OBVIOUS
  <2>1. u[i] = a[n + i]
    BY <1>1, <1>4
  <2>2. CASE i \in 1..(L - n)
    <3>1. n + i \in 1..L
      BY <1>1, <2>2
    <3>2. QED
      BY <1>1, <1>3, <1>5, <2>1, <2>2, <3>1
  <2>3. CASE i = (L - n) + 1
    <3>1. n + i = L + 1
      BY <1>1, <2>3
    <3>2. QED
      BY <1>1, <1>5, <2>1, <2>3, <3>1
  <2>4. QED
    BY <1>1, <1>6, <2>2, <2>3
<1>8. u = v
  BY <1>4, <1>5, <1>6, <1>7, SeqEqual
<1>9. QED
  BY <1>8 DEF u, v, a, t, L

(* What was joined to s is what follows it.                                 *)
LEMMA RestJoined ==
    ASSUME NEW S, NEW s \in Seq(S), NEW t \in Seq(S), NEW u \in Seq(S), Joined(s, t, u)
    PROVE  SubSeq(u, Len(s) + 1, Len(u)) = t /\ u = s \o t
<1> DEFINE n == Len(s)
           v == SubSeq(u, n + 1, Len(u))
<1>1. n \in Nat /\ Len(t) \in Nat /\ Len(u) = n + Len(t) /\ \A i \in 1..Len(t) : u[n + i] = t[i]
  BY DEF Joined
<1> HIDE DEF n
<1>2. n \in 0..Len(u) /\ Len(u) - n = Len(t)
  BY <1>1
<1>3. v \in Seq(S) /\ Len(v) = Len(t) /\ \A i \in 1..Len(t) : v[i] = u[n + i]
  BY <1>2, RestFacts
<1> HIDE DEF v
<1>4. v = t
  BY <1>1, <1>3, SeqEqual
<1>5. u = s \o t
  <2>1. s \o t \in Seq(S) /\ Joined(s, t, s \o t)
    BY Zenon, Concat
  <2>2. QED
    BY Zenon, <2>1, SameJoined
<1>6. QED
  BY <1>4, <1>5 DEF v, n
-----------------------------------------------------------------------------
(* The refinement mapping.                                                 *)

(* asked and told, for given frames, histories and numbers of connections.    *)
Queue(snt, an, c)  == SubSeq(snt[c], Len(an[c]) + 1, Len(snt[c]))
Queues(snt, an, n) == [c \in 1..n |-> Queue(snt, an, c)]
Says(o, n)         == [c \in 1..n |-> Contents(o[c])]

LEMMA QueuesFacts ==
    ASSUME NEW n \in Nat, NEW snt \in Seq(Seq(Kinds)), Len(snt) = n, NEW an,
           \A c \in 1..n : Len(an[c]) \in Nat
    PROVE  /\ Queues(snt, an, n) \in Seq(Seq(Kinds)) /\ Len(Queues(snt, an, n)) = n
           /\ \A c \in 1..n : Queues(snt, an, n)[c] = Queue(snt, an, c)
<1>1. ASSUME NEW c \in 1..n PROVE Queue(snt, an, c) \in Seq(Kinds)
  <2> DEFINE s == snt[c]
             k == Len(an[c]) + 1
             m == Len(s)
  <2>1. s \in Seq(Kinds) /\ k \in Nat /\ k >= 1 /\ m \in Nat
    <3>1. s \in Seq(Kinds)
      OBVIOUS
    <3>2. Len(an[c]) \in Nat
      OBVIOUS
    <3> HIDE DEF s
    <3>3. QED
      BY <3>1, <3>2
  <2> HIDE DEF s, k
  <2>2. \A i \in k..m : s[i] \in Kinds
    BY <2>1, ElementOfSeq
  <2> HIDE DEF m
  <2>3. SubSeq(s, k, m) \in Seq(Kinds)
    BY <2>1, <2>2, SubSeqProperties
  <2>4. QED
    BY <2>3 DEF Queue, s, k, m
<1>2. Queues(snt, an, n) = [c \in 1..n |-> Queue(snt, an, c)]
  BY DEF Queues
<1>3. QED
  BY <1>1, <1>2

LEMMA SaysFacts ==
    ASSUME NEW n \in Nat, NEW o \in Seq(Seq(OutFrame)), Len(o) = n
    PROVE  /\ Says(o, n) \in Seq(Seq(Content)) /\ Len(Says(o, n)) = n
           /\ \A c \in 1..n : Says(o, n)[c] = Contents(o[c])
<1>1. ASSUME NEW c \in 1..n PROVE Contents(o[c]) \in Seq(Content)
  <2>1. o[c] \in Seq(OutFrame)
    OBVIOUS
  <2>2. QED
    BY <2>1, ContentsFacts
<1>2. Says(o, n) = [c \in 1..n |-> Contents(o[c])]
  BY DEF Says
<1>3. QED
  BY <1>1, <1>2

LEMMA MappingFacts ==
    ASSUME Types
    PROVE  /\ conns \in Nat /\ sent \in Seq(Seq(Kinds)) /\ Len(sent) = conns
           /\ analysed \in Seq(Seq(Seq(ByteType))) /\ Len(analysed) = conns
           /\ out \in Seq(Seq(OutFrame)) /\ Len(out) = conns
           /\ \A c \in 1..conns : analysed[c] \in Seq(Seq(ByteType)) /\ Len(analysed[c]) \in Nat
           /\ asked = Queues(sent, analysed, conns) /\ told = Says(out, conns)
           /\ asked \in Seq(Seq(Kinds)) /\ Len(asked) = conns
           /\ \A c \in 1..conns : asked[c] = Queue(sent, analysed, c)
           /\ told \in Seq(Seq(Content)) /\ Len(told) = conns
           /\ \A c \in 1..conns : told[c] = Contents(out[c])
<1>1. /\ conns \in Nat /\ sent \in Seq(Seq(Kinds)) /\ Len(sent) = conns
      /\ analysed \in Seq(Seq(Seq(ByteType))) /\ Len(analysed) = conns
      /\ out \in Seq(Seq(OutFrame)) /\ Len(out) = conns
  BY FrameFacts DEF Types, TypeOK, OutType
<1>2. \A c \in 1..conns : analysed[c] \in Seq(Seq(ByteType)) /\ Len(analysed[c]) \in Nat
  BY <1>1
<1>3. asked = Queues(sent, analysed, conns) /\ told = Says(out, conns)
  BY DEF asked, told, Queues, Queue, Says, Contents
<1>4. /\ asked \in Seq(Seq(Kinds)) /\ Len(asked) = conns
      /\ \A c \in 1..conns : asked[c] = Queue(sent, analysed, c)
  BY <1>1, <1>2, <1>3, QueuesFacts
<1>5. /\ told \in Seq(Seq(Content)) /\ Len(told) = conns
      /\ \A c \in 1..conns : told[c] = Contents(out[c])
  BY <1>1, <1>3, SaysFacts
<1>6. QED
  BY <1>1, <1>2, <1>3, <1>4, <1>5

(* And the same after a step.                                              *)
LEMMA MappingPrimed ==
    asked' = Queues(sent', analysed', conns') /\ told' = Says(out', conns')
BY DEF asked, told, Queues, Queue, Says, Contents
-----------------------------------------------------------------------------
(* The steps.                                                              *)

LEMMA ConnectOpens ==
    ASSUME Types, NEW fd \in Fd, Connect(fd)
    PROVE  O!Open
<1> DEFINE n == conns
           c == conns + 1
<1>1. /\ n \in Nat /\ c \in Nat /\ c # 0 /\ conns' = c
      /\ conn' = [conn EXCEPT ![fd] = c] /\ conn[fd] = 0 /\ conn \in [Fd -> 0..n]
      /\ UNCHANGED <<yxNum, ycNum, cut>>
      /\ sent' = Append(sent, <<>>) /\ analysed' = Append(analysed, <<>>)
      /\ out' = Append(out, <<>>)
  BY SMTT(40), FrameFacts DEF Connect, Types, TypeOK
<1>2. open' = open \cup {Len(asked) + 1}
  <2>1. Len(asked) = n
    BY MappingFacts
  <2>2. open' = open \cup {c}
    BY <1>1 DEF open
  <2>3. QED
    BY <2>1, <2>2
<1>3. /\ sent' \in Seq(Seq(Kinds)) /\ Len(sent') = c
      /\ sent'[c] = <<>> /\ \A d \in 1..n : sent'[d] = sent[d]
  <2>1. sent \in Seq(Seq(Kinds)) /\ Len(sent) = n /\ <<>> \in Seq(Kinds)
    BY MappingFacts
  <2>2. QED
    BY <1>1, <2>1, AppendFacts
<1>4. Len(analysed') = c /\ analysed'[c] = <<>> /\ \A d \in 1..n : analysed'[d] = analysed[d]
  <2>1. /\ analysed \in Seq(Seq(Seq(ByteType))) /\ Len(analysed) = n
        /\ <<>> \in Seq(Seq(ByteType))
    BY MappingFacts
  <2>2. QED
    BY <1>1, <2>1, AppendFacts
<1>5. /\ out' \in Seq(Seq(OutFrame)) /\ Len(out') = c
      /\ out'[c] = <<>> /\ \A d \in 1..n : out'[d] = out[d]
  <2>1. out \in Seq(Seq(OutFrame)) /\ Len(out) = n /\ <<>> \in Seq(OutFrame)
    BY MappingFacts
  <2>2. QED
    BY <1>1, <2>1, AppendFacts
<1> HIDE DEF c
<1>6. \A d \in 1..c : d = c \/ d \in 1..n
  BY <1>1 DEF c
<1>7. asked' = Append(asked, <<>>)
  <2> DEFINE a == Append(asked, <<>>)
             q == Queues(sent', analysed', c)
  <2>1. /\ a \in Seq(Seq(Kinds)) /\ Len(a) = c
        /\ (\A d \in 1..n : a[d] = Queue(sent, analysed, d)) /\ a[c] = <<>>
    <3>1. /\ asked \in Seq(Seq(Kinds)) /\ Len(asked) = n /\ <<>> \in Seq(Kinds)
          /\ \A d \in 1..n : asked[d] = Queue(sent, analysed, d)
      BY MappingFacts
    <3>2. QED
      BY <3>1, AppendFacts DEF c
  <2>2. \A d \in 1..c : Len(analysed'[d]) \in Nat
    <3>1. \A d \in 1..n : Len(analysed[d]) \in Nat
      BY MappingFacts
    <3>2. Len(<<>>) \in Nat
      OBVIOUS
    <3>3. QED
      BY <1>4, <1>6, <3>1, <3>2
  <2>3. q \in Seq(Seq(Kinds)) /\ Len(q) = c /\ \A d \in 1..c : q[d] = Queue(sent', analysed', d)
    <3>1. c \in Nat /\ sent' \in Seq(Seq(Kinds)) /\ Len(sent') = c
      BY <1>1, <1>3
    <3>2. QED
      BY Zenon, <2>2, <3>1, QueuesFacts
  <2>4. Queue(sent', analysed', c) = <<>>
    BY <1>3, <1>4 DEF Queue
  <2>5. \A d \in 1..n : Queue(sent', analysed', d) = Queue(sent, analysed, d)
    BY <1>3, <1>4 DEF Queue
  <2> HIDE DEF a, q
  <2>6. \A d \in 1..c : q[d] = a[d]
    BY <1>6, <2>1, <2>3, <2>4, <2>5
  <2>7. q = a
    BY <2>1, <2>3, <2>6, SeqEqual
  <2>8. QED
    BY <1>1, <2>7, MappingPrimed DEF a, q, c
<1>8. told' = Append(told, <<>>)
  <2> DEFINE a == Append(told, <<>>)
             q == Says(out', c)
  <2>1. /\ a \in Seq(Seq(Content)) /\ Len(a) = c
        /\ (\A d \in 1..n : a[d] = Contents(out[d])) /\ a[c] = <<>>
    <3>1. /\ told \in Seq(Seq(Content)) /\ Len(told) = n /\ <<>> \in Seq(Content)
          /\ \A d \in 1..n : told[d] = Contents(out[d])
      BY MappingFacts
    <3>2. QED
      BY <3>1, AppendFacts DEF c
  <2>2. q \in Seq(Seq(Content)) /\ Len(q) = c /\ \A d \in 1..c : q[d] = Contents(out'[d])
    BY <1>1, <1>5, SaysFacts
  <2>3. Contents(<<>>) = <<>>
    BY DEF Contents
  <2> HIDE DEF a, q
  <2>4. \A d \in 1..c : q[d] = a[d]
    BY <1>5, <1>6, <2>1, <2>2, <2>3
  <2>5. q = a
    BY <2>1, <2>2, <2>4, SeqEqual
  <2>6. QED
    BY <1>1, <2>5, MappingPrimed DEF a, q, c
<1>9. Sound' = Sound
  <2>1. DOMAIN sent = 1..n /\ DOMAIN sent' = 1..c
    BY <1>1, <1>3, MappingFacts
  <2>2. Frames' = Frames
    <3>1. \A d \in 1..c : d \in 1..n \/ DOMAIN sent'[d] = {}
      BY <1>3, <1>6
    <3>2. 1..n \subseteq 1..c /\ \A d \in 1..n : DOMAIN sent'[d] = DOMAIN sent[d]
      BY <1>1, <1>3 DEF c
    <3>3. QED
      BY <2>1, <3>1, <3>2 DEF Frames
  <2>3. \A f \in Frames : Kind(f)' = Kind(f)
    BY <1>3, <2>1 DEF Frames, Kind
  <2>4. QED
    BY <1>1, <2>2, <2>3 DEF Sound
<1>10. QED
  BY <1>1, <1>2, <1>7, <1>8, <1>9 DEF O!Open

LEMMA SendAsks ==
    ASSUME Types, Streams, Sound, NEW fd \in Fd, NEW kind \in Kinds, Send(fd, kind),
           Sound' => Sound
    PROVE  conn[fd] \in open /\ O!Ask(conn[fd], kind)
<1> DEFINE n == conns
           c == conn[fd]
           m == Len(sent[c])
<1>1. /\ c \in 1..n /\ m \in Nat /\ conns' = n
      /\ sent'[c] = Append(sent[c], kind)
      /\ \A d \in 1..n : d # c => sent'[d] = sent[d]
      /\ sent' \in Seq(Seq(Kinds)) /\ Len(sent') = n
  BY SendFacts DEF Types
<1>2. /\ UNCHANGED <<conn, out, analysed, yxNum, ycNum, cut>> /\ n \in Nat /\ c # 0
      /\ sent[c] \in Seq(Kinds)
  BY <1>1, FrameFacts DEF Send, Types
<1>3. /\ asked \in Seq(Seq(Kinds)) /\ Len(asked) = n
      /\ \A d \in 1..n : Len(analysed[d]) \in Nat /\ asked[d] = Queue(sent, analysed, d)
  BY MappingFacts
<1>4. Len(analysed[c]) \in 0..m
  BY <1>1, <1>3 DEF Streams, Kept, WholeNow, WholeIn
<1> DEFINE q == Queues(sent', analysed', n)
           a == [asked EXCEPT ![c] = Append(@, kind)]
           e == Append(asked[c], kind)
<1>5. q \in Seq(Seq(Kinds)) /\ Len(q) = n /\ \A d \in 1..n : q[d] = Queue(sent', analysed', d)
  <2>1. \A d \in 1..n : Len(analysed'[d]) \in Nat
    BY <1>2, <1>3
  <2>2. QED
    BY ZenonT(40), <1>1, <1>2, <2>1, QueuesFacts
<1>6. Queue(sent', analysed', c) = e
  <2> DEFINE s == sent[c]
             k == Len(analysed[c])
             v == Append(s, kind)
  <2>1. SubSeq(v, k + 1, Len(v)) = Append(SubSeq(s, k + 1, Len(s)), kind)
    BY ONLY <1>2, <1>4, kind \in Kinds, RestAppend
  <2>2. Queue(sent', analysed', c) = SubSeq(v, k + 1, Len(v))
    BY <1>1, <1>2 DEF Queue
  <2>3. asked[c] = SubSeq(s, k + 1, Len(s))
    BY <1>1, <1>3 DEF Queue
  <2>4. QED
    BY <2>1, <2>2, <2>3
<1>7. \A d \in 1..n : d # c => Queue(sent', analysed', d) = asked[d]
  BY <1>1, <1>2, <1>3 DEF Queue
<1>8. e \in Seq(Kinds)
  <2>1. asked[c] \in Seq(Kinds)
    BY <1>1, <1>3
  <2>2. QED
    BY <2>1, AppendFacts
<1>9. a = [asked EXCEPT ![c] = e]
  OBVIOUS
<1>10. open' = open /\ c \in open
  BY <1>2 DEF open
<1> HIDE DEF q, e, c, n
<1>11. /\ a \in Seq(Seq(Kinds)) /\ Len(a) = n /\ a[c] = e
       /\ \A d \in 1..n : d # c => a[d] = asked[d]
  BY <1>1, <1>3, <1>8, <1>9, ReplaceFacts
<1> HIDE DEF a
<1>12. \A d \in 1..n : q[d] = a[d]
  BY <1>5, <1>6, <1>7, <1>11
<1>13. q = a
  BY <1>5, <1>11, <1>12, SeqEqual
<1>14. asked' = a /\ told' = told
  <2>1. asked' = q
    BY <1>1, MappingPrimed DEF q
  <2>2. told' = told
    BY <1>1, <1>2, MappingPrimed, MappingFacts DEF n
  <2>3. QED
    BY <1>13, <2>1, <2>2
<1>15. (~Sound)' \in {~Sound, TRUE}
  BY DEF Sound
<1>16. QED
  BY <1>2, <1>10, <1>14, <1>15 DEF O!Ask, a, c

LEMMA DisconnectCloses ==
    ASSUME Types, Streams, NEW fd \in Fd, Disconnect(fd), Sound' => Sound
    PROVE  conn[fd] \in open /\ O!Close(conn[fd])
<1>1. /\ conn[fd] # 0 /\ conn' = [conn EXCEPT ![fd] = 0] /\ conn \in [Fd -> 0..conns]
      /\ UNCHANGED <<conns, sent, analysed, out, yxNum, ycNum>>
  BY DEF Disconnect, Types, TypeOK
<1>2. conn[fd] \in open
  BY <1>1 DEF open
<1>3. open' = open \ {conn[fd]}
  <2>1. \A g \in Fd : conn[g] = conn[fd] => g = fd
    BY <1>1 DEF Streams, Apart
  <2>2. QED
    BY <1>1, <2>1 DEF open
<1>4. asked' = asked /\ told' = told
  BY <1>1, MappingPrimed, MappingFacts
<1>5. (~Sound)' \in {~Sound, TRUE}
  BY DEF Sound
<1>6. QED
  BY <1>1, <1>2, <1>3, <1>4, <1>5 DEF O!Close

(* The frame that is analysed is the oldest that was not.                    *)
LEMMA AnalysedNext ==
    ASSUME Types, Streams, Streams', Sound, Sound', AnalyseFrame
    PROVE  LET c == conn[m_fd]
               k == Len(analysed[c])
           IN  /\ c \in 1..conns /\ k + 1 \in 1..Len(sent[c])
               /\ Len(analysed'[c]) = k + 1
               /\ \A d \in 1..conns : d # c => analysed'[d] = analysed[d]
               /\ sent[c][k + 1] \in Kinds /\ Answer(sent[c][k + 1])
<1> DEFINE c == conn[m_fd]
           k == Len(analysed[c])
<1>1. UNCHANGED <<conn, conns, sent>>
  BY DEF AnalyseFrame, linkVars
<1>2. PICK fr, kind :
         /\ c \in 1..conns /\ fr \in Seq(ByteType)
         /\ analysed' = [analysed EXCEPT ![c] = Append(@, fr)]
         /\ kind \in KindsOf(fr) /\ kind \in Kinds /\ Answer(kind)
  BY Zenon, AnalyseFacts DEF Types
<1>3. /\ analysed \in Seq(Seq(Seq(ByteType))) /\ Len(analysed) = conns
      /\ analysed[c] \in Seq(Seq(ByteType)) /\ k \in Nat
  BY <1>2, MappingFacts
<1>4. sent[c] \in Seq(Kinds) /\ Len(sent[c]) \in Nat
  BY <1>2, FrameFacts DEF Types
<1> HIDE DEF c, k
<1> DEFINE an == Append(analysed[c], fr)
<1>5. an \in Seq(Seq(ByteType)) /\ Len(an) = k + 1 /\ an[k + 1] = fr
  BY <1>2, <1>3, AppendFacts DEF k
<1>6. analysed' = [analysed EXCEPT ![c] = an]
  BY <1>2
<1> HIDE DEF an
<1>7. analysed'[c] = an /\ \A d \in 1..conns : d # c => analysed'[d] = analysed[d]
  BY <1>2, <1>3, <1>5, <1>6, ReplaceFacts
<1>8. WholeIn(sent, analysed', c)
  BY <1>1, <1>2 DEF Streams, Kept, WholeNow
<1>9. k + 1 \in 1..Len(sent[c])
  BY <1>3, <1>4, <1>5, <1>7, <1>8 DEF WholeIn
<1>10. fr = BytesOfKind(<<c, k + 1>>, sent[c][k + 1])
  <2>1. k + 1 \in DOMAIN an
    BY <1>3, <1>5
  <2>2. QED
    BY <1>5, <1>7, <1>8, <2>1 DEF WholeIn
<1>11. kind = sent[c][k + 1]
  <2>1. Len(fr) > 2 /\ fr[3].pos = 3 /\ fr[3].frame = <<c, k + 1>>
    BY <1>10, ThirdByte
  <2>2. KindsOf(fr) = {Kind(<<c, k + 1>>)}
    BY <2>1 DEF KindsOf
  <2>3. QED
    BY <1>2, <2>2 DEF Kind
<1>12. QED
  BY <1>2, <1>5, <1>7, <1>9, <1>11 DEF c, k

LEMMA AnalyseServes ==
    ASSUME Types, Streams, Streams', Sound, Sound', AnalyseFrame
    PROVE  conn[m_fd] \in open /\ O!Serve(conn[m_fd])
<1> DEFINE n == conns
           c == conn[m_fd]
           k == Len(analysed[c])
           kind == sent[c][k + 1]
           r == Reply(kind, Number(recvIdx'))
<1>1. /\ c \in 1..n /\ k + 1 \in 1..Len(sent[c]) /\ Len(analysed'[c]) = k + 1
      /\ \A d \in 1..n : d # c => analysed'[d] = analysed[d]
      /\ kind \in Kinds /\ Answer(kind)
  BY AnalysedNext
<1>2. /\ UNCHANGED <<conn, conns, sent, yxNum, ycNum, cut>> /\ n \in Nat /\ c # 0
      /\ sent[c] \in Seq(Kinds) /\ m_fd \in Fd
  BY <1>1, FrameFacts DEF AnalyseFrame, linkVars, Types, TypeOK
<1>3. /\ sent \in Seq(Seq(Kinds)) /\ Len(sent) = n
      /\ asked \in Seq(Seq(Kinds)) /\ Len(asked) = n
      /\ told \in Seq(Seq(Content)) /\ Len(told) = n
      /\ \A d \in 1..n : /\ Len(analysed[d]) \in Nat
                          /\ asked[d] = Queue(sent, analysed, d) /\ told[d] = Contents(out[d])
  BY MappingFacts
<1>4. /\ yxNum \in Nat /\ ycNum \in Nat /\ sendIdx \in Nat /\ Number(recvIdx') \in Nat
      /\ out' \in Seq(Seq(OutFrame)) /\ Len(out') = n
      /\ out[c] \in Seq(OutFrame) /\ r \in Seq(OutFrame) /\ Joined(out[c], r, out'[c])
      /\ \A d \in 1..n : d # c => out'[d] = out[d]
  BY Zenon, <1>1, AnswerFacts
<1>5. O!IsAnswer(kind, Contents(r))
  BY <1>1, <1>4, ReplyAnswers
<1>6. k \in Nat
  BY <1>1, <1>3
<1> HIDE DEF n, c, k, kind, r
<1>7. /\ asked[c] # <<>> /\ Head(asked[c]) = kind
      /\ Tail(asked[c]) = Queue(sent', analysed', c)
  <2> DEFINE s == sent[c]
             t == SubSeq(s, k + 1, Len(s))
  <2>1. t # <<>> /\ Head(t) = s[k + 1] /\ Tail(t) = SubSeq(s, (k + 1) + 1, Len(s))
    BY <1>1, <1>2, <1>6, RestTail
  <2>2. asked[c] = t
    BY <1>1, <1>3 DEF Queue, k
  <2>3. Queue(sent', analysed', c) = SubSeq(s, (k + 1) + 1, Len(s))
    BY <1>1, <1>2 DEF Queue
  <2> HIDE DEF t
  <2>4. QED
    BY <2>1, <2>2, <2>3 DEF kind
<1>8. asked' = [asked EXCEPT ![c] = Tail(@)]
  <2> DEFINE q == Queues(sent', analysed', n)
             e == Tail(asked[c])
             a == [asked EXCEPT ![c] = e]
  <2>1. q \in Seq(Seq(Kinds)) /\ Len(q) = n /\ \A d \in 1..n : q[d] = Queue(sent', analysed', d)
    <3>1. \A d \in 1..n : Len(analysed'[d]) \in Nat
      BY SMTT(40), <1>1, <1>3, <1>6
    <3>2. sent' \in Seq(Seq(Kinds)) /\ Len(sent') = n
      BY <1>2, <1>3
    <3>3. QED
      BY ZenonT(40), <1>2, <3>1, <3>2, QueuesFacts
  <2>2. e \in Seq(Kinds)
    BY <1>1, <1>3, <1>7
  <2> HIDE DEF e
  <2>3. /\ a \in Seq(Seq(Kinds)) /\ Len(a) = n /\ a[c] = e
        /\ \A d \in 1..n : d # c => a[d] = asked[d]
    BY <1>1, <1>3, <2>2, ReplaceFacts
  <2>4. \A d \in 1..n : d # c => Queue(sent', analysed', d) = asked[d]
    BY <1>1, <1>2, <1>3 DEF Queue
  <2> HIDE DEF a, q
  <2>5. \A d \in 1..n : q[d] = a[d]
    BY <1>7, <2>1, <2>3, <2>4 DEF e
  <2>6. q = a
    BY <2>1, <2>3, <2>5, SeqEqual
  <2>7. asked' = q
    BY <1>2, MappingPrimed DEF q, n
  <2>8. QED
    BY <2>6, <2>7 DEF a, e
<1> DEFINE s == told[c]
           t == Contents(r)
           u == Contents(out'[c])
<1>9. s \in Seq(Content) /\ t \in Seq(Content) /\ u \in Seq(Content) /\ Joined(s, t, u)
  <2> DEFINE o == out[c]
             v == out'[c]
  <2>1. o \in Seq(OutFrame) /\ v \in Seq(OutFrame) /\ Joined(o, r, v)
    BY <1>1, <1>4
  <2>2. s = Contents(o)
    BY <1>1, <1>3
  <2> HIDE DEF o, v
  <2>3. /\ Contents(o) \in Seq(Content) /\ Len(Contents(o)) = Len(o)
        /\ \A i \in 1..Len(o) : Contents(o)[i] = o[i].content
    BY <2>1, ContentsFacts
  <2>4. /\ Contents(r) \in Seq(Content) /\ Len(Contents(r)) = Len(r)
        /\ \A i \in 1..Len(r) : Contents(r)[i] = r[i].content
    BY <1>4, ContentsFacts
  <2>5. /\ Contents(v) \in Seq(Content) /\ Len(Contents(v)) = Len(v)
        /\ \A i \in 1..Len(v) : Contents(v)[i] = v[i].content
    BY <2>1, ContentsFacts
  <2>6. \A i \in 1..Len(o) : i \in 1..Len(v) /\ v[i] = o[i]
    BY <2>1 DEF Joined
  <2>7. \A i \in 1..Len(r) : Len(o) + i \in 1..Len(v) /\ v[Len(o) + i] = r[i]
    BY <2>1 DEF Joined
  <2>8. Joined(Contents(o), Contents(r), Contents(v))
    BY ZenonT(40), <2>1, <2>3, <2>4, <2>5, <2>6, <2>7 DEF Joined
  <2>9. QED
    BY <2>2, <2>3, <2>4, <2>5, <2>8 DEF v
<1>10. told'[c] = u /\ told' = [told EXCEPT ![c] = u]
  <2> DEFINE q == Says(out', n)
             a == [told EXCEPT ![c] = u]
  <2>1. q \in Seq(Seq(Content)) /\ Len(q) = n /\ \A d \in 1..n : q[d] = Contents(out'[d])
    BY Zenon, <1>2, <1>4, SaysFacts
  <2> HIDE DEF u
  <2>2. /\ a \in Seq(Seq(Content)) /\ Len(a) = n /\ a[c] = u
        /\ \A d \in 1..n : d # c => a[d] = told[d]
    BY <1>1, <1>3, <1>9, ReplaceFacts
  <2>3. \A d \in 1..n : d # c => Contents(out'[d]) = told[d]
    BY <1>3, <1>4
  <2> HIDE DEF a, q
  <2>4. \A d \in 1..n : q[d] = a[d]
    BY <2>1, <2>2, <2>3 DEF u
  <2>5. q = a
    BY <2>1, <2>2, <2>4, SeqEqual
  <2>6. told' = q
    BY <1>2, MappingPrimed DEF q, n
  <2>7. QED
    BY <1>1, <2>2, <2>5, <2>6 DEF a
<1>11. SubSeq(u, Len(s) + 1, Len(u)) = t /\ u = s \o t
  <2> HIDE DEF s, t, u
  <2>1. QED
    BY <1>9, RestJoined
<1>12. open' = open /\ c \in open
  BY <1>2 DEF open, c
<1>13. Sound' = Sound
  OBVIOUS
<1>14. LET added == SubSeq(told'[c], Len(told[c]) + 1, Len(told'[c])) IN
       /\ O!IsAnswer(Head(asked[c]), added)
       /\ told' = [told EXCEPT ![c] = @ \o added]
  BY <1>5, <1>7, <1>10, <1>11
<1>15. QED
  BY <1>2, <1>7, <1>8, <1>12, <1>13, <1>14 DEF O!Serve, c

(* What does not concern the stations.                                      *)
LEMMA OtherSteps ==
    ASSUME Types, UNCHANGED <<conn, conns, sent, yxNum, ycNum, out, analysed, cut>>
    PROVE  UNCHANGED O!ovars
<1>1. open' = open
  BY DEF open
<1>2. asked' = asked /\ told' = told
  BY MappingPrimed, MappingFacts
<1>3. Sound' = Sound
  BY DEF Sound, Frames, Kind
<1>4. QED
  BY <1>1, <1>2, <1>3 DEF O!ovars

LEMMA InitOpens == Init => O!OInit
<1> SUFFICES ASSUME Init PROVE O!OInit
  OBVIOUS
<1>1. conns = 0 /\ sent = <<>> /\ ~cut /\ \A fd \in Fd : conn[fd] = 0
  BY DEF Init
<1>2. open = {}
  BY <1>1 DEF open
<1>3. asked = <<>> /\ told = <<>>
  BY <1>1 DEF asked, told
<1>4. Sound
  BY <1>1 DEF Sound, Frames
<1>5. yxNum \in Nat /\ ycNum \in Nat
  BY SlaveAssumption DEF Init
<1>6. QED
  BY <1>2, <1>3, <1>4, <1>5 DEF O!OInit

LEMMA StepServes ==
    ASSUME Types, Streams, Streams', [Next]_vars
    PROVE  [O!ONext]_(O!ovars)
<1>1. Sound' => Sound
  BY SoundBefore
<1>2. CASE ~Sound
  BY <1>1, <1>2 DEF O!ONext, O!Lost
<1>3. CASE Sound
  <2>1. ASSUME NEW fd \in Fd, Connect(fd) PROVE O!ONext
    BY <2>1, ConnectOpens DEF O!ONext
  <2>2. ASSUME NEW fd \in Fd, Disconnect(fd) PROVE O!ONext
    BY <1>1, <2>2, DisconnectCloses DEF O!ONext
  <2>3. ASSUME NEW fd \in Fd, NEW kind \in Kinds, Send(fd, kind) PROVE O!ONext
    BY <1>1, <1>3, <2>3, SendAsks DEF O!ONext
  <2>4. ASSUME NEW fd \in Fd, HandleMessage(fd) PROVE UNCHANGED O!ovars
    BY <2>4, OtherSteps DEF HandleMessage
  <2>5. CASE AnalyseFrame
    <3>1. Sound'
      BY <1>3, <2>5 DEF AnalyseFrame, linkVars, Sound, Frames, Kind
    <3>2. QED
      BY <1>3, <2>5, <3>1, AnalyseServes DEF O!ONext
  <2>6. CASE EndMessage \/ UNCHANGED vars
    BY <2>6, OtherSteps DEF EndMessage, vars, linkVars
  <2>7. QED
    BY <2>1, <2>2, <2>3, <2>4, <2>5, <2>6 DEF Next, Handle
<1>4. QED
  BY <1>2, <1>3

(* The slave implements what a station is promised: every step of the stations *)
(* and of the server is one of Outstation's, or changes nothing they can see.  *)
THEOREM Refinement == Spec => IsOutstation
<1>1. Types /\ Streams /\ Streams' /\ [Next]_vars => [O!ONext]_(O!ovars)
  BY StepServes
<1>2. QED
  BY <1>1, InitOpens, TypesInvariant, StreamsInvariant, PTL DEF Spec, IsOutstation, O!OSpec
=============================================================================
