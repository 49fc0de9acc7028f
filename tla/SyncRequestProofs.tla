---------------------------- MODULE SyncRequestProofs ----------------------------
(***************************************************************************)
(* Proofs about SyncRequest, for every set of callers, devices and         *)
(* mutexes, every answer length and any number of requests.                *)
(***************************************************************************)
EXTENDS SyncRequest, SequenceTheorems, TLAPS

-----------------------------------------------------------------------------
(* Chunks and frames.                                                      *)

(* A chunk of an answer is a sequence of bytes of the length asked for.     *)
LEMMA ChunkType ==
    ASSUME NEW r \in Request, NEW k \in Nat, NEW n \in Nat, k + n <= AnswerLen
    PROVE  /\ Chunk(r, k, n) \in Seq(Byte)
           /\ Len(Chunk(r, k, n)) = n
<1> DEFINE e(i) == [req |-> r, pos |-> k + i]
<1>1. Chunk(r, k, n) = [i \in 1..n |-> e(i)]
  BY DEF Chunk
<1>2. \A i \in 1..n : e(i) \in Byte
  BY FrameAssumption DEF Byte
<1>3. [i \in 1..n |-> e(i)] \in [1..n -> Byte]
  BY <1>2
<1>4. [1..n -> Byte] \subseteq Seq(Byte)
  BY SeqDef
<1>5. Len(Chunk(r, k, n)) = n
  <2>1. DOMAIN Chunk(r, k, n) = 1..n
    BY DEF Chunk
  <2>2. QED
    BY <2>1, <1>1, <1>3, <1>4, LenProperties
<1>6. QED
  BY <1>1, <1>3, <1>4, <1>5

(* Two adjacent chunks of an answer make one chunk.                        *)
LEMMA ChunkConcat ==
    ASSUME NEW r \in Request, NEW k \in Nat, NEW m \in Nat, NEW n \in Nat,
           k + m + n <= AnswerLen
    PROVE  Chunk(r, k, m) \o Chunk(r, k + m, n) = Chunk(r, k, m + n)
<1> DEFINE s == Chunk(r, k, m)
           t == Chunk(r, k + m, n)
           u == Chunk(r, k, m + n)
<1>1. s \in Seq(Byte) /\ Len(s) = m
  BY ChunkType, FrameAssumption
<1>2. t \in Seq(Byte) /\ Len(t) = n
  BY ChunkType, FrameAssumption
<1>3. u \in Seq(Byte) /\ Len(u) = m + n
  BY ChunkType, FrameAssumption
<1>4. s \o t \in Seq(Byte) /\ Len(s \o t) = m + n
  BY <1>1, <1>2, ConcatProperties
<1>5. ASSUME NEW i \in 1..(m + n)
      PROVE  (s \o t)[i] = u[i]
  <2>1. (s \o t)[i] = IF i <= m THEN s[i] ELSE t[i - m]
    BY <1>1, <1>2, ConcatProperties
  <2>2. i <= m => s[i] = [req |-> r, pos |-> k + i]
    BY DEF Chunk
  <2>3. ~(i <= m) => t[i - m] = [req |-> r, pos |-> (k + m) + (i - m)]
    BY DEF Chunk
  <2>4. u[i] = [req |-> r, pos |-> k + i]
    BY DEF Chunk
  <2>5. (k + m) + (i - m) = k + i
    OBVIOUS
  <2>6. QED
    BY <2>1, <2>2, <2>3, <2>4, <2>5
<1>6. QED
  BY <1>3, <1>4, <1>5, SeqEqual

(* The whole answer is a chunk, and it is what all of its bytes make.       *)
LEMMA AnswerIsChunk ==
    ASSUME NEW r \in Request
    PROVE  /\ Answer(r) = Chunk(r, 0, AnswerLen)
           /\ Answer(r) \in Seq(Byte)
           /\ Len(Answer(r)) = AnswerLen
<1>1. Answer(r) = Chunk(r, 0, AnswerLen)
  BY FrameAssumption DEF Answer, Chunk
<1>2. QED
  BY <1>1, ChunkType, FrameAssumption

(* fixFrame never claims more than it was given; what it accepts when frames *)
(* are exact is at least one whole answer.                                 *)
LEMMA FixFrameResult ==
    ASSUME NEW buf \in Seq(Byte), buf # <<>>
    PROVE  /\ FixFrame(buf).ret \in {"INVALID", "COMPLETE", "INCOMPLETE"}
           /\ FixFrame(buf).len \in 0..Len(buf)
           /\ FixFrame(buf).ret = "COMPLETE" /\ ExactFrames =>
                  AnswerLen <= Len(buf) /\ AnswerLen <= FixFrame(buf).len
<1>1. Len(buf) \in Nat
  BY LenProperties
<1>2. CASE Framing = "whole"
  BY <1>1, <1>2, FrameAssumption DEF FixFrame, FixWhole, ExactFrames
<1>3. CASE Framing # "whole"
  BY <1>1, <1>3, FrameAssumption DEF FixFrame, FixFramed, ExactFrames
<1>4. QED
  BY <1>2, <1>3

-----------------------------------------------------------------------------
(* Type correctness.                                                       *)

LEMMA InitType == Init => TypeOK
<1> SUFFICES ASSUME Init PROVE TypeOK
  OBVIOUS
<1>1. <<>> \in Seq(Byte)
  BY EmptySeq
<1>2. /\ asked \in 0..MaxRequest /\ req \in [Caller -> 0..MaxRequest]
      /\ arrived \in [Request -> 0..AnswerLen]
  BY FrameAssumption DEF Init
<1>3. QED
  BY <1>1, <1>2 DEF Init, TypeOK, InCall, Sent

(* What Return changes keeps its type.                                     *)
ReturnTypes ==
    /\ owner \in [Mutex -> Caller \cup {NoCaller}]
    /\ pc \in [Caller -> {"idle", "send", "drain", "name", "pend", "expired", "copy"}]
    /\ dev \in [Caller -> Device \cup {NoName}]
    /\ \A c \in Caller : InCall(c) => dev[c] \in Device
    /\ req \in [Caller -> 0..MaxRequest]
    /\ \A c \in Caller : Sent(c) => req[c] \in Request

LEMMA ReturnType ==
    ASSUME TypeOK, NEW c \in Caller, Return(c)
    PROVE  ReturnTypes'
<1>1. owner' \in [Mutex -> Caller \cup {NoCaller}]
  BY DEF Return, TypeOK
<1>2. pc' \in [Caller -> {"idle", "send", "drain", "name", "pend", "expired", "copy"}]
  BY DEF Return, TypeOK
<1>3. dev' \in [Caller -> Device \cup {NoName}]
  BY DEF Return, TypeOK
<1>4. \A b \in Caller : pc'[b] # "idle" => dev'[b] \in Device
  BY DEF Return, TypeOK, InCall
<1>5. req' \in [Caller -> 0..MaxRequest]
  BY FrameAssumption DEF Return, TypeOK
<1>6. \A b \in Caller : Sent(b)' => req'[b] \in Request
  BY DEF Return, TypeOK, Sent
<1>7. QED
  BY <1>1, <1>2, <1>3, <1>4, <1>5, <1>6 DEF ReturnTypes, InCall

LEMMA NextType == TypeOK /\ [Next]_vars => TypeOK'
<1> SUFFICES ASSUME TypeOK, [Next]_vars PROVE TypeOK'
  OBVIOUS
<1>1. ASSUME NEW d \in Device, AttachFixFunc(d) PROVE TypeOK'
  BY <1>1 DEF AttachFixFunc, TypeOK, InCall, Sent, callerVars, wireVars, dealerVars, semVars
<1>2. ASSUME NEW c \in Caller, NEW d \in Device, Lock(c, d) PROVE TypeOK'
  BY <1>2 DEF Lock, TypeOK, InCall, Sent, callerVars, wireVars, dealerVars, semVars
<1>3. ASSUME NEW c \in Caller, SendFails(c) PROVE TypeOK'
  <2>1. Return(c)
    BY <1>3 DEF SendFails
  <2>2. ReturnTypes'
    BY <2>1, ReturnType
  <2>3. QED
    BY <1>3, <2>2 DEF SendFails, TypeOK, ReturnTypes, InCall, Sent, callerVars, wireVars, dealerVars, semVars
<1>4. ASSUME NEW c \in Caller, Send(c) PROVE TypeOK'
  <2>1. asked' \in 0..MaxRequest /\ req' \in [Caller -> 0..MaxRequest]
    BY <1>4, FrameAssumption DEF Send, TypeOK
  <2>2. asked + 1 \in Request
    BY <1>4, FrameAssumption DEF Send, TypeOK, Request
  <2>3. \A b \in Caller : Sent(b)' => req'[b] \in Request
    BY <1>4, <2>2 DEF Send, TypeOK, Sent
  <2>4. QED
    BY <1>4, <2>1, <2>3 DEF Send, TypeOK, InCall, Sent, callerVars, wireVars, dealerVars, semVars
<1>5. ASSUME NEW c \in Caller, Drain(c) PROVE TypeOK'
  BY <1>5 DEF Drain, TypeOK, InCall, Sent, callerVars, wireVars, dealerVars, semVars
<1>6. ASSUME NEW c \in Caller, SetName(c) PROVE TypeOK'
  BY <1>6 DEF SetName, TypeOK, InCall, Sent, callerVars, wireVars, dealerVars, semVars
<1>7. ASSUME NEW c \in Caller, Pend(c) PROVE TypeOK'
  BY <1>7 DEF Pend, TypeOK, InCall, Sent, callerVars, wireVars, dealerVars, semVars
<1>8. ASSUME NEW c \in Caller, TimeOut(c) PROVE TypeOK'
  BY <1>8 DEF TimeOut, TypeOK, InCall, Sent, callerVars, wireVars, dealerVars, semVars
<1>9. ASSUME NEW c \in Caller, GiveUp(c) PROVE TypeOK'
  <2>1. Return(c)
    BY <1>9 DEF GiveUp
  <2>2. ReturnTypes'
    BY <2>1, ReturnType
  <2>3. QED
    BY <1>9, <2>2 DEF GiveUp, TypeOK, ReturnTypes, InCall, Sent, callerVars, wireVars, dealerVars, semVars
<1>10. ASSUME NEW c \in Caller, Copy(c) PROVE TypeOK'
  <2>1. Return(c)
    BY <1>10 DEF Copy
  <2>2. ReturnTypes'
    BY <2>1, ReturnType
  <2>3. QED
    BY <1>10, <2>2 DEF Copy, TypeOK, ReturnTypes, InCall, Sent, callerVars, wireVars, dealerVars, semVars
<1>11. ASSUME NEW r \in Request, NEW n \in 1..AnswerLen, HandleMessage(r, n) PROVE TypeOK'
  <2>1. Chunk(r, arrived[r], n) \in Seq(Byte)
    BY <1>11, ChunkType, FrameAssumption DEF HandleMessage, TypeOK
  <2>2. recvBuf' \in Seq(Byte)
    BY <1>11, <2>1, ConcatProperties DEF HandleMessage, TypeOK
  <2>3. arrived' \in [Request -> 0..AnswerLen]
    BY <1>11, FrameAssumption DEF HandleMessage, TypeOK
  <2>4. QED
    BY <1>11, <2>2, <2>3 DEF HandleMessage, TypeOK, InCall, Sent, callerVars, dealerVars, semVars
<1>12. CASE ReadName
  BY <1>12 DEF ReadName, TypeOK, InCall, Sent, callerVars, wireVars, dealerVars, semVars
<1>13. CASE TakeBytes
  <2>1. tmpBuf' \in Seq(Byte) /\ recvBuf' \in Seq(Byte)
    BY <1>13, ConcatProperties, EmptySeq DEF TakeBytes, TypeOK
  <2>2. QED
    BY <1>13, <2>1 DEF TakeBytes, TypeOK, InCall, Sent, callerVars, wireVars, semVars
<1>14. CASE DealMsg
  <2> DEFINE fix == FixFrame(tmpBuf)
  <2>1. /\ tmpBuf \in Seq(Byte) /\ Len(tmpBuf) \in Nat
        /\ fix.len \in 0..Len(tmpBuf)
    BY <1>14, FixFrameResult, LenProperties DEF DealMsg, TypeOK
  <2>2. \A i \in 1..Len(tmpBuf) : tmpBuf[i] \in Byte
    BY <2>1, ElementOfSeq
  <2>3. SubSeq(tmpBuf, 1, fix.len) \in Seq(Byte)
    BY <2>1, <2>2, SubSeqProperties
  <2>4. SubSeq(tmpBuf, fix.len + 1, Len(tmpBuf)) \in Seq(Byte)
    BY <2>1, <2>2, SubSeqProperties
  <2>5. tmpBuf' \in Seq(Byte) /\ valid' \in Seq(Byte)
    BY <1>14, <2>1, <2>3, <2>4, EmptySeq DEF DealMsg, TypeOK
  <2>6. dpc' \in {"read", "write"} /\ dName' = dName /\ dName \in Device
    BY <1>14 DEF DealMsg, TypeOK
  <2>7. QED
    BY <1>14, <2>5, <2>6 DEF DealMsg, TypeOK, InCall, Sent, callerVars, wireVars, semVars
<1>15. CASE BeginWrite
  BY <1>15 DEF BeginWrite, TypeOK, InCall, Sent, callerVars, wireVars, dealerVars, semVars
<1>16. CASE EndWrite
  BY <1>16 DEF EndWrite, TypeOK, InCall, Sent, callerVars, wireVars, dealerVars, semVars
<1>17. CASE Post
  BY <1>17 DEF Post, TypeOK, InCall, Sent, callerVars, wireVars, dealerVars, semVars
<1>18. CASE ClearName
  BY <1>18 DEF ClearName, TypeOK, InCall, Sent, callerVars, wireVars, dealerVars, semVars
<1>19. CASE UNCHANGED vars
  BY <1>19 DEF vars, TypeOK, InCall, Sent, callerVars, wireVars, dealerVars, semVars
<1>20. QED
  BY <1>1, <1>2, <1>3, <1>4, <1>5, <1>6, <1>7, <1>8, <1>9, <1>10, <1>11, <1>12, <1>13, <1>14, <1>15, <1>16, <1>17, <1>18, <1>19 DEF Next, CallerStep, Dealer

(* Every variable of the exchange keeps its type; the dealer never asks a    *)
(* fixFrame about an empty buffer.                                         *)
THEOREM TypeCorrect == Spec => []TypeOK
BY InitType, NextType, PTL DEF Spec

-----------------------------------------------------------------------------
(* The semaphore is there when the dealer posts.                           *)

LEMMA InitSem == Init => SemInv
BY DEF Init, SemInv

LEMMA NextSem == TypeOK /\ SemInv /\ [Next]_vars => SemInv'
<1> SUFFICES ASSUME TypeOK, SemInv, [Next]_vars PROVE SemInv'
  OBVIOUS
<1>1. ASSUME NEW d \in Device, AttachFixFunc(d) PROVE SemInv'
  BY <1>1 DEF AttachFixFunc, SemInv, TypeOK, InCall, callerVars, wireVars, dealerVars, semVars
<1>2. ASSUME NEW c \in Caller, NEW d \in Device, Lock(c, d) PROVE SemInv'
  BY <1>2 DEF Lock, SemInv, TypeOK, InCall, callerVars, wireVars, dealerVars, semVars
<1>3. ASSUME NEW c \in Caller, SendFails(c) PROVE SemInv'
  BY <1>3 DEF SendFails, Return, SemInv, TypeOK, InCall, callerVars, wireVars, dealerVars, semVars
<1>4. ASSUME NEW c \in Caller, Send(c) PROVE SemInv'
  BY <1>4 DEF Send, SemInv, TypeOK, InCall, callerVars, wireVars, dealerVars, semVars
<1>5. ASSUME NEW c \in Caller, Drain(c) PROVE SemInv'
  BY <1>5 DEF Drain, SemInv, TypeOK, InCall, callerVars, wireVars, dealerVars, semVars
<1>6. ASSUME NEW c \in Caller, SetName(c) PROVE SemInv'
  BY <1>6 DEF SetName, SemInv, TypeOK, InCall, callerVars, wireVars, dealerVars, semVars
<1>7. ASSUME NEW c \in Caller, Pend(c) PROVE SemInv'
  BY <1>7 DEF Pend, SemInv, TypeOK, InCall, callerVars, wireVars, dealerVars, semVars
<1>8. ASSUME NEW c \in Caller, TimeOut(c) PROVE SemInv'
  BY <1>8 DEF TimeOut, SemInv, TypeOK, InCall, callerVars, wireVars, dealerVars, semVars
<1>9. ASSUME NEW c \in Caller, GiveUp(c) PROVE SemInv'
  BY <1>9 DEF GiveUp, Return, SemInv, TypeOK, InCall, callerVars, wireVars, dealerVars, semVars
<1>10. ASSUME NEW c \in Caller, Copy(c) PROVE SemInv'
  BY <1>10 DEF Copy, Return, SemInv, TypeOK, InCall, callerVars, wireVars, dealerVars, semVars
<1>11. ASSUME NEW r \in Request, NEW n \in 1..AnswerLen, HandleMessage(r, n) PROVE SemInv'
  BY <1>11 DEF HandleMessage, SemInv, TypeOK, InCall, callerVars, wireVars, dealerVars, semVars
<1>12. CASE ReadName
  BY <1>12 DEF ReadName, SemInv, TypeOK, InCall, callerVars, wireVars, dealerVars, semVars
<1>13. CASE TakeBytes
  BY <1>13 DEF TakeBytes, SemInv, TypeOK, InCall, callerVars, wireVars, dealerVars, semVars
<1>14. CASE DealMsg
  BY <1>14 DEF DealMsg, SemInv, TypeOK, InCall, callerVars, wireVars, dealerVars, semVars
<1>15. CASE BeginWrite
  BY <1>15 DEF BeginWrite, SemInv, TypeOK, InCall, callerVars, wireVars, dealerVars, semVars
<1>16. CASE EndWrite
  BY <1>16 DEF EndWrite, SemInv, TypeOK, InCall, callerVars, wireVars, dealerVars, semVars
<1>17. CASE Post
  BY <1>17 DEF Post, SemInv, TypeOK, InCall, callerVars, wireVars, dealerVars, semVars
<1>18. CASE ClearName
  BY <1>18 DEF ClearName, SemInv, TypeOK, InCall, callerVars, wireVars, dealerVars, semVars
<1>19. CASE UNCHANGED vars
  BY <1>19 DEF vars, SemInv, TypeOK, InCall, callerVars, wireVars, dealerVars, semVars
<1>20. QED
  BY <1>1, <1>2, <1>3, <1>4, <1>5, <1>6, <1>7, <1>8, <1>9, <1>10, <1>11, <1>12, <1>13, <1>14, <1>15, <1>16, <1>17, <1>18, <1>19 DEF Next, CallerStep, Dealer

(* The dealer never posts to a device without a semaphore, whatever mutexes  *)
(* the callers hold and however often they time out.                       *)
THEOREM PostHasSemaphoreHolds == Spec => []PostHasSemaphore
<1>1. SemInv => PostHasSemaphore
  BY DEF SemInv, PostHasSemaphore
<1>2. QED
  BY <1>1, InitSem, NextSem, TypeCorrect, PTL DEF Spec

-----------------------------------------------------------------------------
(* The bytes received.                                                     *)

(* The bytes that arrive go behind those of their answer that have arrived. *)
LEMMA OrderArrival ==
    ASSUME NEW buf \in Seq(Byte), NEW upto \in [Request -> 0..AnswerLen],
           NEW r \in Request, NEW n \in 1..AnswerLen,
           upto[r] + n <= AnswerLen, InOrder(buf, upto)
    PROVE  InOrder(buf \o Chunk(r, upto[r], n), [upto EXCEPT ![r] = @ + n])
<1> DEFINE k == upto[r]
           c == Chunk(r, k, n)
           new == buf \o c
           up == [upto EXCEPT ![r] = @ + n]
           l == Len(buf)
<1>1. k \in Nat /\ n \in Nat /\ k + n <= AnswerLen
  BY FrameAssumption
<1>2. c \in Seq(Byte) /\ Len(c) = n
  BY <1>1, ChunkType
<1>3. \A i \in 1..n : c[i].req = r /\ c[i].pos = k + i
  BY DEF Chunk
<1>4. /\ new \in Seq(Byte) /\ Len(new) = l + n
      /\ \A i \in 1..(l + n) : new[i] = IF i <= l THEN buf[i] ELSE c[i - l]
  BY <1>2, ConcatProperties
<1>5. l \in Nat /\ \A i \in 1..l : buf[i] \in Byte
  BY LenProperties, ElementOfSeq
<1>6. \A q \in Request : up[q] = IF q = r THEN k + n ELSE upto[q]
  OBVIOUS
<1>7. \A i \in 1..l : buf[i].req \in Request /\ buf[i].pos \in Nat
  BY <1>5, FrameAssumption DEF Byte
<1>8. \A i \in 1..l : buf[i].pos <= upto[buf[i].req] /\ upto[buf[i].req] \in Nat
  BY <1>7, FrameAssumption DEF InOrder
<1>9. \A i \in 1..l, j \in 1..l :
          i < j /\ buf[i].req = buf[j].req => buf[i].pos < buf[j].pos
  BY <1>5 DEF InOrder
<1> HIDE DEF c, new, up, l, k
<1>10. ASSUME NEW i \in 1..(l + n)
       PROVE  new[i].pos <= up[new[i].req]
  <2>1. CASE i <= l
    <3>1. i \in 1..l /\ new[i] = buf[i]
      BY <2>1, <1>4, <1>5
    <3>2. /\ buf[i].req \in Request /\ buf[i].pos \in Nat
          /\ buf[i].pos <= upto[buf[i].req] /\ upto[buf[i].req] \in Nat
      BY <3>1, <1>7, <1>8
    <3>3. upto[buf[i].req] <= up[buf[i].req] /\ up[buf[i].req] \in Nat
      <4>1. CASE buf[i].req = r
        BY <3>2, <4>1, <1>1, <1>6 DEF k
      <4>2. CASE buf[i].req # r
        BY <3>2, <4>2, <1>6
      <4>3. QED
        BY <4>1, <4>2
    <3>4. QED
      BY <3>1, <3>2, <3>3
  <2>2. CASE ~(i <= l)
    <3>1. i - l \in 1..n /\ new[i] = c[i - l]
      BY <2>2, <1>1, <1>4, <1>5
    <3>2. QED
      BY <3>1, <1>1, <1>3, <1>6
  <2>3. QED
    BY <2>1, <2>2
<1>11. ASSUME NEW i \in 1..(l + n), NEW j \in (i + 1)..(l + n),
              new[i].req = new[j].req
       PROVE  new[i].pos < new[j].pos
  <2>1. j \in 1..(l + n) /\ i < j
    BY <1>1, <1>5
  <2>2. CASE j <= l
    BY <2>1, <2>2, <1>4, <1>5, <1>9, <1>11
  <2>3. CASE ~(j <= l) /\ i <= l
    <3>1. j - l \in 1..n /\ new[j] = c[j - l] /\ i \in 1..l /\ new[i] = buf[i]
      BY <2>1, <2>3, <1>1, <1>4, <1>5
    <3>2. buf[i].req = r /\ buf[i].pos <= k /\ buf[i].pos \in Nat
      BY <3>1, <1>3, <1>7, <1>8, <1>11 DEF k
    <3>3. new[j].pos = k + (j - l)
      BY <3>1, <1>3
    <3>4. QED
      BY <3>1, <3>2, <3>3, <1>1
  <2>4. CASE ~(i <= l)
    <3>1. /\ j - l \in 1..n /\ new[j] = c[j - l]
          /\ i - l \in 1..n /\ new[i] = c[i - l]
      BY <2>1, <2>4, <1>1, <1>4, <1>5
    <3>2. new[i].pos = k + (i - l) /\ new[j].pos = k + (j - l)
      BY <3>1, <1>3
    <3>3. QED
      BY <2>1, <3>1, <3>2, <1>1, <1>5
  <2>5. QED
    BY <2>2, <2>3, <2>4
<1>12. InOrder(new, up)
  BY <1>4, <1>10, <1>11 DEF InOrder
<1>13. QED
  BY <1>12 DEF new, up, c, k

(* What is cut off the front leaves the rest in order.                      *)
LEMMA OrderDrop ==
    ASSUME NEW t \in Seq(Byte), NEW u \in Seq(Byte), NEW upto, NEW k \in 0..Len(t),
           InOrder(t \o u, upto)
    PROVE  InOrder(SubSeq(t, k + 1, Len(t)) \o u, upto)
<1> DEFINE s == SubSeq(t, k + 1, Len(t))
<1>1. Len(t) \in Nat /\ Len(u) \in Nat /\ \A i \in 1..Len(t) : t[i] \in Byte
  BY LenProperties, ElementOfSeq
<1>2. /\ s \in Seq(Byte) /\ Len(s) = Len(t) - k
      /\ \A i \in 1..(Len(t) - k) : s[i] = t[k + i]
  <2>1. \A i \in (k + 1)..Len(t) : t[i] \in Byte
    BY <1>1
  <2>2. /\ s \in Seq(Byte)
        /\ Len(s) = IF k + 1 <= Len(t) THEN Len(t) - (k + 1) + 1 ELSE 0
        /\ \A i \in 1..(Len(t) - (k + 1) + 1) : s[i] = t[(k + 1) + i - 1]
    BY <1>1, <2>1, SubSeqProperties
  <2> HIDE DEF s
  <2>3. QED
    BY <1>1, <2>2
<1> HIDE DEF s
<1>3. /\ Len(t \o u) = Len(t) + Len(u)
      /\ \A i \in 1..(Len(t) + Len(u)) :
             (t \o u)[i] = IF i <= Len(t) THEN t[i] ELSE u[i - Len(t)]
  BY ConcatProperties
<1>4. /\ Len(s \o u) = Len(s) + Len(u)
      /\ \A i \in 1..(Len(s) + Len(u)) :
             (s \o u)[i] = IF i <= Len(s) THEN s[i] ELSE u[i - Len(s)]
  BY <1>2, ConcatProperties
<1>5. \A i \in 1..Len(s \o u) : (s \o u)[i] = (t \o u)[k + i] /\ k + i \in 1..Len(t \o u)
  BY <1>1, <1>2, <1>3, <1>4
<1>6. InOrder(s \o u, upto)
  <2>1. ASSUME NEW i \in 1..Len(s \o u)
        PROVE  (s \o u)[i].pos <= upto[(s \o u)[i].req]
    BY <2>1, <1>5 DEF InOrder
  <2>2. ASSUME NEW i \in 1..Len(s \o u), NEW j \in (i + 1)..Len(s \o u),
               (s \o u)[i].req = (s \o u)[j].req
        PROVE  (s \o u)[i].pos < (s \o u)[j].pos
    <3>1. Len(s \o u) \in Nat
      BY <1>1, <1>2, <1>4
    <3>2. j \in 1..Len(s \o u)
      BY <3>1
    <3>3. k + j \in ((k + i) + 1)..Len(t \o u)
      BY <1>5, <3>1, <3>2, <1>1, <1>3
    <3>4. QED
      BY <2>2, <1>5, <3>2, <3>3 DEF InOrder
  <2>3. QED
    BY <2>1, <2>2 DEF InOrder
<1>7. QED
  BY <1>6 DEF s

LEMMA InitOrder == Init => OrderInv
<1> SUFFICES ASSUME Init PROVE OrderInv
  OBVIOUS
<1>1. <<>> \in Seq(Byte) /\ Len(<<>>) = 0
  BY EmptySeq
<1>2. <<>> \o <<>> = <<>>
  BY <1>1, ConcatEmptySeq
<1>3. QED
  BY <1>1, <1>2 DEF Init, OrderInv, InOrder

LEMMA NextOrder == TypeOK /\ OrderInv /\ [Next]_vars => OrderInv'
<1> SUFFICES ASSUME TypeOK, OrderInv, [Next]_vars PROVE OrderInv'
  OBVIOUS
<1> DEFINE Same == tmpBuf' = tmpBuf /\ recvBuf' = recvBuf /\ arrived' = arrived
<1>1. CASE Same
  BY <1>1 DEF OrderInv
<1>2. ASSUME NEW r \in Request, NEW n \in 1..AnswerLen, HandleMessage(r, n)
      PROVE  OrderInv'
  <2> DEFINE c == Chunk(r, arrived[r], n)
  <2>1. /\ arrived \in [Request -> 0..AnswerLen] /\ arrived[r] + n <= AnswerLen
        /\ tmpBuf \in Seq(Byte) /\ recvBuf \in Seq(Byte)
    BY <1>2 DEF HandleMessage, TypeOK
  <2>2. c \in Seq(Byte)
    BY <2>1, ChunkType, FrameAssumption
  <2>3. tmpBuf \o recvBuf \in Seq(Byte)
    BY <2>1, ConcatProperties
  <2>4. tmpBuf \o (recvBuf \o c) = (tmpBuf \o recvBuf) \o c
    <3> HIDE DEF c
    <3>1. ASSUME NEW s \in Seq(Byte), NEW t \in Seq(Byte), NEW u \in Seq(Byte)
          PROVE  s \o (t \o u) = (s \o t) \o u
      BY ONLY <3>1, ConcatAssociative
    <3>2. QED
      BY ONLY <2>1, <2>2, <3>1
  <2>5. InOrder((tmpBuf \o recvBuf) \o c, [arrived EXCEPT ![r] = @ + n])
    BY ONLY <2>1, <2>3, OrderInv, OrderArrival, r \in Request, n \in 1..AnswerLen
       DEF OrderInv
  <2>6. /\ tmpBuf' = tmpBuf /\ recvBuf' = recvBuf \o c
        /\ arrived' = [arrived EXCEPT ![r] = @ + n]
    BY <1>2 DEF HandleMessage, dealerVars
  <2>7. QED
    BY <2>4, <2>5, <2>6 DEF OrderInv
<1>3. CASE TakeBytes
  <2>1. tmpBuf \in Seq(Byte) /\ recvBuf \in Seq(Byte)
    BY DEF TypeOK
  <2>2. (tmpBuf \o recvBuf) \o <<>> = tmpBuf \o recvBuf
    BY <2>1, ConcatProperties, ConcatEmptySeq
  <2>3. QED
    BY <1>3, <2>2 DEF TakeBytes, OrderInv, wireVars
<1>4. CASE DealMsg
  <2> DEFINE fix == FixFrame(tmpBuf)
  <2>1. /\ tmpBuf \in Seq(Byte) /\ recvBuf \in Seq(Byte) /\ Len(tmpBuf) \in Nat
        /\ fix.len \in 0..Len(tmpBuf)
    BY <1>4, FixFrameResult, LenProperties DEF DealMsg, TypeOK
  <2>2. PICK k \in 0..Len(tmpBuf) : tmpBuf' = SubSeq(tmpBuf, k + 1, Len(tmpBuf))
    <3>1. tmpBuf = SubSeq(tmpBuf, 0 + 1, Len(tmpBuf))
      BY <2>1, SubSeqFull
    <3>2. <<>> = SubSeq(tmpBuf, Len(tmpBuf) + 1, Len(tmpBuf))
      BY <2>1, SubSeqEmpty
    <3>3. \/ tmpBuf' = tmpBuf \/ tmpBuf' = <<>>
          \/ tmpBuf' = SubSeq(tmpBuf, fix.len + 1, Len(tmpBuf))
      BY <1>4 DEF DealMsg
    <3>4. 0 \in 0..Len(tmpBuf) /\ Len(tmpBuf) \in 0..Len(tmpBuf)
      BY <2>1
    <3> HIDE DEF fix
    <3>5. QED
      BY <2>1, <3>1, <3>2, <3>3, <3>4
  <2>3. InOrder(SubSeq(tmpBuf, k + 1, Len(tmpBuf)) \o recvBuf, arrived)
    BY <2>1, OrderDrop DEF OrderInv
  <2>4. QED
    BY <1>4, <2>2, <2>3 DEF DealMsg, OrderInv, wireVars
<1>5. CASE \E d \in Device : AttachFixFunc(d)
  BY <1>1, <1>5 DEF AttachFixFunc, wireVars, dealerVars
<1>6. ASSUME NEW c \in Caller, CallerStep(c) PROVE Same
  BY <1>6 DEF CallerStep, Lock, SendFails, Send, Drain, SetName, Pend, TimeOut,
              GiveUp, Copy, wireVars, dealerVars
<1>7. CASE ReadName \/ BeginWrite \/ EndWrite \/ Post \/ ClearName
  BY <1>1, <1>7 DEF ReadName, BeginWrite, EndWrite, Post, ClearName, wireVars, dealerVars
<1>8. CASE UNCHANGED vars
  BY <1>1, <1>8 DEF vars, wireVars, dealerVars
<1>9. QED
  BY <1>1, <1>2, <1>3, <1>4, <1>5, <1>6, <1>7, <1>8 DEF Next, Dealer

(* The dealer sees every byte in the order it arrived and no byte twice,      *)
(* however many mutexes the callers hold and however often they time out.   *)
THEOREM BytesInOrderHolds == Spec => []BytesInOrder
<1>1. ASSUME TypeOK, OrderInv PROVE BytesInOrder
  <2>1. Len(tmpBuf \o recvBuf) \in Nat
    BY <1>1, ConcatProperties, LenProperties DEF TypeOK
  <2>2. QED
    BY <1>1, <2>1 DEF OrderInv, InOrder, BytesInOrder
<1>2. QED
  BY <1>1, InitOrder, NextOrder, TypeCorrect, PTL DEF Spec

-----------------------------------------------------------------------------
(* The mutex.                                                              *)

LEMMA InitLock == Init => LockInv
BY DEF Init, LockInv, InCall

LEMMA NextLock == TypeOK /\ LockInv /\ [Next]_vars => LockInv'
<1> SUFFICES ASSUME TypeOK, LockInv, [Next]_vars PROVE LockInv'
  OBVIOUS
<1>1. ASSUME NEW d \in Device, AttachFixFunc(d) PROVE LockInv'
  BY <1>1, CallerAssumption DEF AttachFixFunc, LockInv, TypeOK, InCall, callerVars, wireVars, dealerVars, semVars
<1>2. ASSUME NEW c \in Caller, NEW d \in Device, Lock(c, d) PROVE LockInv'
  BY <1>2, CallerAssumption DEF Lock, LockInv, TypeOK, InCall, callerVars, wireVars, dealerVars, semVars
<1>3. ASSUME NEW c \in Caller, SendFails(c) PROVE LockInv'
  BY <1>3, CallerAssumption DEF SendFails, Return, LockInv, TypeOK, InCall, callerVars, wireVars, dealerVars, semVars
<1>4. ASSUME NEW c \in Caller, Send(c) PROVE LockInv'
  BY <1>4, CallerAssumption DEF Send, LockInv, TypeOK, InCall, callerVars, wireVars, dealerVars, semVars
<1>5. ASSUME NEW c \in Caller, Drain(c) PROVE LockInv'
  BY <1>5, CallerAssumption DEF Drain, LockInv, TypeOK, InCall, callerVars, wireVars, dealerVars, semVars
<1>6. ASSUME NEW c \in Caller, SetName(c) PROVE LockInv'
  BY <1>6, CallerAssumption DEF SetName, LockInv, TypeOK, InCall, callerVars, wireVars, dealerVars, semVars
<1>7. ASSUME NEW c \in Caller, Pend(c) PROVE LockInv'
  BY <1>7, CallerAssumption DEF Pend, LockInv, TypeOK, InCall, callerVars, wireVars, dealerVars, semVars
<1>8. ASSUME NEW c \in Caller, TimeOut(c) PROVE LockInv'
  BY <1>8, CallerAssumption DEF TimeOut, LockInv, TypeOK, InCall, callerVars, wireVars, dealerVars, semVars
<1>9. ASSUME NEW c \in Caller, GiveUp(c) PROVE LockInv'
  BY <1>9, CallerAssumption DEF GiveUp, Return, LockInv, TypeOK, InCall, callerVars, wireVars, dealerVars, semVars
<1>10. ASSUME NEW c \in Caller, Copy(c) PROVE LockInv'
  BY <1>10, CallerAssumption DEF Copy, Return, LockInv, TypeOK, InCall, callerVars, wireVars, dealerVars, semVars
<1>11. ASSUME NEW r \in Request, NEW n \in 1..AnswerLen, HandleMessage(r, n) PROVE LockInv'
  BY <1>11, CallerAssumption DEF HandleMessage, LockInv, TypeOK, InCall, callerVars, wireVars, dealerVars, semVars
<1>12. CASE ReadName
  BY <1>12, CallerAssumption DEF ReadName, LockInv, TypeOK, InCall, callerVars, wireVars, dealerVars, semVars
<1>13. CASE TakeBytes
  BY <1>13, CallerAssumption DEF TakeBytes, LockInv, TypeOK, InCall, callerVars, wireVars, dealerVars, semVars
<1>14. CASE DealMsg
  BY <1>14, CallerAssumption DEF DealMsg, LockInv, TypeOK, InCall, callerVars, wireVars, dealerVars, semVars
<1>15. CASE BeginWrite
  BY <1>15, CallerAssumption DEF BeginWrite, LockInv, TypeOK, InCall, callerVars, wireVars, dealerVars, semVars
<1>16. CASE EndWrite
  BY <1>16, CallerAssumption DEF EndWrite, LockInv, TypeOK, InCall, callerVars, wireVars, dealerVars, semVars
<1>17. CASE Post
  BY <1>17, CallerAssumption DEF Post, LockInv, TypeOK, InCall, callerVars, wireVars, dealerVars, semVars
<1>18. CASE ClearName
  BY <1>18, CallerAssumption DEF ClearName, LockInv, TypeOK, InCall, callerVars, wireVars, dealerVars, semVars
<1>19. CASE UNCHANGED vars
  BY <1>19, CallerAssumption DEF vars, LockInv, TypeOK, InCall, callerVars, wireVars, dealerVars, semVars
<1>20. QED
  BY <1>1, <1>2, <1>3, <1>4, <1>5, <1>6, <1>7, <1>8, <1>9, <1>10, <1>11, <1>12, <1>13, <1>14, <1>15, <1>16, <1>17, <1>18, <1>19 DEF Next, CallerStep, Dealer

(* With one mutex for the whole channel, one caller at a time is in a call. *)
LEMMA OneInCall ==
    ASSUME LockInv, SingleMutex, NEW b \in Caller, NEW c \in Caller,
           InCall(b), InCall(c)
    PROVE  b = c
BY DEF LockInv, SingleMutex

-----------------------------------------------------------------------------
(* Posts do not pile up.                                                   *)

LEMMA InitPost == Init => PostInv
BY NameAssumption DEF Init, PostInv, MayPost

LEMMA NextPost == TypeOK /\ LockInv /\ SingleMutex /\ PostInv /\ [Next]_vars => PostInv'
<1> SUFFICES ASSUME TypeOK, LockInv, SingleMutex, PostInv, [Next]_vars PROVE PostInv'
  OBVIOUS
<1>a. \A b, c \in Caller : InCall(b) /\ InCall(c) => b = c
  BY OneInCall
<1>1. ASSUME NEW d \in Device, AttachFixFunc(d) PROVE PostInv'
  BY <1>1, <1>a, NameAssumption DEF AttachFixFunc, PostInv, MayPost, TypeOK, InCall, callerVars, wireVars, dealerVars, semVars
<1>2. ASSUME NEW c \in Caller, NEW d \in Device, Lock(c, d) PROVE PostInv'
  BY <1>2, <1>a, NameAssumption DEF Lock, PostInv, MayPost, TypeOK, InCall, callerVars, wireVars, dealerVars, semVars
<1>3. ASSUME NEW c \in Caller, SendFails(c) PROVE PostInv'
  BY <1>3, <1>a, NameAssumption DEF SendFails, Return, PostInv, MayPost, TypeOK, InCall, callerVars, wireVars, dealerVars, semVars
<1>4. ASSUME NEW c \in Caller, Send(c) PROVE PostInv'
  BY <1>4, <1>a, NameAssumption DEF Send, PostInv, MayPost, TypeOK, InCall, callerVars, wireVars, dealerVars, semVars
<1>5. ASSUME NEW c \in Caller, Drain(c) PROVE PostInv'
  BY <1>5, <1>a, NameAssumption DEF Drain, PostInv, MayPost, TypeOK, InCall, callerVars, wireVars, dealerVars, semVars
<1>6. ASSUME NEW c \in Caller, SetName(c) PROVE PostInv'
  <2>1. /\ count' = count /\ pc' = [pc EXCEPT ![c] = "pend"] /\ dev' = dev
        /\ name' = dev[c] /\ dpc' = dpc /\ dName' = dName /\ dev[c] \in Device
    BY <1>6 DEF SetName, callerVars, dealerVars, semVars, TypeOK, InCall
  <2>2. \A b \in Caller : pc'[b] # "name"
    BY <1>6, <1>a, <2>1 DEF SetName, TypeOK, InCall
  <2>3. ASSUME NEW d \in Device
        PROVE  count'[d] <= (IF MayPost(d)' THEN 1 ELSE 2)
    <3>1. CASE d = dev[c]
      <4>1. count[d] <= 1 /\ count'[d] = count[d]
        BY <1>6, <2>1, <3>1 DEF SetName, PostInv, TypeOK
      <4>2. QED
        BY <4>1, <2>1 DEF TypeOK
    <3>2. CASE d # dev[c]
      <4>1. MayPost(d)' => MayPost(d)
        BY <2>1, <3>2 DEF MayPost
      <4>2. count[d] <= (IF MayPost(d) THEN 1 ELSE 2) /\ count[d] \in Nat
        BY DEF PostInv, TypeOK
      <4>3. QED
        BY <2>1, <4>1, <4>2
    <3>3. QED
      BY <3>1, <3>2
  <2>4. QED
    BY <2>2, <2>3 DEF PostInv
<1>7. ASSUME NEW c \in Caller, Pend(c) PROVE PostInv'
  BY <1>7, <1>a, NameAssumption DEF Pend, PostInv, MayPost, TypeOK, InCall, callerVars, wireVars, dealerVars, semVars
<1>8. ASSUME NEW c \in Caller, TimeOut(c) PROVE PostInv'
  BY <1>8, <1>a, NameAssumption DEF TimeOut, PostInv, MayPost, TypeOK, InCall, callerVars, wireVars, dealerVars, semVars
<1>9. ASSUME NEW c \in Caller, GiveUp(c) PROVE PostInv'
  BY <1>9, <1>a, NameAssumption DEF GiveUp, Return, PostInv, MayPost, TypeOK, InCall, callerVars, wireVars, dealerVars, semVars
<1>10. ASSUME NEW c \in Caller, Copy(c) PROVE PostInv'
  BY <1>10, <1>a, NameAssumption DEF Copy, Return, PostInv, MayPost, TypeOK, InCall, callerVars, wireVars, dealerVars, semVars
<1>11. ASSUME NEW r \in Request, NEW n \in 1..AnswerLen, HandleMessage(r, n) PROVE PostInv'
  BY <1>11, <1>a, NameAssumption DEF HandleMessage, PostInv, MayPost, TypeOK, InCall, callerVars, wireVars, dealerVars, semVars
<1>12. CASE ReadName
  BY <1>12, <1>a, NameAssumption DEF ReadName, PostInv, MayPost, TypeOK, InCall, callerVars, wireVars, dealerVars, semVars
<1>13. CASE TakeBytes
  <2>1. /\ count' = count /\ pc' = pc /\ dev' = dev
        /\ name' = name /\ dName' = dName
    BY <1>13 DEF TakeBytes, callerVars, semVars
  <2>2. dpc \in {"take", "fix"} /\ dpc' # "clear"
    BY <1>13 DEF TakeBytes
  <2>3. QED
    BY <2>1, <2>2 DEF PostInv, MayPost, TypeOK, InCall
<1>14. CASE DealMsg
  <2>1. /\ count' = count /\ pc' = pc /\ dev' = dev
        /\ name' = name /\ dName' = dName
    BY <1>14 DEF DealMsg, callerVars, semVars
  <2>2. dpc \in {"take", "fix"} /\ dpc' # "clear"
    BY <1>14 DEF DealMsg
  <2>3. QED
    BY <2>1, <2>2 DEF PostInv, MayPost, TypeOK, InCall
<1>15. CASE BeginWrite
  BY <1>15, <1>a, NameAssumption DEF BeginWrite, PostInv, MayPost, TypeOK, InCall, callerVars, wireVars, dealerVars, semVars
<1>16. CASE EndWrite
  BY <1>16, <1>a, NameAssumption DEF EndWrite, PostInv, MayPost, TypeOK, InCall, callerVars, wireVars, dealerVars, semVars
<1>17. CASE Post
  BY <1>17, <1>a, NameAssumption DEF Post, PostInv, MayPost, TypeOK, InCall, callerVars, wireVars, dealerVars, semVars
<1>18. CASE ClearName
  BY <1>18, <1>a, NameAssumption DEF ClearName, PostInv, MayPost, TypeOK, InCall, callerVars, wireVars, dealerVars, semVars
<1>19. CASE UNCHANGED vars
  BY <1>19, <1>a, NameAssumption DEF vars, PostInv, MayPost, TypeOK, InCall, callerVars, wireVars, dealerVars, semVars
<1>20. QED
  BY <1>1, <1>2, <1>3, <1>4, <1>5, <1>6, <1>7, <1>8, <1>9, <1>10, <1>11, <1>12, <1>13, <1>14, <1>15, <1>16, <1>17, <1>18, <1>19 DEF Next, CallerStep, Dealer

(* With one mutex for the channel, a semaphore never holds more than one     *)
(* post left over and one post for the present call, however many timeouts   *)
(* and late answers there are.                                             *)
THEOREM SemBoundedHolds == Spec => []SemBounded
<1>1. CASE SingleMutex
  <2>1. TypeOK /\ LockInv /\ PostInv /\ [Next]_vars => PostInv'
    BY <1>1, NextPost
  <2>2. TypeOK /\ PostInv => SemBounded
    BY DEF PostInv, SemBounded, TypeOK
  <2>3. QED
    BY <2>1, <2>2, InitPost, InitLock, NextLock, TypeCorrect, PTL DEF Spec
<1>2. CASE ~SingleMutex
  <2>1. SemBounded
    BY <1>2 DEF SemBounded
  <2>2. QED
    BY <2>1, PTL
<1>3. QED
  BY <1>1, <1>2

-----------------------------------------------------------------------------
(* The bytes buffered for the request in progress.                         *)

LEMMA ChunkZero ==
    ASSUME NEW r \in Request, NEW k \in 0..AnswerLen
    PROVE  Chunk(r, k, 0) = <<>>
<1>1. Chunk(r, k, 0) \in Seq(Byte) /\ Len(Chunk(r, k, 0)) = 0
  BY ChunkType, FrameAssumption
<1>2. QED
  BY <1>1, EmptySeq

LEMMA EndOfNothing ==
    ASSUME NEW r \in Request, NEW n \in 0..AnswerLen
    PROVE  EndOf(r, n, <<>>, <<>>)
<1>1. Len(<<>>) = 0
  BY EmptySeq
<1>2. QED
  BY <1>1, ChunkZero DEF EndOf

(* handleMessage keeps the buffers the end of what has arrived.             *)
LEMMA EndOfArrival ==
    ASSUME NEW r \in Request, NEW n \in 0..AnswerLen, NEW m \in 1..AnswerLen,
           n + m <= AnswerLen,
           NEW t \in Seq(Byte), NEW u \in Seq(Byte), EndOf(r, n, t, u)
    PROVE  EndOf(r, n + m, t, u \o Chunk(r, n, m))
<1> DEFINE k == Len(t)
           l == Len(u)
<1>1. k \in Nat /\ l \in Nat /\ k + l <= n
  BY LenProperties DEF EndOf
<1>2. Chunk(r, n - l, l) \o Chunk(r, (n - l) + l, m) = Chunk(r, n - l, l + m)
  <2>1. n - l \in Nat /\ m \in Nat /\ (n - l) + l + m <= AnswerLen
    BY <1>1, FrameAssumption
  <2>2. QED
    BY <1>1, <2>1, ChunkConcat
<1>3. u = Chunk(r, n - l, l) /\ (n - l) + l = n
  BY <1>1 DEF EndOf
<1>4. u \o Chunk(r, n, m) = Chunk(r, n - l, l + m)
  BY <1>2, <1>3
<1>5. Len(u \o Chunk(r, n, m)) = l + m
  BY <1>1, <1>4, ChunkType
<1>6. (n + m) - (l + m) = n - l
  BY <1>1
<1>7. t = Chunk(r, (n - l) - k, k)
  BY DEF EndOf
<1>8. k + (l + m) <= n + m
  BY <1>1
<1>9. QED
  BY <1>4, <1>5, <1>6, <1>7, <1>8 DEF EndOf

(* Moving m_recvBuf behind recvBufTmp keeps the bytes and their order.      *)
LEMMA EndOfTake ==
    ASSUME NEW r \in Request, NEW n \in 0..AnswerLen,
           NEW t \in Seq(Byte), NEW u \in Seq(Byte), EndOf(r, n, t, u)
    PROVE  EndOf(r, n, t \o u, <<>>)
<1> DEFINE k == Len(t)
           l == Len(u)
<1>1. k \in Nat /\ l \in Nat /\ k + l <= n /\ n <= AnswerLen
  BY LenProperties, FrameAssumption DEF EndOf
<1>2. Chunk(r, (n - l) - k, k) \o Chunk(r, ((n - l) - k) + k, l)
        = Chunk(r, (n - l) - k, k + l)
  BY <1>1, ChunkConcat, FrameAssumption
<1>3. /\ t = Chunk(r, (n - l) - k, k) /\ u = Chunk(r, n - l, l)
      /\ ((n - l) - k) + k = n - l
  BY <1>1 DEF EndOf
<1>4. t \o u = Chunk(r, (n - l) - k, k + l)
  BY <1>2, <1>3
<1>5. Len(t \o u) = k + l /\ Len(<<>>) = 0
  BY <1>1, ConcatProperties, EmptySeq
<1>6. (n - l) - k = (n - 0) - (k + l)
  BY <1>1
<1>7. <<>> = Chunk(r, n - 0, 0)
  BY <1>1, ChunkZero
<1>8. (k + l) + 0 <= n
  BY <1>1
<1>9. QED
  BY <1>4, <1>5, <1>6, <1>7, <1>8 DEF EndOf

(* Emptying recvBufTmp keeps what m_recvBuf holds.                         *)
LEMMA EndOfDrop ==
    ASSUME NEW r \in Request, NEW n \in 0..AnswerLen,
           NEW t \in Seq(Byte), NEW u \in Seq(Byte), EndOf(r, n, t, u)
    PROVE  EndOf(r, n, <<>>, u)
<1> DEFINE l == Len(u)
<1>1. Len(t) \in Nat /\ l \in Nat /\ Len(t) + l <= n /\ n <= AnswerLen
  BY LenProperties, FrameAssumption DEF EndOf
<1>2. Len(<<>>) = 0
  BY EmptySeq
<1>3. (n - l) - 0 \in 0..AnswerLen
  BY <1>1, FrameAssumption
<1>4. <<>> = Chunk(r, (n - l) - 0, 0)
  BY <1>3, ChunkZero
<1>5. 0 + l <= n
  BY <1>1
<1>6. QED
  BY <1>2, <1>4, <1>5 DEF EndOf

(* When recvBufTmp is as long as an answer, it is the answer, and nothing of *)
(* it is left in m_recvBuf or still to come.                               *)
LEMMA EndOfWhole ==
    ASSUME NEW r \in Request, NEW n \in 0..AnswerLen,
           NEW t \in Seq(Byte), NEW u \in Seq(Byte), EndOf(r, n, t, u),
           AnswerLen <= Len(t)
    PROVE  t = Answer(r) /\ u = <<>> /\ n = AnswerLen /\ Len(t) = AnswerLen
<1>1. /\ Len(t) \in Nat /\ Len(u) \in Nat /\ Len(t) + Len(u) <= n
      /\ n <= AnswerLen /\ AnswerLen \in Nat
  BY LenProperties, FrameAssumption DEF EndOf
<1>2. n = AnswerLen /\ Len(u) = 0 /\ Len(t) = AnswerLen
  BY <1>1
<1>3. u = <<>>
  BY <1>2, EmptySeq
<1>4. (n - Len(u)) - Len(t) = 0
  BY <1>1, <1>2
<1>5. t = Chunk(r, 0, AnswerLen)
  BY <1>2, <1>4 DEF EndOf
<1>6. QED
  BY <1>2, <1>3, <1>5, AnswerIsChunk

-----------------------------------------------------------------------------
(* The phases of an exchange.                                              *)

LEMMA InitPhases == Init => Phases
BY FrameAssumption DEF Init, Phases, Sent, Quiet, Resting, Empty, NoPost, Settled, Request

LEMMA OthersIdle ==
    ASSUME LockInv, SingleMutex, NEW c \in Caller, InCall(c)
    PROVE  \A b \in Caller : b # c => pc[b] = "idle"
BY OneInCall DEF InCall

(* A step after which only c can be in a call leads from phase to phase.     *)
LEMMA SolePhase ==
    ASSUME NEW c \in Caller, \A b \in Caller : b # c => ~Sent(b)',
           Sent(c)' => Phase(c)', ~Sent(c)' => Quiet'
    PROVE  Phases'
BY DEF Phases

(* What the phases speak of, apart from the caller.                         *)
wireAndDealer == <<wireVars, recvBuf, dpc, tmpBuf, valid, frame, count, expired>>

LEMMA PhasesSame ==
    ASSUME UNCHANGED wireAndDealer
    PROVE  /\ Quiet' <=> Quiet
           /\ Searching' <=> Searching
           /\ CutOut' <=> CutOut
           /\ Posted' <=> Posted
           /\ Settled(asked - 1)' <=> Settled(asked - 1)
BY DEF wireAndDealer, wireVars, Quiet, Resting, Empty, NoPost, Settled, Searching,
       Buffered, CutOut, Posted

(* The steps of the caller in the call.                                    *)
LEMMA CallerPhases ==
    ASSUME TypeOK, LockInv, SingleMutex, Undisturbed', Phases,
           NEW c \in Caller, CallerStep(c)
    PROVE  Phases'
<1>1. ASSUME NEW d \in Device, Lock(c, d) PROVE Phases'
  <2>1. \A b \in Caller : pc[b] = "idle"
    BY <1>1, CallerAssumption DEF Lock, LockInv, InCall, SingleMutex
  <2>2. Quiet
    BY <2>1 DEF Phases, Sent
  <2>3. Quiet'
    BY <1>1, <2>2, PhasesSame DEF Lock, wireAndDealer, dealerVars, semVars
  <2>4. \A b \in Caller : ~Sent(b)'
    BY <1>1, <2>1 DEF Lock, Sent, TypeOK
  <2>5. QED
    BY <2>3, <2>4 DEF Phases
<1>2. ASSUME InCall(c), ~Sent(c) PROVE Quiet
  <2>1. \A b \in Caller : ~Sent(b)
    BY <1>2, OthersIdle DEF Sent
  <2>2. QED
    BY <2>1 DEF Phases
<1>3. ASSUME InCall(c), \A b \in Caller : b # c => pc'[b] = pc[b]
      PROVE  \A b \in Caller : b # c => ~Sent(b)'
  BY <1>3, OthersIdle DEF Sent
<1>4. CASE SendFails(c)
  <2>1. pc[c] = "send" /\ pc' = [pc EXCEPT ![c] = "idle"]
    BY <1>4 DEF SendFails, Return
  <2>2. Quiet
    BY <1>2, <2>1 DEF InCall, Sent
  <2>3. Quiet'
    BY <1>4, <2>2, PhasesSame DEF SendFails, wireAndDealer, dealerVars, semVars
  <2>4. \A b \in Caller : b # c => ~Sent(b)'
    BY <1>3, <2>1 DEF InCall, TypeOK
  <2>5. ~Sent(c)'
    BY <2>1 DEF Sent, TypeOK
  <2>6. QED
    BY <2>3, <2>4, <2>5, SolePhase
<1>5. CASE Send(c)
  <2>1. pc[c] = "send" /\ pc' = [pc EXCEPT ![c] = "drain"]
    BY <1>5 DEF Send
  <2>2. Quiet
    BY <1>2, <2>1 DEF InCall, Sent
  <2>3. asked' \in Request /\ asked' = asked + 1 /\ asked \in Nat
    BY <1>5, FrameAssumption DEF Send, TypeOK, Request
  <2>4. req'[c] = asked'
    BY <1>5 DEF Send, TypeOK
  <2>5. asked' # 0 /\ Settled(asked)
    BY <2>2, <2>3 DEF Quiet
  <2>6. Settled(asked - 1)'
    BY <1>5, <2>3, <2>5 DEF Send, Settled
  <2>7. NoPost' /\ dpc' \in {"clear", "read", "take"}
    BY <1>5, <2>2 DEF Send, Quiet, Resting, NoPost, dealerVars, semVars
  <2>8. arrived'[asked'] \in 0..AnswerLen /\ tmpBuf' = <<>> /\ recvBuf' = <<>>
    BY <1>5, <2>2, <2>3 DEF Send, TypeOK, Quiet, Empty, dealerVars
  <2>9. Buffered(asked)'
    BY <2>3, <2>8, EndOfNothing DEF Buffered
  <2>10. pc'[c] = "drain"
    BY <2>1 DEF TypeOK
  <2>11. Phase(c)'
    BY <2>4, <2>5, <2>6, <2>7, <2>9, <2>10 DEF Phase, Searching
  <2>12. \A b \in Caller : b # c => ~Sent(b)'
    BY <1>3, <2>1 DEF InCall, TypeOK
  <2>13. QED
    BY <2>10, <2>11, <2>12, SolePhase DEF Sent
<1>6. CASE Drain(c)
  <2>1. pc[c] = "drain" /\ pc' = [pc EXCEPT ![c] = "name"] /\ pc'[c] = "name"
    BY <1>6 DEF Drain, TypeOK
  <2>2. Phase(c)
    BY <2>1 DEF Phases, Sent
  <2>3. \A d \in Device : count'[d] = count[d] \/ count'[d] = 0
    BY <1>6 DEF Drain, TypeOK
  <2>4. UNCHANGED <<wireVars, recvBuf, dpc, tmpBuf, valid, frame, expired>>
    BY <1>6 DEF Drain, dealerVars
  <2>5. NoPost => NoPost'
    BY <2>3 DEF NoPost
  <2>6. /\ Searching => Searching'
        /\ CutOut => CutOut'
        /\ Settled(asked - 1) => Settled(asked - 1)'
    BY <2>4, <2>5 DEF Searching, Buffered, CutOut, Empty, Settled, wireVars
  <2>7. Posted => Posted'
    <3>1. ASSUME Posted, NEW d \in Device
          PROVE  count'[d] <= 1 /\ (count'[d] = 1 => \A b \in Device \ {d} : count'[b] = 0)
      <4>1. count[d] <= 1 /\ (count[d] = 1 => \A b \in Device \ {d} : count[b] = 0)
        BY <3>1 DEF Posted
      <4>2. QED
        BY <2>3, <4>1
    <3>2. QED
      BY <2>4, <3>1 DEF Posted, Resting, Empty, wireVars
  <2>8. Searching' \/ CutOut' \/ Posted'
    BY <2>1, <2>2, <2>6, <2>7 DEF Phase
  <2>9. Phase(c)'
    BY <1>6, <2>1, <2>2, <2>4, <2>6, <2>8 DEF Drain, Phase, wireVars
  <2>10. \A b \in Caller : b # c => ~Sent(b)'
    BY <1>3, <2>1 DEF InCall, TypeOK
  <2>11. QED
    BY <2>1, <2>9, <2>10, SolePhase DEF Sent
<1>7. CASE SetName(c)
  <2>1. pc[c] = "name" /\ pc' = [pc EXCEPT ![c] = "pend"] /\ pc'[c] = "pend"
    BY <1>7 DEF SetName, TypeOK
  <2>2. Phase(c)
    BY <2>1 DEF Phases, Sent
  <2>3. UNCHANGED wireAndDealer
    BY <1>7 DEF SetName, wireAndDealer, dealerVars, semVars
  <2>4. Phase(c)'
    BY <1>7, <2>1, <2>2, <2>3, PhasesSame DEF SetName, Phase, wireVars
  <2>5. \A b \in Caller : b # c => ~Sent(b)'
    BY <1>3, <2>1 DEF InCall, TypeOK
  <2>6. QED
    BY <2>1, <2>4, <2>5, SolePhase DEF Sent
<1>8. CASE Pend(c)
  <2>1. pc[c] = "pend" /\ pc' = [pc EXCEPT ![c] = "copy"] /\ pc'[c] = "copy"
    BY <1>8 DEF Pend, TypeOK
  <2>2. Phase(c) /\ dev[c] \in Device /\ asked \in Nat
    BY <2>1 DEF Phases, Sent, TypeOK, InCall
  <2>3. ~NoPost
    BY <1>8, <2>2 DEF Pend, NoPost
  <2>4. Posted
    BY <2>1, <2>2, <2>3 DEF Phase, Searching, CutOut
  <2>5. NoPost'
    <3>1. count[dev[c]] = 1
      BY <1>8, <2>2, <2>4 DEF Pend, Posted, TypeOK
    <3>2. \A d \in Device \ {dev[c]} : count[d] = 0
      BY <2>2, <2>4, <3>1 DEF Posted
    <3>3. QED
      BY <1>8, <2>2, <3>1, <3>2 DEF Pend, NoPost, TypeOK
  <2>6. Settled(asked)
    <3>1. arrived[asked] = AnswerLen /\ Settled(asked - 1)
      BY <2>2, <2>4 DEF Posted, Phase
    <3>2. \A q \in Request : q <= asked => q <= asked - 1 \/ q = asked
      BY <2>2 DEF Request
    <3>3. QED
      BY <3>1, <3>2 DEF Settled
  <2>7. Quiet' /\ Settled(asked - 1)' /\ frame' = Answer(asked')
    BY <1>8, <2>2, <2>4, <2>5, <2>6
       DEF Pend, Phase, Posted, Quiet, Resting, Empty, Settled, wireVars, dealerVars
  <2>8. Phase(c)'
    BY <1>8, <2>1, <2>2, <2>7 DEF Pend, Phase, wireVars
  <2>9. \A b \in Caller : b # c => ~Sent(b)'
    BY <1>3, <2>1 DEF InCall, TypeOK
  <2>10. QED
    BY <2>1, <2>8, <2>9, SolePhase DEF Sent
<1>9. CASE TimeOut(c)
  <2>1. pc[c] = "pend" /\ pc' = [pc EXCEPT ![c] = "expired"] /\ pc'[c] = "expired"
    BY <1>9 DEF TimeOut, TypeOK
  <2>2. Phase(c) /\ asked \in Request
    <3>1. Phase(c)
      BY <2>1 DEF Phases, Sent
    <3>2. QED
      BY <3>1, FrameAssumption DEF Phase, TypeOK, Request
  <2>3. req[c] = asked /\ expired' = expired \cup {asked}
    BY <1>9, <2>2 DEF TimeOut, Phase
  <2>4. arrived[asked] = 0
    BY <1>9, <2>3 DEF Undisturbed, TimeOut, wireVars
  <2>5. Searching
    BY <2>1, <2>2, <2>4, FrameAssumption DEF Phase, CutOut, Posted
  <2>6. Empty
    <3>1. Len(tmpBuf) + Len(recvBuf) <= 0 /\ tmpBuf \in Seq(Byte) /\ recvBuf \in Seq(Byte)
      BY <2>4, <2>5 DEF Searching, Buffered, EndOf, TypeOK
    <3>2. Len(tmpBuf) \in Nat /\ Len(recvBuf) \in Nat
      BY <3>1, LenProperties
    <3>3. Len(tmpBuf) = 0 /\ Len(recvBuf) = 0
      BY <3>1, <3>2
    <3>4. QED
      BY <3>1, <3>3, EmptySeq DEF Empty
  <2>7. Resting
    BY <2>5, <2>6 DEF Searching, Resting, Empty, TypeOK
  <2>8. Settled(asked)'
    <3>1. Settled(asked - 1)
      BY <2>2 DEF Phase
    <3>2. \A q \in Request : q <= asked => q <= asked - 1 \/ q = asked
      BY <2>2 DEF Request
    <3>3. QED
      BY <1>9, <2>3, <3>1, <3>2 DEF Settled, TimeOut, wireVars
  <2>9. Quiet'
    BY <1>9, <2>5, <2>6, <2>7, <2>8
       DEF TimeOut, Searching, Quiet, Resting, Empty, NoPost, dealerVars, semVars
  <2>10. Settled(asked - 1)'
    BY <1>9, <2>2, <2>3 DEF Phase, Settled, TimeOut, wireVars
  <2>11. Phase(c)'
    BY <1>9, <2>1, <2>2, <2>9, <2>10 DEF TimeOut, Phase, wireVars
  <2>12. \A b \in Caller : b # c => ~Sent(b)'
    BY <1>3, <2>1 DEF InCall, TypeOK
  <2>13. QED
    BY <2>1, <2>11, <2>12, SolePhase DEF Sent
<1>10. CASE GiveUp(c) \/ Copy(c)
  <2>1. /\ pc[c] \in {"expired", "copy"}
        /\ pc' = [pc EXCEPT ![c] = "idle"] /\ pc'[c] = "idle"
    BY <1>10 DEF GiveUp, Copy, Return, TypeOK
  <2>2. Quiet
    BY <2>1 DEF Phases, Sent, Phase
  <2>3. UNCHANGED wireAndDealer
    BY <1>10 DEF GiveUp, Copy, wireAndDealer, dealerVars, semVars
  <2>4. Quiet'
    BY <2>2, <2>3, PhasesSame
  <2>5. \A b \in Caller : b # c => ~Sent(b)'
    BY <1>3, <2>1 DEF InCall, TypeOK
  <2>6. QED
    BY <2>1, <2>4, <2>5, SolePhase DEF Sent
<1>11. QED
  BY <1>1, <1>4, <1>5, <1>6, <1>7, <1>8, <1>9, <1>10 DEF CallerStep

(* The arrival of bytes: they are those of the request in progress.         *)
LEMMA ArrivalPhases ==
    ASSUME TypeOK, LockInv, SingleMutex, Undisturbed', Phases,
           NEW r \in Request, NEW n \in 1..AnswerLen, HandleMessage(r, n)
    PROVE  Phases'
<1>1. r \notin expired /\ arrived[r] # AnswerLen /\ r <= asked
  <2>1. arrived[r] \in Nat /\ arrived'[r] = arrived[r] + n /\ n >= 1
    BY FrameAssumption DEF HandleMessage, TypeOK
  <2>2. expired' = expired /\ arrived[r] + n <= AnswerLen /\ r <= asked
    BY DEF HandleMessage
  <2>3. QED
    BY <2>1, <2>2, FrameAssumption DEF Undisturbed
<1>2. ~Quiet
  BY <1>1 DEF Quiet, Settled
<1>3. PICK c \in Caller : Sent(c)
  BY <1>2 DEF Phases
<1>4. Phase(c)
  BY <1>3 DEF Phases
<1>5. asked \in Request /\ asked - 1 \in Nat
  BY <1>4, FrameAssumption DEF Phase, TypeOK, Request
<1>6. r = asked
  BY <1>1, <1>4, <1>5 DEF Phase, Settled, Request
<1>7. /\ arrived[r] \in 0..AnswerLen /\ arrived[r] + n <= AnswerLen
      /\ arrived' = [arrived EXCEPT ![r] = @ + n] /\ arrived'[r] = arrived[r] + n
      /\ recvBuf' = recvBuf \o Chunk(r, arrived[r], n)
      /\ tmpBuf' = tmpBuf /\ tmpBuf \in Seq(Byte) /\ recvBuf \in Seq(Byte)
      /\ asked' = asked /\ pc' = pc /\ req' = req /\ expired' = expired
      /\ dpc' = dpc /\ count' = count
  BY DEF HandleMessage, TypeOK, callerVars, dealerVars, semVars
<1>8. Settled(asked - 1)'
  <2>1. Settled(asked - 1)
    BY <1>4 DEF Phase
  <2>2. \A q \in Request : q <= asked - 1 => q # r /\ arrived'[q] = arrived[q]
    BY <1>5, <1>6, <1>7 DEF Request, TypeOK
  <2>3. QED
    BY <1>7, <2>1, <2>2 DEF Settled
<1>9. pc[c] \in {"drain", "name", "pend"} /\ Searching
  BY <1>1, <1>2, <1>4, <1>6 DEF Phase, CutOut, Posted
<1>10. EndOf(r, arrived[r] + n, tmpBuf, recvBuf \o Chunk(r, arrived[r], n))
  BY <1>6, <1>7, <1>9, EndOfArrival DEF Searching, Buffered
<1>11. Searching'
  BY <1>6, <1>7, <1>9, <1>10 DEF Searching, Buffered, NoPost
<1>12. Phase(c)'
  BY <1>4, <1>7, <1>8, <1>9, <1>11 DEF Phase
<1>13. \A b \in Caller : b # c => ~Sent(b)'
  BY <1>3, <1>7, OthersIdle DEF Sent, InCall
<1>14. QED
  BY <1>3, <1>7, <1>12, <1>13, SolePhase DEF Sent

(* The steps of the dealer.                                                *)
LEMMA DealerPhases ==
    ASSUME TypeOK, LockInv, SingleMutex, ExactFrames, Phases, Dealer
    PROVE  Phases'
<1>1. /\ pc' = pc /\ req' = req /\ expired' = expired
      /\ asked' = asked /\ arrived' = arrived
  BY DEF Dealer, ReadName, TakeBytes, DealMsg, BeginWrite, EndWrite, Post,
         ClearName, callerVars, wireVars
<1>2. \A k : Settled(k)' <=> Settled(k)
  BY <1>1 DEF Settled
<1>3. ASSUME Resting, Empty
      PROVE  Resting' /\ Empty' /\ count' = count /\ frame' = frame
  <2>1. ReadName \/ TakeBytes \/ ClearName
    BY <1>3 DEF Resting, Dealer, DealMsg, BeginWrite, EndWrite, Post
  <2>2. CASE ReadName
    BY <1>3, <2>2 DEF ReadName, Resting, Empty, semVars
  <2>3. CASE TakeBytes
    <3>1. <<>> \o <<>> = <<>>
      BY EmptySeq, ConcatEmptySeq
    <3>2. QED
      BY <1>3, <2>3, <3>1 DEF TakeBytes, Resting, Empty, semVars
  <2>4. CASE ClearName
    BY <1>3, <2>4 DEF ClearName, Resting, Empty, semVars
  <2>5. QED
    BY <2>1, <2>2, <2>3, <2>4
<1>4. ASSUME Quiet PROVE Quiet' /\ frame' = frame
  BY <1>1, <1>2, <1>3, <1>4 DEF Quiet, NoPost
<1>5. ASSUME NEW c \in Caller, Sent(c), Phase(c) PROVE Phase(c)'
  <2>1. /\ asked \in Request /\ arrived[asked] \in 0..AnswerLen
        /\ tmpBuf \in Seq(Byte) /\ recvBuf \in Seq(Byte)
    BY <1>5, FrameAssumption DEF Phase, TypeOK, Request
  <2>2. CASE pc[c] \in {"expired", "copy"}
    BY <1>1, <1>2, <1>4, <1>5, <2>2 DEF Phase
  <2>3. Posted => Posted'
    BY <1>1, <1>3 DEF Posted
  <2>4. ASSUME CutOut PROVE CutOut' \/ Posted'
    <3>1. CASE BeginWrite
      BY <1>1, <2>4, <3>1 DEF CutOut, BeginWrite, NoPost, Empty, semVars
    <3>2. CASE EndWrite
      BY <1>1, <2>4, <3>2 DEF CutOut, EndWrite, NoPost, Empty, semVars
    <3>3. CASE Post
      <4>1. dName \in Device
        BY <3>3 DEF Post, TypeOK
      <4>2. \A d \in Device : count'[d] = IF d = dName THEN 1 ELSE 0
        BY <2>4, <3>3, <4>1 DEF CutOut, Post, NoPost, TypeOK
      <4>3. Resting' /\ Empty' /\ frame' = Answer(asked)
        BY <2>4, <3>3 DEF CutOut, Post, Resting, Empty
      <4>4. QED
        BY <1>1, <2>4, <4>2, <4>3 DEF CutOut, Posted
    <3>4. QED
      BY <2>4, <3>1, <3>2, <3>3 DEF CutOut, Dealer, ReadName, TakeBytes, DealMsg, ClearName
  <2>5. ASSUME Searching PROVE Searching' \/ CutOut'
    <3>1. CASE ReadName
      BY <1>1, <2>5, <3>1 DEF Searching, ReadName, NoPost, Buffered, semVars
    <3>2. CASE TakeBytes
      <4>1. EndOf(asked, arrived[asked], tmpBuf \o recvBuf, <<>>)
        BY <2>1, <2>5, EndOfTake DEF Searching, Buffered
      <4>2. Buffered(asked)'
        BY <1>1, <3>2, <4>1 DEF TakeBytes, Buffered
      <4>3. QED
        BY <2>5, <3>2, <4>2 DEF Searching, TakeBytes, NoPost, semVars
    <3>3. CASE DealMsg /\ dpc' = "read"
      <4>1. tmpBuf' = tmpBuf \/ tmpBuf' = <<>>
        BY <3>3 DEF DealMsg
      <4>2. EndOf(asked, arrived[asked], <<>>, recvBuf)
        BY <2>1, <2>5, EndOfDrop DEF Searching, Buffered
      <4>3. Buffered(asked)'
        BY <1>1, <2>5, <3>3, <4>1, <4>2 DEF DealMsg, Searching, Buffered
      <4>4. QED
        BY <2>5, <3>3, <4>3 DEF Searching, DealMsg, NoPost, semVars
    <3>4. CASE DealMsg /\ dpc' # "read"
      <4> DEFINE fix == FixFrame(tmpBuf)
      <4>1. /\ fix.ret = "COMPLETE" /\ dpc = "fix" /\ dpc' = "write"
            /\ valid' = SubSeq(tmpBuf, 1, fix.len)
            /\ tmpBuf' = SubSeq(tmpBuf, fix.len + 1, Len(tmpBuf))
            /\ recvBuf' = recvBuf /\ count' = count
        BY <3>4 DEF DealMsg, semVars
      <4>2. tmpBuf # <<>>
        BY <4>1 DEF TypeOK
      <4>3. /\ AnswerLen <= Len(tmpBuf) /\ AnswerLen <= fix.len
            /\ fix.len \in 0..Len(tmpBuf)
        BY <2>1, <4>1, <4>2, FixFrameResult
      <4>4. /\ tmpBuf = Answer(asked) /\ recvBuf = <<>>
            /\ arrived[asked] = AnswerLen /\ Len(tmpBuf) = AnswerLen
        BY <2>1, <2>5, <4>3, EndOfWhole DEF Searching, Buffered
      <4>5. fix.len = Len(tmpBuf) /\ Len(tmpBuf) \in Nat
        BY <4>3, <4>4, FrameAssumption
      <4>6. valid' = Answer(asked)
        BY <2>1, <4>1, <4>4, <4>5, SubSeqFull
      <4>7. tmpBuf' = <<>>
        BY <4>1, <4>5, SubSeqEmpty
      <4>8. QED
        BY <1>1, <2>5, <4>1, <4>4, <4>6, <4>7 DEF Searching, CutOut, NoPost, Empty
    <3>5. CASE ClearName
      BY <1>1, <2>5, <3>5 DEF Searching, ClearName, NoPost, Buffered, semVars
    <3>6. QED
      BY <2>5, <3>1, <3>2, <3>3, <3>4, <3>5
         DEF Searching, Dealer, BeginWrite, EndWrite, Post
  <2>6. QED
    BY <1>1, <1>2, <1>5, <2>2, <2>3, <2>4, <2>5 DEF Phase
<1>6. CASE \A c \in Caller : ~Sent(c)
  <2>1. Quiet'
    BY <1>4, <1>6 DEF Phases
  <2>2. QED
    BY <1>1, <1>6, <2>1 DEF Phases, Sent
<1>7. CASE \E c \in Caller : Sent(c)
  <2>1. PICK c \in Caller : Sent(c)
    BY <1>7
  <2>2. Phase(c)'
    BY <1>5, <2>1 DEF Phases
  <2>3. InCall(c)
    BY <2>1 DEF InCall, Sent
  <2>4. \A b \in Caller : b # c => ~Sent(b)'
    BY <1>1, <2>3, OthersIdle DEF Sent
  <2>5. QED
    BY <1>1, <2>1, <2>2, <2>4, SolePhase DEF Sent
<1>8. QED
  BY <1>6, <1>7

(* A request that is answered after its timeout stays answered.             *)
LEMMA UndisturbedBefore == TypeOK /\ [Next]_vars /\ Undisturbed' => Undisturbed
<1> SUFFICES ASSUME TypeOK, [Next]_vars, Undisturbed' PROVE Undisturbed
  OBVIOUS
<1>1. expired \subseteq expired'
  BY DEF Next, CallerStep, Dealer, AttachFixFunc, Lock, SendFails, Send, Drain,
         SetName, Pend, TimeOut, GiveUp, Copy, HandleMessage, ReadName,
         TakeBytes, DealMsg, BeginWrite, EndWrite, Post, ClearName, vars
<1>2. ASSUME NEW r \in Request, arrived'[r] = 0 PROVE arrived[r] = 0
  <2>1. CASE arrived' = arrived
    BY <1>2, <2>1
  <2>2. ASSUME NEW q \in Request, NEW n \in 1..AnswerLen, HandleMessage(q, n)
        PROVE  arrived[r] = 0
    BY <1>2, <2>2, FrameAssumption DEF HandleMessage, TypeOK
  <2>3. QED
    BY <2>1, <2>2 DEF Next, CallerStep, Dealer, AttachFixFunc, Lock, SendFails, Send,
         Drain, SetName, Pend, TimeOut, GiveUp, Copy, ReadName, TakeBytes, DealMsg,
         BeginWrite, EndWrite, Post, ClearName, vars, wireVars
<1>3. QED
  BY <1>1, <1>2 DEF Undisturbed, TypeOK

LEMMA NextPhases ==
    TypeOK /\ LockInv /\ SingleMutex /\ ExactFrames /\ ExchangeInv /\ [Next]_vars
        => ExchangeInv'
<1> SUFFICES ASSUME TypeOK, LockInv, SingleMutex, ExactFrames, ExchangeInv,
                    [Next]_vars, Undisturbed'
             PROVE  Phases'
  BY DEF ExchangeInv
<1>1. Phases
  BY UndisturbedBefore DEF ExchangeInv
<1>2. ASSUME NEW c \in Caller, CallerStep(c) PROVE Phases'
  BY <1>1, <1>2, CallerPhases
<1>3. ASSUME NEW r \in Request, NEW n \in 1..AnswerLen, HandleMessage(r, n)
      PROVE  Phases'
  BY <1>1, <1>3, ArrivalPhases
<1>4. CASE Dealer
  BY <1>1, <1>4, DealerPhases
<1>5. CASE (\E d \in Device : AttachFixFunc(d)) \/ UNCHANGED vars
  <2>1. UNCHANGED wireAndDealer /\ UNCHANGED callerVars
    BY <1>5 DEF AttachFixFunc, vars, wireAndDealer, dealerVars, semVars
  <2>2. QED
    BY <1>1, <2>1, PhasesSame DEF Phases, Phase, Sent, callerVars, wireAndDealer, wireVars
<1>6. QED
  BY <1>2, <1>3, <1>4, <1>5 DEF Next

(* As long as no request that timed out is answered after all, every frame    *)
(* that sendSyncRecv hands back is the whole answer to that very request: a   *)
(* silent device harms nobody else, for every number of callers that share a *)
(* mutex, devices and requests.                                            *)
THEOREM OwnAnswerHolds == Spec => []OwnAnswer
<1>1. CASE SingleMutex /\ ExactFrames
  <2>1. TypeOK /\ LockInv /\ ExchangeInv /\ [Next]_vars => ExchangeInv'
    BY <1>1, NextPhases
  <2>2. Init => ExchangeInv
    BY InitPhases DEF ExchangeInv
  <2>3. ExchangeInv => OwnAnswer
    BY DEF ExchangeInv, OwnAnswer, Phases, Phase, Sent
  <2>4. QED
    BY <2>1, <2>2, <2>3, InitLock, NextLock, TypeCorrect, PTL DEF Spec
<1>2. CASE ~(SingleMutex /\ ExactFrames)
  <2>1. OwnAnswer
    BY <1>2 DEF OwnAnswer
  <2>2. QED
    BY <2>1, PTL
<1>3. QED
  BY <1>1, <1>2

-----------------------------------------------------------------------------
(* SyncRequest implements Exchange.                                        *)

(* The value the mapping gives result when c is in a call.                  *)
ResultOf(c) == IF pc[c] = "copy" THEN IF frame = Answer(req[c]) THEN "own" ELSE "other"
                                 ELSE "none"

LEMMA MapInCall ==
    ASSUME LockInv, SingleMutex, NEW c \in Caller, InCall(c)
    PROVE  user = c /\ result = ResultOf(c)
<1>1. \A b \in Caller : InCall(b) => b = c
  BY OneInCall
<1>2. user = c
  BY <1>1 DEF user
<1>3. \A b \in Caller : pc[b] = "copy" => b = c
  BY <1>1 DEF InCall
<1>4. result = ResultOf(c)
  BY <1>3 DEF result, ResultOf
<1>5. QED
  BY <1>2, <1>4

LEMMA MapInCallNext ==
    ASSUME LockInv', SingleMutex, NEW c \in Caller, InCall(c)'
    PROVE  user' = c /\ result' = ResultOf(c)'
<1>1. \A b \in Caller : InCall(b)' => b = c
  BY DEF LockInv, SingleMutex
<1>2. user' = c
  BY <1>1 DEF user
<1>3. \A b \in Caller : pc'[b] = "copy" => b = c
  BY <1>1 DEF InCall
<1>4. result' = ResultOf(c)'
  BY <1>3 DEF result, ResultOf
<1>5. QED
  BY <1>2, <1>4

LEMMA MapNoCall == (\A c \in Caller : ~InCall(c)) => user = NoCaller /\ result = "none"
BY DEF user, result, InCall

LEMMA MapNoCallNext ==
    (\A c \in Caller : ~InCall(c)') => user' = NoCaller /\ result' = "none"
BY DEF user, result, InCall

(* The steps of a caller, each with the step of Exchange it takes.          *)
LEMMA CallerRefines ==
    ASSUME TypeOK, LockInv, LockInv', OwnAnswer', SingleMutex, ExactFrames,
           Undisturbed' => Undisturbed, NEW c \in Caller, CallerStep(c)
    PROVE  E!ENext \/ UNCHANGED E!evars
<1> DEFINE SameHistory == expired' = expired /\ Undisturbed' = Undisturbed
<1>a. ASSUME UNCHANGED <<arrived, expired>> PROVE SameHistory
  BY <1>a DEF Undisturbed
<1> HIDE DEF SameHistory
<1>1. ASSUME NEW d \in Device, Lock(c, d) PROVE E!Begin(c)
  <2>1. \A b \in Caller : ~InCall(b)
    BY <1>1, CallerAssumption DEF Lock, LockInv, InCall, SingleMutex
  <2>2. pc'[c] = "send"
    BY <1>1 DEF Lock, TypeOK
  <2>3. user' = c /\ result' = "none"
    BY <2>2, MapInCallNext DEF InCall, ResultOf
  <2>4. user = NoCaller /\ result = "none"
    BY <2>1, MapNoCall
  <2>5. SameHistory
    BY <1>a, <1>1 DEF Lock, wireVars
  <2>6. QED
    BY <2>3, <2>4, <2>5 DEF E!Begin, SameHistory
<1>2. ASSUME InCall(c), Return(c), SameHistory PROVE E!End(c)
  <2>1. \A b \in Caller : ~InCall(b)'
    BY <1>2, OthersIdle DEF Return, InCall, TypeOK
  <2>2. user = c /\ user' = NoCaller /\ result' = "none"
    BY <1>2, <2>1, MapInCall, MapNoCallNext
  <2>3. QED
    BY <1>2, <2>2 DEF E!End, SameHistory
<1>3. CASE SendFails(c) \/ GiveUp(c) \/ Copy(c)
  <2>1. SameHistory /\ InCall(c) /\ Return(c)
    BY <1>a, <1>3 DEF SendFails, GiveUp, Copy, wireVars, InCall
  <2>2. QED
    BY <1>2, <2>1 DEF E!ENext
<1>4. CASE Send(c) \/ Drain(c) \/ SetName(c)
  <2>1. /\ InCall(c) /\ pc[c] # "copy" /\ InCall(c)' /\ pc'[c] # "copy"
        /\ SameHistory
    BY <1>a, <1>4 DEF Send, Drain, SetName, InCall, TypeOK, wireVars
  <2>2. user' = user /\ result' = result
    BY <2>1, MapInCall, MapInCallNext DEF ResultOf
  <2>3. QED
    BY <2>1, <2>2 DEF E!evars, SameHistory
<1>5. CASE Pend(c)
  <2>1. /\ InCall(c) /\ pc[c] # "copy" /\ InCall(c)' /\ pc'[c] = "copy"
        /\ SameHistory
    BY <1>a, <1>5 DEF Pend, InCall, TypeOK, wireVars
  <2>2. user = c /\ result = "none" /\ user' = c /\ result' = ResultOf(c)'
    BY <2>1, MapInCall, MapInCallNext DEF ResultOf
  <2>3. Undisturbed' => frame' = Answer(req'[c])
    BY <2>1 DEF OwnAnswer, SingleMutex, ExactFrames
  <2>4. result' \in {"own", "other"} /\ (Undisturbed => result' = "own")
    BY <2>1, <2>2, <2>3 DEF ResultOf, SameHistory
  <2>5. E!Receive(c)
    BY <2>1, <2>2, <2>4 DEF E!Receive, SameHistory
  <2>6. QED
    BY <2>5 DEF E!ENext
<1>6. CASE TimeOut(c)
  <2>1. /\ InCall(c) /\ pc[c] # "copy" /\ InCall(c)' /\ pc'[c] # "copy"
        /\ expired' # {}
    BY <1>6 DEF TimeOut, InCall, TypeOK
  <2>2. user = c /\ result = "none" /\ user' = user /\ result' = result
    BY <2>1, MapInCall, MapInCallNext DEF ResultOf
  <2>3. Undisturbed' \in BOOLEAN
    BY DEF Undisturbed
  <2>4. E!Expire(c)
    BY <2>1, <2>2, <2>3 DEF E!Expire
  <2>5. QED
    BY <2>4 DEF E!ENext
<1>7. QED
  BY <1>1, <1>3, <1>4, <1>5, <1>6 DEF CallerStep, E!ENext

(* An arrival shows in Exchange only when it is the first of the answer to a  *)
(* request that has timed out.                                             *)
LEMMA ArrivalRefines ==
    ASSUME TypeOK, Undisturbed' => Undisturbed,
           NEW r \in Request, NEW n \in 1..AnswerLen, HandleMessage(r, n)
    PROVE  E!ENext \/ UNCHANGED E!evars
<1>1. user' = user /\ result' = result /\ expired' = expired
  BY DEF HandleMessage, callerVars, user, result, InCall
<1>2. CASE Undisturbed' = Undisturbed
  BY <1>1, <1>2 DEF E!evars
<1>3. CASE Undisturbed' # Undisturbed
  <2>1. Undisturbed /\ ~Undisturbed'
    BY <1>3 DEF Undisturbed
  <2>2. expired # {}
    BY <1>1, <2>1 DEF Undisturbed
  <2>3. E!AnswerLate
    BY <1>1, <2>1, <2>2 DEF E!AnswerLate, Undisturbed
  <2>4. QED
    BY <2>3 DEF E!ENext
<1>4. QED
  BY <1>2, <1>3

(* The dealer shows in Exchange only by overwriting a frame after such an     *)
(* answer.                                                                 *)
LEMMA DealerRefines ==
    ASSUME TypeOK, LockInv, LockInv', ExchangeInv, SingleMutex, ExactFrames,
           BeginWrite \/ EndWrite
    PROVE  E!ENext \/ UNCHANGED E!evars
<1>1. /\ pc' = pc /\ req' = req /\ expired' = expired /\ Undisturbed' = Undisturbed
      /\ dpc \in {"write", "writing"}
  BY DEF BeginWrite, EndWrite, callerVars, wireVars, Undisturbed
<1>2. CASE \A c \in Caller : pc[c] # "copy"
  BY <1>1, <1>2 DEF user, result, InCall, E!evars
<1>3. CASE \E c \in Caller : pc[c] = "copy"
  <2>1. PICK c \in Caller : pc[c] = "copy"
    BY <1>3
  <2>2. ~Undisturbed
    BY <1>1, <2>1 DEF ExchangeInv, Phases, Phase, Sent, Quiet, Resting
  <2>3. InCall(c) /\ InCall(c)'
    BY <1>1, <2>1 DEF InCall
  <2>4. /\ user = c /\ user' = c
        /\ result = ResultOf(c) /\ result' = ResultOf(c)'
    BY <2>3, MapInCall, MapInCallNext
  <2>5. result # "none" /\ result' \in {"own", "other"}
    BY <1>1, <2>1, <2>4 DEF ResultOf
  <2>6. E!Overwrite(c)
    BY <1>1, <2>2, <2>4, <2>5 DEF E!Overwrite
  <2>7. QED
    BY <2>6 DEF E!ENext
<1>4. QED
  BY <1>2, <1>3

(* On a channel whose callers share one mutex, and with exact frames,        *)
(* sendSyncRecv implements Exchange: the calls never overlap, and each is    *)
(* handed its own answer until one that has timed out is answered after all. *)
THEOREM Refinement ==
    ASSUME SingleMutex, ExactFrames
    PROVE  Spec => IsExchange
<1>1. Init => E!EInit
  BY DEF Init, E!EInit, user, result, InCall, Undisturbed
<1>2. TypeOK /\ LockInv /\ LockInv' /\ ExchangeInv /\ OwnAnswer' /\ [Next]_vars
        => [E!ENext]_E!evars
  <2> SUFFICES ASSUME TypeOK, LockInv, LockInv', ExchangeInv, OwnAnswer', [Next]_vars
               PROVE  E!ENext \/ UNCHANGED E!evars
    OBVIOUS
  <2>1. Undisturbed' => Undisturbed
    BY UndisturbedBefore
  <2>2. ASSUME NEW c \in Caller, CallerStep(c) PROVE E!ENext \/ UNCHANGED E!evars
    BY <2>1, <2>2, CallerRefines
  <2>3. ASSUME NEW r \in Request, NEW n \in 1..AnswerLen, HandleMessage(r, n)
        PROVE  E!ENext \/ UNCHANGED E!evars
    BY <2>1, <2>3, ArrivalRefines
  <2>4. CASE BeginWrite \/ EndWrite
    BY <2>4, DealerRefines
  <2>5. ASSUME UNCHANGED <<callerVars, arrived, frame, expired>>
        PROVE  UNCHANGED E!evars
    BY <2>5 DEF user, result, InCall, callerVars, Undisturbed, E!evars
  <2>6. CASE ReadName \/ TakeBytes \/ DealMsg \/ Post \/ ClearName
    BY <2>5, <2>6 DEF ReadName, TakeBytes, DealMsg, Post, ClearName, wireVars
  <2>7. CASE (\E d \in Device : AttachFixFunc(d)) \/ UNCHANGED vars
    BY <2>5, <2>7 DEF AttachFixFunc, vars, wireVars
  <2>8. QED
    BY <2>2, <2>3, <2>4, <2>6, <2>7 DEF Next, Dealer
<1>3. TypeOK /\ LockInv /\ ExchangeInv /\ [Next]_vars => ExchangeInv'
  BY NextPhases
<1>4. Init => ExchangeInv
  BY InitPhases DEF ExchangeInv
<1>5. ExchangeInv => OwnAnswer
  BY DEF ExchangeInv, OwnAnswer, Phases, Phase, Sent
<1>6. QED
  BY <1>1, <1>2, <1>3, <1>4, <1>5, InitLock, NextLock, TypeCorrect, PTL
     DEF Spec, IsExchange, E!ESpec

=============================================================================
