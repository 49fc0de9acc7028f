------------------------------- MODULE Slave104 -------------------------------
(***************************************************************************)
(* The IEC 60870-5-104 slave, CTransIEC104 (Plug/IEC104/TransIEC104): the    *)
(* bytes that arrive on its connections, the frames it cuts out of them, and *)
(* what it answers, with the numbers that frames carry in both directions.   *)
(*                                                                         *)
(* CTcpServer serves all connections in one thread with select: a handler    *)
(* runs to its end before the next one begins.  One object, with one pair of *)
(* numbers, serves all connections, one after the other or at a time.        *)
(***************************************************************************)
EXTENDS Integers, Sequences, FiniteSets

CONSTANTS
    Fd,         \* descriptors: that of a closed connection is used again
    ByteValues, \* 256
    SQ_MAX_NUM, \* points in a frame: 127
    StartValue, \* the length that the start byte, 0x68, stands for
    YxNum, YcNum,   \* how many points of each type may be configured
    CharSigned, \* whether char is signed: on x86, not on aarch64
    Kinds,      \* the kinds of frames the stations send
    MaxFrame,   \* bound: how many they send
    MaxConn     \* bound: how often they connect

(* A frame has a start byte, a length byte and a body; "LONG" is one whose    *)
(* length does not fit in a signed char.                                    *)
UAct   == {"STARTDT", "TESTFR", "STOPDT"}
IKinds == {"GI", "CS", "SC", "LONG"}
FrameLen(kind) == IF kind = "LONG" THEN 4 ELSE 3

ASSUME SlaveAssumption ==
    /\ ByteValues \in Nat \ {0, 1} /\ ByteValues % 2 = 0
    /\ SQ_MAX_NUM \in Nat \ {0} /\ StartValue \in Nat \ {0, 1, 2}
    /\ YxNum \subseteq Nat /\ YcNum \subseteq Nat
    /\ CharSigned \in BOOLEAN
    /\ Kinds \subseteq UAct \cup {"TESTFR_CON", "S"} \cup IKinds
    /\ MaxFrame \in Nat /\ MaxConn \in Nat

VARIABLES
    conn,       \* the connection on each descriptor, 0 for none
    conns,      \* how many there have been
    sent,       \* the kinds of the frames sent on each connection
    wire,       \* bytes sent and not yet handed over
    recvBuf,    \* m_mapRecvBuf
    m_fd,       \* m_fd
    busy,       \* whether handleMessage is in its loop
    sendIdx,    \* m_sendIdx
    recvIdx,    \* m_recvIdx
    yxNum, ycNum,   \* the sizes of the transmit tables
    out,        \* the frames sent on each connection
    analysed,   \* history: what was taken for a frame on each connection
    cut         \* history: a connection ended with a part of a frame received

linkVars == <<conn, conns, sent, wire>>
idxVars  == <<sendIdx, recvIdx>>
vars == <<linkVars, recvBuf, m_fd, busy, idxVars, yxNum, ycNum, out, analysed, cut>>

(* A frame is known by its connection and its number there, a byte by its     *)
(* frame and its place.                                                    *)
Frames == UNION {{c} \X DOMAIN sent[c] : c \in DOMAIN sent}
Kind(f) == sent[f[1]][f[2]]
Byte(f, i) == [frame |-> f, pos |-> i]
BytesOfKind(f, kind) == [i \in 1..FrameLen(kind) |-> Byte(f, i)]
BytesOf(f) == BytesOfKind(f, Kind(f))

Init ==
    /\ conn = [fd \in Fd |-> 0] /\ conns = 0
    /\ sent = <<>>
    /\ wire = [fd \in Fd |-> <<>>] /\ recvBuf = [fd \in Fd |-> <<>>]
    /\ m_fd \in Fd /\ busy = FALSE
    /\ sendIdx = 0 /\ recvIdx = 0
    /\ yxNum \in YxNum /\ ycNum \in YcNum
    /\ out = <<>> /\ analysed = <<>> /\ cut = FALSE
-----------------------------------------------------------------------------
(* The stations, and the server.  Its thread accepts and closes when no       *)
(* handler runs; what is sent while one runs is read after it.               *)

Connect(fd) ==
    /\ conn[fd] = 0 /\ conns < MaxConn /\ ~busy
    /\ conns' = conns + 1
    /\ conn' = [conn EXCEPT ![fd] = conns']
    /\ sent' = Append(sent, <<>>)
    /\ out' = Append(out, <<>>) /\ analysed' = Append(analysed, <<>>)
    /\ UNCHANGED <<wire, recvBuf, m_fd, busy, idxVars, yxNum, ycNum, cut>>

Send(fd, kind) ==
    /\ conn[fd] # 0 /\ Cardinality(Frames) < MaxFrame /\ ~busy
    /\ LET c == conn[fd] IN
       /\ sent' = [sent EXCEPT ![c] = Append(@, kind)]
       /\ wire' = [wire EXCEPT ![fd] = @ \o BytesOfKind(<<c, Len(sent[c]) + 1>>, kind)]
    /\ UNCHANGED <<conn, conns, recvBuf, m_fd, busy, idxVars, yxNum, ycNum, out, analysed, cut>>

(* newConnectedFunc forgets the descriptor and keeps its bytes.              *)
Disconnect(fd) ==
    /\ conn[fd] # 0 /\ ~busy
    /\ conn' = [conn EXCEPT ![fd] = 0]
    /\ wire' = [wire EXCEPT ![fd] = <<>>]
    /\ cut' = (cut \/ recvBuf[fd] # <<>>)
    /\ UNCHANGED <<conns, sent, recvBuf, m_fd, busy, idxVars, yxNum, ycNum, out, analysed>>

(* handleMessage: any number of bytes arrive.                               *)
HandleMessage(fd) ==
    /\ ~busy /\ conn[fd] # 0
    /\ \E n \in 1..Len(wire[fd]) :
          /\ recvBuf' = [recvBuf EXCEPT ![fd] = @ \o SubSeq(wire[fd], 1, n)]
          /\ wire' = [wire EXCEPT ![fd] = SubSeq(@, n + 1, Len(@))]
    /\ m_fd' = fd
    /\ busy' = TRUE
    /\ UNCHANGED <<conn, conns, sent, idxVars, yxNum, ycNum, out, analysed, cut>>
-----------------------------------------------------------------------------
(* fixFrame.                                                               *)

(* What the second byte of a buffer says, as an int.  A station sends at most *)
(* 253; of 254 and 255 a signed char would make 0 and 1.                     *)
Length(buf) ==
    LET kind == Kind(buf[2].frame) IN
    IF buf[2].pos = 1 THEN StartValue
    ELSE IF kind = "LONG" /\ CharSigned THEN -1 ELSE FrameLen(kind)

fixFrame(buf) ==
    IF buf[1].pos # 1 THEN "INVALID"
    ELSE IF Len(buf) < 2 \/ Length(buf) > Len(buf) THEN "INCOMPLETE"
    ELSE "COMPLETE"

(* substr and erase take a negative length for all there is.                *)
ValidLen(buf) == IF Length(buf) < 0 THEN Len(buf) ELSE Length(buf)
-----------------------------------------------------------------------------
(* The numbers.  A number takes 15 bits, of which a byte holds the lower 7.   *)

Half == ByteValues \div 2

(* The two bytes that are sent for idx, and the number the station reads.    *)
Low(idx)  == (idx * 2) % ByteValues
High(idx) == (idx \div ByteValues) % ByteValues
Number(idx) == Low(idx) \div 2 + High(idx) * Half

(* Mutation: it is not increased.                                           *)
SendIdxAfterSame(n) == sendIdx

(* increaseSendIdx, called n times: from 32767 on to 0.                      *)
SendIdxAfter(n) == (sendIdx + n) % (Half * ByteValues)

(* m_recvIdx++ on a uint16_t.                                              *)
NextRecvIdx(idx) == (idx + 1) % (ByteValues * ByteValues)
-----------------------------------------------------------------------------
(* The answers.                                                            *)

(* Mutation: the counter is decreased before it is tested.                  *)
GoesOnEarly(num, r) == (num \div SQ_MAX_NUM) - r > 0 /\ num - r * SQ_MAX_NUM > 0

(* The condition of the loops of sendGIYx and sendGIYc after r rounds.       *)
GoesOn(num, r) == (num \div SQ_MAX_NUM) - (r - 1) > 0 /\ num - r * SQ_MAX_NUM > 0

Rounds(num) == CHOOSE r \in 1..(num + 1) :
                  ~GoesOn(num, r) /\ \A q \in 1..(r - 1) : GoesOn(num, q)

(* Round r announces the next points, from an information address on: of a    *)
(* frame with points this is all that is modelled.                          *)
Points(type, num) ==
    IF num = 0 THEN <<>>
    ELSE [r \in 1..Rounds(num) |->
             LET left == num - (r - 1) * SQ_MAX_NUM IN
             [type |-> type, first |-> (r - 1) * SQ_MAX_NUM,
              num |-> IF left < SQ_MAX_NUM THEN left ELSE SQ_MAX_NUM]]

(* process_C_IC_NA_1: confirmation, the two types of points, termination.    *)
Interrogation ==
    <<[type |-> "con"]>> \o Points("yx", yxNum) \o Points("yc", ycNum) \o <<[type |-> "fin"]>>

(* The I frames sent for a kind of frame, and with which N(S): those that go  *)
(* by way of sendFrame increase it.  A clock is confirmed without that, and   *)
(* a single command is not answered at all.                                *)
IFrames(kind) ==
    CASE kind = "GI" -> Interrogation
      [] kind = "CS" -> <<[type |-> "clock"]>>
      [] OTHER -> <<>>

Numbered(fs, nr) ==
    [i \in DOMAIN fs |-> [content |-> fs[i], ns |-> Number(SendIdxAfter(i - 1)), nr |-> nr]]

Ack(nr) == <<[content |-> [type |-> "S"], nr |-> nr]>>

(* All that is sent when a frame has been analysed.                         *)
Reply(kind, nr) ==
    CASE kind \in UAct   -> <<[content |-> [type |-> kind]]>>
      [] kind \in IKinds -> Numbered(IFrames(kind), nr) \o Ack(nr)
      [] OTHER           -> <<>>

(* Mutation: the answer goes to whoever connected last.                     *)
AnswerLatest(kind) ==
    /\ recvIdx' = IF kind \in IKinds THEN NextRecvIdx(recvIdx) ELSE recvIdx
    /\ sendIdx' = IF kind = "GI" THEN SendIdxAfter(Len(Interrogation)) ELSE sendIdx
    /\ out' = [out EXCEPT ![conns] = @ \o Reply(kind, Number(recvIdx'))]

(* analyseFrame.                                                           *)
Answer(kind) ==
    /\ recvIdx' = IF kind \in IKinds THEN NextRecvIdx(recvIdx) ELSE recvIdx
    /\ sendIdx' = IF kind = "GI" THEN SendIdxAfter(Len(Interrogation)) ELSE sendIdx
    /\ out' = [out EXCEPT ![conn[m_fd]] = @ \o Reply(kind, Number(recvIdx'))]

(* What the control field of a frame says; beyond its end, or inside a frame *)
(* that is not one, it may say anything.                                   *)
KindsOf(fr) ==
    IF Len(fr) > 2 /\ fr[3].pos = 3 THEN {Kind(fr[3].frame)} ELSE Kinds

(* Mutation: the buffer is emptied, not only of the frame.                  *)
RestNone(buf) == <<>>

Rest(buf) == SubSeq(buf, ValidLen(buf) + 1, Len(buf))

(* Mutation: handleMessage takes one frame only.                            *)
GoesRoundOnce(buf) == FALSE

(* Mutation: it ends only at a frame that has not arrived.                   *)
GoesRoundAlways(buf) == TRUE

(* The condition of its loop.                                              *)
GoesRound(buf) == Rest(buf) # <<>>

AnalyseFrame ==
    /\ busy
    /\ LET buf == recvBuf[m_fd] IN
       /\ fixFrame(buf) = "COMPLETE"
       /\ LET fr == SubSeq(buf, 1, ValidLen(buf)) IN
          /\ analysed' = [analysed EXCEPT ![conn[m_fd]] = Append(@, fr)]
          /\ \E kind \in KindsOf(fr) : Answer(kind)
       /\ recvBuf' = [recvBuf EXCEPT ![m_fd] = Rest(buf)]
       /\ busy' = GoesRound(buf)
    /\ UNCHANGED <<linkVars, m_fd, yxNum, ycNum, cut>>

(* A frame that has not arrived is waited for; a wrong start empties the     *)
(* buffer.                                                                 *)
EndMessage ==
    /\ busy
    /\ LET buf == recvBuf[m_fd] IN
       /\ fixFrame(buf) # "COMPLETE"
       /\ recvBuf' = IF fixFrame(buf) = "INVALID"
                     THEN [recvBuf EXCEPT ![m_fd] = <<>>] ELSE recvBuf
    /\ busy' = FALSE
    /\ UNCHANGED <<linkVars, m_fd, idxVars, yxNum, ycNum, out, analysed, cut>>
-----------------------------------------------------------------------------
Handle == (\E fd \in Fd : HandleMessage(fd)) \/ AnalyseFrame \/ EndMessage

Next ==
    \/ \E fd \in Fd : Connect(fd) \/ Disconnect(fd) \/ \E kind \in Kinds : Send(fd, kind)
    \/ Handle

Spec == Init /\ [][Next]_vars

(* The server's thread is scheduled, and TCP delivers.                      *)
FairSpec == Spec /\ WF_vars(Handle)
-----------------------------------------------------------------------------
(* Properties.                                                             *)

ByteType == [frame : Frames, pos : 1..4]
Idx == 0..(ByteValues * ByteValues - 1)

(* Types of all variables; the numbers stay in range.                       *)
TypeOK ==
    /\ conns \in 0..MaxConn /\ conn \in [Fd -> 0..conns]
    /\ sent \in Seq(Seq(Kinds)) /\ Len(sent) = conns
    /\ wire \in [Fd -> Seq(ByteType)] /\ recvBuf \in [Fd -> Seq(ByteType)]
    /\ m_fd \in Fd /\ busy \in BOOLEAN
    /\ busy => conn[m_fd] # 0 /\ recvBuf[m_fd] # <<>>
    /\ sendIdx \in 0..(Half * ByteValues - 1) /\ recvIdx \in Idx
    /\ yxNum \in YxNum /\ ycNum \in YcNum
    /\ Len(out) = conns
    /\ analysed \in Seq(Seq(Seq(ByteType))) /\ Len(analysed) = conns
    /\ cut \in BOOLEAN

(* No connection has ended in the middle of a frame, and lengths fit in a     *)
(* char.                                                                   *)
Sound == ~cut /\ (CharSigned => \A f \in Frames : Kind(f) # "LONG")

Whole ==
    \A c \in 1..conns :
        /\ Len(analysed[c]) <= Len(sent[c])
        /\ \A i \in DOMAIN analysed[c] : analysed[c][i] = BytesOf(<<c, i>>)

(* handleMessage and fixFrame: under these conditions, what is taken for a     *)
(* frame is one that was sent on that connection, whole and in its turn, over  *)
(* any splitting of the stream, on several connections, and when a descriptor  *)
(* is used again.                                                          *)
FramesWhole == Sound => Whole

(* The length byte may say anything up to 253 (TransIEC104.h:117: "the length  *)
(* of the APDU, at most 253"), so that long frames are cut out whole, too.     *)
LongFramesWhole == ~cut => Whole

(* The stream of a connection from its frame n + 1 on: it begins with that     *)
(* frame, each byte is followed by the next one of its frame or the first one  *)
(* of the next, and it ends with the last frame.                             *)
Successor(b) ==
    IF b.pos < FrameLen(Kind(b.frame)) THEN Byte(b.frame, b.pos + 1)
    ELSE Byte(<<b.frame[1], b.frame[2] + 1>>, 1)

LastByte(c) == Byte(<<c, Len(sent[c])>>, FrameLen(sent[c][Len(sent[c])]))

IsStream(bytes, c, n) ==
    /\ bytes = <<>> => n = Len(sent[c])
    /\ bytes # <<>> => bytes[1] = Byte(<<c, n + 1>>, 1) /\ bytes[Len(bytes)] = LastByte(c)
    /\ \A k \in 1..(Len(bytes) - 1) : bytes[k + 1] = Successor(bytes[k])

(* And the bytes not yet analysed are those of the frames that follow: none    *)
(* is lost, and none is left of an earlier connection.                      *)
Unread(fd) == recvBuf[fd] \o wire[fd]

StreamKept ==
    Sound => \A fd \in Fd : conn[fd] # 0 =>
        IsStream(Unread(fd), conn[fd], Len(analysed[conn[fd]]))

(* When the handler has returned, no complete frame is left waiting for the   *)
(* next byte to arrive.                                                    *)
NoFrameWaits ==
    ~busy => \A fd \in Fd : recvBuf[fd] # <<>> /\ conn[fd] # 0 =>
                fixFrame(recvBuf[fd]) = "INCOMPLETE"

(* On the only connection there has been, and as long as no clock has been    *)
(* set and fewer than 128 frames have gone either way, the I frames carry     *)
(* the numbers 0, 1, 2, ..., and every frame the number of I frames received,  *)
(* of which there is one more than has been acknowledged while it is answered. *)
ITypes == {"con", "yx", "yc", "fin", "clock"}
Out(types, n) == Cardinality({j \in 1..n : out[1][j].content.type \in types})

Few ==
    /\ Sound /\ conns = 1
    /\ \A i \in DOMAIN analysed[1] : Kind(analysed[1][i][3].frame) # "CS"
    /\ Out(ITypes, Len(out[1])) <= Half /\ Len(analysed[1]) < Half

NumbersRight ==
    Few => \A i \in DOMAIN out[1] :
        /\ out[1][i].content.type \in ITypes =>
              out[1][i].ns = Out(ITypes, i - 1) /\ out[1][i].nr = Out({"S"}, i) + 1
        /\ out[1][i].content.type = "S" => out[1][i].nr = Out({"S"}, i)

(* Between a confirmation and the termination that follows it, the headers    *)
(* of the frames announce every point of both tables at its address, and no   *)
(* two frames announce the same one.  It says nothing of the values that      *)
(* stand behind the headers, of which sendGIYc leaves out most.              *)
Addresses(fr) == {fr.content.first + i : i \in 0..(fr.content.num - 1)}

AnnouncedOnce(frames, type, num) ==
    LET of == {k \in DOMAIN frames : frames[k].content.type = type} IN
    /\ UNION {Addresses(frames[k]) : k \in of} = 0..(num - 1)
    /\ \A k, l \in of : k # l => Addresses(frames[k]) \cap Addresses(frames[l]) = {}

PointsAnnounced ==
    \A c \in 1..conns : \A i, j \in DOMAIN out[c] :
        (/\ i < j /\ out[c][i].content.type = "con" /\ out[c][j].content.type = "fin"
         /\ \A k \in (i + 1)..(j - 1) : out[c][k].content.type \notin {"con", "fin"}) =>
            LET body == SubSeq(out[c], i + 1, j - 1) IN
            /\ AnnouncedOnce(body, "yx", yxNum)
            /\ AnnouncedOnce(body, "yc", ycNum)

(* Every frame of a connection is analysed, unless the connection ends first.  *)
Waiting(f) ==
    /\ Sound /\ f \in Frames
    /\ \E fd \in Fd : conn[fd] = f[1]
    /\ \A i \in DOMAIN analysed[f[1]] : analysed[f[1]][i] # BytesOf(f)

FrameAnalysed == \A f \in (1..MaxConn) \X (1..MaxFrame) : Waiting(f) ~> ~Waiting(f)
-----------------------------------------------------------------------------
(* The refinement: what waits on a connection are the frames sent and not     *)
(* analysed, wherever their bytes are; the numbers of frames do not matter.   *)

open  == {conn[fd] : fd \in Fd} \ {0}
asked == [c \in 1..conns |-> SubSeq(sent[c], Len(analysed[c]) + 1, Len(sent[c]))]
told  == [c \in 1..conns |-> [i \in DOMAIN out[c] |-> out[c][i].content]]

O == INSTANCE Outstation
     WITH Echoed <- UAct, Acknowledged <- IKinds, MaxPoints <- SQ_MAX_NUM, broken <- ~Sound

(* The slave serves its stations one frame at a time, in order, each with the  *)
(* headers of its whole answer and each on its own connection, however the      *)
(* streams are split and the connections take turns, until a frame is cut or    *)
(* misread.                                                                *)
IsOutstation == O!OSpec
=============================================================================
