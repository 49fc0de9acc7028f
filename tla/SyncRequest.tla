------------------------------ MODULE SyncRequest ------------------------------
(***************************************************************************)
(* The request/answer exchange over one channel: CDataEngine::sendSyncRecv *)
(* (DataEngine.cpp), CChannelBase::recvFrame/recvComplete and the dealer   *)
(* thread of CChannelMsgHandle (Src/Channel/IChannel.cpp), with            *)
(* CChannelManager::dealMsg and the fixFrame of a plugin between them.     *)
(*                                                                         *)
(* Several threads call sendSyncRecv: the protocol thread that polls, and  *)
(* the transmit threads that pass a control command on.  The mutex they    *)
(* take belongs to the protocol thread that owns the plugin.  One dealer   *)
(* thread per channel cuts frames out of the bytes received, for the one   *)
(* device whose name is set.  Every lock region of the code is one action; *)
(* what the code does outside a lock is split where another thread can     *)
(* see the difference.                                                     *)
(***************************************************************************)
EXTENDS Naturals, Sequences

CONSTANTS
    Caller,       \* threads that call sendSyncRecv
    Poller,       \* those of them that run CProtocolManager::process
    Device,       \* names that share the channel (the cfg's "names")
    Mutex,        \* the mutexes on the stacks of the protocol threads
    mutexOf,      \* the mutex each caller is handed through setLockSource
    NoName,       \* the empty m_name: nobody is waiting
    NoCaller,     \* a mutex nobody holds
    Torn,         \* what a frame read in the middle of its assignment yields
    AnswerLen,    \* bytes in the answer to a request
    MinLen,       \* bytes fixFrame wants before it accepts (CollModbus: 8)
    Framing,      \* "whole" as CollModbus::fixFrame, "framed" as TransIEC104's
    MayTimeOut,   \* FALSE when timeOut is longer than any delay
    MaxRequest    \* bound: requests sent in a behaviour

ASSUME NameAssumption == NoName \notin Device
ASSUME CallerAssumption ==
    /\ Poller \subseteq Caller
    /\ NoCaller \notin Caller
    /\ mutexOf \in [Caller -> Mutex]
ASSUME FrameAssumption ==
    /\ AnswerLen \in Nat \ {0}
    /\ MinLen \in 1..AnswerLen
    /\ Framing \in {"whole", "framed"}
    /\ MayTimeOut \in BOOLEAN
    /\ MaxRequest \in Nat

VARIABLES
    owner,      \* who holds each mutex
    pc,         \* where each caller is in sendSyncRecv
    dev,        \* the device name it was called with
    req,        \* the request it has sent (0: none yet)
    asked,      \* number of requests sent on the channel
    arrived,    \* how many bytes of each answer the transport has handed over
    name,       \* CChannelMsgHandle::m_name
    recvBuf,    \* CChannelMsgHandle::m_recvBuf
    dpc,        \* where the dealer thread is
    dName,      \* its local copy of the name
    tmpBuf,     \* its local recvBufTmp, kept from one round to the next
    valid,      \* validFrame, the frame dealMsg has cut out
    frame,      \* CChannelBase::m_recvBuf, the frame handed to the caller
    sems,       \* the keys of m_mapSem
    count,      \* the count of each semaphore
    fixFunc,    \* the keys of m_mapFixFunc
    expired     \* history: the requests that timed out

callerVars == <<owner, pc, dev, req>>
wireVars   == <<asked, arrived>>
dealerVars == <<dpc, dName, tmpBuf, valid>>
semVars    == <<sems, count>>
vars == <<callerVars, wireVars, name, recvBuf, dealerVars, frame, semVars,
          fixFunc, expired>>

Request == 1..MaxRequest
Byte    == [req : Request, pos : 1..AnswerLen]

(* The answer a device gives to request r, and its bytes after the first k. *)
Answer(r)      == [i \in 1..AnswerLen |-> [req |-> r, pos |-> i]]
Chunk(r, k, n) == [i \in 1..n |-> [req |-> r, pos |-> k + i]]

(* The verdicts of a plugin's fixFrame on a non-empty buffer, with validLen. *)
(* CollModbus takes whatever has MinLen bytes for a frame.                  *)
FixWhole(buf) ==
    IF Len(buf) < MinLen THEN [ret |-> "INVALID", len |-> 0]
                         ELSE [ret |-> "COMPLETE", len |-> Len(buf)]

(* TransIEC104 looks for a start byte and a length.                         *)
FixFramed(buf) ==
    IF buf[1].pos # 1 THEN [ret |-> "INVALID", len |-> 0]
    ELSE IF Len(buf) < AnswerLen THEN [ret |-> "INCOMPLETE", len |-> 0]
    ELSE [ret |-> "COMPLETE", len |-> AnswerLen]

FixFrame(buf) == IF Framing = "whole" THEN FixWhole(buf) ELSE FixFramed(buf)

Init ==
    /\ owner = [m \in Mutex |-> NoCaller]
    /\ pc = [c \in Caller |-> "idle"]
    /\ dev = [c \in Caller |-> NoName]
    /\ req = [c \in Caller |-> 0]
    /\ asked = 0
    /\ arrived = [r \in Request |-> 0]
    /\ name = NoName
    /\ recvBuf = <<>>
    /\ dpc = "read" /\ dName = NoName
    /\ tmpBuf = <<>> /\ valid = <<>>
    /\ frame = <<>>
    /\ sems = {}
    /\ count = [d \in Device |-> 0]
    /\ fixFunc = {}
    /\ expired = {}
-----------------------------------------------------------------------------
(* The callers.                                                            *)

(* CProtocolManager::process registers a device's fixFrame before it polls. *)
AttachFixFunc(d) ==
    /\ d \notin fixFunc
    /\ fixFunc' = fixFunc \cup {d}
    /\ UNCHANGED <<callerVars, wireVars, name, recvBuf, dealerVars, frame,
                   semVars, expired>>

(* Mutation: sendSyncRecv forgets its lock_guard.                           *)
LockNoGuard(c, d) ==
    /\ pc[c] = "idle"
    /\ asked < MaxRequest
    /\ c \in Poller => d \in fixFunc
    /\ owner' = [owner EXCEPT ![mutexOf[c]] = c]
    /\ pc' = [pc EXCEPT ![c] = "send"]
    /\ dev' = [dev EXCEPT ![c] = d]
    /\ UNCHANGED <<req, wireVars, name, recvBuf, dealerVars, frame, semVars,
                   fixFunc, expired>>

(* sendSyncRecv is called and takes the mutex it was handed.  A protocol    *)
(* thread has registered its fixFrame by then, a control caller need not.  *)
Lock(c, d) ==
    /\ pc[c] = "idle"
    /\ asked < MaxRequest
    /\ c \in Poller => d \in fixFunc
    /\ owner[mutexOf[c]] = NoCaller
    /\ owner' = [owner EXCEPT ![mutexOf[c]] = c]
    /\ pc' = [pc EXCEPT ![c] = "send"]
    /\ dev' = [dev EXCEPT ![c] = d]
    /\ UNCHANGED <<req, wireVars, name, recvBuf, dealerVars, frame, semVars,
                   fixFunc, expired>>

(* sendSyncRecv returns: its lock_guard and its locals go out of scope.     *)
Return(c) ==
    /\ pc' = [pc EXCEPT ![c] = "idle"]
    /\ owner' = [owner EXCEPT ![mutexOf[c]] = NoCaller]
    /\ dev' = [dev EXCEPT ![c] = NoName]
    /\ req' = [req EXCEPT ![c] = 0]

(* The transport refuses the frame: sendSyncRecv returns false.            *)
SendFails(c) ==
    /\ pc[c] = "send"
    /\ Return(c)
    /\ UNCHANGED <<wireVars, name, recvBuf, dealerVars, frame,
                   semVars, fixFunc, expired>>

(* The frame leaves; its answer, if the device gives one, is now under way. *)
Send(c) ==
    /\ pc[c] = "send"
    /\ asked < MaxRequest
    /\ asked' = asked + 1
    /\ req' = [req EXCEPT ![c] = asked + 1]
    /\ pc' = [pc EXCEPT ![c] = "drain"]
    /\ UNCHANGED <<owner, dev, arrived, name, recvBuf, dealerVars, frame,
                   semVars, fixFunc, expired>>

(* Mutation: the semaphore is looked up but never created.                  *)
DrainNoCreate(c) ==
    /\ pc[c] = "drain"
    /\ count' = [count EXCEPT ![dev[c]] = 0]
    /\ pc' = [pc EXCEPT ![c] = "name"]
    /\ UNCHANGED <<owner, dev, req, wireVars, name, recvBuf, dealerVars,
                   frame, sems, fixFunc, expired>>

(* recvFrame creates the device's semaphore on first use and takes away     *)
(* the posts it still holds.                                               *)
Drain(c) ==
    /\ pc[c] = "drain"
    /\ sems' = sems \cup {dev[c]}
    /\ count' = [count EXCEPT ![dev[c]] = 0]
    /\ pc' = [pc EXCEPT ![c] = "name"]
    /\ UNCHANGED <<owner, dev, req, wireVars, name, recvBuf, dealerVars,
                   frame, fixFunc, expired>>

(* setName(name): from here on the dealer works for this device.           *)
SetName(c) ==
    /\ pc[c] = "name"
    /\ name' = dev[c]
    /\ pc' = [pc EXCEPT ![c] = "pend"]
    /\ UNCHANGED <<owner, dev, req, wireVars, recvBuf, dealerVars, frame,
                   semVars, fixFunc, expired>>

(* Mutation: the count is taken down without a look at it.                  *)
PendNoCheck(c) ==
    /\ pc[c] = "pend"
    /\ count' = [count EXCEPT ![dev[c]] = @ - 1]
    /\ pc' = [pc EXCEPT ![c] = "copy"]
    /\ UNCHANGED <<owner, dev, req, wireVars, name, recvBuf, dealerVars,
                   frame, sems, fixFunc, expired>>

(* pendFor returns true and takes one post.                                *)
Pend(c) ==
    /\ pc[c] = "pend"
    /\ count[dev[c]] > 0
    /\ count' = [count EXCEPT ![dev[c]] = @ - 1]
    /\ pc' = [pc EXCEPT ![c] = "copy"]
    /\ UNCHANGED <<owner, dev, req, wireVars, name, recvBuf, dealerVars,
                   frame, sems, fixFunc, expired>>

(* Mutation: pend without a limit in place of pendFor.                      *)
TimeOutNever(c) == pc[c] = "pend" /\ FALSE /\ UNCHANGED vars

(* pendFor returns false: no post came within timeOut.                     *)
TimeOut(c) ==
    /\ MayTimeOut
    /\ pc[c] = "pend"
    /\ count[dev[c]] = 0
    /\ expired' = expired \cup {req[c]}
    /\ pc' = [pc EXCEPT ![c] = "expired"]
    /\ UNCHANGED <<owner, dev, req, wireVars, name, recvBuf, dealerVars,
                   frame, semVars, fixFunc>>

(* setName("") after the timeout; sendSyncRecv returns false.              *)
GiveUp(c) ==
    /\ pc[c] = "expired"
    /\ name' = NoName
    /\ Return(c)
    /\ UNCHANGED <<wireVars, recvBuf, dealerVars, frame, semVars,
                   fixFunc, expired>>

(* recvBuf = m_recvBuf, read without a lock; sendSyncRecv returns true.     *)
Copy(c) ==
    /\ pc[c] = "copy"
    /\ Return(c)
    /\ UNCHANGED <<wireVars, name, recvBuf, dealerVars, frame,
                   semVars, fixFunc, expired>>
-----------------------------------------------------------------------------
(* The transport and the dealer thread.                                    *)

(* handleMessage: n further bytes of the answer to r arrive.  A device may   *)
(* answer late, in pieces or never; nothing forces this action.            *)
HandleMessage(r, n) ==
    /\ r <= asked
    /\ arrived[r] + n <= AnswerLen
    /\ recvBuf' = recvBuf \o Chunk(r, arrived[r], n)
    /\ arrived' = [arrived EXCEPT ![r] = @ + n]
    /\ UNCHANGED <<callerVars, asked, name, dealerVars, frame, semVars,
                   fixFunc, expired>>

(* The first lock region of dealMessage; with no name set it sleeps.       *)
ReadName ==
    /\ dpc = "read"
    /\ dName' = name
    /\ dpc' = IF name = NoName THEN "read" ELSE "take"
    /\ UNCHANGED <<callerVars, wireVars, name, recvBuf, tmpBuf, valid, frame,
                   semVars, fixFunc, expired>>

(* Mutation: m_recvBuf is not cleared.                                      *)
TakeBytesNoClear ==
    /\ dpc = "take"
    /\ Len(tmpBuf) < 2 * AnswerLen
    /\ tmpBuf' = tmpBuf \o recvBuf
    /\ dpc' = IF tmpBuf' = <<>> THEN "read" ELSE "fix"
    /\ UNCHANGED <<callerVars, wireVars, name, recvBuf, dName, valid, frame,
                   semVars, fixFunc, expired>>

(* The second lock region: everything received so far moves to recvBufTmp. *)
TakeBytes ==
    /\ dpc = "take"
    /\ tmpBuf' = tmpBuf \o recvBuf
    /\ recvBuf' = <<>>
    /\ dpc' = IF tmpBuf' = <<>> THEN "read" ELSE "fix"
    /\ UNCHANGED <<callerVars, wireVars, name, dName, valid, frame, semVars,
                   fixFunc, expired>>

(* Mutation: the complete frame is copied out of the buffer but not erased. *)
DealMsgNoErase ==
    /\ dpc = "fix"
    /\ LET fix == FixFrame(tmpBuf) IN
       \/ /\ dName \notin fixFunc \/ fix.ret = "INCOMPLETE"
          /\ dpc' = "read"
          /\ UNCHANGED <<tmpBuf, valid>>
       \/ /\ dName \in fixFunc /\ fix.ret = "INVALID"
          /\ dpc' = "read"
          /\ tmpBuf' = <<>>
          /\ UNCHANGED valid
       \/ /\ dName \in fixFunc /\ fix.ret = "COMPLETE"
          /\ dpc' = "write"
          /\ valid' = SubSeq(tmpBuf, 1, fix.len)
          /\ UNCHANGED tmpBuf
    /\ UNCHANGED <<callerVars, wireVars, name, recvBuf, dName, frame, semVars,
                   fixFunc, expired>>

(* dealMsg up to the call of recvComplete: no fixFrame known or an          *)
(* incomplete frame leaves the buffer alone, an invalid one empties it, a   *)
(* complete one is cut off its front.                                      *)
DealMsg ==
    /\ dpc = "fix"
    /\ LET fix == FixFrame(tmpBuf) IN
       \/ /\ dName \notin fixFunc \/ fix.ret = "INCOMPLETE"
          /\ dpc' = "read"
          /\ UNCHANGED <<tmpBuf, valid>>
       \/ /\ dName \in fixFunc /\ fix.ret = "INVALID"
          /\ dpc' = "read"
          /\ tmpBuf' = <<>>
          /\ UNCHANGED valid
       \/ /\ dName \in fixFunc /\ fix.ret = "COMPLETE"
          /\ dpc' = "write"
          /\ valid' = SubSeq(tmpBuf, 1, fix.len)
          /\ tmpBuf' = SubSeq(tmpBuf, fix.len + 1, Len(tmpBuf))
    /\ UNCHANGED <<callerVars, wireVars, name, recvBuf, dName, frame, semVars,
                   fixFunc, expired>>

(* recvComplete assigns m_recvBuf without a lock: while it does, a reader    *)
(* in another thread gets a torn value.                                    *)
BeginWrite ==
    /\ dpc = "write"
    /\ frame' = Torn
    /\ dpc' = "writing"
    /\ UNCHANGED <<callerVars, wireVars, name, recvBuf, dName, tmpBuf, valid,
                   semVars, fixFunc, expired>>

EndWrite ==
    /\ dpc = "writing"
    /\ frame' = valid
    /\ dpc' = "post"
    /\ UNCHANGED <<callerVars, wireVars, name, recvBuf, dName, tmpBuf, valid,
                   semVars, fixFunc, expired>>

(* m_mapSem[name]->post().                                                 *)
Post ==
    /\ dpc = "post"
    /\ count' = [count EXCEPT ![dName] = @ + 1]
    /\ dpc' = "clear"
    /\ UNCHANGED <<callerVars, wireVars, name, recvBuf, dName, tmpBuf, valid,
                   frame, sems, fixFunc, expired>>

(* Mutation: recvComplete leaves the name set.                              *)
ClearNameKeeps ==
    /\ dpc = "clear"
    /\ dpc' = "read"
    /\ valid' = <<>>
    /\ UNCHANGED <<callerVars, wireVars, name, recvBuf, dName, tmpBuf, frame,
                   semVars, fixFunc, expired>>

(* The setName("") that ends recvComplete and dealMsg, whatever the name is  *)
(* by now.                                                                 *)
ClearName ==
    /\ dpc = "clear"
    /\ name' = NoName
    /\ dpc' = "read"
    /\ valid' = <<>>
    /\ UNCHANGED <<callerVars, wireVars, recvBuf, dName, tmpBuf, frame,
                   semVars, fixFunc, expired>>
-----------------------------------------------------------------------------
CallerStep(c) ==
    \/ \E d \in Device : Lock(c, d)
    \/ SendFails(c) \/ Send(c) \/ Drain(c) \/ SetName(c)
    \/ Pend(c) \/ TimeOut(c) \/ GiveUp(c) \/ Copy(c)

Dealer ==
    \/ ReadName \/ TakeBytes \/ DealMsg
    \/ BeginWrite \/ EndWrite \/ Post \/ ClearName

Next ==
    \/ \E d \in Device : AttachFixFunc(d)
    \/ \E c \in Caller : CallerStep(c)
    \/ \E r \in Request, n \in 1..AnswerLen : HandleMessage(r, n)
    \/ Dealer

Spec == Init /\ [][Next]_vars

(* Every thread is scheduled, and pendFor has a deadline: a caller that has  *)
(* taken the mutex keeps moving.  Nothing is assumed of the device or of     *)
(* when a new call is made.                                                *)
Progress(c) ==
    Send(c) \/ SendFails(c) \/ Drain(c) \/ SetName(c) \/ Pend(c)
    \/ TimeOut(c) \/ GiveUp(c) \/ Copy(c)

Fairness ==
    /\ \A c \in Caller : WF_vars(Progress(c))
    /\ WF_vars(Dealer)

FairSpec == Spec /\ Fairness
-----------------------------------------------------------------------------
(* Properties.                                                             *)

InCall(c) == pc[c] # "idle"
Sent(c)   == pc[c] \notin {"idle", "send"}

(* Every caller of the channel was handed the same mutex: the channel's      *)
(* devices belong to one plugin of one task.                               *)
SingleMutex == \A c1, c2 \in Caller : mutexOf[c1] = mutexOf[c2]

(* Types of all variables.                                                 *)
TypeOK ==
    /\ owner \in [Mutex -> Caller \cup {NoCaller}]
    /\ pc \in [Caller -> {"idle", "send", "drain", "name", "pend", "expired", "copy"}]
    /\ dev \in [Caller -> Device \cup {NoName}]
    /\ \A c \in Caller : InCall(c) => dev[c] \in Device
    /\ req \in [Caller -> 0..MaxRequest]
    /\ \A c \in Caller : Sent(c) => req[c] \in Request
    /\ asked \in 0..MaxRequest
    /\ arrived \in [Request -> 0..AnswerLen]
    /\ name \in Device \cup {NoName}
    /\ recvBuf \in Seq(Byte) /\ tmpBuf \in Seq(Byte) /\ valid \in Seq(Byte)
    /\ dpc \in {"read", "take", "fix", "write", "writing", "post", "clear"}
    /\ dName \in Device \cup {NoName}
    /\ dpc # "read" => dName \in Device
    /\ dpc = "fix" => tmpBuf # <<>>
    /\ frame \in Seq(Byte) \cup {Torn}
    /\ sems \subseteq Device
    /\ count \in [Device -> Nat]
    /\ fixFunc \subseteq Device
    /\ expired \subseteq Request

(* m_mapSem[name]->post() in recvComplete dereferences whatever the map      *)
(* holds: the semaphore must exist before the dealer can have seen the name. *)
PostHasSemaphore == dpc # "read" => dName \in sems

(* The bytes waiting to be dealt with are in the order they arrived, and     *)
(* none is there twice, across m_recvBuf and the dealer's recvBufTmp.        *)
BytesInOrder ==
    LET buf == tmpBuf \o recvBuf IN
    \A i, j \in 1..Len(buf) :
        i < j /\ buf[i].req = buf[j].req => buf[i].pos < buf[j].pos

(* A post that no caller will take is drained by the next call for its       *)
(* device, so it never piles up: at most one left over from an earlier call  *)
(* and one for the present call are on a semaphore.                        *)
SemBounded == SingleMutex => \A d \in Device : count[d] <= 2

(* No answer is longer than what fixFrame takes for a frame.                *)
ExactFrames == Framing = "framed" \/ MinLen = AnswerLen

(* No request that has timed out is answered, in part before or at all after: *)
(* its device is off, or its line is cut.                                  *)
Undisturbed == \A r \in expired : arrived[r] = 0

(* As long as that is so, sendSyncRecv returns the answer to its own request, *)
(* whole: a device that is silent does not harm the others on its channel,    *)
(* although the dealer may still go by its name, the frame crosses from the  *)
(* dealer to the caller unguarded, and the name is cleared after the caller   *)
(* has been woken.                                                         *)
OwnAnswer ==
    SingleMutex /\ ExactFrames /\ Undisturbed =>
        \A c \in Caller : pc[c] = "copy" => frame = Answer(req[c])

(* Every sendSyncRecv that has taken the mutex returns.                    *)
CallReturns == \A c \in Caller : InCall(c) ~> ~InCall(c)

(* The device answers every request whole, and sooner or later; and every     *)
(* protocol thread starts.                                                 *)
DeviceAnswers ==
    \A r \in Request : WF_vars(\E n \in 1..AnswerLen : HandleMessage(r, n))
Attaches == \A d \in Device : WF_vars(AttachFixFunc(d))
AnsweringSpec == FairSpec /\ Attaches /\ DeviceAnswers

(* IDataEngine.h, line 153: send a frame and receive the frame returned.    *)
(* Stated of every call that returns a frame, after a timeout or not.      *)
AnswerIsOwn == \A c \in Caller : pc[c] = "copy" => frame = Answer(req[c])

(* The same sentence, of every request that is answered: when the device     *)
(* answers and the time allowed is ample, the call returns.                *)
AnsweredCallReturns == \A c \in Caller : pc[c] = "drain" ~> pc[c] = "copy"

-----------------------------------------------------------------------------
(* The inductive invariants behind BytesInOrder, SemBounded and OwnAnswer. *)

(* A caller in the middle of a call holds the mutex it was handed.          *)
LockInv == \A c \in Caller : InCall(c) => owner[mutexOf[c]] = c

(* A name is published only after its semaphore exists.                    *)
SemInv ==
    /\ \A c \in Caller : pc[c] \in {"name", "pend", "expired", "copy"} => dev[c] \in sems
    /\ name # NoName => name \in sems
    /\ dpc # "read" => dName \in sems

(* The dealer may still post to d without any caller setting the name.      *)
MayPost(d) ==
    \/ dpc \notin {"read", "clear"} /\ dName = d
    \/ dpc # "clear" /\ name = d

PostInv ==
    /\ \A d \in Device : count[d] <= (IF MayPost(d) THEN 1 ELSE 2)
    /\ \A c \in Caller : pc[c] = "name" =>
           count[dev[c]] <= (IF MayPost(dev[c]) THEN 0 ELSE 1)

(* t and then u hold the last bytes, in order, of the first n bytes of the   *)
(* answer to r.                                                            *)
EndOf(r, n, t, u) ==
    /\ Len(t) + Len(u) <= n
    /\ t = Chunk(r, (n - Len(u)) - Len(t), Len(t))
    /\ u = Chunk(r, n - Len(u), Len(u))

Buffered(r) == EndOf(r, arrived[r], tmpBuf, recvBuf)

Empty   == tmpBuf = <<>> /\ recvBuf = <<>>
NoPost  == \A d \in Device : count[d] = 0
Resting == dpc \in {"clear", "read", "take"}

(* No more bytes come of the first n answers.                               *)
Settled(n) ==
    \A q \in Request : q <= n => arrived[q] = AnswerLen \/ q \in expired

Quiet == Resting /\ Empty /\ NoPost /\ Settled(asked)

(* The dealer looks for the answer to the last request, by whichever name it  *)
(* has read; has cut it out; has posted it, to whichever device.             *)
Searching ==
    NoPost /\ Buffered(asked) /\ dpc \in {"clear", "read", "take", "fix"}
CutOut ==
    /\ NoPost /\ Empty /\ arrived[asked] = AnswerLen
    /\ dpc \in {"write", "writing", "post"}
    /\ valid = Answer(asked)
    /\ dpc = "post" => frame = valid
Posted ==
    /\ \A d \in Device : count[d] <= 1 /\ (count[d] = 1 =>
           \A b \in Device \ {d} : count[b] = 0)
    /\ Resting /\ Empty /\ arrived[asked] = AnswerLen
    /\ frame = Answer(asked)

(* Where the one call in progress is, once its request is sent.             *)
Phase(c) ==
    /\ req[c] = asked /\ asked # 0 /\ Settled(asked - 1)
    /\ \/ pc[c] \in {"drain", "name", "pend"} /\ (Searching \/ CutOut \/ Posted)
       \/ pc[c] = "expired" /\ Quiet
       \/ pc[c] = "copy" /\ Quiet /\ frame = Answer(asked)

(* As long as silent requests stay so, the channel is quiet between calls    *)
(* and a call goes through its phases in order.                             *)
Phases ==
    /\ (\A c \in Caller : ~Sent(c)) => Quiet
    /\ \A c \in Caller : Sent(c) => Phase(c)

ExchangeInv == SingleMutex /\ ExactFrames /\ Undisturbed => Phases

(* No byte of buf is ahead of those that have arrived, nor of a later one of  *)
(* its answer.                                                             *)
InOrder(buf, upto) ==
    \A i \in 1..Len(buf) :
        /\ buf[i].pos <= upto[buf[i].req]
        /\ \A j \in (i + 1)..Len(buf) :
               buf[i].req = buf[j].req => buf[i].pos < buf[j].pos

OrderInv == InOrder(tmpBuf \o recvBuf, arrived)

IInv ==
    /\ TypeOK /\ LockInv /\ SemInv /\ OrderInv
    /\ (SingleMutex => PostInv) /\ ExchangeInv
-----------------------------------------------------------------------------
(* The refinement: the exchange in progress is that of the caller in a call, *)
(* and it has a result from the moment pendFor succeeds.                   *)

user == IF \E c \in Caller : InCall(c) THEN CHOOSE c \in Caller : InCall(c)
                                       ELSE NoCaller
result ==
    IF \E c \in Caller : pc[c] = "copy"
    THEN IF \E c \in Caller : pc[c] = "copy" /\ frame = Answer(req[c])
         THEN "own" ELSE "other"
    ELSE "none"

E == INSTANCE Exchange WITH failed <- expired # {}, reliable <- Undisturbed

(* On a channel whose callers share one mutex, sendSyncRecv is an exchange:   *)
(* one caller at a time, each handed its own answer until a request that has  *)
(* timed out is answered after all.                                        *)
IsExchange == E!ESpec
=============================================================================
