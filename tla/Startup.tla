------------------------------- MODULE Startup -------------------------------
(***************************************************************************)
(* From the configuration to running threads: CTaskCenter (Src/Task),        *)
(* CChannelManager, CProtocolManager and what the plugins do when they are   *)
(* initialised; and the control commands that go the same way back, from a   *)
(* transmit plugin to the plugin of the device.                            *)
(*                                                                         *)
(* One thread runs init() and start().  While it is in start(), the servers  *)
(* it has started already accept connections, and the protocol threads it    *)
(* has started already run.                                                *)
(***************************************************************************)
EXTENDS Integers, Sequences, FiniteSets, Functions

CONSTANTS
    Configs,    \* the configurations: see ConfigAssumption
    Loadable,   \* the plugins whose library can be loaded
    NoPlug,     \* a store without a Protocol.json
    NoKey,      \* an m_mutex that has not been set
    Fd          \* descriptors of clients

ChannelTypes == {"RS-485", "RS-232", "TCPServer", "TCPClient", "UDP", "", "other"}

(* Tasks in the order of their names, each with its devices, or its one      *)
(* transmission ("there is only one", TaskCenter.cpp:319), whose type is its *)
(* name; the plugin of every store; which stores are TransStore's; the        *)
(* transmit table, and the points it may name.  Names are unique (README.md,  *)
(* line 49), and so many that they can be counted.                          *)
ASSUME ConfigAssumption ==
    /\ NoPlug \notin Loadable
    /\ \A c \in Configs :
          /\ DOMAIN c = {"tasks", "plug", "transStore", "table", "points"}
          /\ DOMAIN c.tasks \subseteq Nat \ {0}
          /\ IsFiniteSet(UNION {{i} \X DOMAIN c.tasks[i].content : i \in DOMAIN c.tasks})
          /\ \A i \in DOMAIN c.tasks :
                /\ c.tasks[i].enable \in BOOLEAN /\ c.tasks[i].bTrans \in BOOLEAN
                /\ c.tasks[i].channel \in ChannelTypes
                /\ c.tasks[i].serial \in BOOLEAN
                /\ \A j \in DOMAIN c.tasks[i].content :
                      DOMAIN c.tasks[i].content[j] = {"name", "type"}
                /\ c.tasks[i].bTrans =>
                      /\ DOMAIN c.tasks[i].content = {1}
                      /\ c.tasks[i].content[1].name = c.tasks[i].content[1].type
                      /\ c.tasks[i].content[1].type \in DOMAIN c.plug
                            => c.tasks[i].content[1].type \in c.transStore
          /\ \A i, j \in DOMAIN c.tasks :
                \A d \in DOMAIN c.tasks[i].content, e \in DOMAIN c.tasks[j].content :
                   c.tasks[i].content[d].name = c.tasks[j].content[e].name
                       => i = j /\ d = e
          /\ c.transStore \subseteq DOMAIN c.plug

(* Everything that may be a key of m_mapProtocol, and the ids of commands.    *)
AllKeys == (UNION {DOMAIN c.tasks : c \in Configs}) \X Loadable
Id == {x[2] : x \in UNION {DOMAIN c.table : c \in Configs}}

VARIABLES
    cfg,        \* the configuration
    groups,     \* m_mapProtocolCfg, in the order createProtocol goes through it
    step,       \* where the main thread is
    up,         \* the channels that have been started, by task
    value,      \* the configuration each plugin was initialised with, 0 for none
    protocolPtr,\* m_mapProtocolPtr
    runs,       \* the protocol threads that run
    lock,       \* m_mutex of each plugin: the thread on whose stack it is
    fixFunc,    \* m_mapFixFunc
    polled,     \* the names that have been polled, each with its plugin
    client,     \* the clients of each server
    onConnect,  \* the plugin each server tells of its clients, 0 for none
    vecFd,      \* m_vecFd of each plugin
    early,      \* history: clients that came when there was nobody to tell
    cmd         \* the last control command

mainVars   == <<step, up, value, protocolPtr, onConnect>>
threadVars == <<runs, lock, fixFunc, polled>>
clientVars == <<client, vecFd, early>>
vars == <<cfg, groups, mainVars, threadVars, clientVars, cmd>>
-----------------------------------------------------------------------------
(* What the configuration says: parseTask, parseDevice, parseTrans.          *)

Task == {i \in DOMAIN cfg.tasks : cfg.tasks[i].enable}
NamesOf(i) == {d.name : d \in Range(cfg.tasks[i].content)}

DeviceNames ==
    {d.name : d \in {e \in UNION {Range(cfg.tasks[i].content) :
                                    i \in {j \in Task : ~cfg.tasks[j].bTrans}} :
                       e.type \in DOMAIN cfg.plug}}
TransNames == cfg.transStore

(* createChannelPtr, and what init() of a channel needs.                    *)
Creates(i)  == cfg.tasks[i].channel \notin {"", "other"}
NullChannel(i) == cfg.tasks[i].channel = "RS-232"
InitFails(i)   == cfg.tasks[i].channel = "RS-485" /\ ~cfg.tasks[i].serial

(* Mutation: a channel is entered under the first of its names only.         *)
EntersFirst(i, n) == Creates(i) /\ n = cfg.tasks[i].content[1].name

Enters(i, n) == Creates(i) /\ n \in NamesOf(i)

(* m_mapChannel: the last task that has the name wins; 0 for a null pointer. *)
ChannelOf(n) ==
    LET ts == {i \in Task : Enters(i, n)} IN
    IF ts = {} THEN 0 ELSE CHOOSE i \in ts : \A j \in ts : j <= i

(* createChannel dereferences a channel that is not there, or has no message *)
(* handler; init() asks for the channel of every device and transmission.    *)
InitCrashes ==
    \/ \E i \in Task : NullChannel(i) \/ InitFails(i)
    \/ \E n \in DeviceNames \cup TransNames : ChannelOf(n) = 0

(* arrangeCollCfg, arrangeTransCfg: the devices of a task by their type,     *)
(* those without a protocol left out.                                      *)
TypesOf(i) ==
    {ty \in {d.type : d \in Range(cfg.tasks[i].content)} :
        ty \in DOMAIN cfg.plug /\ cfg.plug[ty] # NoPlug}

Groups == UNION {{[task |-> i, type |-> ty] : ty \in TypesOf(i)} : i \in Task}

(* By task, and within a task in whatever order the types have.              *)
Orders ==
    {gs \in [1..Cardinality(Groups) -> Groups] :
        /\ IsInjective(gs)
        /\ \A g, h \in DOMAIN gs : g < h => gs[g].task <= gs[h].task}

Devices(g) ==
    LET content == cfg.tasks[groups[g].task].content IN
    {j \in DOMAIN content : content[j].type = groups[g].type}
Device(g, j) == cfg.tasks[groups[g].task].content[j].name
NamesIn(g)   == {Device(g, j) : j \in Devices(g)}
FirstName(g) == Device(g, CHOOSE j \in Devices(g) : \A k \in Devices(g) : j <= k)

(* createProtocol: a plugin for each group, registered under its task and    *)
(* library, as is the group's configuration, whether the library was loaded  *)
(* or not.  A plugin is known by the group it was created for.              *)
Plug(g) == cfg.plug[groups[g].type]
Key(g)  == <<groups[g].task, Plug(g)>>
Plugin  == {g \in DOMAIN groups : Plug(g) \in Loadable}
Keys    == {Key(p) : p \in Plugin}
Protocols(k) == {p \in Plugin : Key(p) = k}
Values(k)    == {g \in DOMAIN groups : Key(g) = k}
Transmits(p) == cfg.tasks[groups[p].task].bTrans
-----------------------------------------------------------------------------
(* The main thread.                                                        *)

NoCmd == [asked |-> "none"]

Init ==
    /\ cfg \in Configs
    /\ groups \in Orders
    /\ step = "new" /\ up = {}
    /\ value = [p \in Plugin |-> 0]
    /\ protocolPtr = <<>>
    /\ runs = {}
    /\ lock = [p \in Plugin |-> NoKey]
    /\ fixFunc = <<>> /\ polled = {}
    /\ client = [i \in Task |-> {}]
    /\ onConnect = [i \in Task |-> 0]
    /\ vecFd = [p \in Plugin |-> {}]
    /\ early = {}
    /\ cmd = NoCmd

Created == {i \in Task : Creates(i)}
Inited  == {p \in Plugin : value[p] # 0}

(* init() does nothing that anybody else could see on the way.               *)
InitEngine ==
    /\ step = "new"
    /\ step' = IF InitCrashes THEN "crashed" ELSE "channels"
    /\ UNCHANGED <<up, value, protocolPtr, onConnect, threadVars>>

StartChannel ==
    /\ step = "channels"
    /\ \E i \in Created \ up :
          /\ \A j \in Created \ up : i <= j
          /\ up' = up \cup {i}
    /\ UNCHANGED <<step, value, protocolPtr, onConnect, threadVars>>

(* Mutation: every plugin of a key gets the configuration entered last.      *)
ValueOfLast(k, p) == CHOOSE v \in Values(k) : \A u \in Values(k) : u <= v

(* Plugins and configurations of a key are paired by their places in the two  *)
(* vectors.                                                                *)
Place(g, gs) == Cardinality({h \in gs : h < g})

ValueOf(k, p) ==
    CHOOSE v \in Values(k) : Place(v, Values(k)) = Place(p, Protocols(k))

(* map[n] = p, for some names.                                             *)
Enter(ns, p, map) == [n \in ns \cup DOMAIN map |-> IF n \in ns THEN p ELSE map[n]]

(* Mutation: only the first name is entered.                                *)
EnteredFirst(v) == {FirstName(v)}

Entered(v) == NamesIn(v)

(* init() of a plugin, which is then entered for the names it was given.  A  *)
(* transmit plugin attaches itself to the channel of the first of them.      *)
InitPlugin(p) ==
    /\ step = "plugins" /\ p \notin Inited
    /\ \A q \in Protocols(Key(p)) : q < p => q \in Inited
    /\ LET v == ValueOf(Key(p), p) IN
       /\ value' = [value EXCEPT ![p] = v]
       /\ onConnect' = IF Transmits(p)
                       THEN [onConnect EXCEPT ![ChannelOf(FirstName(v))] = p]
                       ELSE onConnect
       /\ protocolPtr' = Enter(Entered(v), p, protocolPtr)
    /\ UNCHANGED <<step, up, threadVars>>

(* Mutation: each thread is started as soon as its plugins are ready.        *)
ThreadsMayStartSoon == step \in {"plugins", "threads"}

ThreadsMayStart == step = "threads"

StartThread(k) ==
    /\ ThreadsMayStart
    /\ k \notin runs /\ Protocols(k) \subseteq Inited
    /\ runs' = runs \cup {k}
    /\ UNCHANGED <<mainVars, lock, fixFunc, polled>>

(* The loops of start() are over.                                          *)
Advance ==
    /\ \/ step = "channels" /\ up = Created /\ step' = "plugins"
       \/ step = "plugins" /\ Inited = Plugin /\ step' = "threads"
       \/ step = "threads" /\ runs = Keys /\ step' = "up"
    /\ UNCHANGED <<up, value, protocolPtr, onConnect, threadVars>>
-----------------------------------------------------------------------------
(* The protocol threads: CProtocolManager::process.                         *)

(* Mutation: a mutex for each plugin.                                       *)
LockSourceOwn(k, p) == <<k, p>>

(* The mutex on the stack of the thread.                                    *)
LockSource(k, p) == k

(* What a thread does before its loop: for each plugin, setLockSource, and   *)
(* attachFixFunc for each of its names.                                    *)
Ready(p) == lock[p] # NoKey /\ NamesIn(value[p]) \subseteq DOMAIN fixFunc
Unready(k) == {p \in Protocols(k) : ~Ready(p)}

Prepare(k) ==
    /\ \E p \in Unready(k) :
          /\ \A q \in Unready(k) : p <= q
          /\ \/ /\ lock[p] = NoKey
                /\ lock' = [lock EXCEPT ![p] = LockSource(k, p)]
                /\ UNCHANGED fixFunc
             \/ /\ lock[p] # NoKey
                /\ LET n == CHOOSE m \in NamesIn(value[p]) : m \notin DOMAIN fixFunc
                   IN  fixFunc' = Enter({n}, p, fixFunc)
                /\ UNCHANGED lock
    /\ UNCHANGED <<mainVars, runs, polled>>

(* One round of the loop: each plugin polls the devices it is given.         *)
Poll(k) ==
    /\ Unready(k) = {}
    /\ polled' = polled \cup
           UNION {{<<n, p>> : n \in NamesIn(value[p])} : p \in Protocols(k)}
    /\ UNCHANGED <<mainVars, runs, lock, fixFunc>>
-----------------------------------------------------------------------------
(* The clients of a server: clientConnected, clientDisconnect, and           *)
(* newConnectedFunc of the plugin that is told.                            *)

Server(i) == i \in up /\ cfg.tasks[i].channel = "TCPServer"

Connect(i, fd) ==
    /\ Server(i) /\ fd \notin UNION Range(client)
    /\ client' = [client EXCEPT ![i] = @ \cup {fd}]
    /\ IF onConnect[i] = 0
       THEN early' = early \cup {fd} /\ UNCHANGED vecFd
       ELSE vecFd' = [vecFd EXCEPT ![onConnect[i]] = @ \cup {fd}] /\ UNCHANGED early
    /\ UNCHANGED <<mainVars, threadVars, cmd>>

(* Mutation: the plugin forgets nobody.                                     *)
ForgetNobody(fds, fd) == fds

Forget(fds, fd) == fds \ {fd}

Disconnect(i, fd) ==
    /\ Server(i) /\ fd \in client[i]
    /\ client' = [client EXCEPT ![i] = @ \ {fd}]
    /\ vecFd' = IF onConnect[i] = 0 THEN vecFd
                ELSE [vecFd EXCEPT ![onConnect[i]] = Forget(@, fd)]
    /\ early' = early \ {fd}
    /\ UNCHANGED <<mainVars, threadVars, cmd>>
-----------------------------------------------------------------------------
(* Commands from a transmit plugin, in the thread of its server.             *)

Kind == {"controlSelect", "controlExecute", "controlCancel",
         "paramSelect", "paramExecute", "paramCancel"}

(* CDataEngine hands a cancellation on as a selection.                       *)
Passed(kind) == IF kind = "controlCancel" THEN "controlSelect" ELSE kind

Strtype(kind) ==
    IF kind \in {"controlSelect", "controlExecute", "controlCancel"}
    THEN "control" ELSE "param"

(* transInfoToDevInfo.                                                     *)
InTable(kind, id) == <<Strtype(kind), id>> \in DOMAIN cfg.table
Dot(kind, id)     == cfg.table[<<Strtype(kind), id>>]

(* It looks among the points of type control, whatever the command.          *)
bValidTransDot(dot) == dot.name \in DeviceNames /\ <<dot.name, dot.point>> \in cfg.points

Valid(kind, id) == InTable(kind, id) /\ bValidTransDot(Dot(kind, id))

(* CollModbus sends a frame for some kinds only.                            *)
Sends(kind) == kind \in {"controlSelect", "controlExecute", "paramExecute"}

(* It is refused, or handed to a plugin, which finds whatever m_mutex is.    *)
Command(kind, id) ==
    /\ \E i \in Task : onConnect[i] # 0 /\ client[i] # {}
    /\ LET k   == Passed(kind)
           name == Dot(k, id).name
           found == Valid(k, id) /\ name \in DOMAIN protocolPtr
           p   == protocolPtr[name]
       IN  cmd' = IF found
                  THEN [asked |-> kind, passed |-> k, id |-> id, found |-> TRUE,
                        name |-> name, to |-> p, sent |-> Sends(k), lock |-> lock[p]]
                  ELSE [asked |-> kind, passed |-> k, id |-> id, found |-> FALSE]
    /\ UNCHANGED <<mainVars, threadVars, clientVars>>
-----------------------------------------------------------------------------
MainStep ==
    /\ \/ InitEngine \/ StartChannel \/ Advance
       \/ \E p \in Plugin : InitPlugin(p)
       \/ \E k \in Keys : StartThread(k)
    /\ UNCHANGED <<cfg, groups, clientVars, cmd>>

ThreadStep(k) ==
    /\ k \in runs
    /\ Prepare(k) \/ Poll(k)
    /\ UNCHANGED <<cfg, groups, clientVars, cmd>>

ServerStep ==
    /\ \/ \E i \in Task, fd \in Fd : Connect(i, fd) \/ Disconnect(i, fd)
       \/ \E kind \in Kind, id \in Id : Command(kind, id)
    /\ UNCHANGED <<cfg, groups>>

Next == MainStep \/ (\E k \in AllKeys : ThreadStep(k)) \/ ServerStep

Spec == Init /\ [][Next]_vars

(* Every thread is scheduled, and calls of process() return.                *)
FairSpec == Spec /\ WF_vars(MainStep) /\ \A k \in AllKeys : WF_vars(ThreadStep(k))
-----------------------------------------------------------------------------
(* Properties.                                                             *)

Names1 == DeviceNames \cup TransNames \cup UNION {NamesOf(i) : i \in Task}

(* Types of all variables; plugins are initialised while no thread of theirs *)
(* runs.                                                                   *)
TypeOK ==
    /\ cfg \in Configs
    /\ step \in {"new", "channels", "plugins", "threads", "up", "crashed"}
    /\ up \subseteq Created
    /\ value \in [Plugin -> {0} \cup DOMAIN groups]
    /\ Range(protocolPtr) \subseteq Inited /\ DOMAIN protocolPtr \subseteq Names1
    /\ runs \subseteq Keys
    /\ runs # {} => step \in {"threads", "up"}
    /\ lock \in [Plugin -> Keys \cup {NoKey}]
    /\ Range(fixFunc) \subseteq Inited /\ DOMAIN fixFunc \subseteq Names1
    /\ polled \subseteq Names1 \X Inited
    /\ client \in [Task -> SUBSET Fd] /\ early \subseteq Fd
    /\ onConnect \in [Task -> {0} \cup Plugin]
    /\ vecFd \in [Plugin -> SUBSET Fd]
    /\ cmd # NoCmd => cmd.asked \in Kind /\ cmd.id \in Id

(* A channel that can be created, and initialised.                          *)
Usable(t) == t.channel \in {"RS-485", "TCPServer", "TCPClient", "UDP"}
             /\ (t.channel = "RS-485" => t.serial)
TaskOf(n) == {i \in DOMAIN cfg.tasks : n \in NamesOf(i)}

(* If the channels of all enabled tasks are usable and every store of a      *)
(* transmission belongs to one of them, init() reaches its end.             *)
SoundStarts ==
    (\A i \in Task : Usable(cfg.tasks[i])) /\ (\A n \in TransNames : TaskOf(n) \cap Task # {})
        => step # "crashed"

(* README.md, line 42: "enable" is the flag that says whether a task is       *)
(* enabled.  With usable channels, tasks may be enabled or not.              *)
DisabledTaskStarts ==
    (\A i \in DOMAIN cfg.tasks : Usable(cfg.tasks[i])) /\ (\A n \in TransNames : TaskOf(n) # {})
        => step # "crashed"

(* Whoever is polled has been initialised with its own configuration, has    *)
(* the mutex of the thread that polls it, and its frames go to itself.       *)
PollReady ==
    \A x \in polled :
        /\ value[x[2]] = x[2]
        /\ lock[x[2]] = Key(x[2])
        /\ x[1] \in DOMAIN fixFunc /\ fixFunc[x[1]] = x[2]

(* As long as a task has one plugin library, plugins that talk on the same   *)
(* channel share one mutex.  This is SingleMutex of SyncRequest, which its    *)
(* theorems on exchanges assume.                                           *)
OneLibraryPerTask ==
    \A p, q \in Plugin : groups[p].task = groups[q].task => Plug(p) = Plug(q)

ChannelLock ==
    OneLibraryPerTask =>
        \A p, q \in Plugin :
            groups[p].task = groups[q].task /\ NoKey \notin {lock[p], lock[q]}
                => lock[p] = lock[q]

(* When start() has returned, a command for a device whose plugin could be   *)
(* loaded finds it.  Who is found is that plugin, with its own configuration, *)
(* and it is found with the mutex of its thread or, as long as the thread    *)
(* has polled nothing for it, with none: m_mutex is then a wild pointer.      *)
Served(n) == \E p \in Plugin : n \in NamesIn(p)

CommandArrives ==
    [][cmd' # cmd =>
        /\ step = "up" /\ Valid(cmd'.passed, cmd'.id)
             /\ Served(Dot(cmd'.passed, cmd'.id).name) => cmd'.found
        /\ cmd'.found =>
             /\ cmd'.name \in NamesIn(cmd'.to) /\ value[cmd'.to] = cmd'.to
             /\ \/ cmd'.lock = Key(cmd'.to)
                \/ cmd'.lock = NoKey /\ \A x \in polled : x[2] # cmd'.to]_vars

(* When start() has returned, a transmit plugin knows just those clients     *)
(* that came since it attached itself and have not left.                    *)
ClientsKnown ==
    \A p \in Plugin : step = "up" /\ Transmits(p) =>
        /\ onConnect[groups[p].task] = p
        /\ vecFd[p] = client[groups[p].task] \ early

(* Once init() is through, every device whose plugin could be loaded will be *)
(* polled.                                                                 *)
AllPolled == \A p \in Plugin : \A n \in NamesIn(p) : <<n, p>> \in polled

EveryDevicePolled == step = "channels" ~> AllPolled
=============================================================================
