---------------------------- MODULE StartupProofs ----------------------------
(***************************************************************************)
(* Proofs about Startup, for every set of configurations that satisfies      *)
(* ConfigAssumption, and whenever clients come and commands arrive.          *)
(***************************************************************************)
EXTENDS Startup, FiniteSetTheorems, TLAPS

(* What the configuration and the arrangement of its groups are.             *)
Arranged == cfg \in Configs /\ groups \in Orders
-----------------------------------------------------------------------------
(* The groups.                                                             *)

(* There are finitely many of them.                                        *)
LEMMA GroupsFinite ==
    ASSUME cfg \in Configs
    PROVE  IsFiniteSet(Groups)
<1> DEFINE S == UNION {{i} \X DOMAIN cfg.tasks[i].content : i \in DOMAIN cfg.tasks}
           F == [x \in S |-> [task |-> x[1], type |-> cfg.tasks[x[1]].content[x[2]].type]]
           T == {F[x] : x \in S}
<1>1. IsFiniteSet(S)
  BY ConfigAssumption
<1>2. F \in Surjection(S, T)
  BY DEF Surjection
<1> HIDE DEF S, F, T
<1>3. IsFiniteSet(T)
  BY <1>1, <1>2, FS_Surjection
<1>4. Groups \subseteq T
  <2>1. SUFFICES ASSUME NEW g \in Groups PROVE g \in T
    OBVIOUS
  <2>2. PICK i \in Task : \E ty \in TypesOf(i) : g = [task |-> i, type |-> ty]
    BY DEF Groups
  <2>3. PICK ty \in TypesOf(i) : g = [task |-> i, type |-> ty]
    BY <2>2
  <2>4. i \in DOMAIN cfg.tasks
    BY DEF Task
  <2>5. PICK d \in DOMAIN cfg.tasks[i].content : cfg.tasks[i].content[d].type = ty
    BY DEF TypesOf, Range
  <2>6. <<i, d>> \in S
    BY <2>4 DEF S
  <2>7. F[<<i, d>>] = g
    BY <2>3, <2>5, <2>6 DEF F
  <2>8. QED
    BY <2>6, <2>7 DEF T
<1>5. QED
  BY <1>3, <1>4, FS_Subset

(* They are numbered, and each has a task and a type that the task has.      *)
LEMMA GroupType ==
    ASSUME Arranged
    PROVE  /\ \E n \in Nat : DOMAIN groups = 1..n
           /\ \A g \in DOMAIN groups :
                 /\ groups[g].task \in Task /\ groups[g].task \in DOMAIN cfg.tasks
                 /\ groups[g] = [task |-> groups[g].task, type |-> groups[g].type]
                 /\ groups[g].type \in TypesOf(groups[g].task)
           /\ \A g, h \in DOMAIN groups : groups[g] = groups[h] => g = h
<1>1. groups \in [1..Cardinality(Groups) -> Groups] /\ IsInjective(groups)
  BY DEF Arranged, Orders
<1>2. Cardinality(Groups) \in Nat
  BY GroupsFinite, FS_CardinalityType DEF Arranged
<1>3. ASSUME NEW g \in DOMAIN groups
      PROVE  /\ groups[g].task \in Task /\ groups[g].task \in DOMAIN cfg.tasks
             /\ groups[g] = [task |-> groups[g].task, type |-> groups[g].type]
             /\ groups[g].type \in TypesOf(groups[g].task)
  <2>1. groups[g] \in Groups
    BY <1>1
  <2>2. PICK i \in Task : \E ty \in TypesOf(i) : groups[g] = [task |-> i, type |-> ty]
    BY <2>1 DEF Groups
  <2>3. QED
    BY <2>2 DEF Task
<1>4. \A g, h \in DOMAIN groups : groups[g] = groups[h] => g = h
  BY <1>1 DEF IsInjective
<1>5. QED
  BY <1>1, <1>2, <1>3, <1>4

(* A name stands in one place of the configuration.                         *)
LEMMA Unique ==
    ASSUME cfg \in Configs, NEW i \in DOMAIN cfg.tasks, NEW j \in DOMAIN cfg.tasks,
           NEW d \in DOMAIN cfg.tasks[i].content, NEW e \in DOMAIN cfg.tasks[j].content,
           cfg.tasks[i].content[d].name = cfg.tasks[j].content[e].name
    PROVE  i = j /\ d = e
<1>1. \A c \in Configs : \A k, l \in DOMAIN c.tasks :
         \A m \in DOMAIN c.tasks[k].content, n \in DOMAIN c.tasks[l].content :
            c.tasks[k].content[m].name = c.tasks[l].content[n].name => k = l /\ m = n
  BY Zenon, ConfigAssumption
<1>2. QED
  BY ZenonT(60), <1>1

(* No two of them have a name in common.                                    *)
LEMMA NamesApart ==
    ASSUME Arranged, NEW g \in DOMAIN groups, NEW h \in DOMAIN groups,
           NEW n, n \in NamesIn(g), n \in NamesIn(h)
    PROVE  g = h
<1>1. PICK d \in Devices(g) : n = Device(g, d)
  BY DEF NamesIn
<1>2. PICK e \in Devices(h) : n = Device(h, e)
  BY DEF NamesIn
<1>3. groups[g].task \in DOMAIN cfg.tasks /\ groups[h].task \in DOMAIN cfg.tasks
  BY GroupType
<1>4. /\ d \in DOMAIN cfg.tasks[groups[g].task].content
      /\ cfg.tasks[groups[g].task].content[d].type = groups[g].type
      /\ cfg.tasks[groups[g].task].content[d].name = n
  BY <1>1 DEF Devices, Device
<1>5. /\ e \in DOMAIN cfg.tasks[groups[h].task].content
      /\ cfg.tasks[groups[h].task].content[e].type = groups[h].type
      /\ cfg.tasks[groups[h].task].content[e].name = n
  BY <1>2 DEF Devices, Device
<1>6. groups[g].task = groups[h].task /\ d = e
  BY <1>3, <1>4, <1>5, Unique DEF Arranged
<1>7. groups[g] = groups[h]
  BY <1>4, <1>5, <1>6, GroupType
<1>8. QED
  BY <1>7, GroupType

(* Their names are names of the configuration.                              *)
LEMMA NamesKnown ==
    ASSUME Arranged, NEW g \in DOMAIN groups
    PROVE  NamesIn(g) \subseteq NamesOf(groups[g].task) /\ NamesIn(g) \subseteq Names1
<1>1. groups[g].task \in Task
  BY GroupType
<1>2. NamesIn(g) \subseteq NamesOf(groups[g].task)
  BY DEF NamesIn, Devices, Device, NamesOf, Range
<1>3. QED
  BY <1>1, <1>2 DEF Names1

(* A plugin gets the configuration of its own group: every group of a key     *)
(* whose library can be loaded has a plugin, so that places agree.           *)
LEMMA ValueOfIs ==
    ASSUME Arranged, NEW p \in Plugin
    PROVE  ValueOf(Key(p), p) = p
<1> DEFINE V == Values(Key(p))
<1>1. Protocols(Key(p)) = V
  BY DEF Protocols, Values, Plugin, Key
<1>2. p \in V
  BY DEF Values, Plugin
<1>3. PICK n \in Nat : DOMAIN groups = 1..n
  BY GroupType
<1>4. V \subseteq 1..n
  BY <1>3 DEF Values
<1>5. ASSUME NEW u \in V, NEW v \in V, u < v PROVE Place(u, V) # Place(v, V)
  <2> DEFINE A == {h \in V : h < u}
             B == {h \in V : h < v}
  <2>1. A \subseteq B /\ u \in B /\ u \notin A
    BY <1>3, <1>4, <1>5
  <2>2. IsFiniteSet(B)
    BY <1>3, <1>4, FS_Interval, FS_Subset
  <2>3. Cardinality(A) # Cardinality(B)
    BY <2>1, <2>2, FS_Subset
  <2>4. QED
    BY <2>3 DEF Place
<1>6. \A v \in V : Place(v, V) = Place(p, V) => v = p
  BY <1>2, <1>3, <1>4, <1>5
<1>7. QED
  BY <1>1, <1>2, <1>6 DEF ValueOf

(* A plugin is among those of its key, and it is not the 0 of a plugin that   *)
(* has no configuration.                                                   *)
LEMMA PluginKey ==
    ASSUME Arranged, NEW p \in Plugin
    PROVE  /\ p \in DOMAIN groups /\ p # 0 /\ p \in Nat
           /\ Key(p) \in Keys /\ p \in Protocols(Key(p))
<1>1. PICK n \in Nat : DOMAIN groups = 1..n
  BY GroupType
<1>2. p \in DOMAIN groups /\ Key(p) \in Keys /\ p \in Protocols(Key(p))
  BY DEF Plugin, Keys, Protocols
<1>3. QED
  BY <1>1, <1>2

(* A task of the configuration has a number that is not that of no task.     *)
LEMMA TaskNumber ==
    ASSUME cfg \in Configs, NEW i \in Task
    PROVE  i \in DOMAIN cfg.tasks /\ i \in Nat /\ i # 0
<1>1. \A c \in Configs : DOMAIN c.tasks \subseteq Nat \ {0}
  BY Zenon, ConfigAssumption
<1>2. QED
  BY <1>1 DEF Task

(* A name leads to the channel of the one task it belongs to, if that has a   *)
(* channel.                                                                *)
LEMMA ChannelOfTask ==
    ASSUME cfg \in Configs, NEW i \in Task, NEW n \in NamesOf(i), Creates(i)
    PROVE  ChannelOf(n) = i
<1> DEFINE ts == {j \in Task : Enters(j, n)}
<1>1. i \in ts
  BY DEF Enters
<1>2. ASSUME NEW j \in ts PROVE j = i
  <2>1. i \in DOMAIN cfg.tasks /\ j \in DOMAIN cfg.tasks /\ j \in Task
    BY TaskNumber
  <2>2. PICK d \in DOMAIN cfg.tasks[i].content : cfg.tasks[i].content[d].name = n
    BY DEF NamesOf, Range
  <2>3. PICK e \in DOMAIN cfg.tasks[j].content : cfg.tasks[j].content[e].name = n
    BY DEF Enters, NamesOf, Range
  <2>4. QED
    BY <2>1, <2>2, <2>3, Unique
<1>3. i <= i
  BY TaskNumber
<1>4. ChannelOf(n) = CHOOSE k \in ts : \A j \in ts : j <= k
  BY <1>1 DEF ChannelOf
<1>5. QED
  BY <1>1, <1>2, <1>3, <1>4

(* A transmission has one name, which is its type and a store of TransStore. *)
LEMMA OneTransmission ==
    ASSUME Arranged, NEW p \in Plugin, Transmits(p)
    PROVE  /\ \A q \in Plugin : groups[q].task = groups[p].task => q = p
           /\ FirstName(p) \in TransNames
           /\ FirstName(p) \in NamesOf(groups[p].task)
<1> DEFINE t == cfg.tasks[groups[p].task]
<1>1. groups[p].task \in DOMAIN cfg.tasks /\ groups[p].task \in Task /\ p \in DOMAIN groups
  BY PluginKey, GroupType
<1>2. \A c \in Configs : \A i \in DOMAIN c.tasks :
         c.tasks[i].bTrans => /\ DOMAIN c.tasks[i].content = {1}
                              /\ c.tasks[i].content[1].name = c.tasks[i].content[1].type
                              /\ c.tasks[i].content[1].type \in DOMAIN c.plug
                                    => c.tasks[i].content[1].type \in c.transStore
  BY Zenon, ConfigAssumption
<1>3. /\ DOMAIN t.content = {1}
      /\ t.content[1].name = t.content[1].type
      /\ t.content[1].type \in DOMAIN cfg.plug => t.content[1].type \in cfg.transStore
  BY <1>1, <1>2 DEF Transmits, Arranged
<1>4. ASSUME NEW q \in Plugin, groups[q].task = groups[p].task
      PROVE  groups[q].type = t.content[1].type /\ t.content[1].type \in DOMAIN cfg.plug
  <2>1. q \in DOMAIN groups
    BY PluginKey
  <2>2. groups[q].type \in TypesOf(groups[p].task)
    BY <1>4, <2>1, GroupType
  <2>3. QED
    BY <1>3, <2>2 DEF TypesOf, Range
<1>5. ASSUME NEW q \in Plugin, groups[q].task = groups[p].task
      PROVE  q = p
  <2>1. groups[q].type = groups[p].type
    BY <1>4, <1>5
  <2>2. q \in DOMAIN groups
    BY PluginKey
  <2>3. groups[q] = groups[p]
    BY <1>1, <1>5, <2>1, <2>2, GroupType
  <2>4. QED
    BY <1>1, <2>2, <2>3, GroupType
<1>6. Devices(p) = {1}
  BY <1>3, <1>4 DEF Devices
<1>7. FirstName(p) = t.content[1].name
  <2>1. (CHOOSE j \in Devices(p) : \A k \in Devices(p) : j <= k) = 1
    BY <1>6
  <2>2. QED
    BY <2>1 DEF FirstName, Device
<1>8. FirstName(p) \in TransNames
  BY <1>3, <1>4, <1>7 DEF TransNames
<1>9. FirstName(p) \in NamesOf(groups[p].task)
  BY <1>3, <1>7 DEF NamesOf, Range
<1>10. QED
  BY <1>5, <1>8, <1>9

(* When init() has got through, a transmit plugin attaches itself to the      *)
(* channel of its own task.                                                *)
LEMMA AttachesToOwn ==
    ASSUME Arranged, NEW p \in Plugin, Transmits(p), ~InitCrashes
    PROVE  ChannelOf(FirstName(p)) = groups[p].task
<1> DEFINE n == FirstName(p)
           i == groups[p].task
           ts == {j \in Task : Enters(j, n)}
<1>1. n \in TransNames /\ n \in NamesOf(i)
  BY OneTransmission
<1>2. i \in Task
  BY PluginKey, GroupType
<1>3. ts # {}
  BY <1>1 DEF InitCrashes, ChannelOf
<1>4. PICK j \in Task : Creates(j) /\ n \in NamesOf(j)
  BY <1>3 DEF Enters
<1>5. i = j
  <2>1. i \in DOMAIN cfg.tasks /\ j \in DOMAIN cfg.tasks
    BY <1>2, TaskNumber DEF Arranged
  <2>2. PICK d \in DOMAIN cfg.tasks[i].content : cfg.tasks[i].content[d].name = n
    BY <1>1 DEF NamesOf, Range
  <2>3. PICK e \in DOMAIN cfg.tasks[j].content : cfg.tasks[j].content[e].name = n
    BY <1>4 DEF NamesOf, Range
  <2>4. QED
    BY <2>1, <2>2, <2>3, Unique DEF Arranged
<1>6. QED
  BY <1>1, <1>2, <1>4, <1>5, ChannelOfTask DEF Arranged

(* Usable channels, and a task for every transmission, let init() through.    *)
LEMMA SoundConfiguration ==
    ASSUME cfg \in Configs,
           \A i \in Task : Usable(cfg.tasks[i]),
           \A n \in TransNames : TaskOf(n) \cap Task # {}
    PROVE  ~InitCrashes
<1>1. \A i \in Task : Creates(i) /\ ~NullChannel(i) /\ ~InitFails(i)
  BY DEF Usable, Creates, NullChannel, InitFails
<1>2. ASSUME NEW n, NEW i \in Task, n \in NamesOf(i)
      PROVE  ChannelOf(n) # 0
  BY <1>1, <1>2, ChannelOfTask, TaskNumber
<1>3. \A n \in TransNames : ChannelOf(n) # 0
  BY <1>2 DEF TaskOf
<1>4. ASSUME NEW n \in DeviceNames PROVE ChannelOf(n) # 0
  <2>1. PICK i \in Task : n \in NamesOf(i)
    BY DEF DeviceNames, NamesOf
  <2>2. QED
    BY <1>2, <2>1
<1>5. QED
  BY <1>1, <1>3, <1>4 DEF InitCrashes
-----------------------------------------------------------------------------
(* The invariant.                                                          *)

(* A plugin has no configuration or its own, and all plugins have theirs      *)
(* before the first thread runs; no step beyond init() but with channels.    *)
MainInv ==
    /\ step \in {"new", "channels", "plugins", "threads", "up", "crashed"}
    /\ step \notin {"new", "crashed"} => ~InitCrashes
    /\ step = "crashed" => InitCrashes
    /\ step \in {"threads", "up"} => Inited = Plugin
    /\ up \subseteq Created
    /\ value \in [Plugin -> {0} \cup DOMAIN groups]
    /\ \A p \in Plugin : value[p] \in {0, p}
    /\ runs \subseteq Keys
    /\ runs # {} => step \in {"threads", "up"}

(* Every name leads to the plugin that has it.                              *)
PtrInv ==
    /\ \A n \in DOMAIN protocolPtr :
          protocolPtr[n] \in Inited /\ n \in NamesIn(protocolPtr[n])
    /\ \A p \in Inited : NamesIn(p) \subseteq DOMAIN protocolPtr

(* What threads have done: a plugin has the mutex of its thread or none, and  *)
(* has it before it polls.                                                 *)
ThreadInv ==
    /\ lock \in [Plugin -> Keys \cup {NoKey}]
    /\ \A p \in Plugin : lock[p] \in {NoKey, Key(p)}
    /\ \A n \in DOMAIN fixFunc : fixFunc[n] \in Inited /\ n \in NamesIn(fixFunc[n])
    /\ polled \subseteq Names1 \X Inited
    /\ \A x \in polled : /\ x[1] \in NamesIn(x[2])
                         /\ lock[x[2]] = Key(x[2])
                         /\ x[1] \in DOMAIN fixFunc

(* A server tells the transmit plugin of its own task, from the moment the    *)
(* plugin is initialised; whoever came before is early.                     *)
ClientInv ==
    /\ client \in [Task -> SUBSET Fd] /\ early \subseteq Fd
    /\ onConnect \in [Task -> {0} \cup Plugin]
    /\ vecFd \in [Plugin -> SUBSET Fd]
    /\ \A i, j \in Task : client[i] \cap client[j] # {} => i = j
    /\ \A fd \in early : \E i \in Task : fd \in client[i]
    /\ \A i \in Task : onConnect[i] # 0 =>
          /\ onConnect[i] \in Inited /\ Transmits(onConnect[i])
          /\ groups[onConnect[i]].task = i
    /\ \A i \in Task : onConnect[i] = 0 => client[i] \subseteq early
    /\ \A p \in Plugin : Transmits(p) =>
          IF p \in Inited
          THEN /\ onConnect[groups[p].task] = p
               /\ vecFd[p] = client[groups[p].task] \ early
          ELSE vecFd[p] = {}

CmdInv == cmd # NoCmd => cmd.asked \in Kind /\ cmd.id \in Id

IInv == Arranged /\ MainInv /\ PtrInv /\ ThreadInv /\ ClientInv /\ CmdInv
-----------------------------------------------------------------------------
(* The steps.                                                              *)

(* The configuration stays what it is, and what follows from it.             *)
LEMMA Fixed ==
    ASSUME UNCHANGED <<cfg, groups>>
    PROVE  /\ Task' = Task /\ Created' = Created /\ Names1' = Names1
           /\ Plugin' = Plugin /\ Keys' = Keys
           /\ InitCrashes' <=> InitCrashes
           /\ Arranged' <=> Arranged
           /\ (DOMAIN groups)' = DOMAIN groups
           /\ \A p : /\ Key(p)' = Key(p) /\ NamesIn(p)' = NamesIn(p)
                     /\ (Transmits(p))' = Transmits(p)
                     /\ (groups[p].task)' = groups[p].task
<1>1. \A i : NamesOf(i)' = NamesOf(i) /\ (Creates(i))' = Creates(i)
  BY DEF NamesOf, Creates
<1>2. Task' = Task
  BY DEF Task
<1>3. Created' = Created
  BY <1>1, <1>2 DEF Created
<1>4. DeviceNames' = DeviceNames /\ TransNames' = TransNames
  BY <1>2 DEF DeviceNames, TransNames
<1>5. Names1' = Names1
  BY <1>1, <1>2, <1>4 DEF Names1
<1>6. \A p : /\ Key(p)' = Key(p) /\ NamesIn(p)' = NamesIn(p)
             /\ (Transmits(p))' = Transmits(p)
             /\ (groups[p].task)' = groups[p].task
             /\ Plug(p)' = Plug(p)
  BY DEF Key, Plug, NamesIn, Devices, Device, Transmits
<1>7. Plugin' = Plugin
  BY <1>6 DEF Plugin
<1>8. Keys' = Keys
  BY <1>6, <1>7 DEF Keys
<1>9. \A n : ChannelOf(n)' = ChannelOf(n)
  <2>1. \A i, n : (Enters(i, n))' <=> Enters(i, n)
    BY <1>1 DEF Enters
  <2>2. \A n : {i \in Task' : (Enters(i, n))'} = {i \in Task : Enters(i, n)}
    BY <1>2, <2>1
  <2>3. SUFFICES ASSUME NEW n PROVE ChannelOf(n)' = ChannelOf(n)
    OBVIOUS
  <2> DEFINE ts == {i \in Task : Enters(i, n)}
             last(s) == IF s = {} THEN 0 ELSE CHOOSE i \in s : \A j \in s : j <= i
  <2>4. ChannelOf(n) = last(ts) /\ ChannelOf(n)' = last({i \in Task' : (Enters(i, n))'})
    BY DEF ChannelOf
  <2>5. ts = {i \in Task' : (Enters(i, n))'}
    BY <2>2
  <2> HIDE DEF ts, last
  <2>6. QED
    BY <2>4, <2>5
<1>10. InitCrashes' <=> InitCrashes
  BY <1>2, <1>4, <1>9 DEF InitCrashes, NullChannel, InitFails
<1>11. Arranged' <=> Arranged
  BY <1>2 DEF Arranged, Orders, Groups, TypesOf
<1>12. QED
  BY <1>2, <1>3, <1>5, <1>6, <1>7, <1>8, <1>10, <1>11

(* Who is initialised depends on value alone.                               *)
LEMMA InitedKept ==
    ASSUME UNCHANGED <<cfg, groups, value>>
    PROVE  Inited' = Inited
BY Fixed DEF Inited

(* What a step does not touch keeps its part of the invariant.               *)
LEMMA MainKept ==
    ASSUME IInv, UNCHANGED <<cfg, groups, step, up, value, runs>>
    PROVE  MainInv'
BY Fixed, InitedKept DEF IInv, MainInv

LEMMA PtrKept ==
    ASSUME IInv, UNCHANGED <<cfg, groups, value, protocolPtr>>
    PROVE  PtrInv'
BY Fixed, InitedKept DEF IInv, PtrInv

LEMMA ThreadKept ==
    ASSUME IInv, UNCHANGED <<cfg, groups, lock, fixFunc, polled>>, Inited \subseteq Inited'
    PROVE  ThreadInv'
<1>1. polled' \subseteq Names1' \X Inited'
  BY Fixed DEF IInv, ThreadInv
<1>2. QED
  BY <1>1, Fixed DEF IInv, ThreadInv

LEMMA ClientKept ==
    ASSUME IInv, UNCHANGED <<cfg, groups, value, onConnect, clientVars>>
    PROVE  ClientInv'
BY Fixed, InitedKept DEF IInv, ClientInv, clientVars

(* The main thread creates, starts channels and goes on.                     *)
LEMMA PlainMainStep ==
    ASSUME IInv, InitEngine \/ StartChannel \/ Advance \/ \E k \in Keys : StartThread(k),
           UNCHANGED <<cfg, groups, clientVars, cmd>>
    PROVE  IInv'
<1>1. UNCHANGED <<value, protocolPtr, onConnect, lock, fixFunc, polled>>
  BY DEF InitEngine, StartChannel, Advance, StartThread, mainVars, threadVars
<1>2. Inited' = Inited
  BY <1>1, InitedKept
<1>3. PtrInv' /\ ThreadInv' /\ ClientInv'
  BY <1>1, <1>2, PtrKept, ThreadKept, ClientKept
<1>4. MainInv'
  <2>1. CASE InitEngine
    BY <1>1, <1>2, <2>1, Fixed DEF IInv, MainInv, InitEngine, threadVars
  <2>2. CASE StartChannel
    BY <1>1, <1>2, <2>2, Fixed DEF IInv, MainInv, StartChannel, threadVars
  <2>3. CASE Advance
    BY <1>1, <1>2, <2>3, Fixed DEF IInv, MainInv, Advance, threadVars
  <2>4. ASSUME NEW k \in Keys, StartThread(k)
        PROVE  MainInv'
    BY <1>1, <1>2, <2>4, Fixed
       DEF IInv, MainInv, StartThread, ThreadsMayStart, mainVars
  <2>5. QED
    BY <2>1, <2>2, <2>3, <2>4
<1>5. Arranged' /\ CmdInv'
  BY Fixed DEF IInv, CmdInv, NoCmd
<1>6. QED
  BY <1>3, <1>4, <1>5 DEF IInv

(* A plugin is initialised with its own configuration.                      *)
LEMMA InitPluginStep ==
    ASSUME IInv, NEW p \in Plugin, InitPlugin(p),
           UNCHANGED <<cfg, groups, clientVars, cmd>>
    PROVE  IInv'
<1> USE DEF IInv
<1>1. ValueOf(Key(p), p) = p /\ p # 0 /\ p \in DOMAIN groups
  BY ValueOfIs, PluginKey
<1>2. /\ step = "plugins" /\ p \notin Inited
      /\ value' = [value EXCEPT ![p] = p]
      /\ protocolPtr' = Enter(NamesIn(p), p, protocolPtr)
      /\ UNCHANGED <<step, up, runs, lock, fixFunc, polled>>
  BY <1>1 DEF InitPlugin, Entered, threadVars
<1>3. Transmits(p) => onConnect' = [onConnect EXCEPT ![groups[p].task] = p]
  <2>1. Transmits(p) => ChannelOf(FirstName(p)) = groups[p].task
    BY <1>2, AttachesToOwn DEF MainInv
  <2>2. QED
    BY <1>1, <2>1 DEF InitPlugin
<1>4. ~Transmits(p) => onConnect' = onConnect
  BY DEF InitPlugin
<1>5. /\ value' \in [Plugin -> {0} \cup DOMAIN groups]
      /\ \A q \in Plugin : value'[q] \in {0, q}
      /\ Inited' = Inited \cup {p}
  <2>1. \A q \in Plugin : value'[q] = IF q = p THEN p ELSE value[q]
    BY <1>2 DEF MainInv
  <2>2. Inited' = {q \in Plugin : value'[q] # 0}
    BY Fixed DEF Inited
  <2>3. Inited' = Inited \cup {p}
    BY <1>1, <2>1, <2>2 DEF Inited
  <2>4. QED
    BY <1>1, <1>2, <2>1, <2>3 DEF MainInv
<1>6. MainInv'
  BY <1>2, <1>5, Fixed DEF MainInv
<1>7. PtrInv'
  <2>1. DOMAIN protocolPtr' = NamesIn(p) \cup DOMAIN protocolPtr
    BY <1>2 DEF Enter
  <2>2. \A n \in DOMAIN protocolPtr' :
           protocolPtr'[n] = IF n \in NamesIn(p) THEN p ELSE protocolPtr[n]
    BY <1>2, <2>1 DEF Enter
  <2>3. QED
    BY <1>5, <2>1, <2>2, Fixed DEF PtrInv
<1>8. ThreadInv'
  BY <1>2, <1>5, ThreadKept
<1>9. ClientInv'
  <2>1. UNCHANGED <<client, vecFd, early>>
    BY DEF clientVars
  <2>2. /\ client' \in [Task' -> SUBSET Fd] /\ early' \subseteq Fd
        /\ vecFd' \in [Plugin' -> SUBSET Fd]
        /\ \A i, j \in Task' : client'[i] \cap client'[j] # {} => i = j
        /\ \A fd \in early' : \E i \in Task' : fd \in client'[i]
    BY <2>1, Fixed DEF ClientInv
  <2>3. CASE ~Transmits(p)
    BY <1>4, <1>5, <2>1, <2>2, <2>3, Fixed DEF ClientInv
  <2>4. CASE Transmits(p)
    <3> DEFINE t == groups[p].task
    <3>1. t \in Task
      BY <1>1, GroupType
    <3>2. onConnect' \in [Task' -> {0} \cup Plugin']
      <4>1. onConnect' \in [Task -> {0} \cup Plugin]
        BY <1>3, <2>4 DEF ClientInv
      <4>2. QED
        BY <4>1, Fixed
    <3>3. \A i \in Task : onConnect'[i] = IF i = t THEN p ELSE onConnect[i]
      BY <1>3, <2>4 DEF ClientInv
    <3>4. onConnect[t] = 0
      <4>1. onConnect[t] # 0 => onConnect[t] \in Inited /\ onConnect[t] = p
        BY <2>4, <3>1, OneTransmission DEF ClientInv, Inited
      <4>2. QED
        BY <1>2, <4>1
    <3>5. client[t] \subseteq early /\ vecFd[p] = {}
      BY <1>2, <2>4, <3>1, <3>4 DEF ClientInv
    <3>6. ASSUME NEW i \in Task', onConnect'[i] # 0
          PROVE  /\ onConnect'[i] \in Inited' /\ (Transmits(onConnect[i]))'
                 /\ groups'[onConnect'[i]].task = i
      BY <1>5, <2>4, <3>3, <3>6, Fixed DEF ClientInv
    <3>7. \A i \in Task' : onConnect'[i] = 0 => client'[i] \subseteq early'
      BY <1>1, <2>1, <3>3, Fixed DEF ClientInv
    <3>8. ASSUME NEW q \in Plugin', (Transmits(q))'
          PROVE  IF q \in Inited'
                 THEN /\ onConnect'[groups'[q].task] = q
                      /\ vecFd'[q] = client'[groups'[q].task] \ early'
                 ELSE vecFd'[q] = {}
      <4>1. q \in Plugin /\ Transmits(q) /\ groups'[q].task = groups[q].task
        BY <3>8, Fixed
      <4>2. CASE q = p
        BY <1>5, <2>1, <3>1, <3>3, <3>5, <4>1, <4>2
      <4>3. CASE q # p
        <5>1. groups[q].task # t
          BY <2>4, <4>1, <4>3, OneTransmission
        <5>2. groups[q].task \in Task
          BY <4>1, PluginKey, GroupType
        <5>3. QED
          BY <1>5, <2>1, <3>3, <4>1, <4>3, <5>1, <5>2 DEF ClientInv
      <4>4. QED
        BY <4>2, <4>3
    <3>9. QED
      BY <2>2, <3>2, <3>6, <3>7, <3>8 DEF ClientInv
  <2>5. QED
    BY <2>3, <2>4
<1>10. Arranged' /\ CmdInv'
  BY Fixed DEF CmdInv, NoCmd
<1>11. QED
  BY <1>6, <1>7, <1>8, <1>9, <1>10

(* A thread gives its plugins its mutex, enters them, and polls.             *)
LEMMA ThreadStepInv ==
    ASSUME IInv, NEW k, ThreadStep(k)
    PROVE  IInv'
<1> USE DEF IInv
<1>1. UNCHANGED <<cfg, groups, value, protocolPtr, onConnect, clientVars, cmd, step, up, runs>>
  BY DEF ThreadStep, Prepare, Poll, mainVars
<1>2. Inited' = Inited
  BY <1>1, InitedKept
<1>3. MainInv' /\ PtrInv' /\ ClientInv'
  BY <1>1, MainKept, PtrKept, ClientKept
<1>4. /\ k \in Keys /\ Protocols(k) \subseteq Inited
      /\ \A p \in Protocols(k) : p \in Plugin /\ Key(p) = k /\ value[p] = p
  <2>1. k \in runs
    BY DEF ThreadStep
  <2>2. k \in Keys /\ Inited = Plugin
    BY <2>1 DEF MainInv
  <2>3. QED
    BY <2>2 DEF Protocols, MainInv, Inited
<1>5. ThreadInv'
  <2>1. CASE Prepare(k)
    <3>1. PICK p \in Unready(k) :
             \/ /\ lock[p] = NoKey
                /\ lock' = [lock EXCEPT ![p] = LockSource(k, p)]
                /\ UNCHANGED fixFunc
             \/ /\ lock[p] # NoKey
                /\ LET n == CHOOSE m \in NamesIn(value[p]) : m \notin DOMAIN fixFunc
                   IN  fixFunc' = Enter({n}, p, fixFunc)
                /\ UNCHANGED lock
      BY <2>1 DEF Prepare
    <3>2. p \in Plugin /\ p \in Inited /\ Key(p) = k /\ value[p] = p
      BY <1>4 DEF Unready
    <3>3. polled' = polled
      BY <2>1 DEF Prepare
    <3>4. CASE /\ lock[p] = NoKey
               /\ lock' = [lock EXCEPT ![p] = LockSource(k, p)]
               /\ UNCHANGED fixFunc
      <4>1. /\ lock' \in [Plugin -> Keys \cup {NoKey}]
            /\ \A q \in Plugin : lock'[q] = IF q = p THEN Key(p) ELSE lock[q]
        BY <1>4, <3>2, <3>4 DEF ThreadInv, LockSource
      <4>2. \A x \in polled : x[2] \in Plugin
        BY DEF ThreadInv, Inited
      <4>3. QED
        BY <1>2, <3>3, <3>4, <4>1, <4>2, Fixed, <1>1 DEF ThreadInv
    <3>5. CASE /\ lock[p] # NoKey
               /\ LET n == CHOOSE m \in NamesIn(value[p]) : m \notin DOMAIN fixFunc
                  IN  fixFunc' = Enter({n}, p, fixFunc)
               /\ UNCHANGED lock
      <4> DEFINE n == CHOOSE m \in NamesIn(p) : m \notin DOMAIN fixFunc
      <4>1. n \in NamesIn(p)
        BY <3>2, <3>5 DEF Unready, Ready
      <4>2. fixFunc' = Enter({n}, p, fixFunc)
        BY <3>2, <3>5
      <4> HIDE DEF n
      <4>3. DOMAIN fixFunc' = {n} \cup DOMAIN fixFunc
        BY <4>2 DEF Enter
      <4>4. \A m \in DOMAIN fixFunc' : fixFunc'[m] = IF m = n THEN p ELSE fixFunc[m]
        BY <4>2, <4>3 DEF Enter
      <4>5. \A m \in DOMAIN fixFunc' : fixFunc'[m] \in Inited /\ m \in NamesIn(fixFunc'[m])
        BY <3>2, <4>1, <4>3, <4>4 DEF ThreadInv
      <4>6. \A x \in polled : x[1] \in DOMAIN fixFunc'
        BY <4>3 DEF ThreadInv
      <4>7. lock' = lock /\ polled' = polled
        BY <3>3, <3>5
      <4>8. QED
        BY <1>1, <1>2, <4>5, <4>6, <4>7, Fixed DEF ThreadInv
    <3>6. QED
      BY <3>1, <3>4, <3>5
  <2>2. CASE Poll(k)
    <3>1. /\ UNCHANGED <<lock, fixFunc>>
          /\ polled' = polled \cup
                UNION {{<<n, p>> : n \in NamesIn(value[p])} : p \in Protocols(k)}
      BY <2>2 DEF Poll
    <3>2. ASSUME NEW x \in polled', x \notin polled
          PROVE  \E p \in Protocols(k) : x[2] = p /\ x[1] \in NamesIn(p) /\ x = <<x[1], x[2]>>
      BY <1>4, <3>1, <3>2
    <3>3. ASSUME NEW p \in Protocols(k)
          PROVE  /\ lock[p] = Key(p) /\ NamesIn(p) \subseteq DOMAIN fixFunc
                 /\ NamesIn(p) \subseteq Names1
      <4>1. Ready(p)
        BY <2>2 DEF Poll, Unready
      <4>2. p \in DOMAIN groups
        BY <1>4, PluginKey
      <4>3. QED
        BY <1>4, <4>1, <4>2, NamesKnown DEF Ready, ThreadInv
    <3>4. polled' \subseteq Names1 \X Inited
      BY <1>4, <3>2, <3>3 DEF ThreadInv
    <3>5. \A x \in polled' : /\ x[1] \in NamesIn(x[2])
                             /\ lock[x[2]] = Key(x[2])
                             /\ x[1] \in DOMAIN fixFunc
      BY <3>2, <3>3 DEF ThreadInv
    <3>6. QED
      BY <1>1, <1>2, <3>1, <3>4, <3>5, Fixed DEF ThreadInv
  <2>3. QED
    BY <2>1, <2>2 DEF ThreadStep
<1>6. Arranged' /\ CmdInv'
  BY <1>1, Fixed DEF CmdInv, NoCmd
<1>7. QED
  BY <1>3, <1>5, <1>6

(* A client comes.                                                         *)
LEMMA ConnectStep ==
    ASSUME IInv, NEW i \in Task, NEW fd \in Fd, Connect(i, fd), UNCHANGED <<cfg, groups>>
    PROVE  ClientInv'
<1> USE DEF IInv
<1>1. UNCHANGED <<value, onConnect>>
  BY DEF Connect, mainVars
<1>2. Inited' = Inited
  BY <1>1, InitedKept
<1>3. /\ client' = [client EXCEPT ![i] = @ \cup {fd}]
      /\ \A j \in Task : fd \notin client[j]
  BY DEF Connect, Range, ClientInv
<1>4. /\ client' \in [Task -> SUBSET Fd]
      /\ \A j \in Task : client'[j] = IF j = i THEN client[i] \cup {fd} ELSE client[j]
  BY <1>3 DEF ClientInv
<1>5. /\ fd \notin early
      /\ \A p \in Plugin : groups[p].task \in Task
  BY <1>3, PluginKey, GroupType DEF ClientInv
<1>6. CASE onConnect[i] = 0
  <2>1. early' = early \cup {fd} /\ vecFd' = vecFd
    BY <1>6 DEF Connect
  <2>2. \A p \in Plugin : Transmits(p) /\ p \in Inited => groups[p].task # i
    BY <1>6, PluginKey DEF ClientInv
  <2>3. \A g \in early' : \E j \in Task : g \in client'[j]
    BY <1>4, <2>1 DEF ClientInv
  <2>4. \A j, l \in Task : client'[j] \cap client'[l] # {} => j = l
    BY <1>3, <1>4 DEF ClientInv
  <2>5. \A j \in Task : onConnect[j] = 0 => client'[j] \subseteq early'
    BY <1>4, <2>1 DEF ClientInv
  <2>6. \A p \in Plugin : Transmits(p) /\ p \in Inited =>
           vecFd'[p] = client'[groups[p].task] \ early'
    BY <1>3, <1>4, <1>5, <2>1, <2>2 DEF ClientInv
  <2>7. QED
    BY <1>1, <1>2, <1>4, <2>1, <2>3, <2>4, <2>5, <2>6, Fixed DEF ClientInv
<1>7. CASE onConnect[i] # 0
  <2> DEFINE q == onConnect[i]
  <2>1. q \in Inited /\ q \in Plugin /\ Transmits(q) /\ groups[q].task = i
    BY <1>7 DEF ClientInv, Inited
  <2>2. early' = early /\ vecFd' = [vecFd EXCEPT ![q] = @ \cup {fd}]
    BY <1>7 DEF Connect
  <2>3. /\ vecFd' \in [Plugin -> SUBSET Fd]
        /\ \A p \in Plugin : vecFd'[p] = IF p = q THEN vecFd[q] \cup {fd} ELSE vecFd[p]
    BY <2>1, <2>2 DEF ClientInv
  <2>4. \A g \in early' : \E j \in Task : g \in client'[j]
    BY <1>4, <2>2 DEF ClientInv
  <2>5. \A j, l \in Task : client'[j] \cap client'[l] # {} => j = l
    BY <1>3, <1>4 DEF ClientInv
  <2>6. \A j \in Task : onConnect[j] = 0 => client'[j] \subseteq early'
    BY <1>4, <1>7, <2>2 DEF ClientInv
  <2>7. \A p \in Plugin : Transmits(p) /\ p # q => groups[p].task # i
    BY <2>1, OneTransmission
  <2>8. \A p \in Plugin : Transmits(p) =>
           IF p \in Inited THEN vecFd'[p] = client'[groups[p].task] \ early'
                           ELSE vecFd'[p] = {}
    BY <1>4, <1>5, <2>1, <2>2, <2>3, <2>7 DEF ClientInv
  <2>9. QED
    BY <1>1, <1>2, <1>4, <2>2, <2>3, <2>4, <2>5, <2>6, <2>8, Fixed DEF ClientInv
<1>8. QED
  BY <1>6, <1>7

(* A client leaves.                                                        *)
LEMMA DisconnectStep ==
    ASSUME IInv, NEW i \in Task, NEW fd \in Fd, Disconnect(i, fd), UNCHANGED <<cfg, groups>>
    PROVE  ClientInv'
<1> USE DEF IInv
<1>1. UNCHANGED <<value, onConnect>>
  BY DEF Disconnect, mainVars
<1>2. Inited' = Inited
  BY <1>1, InitedKept
<1>3. /\ client' = [client EXCEPT ![i] = @ \ {fd}]
      /\ early' = early \ {fd}
      /\ \A j \in Task : fd \in client[j] => j = i
  BY DEF Disconnect, ClientInv
<1>4. /\ client' \in [Task -> SUBSET Fd] /\ early' \subseteq Fd
      /\ \A j \in Task : client'[j] = client[j] \ {fd}
  BY <1>3 DEF ClientInv
<1>5. /\ \A g \in early' : \E j \in Task : g \in client'[j]
      /\ \A j, l \in Task : client'[j] \cap client'[l] # {} => j = l
      /\ \A j \in Task : onConnect[j] = 0 => client'[j] \subseteq early'
  BY <1>3, <1>4 DEF ClientInv
<1>6. \A p \in Plugin : groups[p].task \in Task
  BY PluginKey, GroupType
<1>7. CASE onConnect[i] = 0
  <2>1. vecFd' = vecFd
    BY <1>7 DEF Disconnect
  <2>2. \A p \in Plugin : Transmits(p) /\ p \in Inited => groups[p].task # i
    BY <1>7, PluginKey DEF ClientInv
  <2>3. \A p \in Plugin : Transmits(p) /\ p \in Inited =>
           vecFd'[p] = client'[groups[p].task] \ early'
    BY <1>3, <1>4, <1>6, <2>1, <2>2 DEF ClientInv
  <2>4. QED
    BY <1>1, <1>2, <1>4, <1>5, <2>1, <2>3, Fixed DEF ClientInv
<1>8. CASE onConnect[i] # 0
  <2> DEFINE q == onConnect[i]
  <2>1. q \in Inited /\ q \in Plugin /\ Transmits(q) /\ groups[q].task = i
    BY <1>8 DEF ClientInv, Inited
  <2>2. vecFd' = [vecFd EXCEPT ![q] = @ \ {fd}]
    BY <1>8 DEF Disconnect, Forget
  <2>3. /\ vecFd' \in [Plugin -> SUBSET Fd]
        /\ \A p \in Plugin : vecFd'[p] = IF p = q THEN vecFd[q] \ {fd} ELSE vecFd[p]
    BY <2>1, <2>2 DEF ClientInv
  <2>4. \A p \in Plugin : Transmits(p) /\ p # q => groups[p].task # i
    BY <2>1, OneTransmission
  <2>5. \A p \in Plugin : Transmits(p) =>
           IF p \in Inited THEN vecFd'[p] = client'[groups[p].task] \ early'
                           ELSE vecFd'[p] = {}
    BY <1>3, <1>4, <1>6, <2>1, <2>3, <2>4 DEF ClientInv
  <2>6. QED
    BY <1>1, <1>2, <1>4, <1>5, <2>3, <2>5, Fixed DEF ClientInv
<1>9. QED
  BY <1>7, <1>8

(* What the servers' threads do.                                           *)
LEMMA ServerStepInv ==
    ASSUME IInv, ServerStep
    PROVE  IInv'
<1>1. UNCHANGED <<cfg, groups, step, up, value, protocolPtr, onConnect,
                  runs, lock, fixFunc, polled>>
  BY DEF ServerStep, Connect, Disconnect, Command, mainVars, threadVars
<1>2. Inited' = Inited
  BY <1>1, InitedKept
<1>3. Arranged' /\ MainInv' /\ PtrInv' /\ ThreadInv'
  BY <1>1, <1>2, MainKept, PtrKept, ThreadKept, Fixed DEF IInv
<1>4. CASE \E i \in Task, fd \in Fd : Connect(i, fd) \/ Disconnect(i, fd)
  <2>1. ClientInv'
    BY <1>1, <1>4, ConnectStep, DisconnectStep
  <2>2. UNCHANGED cmd
    BY <1>4 DEF Connect, Disconnect
  <2>3. QED
    BY <1>3, <2>1, <2>2 DEF IInv, CmdInv, NoCmd
<1>5. ASSUME NEW kind \in Kind, NEW id \in Id, Command(kind, id)
      PROVE  IInv'
  <2>1. ClientInv'
    BY <1>1, <1>5, ClientKept DEF Command
  <2>2. cmd'.asked = kind /\ cmd'.id = id
    BY <1>5 DEF Command
  <2>3. QED
    BY <1>3, <2>1, <2>2 DEF IInv, CmdInv, NoCmd
<1>6. QED
  BY <1>4, <1>5 DEF ServerStep

(* The invariant holds.                                                    *)
THEOREM Invariance == Spec => []IInv
<1>1. Init => IInv
  <2> SUFFICES ASSUME Init PROVE IInv
    OBVIOUS
  <2>1. Arranged
    BY DEF Init, Arranged
  <2>2. Inited = {}
    BY DEF Init, Inited
  <2>3. MainInv
    BY <2>2 DEF Init, MainInv
  <2>4. PtrInv
    BY <2>2 DEF Init, PtrInv
  <2>5. ThreadInv
    BY DEF Init, ThreadInv
  <2>6. ClientInv
    BY <2>2 DEF Init, ClientInv
  <2>7. QED
    BY <2>1, <2>3, <2>4, <2>5, <2>6 DEF Init, IInv, CmdInv
<1>2. IInv /\ [Next]_vars => IInv'
  <2> SUFFICES ASSUME IInv, [Next]_vars PROVE IInv'
    OBVIOUS
  <2>1. CASE MainStep
    BY <2>1, PlainMainStep, InitPluginStep DEF MainStep
  <2>2. ASSUME NEW k \in AllKeys, ThreadStep(k) PROVE IInv'
    BY <2>2, ThreadStepInv
  <2>3. CASE ServerStep
    BY <2>3, ServerStepInv
  <2>4. CASE UNCHANGED vars
    <3>1. UNCHANGED <<cfg, groups, step, up, value, protocolPtr, onConnect,
                      runs, lock, fixFunc, polled, clientVars, cmd>>
      BY <2>4 DEF vars, mainVars, threadVars
    <3>2. Inited' = Inited
      BY <3>1, InitedKept
    <3>3. QED
      BY <3>1, <3>2, MainKept, PtrKept, ThreadKept, ClientKept, Fixed
         DEF IInv, CmdInv, NoCmd
  <2>5. QED
    BY <2>1, <2>2, <2>3, <2>4 DEF Next
<1>3. QED
  BY <1>1, <1>2, PTL DEF Spec
-----------------------------------------------------------------------------
(* The theorems.                                                           *)

(* Every variable keeps its type; maps of names lead to initialised plugins   *)
(* only, and no thread runs before all plugins are ready.                    *)
THEOREM TypeCorrect == Spec => []TypeOK
<1>1. IInv => TypeOK
  <2> SUFFICES ASSUME IInv PROVE TypeOK
    OBVIOUS
  <2>1. \A p \in Inited : NamesIn(p) \subseteq Names1
    BY NamesKnown, PluginKey DEF IInv, Inited
  <2>2. DOMAIN protocolPtr \subseteq Names1 /\ DOMAIN fixFunc \subseteq Names1
    BY <2>1 DEF IInv, PtrInv, ThreadInv
  <2>3. Range(protocolPtr) \subseteq Inited /\ Range(fixFunc) \subseteq Inited
    BY DEF IInv, PtrInv, ThreadInv, Range
  <2>4. QED
    BY <2>2, <2>3 DEF IInv, Arranged, MainInv, ThreadInv, ClientInv, CmdInv, TypeOK
<1>2. QED
  BY <1>1, Invariance, PTL

(* CTaskCenter::init gets through with any configuration whose channels are    *)
(* usable and whose transmissions have tasks.                               *)
THEOREM SoundStartsHolds == Spec => []SoundStarts
<1>1. IInv => SoundStarts
  BY SoundConfiguration DEF IInv, Arranged, MainInv, SoundStarts
<1>2. QED
  BY <1>1, Invariance, PTL

(* CProtocolManager::process: whoever is polled is ready for it.             *)
THEOREM PollReadyHolds == Spec => []PollReady
<1>1. IInv => PollReady
  <2> SUFFICES ASSUME IInv, NEW x \in polled
               PROVE  /\ value[x[2]] = x[2]
                      /\ lock[x[2]] = Key(x[2])
                      /\ x[1] \in DOMAIN fixFunc /\ fixFunc[x[1]] = x[2]
    BY DEF PollReady
  <2>1. /\ x[2] \in Inited /\ x[1] \in NamesIn(x[2])
        /\ lock[x[2]] = Key(x[2]) /\ x[1] \in DOMAIN fixFunc
        /\ fixFunc[x[1]] \in Inited /\ x[1] \in NamesIn(fixFunc[x[1]])
    BY DEF IInv, ThreadInv
  <2>2. value[x[2]] = x[2]
    BY <2>1 DEF IInv, MainInv, Inited
  <2>3. x[2] \in DOMAIN groups /\ fixFunc[x[1]] \in DOMAIN groups
    BY <2>1, PluginKey DEF IInv, Inited
  <2>4. QED
    BY <2>1, <2>2, <2>3, NamesApart DEF IInv
<1>2. QED
  BY <1>1, Invariance, PTL

(* setLockSource: plugins on one channel share one mutex, if their task has    *)
(* one plugin library.  So what SyncRequest assumes of its callers is so.     *)
THEOREM ChannelLockHolds == Spec => []ChannelLock
<1>1. IInv => ChannelLock
  <2> SUFFICES ASSUME IInv, OneLibraryPerTask, NEW p \in Plugin, NEW q \in Plugin,
                      groups[p].task = groups[q].task, NoKey \notin {lock[p], lock[q]}
               PROVE  lock[p] = lock[q]
    BY DEF ChannelLock
  <2>1. lock[p] = Key(p) /\ lock[q] = Key(q)
    BY DEF IInv, ThreadInv
  <2>2. QED
    BY <2>1 DEF Key, OneLibraryPerTask
<1>2. QED
  BY <1>1, Invariance, PTL

(* newConnectedFunc: a transmit plugin misses nobody who came after it was     *)
(* initialised, and keeps nobody who has left.                              *)
THEOREM ClientsKnownHolds == Spec => []ClientsKnown
<1>1. IInv => ClientsKnown
  BY DEF IInv, MainInv, ClientInv, ClientsKnown
<1>2. QED
  BY <1>1, Invariance, PTL

(* A command for a served device is not refused once start() has returned,    *)
(* and goes to the plugin of the device: under the mutex of its thread, or     *)
(* under none while the thread has polled nothing for it.                     *)
THEOREM CommandArrivesHolds == Spec => CommandArrives
<1> DEFINE Arrives ==
      cmd' # cmd =>
        /\ step = "up" /\ Valid(cmd'.passed, cmd'.id)
             /\ Served(Dot(cmd'.passed, cmd'.id).name) => cmd'.found
        /\ cmd'.found =>
             /\ cmd'.name \in NamesIn(cmd'.to) /\ value[cmd'.to] = cmd'.to
             /\ \/ cmd'.lock = Key(cmd'.to)
                \/ cmd'.lock = NoKey /\ \A x \in polled : x[2] # cmd'.to
<1>1. IInv /\ [Next]_vars => [Arrives]_vars
  <2> SUFFICES ASSUME IInv, [Next]_vars, cmd' # cmd PROVE Arrives
    OBVIOUS
  <2>1. PICK kind \in Kind, id \in Id : Command(kind, id)
    BY DEF Next, MainStep, ThreadStep, ServerStep, Connect, Disconnect, vars
  <2> DEFINE k == Passed(kind)
             name == Dot(k, id).name
             found == Valid(k, id) /\ name \in DOMAIN protocolPtr
             p == protocolPtr[name]
  <2>2. /\ cmd'.passed = k /\ cmd'.id = id /\ cmd'.found = found
        /\ found => cmd'.name = name /\ cmd'.to = p /\ cmd'.lock = lock[p]
    BY <2>1 DEF Command
  <2>3. ASSUME step = "up", Served(name) PROVE name \in DOMAIN protocolPtr
    BY <2>3 DEF IInv, MainInv, PtrInv, Served
  <2>4. ASSUME found
        PROVE  /\ name \in NamesIn(p) /\ value[p] = p
               /\ \/ lock[p] = Key(p)
                  \/ lock[p] = NoKey /\ \A x \in polled : x[2] # p
    <3>1. p \in Inited /\ name \in NamesIn(p)
      BY <2>4 DEF IInv, PtrInv
    <3>2. p \in Plugin /\ value[p] = p
      BY <3>1 DEF IInv, MainInv, Inited
    <3>3. lock[p] \in {NoKey, Key(p)} /\ \A x \in polled : lock[x[2]] = Key(x[2])
      BY <3>2 DEF IInv, ThreadInv
    <3>4. QED
      BY <3>1, <3>2, <3>3
  <2> HIDE DEF k, name, found, p
  <2>5. cmd'.found =>
          /\ cmd'.name \in NamesIn(cmd'.to) /\ value[cmd'.to] = cmd'.to
          /\ \/ cmd'.lock = Key(cmd'.to)
             \/ cmd'.lock = NoKey /\ \A x \in polled : x[2] # cmd'.to
    BY <2>2, <2>4
  <2>6. ASSUME step = "up", Valid(k, id), Served(Dot(k, id).name) PROVE cmd'.found
    BY <2>2, <2>3, <2>6 DEF found, name
  <2>7. QED
    BY <2>2, <2>5, <2>6
<1>2. QED
  BY <1>1, Invariance, PTL DEF Spec, CommandArrives
=============================================================================
