----------------------------- MODULE MqttDevice -----------------------------
(***************************************************************************)
(* mqttDevice.DeviceStruct: a device that mirrors one which another        *)
(* instance forwards to a broker.  The handler of the structure topic      *)
(* starts a routine per message; the first one subscribes to the           *)
(* availability, telemetry and realtime topics and starts the routine that *)
(* forwards commands, each of them adds the registers of its message.  The *)
(* other handlers run one after the other in the order of the messages.    *)
(* The connection to the broker may be lost with the messages on the way;  *)
(* the next one subscribes to all routes again.                            *)
(*                                                                         *)
(* The other side is RegisterForwarders and ValueSenders in short: which   *)
(* topics it offers, and whether the broker retains realtime messages, is  *)
(* a matter of its configuration; availability and structure messages are  *)
(* retained, as by default.  Each structure message has the registers of   *)
(* one batch.  The command storage is the one of ValueStorage.             *)
(***************************************************************************)
EXTENDS Integers, FiniteSets, SequencesExt

CONSTANTS
  Names,       \* registers, all writable
  Vals,        \* values of the registers
  CommandVals, \* values of the commands
  None,        \* no value, and NullRegisterValue
  Topics,      \* availability topics
  Settings,    \* configurations of the other side, and bounds: see below
  Routines,    \* those for structure messages at one time
  InCap,       \* capacity of inputChannel, 32 in the code
  OutCap,      \* subscriptionDefaultCap, 128 in the code
  InboxCap,    \* bound: messages published while others are on the way
  MaxIssues    \* bound: commands issued

Kinds == {"availability", "telemetry", "realtime", "command"}

ASSUME NoneAssumption == None \notin Vals \cup CommandVals \cup Names \cup Topics /\ Vals # {}
\* What the other side offers, its registers, whether the broker retains realtime
\* messages; the bounds on the connections made and the structure messages sent.
ASSUME SettingsAssumption ==
  Settings \subseteq [offers : SUBSET Kinds, names : SUBSET Names, retains : BOOLEAN,
                     connections : Nat, batches : Nat]
ASSUME BoundAssumption ==
  /\ IsFiniteSet(Routines) /\ IsFiniteSet(Topics) /\ IsFiniteSet(Names)
  /\ {InCap, OutCap, InboxCap} \subseteq Nat \ {0} /\ MaxIssues \in Nat

VARIABLES
  setting,     \* the configuration
  remoteUp,    \* the other device is available: telemetry is sent
  remote,      \* the values on the other side
  online,      \* the availability topics, retained
  structure,   \* the registers of the last structure message, retained
  batches,     \* number of structure messages
  snapshot,    \* the telemetry message the other side is about to publish
  connections,         \* number of connections made
  connected,   \* the client has a connection to the broker
  inbox,       \* from the broker to the client, in order
  routed,      \* what AddRoute was called for
  subscribed,  \* what the client is subscribed to on this connection
  setup,       \* subscriptionSetup
  pc,          \* the routine of each structure message
  regs,        \* and its registers
  db,          \* names in the RegisterDb
  mirror,      \* the values of this device in the state storage
  missed,      \* history: names whose last realtime message was not filled
  avail,       \* DeviceStruct.avail: topic to online or not
  available,   \* the availability in the state storage; None: never set
  commands,    \* the values of this device in the command storage
  input,       \* its inputChannel
  pending,     \* who its main routine still sends a value to: it has the mutex
  listed,      \* the command routines in the list of subscriptions
  issued,      \* number of commands issued
  commander,   \* where each command routine is
  wanted,      \* its commandRegister
  initial,     \* the commands found in the storage, not yet sent to it
  orders,      \* channel of its subscription
  reset        \* the name it is about to reset, or None

remoteVars == <<setting, remoteUp, remote, online, structure, batches, snapshot>>
linkVars == <<connections, connected, inbox, routed, subscribed>>
valueVars == <<mirror, missed, avail, available>>
routineVars == <<setup, pc, regs, db>>
storageVars == <<commands, input, pending, listed, issued>>
commanderVars == <<commander, wanted, initial, orders, reset>>
commandVars == <<storageVars, commanderVars>>
mirrorVars == <<remoteVars, linkVars, routineVars, valueVars, commandVars>>

\* The topics in the structure messages.
offers == setting.offers

MirrorInit ==
  /\ setting \in Settings /\ remoteUp = FALSE
  /\ remote = [n \in Names |-> CHOOSE v \in Vals : TRUE] /\ online = [t \in Topics |-> FALSE]
  /\ structure = {} /\ batches = 0 /\ snapshot = <<>>
  /\ connections = 0 /\ connected = FALSE /\ inbox = <<>>
  /\ routed = {"structure"} /\ subscribed = {} /\ setup = FALSE
  /\ pc = [j \in Routines |-> "none"] /\ regs = [j \in Routines |-> {}] /\ db = {}
  /\ mirror = [n \in Names |-> None] /\ missed = Names /\ avail = {} /\ available = None
  /\ commands = [n \in Names |-> None]
  /\ input = <<>> /\ pending = <<>> /\ listed = <<>> /\ issued = 0
  /\ commander = [j \in Routines |-> "none"] /\ wanted = [j \in Routines |-> {}]
  /\ initial = [j \in Routines |-> {}] /\ orders = [j \in Routines |-> <<>>]
  /\ reset = [j \in Routines |-> None]

Room == Len(inbox) < InboxCap

\* The broker delivers what the client is subscribed to.
Send(kind, m) == inbox' = IF kind \in subscribed THEN Append(inbox, m) ELSE inbox

\* The retained messages it sends on a subscription.
Retained(kinds) ==
  LET availability == {[kind |-> "availability", topic |-> t, val |-> online[t]] : t \in Topics}
      realtime == {[kind |-> "realtime", name |-> n, val |-> remote[n]] : n \in setting.names}
      batch == {[kind |-> "structure", names |-> structure]}
  IN SetToSeq(IF "availability" \in kinds THEN availability ELSE {})
       \o SetToSeq(IF "realtime" \in kinds /\ setting.retains THEN realtime ELSE {})
       \o SetToSeq(IF "structure" \in kinds /\ structure # {} THEN batch ELSE {})

\* ConnectionManager.Subscribe, whose error is logged or ignored.
SubscribesTo(kinds) ==
  \/ /\ connected'
     /\ subscribed' = subscribed \cup kinds /\ inbox' = inbox \o Retained(kinds)
  \/ UNCHANGED <<subscribed, inbox>>

-----------------------------------------------------------------------------
\* onConnectionUp subscribes to all routes.
Connected ==
  /\ ~connected /\ connections < setting.connections
  /\ connected' = TRUE /\ connections' = connections + 1
  /\ SubscribesTo(routed)
  /\ UNCHANGED <<remoteVars, routed, routineVars, valueVars, commandVars>>

\* Some of the messages on the way have come; the session ends.
ConnectionLoses ==
  /\ connected
  /\ connected' = FALSE /\ subscribed' = {}
  /\ \E k \in 0..Len(inbox) :
       /\ inbox' = SubSeq(inbox, 1, k)
       /\ missed' = missed \cup {n \in Names : \E i \in (k + 1)..Len(inbox) :
                                    inbox[i].kind = "realtime" /\ inbox[i].name = n}
  /\ UNCHANGED <<remoteVars, connections, routed, routineVars, mirror, avail, available,
                 commandVars>>

-----------------------------------------------------------------------------
\* The other side: a change of a value in realtime.
RemoteValue(n, v) ==
  /\ {"realtime", "telemetry"} \cap offers # {} /\ n \in setting.names /\ Room /\ remote[n] # v
  /\ remote' = [remote EXCEPT ![n] = v]
  /\ Send("realtime", [kind |-> "realtime", name |-> n, val |-> v])
  /\ missed' = IF "realtime" \in subscribed THEN missed ELSE missed \cup {n}
  /\ UNCHANGED <<setting, remoteUp, online, structure, batches, snapshot, connections,
                 connected, routed, subscribed, routineVars, mirror, avail, available,
                 commandVars>>

\* The other device becomes available, or is so no more.
RemoteTurns ==
  /\ "telemetry" \in offers
  /\ remoteUp' = ~remoteUp
  /\ UNCHANGED <<setting, remote, online, structure, batches, snapshot, linkVars, routineVars,
                 valueVars, commandVars>>

\* Telemetry: a tick while the device is available; the values are read, then
\* published.
RemoteSnapshot ==
  /\ "telemetry" \in offers /\ remoteUp /\ snapshot = <<>>
  /\ snapshot' = <<remote>>
  /\ UNCHANGED <<setting, remoteUp, remote, online, structure, batches, linkVars, routineVars,
                 valueVars, commandVars>>

RemoteTelemetry ==
  /\ snapshot # <<>> /\ Room
  /\ Send("telemetry", [kind |-> "telemetry", vals |-> snapshot[1]])
  /\ snapshot' = <<>>
  /\ UNCHANGED <<setting, remoteUp, remote, online, structure, batches, connections, connected,
                 routed, subscribed, routineVars, valueVars, commandVars>>

RemoteAvailable(t) ==
  /\ "availability" \in offers /\ Room
  /\ online' = [online EXCEPT ![t] = ~online[t]]
  /\ Send("availability", [kind |-> "availability", topic |-> t, val |-> ~online[t]])
  /\ UNCHANGED <<setting, remoteUp, remote, structure, batches, snapshot, connections,
                 connected, routed, subscribed, routineVars, valueVars, commandVars>>

\* A structure message with the registers of a batch.
RemoteStructure(batch) ==
  /\ batch # {} /\ batch \subseteq setting.names /\ Room /\ batches < setting.batches
  /\ structure' = batch /\ batches' = batches + 1
  /\ Send("structure", [kind |-> "structure", names |-> batch])
  /\ UNCHANGED <<setting, remoteUp, remote, online, snapshot, connections, connected, routed,
                 subscribed, routineVars, valueVars, commandVars>>

-----------------------------------------------------------------------------
\* What a handler changes of the link: it takes the message.
Takes(kind) ==
  /\ inbox # <<>> /\ Head(inbox).kind = kind
  /\ inbox' = Tail(inbox)
  /\ UNCHANGED <<remoteVars, connections, connected, routed, subscribed, commandVars>>

\* The handler of the structure topic starts a routine.
HandleStructure ==
  /\ Takes("structure")
  /\ \E j \in Routines :
       /\ pc[j] = "none"
       /\ pc' = [pc EXCEPT ![j] = "load"]
       /\ regs' = [regs EXCEPT ![j] = Head(inbox).names]
  /\ UNCHANGED <<setup, db, valueVars>>

LoadSetup(j) ==
  /\ pc[j] = "load"
  /\ pc' = [pc EXCEPT ![j] = IF setup THEN "update" ELSE "store"]
  /\ UNCHANGED <<remoteVars, linkVars, setup, regs, db, valueVars, commandVars>>

StoreSetup(j) ==
  /\ pc[j] = "store"
  /\ setup' = TRUE
  /\ pc' = [pc EXCEPT ![j] = "availability"]
  /\ UNCHANGED <<remoteVars, linkVars, regs, db, valueVars, commandVars>>

\* The three subscriptions, one after the other, of what is offered: AddRoute
\* lists the route, then subscribes.
SetupSubscription(j) ==
  /\ pc[j] \in {"availability", "telemetry", "realtime"}
  /\ UNCHANGED <<remoteVars, connections, connected, setup, regs, db, valueVars, commandVars>>
  /\ LET kinds == {pc[j]} \cap offers
     IN routed' = routed \cup kinds /\ SubscribesTo(kinds)
  /\ pc' = [pc EXCEPT ![j] = CASE pc[j] = "availability" -> "telemetry"
                               [] pc[j] = "telemetry" -> "realtime"
                               [] OTHER -> "command"]

\* The routine for commands gets the registers of this message
\* (filterCommandRegisters).
StartCommander(j) ==
  /\ pc[j] = "command"
  /\ IF "command" \in offers
       THEN /\ commander' = [commander EXCEPT ![j] = "subscribe"]
            /\ wanted' = [wanted EXCEPT ![j] = regs[j]]
       ELSE UNCHANGED <<commander, wanted>>
  /\ pc' = [pc EXCEPT ![j] = "update"]
  /\ UNCHANGED <<remoteVars, linkVars, setup, regs, db, valueVars, storageVars, initial, orders,
                 reset>>

\* updateRegisters, with which the routine ends.
UpdateRegisters(j) ==
  /\ pc[j] = "update"
  /\ db' = db \cup regs[j]
  /\ pc' = [pc EXCEPT ![j] = "none"] /\ regs' = [regs EXCEPT ![j] = {}]
  /\ UNCHANGED <<remoteVars, linkVars, setup, valueVars, commandVars>>

-----------------------------------------------------------------------------
\* Mutant: the last availability message decides alone.
HandleAvailable_last ==
  /\ Takes("availability")
  /\ avail' = (IF Head(inbox).val THEN avail \cup {Head(inbox).topic}
                                  ELSE avail \ {Head(inbox).topic})
  /\ available' = Head(inbox).val
  /\ UNCHANGED <<routineVars, mirror, missed>>

\* The handler of an availability topic; avail holds the topics that are online.
HandleAvailable ==
  /\ Takes("availability")
  /\ avail' = (IF Head(inbox).val THEN avail \cup {Head(inbox).topic}
                                  ELSE avail \ {Head(inbox).topic})
  /\ available' = (Cardinality(avail') = Cardinality(Topics))
  /\ UNCHANGED <<routineVars, mirror, missed>>

\* Mutant: telemetry fills only what has no value yet.
HandleTelemetry_once ==
  /\ Takes("telemetry")
  /\ mirror' = [n \in Names |->
       IF n \in db /\ mirror[n] = None THEN Head(inbox).vals[n] ELSE mirror[n]]
  /\ UNCHANGED <<routineVars, missed, avail, available>>

\* The handler of the telemetry topic: every known register.
HandleTelemetry ==
  /\ Takes("telemetry")
  /\ mirror' = [n \in Names |-> IF n \in db THEN Head(inbox).vals[n] ELSE mirror[n]]
  /\ UNCHANGED <<routineVars, missed, avail, available>>

\* Mutant: realtime messages fill only what has no value yet.
HandleRealtime_once ==
  /\ Takes("realtime")
  /\ LET m == Head(inbox)
     IN IF m.name \in db
          THEN /\ mirror' = [mirror EXCEPT ![m.name] = IF @ = None THEN m.val ELSE @]
               /\ missed' = missed \ (IF m.val = remote[m.name] THEN {m.name} ELSE {})
          ELSE mirror' = mirror /\ missed' = missed \cup {m.name}
  /\ UNCHANGED <<routineVars, avail, available>>

\* The handler of the realtime topics: a register not known yet is ignored.
HandleRealtime ==
  /\ Takes("realtime")
  /\ LET m == Head(inbox)
     IN IF m.name \in db
          THEN /\ mirror' = [mirror EXCEPT ![m.name] = m.val]
               /\ missed' = missed \ (IF m.val = remote[m.name] THEN {m.name} ELSE {})
          ELSE mirror' = mirror /\ missed' = missed \cup {m.name}
  /\ UNCHANGED <<routineVars, avail, available>>

-----------------------------------------------------------------------------
\* A command from a forwarder or the web interface, for a register it knows.
Issue(n, v) ==
  /\ "command" \in offers /\ n \in db /\ issued < MaxIssues /\ Len(input) < InCap
  /\ input' = Append(input, [name |-> n, val |-> v]) /\ issued' = issued + 1
  /\ UNCHANGED <<remoteVars, linkVars, routineVars, valueVars, commands, pending, listed,
                 commanderVars>>

\* The subscriptions that are sent a value, in the order of the list.
Receivers(c) ==
  LET js == SelectSeq(listed, LAMBDA j : c.name \in wanted[j])
  IN [i \in DOMAIN js |-> [to |-> js[i], order |-> c]]

\* The main routine of the storage: an equal value is no change.
StorageTakes ==
  /\ input # <<>> /\ pending = <<>>
  /\ LET c == Head(input)
     IN IF c.val # None /\ commands[c.name] = c.val THEN UNCHANGED <<commands, pending>>
        ELSE commands' = [commands EXCEPT ![c.name] = c.val] /\ pending' = Receivers(c)
  /\ input' = Tail(input)
  /\ UNCHANGED <<remoteVars, linkVars, routineVars, valueVars, listed, issued, commanderVars>>

StorageSends ==
  /\ pending # <<>>
  /\ LET j == Head(pending).to
     IN /\ Len(orders[j]) < OutCap
        /\ orders' = [orders EXCEPT ![j] = Append(orders[j], Head(pending).order)]
  /\ pending' = Tail(pending)
  /\ UNCHANGED <<remoteVars, linkVars, routineVars, valueVars, commands, input, listed, issued,
                 commander, wanted, initial, reset>>

\* runCommandForwarder: SubscribeSendInitial,
SubscribeCommands(j) ==
  /\ commander[j] = "subscribe" /\ pending = <<>>
  /\ listed' = Append(listed, j)
  /\ initial' = [initial EXCEPT ![j] = {[name |-> n, val |-> commands[n]] :
                                          n \in {x \in wanted[j] : commands[x] # None}}]
  /\ commander' = [commander EXCEPT ![j] = "loop"]
  /\ UNCHANGED <<remoteVars, linkVars, routineVars, valueVars, commands, input, pending, issued,
                 wanted, orders, reset>>

\* whose routine sends what was in the storage, perhaps after newer commands.
SendInitial(j) ==
  /\ Len(orders[j]) < OutCap
  /\ \E c \in initial[j] :
       /\ orders' = [orders EXCEPT ![j] = Append(orders[j], c)]
       /\ initial' = [initial EXCEPT ![j] = initial[j] \ {c}]
  /\ UNCHANGED <<remoteVars, linkVars, routineVars, valueVars, storageVars, commander, wanted,
                 reset>>

\* A command is published, a reset is passed over.
ForwardCommand(j) ==
  /\ reset[j] = None /\ orders[j] # <<>>
  /\ LET c == Head(orders[j])
     IN reset' = IF c.val = None THEN reset ELSE [reset EXCEPT ![j] = c.name]
  /\ orders' = [orders EXCEPT ![j] = Tail(orders[j])]
  /\ UNCHANGED <<remoteVars, linkVars, routineVars, valueVars, storageVars, commander, wanted,
                 initial>>

\* Mutant: the command itself is filled again.
ResetCommand_refills(j) ==
  /\ reset[j] # None /\ Len(input) < InCap
  /\ input' = Append(input, [name |-> reset[j], val |-> CHOOSE v \in CommandVals : TRUE])
  /\ reset' = [reset EXCEPT ![j] = None]
  /\ UNCHANGED <<remoteVars, linkVars, routineVars, valueVars, commands, pending, listed,
                 issued, commander, wanted, initial, orders>>

\* "reset the command; this allows the same command (e.g. toggle) to be sent again"
ResetCommand(j) ==
  /\ reset[j] # None /\ Len(input) < InCap
  /\ input' = Append(input, [name |-> reset[j], val |-> None])
  /\ reset' = [reset EXCEPT ![j] = None]
  /\ UNCHANGED <<remoteVars, linkVars, routineVars, valueVars, commands, pending, listed,
                 issued, commander, wanted, initial, orders>>

-----------------------------------------------------------------------------
Remote ==
  \/ \E n \in Names, v \in Vals : RemoteValue(n, v)
  \/ \E t \in Topics : RemoteAvailable(t)
  \/ \E batch \in SUBSET Names : RemoteStructure(batch)
  \/ RemoteTurns \/ RemoteSnapshot \/ RemoteTelemetry

Handle == HandleStructure \/ HandleAvailable \/ HandleTelemetry \/ HandleRealtime
Routine(j) ==
  LoadSetup(j) \/ StoreSetup(j) \/ SetupSubscription(j) \/ StartCommander(j) \/ UpdateRegisters(j)
Storage == StorageTakes \/ StorageSends
Commander(j) == SubscribeCommands(j) \/ ForwardCommand(j) \/ ResetCommand(j)

MirrorNext ==
  \/ Connected \/ ConnectionLoses \/ Remote \/ Handle \/ Storage
  \/ \E n \in Names, v \in CommandVals : Issue(n, v)
  \/ \E j \in Routines : Routine(j) \/ Commander(j) \/ SendInitial(j)

MirrorSpec == MirrorInit /\ [][MirrorNext]_mirrorVars

\* Each routine goes on while it can.  On the other side the ticker of telemetry
\* ticks while the device stays available, and what it publishes is delivered in
\* the end, whatever else is published.
Fairness ==
  /\ WF_mirrorVars(Handle) /\ WF_mirrorVars(RemoteSnapshot) /\ SF_mirrorVars(RemoteTelemetry)
  /\ WF_mirrorVars(Storage)
  /\ \A j \in Routines : /\ WF_mirrorVars(Routine(j)) /\ WF_mirrorVars(Commander(j))
                         /\ WF_mirrorVars(SendInitial(j))

FairSpec == MirrorSpec /\ Fairness
-----------------------------------------------------------------------------
Mirrors == [Names -> Vals \cup {None}]
Commands == [name : Names, val : CommandVals \cup {None}]

\* Every variable has its type.
MirrorTypeOK ==
  /\ setting \in Settings /\ {remoteUp, connected, setup} \subseteq BOOLEAN
  /\ remote \in [Names -> Vals] /\ online \in [Topics -> BOOLEAN] /\ structure \subseteq Names
  /\ Len(snapshot) <= 1 /\ \A i \in 1..Len(inbox) : inbox[i].kind \in Kinds \cup {"structure"}
  /\ connections \in 0..setting.connections /\ batches \in 0..setting.batches
  /\ subscribed \subseteq routed /\ routed \subseteq {"structure"} \cup (offers \ {"command"})
  /\ pc \in [Routines -> {"none", "load", "store", "availability", "telemetry", "realtime",
                          "command", "update"}]
  /\ regs \in [Routines -> SUBSET Names] /\ db \subseteq Names /\ missed \subseteq Names
  /\ mirror \in Mirrors /\ avail \subseteq Topics /\ available \in BOOLEAN \cup {None}
  /\ commands \in [Names -> CommandVals \cup {None}]
  /\ input \in Seq(Commands) /\ Len(input) <= InCap
  /\ pending \in Seq([to : Routines, order : Commands]) /\ listed \in Seq(Routines)
  /\ issued \in 0..MaxIssues
  /\ commander \in [Routines -> {"none", "subscribe", "loop"}]
  /\ wanted \in [Routines -> SUBSET Names] /\ initial \in [Routines -> SUBSET Commands]
  /\ \A j \in Routines : /\ orders[j] \in Seq(Commands) /\ Len(orders[j]) <= OutCap
                         /\ \A i \in 1..Len(orders[j]) : orders[j][i].name \in wanted[j]
  /\ reset \in [Routines -> Names \cup {None}]

\* What the handlers know of a topic when they have handled all messages.
WillBeOnline(t) ==
  LET of == {i \in 1..Len(inbox) : inbox[i].kind = "availability" /\ inbox[i].topic = t}
  IN IF of = {} THEN t \in avail
     ELSE inbox[CHOOSE i \in of : \A k \in of : k <= i].val

\* The device is shown as available exactly if all topics are online: whatever
\* the order of the messages, however often it was set up, and after a connection
\* that was lost with messages on the way.
AvailabilityFollows ==
  /\ "availability" \in subscribed => \A t \in Topics : WillBeOnline(t) = online[t]
  /\ available # None => available = (avail = Topics)

\* With telemetry a value that stays is known in the end, though realtime messages
\* for registers not known yet are dropped and telemetry may be older than what it
\* overwrites; but only if the other device stays available, and the subscription
\* stays: else an old value may stay for good.
MirrorCatchesUp ==
  \A n \in Names : \A v \in Vals :
    n \in db /\ "telemetry" \in subscribed /\ remote[n] = v
      ~> mirror[n] = v \/ remote[n] # v \/ ~remoteUp \/ "telemetry" \notin subscribed

\* With realtime messages alone an old value is shown only for want of the last
\* message: sent while not subscribed, lost, or handled before the register was
\* known; whatever connections, retained messages and structure messages do.
RealtimeReaches ==
  "telemetry" \notin offers =>
    \A n \in Names \ missed :
      \/ \E i \in 1..Len(inbox) : inbox[i].kind = "realtime" /\ inbox[i].name = n
      \/ mirror[n] = remote[n]

Unwanted(n) == \A j \in Routines : n \notin wanted[j]

\* The storage waits for room in the channel of a command routine, which waits in
\* Fill for room in the channel of the storage.
CommandCircle ==
  /\ pending # <<>> /\ Len(input) = InCap
  /\ LET j == Head(pending).to IN Len(orders[j]) = OutCap /\ reset[j] # None

\* A command for a register of a message that set up the device is taken and
\* reset, though initial commands follow newer ones, unless the command routine and
\* the storage wait for each other; one for a register of a later message stays in
\* the storage for good.
CommandsReset ==
  /\ \A n \in Names :
       commands[n] # None ~> commands[n] = None \/ Unwanted(n) \/ CommandCircle
  /\ [][\A n \in Names : commands[n] # None /\ Unwanted(n) => commands'[n] # None]_mirrorVars
=============================================================================
