------------------------------ MODULE Startup ------------------------------
(***************************************************************************)
(* The program as a whole: the configuration it accepts, the order in      *)
(* which main starts the buses, devices, clients, forwarders and the web   *)
(* server, the pools it keeps them in, and the order in which the deferred *)
(* calls stop them.  A routine per MQTT client looks up the devices to     *)
(* forward while main goes on starting devices.                            *)
(*                                                                         *)
(* Of the configuration there are the names and what refers to them; a     *)
(* device is its section and its name, for names are unique only within a  *)
(* section.  The sections are started in the order of the names, which     *)
(* nothing depends on: here in any order.                                  *)
(***************************************************************************)
EXTENDS Integers, FiniteSets

CONSTANTS
  Names,        \* names of devices
  None,         \* no device of the name in the pool
  Configs       \* configurations as read, see IsConfig

EarlySections == {"victron", "modbus", "gpio", "http", "mqtt"}
Sections == EarlySections \cup {"genset"}

\* What a client forwards of a device, in the order of RunMqttForwarders.
Order == <<"hass", "availability", "structure", "telemetry", "realtime", "command">>
Forwarders == {Order[i] : i \in 1..6}

IsConfig(c) ==
  /\ c.devices \in [Sections -> SUBSET Names]
  /\ c.bus \in [Names -> STRING]
  /\ c.bindings \in SUBSET Names
  /\ c.viewed \in SUBSET Names
  /\ \A m \in DOMAIN c.clients :
       /\ c.clients[m].receives \in SUBSET Names
       /\ c.clients[m].readOnly \in BOOLEAN
       /\ c.clients[m].enabled \in SUBSET Forwarders
       /\ c.clients[m].listed \in [Forwarders -> SUBSET Names]

ASSUME NoneAssumption == \A s \in Sections, n \in Names : None # [section |-> s, name |-> n]
ASSUME ConfigAssumption == \A c \in Configs : IsConfig(c)

-----------------------------------------------------------------------------
(***************************************************************************)
(* The configuration.                                                      *)
(***************************************************************************)

DevicesOf(c, s) == {[section |-> s, name |-> n] : n \in c.devices[s]}

Devices(c) == UNION {DevicesOf(c, s) : s \in Sections}

NamesIn(c, S) == UNION {c.devices[s] : s \in S}

\* What a client may forward: no device that it receives.
NonLoop(c, m) == NamesIn(c, Sections) \ c.clients[m].receives

\* The devices of a section of a client; without a list, all of them.
SectionDevices(c, m, f) ==
  IF c.clients[m].listed[f] = {} THEN NonLoop(c, m) ELSE c.clients[m].listed[f]

\* A client that may only read still sends commands.
Enabled(c, m, f) ==
  /\ f \in c.clients[m].enabled
  /\ c.clients[m].readOnly => f = "command"

\* References that lead nowhere.  A genset is bound to devices of the other
\* sections; the list of a disabled section is looked at as well.
ModbusErrors(c) == {n \in c.devices["modbus"] : c.bus[n] \notin c.modbus}

GensetErrors(c) ==
  {n \in c.bindings : c.devices["genset"] # {} /\ n \notin NamesIn(c, EarlySections)}

ReceiveErrors(c, m) == c.clients[m].receives \ c.devices["mqtt"]

ListErrors(c, m, f) == SectionDevices(c, m, f) \ NonLoop(c, m)

ClientErrors(c) ==
  UNION {ReceiveErrors(c, m) \cup UNION {ListErrors(c, m, f) : f \in Forwarders}
         : m \in DOMAIN c.clients}

ViewErrors(c) == c.viewed \ NamesIn(c, Sections)

Accepted(c) ==
  /\ ModbusErrors(c) = {} /\ GensetErrors(c) = {}
  /\ ClientErrors(c) = {} /\ ViewErrors(c) = {}

\* The list of what a client may forward is made with room for the devices less
\* those it receives: with less than none, making it fails.
Panics(c) ==
  \E m \in DOMAIN c.clients :
    Cardinality(Devices(c)) < Cardinality(c.clients[m].receives)

-----------------------------------------------------------------------------
VARIABLES
  cfg,          \* the configuration
  stage,        \* what main is doing
  todo,         \* what is left of it
  up,           \* the storages and the web server
  buses,        \* modbusPool
  clients,      \* the clients of mqttClientPool that run
  pool,         \* devicePool
  running,      \* devices whose restarter runs, in the pool or not
  lookup,       \* where the forwarders' routine of each client is
  forwarded     \* <<client, section, device>> a forwarder was started for

mainVars == <<stage, todo>>
vars == <<cfg, mainVars, up, buses, clients, pool, running, lookup, forwarded>>

Storages == {"state", "command"}

\* Mutant: the forwarders are started before the devices that are read by MQTT.
After_forwardersFirst == [
  buses |-> "victron", victron |-> "modbus", modbus |-> "gpio", gpio |-> "http",
  http |-> "clients", clients |-> "forwarders", forwarders |-> "mqtt",
  mqtt |-> "genset", genset |-> "server",
  stopClients |-> "stopDevices", stopDevices |-> "stopBuses",
  stopBuses |-> "stopStorages"]

\* Mutant: the buses are closed before the devices are stopped.
After_busesFirst == [
  buses |-> "victron", victron |-> "modbus", modbus |-> "gpio", gpio |-> "http",
  http |-> "clients", clients |-> "mqtt", mqtt |-> "forwarders",
  forwarders |-> "genset", genset |-> "server",
  stopClients |-> "stopBuses", stopBuses |-> "stopDevices",
  stopDevices |-> "stopStorages"]

\* The stages in the order of main and its deferred calls.
After == [
  buses |-> "victron", victron |-> "modbus", modbus |-> "gpio", gpio |-> "http",
  http |-> "clients", clients |-> "mqtt", mqtt |-> "forwarders",
  forwarders |-> "genset", genset |-> "server",
  stopClients |-> "stopDevices", stopDevices |-> "stopBuses",
  stopBuses |-> "stopStorages"]

Work(s) ==
  CASE s = "buses" -> cfg.modbus
    [] s \in Sections -> DevicesOf(cfg, s)
    [] s \in {"clients", "stopClients"} -> DOMAIN cfg.clients
    [] s = "stopDevices" -> {n \in Names : pool[n] # None}
    [] s = "stopBuses" -> buses
    [] OTHER -> {}

Enter(s) == stage' = s /\ todo' = Work(s)

Init ==
  /\ cfg \in Configs
  /\ stage = "config" /\ todo = {}
  /\ up = {} /\ buses = {} /\ clients = {}
  /\ pool = [n \in Names |-> None]
  /\ running = {}
  /\ lookup = [m \in DOMAIN cfg.clients |-> [at |-> 0, left |-> {}]]
  /\ forwarded = {}

-----------------------------------------------------------------------------
(***************************************************************************)
(* Starting.                                                               *)
(***************************************************************************)

\* getConfig: a configuration that is not accepted ends the program.
ReadConfig ==
  /\ stage = "config"
  /\ IF Accepted(cfg) /\ ~Panics(cfg)
     THEN Enter("buses") /\ up' = Storages
     ELSE stage' = "exited" /\ UNCHANGED <<todo, up>>
  /\ UNCHANGED <<cfg, buses, clients, pool, running, lookup, forwarded>>

\* A bus whose port cannot be opened is left out.
StartBus(b) ==
  /\ stage = "buses" /\ b \in todo
  /\ todo' = todo \ {b}
  /\ \E opened \in BOOLEAN : buses' = IF opened THEN buses \cup {b} ELSE buses
  /\ UNCHANGED <<cfg, stage, up, clients, pool, running, lookup, forwarded>>

\* A device of a bus that is not there is left out; so is a gpio device with a
\* chip or pin that cannot be had.
MayStart(d) == d.section = "modbus" => cfg.bus[d.name] \in buses

MayFail(d) == d.section = "gpio" \/ ~MayStart(d)

\* A device of the same name is no longer in the pool, but runs on.
Add(d) == pool' = [pool EXCEPT ![d.name] = d]

Start(d) ==
  /\ stage = d.section /\ d \in todo /\ MayStart(d)
  /\ todo' = todo \ {d}
  /\ running' = running \cup {d}
  /\ Add(d)
  /\ UNCHANGED <<cfg, stage, up, buses, clients, lookup, forwarded>>

LeaveOut(d) ==
  /\ stage = d.section /\ d \in todo /\ MayFail(d)
  /\ todo' = todo \ {d}
  /\ UNCHANGED <<cfg, stage, up, buses, clients, pool, running, lookup, forwarded>>

StartClient(m) ==
  /\ stage = "clients" /\ m \in todo
  /\ todo' = todo \ {m}
  /\ clients' = clients \cup {m}
  /\ UNCHANGED <<cfg, stage, up, buses, pool, running, lookup, forwarded>>

-----------------------------------------------------------------------------
(***************************************************************************)
(* The forwarders: a routine for each client.                              *)
(***************************************************************************)

Lookups(m, i) ==
  [at |-> i,
   left |-> IF i \in 1..6 /\ Enabled(cfg, m, Order[i])
            THEN SectionDevices(cfg, m, Order[i]) ELSE {}]

StartForwarders ==
  /\ stage = "forwarders"
  /\ lookup' = [m \in DOMAIN cfg.clients |-> Lookups(m, 1)]
  /\ Enter(After[stage])
  /\ UNCHANGED <<cfg, up, buses, clients, pool, running, forwarded>>

\* A device that is not in the pool is passed over for good.
Forward(m, n) ==
  /\ stage # "exited"
  /\ n \in lookup[m].left
  /\ lookup' = [lookup EXCEPT ![m].left = @ \ {n}]
  /\ forwarded' = IF pool[n] = None THEN forwarded
                  ELSE forwarded \cup {<<m, Order[lookup[m].at], pool[n]>>}
  /\ UNCHANGED <<cfg, mainVars, up, buses, clients, pool, running>>

\* After hass the routine sleeps for a second.  Nothing makes main done by then.
NextForwarder(m) ==
  /\ stage # "exited"
  /\ lookup[m].at \in 1..6 /\ lookup[m].left = {}
  /\ lookup' = [lookup EXCEPT ![m] = Lookups(m, lookup[m].at + 1)]
  /\ UNCHANGED <<cfg, mainVars, up, buses, clients, pool, running, forwarded>>

-----------------------------------------------------------------------------
(***************************************************************************)
(* The stages of main, and stopping.                                       *)
(***************************************************************************)

StageDone ==
  /\ stage \in (DOMAIN After) \ {"forwarders"} /\ todo = {}
  /\ Enter(After[stage])
  /\ UNCHANGED <<cfg, up, buses, clients, pool, running, lookup, forwarded>>

StartServer ==
  /\ stage = "server"
  /\ \E enabled \in BOOLEAN : up' = IF enabled THEN up \cup {"server"} ELSE up
  /\ stage' = "serving"
  /\ UNCHANGED <<cfg, todo, buses, clients, pool, running, lookup, forwarded>>

\* SIGTERM or SIGINT.  Before, a signal ends the program where it is.
Signal ==
  /\ stage = "serving"
  /\ up' = up \ {"server"}
  /\ Enter("stopClients")
  /\ UNCHANGED <<cfg, buses, clients, pool, running, lookup, forwarded>>

StopClient(m) ==
  /\ stage = "stopClients" /\ m \in todo
  /\ todo' = todo \ {m}
  /\ clients' = clients \ {m}
  /\ UNCHANGED <<cfg, stage, up, buses, pool, running, lookup, forwarded>>

\* Restarter.Shutdown returns once Run has.
StopDevice(n) ==
  /\ stage = "stopDevices" /\ n \in todo
  /\ todo' = todo \ {n}
  /\ running' = running \ {pool[n]}
  /\ UNCHANGED <<cfg, stage, up, buses, clients, pool, lookup, forwarded>>

StopBus(b) ==
  /\ stage = "stopBuses" /\ b \in todo
  /\ todo' = todo \ {b}
  /\ buses' = buses \ {b}
  /\ UNCHANGED <<cfg, stage, up, clients, pool, running, lookup, forwarded>>

StopStorages ==
  /\ stage = "stopStorages"
  /\ IF "command" \in up
     THEN up' = up \ {"command"} /\ UNCHANGED stage
     ELSE up' = up \ {"state"} /\ stage' = "exited"
  /\ UNCHANGED <<cfg, todo, buses, clients, pool, running, lookup, forwarded>>

Next ==
  \/ ReadConfig \/ StageDone
  \/ \E b \in cfg.modbus : StartBus(b) \/ StopBus(b)
  \/ \E d \in Devices(cfg) : Start(d) \/ LeaveOut(d)
  \/ \E m \in DOMAIN cfg.clients :
       \/ StartClient(m) \/ StopClient(m) \/ NextForwarder(m)
       \/ \E n \in Names : Forward(m, n)
  \/ \E n \in Names : StopDevice(n)
  \/ StartForwarders \/ StartServer \/ Signal \/ StopStorages

Spec == Init /\ [][Next]_vars

-----------------------------------------------------------------------------
(***************************************************************************)
(* Properties.                                                             *)
(***************************************************************************)

\* The clients by which a device is received.
ClientsOf(d) ==
  IF d.section # "mqtt" THEN {}
  ELSE {m \in DOMAIN cfg.clients : d.name \in cfg.clients[m].receives}

\* What a device uses, by the deferred calls main stops it after the device.
\* The clients, which devices that are read by MQTT use, are stopped first.
Uses(d) ==
  /\ Storages \subseteq up
  /\ d.section = "modbus" => cfg.bus[d.name] \in buses
  /\ stage \notin {"stopClients", "stopDevices"} => ClientsOf(d) \subseteq clients

\* What runs uses only what is up: while a device of the pool runs, so do the
\* storages, its bus and, until they are stopped, the clients it receives by
\* (main.go's order of calls and deferred calls), and while the web server runs,
\* so does every device of the pool.  A device that another section's device of
\* the same name replaced in the pool is never stopped (pool.go:35), so of it
\* this is not said.
InUseIsUp ==
  stage # "exited" =>
    /\ \A d \in running : pool[d.name] = d => Uses(d)
    /\ "server" \in up => \A n \in Names : pool[n] # None => pool[n] \in running

\* A device of the name other than a genset was started.
StartedEarly(n) ==
  \/ pool[n] # None /\ pool[n].section # "genset"
  \/ \E d \in running : d.name = n /\ d.section # "genset"

\* Each forwarder a client is configured to run is started once its turn is over,
\* for the device the pool ends up with, and no client forwards what it receives
\* (config.go:479, forwarder.go:60).  Gensets are excepted: they are started while
\* the routines already look up the devices (main.go:134), so a genset may be
\* passed over for good, or the device it replaces in the pool forwarded instead.
ForwardedAsConfigured ==
  /\ \A m \in DOMAIN cfg.clients : \A i \in 1..6 :
       lookup[m].at > i /\ Enabled(cfg, m, Order[i]) =>
         \A n \in SectionDevices(cfg, m, Order[i]) :
           StartedEarly(n) => \E s \in Sections :
             <<m, Order[i], [section |-> s, name |-> n]>> \in forwarded
  /\ \A x \in forwarded :
       /\ pool[x[3].name] # x[3] => pool[x[3].name].section = "genset"
       /\ x[3].name \notin cfg.clients[x[1]].receives
=============================================================================
