--------------------------- MODULE Startup_proofs ---------------------------
(***************************************************************************)
(* Theorems of Startup for all configurations: any names, any number of    *)
(* devices, buses and clients.                                             *)
(***************************************************************************)
EXTENDS Startup, TLAPS

USE NoneAssumption, ConfigAssumption

\* A device is a record of its section and name, and not None.
LEMMA DeviceFacts ==
  ASSUME NEW c \in Configs, NEW d \in Devices(c)
  PROVE  /\ d.section \in Sections /\ d.name \in Names /\ d # None
         /\ d = [section |-> d.section, name |-> d.name]
BY DEF Devices, DevicesOf, IsConfig

\* The next stage, one by one.
LEMMA AfterFacts ==
  /\ DOMAIN After = {"buses", "victron", "modbus", "gpio", "http", "clients", "mqtt",
       "forwarders", "genset", "stopClients", "stopDevices", "stopBuses"}
  /\ After["buses"] = "victron" /\ After["victron"] = "modbus"
  /\ After["modbus"] = "gpio" /\ After["gpio"] = "http"
  /\ After["http"] = "clients" /\ After["clients"] = "mqtt"
  /\ After["mqtt"] = "forwarders" /\ After["forwarders"] = "genset"
  /\ After["genset"] = "server" /\ After["stopClients"] = "stopDevices"
  /\ After["stopDevices"] = "stopBuses" /\ After["stopBuses"] = "stopStorages"
BY DEF After

\* What is to be done in the stages the invariant says something of.
LEMMA WorkFacts ==
  /\ Work("clients") = DOMAIN cfg.clients
  /\ Work("stopDevices") = {n \in Names : pool[n] # None}
BY DEF Work, Sections, EarlySections

Before == {"config", "buses", "victron", "modbus", "gpio", "http", "clients"}
Served == {"mqtt", "forwarders", "genset", "server", "serving"}
Started == Before \cup Served \cup {"stopClients"}
AllStages == Started \cup {"stopDevices", "stopBuses", "stopStorages", "exited"}

-----------------------------------------------------------------------------
(* The pool and what is up.                                                *)

PoolInv ==
  /\ cfg \in Configs
  /\ stage \in AllStages
  /\ pool \in [Names -> Devices(cfg) \cup {None}]
  /\ \A n \in Names : pool[n] # None => pool[n].name = n
  /\ running \subseteq Devices(cfg)
  /\ \A d \in running : pool[d.name] # None

UpInv ==
  /\ stage = "config" => running = {}
  /\ stage \in AllStages \ {"config", "stopStorages", "exited"} => Storages \subseteq up
  /\ "server" \in up => stage = "serving"
  /\ stage \in Started => \A n \in Names : pool[n] # None => pool[n] \in running
  /\ stage = "stopDevices" => \A n \in Names : pool[n] \in running => n \in todo
  /\ stage \in {"stopBuses", "stopStorages"} => \A n \in Names : pool[n] \notin running
  /\ stage \in Started \cup {"stopDevices"} =>
       \A d \in running : d.section = "modbus" => cfg.bus[d.name] \in buses
  /\ stage \in Before => \A d \in running : d.section # "mqtt"
  /\ stage = "clients" => DOMAIN cfg.clients \subseteq clients \cup todo
  /\ stage \in Served => DOMAIN cfg.clients \subseteq clients

LEMMA PoolInit == Init => PoolInv
BY DEF Init, PoolInv, AllStages, Started, Before

LEMMA PoolStep == PoolInv /\ [Next]_vars => PoolInv'
<1>. SUFFICES ASSUME PoolInv, [Next]_vars PROVE PoolInv'
  OBVIOUS
<1>. USE DEF PoolInv
<1>1. CASE ReadConfig
  BY <1>1 DEF ReadConfig, Enter, AllStages, Started, Before
<1>2. CASE StageDone
  BY <1>2, AfterFacts DEF StageDone, Enter, AllStages, Started, Before, Served
<1>3. ASSUME NEW b \in cfg.modbus, StartBus(b) \/ StopBus(b) PROVE PoolInv'
  BY <1>3 DEF StartBus, StopBus
<1>4. ASSUME NEW d \in Devices(cfg), Start(d) PROVE PoolInv'
  BY <1>4, DeviceFacts DEF Start, Add
<1>5. ASSUME NEW d \in Devices(cfg), LeaveOut(d) PROVE PoolInv'
  BY <1>5 DEF LeaveOut
<1>6. ASSUME NEW m \in DOMAIN cfg.clients, StartClient(m) \/ StopClient(m) \/ NextForwarder(m)
      PROVE  PoolInv'
  BY <1>6 DEF StartClient, StopClient, NextForwarder, mainVars
<1>7. ASSUME NEW m \in DOMAIN cfg.clients, NEW n \in Names, Forward(m, n) PROVE PoolInv'
  BY <1>7 DEF Forward, mainVars
<1>8. ASSUME NEW n \in Names, StopDevice(n) PROVE PoolInv'
  BY <1>8 DEF StopDevice
<1>9. CASE StartForwarders
  BY <1>9, AfterFacts DEF StartForwarders, Enter, AllStages, Started, Served
<1>10. CASE StartServer \/ Signal \/ StopStorages
  BY <1>10 DEF StartServer, Signal, StopStorages, Enter, AllStages, Started, Served
<1>11. CASE UNCHANGED vars
  BY <1>11 DEF vars, mainVars
<1>. HIDE DEF PoolInv
<1>. QED
  BY <1>1, <1>2, <1>3, <1>4, <1>5, <1>6, <1>7, <1>8, <1>9, <1>10, <1>11 DEF Next

LEMMA UpInit == Init => UpInv
BY DEF Init, UpInv, AllStages, Started, Before, Served

LEMMA UpStep == PoolInv /\ UpInv /\ [Next]_vars => UpInv'
<1>. SUFFICES ASSUME PoolInv, UpInv, [Next]_vars PROVE UpInv'
  OBVIOUS
<1>. USE DEF PoolInv, UpInv
<1>1. CASE ReadConfig
  BY <1>1 DEF ReadConfig, Enter, AllStages, Started, Before, Served, Storages
<1>2. CASE StageDone
  <2>1. /\ stage \in (DOMAIN After) \ {"forwarders"} /\ todo = {}
        /\ stage' = After[stage] /\ todo' = Work(After[stage])
        /\ UNCHANGED <<cfg, up, buses, clients, pool, running>>
    BY <1>2 DEF StageDone, Enter
  <2>2. CASE stage \in {"buses", "victron", "modbus", "gpio"}
    BY <2>1, <2>2, AfterFacts DEF AllStages, Started, Before, Served
  <2>3. CASE stage \in {"http", "clients"}
    BY <2>1, <2>3, AfterFacts, WorkFacts DEF AllStages, Started, Before, Served
  <2>4. CASE stage \in {"mqtt", "genset"}
    BY <2>1, <2>4, AfterFacts DEF AllStages, Started, Before, Served
  <2>5. CASE stage \in {"stopClients", "stopDevices", "stopBuses"}
    BY <2>1, <2>5, AfterFacts, WorkFacts, DeviceFacts DEF AllStages, Started, Before, Served
  <2>. QED BY <2>1, <2>2, <2>3, <2>4, <2>5, AfterFacts
<1>3. ASSUME NEW b \in cfg.modbus, StartBus(b) \/ StopBus(b) PROVE UpInv'
  BY <1>3 DEF StartBus, StopBus, AllStages, Started, Before, Served
<1>4. ASSUME NEW d \in Devices(cfg), Start(d) PROVE UpInv'
  <2>1. d.section \in Sections /\ d.name \in Names /\ d # None
    BY DeviceFacts
  <2>2. stage = d.section /\ running' = running \cup {d} /\ MayStart(d)
        /\ pool' = [pool EXCEPT ![d.name] = d]
        /\ UNCHANGED <<cfg, stage, up, buses, clients>> /\ todo' \subseteq todo
    BY <1>4 DEF Start, Add
  <2>3. stage \in {"victron", "modbus", "gpio", "http", "mqtt", "genset"}
    BY <2>1, <2>2 DEF Sections, EarlySections
  <2>4. \A n \in Names : pool'[n] # None => pool'[n] \in running'
    BY <2>1, <2>2, <2>3 DEF Started, Before, Served
  <2>5. \A e \in running' : e.section = "modbus" => cfg.bus[e.name] \in buses
    BY <2>2, <2>3 DEF MayStart, Started, Before, Served
  <2>6. stage \in Before => \A e \in running' : e.section # "mqtt"
    BY <2>2 DEF Before
  <2>7. Storages \subseteq up /\ "server" \notin up
    BY <2>3 DEF AllStages, Started, Before, Served
  <2>8. stage \in Served => DOMAIN cfg.clients \subseteq clients
    OBVIOUS
  <2>. HIDE DEF PoolInv, UpInv
  <2>. QED
    BY <2>2, <2>3, <2>4, <2>5, <2>6, <2>7, <2>8 DEF UpInv
<1>5. ASSUME NEW d \in Devices(cfg), LeaveOut(d) PROVE UpInv'
  BY <1>5, DeviceFacts
  DEF LeaveOut, AllStages, Started, Before, Served, Sections, EarlySections
<1>6. ASSUME NEW m \in DOMAIN cfg.clients, StartClient(m) \/ StopClient(m) \/ NextForwarder(m)
      PROVE  UpInv'
  BY <1>6 DEF StartClient, StopClient, NextForwarder, mainVars, AllStages, Started, Before, Served
<1>7. ASSUME NEW m \in DOMAIN cfg.clients, NEW n \in Names, Forward(m, n) PROVE UpInv'
  BY <1>7 DEF Forward, mainVars
<1>8. ASSUME NEW n \in Names, StopDevice(n) PROVE UpInv'
  <2>1. /\ stage = "stopDevices" /\ n \in todo /\ todo' = todo \ {n}
        /\ running' = running \ {pool[n]}
        /\ UNCHANGED <<cfg, stage, up, buses, clients, pool>>
    BY <1>8 DEF StopDevice
  <2>2. \A k \in Names : pool[k] \in running' => k \in todo'
    <3>. SUFFICES ASSUME NEW k \in Names, pool[k] \in running \ {pool[n]} PROVE k \in todo \ {n}
      BY <2>1
    <3>. QED BY <2>1
  <2>3. \A e \in running' : e.section = "modbus" => cfg.bus[e.name] \in buses
    BY <2>1
  <2>4. Storages \subseteq up /\ "server" \notin up
    BY <2>1 DEF AllStages, Started
  <2>. HIDE DEF PoolInv, UpInv
  <2>. QED
    BY <2>1, <2>2, <2>3, <2>4 DEF UpInv, Started, Before, Served
<1>9. CASE StartForwarders
  BY <1>9, AfterFacts DEF StartForwarders, Enter, AllStages, Started, Before, Served
<1>10. CASE StartServer \/ Signal \/ StopStorages
  BY <1>10 DEF StartServer, Signal, StopStorages, Enter, AllStages, Started, Before,
               Served, Storages
<1>11. CASE UNCHANGED vars
  BY <1>11 DEF vars, mainVars
<1>. HIDE DEF PoolInv, UpInv
<1>. QED
  BY <1>1, <1>2, <1>3, <1>4, <1>5, <1>6, <1>7, <1>8, <1>9, <1>10, <1>11 DEF Next

\* Nothing in the pool outlives what it uses (main.go:93-131), for any number of
\* devices, buses and clients, and whatever fails to start.
THEOREM OutlivesNothing == Spec => []InUseIsUp
<1>1. Init => PoolInv /\ UpInv
  BY PoolInit, UpInit
<1>2. PoolInv /\ UpInv /\ [Next]_vars => (PoolInv /\ UpInv)'
  BY PoolStep, UpStep
<1>3. PoolInv /\ UpInv => InUseIsUp
  <2>. SUFFICES ASSUME PoolInv, UpInv, stage # "exited" PROVE InUseIsUp
    BY DEF InUseIsUp
  <2>1. ASSUME NEW d \in running, pool[d.name] = d PROVE Uses(d)
    <3>1. d.section \in Sections /\ d.name \in Names /\ d # None
      BY DeviceFacts DEF PoolInv
    <3>2. stage \notin {"config", "stopBuses", "stopStorages"}
      BY <2>1, <3>1 DEF UpInv
    <3>3. stage \in Started \cup {"stopDevices"}
      BY <3>2 DEF PoolInv, AllStages
    <3>4. Storages \subseteq up
      BY <3>2 DEF PoolInv, UpInv
    <3>5. d.section = "modbus" => cfg.bus[d.name] \in buses
      BY <3>3 DEF UpInv
    <3>6. ASSUME stage \notin {"stopClients", "stopDevices"} PROVE ClientsOf(d) \subseteq clients
      BY <3>3, <3>6 DEF Started, UpInv, ClientsOf
    <3>. QED BY <3>4, <3>5, <3>6 DEF Uses
  <2>2. "server" \in up => \A n \in Names : pool[n] # None => pool[n] \in running
    BY DEF UpInv, Started, Served
  <2>. QED BY <2>1, <2>2 DEF InUseIsUp
<1>. QED BY <1>1, <1>2, <1>3, PTL DEF Spec

-----------------------------------------------------------------------------
(* The forwarders.                                                         *)

Unlooked == Before \cup {"mqtt", "forwarders"}

\* The routine of m is done with the device n.
Done(m, i, n) ==
  StartedEarly(n) =>
    \E s \in Sections : <<m, Order[i], [section |-> s, name |-> n]>> \in forwarded

LookInv ==
  /\ lookup \in [DOMAIN cfg.clients -> [at : Nat, left : SUBSET Names]]
  /\ stage \notin {"config", "exited"} => Accepted(cfg)
  /\ stage \in Unlooked =>
       /\ forwarded = {}
       /\ \A m \in DOMAIN cfg.clients : lookup[m].at = 0 /\ lookup[m].left = {}
  /\ \A m \in DOMAIN cfg.clients : lookup[m].at > 0 => Accepted(cfg)
  /\ \A m \in DOMAIN cfg.clients : \A n \in lookup[m].left :
       /\ lookup[m].at \in 1..6
       /\ n \notin cfg.clients[m].receives
  /\ \A m \in DOMAIN cfg.clients : \A i \in 1..6 :
       Enabled(cfg, m, Order[i]) =>
         \A n \in SectionDevices(cfg, m, Order[i]) :
           lookup[m].at > i \/ (lookup[m].at = i /\ n \notin lookup[m].left)
             => Done(m, i, n)
  /\ \A x \in forwarded :
       /\ x[1] \in DOMAIN cfg.clients /\ x[3].name \in Names
       /\ pool[x[3].name] # x[3] => pool[x[3].name].section = "genset"
       /\ x[3].name \notin cfg.clients[x[1]].receives

\* A section of an accepted configuration has only devices that may be forwarded.
LEMMA SectionFacts ==
  ASSUME NEW c \in Configs, Accepted(c), NEW m \in DOMAIN c.clients, NEW i \in 1..6
  PROVE  /\ SectionDevices(c, m, Order[i]) \subseteq Names
         /\ SectionDevices(c, m, Order[i]) \cap c.clients[m].receives = {}
<1>1. ListErrors(c, m, Order[i]) = {}
  <2>1. Order[i] \in Forwarders
    BY DEF Forwarders
  <2>2. ClientErrors(c) = {}
    BY DEF Accepted
  <2>. QED BY <2>1, <2>2 DEF ClientErrors
<1>2. NonLoop(c, m) \subseteq Names /\ NonLoop(c, m) \cap c.clients[m].receives = {}
  <2>1. \A s \in Sections : c.devices[s] \subseteq Names
    BY DEF IsConfig
  <2>. QED BY <2>1 DEF NonLoop, NamesIn
<1>3. SectionDevices(c, m, Order[i]) \subseteq NonLoop(c, m)
  BY <1>1 DEF ListErrors
<1>. QED BY <1>2, <1>3

\* Where a routine is after its next look at the configuration.
LEMMA LookupFacts ==
  ASSUME NEW m, NEW i \in Nat
  PROVE  /\ Lookups(m, i).at = i
         /\ Lookups(m, i).left =
              IF i \in 1..6 /\ Enabled(cfg, m, Order[i])
              THEN SectionDevices(cfg, m, Order[i]) ELSE {}
BY DEF Lookups

LEMMA LookInit == Init => LookInv
<1>. SUFFICES ASSUME Init PROVE LookInv
  OBVIOUS
<1>1. lookup = [m \in DOMAIN cfg.clients |-> [at |-> 0, left |-> {}]]
      /\ forwarded = {} /\ stage = "config"
  BY DEF Init
<1>2. lookup \in [DOMAIN cfg.clients -> [at : Nat, left : SUBSET Names]]
  BY <1>1
<1>. QED BY <1>1, <1>2 DEF LookInv

\* A step that leaves the routines alone, and starts no device but gensets once
\* they have begun.
LEMMA QuietStep ==
  ASSUME PoolInv, LookInv, UNCHANGED <<cfg, lookup, forwarded>>,
         stage' \in Unlooked => stage \in Unlooked,
         stage' \notin {"config", "exited"} => Accepted(cfg),
         stage \notin Unlooked =>
           /\ \A n \in Names : StartedEarly(n)' => StartedEarly(n)
           /\ \A n \in Names : pool'[n] = pool[n] \/ pool'[n].section = "genset"
  PROVE  LookInv'
<1>1. /\ lookup' \in [DOMAIN cfg'.clients -> [at : Nat, left : SUBSET Names]]
      /\ stage' \notin {"config", "exited"} => Accepted(cfg')
      /\ stage' \in Unlooked =>
           /\ forwarded' = {}
           /\ \A m \in DOMAIN cfg'.clients : lookup'[m].at = 0 /\ lookup'[m].left = {}
  BY DEF LookInv
<1>2. \A m \in DOMAIN cfg'.clients : lookup'[m].at > 0 => Accepted(cfg')
  BY DEF LookInv
<1>3. \A m \in DOMAIN cfg'.clients : \A n \in lookup'[m].left :
        /\ lookup'[m].at \in 1..6
        /\ n \notin cfg'.clients[m].receives
  BY DEF LookInv
<1>4. ASSUME NEW m \in DOMAIN cfg.clients, NEW i \in 1..6, Enabled(cfg, m, Order[i]),
             NEW n \in SectionDevices(cfg, m, Order[i]),
             lookup[m].at > i \/ (lookup[m].at = i /\ n \notin lookup[m].left)
      PROVE  Done(m, i, n)'
  <2>1. stage \notin Unlooked /\ Accepted(cfg) /\ Done(m, i, n)
    BY <1>4 DEF LookInv
  <2>2. n \in Names
    BY <2>1, SectionFacts DEF PoolInv
  <2>3. StartedEarly(n)' => StartedEarly(n)
    BY <2>1, <2>2
  <2>4. forwarded' = forwarded
    OBVIOUS
  <2>. QED BY <2>1, <2>3, <2>4 DEF Done
<1>5. ASSUME NEW x \in forwarded'
      PROVE  /\ x[1] \in DOMAIN cfg'.clients /\ x[3].name \in Names
             /\ pool'[x[3].name] # x[3] => pool'[x[3].name].section = "genset"
             /\ x[3].name \notin cfg'.clients[x[1]].receives
  <2>1. x \in forwarded /\ stage \notin Unlooked
    BY <1>5 DEF LookInv
  <2>. QED BY <2>1 DEF LookInv
<1>6. \A m \in DOMAIN cfg'.clients : \A i \in 1..6 :
        Enabled(cfg', m, Order[i]) =>
          \A n \in SectionDevices(cfg', m, Order[i]) :
            lookup'[m].at > i \/ (lookup'[m].at = i /\ n \notin lookup'[m].left)
              => Done(m, i, n)'
  BY <1>4
<1>. QED BY <1>1, <1>2, <1>3, <1>5, <1>6 DEF LookInv

\* A device looked up is done with, in the pool or not.
LEMMA ForwardStep ==
  ASSUME PoolInv, LookInv, NEW m \in DOMAIN cfg.clients, NEW n \in Names, Forward(m, n)
  PROVE  LookInv'
<1>1. /\ n \in lookup[m].left /\ stage # "exited"
      /\ lookup' = [lookup EXCEPT ![m].left = @ \ {n}]
      /\ forwarded' = IF pool[n] = None THEN forwarded
                      ELSE forwarded \cup {<<m, Order[lookup[m].at], pool[n]>>}
      /\ UNCHANGED <<cfg, stage, pool, running>>
  BY DEF Forward, mainVars
<1>2. /\ lookup[m] \in [at : Nat, left : SUBSET Names]
      /\ lookup[m].at \in 1..6 /\ n \notin cfg.clients[m].receives
      /\ stage \notin Unlooked
  BY <1>1 DEF LookInv
<1>3. /\ lookup' \in [DOMAIN cfg.clients -> [at : Nat, left : SUBSET Names]]
      /\ \A k \in DOMAIN cfg.clients : /\ lookup'[k].at = lookup[k].at
                                       /\ lookup'[k].left \subseteq lookup[k].left
                                       /\ k # m => lookup'[k].left = lookup[k].left
      /\ lookup'[m].left = lookup[m].left \ {n}
  BY <1>1, <1>2 DEF LookInv
<1>4. ASSUME NEW k \in DOMAIN cfg.clients, NEW i \in 1..6, Enabled(cfg, k, Order[i]),
             NEW e \in SectionDevices(cfg, k, Order[i]),
             lookup'[k].at > i \/ (lookup'[k].at = i /\ e \notin lookup'[k].left)
      PROVE  Done(k, i, e)'
  <2>1. StartedEarly(e)' <=> StartedEarly(e)
    BY <1>1 DEF StartedEarly
  <2>2. CASE lookup[k].at > i \/ (lookup[k].at = i /\ e \notin lookup[k].left)
    <3>1. Done(k, i, e)
      BY <1>4, <2>2 DEF LookInv
    <3>2. forwarded \subseteq forwarded'
      BY <1>1
    <3>. QED BY <2>1, <3>1, <3>2 DEF Done
  <2>3. CASE k = m /\ lookup[m].at = i /\ e = n
    <3>. SUFFICES ASSUME StartedEarly(n) PROVE \E s \in Sections :
           <<m, Order[i], [section |-> s, name |-> n]>> \in forwarded'
      BY <2>1, <2>3 DEF Done
    <3>1. pool[n] # None
      BY DEF StartedEarly, PoolInv
    <3>2. /\ pool[n] \in Devices(cfg) /\ pool[n].name = n
      BY <3>1 DEF PoolInv
    <3>3. pool[n].section \in Sections /\ pool[n] = [section |-> pool[n].section, name |-> n]
      BY <3>2, DeviceFacts DEF PoolInv
    <3>4. <<m, Order[i], pool[n]>> \in forwarded'
      BY <1>1, <2>3, <3>1
    <3>. QED BY <3>3, <3>4
  <2>. QED BY <1>3, <1>4, <2>2, <2>3
<1>5. ASSUME NEW x \in forwarded'
      PROVE  /\ x[1] \in DOMAIN cfg.clients /\ x[3].name \in Names
             /\ pool[x[3].name] # x[3] => pool[x[3].name].section = "genset"
             /\ x[3].name \notin cfg.clients[x[1]].receives
  <2>1. CASE x \in forwarded
    BY <2>1 DEF LookInv
  <2>2. CASE pool[n] # None /\ x = <<m, Order[lookup[m].at], pool[n]>>
    <3>1. pool[n].name = n
      BY <2>2 DEF PoolInv
    <3>2. x[1] = m /\ x[3] = pool[n]
      BY <2>2
    <3>. QED BY <1>2, <3>1, <3>2
  <2>. QED BY <1>1, <2>1, <2>2
<1>6. \A k \in DOMAIN cfg.clients : lookup'[k].at > 0 => Accepted(cfg)
  BY <1>3 DEF LookInv
<1>7. \A k \in DOMAIN cfg.clients : \A e \in lookup'[k].left :
        lookup'[k].at \in 1..6 /\ e \notin cfg.clients[k].receives
  BY <1>3 DEF LookInv
<1>8. stage \notin {"config", "exited"} => Accepted(cfg)
  BY DEF LookInv
<1>9. cfg' = cfg /\ stage' = stage /\ pool' = pool
  BY <1>1
<1>. HIDE <1>1
<1>. QED BY <1>2, <1>3, <1>4, <1>5, <1>6, <1>7, <1>8, <1>9 DEF LookInv

\* A section's turn is over when nothing is left of it.
LEMMA NextStep ==
  ASSUME PoolInv, LookInv, NEW m \in DOMAIN cfg.clients, NextForwarder(m)
  PROVE  LookInv'
<1>. DEFINE a == lookup[m].at
<1>1. /\ stage # "exited" /\ a \in 1..6 /\ lookup[m].left = {}
      /\ lookup' = [lookup EXCEPT ![m] = Lookups(m, a + 1)]
      /\ UNCHANGED <<cfg, stage, pool, running, forwarded>>
  BY DEF NextForwarder, mainVars
<1>2. Accepted(cfg) /\ stage \notin Unlooked /\ a + 1 \in Nat
  BY <1>1 DEF LookInv
<1>3. /\ Lookups(m, a + 1).at = a + 1
      /\ Lookups(m, a + 1).left =
           IF a + 1 \in 1..6 /\ Enabled(cfg, m, Order[a + 1])
           THEN SectionDevices(cfg, m, Order[a + 1]) ELSE {}
  BY <1>2, LookupFacts
<1>4. /\ Lookups(m, a + 1).left \subseteq Names
      /\ Lookups(m, a + 1).left \cap cfg.clients[m].receives = {}
      /\ Lookups(m, a + 1).left # {} => a + 1 \in 1..6
  BY <1>2, <1>3, SectionFacts DEF PoolInv
<1>5. Lookups(m, a + 1) \in [at : Nat, left : SUBSET Names]
  <2>1. Lookups(m, a + 1) = [at |-> Lookups(m, a + 1).at, left |-> Lookups(m, a + 1).left]
    BY DEF Lookups
  <2>. QED BY <1>2, <1>3, <1>4, <2>1
<1>. DEFINE l == Lookups(m, a + 1)
<1>6. /\ lookup' \in [DOMAIN cfg.clients -> [at : Nat, left : SUBSET Names]]
      /\ lookup'[m] = l
      /\ \A k \in DOMAIN cfg.clients : k # m => lookup'[k] = lookup[k]
  BY <1>1, <1>5 DEF LookInv
<1>. HIDE DEF l, a
<1>7. ASSUME NEW k \in DOMAIN cfg.clients, NEW i \in 1..6, Enabled(cfg, k, Order[i]),
             NEW e \in SectionDevices(cfg, k, Order[i]),
             lookup'[k].at > i \/ (lookup'[k].at = i /\ e \notin lookup'[k].left)
      PROVE  Done(k, i, e)'
  <2>1. Done(k, i, e)' <=> Done(k, i, e)
    BY <1>1 DEF Done, StartedEarly
  <2>2. CASE k # m
    BY <1>6, <1>7, <2>1, <2>2 DEF LookInv
  <2>3. CASE k = m
    <3>1. lookup'[m].at = a + 1
      BY <1>3, <1>6 DEF l
    <3>2. ~(i = a + 1)
      BY <1>3, <1>6, <1>7, <2>3, <3>1 DEF l
    <3>3. a > i \/ a = i
      BY <1>1, <1>7, <2>3, <3>1, <3>2
    <3>4. Done(m, i, e)
      BY <1>1, <1>7, <2>3, <3>3 DEF LookInv, a
    <3>. QED BY <2>1, <2>3, <3>4
  <2>. QED BY <2>2, <2>3
<1>8. \A k \in DOMAIN cfg.clients : \A e \in lookup'[k].left :
        lookup'[k].at \in 1..6 /\ e \notin cfg.clients[k].receives
  <2>1. \A e \in lookup'[m].left : lookup'[m].at \in 1..6 /\ e \notin cfg.clients[m].receives
    BY <1>3, <1>4, <1>6 DEF l
  <2>. QED BY <1>6, <2>1 DEF LookInv
<1>9. cfg' = cfg /\ stage' = stage /\ pool' = pool /\ forwarded' = forwarded
  BY <1>1
<1>10. \A x \in forwarded :
         /\ x[1] \in DOMAIN cfg.clients /\ x[3].name \in Names
         /\ pool[x[3].name] # x[3] => pool[x[3].name].section = "genset"
         /\ x[3].name \notin cfg.clients[x[1]].receives
  BY DEF LookInv
<1>. QED BY <1>2, <1>6, <1>7, <1>8, <1>9, <1>10 DEF LookInv

\* The routines begin with the first section.
LEMMA BeginStep == ASSUME PoolInv, LookInv, StartForwarders PROVE LookInv'
<1>1. /\ stage = "forwarders" /\ stage' = "genset"
      /\ lookup' = [m \in DOMAIN cfg.clients |-> Lookups(m, 1)]
      /\ UNCHANGED <<cfg, pool, running, forwarded>>
  BY AfterFacts DEF StartForwarders, Enter
<1>2. Accepted(cfg) /\ forwarded = {}
  BY <1>1 DEF LookInv, Unlooked
<1>3. ASSUME NEW m \in DOMAIN cfg.clients
      PROVE  /\ lookup'[m] \in [at : Nat, left : SUBSET Names]
             /\ lookup'[m].at = 1
             /\ lookup'[m].left \cap cfg.clients[m].receives = {}
             /\ Enabled(cfg, m, Order[1]) => lookup'[m].left = SectionDevices(cfg, m, Order[1])
  <2>1. lookup'[m] = Lookups(m, 1)
    BY <1>1
  <2>2. /\ Lookups(m, 1).at = 1
        /\ Lookups(m, 1).left = IF Enabled(cfg, m, Order[1])
                                THEN SectionDevices(cfg, m, Order[1]) ELSE {}
    BY LookupFacts
  <2>3. Lookups(m, 1).left \subseteq Names /\ Lookups(m, 1).left \cap cfg.clients[m].receives = {}
    BY <1>2, <2>2, SectionFacts DEF PoolInv
  <2>4. Lookups(m, 1) = [at |-> Lookups(m, 1).at, left |-> Lookups(m, 1).left]
    BY DEF Lookups
  <2>. QED BY <2>1, <2>2, <2>3, <2>4
<1>4. lookup' \in [DOMAIN cfg.clients -> [at : Nat, left : SUBSET Names]]
  BY <1>1, <1>3
<1>5. ASSUME NEW m \in DOMAIN cfg.clients, NEW i \in 1..6, Enabled(cfg, m, Order[i]),
             NEW n \in SectionDevices(cfg, m, Order[i])
      PROVE  ~(lookup'[m].at > i \/ (lookup'[m].at = i /\ n \notin lookup'[m].left))
  BY <1>3, <1>5
<1>6. \A m \in DOMAIN cfg.clients : \A n \in lookup'[m].left :
        lookup'[m].at \in 1..6 /\ n \notin cfg.clients[m].receives
  BY <1>3
<1>7. stage' \notin Unlooked
  BY <1>1 DEF Unlooked, Before
<1>8. cfg' = cfg /\ forwarded' = {}
  BY <1>1, <1>2
<1>. QED BY <1>2, <1>4, <1>5, <1>6, <1>7, <1>8 DEF LookInv

LEMMA LookStep == PoolInv /\ LookInv /\ [Next]_vars => LookInv'
<1>. SUFFICES ASSUME PoolInv, LookInv, [Next]_vars PROVE LookInv'
  OBVIOUS
<1>1. stage \notin {"config", "exited"} => Accepted(cfg)
  BY DEF LookInv
<1>2. ASSUME UNCHANGED <<cfg, lookup, forwarded, pool, running>>,
             stage' \in Unlooked => stage \in Unlooked,
             stage' \notin {"config", "exited"} => Accepted(cfg)
      PROVE  LookInv'
  <2>1. \A n \in Names : StartedEarly(n)' => StartedEarly(n)
    BY <1>2 DEF StartedEarly
  <2>. QED BY <1>2, <2>1, QuietStep
<1>3. CASE ReadConfig
  BY <1>2, <1>3 DEF ReadConfig, Enter, Unlooked, Before
<1>4. CASE StageDone
  <2>1. /\ stage \in (DOMAIN After) \ {"forwarders"} /\ stage' = After[stage]
        /\ UNCHANGED <<cfg, lookup, forwarded, pool, running>>
    BY <1>4 DEF StageDone, Enter
  <2>2. stage' \in Unlooked => stage \in Unlooked
    BY <2>1, AfterFacts DEF Unlooked, Before
  <2>3. Accepted(cfg)
    BY <1>1, <2>1, AfterFacts
  <2>. QED BY <1>2, <2>1, <2>2, <2>3
<1>5. ASSUME NEW b \in cfg.modbus, StartBus(b) \/ StopBus(b) PROVE LookInv'
  BY <1>1, <1>2, <1>5 DEF StartBus, StopBus
<1>6. ASSUME NEW d \in Devices(cfg), Start(d) PROVE LookInv'
  <2>1. d.section \in Sections /\ d.name \in Names /\ d # None
    BY DeviceFacts DEF PoolInv
  <2>2. /\ stage = d.section /\ running' = running \cup {d}
        /\ pool' = [pool EXCEPT ![d.name] = d]
        /\ UNCHANGED <<cfg, stage, lookup, forwarded>>
    BY <1>6 DEF Start, Add
  <2>3. Accepted(cfg)
    BY <1>1, <2>1, <2>2 DEF Sections, EarlySections
  <2>4. CASE stage \in Unlooked
    BY <2>2, <2>3, <2>4, QuietStep
  <2>5. CASE d.section = "genset"
    <3>1. \A n \in Names : pool'[n] = IF n = d.name THEN d ELSE pool[n]
      BY <2>2 DEF PoolInv
    <3>2. \A n \in Names : StartedEarly(n)' => StartedEarly(n)
      BY <2>2, <2>5, <3>1 DEF StartedEarly
    <3>. QED BY <2>2, <2>3, <2>5, <3>1, <3>2, QuietStep
  <2>. QED BY <2>1, <2>2, <2>4, <2>5 DEF Sections, EarlySections, Unlooked, Before
<1>7. ASSUME NEW d \in Devices(cfg), LeaveOut(d) PROVE LookInv'
  BY <1>1, <1>2, <1>7 DEF LeaveOut
<1>8. ASSUME NEW m \in DOMAIN cfg.clients, StartClient(m) \/ StopClient(m) PROVE LookInv'
  BY <1>1, <1>2, <1>8 DEF StartClient, StopClient
<1>9. ASSUME NEW n \in Names, StopDevice(n) PROVE LookInv'
  <2>1. /\ stage = "stopDevices" /\ running' \subseteq running
        /\ UNCHANGED <<cfg, stage, lookup, forwarded, pool>>
    BY <1>9 DEF StopDevice
  <2>2. \A k \in Names : StartedEarly(k)' => StartedEarly(k)
    BY <2>1 DEF StartedEarly
  <2>. QED BY <1>1, <2>1, <2>2, QuietStep
<1>10. CASE StartServer \/ Signal \/ StopStorages
  <2>1. UNCHANGED <<cfg, lookup, forwarded, pool, running>>
    BY <1>10 DEF StartServer, Signal, StopStorages
  <2>2. /\ stage \in {"server", "serving", "stopStorages"}
        /\ stage' \in {"serving", "stopClients", "stopStorages", "exited"}
    BY <1>10 DEF StartServer, Signal, StopStorages, Enter
  <2>. QED BY <1>1, <1>2, <2>1, <2>2 DEF Unlooked, Before
<1>11. CASE UNCHANGED vars
  BY <1>1, <1>2, <1>11 DEF vars, mainVars
<1>. QED
  BY <1>3, <1>4, <1>5, <1>6, <1>7, <1>8, <1>9, <1>10, <1>11,
     ForwardStep, NextStep, BeginStep DEF Next

\* Every device but gensets is forwarded as configured, none to where it is
\* received (config.go:478, main.go:131), for all configurations and however the
\* routines of the forwarders and main interleave.
THEOREM ForwardsConfigured == Spec => []ForwardedAsConfigured
<1>1. Init => PoolInv /\ LookInv
  BY PoolInit, LookInit
<1>2. PoolInv /\ LookInv /\ [Next]_vars => (PoolInv /\ LookInv)'
  BY PoolStep, LookStep
<1>3. PoolInv /\ LookInv => ForwardedAsConfigured
  BY DEF LookInv, ForwardedAsConfigured, Done
<1>. QED BY <1>1, <1>2, <1>3, PTL DEF Spec
=============================================================================
