------------------------- MODULE RegisterForwarders -------------------------
(***************************************************************************)
(* The forwarders of one mqtt client that announce the registers of a      *)
(* device, on update: structure (collected for 100 ms, then published),    *)
(* homeassistant discovery (published one by one, retained) and command    *)
(* (a route for each writable register).  All use the client's context.    *)
(* The periodic modes publish GetFiltered at each tick and keep no state.  *)
(***************************************************************************)
EXTENDS RegisterDb

CONSTANTS Structure, Hass, Command   \* the subscription of each forwarder

\* Each forwarder subscribes for itself.
ASSUME ForwardersAssumption ==
  /\ {Structure, Hass, Command} \subseteq Subs /\ Command \in Lookers
  /\ Structure # Hass /\ Command \notin {Structure, Hass}

VARIABLES
  batch,      \* structure: registers received since the last message
  merged,     \* history: what a listener to all structure messages knows
  discovery,  \* retained discovery message of each component and name
  routes      \* routes of the client: registers of the handlers of each topic

mqtt == <<batch, merged, discovery, routes>>
vars == <<dbVars, mqtt>>

None == [n \in Names |-> Nil]

Init ==
  /\ DbInit
  /\ batch = None /\ merged = None
  /\ discovery = [c \in {"sensor", "switch"} |-> None]
  /\ routes = [n \in Names |-> {}]

\* getCommandFilter: nothing is writable when commands are not enabled.
CommandFilter == IF subPc[Command] = "off" THEN {} ELSE Filter[Command]

\* publishHomeassistantDiscoveryMessage: a writable enumeration is a switch.
Component(r) ==
  IF r.kind.type = "enum" /\ r \in CommandFilter /\ r.kind.keys >= 2
    THEN "switch" ELSE "sensor"

-----------------------------------------------------------------------------
\* structureOnUpdateModeRoutine.  The first register sets the ticker off.
CollectRegister ==
  /\ Receive(Structure)
  /\ LET r == Head(queue[Structure]) IN batch' = [batch EXCEPT ![r.name] = r]
  /\ UNCHANGED <<merged, discovery, routes>>

PublishStructure ==
  /\ consumer[Structure] = "receive" /\ batch # None
  /\ merged' = [n \in Names |-> IF batch[n] # Nil THEN batch[n] ELSE merged[n]]
  /\ batch' = None
  /\ UNCHANGED <<dbVars, discovery, routes>>

\* homeassistantDiscoveryOnUpdateModeRoutine
PublishDiscovery ==
  /\ Receive(Hass)
  /\ LET r == Head(queue[Hass])
     IN discovery' = [discovery EXCEPT ![Component(r)][r.name] = r]
  /\ UNCHANGED <<batch, merged, routes>>

TakeRegister == Receive(Command) /\ UNCHANGED mqtt

\* Mutant: a topic gets one handler only.
AddRoute_once ==
  /\ Look(Command)
  /\ LET n == held[Command].name
     IN routes' = IF routes[n] = {} THEN [routes EXCEPT ![n] = {registers[n]}] ELSE routes
  /\ UNCHANGED <<batch, merged, discovery>>

\* setupCommandSubscription: the handler keeps the register looked up; an
\* earlier handler of the topic stays.
AddRoute ==
  /\ Look(Command)
  /\ LET n == held[Command].name IN routes' = [routes EXCEPT ![n] = @ \cup {registers[n]}]
  /\ UNCHANGED <<batch, merged, discovery>>

\* What the database and the other routines do.
Database ==
  /\ \/ \E b \in Batches : AddStruct(b)
     \/ Adder
     \/ Cancel(Subs)
     \/ \E s \in Subs : Subscribe(s) \/ SendInitial(s) \/ Unsubscribe(s) \/ Leave(s)
  /\ UNCHANGED mqtt

Next == \/ Database \/ CollectRegister \/ PublishStructure
        \/ PublishDiscovery \/ TakeRegister \/ AddRoute

Spec == Init /\ [][Next]_vars

\* The routine of a subscription.
Routine(s) == (Subscribe(s) \/ SendInitial(s) \/ Unsubscribe(s)) /\ UNCHANGED mqtt

\* Every routine runs; who waits for room in a channel or for the lock gets its
\* turn; the ticker fires.
Fairness ==
  /\ SF_vars(Adder /\ UNCHANGED mqtt)
  /\ \A s \in Subs : SF_vars(Routine(s))
  /\ WF_vars(CollectRegister \/ PublishStructure) /\ WF_vars(PublishDiscovery)
  /\ SF_vars(TakeRegister \/ AddRoute)

FairSpec == Spec /\ Fairness
-----------------------------------------------------------------------------
\* Every variable has its type.
TypeOK ==
  /\ DbTypeOK
  /\ batch \in [Names -> Registers \cup {Nil}] /\ merged \in [Names -> Registers \cup {Nil}]
  /\ discovery \in [{"sensor", "switch"} -> [Names -> Registers \cup {Nil}]]
  /\ routes \in [Names -> SUBSET Registers]

\* Nothing is on its way to the consumer of s.
Quiet(s) ==
  /\ Listed(s) /\ ~cancelled[s] /\ consumer[s] = "receive"
  /\ initial[s] = {} /\ queue[s] = <<>> /\ LockFree

\* Whoever merges all structure messages, as the mqtt device does, knows the
\* registers of the device, though each message has those of one batch only.
StructureMerges ==
  Quiet(Structure) /\ batch = None =>
    \A n \in Names \ overtaken[Structure] :
      registers[n] \in Filter[Structure] => merged[n] = registers[n]

\* The retained discovery message of a register describes its present form.
DiscoveryCurrent ==
  Quiet(Hass) =>
    \A n \in Names \ overtaken[Hass] :
      registers[n] \in Filter[Hass] => discovery[Component(registers[n])][n] = registers[n]

\* Every writable register has a handler made for its present form, which takes
\* commands of its type; also when an old form was received last.
RouteIsCurrent ==
  Quiet(Command) =>
    \A n \in Names : registers[n] \in Filter[Command] => registers[n] \in routes[n]

\* What the forwarders have announced is the registers as they are, once nothing
\* is on its way to them; unless a register was changed while its initial form
\* waited to be sent, which the handlers of commands look up again.
ForwardersCurrent == StructureMerges /\ DiscoveryCurrent /\ RouteIsCurrent

\* AddStruct returns, though it holds the lock that the consumers look up under
\* while it sends to them: if the channels take all registers of the device.
AddReturns == adding # <<>> ~> (LockFree \/ saved > Cap)
=============================================================================
