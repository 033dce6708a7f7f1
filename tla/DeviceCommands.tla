--------------------------- MODULE DeviceCommands ---------------------------
(***************************************************************************)
(* A device that executes commands (httpDevice, the Waveshare relays of    *)
(* modbusDevice, gpioDevice) under its restarter, with the command storage *)
(* it shares with the HTTP server and the MQTT forwarders.                 *)
(*                                                                         *)
(* Each run of the device subscribes to the command storage with the       *)
(* restarter's context, so the subscriptions of earlier runs stay in the   *)
(* list until Shutdown, and nobody reads their channels.                   *)
(*                                                                         *)
(* The storage is the one of ValueStorage, coarser: the main routine has   *)
(* one step for the update and one for forwarding to all subscriptions,    *)
(* which waits for room in every channel.  The code fills the channels in  *)
(* the order of the list, the newest last.                                 *)
(***************************************************************************)
EXTENDS Restarter, SequencesExt

CONSTANTS
  Regs,       \* writable registers of the device
  Vals,       \* values a command can have
  Null,       \* the NullRegisterValue; in a map: no entry
  InCap,      \* capacity of inputChannel, 32 in the code
  OutCap,     \* subscriptionDefaultCap, 128 in the code
  Outcomes,   \* how execCommand can end
  NilPanics,  \* gpioDevice: execCommand panics on the nil of a closed channel;
              \* httpDevice looks for it, waveshare returns, but for LogDebug
  WhileDown,  \* commands are also issued while the device is down
  MaxSubs,    \* bound on the runs that subscribe
  MaxIssues   \* bound on the commands issued

ASSUME NullAssumption == Null \notin Vals
ASSUME CapAssumption == InCap \in Nat \ {0} /\ OutCap \in Nat \ {0}
ASSUME OutcomesAssumption == Outcomes \subseteq {"reset", "kept"}
ASSUME BoundsAssumption ==
  MaxSubs \in Nat \ {0} /\ MaxIssues \in Nat /\ {WhileDown, NilPanics} \subseteq BOOLEAN

\* id numbers the commands issued, for the properties only; a reset has none.
CommandSet == [reg : Regs, val : Vals, id : 1..MaxIssues]
ResetSet == [reg : Regs, val : {Null}, id : {0}]
SentSet == CommandSet \cup ResetSet
nothing == [reg |-> Null, val |-> Null, id |-> 0]

VARIABLES
  commands,   \* commandStorage.state, of this device
  input,      \* its inputChannel
  forwarding, \* the value the main routine forwards, or nothing: it has the mutex
  subs,       \* number of subscriptions the runs have made
  listed,     \* those in the list of the storage
  closed,     \* those whose outputChannel is closed
  queue,      \* their outputChannels
  dpc,        \* where service.Run is; "panicked" ends the program
  executing,  \* the command in execCommand, or nothing
  avail,      \* the availability last filled into the state storage
  issued,     \* number of commands issued
  taken,      \* history: id of the last command the storage took
  since,      \* history: taken, when this run subscribed
  lastIssued, \* history: the value last issued to each register
  lastExec,   \* history: the value last executed on each register
  lastId,     \* history: id of the last command executed
  handled,    \* history: the registers this run has executed a command of
  kept,       \* history: those whose last command ended without a reset
  asked       \* history: those a command was issued to since this run subscribed

dvars == <<commands, input, forwarding, subs, listed, closed, queue, dpc, executing, avail,
           issued, taken, since, lastIssued, lastExec, lastId, handled, kept, asked>>
vars == <<rvars, dvars>>

Init ==
  /\ RestarterInit
  /\ commands = [r \in Regs |-> nothing]
  /\ input = <<>> /\ forwarding = nothing
  /\ subs = 0 /\ listed = {} /\ closed = {} /\ queue = [i \in 1..MaxSubs |-> <<>>]
  /\ dpc = "connect" /\ executing = nothing /\ avail = FALSE
  /\ issued = 0 /\ taken = 0 /\ since = 0
  /\ lastIssued = [r \in Regs |-> Null] /\ lastExec = [r \in Regs |-> Null]
  /\ lastId = 0 /\ handled = {} /\ kept = {} /\ asked = {}

Up == dpc \in {"loop", "exec", "reset"}
MutexFree == forwarding = nothing
Panicked == dpc = "panicked"

-----------------------------------------------------------------------------
\* A PATCH request or an MQTT command fills the storage.
Issue ==
  /\ issued < MaxIssues /\ Len(input) < InCap
  /\ Up \/ (WhileDown /\ ~Panicked)
  /\ issued' = issued + 1
  /\ \E r \in Regs, v \in Vals :
       /\ input' = Append(input, [reg |-> r, val |-> v, id |-> issued'])
       /\ lastIssued' = [lastIssued EXCEPT ![r] = v]
       /\ asked' = IF Up THEN asked \cup {r} ELSE asked
  /\ UNCHANGED <<rvars, commands, forwarding, subs, listed, closed, queue, dpc, executing, avail,
                 taken, since, lastExec, lastId, handled, kept>>

-----------------------------------------------------------------------------
\* The main routine of the storage: a value equal to the entry is dropped.
StorageTake ==
  /\ input # <<>> /\ MutexFree /\ ~Panicked
  /\ LET v == Head(input)
         equal == v.val # Null /\ commands[v.reg].val = v.val
     IN /\ commands' = IF equal THEN commands
                        ELSE [commands EXCEPT ![v.reg] = IF v.val = Null THEN nothing ELSE v]
        /\ forwarding' = IF equal THEN nothing ELSE v
        /\ taken' = IF v.val = Null THEN taken ELSE v.id
  /\ input' = Tail(input)
  /\ UNCHANGED <<rvars, subs, listed, closed, queue, dpc, executing, avail,
                 issued, since, lastIssued, lastExec, lastId, handled, kept, asked>>

\* Mutant: the value is not sent where the channel is full.
StorageForward_drops ==
  /\ forwarding # nothing /\ ~Panicked
  /\ LET to == IF forwarding.val = Null THEN {} ELSE listed
     IN queue' = [i \in 1..MaxSubs |->
                    IF i \in to /\ Len(queue[i]) < OutCap
                      THEN Append(queue[i], forwarding) ELSE queue[i]]
  /\ forwarding' = nothing
  /\ UNCHANGED <<rvars, commands, input, subs, listed, closed, dpc, executing, avail,
                 issued, taken, since, lastIssued, lastExec, lastId, handled, kept, asked>>

\* DeviceNonNullValueFilter; a full channel holds up all.
StorageForward ==
  /\ forwarding # nothing /\ ~Panicked
  /\ LET to == IF forwarding.val = Null THEN {} ELSE listed
     IN /\ \A i \in to : Len(queue[i]) < OutCap
        /\ queue' = [i \in 1..MaxSubs |->
                       IF i \in to THEN Append(queue[i], forwarding) ELSE queue[i]]
  /\ forwarding' = nothing
  /\ UNCHANGED <<rvars, commands, input, subs, listed, closed, dpc, executing, avail,
                 issued, taken, since, lastIssued, lastExec, lastId, handled, kept, asked>>

\* A subscription whose context is cancelled is removed,
Unlist ==
  /\ cancelled /\ MutexFree /\ ~Panicked
  /\ \E i \in listed : listed' = listed \ {i}
  /\ UNCHANGED <<rvars, commands, input, forwarding, subs, closed, queue, dpc, executing, avail,
                 issued, taken, since, lastIssued, lastExec, lastId, handled, kept, asked>>

\* and then its channel is closed.
Close ==
  /\ ~Panicked
  /\ \E i \in 1..subs \ (listed \cup closed) : closed' = closed \cup {i}
  /\ UNCHANGED <<rvars, commands, input, forwarding, subs, listed, queue, dpc, executing, avail,
                 issued, taken, since, lastIssued, lastExec, lastId, handled, kept, asked>>

-----------------------------------------------------------------------------
\* The first poll, or the set-up of the device; then it is available.
Connect ==
  /\ rpc = "run" /\ dpc = "connect"
  /\ avail' = TRUE /\ dpc' = "subscribe"
  /\ UNCHANGED <<rvars, commands, input, forwarding, subs, listed, closed, queue, executing,
                 issued, taken, since, lastIssued, lastExec, lastId, handled, kept, asked>>

ConnectFails ==
  /\ dpc = "connect" /\ ServiceFails(TRUE)
  /\ UNCHANGED dvars

\* Mutant: SubscribeSendInitial.
Subscribe_sendsInitial ==
  /\ dpc = "subscribe" /\ MutexFree
  /\ subs' = subs + 1 /\ listed' = listed \cup {subs'}
  /\ queue' = [queue EXCEPT ![subs'] = SetToSeq({commands[r] : r \in Regs} \ {nothing})]
  /\ dpc' = "loop" /\ since' = taken /\ handled' = {} /\ kept' = {} /\ asked' = {}
  /\ UNCHANGED <<rvars, commands, input, forwarding, closed, executing, avail,
                 issued, taken, lastIssued, lastExec, lastId>>

\* SubscribeReturnInitial: the commands found in the storage are not executed.
Subscribe ==
  /\ dpc = "subscribe" /\ MutexFree
  /\ subs' = subs + 1 /\ listed' = listed \cup {subs'}
  /\ dpc' = "loop" /\ since' = taken /\ handled' = {} /\ kept' = {} /\ asked' = {}
  /\ UNCHANGED <<rvars, commands, input, forwarding, closed, queue, executing, avail,
                 issued, taken, lastIssued, lastExec, lastId>>

\* The loop: ctx.Done(), a poll that fails, or a command.
LoopStops ==
  /\ dpc = "loop" /\ ServiceStops
  /\ dpc' = "connect" /\ avail' = FALSE
  /\ UNCHANGED <<commands, input, forwarding, subs, listed, closed, queue, executing,
                 issued, taken, since, lastIssued, lastExec, lastId, handled, kept, asked>>

PollFails ==
  /\ dpc = "loop" /\ subs < MaxSubs /\ ServiceFails(FALSE)
  /\ dpc' = "connect" /\ avail' = FALSE
  /\ UNCHANGED <<commands, input, forwarding, subs, listed, closed, queue, executing,
                 issued, taken, since, lastIssued, lastExec, lastId, handled, kept, asked>>

\* Mutant: the command is looked at, not received.
TakeCommand_again ==
  /\ dpc = "loop" /\ queue[subs] # <<>>
  /\ executing' = Head(queue[subs])
  /\ dpc' = "exec"
  /\ lastExec' = [lastExec EXCEPT ![executing'.reg] = executing'.val]
  /\ lastId' = executing'.id
  /\ handled' = handled \cup {executing'.reg}
  /\ UNCHANGED <<rvars, commands, input, forwarding, subs, listed, closed, queue, avail,
                 issued, taken, since, lastIssued, kept, asked>>

\* Mutant: the channel of the first run is read.
TakeCommand_first ==
  /\ dpc = "loop" /\ queue[1] # <<>>
  /\ executing' = Head(queue[1])
  /\ queue' = [queue EXCEPT ![1] = Tail(queue[1])]
  /\ dpc' = "exec"
  /\ lastExec' = [lastExec EXCEPT ![executing'.reg] = executing'.val]
  /\ lastId' = executing'.id
  /\ handled' = handled \cup {executing'.reg}
  /\ UNCHANGED <<rvars, commands, input, forwarding, subs, listed, closed, avail,
                 issued, taken, since, lastIssued, kept, asked>>

TakeCommand ==
  /\ dpc = "loop" /\ queue[subs] # <<>>
  /\ executing' = Head(queue[subs])
  /\ queue' = [queue EXCEPT ![subs] = Tail(queue[subs])]
  /\ dpc' = "exec"
  /\ lastExec' = [lastExec EXCEPT ![executing'.reg] = executing'.val]
  /\ lastId' = executing'.id
  /\ handled' = handled \cup {executing'.reg}
  /\ UNCHANGED <<rvars, commands, input, forwarding, subs, listed, closed, avail,
                 issued, taken, since, lastIssued, kept, asked>>

\* The select takes the nil of the closed channel, not ctx.Done(): where
\* execCommand does not panic on it, the loop goes on as it was.
TakeNil ==
  /\ dpc = "loop" /\ subs \in closed /\ queue[subs] = <<>>
  /\ NilPanics /\ dpc' = "panicked"
  /\ UNCHANGED <<rvars, commands, input, forwarding, subs, listed, closed, queue, executing, avail,
                 issued, taken, since, lastIssued, lastExec, lastId, handled, kept, asked>>

\* execCommand is done with the device: some returns skip the reset.
ExecEnds ==
  /\ dpc = "exec"
  /\ \/ "reset" \in Outcomes /\ dpc' = "reset" /\ UNCHANGED <<executing, kept>>
     \/ /\ "kept" \in Outcomes /\ dpc' = "loop" /\ executing' = nothing
        /\ kept' = kept \cup {executing.reg}
  /\ UNCHANGED <<rvars, commands, input, forwarding, subs, listed, closed, queue, avail,
                 issued, taken, since, lastIssued, lastExec, lastId, handled, asked>>

\* Mutant: the reset is sent twice.
Reset_twice ==
  /\ dpc = "reset" /\ Len(input) < InCap
  /\ input' = Append(input, [reg |-> executing.reg, val |-> Null, id |-> 0])
  /\ kept' = kept \ {executing.reg}
  /\ \/ dpc' = "loop" /\ executing' = nothing
     \/ UNCHANGED <<dpc, executing>>
  /\ UNCHANGED <<rvars, commands, forwarding, subs, listed, closed, queue, avail,
                 issued, taken, since, lastIssued, lastExec, lastId, handled, asked>>

\* Mutant: the device waits for the storage to be done, as Wait does.
Reset_waits ==
  /\ dpc = "reset" /\ Len(input) < InCap /\ MutexFree
  /\ input' = Append(input, [reg |-> executing.reg, val |-> Null, id |-> 0])
  /\ kept' = kept \ {executing.reg}
  /\ dpc' = "loop" /\ executing' = nothing
  /\ UNCHANGED <<rvars, commands, forwarding, subs, listed, closed, queue, avail,
                 issued, taken, since, lastIssued, lastExec, lastId, handled, asked>>

\* "reset the command; this allows the same command (e.g. toggle) to be sent again"
Reset ==
  /\ dpc = "reset" /\ Len(input) < InCap
  /\ input' = Append(input, [reg |-> executing.reg, val |-> Null, id |-> 0])
  /\ kept' = kept \ {executing.reg}
  /\ dpc' = "loop" /\ executing' = nothing
  /\ UNCHANGED <<rvars, commands, forwarding, subs, listed, closed, queue, avail,
                 issued, taken, since, lastIssued, lastExec, lastId, handled, asked>>

-----------------------------------------------------------------------------
\* The restarter's own steps.
RestarterStep ==
  /\ Start \/ Retry \/ GiveUp \/ Shutdown \/ ShutdownReturns
  /\ UNCHANGED dvars

Next ==
  \/ Issue \/ StorageTake \/ StorageForward \/ Unlist \/ Close
  \/ Connect \/ ConnectFails \/ Subscribe \/ LoopStops \/ PollFails
  \/ TakeCommand \/ TakeNil \/ ExecEnds \/ Reset
  \/ RestarterStep

Spec == Init /\ [][Next]_vars

\* Each routine goes on while it can: the main routine of the storage, the cleanups
\* of the subscriptions, the goroutine of the restarter with the device in it (a
\* request ends: http.Client and the modbus read have a timeout), and Shutdown.  No
\* poll and no connection need succeed, and no request need come.
Storage == StorageTake \/ StorageForward
Device ==
  \/ Connect \/ ConnectFails \/ Subscribe \/ LoopStops \/ TakeCommand \/ ExecEnds \/ Reset
  \/ (Start \/ Retry \/ GiveUp) /\ UNCHANGED dvars

Fairness ==
  /\ WF_vars(Storage) /\ WF_vars(Device) /\ WF_vars(Unlist)
  /\ WF_vars(ShutdownReturns /\ UNCHANGED dvars)

FairSpec == Spec /\ Fairness

-----------------------------------------------------------------------------
\* Every variable has its type.
TypeOK ==
  /\ RestarterTypeOK
  /\ commands \in [Regs -> CommandSet \cup {nothing}]
  /\ input \in Seq(SentSet) /\ Len(input) <= InCap
  /\ forwarding \in SentSet \cup {nothing}
  /\ subs \in 0..MaxSubs /\ listed \subseteq 1..subs /\ closed \subseteq 1..subs \ listed
  /\ queue \in [1..MaxSubs -> Seq(CommandSet)]
  /\ \A i \in 1..MaxSubs : Len(queue[i]) <= OutCap
  /\ dpc \in {"connect", "subscribe", "loop", "exec", "reset", "panicked"}
  /\ executing \in CommandSet \cup {nothing}
  /\ (executing # nothing) <=> (dpc \in {"exec", "reset"})
  /\ avail \in BOOLEAN
  /\ {issued, taken, since, lastId} \subseteq 0..MaxIssues
  /\ lastIssued \in [Regs -> Vals \cup {Null}] /\ lastExec \in [Regs -> Vals \cup {Null}]
  /\ handled \subseteq Regs /\ kept \subseteq Regs /\ asked \subseteq Regs

\* A command that had reached the storage before this run of the device
\* subscribed, perhaps long ago while it was down, is never executed.
NoStaleExecution == executing # nothing => executing.id > since

\* Commands are executed in the order they were issued in, and at most once:
\* over restarts, and though subscriptions of earlier runs are still filled.
ExecutedOnceInOrder ==
  [][ dpc # "exec" /\ dpc' = "exec" => executing'.id > lastId ]_vars

\* The device is up, and every command has gone as far as it goes.
Quiet ==
  dpc = "loop" /\ ~cancelled /\ input = <<>> /\ MutexFree /\ queue[subs] = <<>>

\* An entry from before this run subscribed.
Leftover(r) == commands[r] # nothing /\ commands[r].id <= since

\* README.md:498, "receive commands to set an output to a specific state": the
\* last command issued to a register while the device is up is the last executed,
\* unless an equal one from before this run is still in the storage and has
\* swallowed it; httpDevice/device.go:148, "this allows the same command (e.g.
\* toggle) to be sent again": of those this run has executed only one whose
\* execution ended without a reset stays in the storage, to swallow the next.
LastCommandWins ==
  Quiet => /\ \A r \in asked :
                lastExec[r] = lastIssued[r] \/ (Leftover(r) /\ commands[r].val = lastIssued[r])
           /\ \A r \in handled : commands[r] = nothing \/ r \in kept

\* The storage waits for room in the channel of the device, which waits in Fill
\* for room in the channel of the storage.
CircularWait ==
  /\ dpc = "reset" /\ Len(input) = InCap
  /\ forwarding # nothing /\ forwarding.val # Null /\ Len(queue[subs]) = OutCap

\* That takes one burst of commands that fills both channels, with one more in
\* the main routine and one in execution; the resets only ever replace commands.
CircularWaitNeedsBurst == CircularWait => issued >= InCap + OutCap + 2

\* The main routine waits for room in a channel nobody reads any more: that of a
\* run that has ended, which stays in the list until Shutdown.
HeldByEnded ==
  /\ forwarding # nothing /\ forwarding.val # Null
  /\ \E i \in listed : Len(queue[i]) = OutCap /\ ~(Up /\ i = subs)

\* README.md:731, "whether to receive and execute command messages": the storage
\* takes every command it is sent, whatever runs end and start meanwhile, unless it
\* is held by an ended run or waits for the device in a circle, or gpioDevice
\* panics: nothing else keeps a request waiting in Fill.
CommandsTaken ==
  taken < issued ~> taken = issued \/ HeldByEnded \/ CircularWait \/ Panicked

\* Where the device waits for a storage that does not go on.
DeviceHeld ==
  \/ dpc = "subscribe" /\ HeldByEnded
  \/ dpc = "reset" /\ Len(input) = InCap /\ (HeldByEnded \/ CircularWait)

\* Shutdown returns, from every state of the device and of the storage; but not
\* where the device waits for the storage for good, nor where the closed channel
\* makes gpioDevice panic first.
ShutdownCompletes == cancelled ~> joined \/ DeviceHeld \/ Panicked

=============================================================================
