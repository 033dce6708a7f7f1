----------------------------- MODULE GensetDevice -----------------------------
(***************************************************************************)
(* gensetDevice.DeviceStruct.Run: the routines around the controller.      *)
(* Each bound input has a subscription of the state storage and a setter   *)
(* routine that sends its values to the controller and fills them into the *)
(* state storage again; a ticker sends the time; the controller's own      *)
(* callbacks fill its state and outputs into the same storage.  All meet   *)
(* in two channels: changeInputs, unbuffered, and inputChannel of the      *)
(* storage.                                                                *)
(*                                                                         *)
(* The storage is the one of ValueStorage, coarser: one step to update and *)
(* one to forward.  The eight output registers are one value.  Time goes on*)
(* whatever the routines do.                                               *)
(***************************************************************************)
EXTENDS GensetController, SequencesExt

CONSTANTS
  FillCap,     \* capacity of inputChannel, 32 in the code
  SubCap,      \* subscriptionDefaultCap, 128 in the code
  StartTime,   \* the time when Run is called; inputs start at the zero time, 0
  TickEvery,   \* period of the ticker, one second
  EndTime,     \* bound on the clock
  MaxProduced  \* bound on the values the bound devices produce

ASSUME DeviceAssumption ==
  /\ FillCap \in Nat \ {0} /\ SubCap \in Nat \ {0}
  /\ StartTime \in Nat \ {0} /\ TickEvery \in Nat \ {0} /\ EndTime \in Nat /\ MaxProduced \in Nat
  /\ EndTime >= StartTime
  /\ InitialInputs.Time = 0

Bound == DOMAIN InputValues
Own == {"State", "StateChanged", "Outputs", "Available"}
StateKeys == ({"bound"} \X Bound) \cup ({"genset"} \X (Bound \cup Own))

VARIABLES
  now,        \* the clock
  enteredAt,  \* history: the time the controller entered its state at
  late,       \* history: the longest a tick has waited for the controller
  tickerC,    \* the time buffered in ticker.C, or 0
  tickSend,   \* the time the ticker routine sends to the controller, or 0
  toFill,     \* values the controller's callbacks have still to fill
  input,      \* inputChannel
  forwarding, \* <<the value the main routine forwards>>, or <<>>
  stored,     \* the state storage's map: <<value>> or <<>>
  initial,    \* the value SubscribeSendInitial has still to send: <<value>> or <<>>
  overtaken,  \* history: the bindings whose initial value was sent after a newer one
  queue,      \* the channel of each binding's subscription
  setter,     \* each setter routine
  held,       \* the value it holds
  produced,   \* number of values produced
  last,       \* history: <<the last value of the bound register>>, or <<>>
  ctxDone,    \* the context of Run is cancelled
  left,       \* Run has returned
  panicked    \* a routine has sent on the closed changeInputs

clock == <<now, late, tickerC, tickSend>>
store == <<input, forwarding, stored>>
subs == <<initial, overtaken, queue>>
setters == <<subs, setter, held>>
ends == <<ctxDone, left, panicked>>
world == <<produced, last>>
dvars == <<vars, clock, enteredAt, toFill, store, setters, world, ends>>

Value(device, reg, v) == [key |-> <<device, reg>>, val |-> v]

\* At most one element, as a sequence.
Maybe(S) == {<<>>} \cup {<<x>> : x \in S}

\* Available is filled, the inputs are subscribed, the routines are started; the
\* controller is not run yet.  The gensets are started last: a bound register
\* may have a value, which the subscription then has as its initial one.
DeviceInit ==
  /\ Init
  /\ now = StartTime /\ late = 0 /\ tickerC = 0 /\ tickSend = 0 /\ enteredAt = StartTime
  /\ toFill = <<>> /\ forwarding = <<>>
  /\ input = <<Value("genset", "Available", TRUE)>>
  /\ initial \in [Bound -> UNION {Maybe(InputValues[f]) : f \in Bound}]
  /\ \A f \in Bound : initial[f] \in Maybe(InputValues[f])
  /\ stored = [k \in StateKeys |-> IF k[1] = "bound" THEN initial[k[2]] ELSE <<>>]
  /\ overtaken = {} /\ queue = [f \in Bound |-> <<>>]
  /\ setter = [f \in Bound |-> "recv"] /\ held = [f \in Bound |-> <<>>]
  /\ produced = 0 /\ last = initial
  /\ ctxDone = FALSE /\ left = FALSE /\ panicked = FALSE

-----------------------------------------------------------------------------
\* A bound device fills a new value of one of its registers.
Produce(f) ==
  /\ produced < MaxProduced /\ Len(input) < FillCap
  /\ \E v \in InputValues[f] :
       /\ input' = Append(input, Value("bound", f, v))
       /\ last' = [last EXCEPT ![f] = <<v>>]
  /\ produced' = produced + 1
  /\ UNCHANGED <<vars, clock, enteredAt, toFill, forwarding, stored, setters, ends>>

\* The main routine of the state storage; an equal value is dropped.
StoreTake ==
  /\ input # <<>> /\ forwarding = <<>>
  /\ LET v == Head(input)
     IN IF stored[v.key] = <<v.val>>
          THEN UNCHANGED <<stored, forwarding>>
          ELSE /\ stored' = [stored EXCEPT ![v.key] = <<v.val>>]
               /\ forwarding' = <<v>>
  /\ input' = Tail(input)
  /\ UNCHANGED <<vars, clock, enteredAt, toFill, setters, world, ends>>

\* Only the values of bound registers have a subscription here.
StoreForward ==
  /\ forwarding # <<>>
  /\ LET v == forwarding[1]
         f == v.key[2]
     IN IF v.key[1] = "bound"
          THEN /\ Len(queue[f]) < SubCap
               /\ queue' = [queue EXCEPT ![f] = Append(queue[f], v.val)]
               /\ overtaken' = overtaken \ {f}
          ELSE UNCHANGED <<queue, overtaken>>
  /\ forwarding' = <<>>
  /\ UNCHANGED <<vars, clock, enteredAt, toFill, input, stored, initial, setter, held, world, ends>>

\* The value f has in the storage has been forwarded, and is not v.
Replaced(f, v) ==
  /\ stored[<<"bound", f>>] # <<v>>
  /\ forwarding = <<>> \/ forwarding[1].key # <<"bound", f>>

\* The routine of SubscribeSendInitial sends the value the register had when it
\* was subscribed; the main routine may have forwarded newer ones before.  With
\* the context done it may end instead.
SendInitial(f) ==
  /\ initial[f] # <<>>
  /\ \/ /\ Len(queue[f]) < SubCap
        /\ queue' = [queue EXCEPT ![f] = Append(queue[f], initial[f][1])]
        /\ overtaken' = IF Replaced(f, initial[f][1]) THEN overtaken \cup {f} ELSE overtaken
     \/ ctxDone /\ UNCHANGED <<queue, overtaken>>
  /\ initial' = [initial EXCEPT ![f] = <<>>]
  /\ UNCHANGED <<vars, clock, enteredAt, toFill, store, setter, held, world, ends>>

-----------------------------------------------------------------------------
\* The controller's goroutine, which fills what its callbacks are given before
\* it goes on.
ControllerFills ==
  /\ toFill # <<>> /\ Len(input) < FillCap
  /\ input' = Append(input, Head(toFill)) /\ toFill' = Tail(toFill)
  /\ UNCHANGED <<vars, clock, enteredAt, forwarding, stored, setters, world, ends>>

\* OnStateUpdate: lastState is Off and stays so.
StateFills(s) ==
  IF s.Node # "Off"
    THEN <<Value("genset", "State", s.Node), Value("genset", "StateChanged", s.Changed)>>
    ELSE <<Value("genset", "StateChanged", s.Changed)>>

OutputFills(o) == <<Value("genset", "Outputs", o)>>

ControllerRuns ==
  /\ Run
  /\ toFill' = StateFills(state) \o OutputFills(outputs)
  /\ UNCHANGED <<clock, enteredAt, store, setters, world, ends>>

ControllerComputesState ==
  /\ toFill = <<>> /\ ComputeState
  /\ toFill' = StateFills(state')
  /\ enteredAt' = IF state'.Node = state.Node THEN enteredAt ELSE now
  /\ UNCHANGED <<clock, store, setters, world, ends>>

\* Mutant: the outputs are not filled where only the checks have changed.
ControllerComputesOutputs_loadOnly ==
  /\ toFill = <<>> /\ ComputeOutputs
  /\ toFill' = IF outputs'.Load = outputs.Load THEN <<>> ELSE OutputFills(outputs')
  /\ UNCHANGED <<clock, enteredAt, store, setters, world, ends>>

ControllerComputesOutputs ==
  /\ toFill = <<>> /\ ComputeOutputs
  /\ toFill' = IF outputs' = outputs THEN <<>> ELSE OutputFills(outputs')
  /\ UNCHANGED <<clock, enteredAt, store, setters, world, ends>>

\* A send on changeInputs meets the controller's receive.
Accept(next) ==
  /\ toFill = <<>> /\ pc = "idle" /\ ~closed
  /\ IF next = inputs THEN UNCHANGED vars ELSE Receive(next)

-----------------------------------------------------------------------------
\* The setter routine of one binding.
SetterReceives(f) ==
  /\ setter[f] = "recv" /\ queue[f] # <<>>
  /\ setter' = [setter EXCEPT ![f] = "send"] /\ held' = [held EXCEPT ![f] = <<Head(queue[f])>>]
  /\ queue' = [queue EXCEPT ![f] = Tail(queue[f])]
  /\ UNCHANGED <<vars, clock, enteredAt, toFill, store, initial, overtaken, world, ends>>

\* Mutant: a value for a busy controller is dropped.
SetterSends_drops(f) ==
  /\ setter[f] = "send"
  /\ \/ Accept([inputs EXCEPT ![f] = held[f][1]])
     \/ ~closed /\ (pc # "idle" \/ toFill # <<>>) /\ UNCHANGED vars
  /\ setter' = [setter EXCEPT ![f] = "fill"]
  /\ UNCHANGED <<clock, enteredAt, toFill, store, subs, held, world, ends>>

SetterSends(f) ==
  /\ setter[f] = "send"
  /\ Accept([inputs EXCEPT ![f] = held[f][1]])
  /\ setter' = [setter EXCEPT ![f] = "fill"]
  /\ UNCHANGED <<clock, enteredAt, toFill, store, subs, held, world, ends>>

SetterFills(f) ==
  /\ setter[f] = "fill" /\ Len(input) < FillCap
  /\ input' = Append(input, Value("genset", f, held[f][1]))
  /\ setter' = [setter EXCEPT ![f] = "recv"] /\ held' = [held EXCEPT ![f] = <<>>]
  /\ UNCHANGED <<vars, clock, enteredAt, toFill, forwarding, stored, subs, world, ends>>

\* The channel of a cancelled subscription is closed, and drained to its end.
SetterEnds(f) ==
  /\ ctxDone /\ forwarding = <<>> /\ initial[f] = <<>>
  /\ setter[f] = "recv" /\ queue[f] = <<>>
  /\ setter' = [setter EXCEPT ![f] = "ended"]
  /\ UNCHANGED <<vars, clock, enteredAt, toFill, store, subs, held, world, ends>>

-----------------------------------------------------------------------------
\* The clock and the ticker, whose channel holds one time: while it does, the
\* ticks that follow are dropped.  A tick waits there, and then in the routine,
\* until the controller takes it.
Waited == IF tickSend # 0 THEN now - tickSend ELSE IF tickerC # 0 THEN now - tickerC ELSE 0

Advance ==
  /\ now < EndTime
  /\ now' = now + 1
  /\ tickerC' = IF (now' - StartTime) % TickEvery = 0 /\ tickerC = 0 THEN now' ELSE tickerC
  /\ UNCHANGED tickSend
  /\ late' = IF Waited' > late THEN Waited' ELSE late
  /\ UNCHANGED <<vars, enteredAt, toFill, store, setters, world, ends>>

\* Once the context is done its select may take either: never to receive again
\* is to have returned.
TickerReceives ==
  /\ tickerC # 0 /\ tickSend = 0
  /\ tickSend' = tickerC /\ tickerC' = 0
  /\ UNCHANGED <<vars, now, late, enteredAt, toFill, store, setters, world, ends>>

TickerSends ==
  /\ tickSend # 0
  /\ Accept([inputs EXCEPT !.Time = tickSend])
  /\ tickSend' = 0
  /\ UNCHANGED <<now, late, tickerC, enteredAt, toFill, store, setters, world, ends>>

-----------------------------------------------------------------------------
\* The end of Run: <-ctx.Done(), End, SetAvailable(false).
Cancel ==
  /\ ~ctxDone
  /\ ctxDone' = TRUE
  /\ UNCHANGED <<vars, clock, enteredAt, toFill, store, setters, world, left, panicked>>

\* d.controller.Run() has returned, then the deferred End.
RunEnds ==
  /\ ctxDone /\ End
  /\ UNCHANGED <<clock, enteredAt, toFill, store, setters, world, ends>>

RunLeaves ==
  /\ closed /\ ~left /\ Len(input) < FillCap
  /\ input' = Append(input, Value("genset", "Available", FALSE))
  /\ left' = TRUE
  /\ UNCHANGED <<vars, clock, enteredAt, toFill, forwarding, stored, setters, world,
                 ctxDone, panicked>>

ControllerStops ==
  /\ toFill = <<>> /\ Stop
  /\ UNCHANGED <<clock, enteredAt, toFill, store, setters, world, ends>>

\* A send on a closed channel panics, that of a blocked sender too.
SendPanics ==
  /\ closed /\ ~panicked
  /\ tickSend # 0 \/ \E f \in Bound : setter[f] = "send"
  /\ panicked' = TRUE
  /\ UNCHANGED <<vars, clock, enteredAt, toFill, store, setters, world, ctxDone, left>>

-----------------------------------------------------------------------------
DeviceNext ==
  /\ ~panicked
  /\ \/ ControllerRuns \/ ControllerComputesState \/ ControllerComputesOutputs
     \/ ControllerFills \/ ControllerStops
     \/ StoreTake \/ StoreForward
     \/ \E f \in Bound : \/ Produce(f) \/ SendInitial(f) \/ SetterReceives(f) \/ SetterSends(f)
                         \/ SetterFills(f) \/ SetterEnds(f)
     \/ Advance \/ TickerReceives \/ TickerSends
     \/ Cancel \/ RunEnds \/ RunLeaves \/ SendPanics

DeviceSpec == DeviceInit /\ [][DeviceNext]_dvars

-----------------------------------------------------------------------------
\* Nothing is on its way, and Run has not been told to end.
Quiet ==
  /\ ~ctxDone /\ pc = "idle" /\ toFill = <<>>
  /\ input = <<>> /\ forwarding = <<>>
  /\ \A f \in Bound : initial[f] = <<>> /\ queue[f] = <<>> /\ setter[f] = "recv"

\* Through the storage, the subscription, the setter and the channel, with
\* equal values dropped on the way: the controller computes with the last value
\* of each bound register, one from before Run included.  It computes with an
\* older one exactly where the initial value has overtaken a newer one, until
\* the next value comes.  In either case the genset shows what it computes with.
InputsFollow ==
  Quiet => \A f \in Bound :
    last[f] # <<>> => /\ f \notin overtaken => inputs[f] = last[f][1]
                      /\ stored[<<"genset", f>>] = <<inputs[f]>>

\* The registers the actuators are driven from, and the State register, show
\* the outputs and the state of the controller; but for Off, which is never
\* published after another state.
RegistersPublished ==
  Quiet => /\ stored[<<"genset", "Outputs">>] = <<outputs>>
           /\ state.Node # "Off" => stored[<<"genset", "State">>] = <<state.Node>>

\* The time the controller has counted in its state is the time it has been in
\* it, give or take a period of the ticker and twice the longest a tick has
\* waited; but for a state that was entered with the zero time, before the
\* first tick, which is no later than that after the start.
CountsRealTime ==
  LET slack == TickEvery + 2 * late
      counted == timeInState(inputs, state)
      spent == now - enteredAt
  IN IF state.Changed = 0
       THEN enteredAt <= StartTime + slack
       ELSE counted <= spent + slack /\ counted >= spent - slack

\* controller.go:102, "To terminate the controller, call the End method": no
\* routine sends on changeInputs when End has closed it.
EndTerminates == ~panicked
=============================================================================
