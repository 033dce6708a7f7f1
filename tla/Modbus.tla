------------------------------- MODULE Modbus -------------------------------
(***************************************************************************)
(* A serial line with two devices, as modbus, modbusDevice and the         *)
(* restarter drive it.  WriteRead holds a mutex, discards what has been    *)
(* received, writes the request and reads an answer of the length it       *)
(* expects until the read timeout.  callFunction compares checksum,        *)
(* address and function; nothing in an answer names the register.          *)
(*                                                                         *)
(* "me" is a Finder 7M.38 or a Waveshare relay board under its restarter,  *)
(* "other" sends requests of the same kind to another slave.  A slave      *)
(* answers in its own time: after the timeout, even after the next         *)
(* request; or not at all, garbled, or with an exception.                  *)
(***************************************************************************)
EXTENDS Restarter, Sequences, FiniteSets

CONSTANTS
  Registers,  \* of the Finder, in the order of the list: [name, addr, len, static]
  Retries,    \* attempts for each of them, 8 in the code
  FullEvery,  \* every such poll reads the static ones too, 60 in the code
  None,       \* no value
  MaxFaults   \* bound: answers lost, garbled, refused or late

ASSUME LineAssumption ==
  /\ Len(Registers) \in Nat \ {0} /\ Retries \in Nat \ {0} /\ FullEvery \in Nat \ {0} /\ MaxFaults \in Nat
ASSUME NoneAssumption == None \notin {"me", "other"}
\* The Finder's names are not those of the Waveshare.
ASSUME NamesAssumption ==
  \A i \in 1..Len(Registers) : Registers[i].name \notin {"version", "relay"}

VARIABLES
  kind,     \* Kind() of "me": "finder" or "waveshare"
  stage,    \* where its run is
  todo,     \* the requests left in this stage
  tries,    \* attempts made with the first of them
  polls,    \* pollCounter
  avail,    \* its availability
  shown,    \* the values in the state storage
  relay,    \* the relay of the board
  phase,    \* phase[u]: "idle" or "wait" in WriteRead
  holder,   \* who has the mutex
  owed,     \* answers the slaves have yet to send, in order
  buffer,   \* answers received
  faults,   \* history: number of answers lost, garbled, refused or late
  overdue   \* history: a request was sent while an earlier one was unanswered

device == <<kind, stage, todo, tries, polls, avail, shown>>
line == <<relay, phase, holder, owed, buffer, faults, overdue>>
vars == <<rvars, device, line>>

Users == {"me", "other"}
Names == {Registers[i].name : i \in 1..Len(Registers)} \cup {"version", "relay"}

\* The requests; val is what the write command carries.
ReadRegister(r) == [to |-> "me", fn |-> "input", addr |-> r.addr, len |-> r.len, val |-> None, name |-> r.name]
Version == [to |-> "me", fn |-> "holding", addr |-> "version", len |-> 2, val |-> None, name |-> "version"]
ReadRelay == [to |-> "me", fn |-> "coils", addr |-> "relay", len |-> 2, val |-> None, name |-> "relay"]
WriteRelay(v) == [to |-> "me", fn |-> "coil", addr |-> "relay", len |-> 4, val |-> v, name |-> "relay"]

\* What the other device asks its slave for: what "me" may ask for too.
OtherRequest ==
  [(IF kind = "finder" THEN ReadRegister(Registers[1]) ELSE ReadRelay) EXCEPT !.to = "other"]
RequestOf(u) == IF u = "me" THEN Head(todo) ELSE OtherRequest

\* The numbers in S, in their order.
Ascending(S) ==
  CHOOSE f \in [1..Cardinality(S) -> S] : \A i, j \in 1..Cardinality(S) : i < j => f[i] < f[j]

\* Registers of category Device Info and Energy Counter are left out of reduced polls.
Poll(reduced) ==
  IF kind = "waveshare" THEN <<ReadRelay>>
  ELSE LET read == {i \in 1..Len(Registers) : ~(reduced /\ Registers[i].static)}
       IN [k \in 1..Cardinality(read) |-> ReadRegister(Registers[Ascending(read)[k]])]

Init ==
  /\ RestarterInit
  /\ kind \in {"finder", "waveshare"} /\ stage = "off" /\ todo = <<>> /\ tries = 0 /\ polls = 0
  /\ avail = FALSE /\ shown = [n \in Names |-> None]
  /\ relay \in {"open", "closed"} /\ phase = [u \in Users |-> "idle"] /\ holder = None
  /\ owed = <<>> /\ buffer = <<>> /\ faults = 0 /\ overdue = FALSE

-----------------------------------------------------------------------------
\* Mutant: the mutex is not locked.
Send_unlocked(u) ==
  /\ phase[u] = "idle" /\ (u = "me" => todo # <<>>)
  /\ owed # <<>> => faults < MaxFaults
  /\ phase' = [phase EXCEPT ![u] = "wait"] /\ holder' = u
  /\ buffer' = <<>>
  /\ owed' = Append(owed, [by |-> u, req |-> RequestOf(u), late |-> FALSE])
  /\ faults' = IF owed # <<>> /\ holder = None THEN faults + 1 ELSE faults
  /\ overdue' = (overdue \/ owed # <<>>)
  /\ UNCHANGED <<rvars, device, relay>>

\* WriteRead: lock, RecvFlush, Write.
Send(u) ==
  /\ phase[u] = "idle" /\ holder = None /\ (u = "me" => todo # <<>>)
  /\ owed # <<>> => faults < MaxFaults
  /\ phase' = [phase EXCEPT ![u] = "wait"] /\ holder' = u
  /\ buffer' = <<>>
  /\ owed' = Append(owed, [by |-> u, req |-> RequestOf(u), late |-> FALSE])
  /\ faults' = IF owed # <<>> THEN faults + 1 ELSE faults
  /\ overdue' = (overdue \/ owed # <<>>)
  /\ UNCHANGED <<rvars, device, relay>>

\* What the slave answers when it works.
Answer(o, state) ==
  [by |-> o.by, to |-> o.req.to, fn |-> o.req.fn, len |-> o.req.len, late |-> o.late, whole |-> TRUE,
   val |-> IF o.req.to = "other" THEN "foreign"
           ELSE IF o.req.fn = "coils" THEN state
           ELSE IF o.req.fn = "coil" THEN o.req.val ELSE o.req.addr]

\* The slave executes the request and its answer is received: as it should be,
\* garbled, or not at all, in which case the request may have been lost too; or
\* the slave refuses.
Arrive ==
  /\ owed # <<>>
  /\ LET o == Head(owed)
         written == IF o.req.to = "me" /\ o.req.fn = "coil" THEN o.req.val ELSE relay
         good == Answer(o, written)
     IN \/ relay' = written /\ buffer' = Append(buffer, good) /\ UNCHANGED faults
        \/ /\ faults < MaxFaults /\ faults' = faults + 1
           /\ \/ relay' = written /\ buffer' = Append(buffer, [good EXCEPT !.whole = FALSE])
              \/ relay' \in {written, relay} /\ UNCHANGED buffer
              \/ relay' = relay /\ buffer' = Append(buffer, [good EXCEPT !.fn = "exception", !.len = 1])
  /\ owed' = Tail(owed)
  /\ UNCHANGED <<rvars, device, phase, holder, overdue>>

\* Mutant: the address in the answer is not compared.
Accepted_anyAddress(f, r) == f.whole /\ f.len = r.len /\ f.fn = r.fn

\* callFunction; an answer of another length fails the checksum or ReadFull.
Accepted(f, r) == f.whole /\ f.len = r.len /\ f.fn = r.fn /\ f.to = r.to

\* WriteRead returns and unlocks; what is still owed to u comes late.
Return(u) ==
  /\ phase' = [phase EXCEPT ![u] = "idle"] /\ holder' = None
  /\ owed' = [i \in 1..Len(owed) |-> IF owed[i].by = u THEN [owed[i] EXCEPT !.late = TRUE] ELSE owed[i]]
  /\ UNCHANGED <<relay, overdue>>

\* Mutant: no read timeout.
TimesOut_never(u) == FALSE /\ Return(u) /\ UNCHANGED <<buffer, faults>>

\* ReadFull returns an error.  A slave that has not answered by now is late.
TimesOut(u) ==
  /\ phase[u] = "wait" /\ buffer = <<>>
  /\ IF \E i \in 1..Len(owed) : owed[i].by = u /\ ~owed[i].late
       THEN faults < MaxFaults /\ faults' = faults + 1
       ELSE UNCHANGED faults
  /\ Return(u) /\ UNCHANGED buffer

\* The first answer received is taken.
Takes(u) ==
  /\ phase[u] = "wait" /\ buffer # <<>>
  /\ buffer' = Tail(buffer) /\ Return(u) /\ UNCHANGED faults

Succeeds(u) == Takes(u) /\ Accepted(Head(buffer), RequestOf(u))
Fails(u) == (Takes(u) /\ ~Accepted(Head(buffer), RequestOf(u))) \/ TimesOut(u)

OtherReturns == (Takes("other") \/ TimesOut("other")) /\ UNCHANGED <<rvars, device>>

-----------------------------------------------------------------------------
\* The restarter calls Run.
Begin ==
  /\ stage = "off" /\ rpc = "run"
  /\ stage' = IF kind = "finder" THEN "first" ELSE "version"
  /\ todo' = IF kind = "finder" THEN Poll(FALSE) ELSE <<Version>>
  /\ tries' = 0 /\ polls' = 0
  /\ UNCHANGED <<rvars, line, kind, avail, shown>>

\* The last request of a stage has succeeded; or the Finder's loop sees ctx.Done().
StageOver == Len(todo) = 1 \/ (kind = "finder" /\ cancelled)

\* An answer is accepted.  The value of a write is stored at once.
StepSucceeds ==
  /\ Succeeds("me")
  /\ shown' = IF stage = "version" THEN shown
              ELSE [shown EXCEPT ![Head(todo).name] =
                      IF stage = "write" THEN Head(todo).val ELSE Head(buffer).val]
  /\ tries' = 0
  /\ IF ~StageOver THEN todo' = Tail(todo) /\ UNCHANGED <<stage, avail>>
     ELSE IF stage = "version" THEN stage' = "first" /\ todo' = Poll(FALSE) /\ UNCHANGED avail
     ELSE stage' = "idle" /\ todo' = <<>> /\ avail' = TRUE
  /\ UNCHANGED <<rvars, kind, polls>>

\* FinderReadInputRegisters tries again, without a pause.
StepRetries ==
  /\ Fails("me") /\ kind = "finder" /\ tries + 1 < Retries
  /\ tries' = tries + 1
  /\ UNCHANGED <<rvars, kind, stage, todo, polls, avail, shown>>

\* A write that fails is logged only.
WriteGivenUp ==
  /\ Fails("me") /\ stage = "write"
  /\ stage' = "idle" /\ todo' = <<>>
  /\ UNCHANGED <<rvars, kind, tries, polls, avail, shown>>

\* Another failure ends the run; before the device is available it is immediate.
RunFails ==
  /\ Fails("me") /\ stage # "write" /\ (kind = "finder" => tries + 1 = Retries)
  /\ ServiceFails(stage # "poll")
  /\ stage' = "off" /\ todo' = <<>> /\ tries' = 0 /\ avail' = FALSE
  /\ UNCHANGED <<kind, polls, shown>>

\* The select of the loop: a tick, a command, or ctx.Done().
Tick ==
  /\ stage = "idle"
  /\ todo' = Poll(polls % FullEvery # 0) /\ polls' = (polls + 1) % FullEvery
  /\ stage' = IF todo' = <<>> THEN "idle" ELSE "poll"
  /\ UNCHANGED <<rvars, line, kind, tries, avail, shown>>

Command(v) ==
  /\ stage = "idle" /\ kind = "waveshare"
  /\ stage' = "write" /\ todo' = <<WriteRelay(v)>>
  /\ UNCHANGED <<rvars, line, kind, tries, polls, avail, shown>>

Stop ==
  /\ stage = "idle" /\ ServiceStops
  /\ stage' = "off" /\ avail' = FALSE
  /\ UNCHANGED <<line, kind, todo, tries, polls, shown>>

RestarterStep ==
  /\ Start \/ Retry \/ GiveUp \/ Shutdown \/ ShutdownReturns
  /\ UNCHANGED <<device, line>>

-----------------------------------------------------------------------------
Steps == StepSucceeds \/ StepRetries \/ WriteGivenUp \/ RunFails
Loop == Tick \/ Stop \/ (\E v \in {"open", "closed"} : Command(v))

Next ==
  \/ (\E u \in Users : Send(u)) \/ Arrive \/ OtherReturns
  \/ Begin \/ Steps \/ Loop
  \/ RestarterStep

Spec == Init /\ [][Next]_vars

\* Requests are answered or time out; the mutex is granted in time, and the
\* select takes each case that is ready again and again.
Fairness ==
  /\ SF_vars(Send("me")) /\ WF_vars(Arrive) /\ WF_vars(OtherReturns) /\ WF_vars(Steps)
  /\ WF_vars(Begin) /\ WF_vars(Loop) /\ SF_vars(Stop)
  /\ WF_vars((Start \/ Retry) /\ UNCHANGED <<device, line>>)
  /\ SF_vars(GiveUp /\ UNCHANGED <<device, line>>)
  /\ WF_vars(ShutdownReturns /\ UNCHANGED <<device, line>>)

FairSpec == Spec /\ Fairness
-----------------------------------------------------------------------------
Addresses(n) == {Registers[i].addr : i \in {j \in 1..Len(Registers) : Registers[j].name = n}}
Lengths(n) == {Registers[i].len : i \in {j \in 1..Len(Registers) : Registers[j].name = n}}

\* An answer that is too late for its request is never taken for one of another
\* device, to another function or of another length; without an answer that comes
\* after the next request, a value is always that of its register.  The relay is
\* shown as it is, as long as every answer comes as it should.
ShownFits ==
  /\ \A n \in Names \ {"relay"} : shown[n] # None =>
       \E i \in 1..Len(Registers) :
         /\ Registers[i].addr = shown[n] /\ Registers[i].len \in Lengths(n)
         /\ ~overdue => shown[n] \in Addresses(n)
  /\ shown["relay"] \in {None, "open", "closed"}
  /\ kind = "waveshare" /\ stage = "idle" /\ faults = 0 => shown["relay"] = relay

\* Sharing the line does no harm: a device whose slaves answer in time is not
\* restarted, whatever the other one sends.
PromptNeverFails == rpc = "backoff" => faults > 0

\* When nothing disturbs the answers any more, the device is back for good; and
\* Shutdown returns, in the midst of a request or of a backoff.
Recovers == <>[](avail \/ joined)
=============================================================================
