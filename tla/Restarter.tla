------------------------------ MODULE Restarter ------------------------------
(***************************************************************************)
(* restarter.Restarter: the goroutine that runs a service, waits after an  *)
(* error, longer after each immediate error in a row, and runs it again;   *)
(* and Shutdown, which cancels its context and waits for it.  The service  *)
(* returns without an error only once the context is cancelled.            *)
(*                                                                         *)
(* The context a run is given is the restarter's: it lives as long as the  *)
(* restarter, not as long as the run.                                      *)
(***************************************************************************)
EXTENDS Integers

CONSTANTS
  RestartInterval,  \* config.RestartInterval, in some unit of time
  MaxBackoff,       \* config.RestartIntervalMaxBackoff
  HalfRange,        \* 2^63 ns in that unit: a time.Duration is below it
  MaxDoublings,     \* of the interval, 16 in the code
  MaxErrors         \* bound on the immediate errors in a row

ASSUME IntervalAssumption == RestartInterval \in Nat \ {0} /\ MaxBackoff \in Nat \ {0}
ASSUME RangeAssumption == HalfRange \in Nat \ {0} /\ MaxDoublings \in Nat /\ MaxErrors \in Nat

VARIABLES
  rpc,          \* the goroutine: not started, in service.Run, waiting, ended
  errorsInARow, \* immediateErrorsInARow
  retryIn,      \* the wait computed after the last error
  cancelled,    \* the restarter's context is cancelled
  joined        \* Shutdown has returned

rvars == <<rpc, errorsInARow, retryIn, cancelled, joined>>

-----------------------------------------------------------------------------
\* The value an int64 keeps of x, scaled to the unit of time.
Wrapped(x) == ((x + HalfRange) % (2 * HalfRange)) - HalfRange

BackoffFactor(n) == IF n > MaxDoublings THEN 2^MaxDoublings ELSE 2^n

\* Mutant: the maximum is not observed.
getRestartInterval_noMaximum(n) == Wrapped(RestartInterval * BackoffFactor(n))

getRestartInterval(n) ==
  LET interval == Wrapped(RestartInterval * BackoffFactor(n))
  IN IF interval > MaxBackoff THEN MaxBackoff ELSE interval

-----------------------------------------------------------------------------
RestarterInit ==
  /\ rpc = "new" /\ errorsInARow = 0 /\ retryIn = 0
  /\ cancelled = FALSE /\ joined = FALSE

\* Run: nothing is started under a cancelled context.
Start ==
  /\ rpc = "new"
  /\ rpc' = IF cancelled THEN "done" ELSE "run"
  /\ UNCHANGED <<errorsInARow, retryIn, cancelled, joined>>

\* service.Run returns an error, immediate or after it got going.
ServiceFails(immediate) ==
  /\ rpc = "run"
  /\ immediate => errorsInARow < MaxErrors
  /\ errorsInARow' = IF immediate THEN errorsInARow + 1 ELSE 0
  /\ retryIn' = getRestartInterval(errorsInARow')
  /\ rpc' = "backoff"
  /\ UNCHANGED <<cancelled, joined>>

\* service.Run sees the cancelled context and returns without an error.
ServiceStops ==
  /\ rpc = "run" /\ cancelled
  /\ rpc' = "done"
  /\ UNCHANGED <<errorsInARow, retryIn, cancelled, joined>>

\* The select of the timer and ctx.Done(); both may be ready.
Retry ==
  /\ rpc = "backoff"
  /\ rpc' = "run"
  /\ UNCHANGED <<errorsInARow, retryIn, cancelled, joined>>

GiveUp ==
  /\ rpc = "backoff" /\ cancelled
  /\ rpc' = "done"
  /\ UNCHANGED <<errorsInARow, retryIn, cancelled, joined>>

\* Shutdown: cancel, then wg.Wait.
Shutdown ==
  /\ ~cancelled
  /\ cancelled' = TRUE
  /\ UNCHANGED <<rpc, errorsInARow, retryIn, joined>>

ShutdownReturns ==
  /\ cancelled /\ ~joined /\ rpc \in {"new", "done"}
  /\ joined' = TRUE
  /\ UNCHANGED <<rpc, errorsInARow, retryIn, cancelled>>

-----------------------------------------------------------------------------
\* Every variable has its type.
RestarterTypeOK ==
  /\ rpc \in {"new", "run", "backoff", "done"}
  /\ errorsInARow \in 0..MaxErrors
  /\ retryIn \in Int
  /\ cancelled \in BOOLEAN /\ joined \in BOOLEAN

\* An int64 does not hold x.
Overflows(x) == Wrapped(x) # x

\* The interval, doubled for each immediate error in a row.
Doubled(n) == RestartInterval * 2^(IF n > MaxDoublings THEN MaxDoublings ELSE n)

\* README.md:774, "when it fails, the restart interval is exponentially increased
\* up to this maximum": exactly so as long as the product does not overflow, which
\* the configuration may make it do; then the wait may be none at all.  A maximum
\* above MaxDoublings doublings is never reached.
ExponentialUpToMaximum ==
  rpc = "backoff" =>
    /\ retryIn <= MaxBackoff
    /\ ~Overflows(Doubled(errorsInARow)) =>
         retryIn = IF Doubled(errorsInARow) < MaxBackoff THEN Doubled(errorsInARow) ELSE MaxBackoff

=============================================================================
