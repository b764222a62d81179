---------------------------- MODULE RetryBackoff ----------------------------
(***************************************************************************)
(* The delays that scheduleRetry of pkg/modbus, pkg/opcua and pkg/redis    *)
(* computes: minDelay * 2^retryCount in floating point, converted to a     *)
(* time.Duration (a 64-bit signed integer of nanoseconds) and cut off at   *)
(* maxDelay.  retryCount grows with every failure and only a successful    *)
(* Connect resets it.                                                      *)
(*                                                                         *)
(* Go leaves the conversion of a float that does not fit to the machine:   *)
(* arm64 saturates, amd64 yields the smallest integer.  The product itself *)
(* is exact, the second factor being a power of two.                       *)
(***************************************************************************)
EXTENDS Integers

CONSTANTS
    Configured,  \* the delays a configuration may give; 0: not given
    DefaultMin,  \* used when RetryMinDelay is not given (1 s in the code)
    DefaultMax,  \* used when RetryMaxDelay is not given (30 s in the code)
    MaxDuration, \* the largest time.Duration (2^63 - 1 in the code)
    MaxRetries   \* bound: failures in a row

ASSUME RetryAssumption ==
    /\ Configured \subseteq 0 .. MaxDuration
    /\ MaxDuration \in Nat
    /\ DefaultMin \in 1 .. MaxDuration
    /\ DefaultMax \in 1 .. MaxDuration
    /\ MaxRetries \in Nat

VARIABLES
    minDelay,   \* minDelay, defaults applied
    maxDelay,   \* maxDelay, defaults applied
    saturates,  \* the conversion of the machine it runs on saturates
    retryCount, \* c.retryCount
    power,      \* math.Pow(2, retryCount)
    delay,      \* the delay scheduled last, 0 before the first
    quiet       \* no attempt has failed since New or the last success

config == <<minDelay, maxDelay, saturates>>
retryVars == <<config, retryCount, power, delay, quiet>>

\* A delay that is not given.
WithDefault(d, default) == IF d = 0 THEN default ELSE d

RetryInit ==
    /\ \E d \in Configured : minDelay = WithDefault(d, DefaultMin)
    /\ \E d \in Configured : maxDelay = WithDefault(d, DefaultMax)
    /\ saturates \in BOOLEAN
    /\ retryCount = 0
    /\ power = 1
    /\ delay = 0
    /\ quiet = TRUE

\* time.Duration(x) for a float x >= 0
ToDuration(x) ==
    IF x <= MaxDuration THEN x
    ELSE IF saturates THEN MaxDuration ELSE -MaxDuration - 1

\* Mutated form: the cut-off is forgotten.
Uncapped(d) == d
Capped(d) == IF d > maxDelay THEN maxDelay ELSE d

DelayFor(p) == Capped(ToDuration(minDelay * p))

\* A failed Connect: scheduleRetry.
ScheduleRetry ==
    /\ retryCount < MaxRetries
    /\ delay' = DelayFor(power)
    /\ retryCount' = retryCount + 1
    /\ power' = 2 * power
    /\ quiet' = FALSE
    /\ UNCHANGED config

CountAfterSuccess == [count |-> 0, power |-> 1]

\* A successful Connect.
Connected ==
    /\ retryCount' = CountAfterSuccess.count
    /\ power' = CountAfterSuccess.power
    /\ quiet' = TRUE
    /\ UNCHANGED <<config, delay>>

RetryNext == ScheduleRetry \/ Connected

RetrySpec == RetryInit /\ [][RetryNext]_retryVars

-----------------------------------------------------------------------------
RetryTypeOK ==
    /\ minDelay \in 1 .. MaxDuration
    /\ maxDelay \in 1 .. MaxDuration
    /\ saturates \in BOOLEAN
    /\ retryCount \in 0 .. MaxRetries
    /\ power \in Nat \ {0}
    /\ delay \in (-MaxDuration - 1) .. maxDelay
    /\ quiet \in BOOLEAN

InRange == (delay >= minDelay \/ delay = maxDelay) /\ delay <= maxDelay

(***************************************************************************)
(* Where the conversion saturates, every delay is between minDelay and     *)
(* maxDelay (or is maxDelay, when the configuration has them the wrong way *)
(* round): no retry comes at once, no retry is put off longer than         *)
(* allowed, however long the outage.                                       *)
(***************************************************************************)
InRangeIfSaturating == saturates /\ retryCount > 0 => InRange

(***************************************************************************)
(* On every machine, the same as long as the product fits a Duration.      *)
(***************************************************************************)
InRangeUntilOverflow == minDelay * power <= 2 * MaxDuration /\ retryCount > 0 => InRange

(***************************************************************************)
(* Where the conversion saturates, delays never get shorter in an outage.  *)
(***************************************************************************)
DelaysGrow ==
    [][saturates /\ retryCount > 0 /\ retryCount' > retryCount => delay' >= delay]_retryVars

(***************************************************************************)
(* On every machine: however long the last outage was, after a success the *)
(* first retry comes after minDelay again (maxDelay if that is shorter).   *)
(***************************************************************************)
OutagesStartAfresh ==
    [][quiet /\ ~quiet' => delay' = Capped(minDelay)]_retryVars
=============================================================================
