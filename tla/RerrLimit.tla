------------------------------ MODULE RerrLimit ------------------------------
(***************************************************************************)
(* The rate limit of route errors: two senders that test m_rerrCount, one  *)
(* branch of one of them that counts, and a timer that starts over every   *)
(* second.  What the errors do is in AodvNetwork.                          *)
(***************************************************************************)
EXTENDS Integers

CONSTANTS
  RerrRateLimit,   \* m_rerrRateLimit
  MaxErrors        \* bound: errors sent between two expiries of the timer

ASSUME RerrAssumption == RerrRateLimit \in Nat \ {0} /\ MaxErrors \in Nat

VARIABLES
  rerrCount,   \* m_rerrCount
  window,      \* delay left of m_rerrRateLimitTimer
  toOne,       \* errors sent to a single precursor since it expired
  toMany       \* all the others

rerrVars == <<rerrCount, window, toOne, toMany>>

Second == 1        \* period of the timer, in ticks

RerrTypeOK ==
  /\ rerrCount \in 0 .. RerrRateLimit /\ window \in 0 .. Second
  /\ toOne \in 0 .. MaxErrors /\ toMany \in 0 .. MaxErrors

\* Start() starts the timer.
RerrInit == rerrCount = 0 /\ window = Second /\ toOne = 0 /\ toMany = 0

\* (mutant) one error too many.
AtLimit_OffByOne == rerrCount > RerrRateLimit
\* The test of both senders; the timer that ends it is running (NS_ASSERT).
AtLimit == rerrCount = RerrRateLimit

\* SendRerrWhenNoRouteToForward: one error, to the origin or to all.
SendRerrWhenNoRouteToForward ==
  /\ ~AtLimit /\ toOne + toMany < MaxErrors
  /\ toMany' = toMany + 1
  /\ UNCHANGED <<rerrCount, window, toOne>>

\* (mutant) the branch with one precursor does not count either.
SendRerrMessage_Uncounted(one) ==
  /\ ~AtLimit /\ toOne + toMany < MaxErrors
  /\ IF one THEN toOne' = toOne + 1 /\ UNCHANGED toMany
            ELSE toMany' = toMany + 1 /\ UNCHANGED toOne
  /\ UNCHANGED <<rerrCount, window>>

\* SendRerrMessage to the only precursor, or over an interface to several.
SendRerrMessage(one) ==
  /\ ~AtLimit /\ toOne + toMany < MaxErrors
  /\ IF one THEN /\ rerrCount' = rerrCount + 1
                 /\ toOne' = toOne + 1 /\ UNCHANGED toMany
            ELSE toMany' = toMany + 1 /\ UNCHANGED <<rerrCount, toOne>>
  /\ UNCHANGED window

\* RerrRateLimitTimerExpire.
RerrRateLimitTimerExpire ==
  /\ window = 0 /\ window' = Second
  /\ rerrCount' = 0
  /\ toOne' = 0 /\ toMany' = 0

RerrTick == window > 0 /\ window' = window - 1 /\ UNCHANGED <<rerrCount, toOne, toMany>>

-----------------------------------------------------------------------------
\* A node originates no more than RERR_RATELIMIT errors per second, says the
\* comment at the tests of both senders.
ErrorsLimited == toOne + toMany <= RerrRateLimit

\* The limit does hold for the errors to single precursors, whatever the
\* other kinds of errors do in between.
UnicastErrorsLimited == toOne <= RerrRateLimit
=============================================================================
