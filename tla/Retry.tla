------------------------------- MODULE Retry -------------------------------
(***************************************************************************)
(* withRetry around the calls of a fetch, for a source on RunnerPass.  A   *)
(* call that is repeated reads the page as it is by then.  The delays are  *)
(* left out: anything may happen between two attempts.                     *)
(***************************************************************************)
EXTENDS RunnerPass

CONSTANTS Retries,      \* how often a call is repeated (3 in retry.util.ts)
          MaxTransient  \* bounds the transient errors: 429 and 5xx

ASSUME RetryAssumption == Retries \in Nat /\ MaxTransient \in Nat

VARIABLES attempt,    \* attempt[j]: how often the call that pass j awaits has failed
          transient,  \* how many transient errors there have been
          exhausted   \* how many passes ended with one

retryVars == <<attempt, transient, exhausted>>

RetryTypeOK ==
    /\ attempt \in [Jobs -> 0..Retries]
    /\ transient \in 0..MaxTransient
    /\ exhausted \in 0..MaxFailures

RetryInit ==
    /\ attempt = [j \in Jobs |-> 0]
    /\ transient = 0
    /\ exhausted = 0

\* Mutant: retries counts the first attempt too.
LastOfRetries(n) == n >= Retries

\* retries counts the attempts after the first.
GivesUp(n) == n > Retries

\* The call fails, and is repeated or given up.
TransientError(j) ==
    /\ phase[j] \in {"full", "incremental"}
    /\ transient < MaxTransient
    /\ transient' = transient + 1
    /\ IF GivesUp(attempt[j] + 1)
       THEN /\ Fail(j)
            /\ attempt' = [attempt EXCEPT ![j] = 0]
            /\ exhausted' = exhausted + 1
       ELSE /\ attempt' = [attempt EXCEPT ![j] = @ + 1]
            /\ UNCHANGED <<passVars, exhausted>>

\* The call is answered, or fails with an error that is not repeated; the next
\* one counts its attempts from zero.
Settles(j) ==
    /\ attempt' = [attempt EXCEPT ![j] = 0]
    /\ UNCHANGED <<transient, exhausted>>

\* A pass is lost to transient errors only by a call that was tried to the end:
\* "retrying only transient classes", "Cap retries" (docs/DESIGN.md:261).
PassesOutlastHiccups == exhausted * (Retries + 1) <= transient
=============================================================================
