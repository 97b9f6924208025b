----------------------------- MODULE RetryChain -----------------------------
(***************************************************************************)
(* What the task engine promises about one request to run a task, whether  *)
(* it comes from the API or from cron.  A request is a chain of attempts.  *)
(* At any moment at most one attempt of the chain is waiting or active;    *)
(* every attempt is active at most once; a failed attempt is followed by   *)
(* at most one other, and only while retries are left.                     *)
(*                                                                         *)
(* The promise is about the requests and their attempts.  It is silent     *)
(* about the status the database shows for them, which TaskEngine lets     *)
(* several threads overwrite.                                              *)
(***************************************************************************)
EXTENDS Naturals

CONSTANTS Chain,       \* the requests (a chain is named by its first run)
          MaxAttempt   \* the last attempt number a chain may reach, in Nat

VARIABLES attempt,     \* [Chain -> Nat]: number of the current attempt
          phase        \* [Chain -> Phase]: where that attempt is

chainVars == <<attempt, phase>>

Phase == {"absent", "waiting", "active", "over"}

ChainTypeOK ==
    /\ attempt \in [Chain -> 0..MaxAttempt]
    /\ phase \in [Chain -> Phase]

ChainInit ==
    /\ attempt = [k \in Chain |-> 0]
    /\ phase = [k \in Chain |-> "absent"]

\* Moves the phase of chain k from one of the phases in From to the phase to.
Move(k, From, to) ==
    /\ phase[k] \in From
    /\ phase' = [phase EXCEPT ![k] = to]

Request(k) == Move(k, {"absent"}, "waiting") /\ UNCHANGED attempt

Begin(k) == Move(k, {"waiting"}, "active") /\ UNCHANGED attempt

\* The attempt succeeds, or fails for good.
Finish(k) == Move(k, {"active"}, "over") /\ UNCHANGED attempt

\* The attempt fails and the next one takes its place.
Retry(k) ==
    /\ attempt[k] < MaxAttempt
    /\ Move(k, {"active"}, "waiting")
    /\ attempt' = [attempt EXCEPT ![k] = @ + 1]

\* A process crash, a recovery, a cancellation or a disabled task ends some
\* chains at once.
Abandon ==
    /\ phase' \in [Chain -> Phase]
    /\ \A k \in Chain : \/ phase'[k] = phase[k]
                        \/ phase[k] \in {"waiting", "active"} /\ phase'[k] = "over"
    /\ UNCHANGED attempt

ChainNext ==
    \/ \E k \in Chain : Request(k) \/ Begin(k) \/ Finish(k) \/ Retry(k)
    \/ Abandon

ChainSpec == ChainInit /\ [][ChainNext]_chainVars
=============================================================================
