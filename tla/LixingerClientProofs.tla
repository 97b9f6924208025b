------------------------ MODULE LixingerClientProofs ------------------------
(***************************************************************************)
(* The circuit breaker of LixingerClient for any number of threads, keys,  *)
(* failures and attempts: it counts failures in a row only, and an outage  *)
(* is told to the operator.                                                *)
(***************************************************************************)
EXTENDS LixingerClient, TLAPS

Control == {"idle", "gate", "post", "answered", "store", "failed", "check", "ask", "write", "mark"}

CallType == [pc : Control, key : Key \cup {Idle.key}, left : Int, old : BOOLEAN]

(* The types of what the breaker and the alerts look at. *)
BreakerTypeOK ==
    /\ fails \in 0..Threshold /\ streak \in 0..Threshold
    /\ flag \in BOOLEAN /\ notified \in BOOLEAN /\ lapse \in BOOLEAN
    /\ call \in [Caller -> CallType]

(* The flag and an alert on its way tell of this outage; a circuit that is *)
(* open has been told of, or a thread that saw it open is about to tell.   *)
Alerting == {"check", "ask", "write", "mark"}
Telling == \E c \in Caller : call[c].pc \in Alerting
AlertInv ==
    /\ flag /\ ~lapse => notified
    /\ \A c \in Caller : At(c, "mark") /\ ~call[c].old => notified
    /\ Tripped /\ ~lapse => notified \/ Telling

ClientInv == BreakerTypeOK /\ OpensOnStreak /\ AlertInv

-----------------------------------------------------------------------------
(* The breaker alone.                                                      *)

LEMMA IdleType == Idle \in CallType /\ Idle.pc = "idle" /\ Idle.old = FALSE
  BY DEF Idle, CallType, Control

LEMMA InitInv == Init => ClientInv
<1>1. Init => BreakerTypeOK /\ OpensOnStreak
  <2>1. ASSUME Init PROVE BreakerTypeOK /\ OpensOnStreak
    <3>1. 0 \in 0..Threshold /\ fails = 0 /\ streak = 0
      BY <2>1, ClientAssumption DEF Init
    <3>2. flag \in BOOLEAN /\ notified \in BOOLEAN /\ lapse \in BOOLEAN
      BY <2>1, Zenon DEF Init
    <3>3. call \in [Caller -> CallType]
      BY <2>1, IdleType DEF Init
    <3> QED BY <3>1, <3>2, <3>3 DEF BreakerTypeOK, OpensOnStreak
  <2> QED BY <2>1
<1>2. Init => AlertInv
  BY ClientAssumption, IdleType DEF Init, AlertInv, At, Tripped
<1> QED BY <1>1, <1>2 DEF ClientInv

(* One more failure keeps the count and the streak in range and in order. *)
LEMMA UpKeeps ==
  ASSUME NEW m \in 0..Threshold, NEW n \in 0..Threshold, m <= n
  PROVE  Up(m) \in 0..Threshold /\ Up(n) \in 0..Threshold /\ Up(m) <= Up(n)
  BY ClientAssumption DEF Up

(* What a step of one thread keeps of the types and of the count. *)
LEMMA TypeStep == BreakerTypeOK /\ OpensOnStreak /\ [Next]_vars => BreakerTypeOK' /\ OpensOnStreak'
<1> SUFFICES ASSUME BreakerTypeOK, OpensOnStreak, [Next]_vars
             PROVE  BreakerTypeOK' /\ OpensOnStreak'
  OBVIOUS
<1> DEFINE Kept == UNCHANGED <<fails, streak, flag, notified, lapse>>
<1>0. ASSUME Kept, call' \in [Caller -> CallType] PROVE BreakerTypeOK' /\ OpensOnStreak'
  BY <1>0 DEF BreakerTypeOK, OpensOnStreak
<1>1. ASSUME NEW c \in Caller, NEW k \in Key, Call(c, k) PROVE BreakerTypeOK' /\ OpensOnStreak'
  <2>1. [Idle EXCEPT !.pc = "gate", !.key = k] \in CallType
    BY IdleType DEF CallType, Control
  <2> QED BY <1>0, <1>1, <2>1 DEF Call, BreakerTypeOK, breaker, history
<1>2. ASSUME NEW c \in Caller, Refuse(c) \/ Declined(c) \/ Store(c)
      PROVE  BreakerTypeOK' /\ OpensOnStreak'
  BY <1>0, <1>2, IdleType DEF Refuse, Declined, Store, Return, BreakerTypeOK, breaker, history
<1>3. ASSUME NEW c \in Caller, Pass(c) PROVE BreakerTypeOK' /\ OpensOnStreak'
  <2>1. call' \in [Caller -> CallType]
    <3>1. Attempts \in Int
      BY ClientAssumption
    <3>2. [[call[c] EXCEPT !.pc = "post"] EXCEPT !.left = Attempts] \in CallType
      BY <3>1 DEF BreakerTypeOK, CallType, Control
    <3> QED BY <1>3, <3>2 DEF Pass, BreakerTypeOK
  <2>2. /\ UNCHANGED <<streak, flag, notified, lapse>>
        /\ fails' = IF Tripped THEN Threshold - 1 ELSE fails
    BY <1>3 DEF Pass, PassGate
  <2> QED BY <2>1, <2>2, ClientAssumption DEF BreakerTypeOK, OpensOnStreak, Tripped
<1>4. ASSUME NEW c \in Caller, Answered(c) \/ Unanswered(c) \/ Rejected(c)
      PROVE  BreakerTypeOK' /\ OpensOnStreak'
  <2>1. call' \in [Caller -> CallType]
    BY <1>4 DEF Answered, Unanswered, Rejected, Goto, BreakerTypeOK, CallType, Control
  <2> QED BY <1>0, <1>4, <2>1 DEF Answered, Unanswered, Rejected, breaker, history
<1>5. ASSUME NEW c \in Caller, Succeed(c) PROVE BreakerTypeOK' /\ OpensOnStreak'
  <2>1. call' \in [Caller -> CallType]
    BY <1>5 DEF Succeed, At, BreakerTypeOK, CallType, Control
  <2>2. fails' = 0 /\ streak' = 0 /\ flag' = FALSE /\ notified' = FALSE /\ lapse' = lapse
    BY <1>5 DEF Succeed, CountSuccess
  <2>3. 0 \in 0..Threshold
    BY ClientAssumption
  <2>4. flag' \in BOOLEAN /\ notified' \in BOOLEAN /\ lapse' \in BOOLEAN
    BY <2>2, Zenon DEF BreakerTypeOK
  <2>5. fails' <= streak'
    BY <2>2
  <2> QED BY <2>1, <2>2, <2>3, <2>4, <2>5 DEF BreakerTypeOK, OpensOnStreak
<1>6. ASSUME NEW c \in Caller, Fail(c) PROVE BreakerTypeOK' /\ OpensOnStreak'
  <2>1. fails' = Up(fails) /\ streak' = Up(streak) /\ UNCHANGED <<flag, notified, lapse>>
    BY <1>6 DEF Fail, CountFailure
  <2>2. call' \in [Caller -> CallType]
    BY <1>6 DEF Fail, Goto, BreakerTypeOK, CallType, Control
  <2>3. fails \in 0..Threshold /\ streak \in 0..Threshold /\ fails <= streak
    BY DEF BreakerTypeOK, OpensOnStreak
  <2>4. Up(fails) \in 0..Threshold /\ Up(streak) \in 0..Threshold /\ Up(fails) <= Up(streak)
    BY <2>3, UpKeeps
  <2> QED BY <2>1, <2>2, <2>4 DEF BreakerTypeOK, OpensOnStreak
<1>7. ASSUME NEW c \in Caller, Check(c) \/ Ask(c) \/ Write(c) \/ WriteFails(c) \/ Mark(c)
      PROVE  BreakerTypeOK' /\ OpensOnStreak'
  <2>1. call' \in [Caller -> CallType]
    BY <1>7, IdleType
    DEF Check, Ask, Write, WriteFails, Mark, Goto, Return, BreakerTypeOK, CallType, Control
  <2>2. fails' = fails /\ streak' = streak
    BY <1>7 DEF Check, Ask, Write, WriteFails, Mark, breaker, history
  <2>3. flag' \in BOOLEAN /\ notified' \in BOOLEAN /\ lapse' \in BOOLEAN
    <3>1. CASE Check(c) \/ Ask(c) BY <3>1 DEF Check, Ask, breaker, history, BreakerTypeOK
    <3>2. CASE Write(c) BY <3>2 DEF Write, breaker, BreakerTypeOK, CallType
    <3>3. CASE WriteFails(c) BY <3>3 DEF WriteFails, breaker, BreakerTypeOK
    <3>4. CASE Mark(c) BY <3>4 DEF Mark, BreakerTypeOK, CallType
    <3> QED BY <1>7, <3>1, <3>2, <3>3, <3>4
  <2> QED BY <2>1, <2>2, <2>3 DEF BreakerTypeOK, OpensOnStreak
<1>8. ASSUME Tick \/ Change \/ UNCHANGED vars PROVE BreakerTypeOK' /\ OpensOnStreak'
  BY <1>0, <1>8 DEF Tick, Change, vars, breaker, history, BreakerTypeOK
<1> QED BY <1>1, <1>2, <1>3, <1>4, <1>5, <1>6, <1>7, <1>8 DEF Next, Step

-----------------------------------------------------------------------------
(* The alerts.                                                             *)

(* A step that leaves counts, flags and every thread's place in the alert  *)
(* as they are keeps the invariant.                                        *)
LEMMA AlertsUntouched ==
  ASSUME AlertInv, fails' <= fails \/ ~Tripped', UNCHANGED <<flag, notified, lapse>>,
         fails \in Int, fails' \in Int, Threshold \in Int,
         \A c \in Caller : /\ call[c].pc \in Alerting => call'[c] = call[c]
                           /\ call'[c].pc = "mark" => call'[c] = call[c]
  PROVE  AlertInv'
  BY DEF AlertInv, At, Tripped, Telling, Alerting

LEMMA AlertStep == ClientInv /\ [Next]_vars => AlertInv'
<1> SUFFICES ASSUME ClientInv, [Next]_vars PROVE AlertInv'
  OBVIOUS
<1>0. BreakerTypeOK' /\ BreakerTypeOK /\ Threshold \in Int /\ fails \in Int /\ fails' \in Int
  BY TypeStep, ClientAssumption DEF ClientInv, BreakerTypeOK
<1> USE DEF ClientInv, breaker, history, Alerting
<1>1. ASSUME NEW c \in Caller, NEW k \in Key, Call(c, k) PROVE AlertInv'
  BY <1>0, <1>1, IdleType, AlertsUntouched DEF Call, At, BreakerTypeOK, CallType
<1>2. ASSUME NEW c \in Caller, Refuse(c) \/ Declined(c) \/ Store(c) PROVE AlertInv'
  BY <1>0, <1>2, IdleType, AlertsUntouched DEF Refuse, Declined, Store, Return, At, BreakerTypeOK, CallType
<1>3. ASSUME NEW c \in Caller, Pass(c) PROVE AlertInv'
  <2>1. ~Tripped' /\ UNCHANGED <<flag, notified, lapse>>
    BY <1>0, <1>3, ClientAssumption DEF Pass, PassGate, Tripped, BreakerTypeOK
  <2> QED BY <1>0, <1>3, <2>1, AlertsUntouched DEF Pass, At, BreakerTypeOK, CallType
<1>4. ASSUME NEW c \in Caller, Answered(c) \/ Unanswered(c) \/ Rejected(c) PROVE AlertInv'
  BY <1>0, <1>4, AlertsUntouched DEF Answered, Unanswered, Rejected, Goto, At, BreakerTypeOK, CallType
<1>5. ASSUME NEW c \in Caller, Succeed(c) PROVE AlertInv'
  BY <1>0, <1>5, ClientAssumption DEF Succeed, CountSuccess, At, Tripped, AlertInv, BreakerTypeOK, CallType
<1>6. ASSUME NEW c \in Caller, Fail(c) PROVE AlertInv'
  BY <1>0, <1>6 DEF Fail, CountFailure, Goto, At, Tripped, Telling, AlertInv, BreakerTypeOK, CallType
<1>7. ASSUME NEW c \in Caller, Check(c) \/ Ask(c) PROVE AlertInv'
  BY <1>0, <1>7, IdleType DEF Check, Ask, Goto, Return, At, Tripped, Telling, AlertInv, BreakerTypeOK, CallType
<1>8. ASSUME NEW c \in Caller, Write(c) PROVE AlertInv'
  BY <1>0, <1>8 DEF Write, Goto, At, Tripped, Telling, AlertInv, BreakerTypeOK, CallType
<1>9. ASSUME NEW c \in Caller, WriteFails(c) PROVE AlertInv'
  BY <1>0, <1>9, IdleType DEF WriteFails, Return, At, Tripped, Telling, AlertInv, BreakerTypeOK, CallType
<1>10. ASSUME NEW c \in Caller, Mark(c) PROVE AlertInv'
  BY <1>0, <1>10, IdleType DEF Mark, Return, At, Tripped, Telling, AlertInv, BreakerTypeOK, CallType
<1>11. ASSUME Tick \/ Change \/ UNCHANGED vars PROVE AlertInv'
  BY <1>11 DEF Tick, Change, vars, AlertInv, At, Tripped, Telling
<1> QED BY <1>1, <1>2, <1>3, <1>4, <1>5, <1>6, <1>7, <1>8, <1>9, <1>10, <1>11 DEF Next, Step

-----------------------------------------------------------------------------
LEMMA InvHolds == Spec => []ClientInv
<1>1. ClientInv /\ [Next]_vars => ClientInv'
  BY TypeStep, AlertStep DEF ClientInv
<1> QED BY InitInv, <1>1, PTL DEF Spec

(* The circuit opens on failures in a row only, whatever the order in      *)
(* which the threads record how their calls ended                          *)
(* (CircuitBreaker.record_failure, record_success, is_open).               *)
THEOREM BreakerCountsStreaks == Spec => []OpensOnStreak
<1>1. ClientInv => OpensOnStreak
  BY DEF ClientInv
<1> QED BY InvHolds, <1>1, PTL

(* When the circuit is open and no thread is past its gate, the operator   *)
(* has been told of this outage, unless an alert was lost or marked after  *)
(* a success (_maybe_emit_circuit_alert).                                  *)
THEOREM OutagesAreTold == Spec => []OutageAlerted
<1>1. ClientInv => OutageAlerted
  BY DEF ClientInv, AlertInv, OutageAlerted, Quiet, Telling, Alerting
<1> QED BY InvHolds, <1>1, PTL
=============================================================================
