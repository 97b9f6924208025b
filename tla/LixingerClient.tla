--------------------------- MODULE LixingerClient ---------------------------
(***************************************************************************)
(* The client of the data provider (services/lixinger_client.py): a cache  *)
(* with a time to live, a circuit breaker, retries, and the alerts it      *)
(* writes.  One instance serves every thread of the process                *)
(* (get_lixinger_client); the breaker and the cache take a lock for each   *)
(* operation of theirs and for no longer, so the threads interleave        *)
(* between them.                                                           *)
(*                                                                         *)
(* Time is counted in ticks since the events that the code dates, up to    *)
(* the point where it no longer tells them apart.  What an answer holds is *)
(* left out: a key stands for a path and a payload.                        *)
(***************************************************************************)
EXTENDS Naturals, Sequences, SequencesExt

CONSTANTS
    Caller,         \* threads that use the client
    Key,            \* paths and payloads
    Threshold,      \* failures in a row that open the circuit
    Reset,          \* ticks for which it stays open
    Attempts,       \* posts of one call
    Ttl,            \* ticks for which an answer is kept, 0 if it is not
    MaxSize         \* entries of the cache

ASSUME ClientAssumption ==
    /\ Threshold \in Nat \ {0} /\ Reset \in Nat /\ Attempts \in Nat \ {0}
    /\ Ttl \in [Key -> Nat] /\ MaxSize \in Nat \ {0}

VARIABLES
    fails,          \* _failure_count
    since,          \* ticks since _last_failure_at
    flag,           \* _opened_alert_emitted
    cache,          \* keys and their ages, in the order of insertion
    call,           \* the call each thread is in
    mode,           \* how the provider answers
    streak,         \* history: calls that failed since the last success
    notified,       \* history: an alert was written since the last success
    lapse,          \* history: an alert was lost, or marked after a success
    probes          \* history: calls let through since the circuit was last open

breaker == <<fails, since, flag>>
history == <<streak, notified, lapse, probes>>
vars == <<breaker, cache, call, mode, history>>

Idle == [pc |-> "idle", key |-> CHOOSE k \in Key : TRUE, left |-> 0, old |-> FALSE]
At(c, pc) == call[c].pc = pc
Goto(c, pc) == call' = [call EXCEPT ![c].pc = pc]
Return(c) == call' = [call EXCEPT ![c] = Idle]

\* The failures are counted as far as the code and the properties tell them apart.
Up(n) == IF n < Threshold THEN n + 1 ELSE n

-----------------------------------------------------------------------------
(* The circuit breaker.                                                    *)

Tripped == fails >= Threshold
Elapsed == since > Reset

\* Mutant of Refused: once open, the circuit stays open.
RefusedForever == Tripped

Refused == Tripped /\ ~Elapsed

\* is_open: the first to ask after the reset window takes the count one below the threshold.
PassGate ==
    /\ ~Refused
    /\ fails' = IF Tripped THEN Threshold - 1 ELSE fails
    /\ probes' = IF streak < Threshold THEN 0 ELSE IF probes < 2 THEN probes + 1 ELSE 2
    /\ UNCHANGED <<since, flag, streak, notified, lapse>>

\* The failures of a streak count; half-open, one more is enough to open.
CountFailure ==
    /\ fails' = Up(fails)
    /\ since' = 0
    /\ streak' = Up(streak)
    /\ probes' = IF fails + 1 >= Threshold THEN 0 ELSE probes
    /\ UNCHANGED <<flag, notified, lapse>>

\* Mutant of CountSuccess: the failures before it still count.
KeepCount ==
    /\ flag' = FALSE
    /\ streak' = 0 /\ notified' = FALSE /\ probes' = 0
    /\ UNCHANGED <<fails, since, lapse>>

\* Mutant of CountSuccess: the flag of the last alert is kept.
KeepFlag ==
    /\ fails' = 0 /\ streak' = 0 /\ notified' = FALSE /\ probes' = 0
    /\ UNCHANGED <<since, flag, lapse>>

CountSuccess ==
    /\ fails' = 0 /\ flag' = FALSE
    /\ streak' = 0 /\ notified' = FALSE /\ probes' = 0
    /\ UNCHANGED <<since, lapse>>

-----------------------------------------------------------------------------
(* The cache.                                                              *)

Entry(k) == {e \in ToSet(cache) : e.key = k}
Hit(k) == \E e \in Entry(k) : e.age < Ttl[k]
Without(k) == SelectSeq(cache, LAMBDA e : e.key # k)
Fresh(k) == [key |-> k, age |-> 0]

\* A new key goes last, a known one keeps its place.
Put(s, k) ==
    IF \E i \in DOMAIN s : s[i].key = k
    THEN [i \in DOMAIN s |-> IF s[i].key = k THEN Fresh(k) ELSE s[i]]
    ELSE Append(s, Fresh(k))

\* Mutant of Evicted: one fifth of the cache, rounded down.
EvictedFifth(s) ==
    IF Len(s) >= MaxSize THEN SubSeq(s, MaxSize \div 5 + 1, Len(s)) ELSE s

\* A full cache drops its first fifth, one entry at least.
Evicted(s) ==
    IF Len(s) < MaxSize THEN s
    ELSE SubSeq(s, (IF MaxSize < 5 THEN 1 ELSE MaxSize \div 5) + 1, Len(s))

-----------------------------------------------------------------------------
Init ==
    /\ fails = 0 /\ since = 0 /\ flag = FALSE
    /\ cache = <<>>
    /\ call = [c \in Caller |-> Idle]
    /\ mode = "up"
    /\ streak = 0 /\ notified = FALSE /\ lapse = FALSE /\ probes = 0

\* _post looks the key up; an expired entry is deleted by the look-up.
Call(c, k) ==
    /\ At(c, "idle")
    /\ ~(Ttl[k] > 0 /\ Hit(k))
    /\ cache' = IF Ttl[k] > 0 THEN Without(k) ELSE cache
    /\ call' = [call EXCEPT ![c] = [Idle EXCEPT !.pc = "gate", !.key = k]]
    /\ UNCHANGED <<breaker, mode, history>>

\* CircuitOpenError.
Refuse(c) ==
    /\ At(c, "gate")
    /\ Refused
    /\ Return(c)
    /\ UNCHANGED <<breaker, cache, mode, history>>

\* The throttle makes the call wait, and it posts.
Pass(c) ==
    /\ At(c, "gate")
    /\ PassGate
    /\ call' = [call EXCEPT ![c].pc = "post", ![c].left = Attempts]
    /\ UNCHANGED <<cache, mode>>

Answered(c) ==
    /\ At(c, "post") /\ mode = "up"
    /\ Goto(c, "answered")
    /\ UNCHANGED <<breaker, cache, mode, history>>

\* Mutant of Unanswered: no attempt is the last one.
Reposted(c) ==
    /\ At(c, "post") /\ mode = "down"
    /\ call' = [call EXCEPT ![c].left = @ - 1]
    /\ UNCHANGED <<breaker, cache, mode, history>>

\* No connection, a time-out, a 5xx or a 429: posted again after a pause.
Unanswered(c) ==
    /\ At(c, "post") /\ mode = "down"
    /\ call' = [call EXCEPT ![c].left = @ - 1, ![c].pc = IF call[c].left = 1 THEN "failed" ELSE @]
    /\ UNCHANGED <<breaker, cache, mode, history>>

\* Any other 4xx is not tried again.
Rejected(c) ==
    /\ At(c, "post") /\ mode = "rejects"
    /\ Goto(c, "failed")
    /\ UNCHANGED <<breaker, cache, mode, history>>

\* A business code other than 1 leaves the breaker as it is.
Declined(c) ==
    /\ At(c, "post") /\ mode = "declines"
    /\ Return(c)
    /\ UNCHANGED <<breaker, cache, mode, history>>

Succeed(c) ==
    /\ At(c, "answered")
    /\ CountSuccess
    \* From now on a mark for an alert of this outage would be late.
    /\ call' = [d \in Caller |->
                  IF d = c THEN [call[c] EXCEPT !.pc = "store"]
                  ELSE [call[d] EXCEPT !.old =
                             @ \/ At(d, "ask") \/ At(d, "write") \/ At(d, "mark")]]
    /\ UNCHANGED <<cache, mode>>

Store(c) ==
    /\ At(c, "store")
    /\ cache' = IF Ttl[call[c].key] > 0 THEN Put(Evicted(cache), call[c].key) ELSE cache
    /\ Return(c)
    /\ UNCHANGED <<breaker, mode, history>>

Fail(c) ==
    /\ At(c, "failed")
    /\ CountFailure
    /\ Goto(c, "check")
    /\ UNCHANGED <<cache, mode>>

\* _maybe_emit_circuit_alert reads the count, then the flag, without the lock.
Check(c) ==
    /\ At(c, "check")
    /\ IF Tripped THEN Goto(c, "ask") ELSE Return(c)
    /\ UNCHANGED <<breaker, cache, mode, history>>

Ask(c) ==
    /\ At(c, "ask")
    /\ IF flag THEN Return(c) ELSE Goto(c, "write")
    /\ UNCHANGED <<breaker, cache, mode, history>>

Write(c) ==
    /\ At(c, "write")
    /\ notified' = (notified \/ ~call[c].old)
    /\ Goto(c, "mark")
    /\ UNCHANGED <<breaker, cache, mode, streak, lapse, probes>>

\* The session fails: the flag stays off, and the next failure tries again.
WriteFails(c) ==
    /\ At(c, "write")
    /\ lapse' = TRUE
    /\ Return(c)
    /\ UNCHANGED <<breaker, cache, mode, streak, notified, probes>>

Mark(c) ==
    /\ At(c, "mark")
    /\ flag' = TRUE
    /\ lapse' = (lapse \/ call[c].old)
    /\ Return(c)
    /\ UNCHANGED <<fails, since, cache, mode, streak, notified, probes>>

Aged(e) == [e EXCEPT !.age = IF @ < Ttl[e.key] THEN @ + 1 ELSE @]

\* A tick passes.
Tick ==
    /\ since' = IF Elapsed THEN since ELSE since + 1
    /\ cache' = [i \in DOMAIN cache |-> Aged(cache[i])]
    /\ UNCHANGED <<fails, flag, call, mode, history>>

Change ==
    /\ mode' \in {"up", "down", "rejects", "declines"} \ {mode}
    /\ UNCHANGED <<breaker, cache, call, history>>

Step(c) ==
    \/ Refuse(c) \/ Pass(c)
    \/ Answered(c) \/ Unanswered(c) \/ Rejected(c) \/ Declined(c)
    \/ Succeed(c) \/ Store(c)
    \/ Fail(c) \/ Check(c) \/ Ask(c) \/ Write(c) \/ WriteFails(c) \/ Mark(c)

Next ==
    \/ \E c \in Caller : Step(c) \/ \E k \in Key : Call(c, k)
    \/ Tick
    \/ Change

Spec == Init /\ [][Next]_vars

\* A call goes on and time passes; nobody has to call.
FairSpec == Spec /\ WF_vars(Tick) /\ \A c \in Caller : WF_vars(Step(c))

-----------------------------------------------------------------------------
(* The type of every variable.                                             *)
ClientTypeOK ==
    /\ fails \in 0..Threshold /\ since \in 0..(Reset + 1) /\ flag \in BOOLEAN
    /\ cache \in Seq([key : Key, age : Nat])
    /\ \A i \in DOMAIN cache : cache[i].age <= Ttl[cache[i].key]
    /\ call \in [Caller -> [pc : {"idle", "gate", "post", "answered", "store", "failed",
                                  "check", "ask", "write", "mark"},
                            key : Key, left : 0..Attempts, old : BOOLEAN]]
    /\ mode \in {"up", "down", "rejects", "declines"}
    /\ streak \in 0..Threshold /\ notified \in BOOLEAN /\ lapse \in BOOLEAN /\ probes \in 0..2

(* Threads that store at the same time never take the cache over its size, *)
(* and a key is in it once (_TTLCache.set).                                *)
CacheBounded ==
    /\ Len(cache) <= MaxSize
    /\ \A i, j \in DOMAIN cache : cache[i].key = cache[j].key => i = j

(* The circuit opens on failures in a row only: whatever the order in      *)
(* which threads end, no success lies between the failures it counts.      *)
OpensOnStreak == fails <= streak

Quiet == \A c \in Caller : call[c].pc \in {"idle", "gate"}

(* "When the circuit threshold is reached, emit a critical alert": the     *)
(* operator knows of every outage whose failures are handled, unless the   *)
(* alert could not be written, or one of an earlier outage was marked only *)
(* after the success that ended it.                                        *)
OutageAlerted == Tripped /\ Quiet /\ ~lapse => notified

(* Calls reach the provider again once it answers: a circuit that is asked *)
(* again and again does not stay open for ever.                            *)
Recovers ==
    <>[](mode = "up") /\ (\A c \in Caller : []<>At(c, "gate")) => []<>(fails = 0)

(* lixinger_client.py 92-98: after the reset window the circuit "allows a  *)
(* single half-open probe call".                                           *)
SingleProbe == streak >= Threshold => probes <= 1
=============================================================================
