------------------------------ MODULE T1Client ------------------------------
(***************************************************************************)
(* The handshake loop of create_client: the INIT is built once, T1-init is *)
(* armed on the timer wheel, and each expiry doubles the timeout, arms the *)
(* timer again and sends the INIT.  The loop never receives, so it ends    *)
(* only by giving up (INIT ERROR).                                         *)
(*                                                                         *)
(* The thread polls the clock.  Lags are the numbers of timer steps that   *)
(* can have passed between two polls; a lag of several steps is the thread *)
(* having been descheduled, and the inner loop catches up on all of them   *)
(* before the retransmission limit is looked at again.                     *)
(***************************************************************************)
EXTENDS RingTimer

CONSTANTS RtoMin,      \* SCTP_RTO_MIN / SCTP_TIMER_STEP
          RtoMax,      \* SCTP_RTO_MAX / SCTP_TIMER_STEP
          MaxRetrans,  \* SCTP_ASSOC_MAX_RETRANS
          Lags         \* timer steps between two polls of the clock

ASSUME RtoAssumption == /\ RtoMin \in Nat \ {0}
                        /\ RtoMax \in Nat
                        /\ RtoMin <= RtoMax
ASSUME RetransAssumption == MaxRetrans \in Nat
ASSUME LagsAssumption == Lags \subseteq Nat

T1Expire == 1   \* SCTP_T1_INIT_EXPIRE

VARIABLES cpc,       \* where the loop of create_client is
          t1,        \* t1_timer
          retrans,   \* handshake_retrans
          lag,       \* steps in g_current_time - g_global_time
          todo,      \* timer_results.count
          since,     \* history: ticks of the wheel since T1 was armed
          elapsed,   \* history: steps of the clock since T1 was armed
          late,      \* history: steps the wheel was behind the clock then
          batch      \* history: steps the current catch-up started with

clientVars == <<cpc, t1, retrans, lag, todo, since, elapsed, late, batch>>
allVars == <<timerVars, clientVars>>

ClientInit == /\ Init
              /\ cpc = "arm"
              /\ t1 = RtoMin
              /\ retrans = 0 /\ lag = 0 /\ todo = 0
              /\ since = 0 /\ elapsed = 0 /\ late = 0 /\ batch = 0

\* The first insert_ringtimer, before the loop.
Arm == /\ cpc = "arm"
       /\ Insert(T1Expire, t1)
       /\ cpc' = "outer"
       /\ UNCHANGED <<t1, retrans, lag, todo, since, elapsed, late, batch>>

\* fault: the limit is never looked at
OuterNoLimit(k) == /\ cpc = "outer"
                   /\ lag' = lag + k /\ elapsed' = elapsed + k
                   /\ batch' = lag + k
                   /\ cpc' = "inner"
                   /\ UNCHANGED <<timerVars, t1, retrans, todo, since, late>>

\* One iteration of the outer loop: the limit, then the clock.
Outer(k) == /\ cpc = "outer"
            /\ IF retrans > MaxRetrans
               THEN cpc' = "failed" /\ UNCHANGED <<lag, elapsed, batch>>
               ELSE /\ cpc' = "inner"
                    /\ lag' = lag + k /\ elapsed' = elapsed + k
                    /\ batch' = lag + k
            /\ UNCHANGED <<timerVars, t1, retrans, todo, since, late>>

\* The inner loop: one tick for each step that has passed.
InnerEnd == /\ cpc = "inner" /\ lag = 0
            /\ cpc' = "outer"
            /\ UNCHANGED <<timerVars, t1, retrans, lag, todo, since, elapsed, late, batch>>

InnerTick == /\ cpc = "inner" /\ lag > 0
             /\ TickBegin
             /\ cpc' = "tick"
             /\ UNCHANGED <<t1, retrans, lag, todo, since, elapsed, late, batch>>

ClientScan == /\ cpc = "tick"
              /\ TickFire \/ TickKeep
              /\ UNCHANGED clientVars

ClientTickEnd == /\ cpc = "tick"
                 /\ TickEnd
                 /\ todo' = Len(res)
                 /\ since' = since + 1
                 /\ cpc' = "handle"
                 /\ UNCHANGED <<t1, retrans, lag, elapsed, late, batch>>

Smaller(a, b) == IF a < b THEN a ELSE b

Backoff(x) == Smaller(2 * x, RtoMax)

\* t1_timer after k retransmissions
Timeout[k \in 0 .. MaxRetrans + 1] ==
  IF k = 0 THEN RtoMin ELSE Backoff(Timeout[k - 1])

\* The timeout has reached its cap when the limit of retransmissions is passed
\* (1, 2, 4, .. 60 s, and the limit is ten).
ASSUME BackoffAssumption == Timeout[MaxRetrans + 1] = RtoMax

\* faults: the timer is armed with the old timeout; the retransmission is not
\* counted
ExpireArmsOld == /\ cpc = "handle" /\ todo > 0
                 /\ res[todo] = T1Expire
                 /\ todo' = todo - 1
                 /\ t1' = Backoff(t1)
                 /\ Insert(T1Expire, t1)
                 /\ retrans' = retrans + 1
                 /\ since' = 0 /\ elapsed' = 0 /\ late' = lag - 1
                 /\ UNCHANGED <<cpc, lag, batch>>

ExpireNoCount == /\ cpc = "handle" /\ todo > 0
                 /\ res[todo] = T1Expire
                 /\ todo' = todo - 1
                 /\ t1' = Backoff(t1)
                 /\ Insert(T1Expire, Backoff(t1))
                 /\ since' = 0 /\ elapsed' = 0 /\ late' = lag - 1
                 /\ UNCHANGED <<cpc, retrans, lag, batch>>

\* case SCTP_T1_INIT_EXPIRE: back off, arm, send, count
Expire == /\ cpc = "handle" /\ todo > 0
          /\ res[todo] = T1Expire
          /\ todo' = todo - 1
          /\ t1' = Backoff(t1)
          /\ Insert(T1Expire, Backoff(t1))
          /\ retrans' = retrans + 1
          /\ since' = 0 /\ elapsed' = 0 /\ late' = lag - 1
          /\ UNCHANGED <<cpc, lag, batch>>

\* g_global_time += SCTP_TIMER_STEP
Handled == /\ cpc = "handle" /\ todo = 0
           /\ lag' = lag - 1
           /\ cpc' = "inner"
           /\ UNCHANGED <<timerVars, t1, retrans, todo, since, elapsed, late, batch>>

ClientStep == Arm \/ InnerEnd \/ InnerTick \/ ClientScan \/ ClientTickEnd
              \/ Expire \/ Handled

ClientNext == ClientStep \/ \E k \in Lags : Outer(k)

ClientSpec == ClientInit /\ [][ClientNext]_allVars

\* The thread runs, and CLOCK_MONOTONIC advances: polls that find a step has
\* passed keep coming.
ClientFair == /\ ClientSpec
              /\ WF_allVars(ClientNext)
              /\ SF_allVars(\E k \in Lags \ {0} : Outer(k))

-----------------------------------------------------------------------------
(***************************************************************************)
(* Properties                                                              *)
(***************************************************************************)
\* The INIT is sent again when the clock has made the steps of the timeout or
\* one turn of the wheel more, as far as the tick being handled has come: short
\* of the lag - 1 steps the wheel is still behind, and counted from where the
\* wheel was, late steps behind the clock, when T1 was armed.  So T1 is early
\* by no more than the lag it was armed in (elapsed + late >= t1), and never
\* when the wheel was up to date (late = 0); INITs go out in a burst (elapsed
\* = 0) only while the thread is behind by the whole timeout.
T1EarlyOnlyByLag ==
  [][retrans' > retrans
       => elapsed + late - (lag - 1) \in {t1, t1 + Max}]_allVars

\* After the first INIT, at most one more than the limit is sent, and further
\* ones only while the thread catches up on a lag that spans further timeouts
\* of RtoMax.
RetransBounded == retrans <= MaxRetrans + 1 + (batch \div RtoMax)

\* The client finds its wheel consistent, and a node in the allocator whenever
\* it calls insert_ringtimer, which therefore never polls an empty allocator
\* for ever; a tick reports one signal at most, far from the end of
\* res.signals, and it is the one the switch handles.
ClientServed ==
  /\ WheelConsistent
  /\ cpc = "arm" \/ (cpc = "handle" /\ todo > 0) => free # << >>
  /\ cpc = "tick" => Len(res) <= 1
  /\ cpc = "handle" /\ todo > 0 => res[todo] = T1Expire

\* Without an answer the client gives up.
GivesUp == <>(cpc = "failed")

\* The timeout is capped: MIN (t1_timer * 2, SCTP_RTO_MAX / SCTP_TIMER_STEP)
\* says no INIT waits longer than SCTP_RTO_MAX for its retransmission.
GapWithinRtoMax == since <= RtoMax
=============================================================================
