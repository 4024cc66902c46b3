------------------------- MODULE AdaptiveServiceProofs -------------------------
(***************************************************************************)
(* Proofs about AdaptiveService, for any strategies, any periods and any   *)
(* time the awaits of a round may take: the loop never spins, and a        *)
(* selector whose strategy the loop has set is never too old.              *)
(***************************************************************************)
EXTENDS AdaptiveService, TLAPS

-----------------------------------------------------------------------------
\* A timer is in the future from the step of the round that serves it to the
\* next reading of the clock.
ServedInv ==
  /\ pc \in {"check", "eval", "reschedule", "rebuild", "rebuilt", "sleep"}
       => due["update"] > 0
  /\ pc \in {"eval", "reschedule", "rebuild", "rebuilt", "sleep"} => due["check"] > 0
  /\ pc \in {"reschedule", "rebuild", "rebuilt", "sleep"} => due["eval"] > 0
  /\ pc = "sleep" => due["rebuild"] > 0

\* Outside its sleep the loop is behind the clock by its awaits only, and it
\* sleeps on past them only while no timer is due.
LagInv ==
  \/ lag <= MaxAwait
  \/ pc = "sleep" /\ \A t \in Timer : lag <= due[t]

\* The selector and the timer of its next building: together they make up one
\* period from the clock reading, or the timer has passed during the awaits.
\* Just before the timer is set the selector is new.
AgeInv ==
  own /\ strategy \in Rebuilding =>
    IF pc \in {"reschedule", "rebuilt"} THEN age = 0
    ELSE /\ due["rebuild"] <= RebuildPeriod
         /\ IF due["rebuild"] > 0 THEN age + due["rebuild"] <= RebuildPeriod + lag
            ELSE age <= RebuildPeriod + MaxAwait + lag

ServiceInv == ServiceTypeOK /\ ServedInv /\ LagInv /\ AgeInv

\* Periods are positive naturals, at most Never.
LEMMA Periods ==
  /\ Never \in Nat /\ MaxAwait \in Nat
  /\ UpdatePeriod \in 1 .. Never /\ CheckPeriod \in 1 .. Never
  /\ EvalPeriod \in 1 .. Never
  /\ RebuildPeriod \in 1 .. Never /\ RebuildPeriod < Never
  /\ AgeCap \in Nat
  /\ \A s : RebuildIn(s) \in 1 .. Never
<1>1. Never \in Nat
  BY PeriodsPositive
<1>2. /\ UpdatePeriod \in 1 .. Never /\ CheckPeriod \in 1 .. Never
      /\ EvalPeriod \in 1 .. Never - 1 /\ RebuildPeriod \in 1 .. Never - 1
  BY PeriodsPositive
<1>3. /\ EvalPeriod \in 1 .. Never
      /\ RebuildPeriod \in 1 .. Never /\ RebuildPeriod < Never
  BY <1>1, <1>2
<1> QED BY <1>1, <1>2, <1>3, MaxAwaitNat DEF AgeCap, RebuildIn

LEMMA InitIInv == ServiceInit => ServiceInv
<1> SUFFICES ASSUME ServiceInit PROVE ServiceInv
  OBVIOUS
<1> USE Periods DEF ServiceInit
<1>1. ServiceTypeOK
  <2>1. due \in [Timer -> 0 .. Never]
    <3>1. \A t \in Timer : due[t] \in 0 .. Never
      BY DEF Timer
    <3> QED BY <3>1
  <2>2. shutdown \in BOOLEAN /\ own \in BOOLEAN
    OBVIOUS
  <2>3. lag \in 0 .. Never + MaxAwait /\ age \in 0 .. AgeCap
    OBVIOUS
  <2> QED BY <2>1, <2>2, <2>3 DEF ServiceTypeOK
<1>2. ServedInv /\ LagInv
  BY DEF ServedInv, LagInv
<1>3. AgeInv
  <2>1. ASSUME strategy \in Rebuilding
        PROVE  age = 0 /\ lag = 0 /\ due["rebuild"] = RebuildPeriod
    BY <2>1 DEF RebuildIn, Timer
  <2>2. pc \notin {"reschedule", "rebuilt"}
    OBVIOUS
  <2> QED BY <2>1, <2>2 DEF AgeInv
<1> QED BY <1>1, <1>2, <1>3 DEF ServiceInv

\* Every step preserves the invariant.
LEMMA NextIInv == ServiceInv /\ [ServiceNext]_serviceVars => ServiceInv'
<1> SUFFICES ASSUME ServiceInv, [ServiceNext]_serviceVars PROVE ServiceInv'
  OBVIOUS
<1> USE Periods, StrategySets DEF ServiceInv, ServiceTypeOK, ServedInv, LagInv, AgeInv, Timer
<1>1. CASE Stop
  BY <1>1 DEF Stop, Goto
<1>2. CASE StartRound
  BY <1>2 DEF StartRound, Goto
<1>3. CASE NotDue("update", "update", "check")
  BY <1>3 DEF NotDue, Goto
<1>4. CASE NotDue("check", "check", "eval")
  BY <1>4 DEF NotDue, Goto
<1>5. CASE NotDue("eval", "eval", "rebuild")
  BY <1>5 DEF NotDue, Goto
<1>6. CASE NotDue("rebuild", "rebuild", "sleep")
  BY <1>6 DEF NotDue, Goto
<1>7. CASE Update
  BY <1>7 DEF Update, Goto, Reschedule
<1>8. CASE RunHealthCheck
  BY <1>8 DEF RunHealthCheck, Goto, Reschedule
<1>9. CASE Evaluate
  BY <1>9 DEF Evaluate, Reschedule
<1>10. CASE RescheduleRebuild
  BY <1>10 DEF RescheduleRebuild, Goto, Reschedule, RebuildIn
<1>11. CASE Rebuild
  BY <1>11 DEF Rebuild, Goto
<1>12. CASE Rebuilt
  BY <1>12 DEF Rebuilt, Goto, Reschedule, RebuildIn
<1>13. CASE Wake
  BY <1>13 DEF Wake, Goto
<1>14. CASE Tick
  BY <1>14 DEF Tick, AgeCap
<1>15. ASSUME NEW s \in Strategy, SetStrategy(s) PROVE ServiceInv'
  <2>1. ~own' /\ own' \in BOOLEAN
    BY <1>15 DEF SetStrategy
  <2>2. ServiceTypeOK'
    BY <1>15, <2>1 DEF SetStrategy
  <2>3. ServedInv' /\ LagInv'
    BY <1>15 DEF SetStrategy
  <2>4. AgeInv'
    BY <2>1 DEF AgeInv
  <2> QED BY <2>2, <2>3, <2>4
<1>16. CASE Shutdown
  BY <1>16 DEF Shutdown
<1>17. CASE UNCHANGED serviceVars
  BY <1>17 DEF serviceVars
<1> QED
  BY <1>1, <1>2, <1>3, <1>4, <1>5, <1>6, <1>7, <1>8, <1>9, <1>10, <1>11, <1>12,
     <1>13, <1>14, <1>15, <1>16, <1>17 DEF ServiceNext, Loop, Stopped

\* The inductive invariant holds of every behaviour of the loop.
THEOREM ServiceInvariance == ServiceSpec => []ServiceInv
<1>1. ServiceInit => ServiceInv
  BY InitIInv
<1>2. ServiceInv /\ [ServiceNext]_serviceVars => ServiceInv'
  BY NextIInv
<1> QED BY <1>1, <1>2, PTL DEF ServiceSpec

-----------------------------------------------------------------------------
\* The type invariant: timers never lie behind the last clock reading, nor
\* further ahead than Never.
THEOREM ServiceTyped == ServiceSpec => []ServiceTypeOK
<1>1. ServiceInv => ServiceTypeOK
  BY DEF ServiceInv
<1> QED BY <1>1, ServiceInvariance, PTL

\* The loop never goes to sleep on a timer that has passed (background_service:
\* sleep_until the earliest of four timers).
THEOREM ServiceDoesNotSpin == ServiceSpec => []NoSpinning
<1>1. ServiceInv => NoSpinning
  BY DEF ServiceInv, ServedInv, NoSpinning, Timer
<1> QED BY <1>1, ServiceInvariance, PTL

\* A selector that the loop has to rebuild is never older than its period and
\* the awaits of two rounds, whatever the other timers are.
THEOREM ServiceKeepsSelectorFresh == ServiceSpec => []SelectorFresh
<1>1. ServiceInv => SelectorFresh
  BY Periods DEF ServiceInv, ServiceTypeOK, ServedInv, LagInv, AgeInv, SelectorFresh, Timer
<1> QED BY <1>1, ServiceInvariance, PTL
=============================================================================
