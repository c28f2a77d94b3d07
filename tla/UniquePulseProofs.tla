-------------------------- MODULE UniquePulseProofs --------------------------
(***************************************************************************)
(* Proofs about UniquePulse, for any set of pulsing threads: the flags     *)
(* never lose a wakeup, and every step is a step of WakeEvent.             *)
(***************************************************************************)
EXTENDS UniquePulse, TLAPS

\* The initial flags satisfy the invariant.
LEMMA InitInv == Init => PulseInv
BY DEF Init, PulseInv, TypeOK, NoLostWakeup, EntersAwake

\* A pulse keeps the invariant, with its notification sent late.
LEMMA PulserStep ==
  ASSUME NEW p \in Pulsers, PulseInv, PulserNext(p)
  PROVE  PulseInv'
<1> USE DEF PulseInv, TypeOK, NoLostWakeup, EntersAwake
<1>1. CASE PulseAsleep(p)
  BY <1>1 DEF PulseAsleep
<1>2. CASE PulseAwake(p)
  BY <1>2 DEF PulseAwake
<1>3. CASE Notify(p)
  <2>1. CASE waiterPc = "blocked"
    BY <1>3, <2>1 DEF Notify, Wakes
  <2>2. CASE waiterPc # "blocked"
    BY <1>3, <2>2 DEF Notify, Wakes
  <2> QED BY <2>1, <2>2
<1> QED BY <1>1, <1>2, <1>3 DEF PulserNext

\* So does every step of the thread that waits.
LEMMA WaiterStep ==
  ASSUME PulseInv, WaitCall \/ WaitBlock \/ WaitReturn \/ Spurious
  PROVE  PulseInv'
<1> USE DEF PulseInv, TypeOK, NoLostWakeup, EntersAwake
<1>1. CASE WaitCall
  BY <1>1 DEF WaitCall
<1>2. CASE WaitBlock
  BY <1>2 DEF WaitBlock
<1>3. CASE WaitReturn
  BY <1>3 DEF WaitReturn
<1>4. CASE Spurious
  BY <1>4 DEF Spurious
<1> QED BY <1>1, <1>2, <1>3, <1>4

\* The invariant holds in every reachable state.
THEOREM Invariance == Spec => []PulseInv
<1>1. PulseInv /\ [Next]_vars => PulseInv'
  <2> SUFFICES ASSUME PulseInv, [Next]_vars PROVE PulseInv'
    OBVIOUS
  <2>1. CASE UNCHANGED vars
    BY <2>1 DEF vars, PulseInv, TypeOK, NoLostWakeup, EntersAwake
  <2>2. CASE Next
    BY <2>2, PulserStep, WaiterStep DEF Next
  <2> QED BY <2>1, <2>2
<1> QED BY InitInv, <1>1, PTL DEF Spec

\* A thread that sleeps on the condition variable will be notified by the
\* pulse that comes, or by the one that came.
THEOREM WakeupKept == Spec => []NoLostWakeup
<1>1. PulseInv => NoLostWakeup
  BY DEF PulseInv
<1> QED BY Invariance, <1>1, PTL

\* The CHECK at the start of wait never fails.
THEOREM CheckNeverFails == Spec => []EntersAwake
<1>1. PulseInv => EntersAwake
  BY DEF PulseInv
<1> QED BY Invariance, <1>1, PTL

\* Every step of the flags is a step of the abstract event or leaves it alone:
\* a wait returns only for a pulse, and uses it up.
THEOREM StepsAreEventSteps ==
  Spec => E!Init /\ [][E!Next]_(E!eventVars)
<1>1. Init => E!Init
  BY DEF Init, E!Init
<1>2. [Next]_vars => [E!Next]_(E!eventVars)
  <2> SUFFICES ASSUME [Next]_vars PROVE [E!Next]_(E!eventVars)
    OBVIOUS
  <2> USE DEF E!Next, E!Signal, E!Call, E!Return, E!eventVars
  <2>1. CASE UNCHANGED vars
    BY <2>1 DEF vars
  <2>2. CASE WaitCall
    BY <2>2 DEF WaitCall
  <2>3. CASE WaitBlock
    BY <2>3 DEF WaitBlock
  <2>4. CASE WaitReturn
    BY <2>4 DEF WaitReturn
  <2>5. CASE Spurious
    BY <2>5 DEF Spurious
  <2>6. ASSUME NEW p \in Pulsers, PulserNext(p)
        PROVE  [E!Next]_(E!eventVars)
    <3>1. CASE PulseAsleep(p)
      BY <3>1 DEF PulseAsleep
    <3>2. CASE PulseAwake(p)
      BY <3>2 DEF PulseAwake
    <3>3. CASE Notify(p)
      BY <3>3 DEF Notify, Wakes
    <3> QED BY <2>6, <3>1, <3>2, <3>3 DEF PulserNext
  <2> QED BY <2>1, <2>2, <2>3, <2>4, <2>5, <2>6 DEF Next
<1> QED BY <1>1, <1>2, PTL DEF Spec
=============================================================================
