----------------------------- MODULE UniquePulse -----------------------------
(***************************************************************************)
(* proto/unique_pulse.hpp and .cpp, and the same class in scheduler.hpp:   *)
(* one thread sleeps until any of several threads pulses it.  The flags    *)
(* change only under mutex_, so that a critical section is one step; the   *)
(* notification is sent after mutex_ was released.                         *)
(***************************************************************************)
CONSTANT Pulsers    \* the threads that call pulse

VARIABLES pulsed,   \* pulsed_
          asleep,   \* asleep_
          waiterPc, \* where the waiting thread is
          pulserPc  \* where each pulser is

vars == <<pulsed, asleep, waiterPc, pulserPc>>

Init == /\ pulsed = FALSE
        /\ asleep = FALSE
        /\ waiterPc = "out"
        /\ pulserPc = [p \in Pulsers |-> "idle"]

-----------------------------------------------------------------------------
\* pulse.

\* Mutant: the notification is forgotten.
PulseAsleep_Silent(p) == /\ pulserPc[p] = "idle"
                         /\ asleep
                         /\ asleep' = FALSE
                         /\ pulsed' = TRUE
                         /\ UNCHANGED <<waiterPc, pulserPc>>

PulseAsleep(p) == /\ pulserPc[p] = "idle"
                  /\ asleep
                  /\ asleep' = FALSE
                  /\ pulsed' = TRUE
                  /\ pulserPc' = [pulserPc EXCEPT ![p] = "notify"]
                  /\ UNCHANGED waiterPc

\* Nobody sleeps, or somebody else is about to wake the sleeper.
PulseAwake(p) == /\ pulserPc[p] = "idle"
                 /\ ~asleep
                 /\ pulsed' = TRUE
                 /\ UNCHANGED <<asleep, waiterPc, pulserPc>>

Wakes == IF waiterPc = "blocked" THEN waiterPc' = "awake"
                                 ELSE UNCHANGED waiterPc

Notify(p) == /\ pulserPc[p] = "notify"
             /\ pulserPc' = [pulserPc EXCEPT ![p] = "idle"]
             /\ Wakes
             /\ UNCHANGED <<pulsed, asleep>>

-----------------------------------------------------------------------------
\* wait.

WaitCall == /\ waiterPc = "out"
            /\ waiterPc' = "entering"
            /\ UNCHANGED <<pulsed, asleep, pulserPc>>

\* Mutant: asleep_ is not set.
WaitBlock_Unmarked == /\ waiterPc \in {"entering", "awake"}
                      /\ ~pulsed
                      /\ waiterPc' = "blocked"
                      /\ UNCHANGED <<pulsed, asleep, pulserPc>>

\* condition_.wait releases mutex_ and blocks in one step.
WaitBlock == /\ waiterPc \in {"entering", "awake"}
             /\ ~pulsed
             /\ waiterPc' = "blocked"
             /\ asleep' = IF waiterPc = "entering" THEN TRUE ELSE asleep
             /\ UNCHANGED <<pulsed, pulserPc>>

\* Mutant: the pulse is not used up.
WaitReturn_KeepsPulse == /\ waiterPc \in {"entering", "awake"}
                         /\ pulsed
                         /\ waiterPc' = "out"
                         /\ asleep' = FALSE
                         /\ UNCHANGED <<pulsed, pulserPc>>

WaitReturn == /\ waiterPc \in {"entering", "awake"}
              /\ pulsed
              /\ waiterPc' = "out"
              /\ pulsed' = FALSE
              /\ asleep' = FALSE
              /\ UNCHANGED pulserPc

\* A condition variable may wake a thread without a notification.
Spurious == /\ waiterPc = "blocked"
            /\ waiterPc' = "awake"
            /\ UNCHANGED <<pulsed, asleep, pulserPc>>

-----------------------------------------------------------------------------
PulserNext(p) == PulseAsleep(p) \/ PulseAwake(p) \/ Notify(p)

Next == \/ \E p \in Pulsers : PulserNext(p)
        \/ WaitCall \/ WaitBlock \/ WaitReturn \/ Spurious

Spec == Init /\ [][Next]_vars

\* Inside a call a thread keeps running.
FairSpec == /\ Spec
            /\ WF_vars(WaitBlock \/ WaitReturn)
            /\ \A p \in Pulsers : WF_vars(Notify(p))

-----------------------------------------------------------------------------
TypeOK == /\ pulsed \in BOOLEAN
          /\ asleep \in BOOLEAN
          /\ waiterPc \in {"out", "entering", "blocked", "awake"}
          /\ pulserPc \in [Pulsers -> {"idle", "notify"}]

\* A thread blocked on the condition variable is either known to be asleep, so
\* that the next pulse notifies it, or a pulse it has not seen yet is about to
\* notify it: no wakeup is lost although notify_one runs after the unlock.
NoLostWakeup ==
  waiterPc = "blocked" =>
     \/ asleep /\ ~pulsed
     \/ pulsed /\ \E p \in Pulsers : pulserPc[p] = "notify"

\* CHECK(!asleep_) holds whenever wait is entered.
EntersAwake == waiterPc \in {"out", "entering"} => ~asleep

\* The inductive invariant behind the two: a thread that woke up too early is
\* still known to be asleep.
PulseInv == /\ TypeOK
            /\ NoLostWakeup
            /\ EntersAwake
            /\ waiterPc = "awake" => asleep \/ pulsed

E == INSTANCE WakeEvent WITH signalled <- pulsed, waiting <- (waiterPc # "out")

\* UniquePulse is such an event: every wait returns for a pulse, exactly once.
ImplementsEvent == E!Spec
=============================================================================
