----------------------------- MODULE TimerQueue -----------------------------
(***************************************************************************)
(* What the runtime promises about timers, without provider, watermark or  *)
(* threads: a set of armed timers that fire one at a time, never early,    *)
(* always the one with the least (deadline, sequence), and a repeating     *)
(* timer that is armed again, with its own identifier and a new sequence,  *)
(* once its callback has returned, unless the callback cleared it.         *)
(***************************************************************************)
EXTENDS Integers

VARIABLES
    now,       \* the clock
    armed,     \* the timers that wait, as records of id, deadline and sequence
    firing,    \* the id whose callback runs, 0 for none
    repeats,   \* the timer that fires is to be armed again
    used,      \* how many identifiers have been handed out
    counter    \* the sequence of the next arming

queueVars == <<now, armed, firing, repeats, used, counter>>

Init ==
    /\ now = 0
    /\ armed = {}
    /\ firing = 0 /\ repeats = FALSE
    /\ used = 0 /\ counter = 0

Tick ==
    /\ now' = now + 1
    /\ UNCHANGED <<armed, firing, repeats, used, counter>>

\* The timer t is armed under the identifier i and the next sequence.
Armed(t, i) ==
    /\ t.id = i /\ t.sequence = counter /\ t.deadline > now
    /\ armed' = armed \union {t}

\* A timer with a fresh identifier and sequence, due in the future.
Arm ==
    /\ \E t \in armed' : Armed(t, used + 1)
    /\ used' = used + 1 /\ counter' = counter + 1
    /\ UNCHANGED <<now, firing, repeats>>

\* An arming that failed: its identifier and sequence are lost.
Refuse ==
    /\ used' = used + 1 /\ counter' = counter + 1
    /\ firing' = 0 /\ repeats' = FALSE
    /\ UNCHANGED <<now, armed>>

\* A timer is cleared, or the one that runs is told not to repeat.
Clear ==
    /\ \/ \E t \in armed : armed' = armed \ {t} /\ UNCHANGED repeats
       \/ repeats' = FALSE /\ UNCHANGED armed
    /\ UNCHANGED <<now, firing, used, counter>>

Precedes(s, t) ==
    s.deadline < t.deadline \/ (s.deadline = t.deadline /\ s.sequence < t.sequence)

\* The first of all armed timers fires, at its deadline or later.
Fire ==
    /\ firing = 0
    /\ \E t \in armed :
        /\ t.deadline <= now
        /\ \A s \in armed \ {t} : Precedes(t, s)
        /\ armed' = armed \ {t}
        /\ firing' = t.id
    /\ repeats' \in BOOLEAN
    /\ UNCHANGED <<now, used, counter>>

\* The callback has returned, or the machine has failed.
Return ==
    /\ firing' = 0 /\ repeats' = FALSE
    /\ UNCHANGED <<now, armed, used, counter>>

\* The callback has returned and the timer is armed again.
Rearm ==
    /\ repeats
    /\ \E t \in armed' : Armed(t, firing)
    /\ counter' = counter + 1
    /\ firing' = 0 /\ repeats' = FALSE
    /\ UNCHANGED <<now, used>>

Next == Tick \/ Arm \/ Refuse \/ Clear \/ Fire \/ Return \/ Rearm

Spec == Init /\ [][Next]_queueVars
=============================================================================
