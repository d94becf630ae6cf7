-------------------------------- MODULE Alarm --------------------------------
(***************************************************************************)
(* What the library relies on of the Timer interface (timer.go): one tick  *)
(* is owed after every Reset, not before its delay and the extensions are  *)
(* over, and a Reset takes back the tick that has not been received.  An   *)
(* extension beyond the present moment makes it owed again.                *)
(***************************************************************************)
EXTENDS Integers

VARIABLES
    now,         \* the moment
    owed,        \* a tick is to be received
    deadline     \* not before this moment

alarmVars == <<now, owed, deadline>>

Init == now = 0 /\ owed = FALSE /\ deadline = 0

Reset(d) ==
    /\ deadline' = now + d
    /\ owed' = TRUE
    /\ UNCHANGED now

Extend(d) ==
    /\ deadline' = deadline + d
    /\ owed' = (owed \/ deadline + d > now)
    /\ UNCHANGED now

Tick ==
    /\ owed
    /\ deadline <= now
    /\ owed' = FALSE
    /\ UNCHANGED <<now, deadline>>

Wait ==
    /\ now' = now + 1
    /\ UNCHANGED <<owed, deadline>>

Next ==
    \/ \E d \in Nat : Reset(d) \/ Extend(d)
    \/ Tick
    \/ Wait

Spec == Init /\ [][Next]_alarmVars

=============================================================================
