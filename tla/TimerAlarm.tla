------------------------------ MODULE TimerAlarm ------------------------------
(***************************************************************************)
(* The default timer of package timer in the hands of the event loop of a  *)
(* node, which resets it, extends it and receives from C() one after the   *)
(* other, and the proof that it does what module Alarm says, for every     *)
(* sequence of calls and all delays.                                       *)
(***************************************************************************)
EXTENDS Timer, TLAPS

VARIABLES
    now,    \* the moment
    t       \* the Timer

timerVars == <<now, t>>

Init == now = 0 /\ t = New

Reset(height, view, d) == t' = ResetTimer(t, now, height, view, d) /\ UNCHANGED now

Extend(d) == t' = ExtendTimer(t, now, d) /\ UNCHANGED now

Receive == Ticks(t, now) /\ t' = Received(t) /\ UNCHANGED now

Wait == now' = now + 1 /\ UNCHANGED t

Next ==
    \/ \E height, view, d \in Nat : Reset(height, view, d)
    \/ \E d \in Nat : Extend(d)
    \/ Receive
    \/ Wait

Spec == Init /\ [][Next]_timerVars

-----------------------------------------------------------------------------
(* The refinement mapping.                                                  *)

owed == IF t.tt.used THEN ~t.tt.received ELSE t.ch > 0

deadline == t.s + t.d

A == INSTANCE Alarm

-----------------------------------------------------------------------------
(* The invariant: the time.Timer in use fires when the delay is over, or    *)
(* both are past; a tick in the channel is due.  The channel may hold the   *)
(* tick of an earlier zero delay while a time.Timer is in use.              *)

Timers ==
    [height : Nat, view : Nat, s : Nat, d : Nat,
     tt : [used : BOOLEAN, at : Nat, received : BOOLEAN], ch : {0, 1}]

TimerInv ==
    /\ now \in Nat
    /\ t \in Timers
    /\ t.s <= now
    /\ IF t.tt.used
       THEN t.tt.at = deadline \/ (t.tt.at <= now /\ deadline <= now)
       ELSE t.ch > 0 => deadline <= now

\* A tick is there to be received exactly when one is owed and the delay is
\* over: none is lost, early or left from an earlier Reset (C, Reset, Extend).
TicksWhenDue == Ticks(t, now) <=> owed /\ deadline <= now

-----------------------------------------------------------------------------
(* One lemma per call.                                                      *)

\* Reset keeps the invariant, and returns: the slot is empty when it puts its
\* tick there.
LEMMA ResetInv ==
    ASSUME TimerInv, NEW height \in Nat, NEW view \in Nat, NEW d \in Nat,
           Reset(height, view, d)
    PROVE  /\ TimerInv'
           /\ A!Reset(d)
<1>1. CASE d # 0
  <2>1. /\ t' = [height |-> height, view |-> view, s |-> now, d |-> d,
                 tt |-> [used |-> TRUE, at |-> now + d, received |-> FALSE],
                 ch |-> t.ch]
        /\ now' = now
    BY <1>1 DEF TimerInv, Timers, Reset, ResetTimer, Started, stop
  <2> QED  BY <2>1 DEF TimerInv, Timers, deadline, owed, A!Reset
<1>2. CASE d = 0
  <2>1. /\ t' = [height |-> height, view |-> view, s |-> now, d |-> d,
                 tt |-> NoTimer, ch |-> 1]
        /\ now' = now
    <3> DEFINE x == [stop(t) EXCEPT !.s = now, !.d = d, !.height = height, !.view = view]
    <3>1. drain(x).ch = 0
      BY DEF TimerInv, Timers, stop, drain
    <3>2. t' = [drain(x) EXCEPT !.ch = drain(x).ch + 1] /\ now' = now
      BY <1>2 DEF Reset, ResetTimer
    <3>3. t' = [drain(x) EXCEPT !.ch = 1]
      BY <3>1, <3>2
    <3> QED
      BY <3>2, <3>3 DEF TimerInv, Timers, stop, drain
  <2> QED  BY <1>2, <2>1 DEF TimerInv, Timers, NoTimer, deadline, owed, A!Reset
<1> QED  BY <1>1, <1>2

\* Extend keeps it: the new time.Timer fires at the new deadline, and when none
\* is made the old and the new deadline are past.
LEMMA ExtendInv ==
    ASSUME TimerInv, NEW d \in Nat, Extend(d)
    PROVE  /\ TimerInv'
           /\ A!Extend(d)
<1>1. CASE t.d + d > now - t.s
  <2>1. /\ now + ((t.d + d) - (now - t.s)) = t.s + t.d + d
        /\ t \in Timers
    BY DEF TimerInv, Timers
  <2>2. /\ t' = [height |-> t.height, view |-> t.view, s |-> t.s, d |-> t.d + d,
                 tt |-> [used |-> TRUE, at |-> t.s + t.d + d, received |-> FALSE],
                 ch |-> t.ch]
        /\ now' = now
    <3> DEFINE x == t.s + t.d + d
    <3>1. t' = [[[t EXCEPT !.tt = NoTimer] EXCEPT !.d = t.d + d]
                    EXCEPT !.tt = [used |-> TRUE, at |-> x, received |-> FALSE]]
      BY <1>1, <2>1, Zenon DEF Extend, ExtendTimer, Started, stop
    <3> HIDE DEF x
    <3>2. t' = [height |-> t.height, view |-> t.view, s |-> t.s, d |-> t.d + d,
                tt |-> [used |-> TRUE, at |-> x, received |-> FALSE], ch |-> t.ch]
      BY <2>1, <3>1 DEF Timers
    <3> QED  BY <3>2 DEF x, Extend
  <2> QED  BY <1>1, <2>2 DEF TimerInv, Timers, deadline, owed, A!Extend
<1>2. CASE ~(t.d + d > now - t.s)
  <2>1. t' = [t EXCEPT !.d = t.d + d] /\ now' = now
    BY <1>2 DEF Extend, ExtendTimer
  <2> QED  BY <1>2, <2>1 DEF TimerInv, Timers, deadline, owed, A!Extend
<1> QED  BY <1>1, <1>2

\* What is received was owed and due, and is owed no more.
LEMMA ReceiveInv ==
    ASSUME TimerInv, Receive
    PROVE  /\ TimerInv'
           /\ A!Tick
<1>1. CASE t.tt.used
  BY <1>1 DEF TimerInv, Timers, Receive, Ticks, Received, deadline, owed, A!Tick
<1>2. CASE ~t.tt.used
  BY <1>2 DEF TimerInv, Timers, Receive, Ticks, Received, deadline, owed, A!Tick
<1> QED  BY <1>1, <1>2 DEF TimerInv, Timers

LEMMA WaitInv ==
    ASSUME TimerInv, Wait
    PROVE  /\ TimerInv'
           /\ A!Wait
<1>1. TimerInv'
  BY DEF TimerInv, Timers, Wait, deadline
<1>2. A!Wait
  BY DEF Wait, deadline, owed, A!Wait
<1> QED  BY <1>1, <1>2

LEMMA StepInv ==
    ASSUME TimerInv, [Next]_timerVars
    PROVE  /\ TimerInv'
           /\ [A!Next]_<<now, owed, deadline>>
<1>1. CASE \E height, view, d \in Nat : Reset(height, view, d)
  BY <1>1, ResetInv DEF A!Next
<1>2. CASE \E d \in Nat : Extend(d)
  BY <1>2, ExtendInv DEF A!Next
<1>3. CASE Receive
  BY <1>3, ReceiveInv DEF A!Next
<1>4. CASE Wait
  BY <1>4, WaitInv DEF A!Next
<1>5. CASE UNCHANGED timerVars
  BY <1>5 DEF timerVars, TimerInv, deadline, owed
<1> QED  BY <1>1, <1>2, <1>3, <1>4, <1>5 DEF Next

LEMMA InitInv ==
    ASSUME Init
    PROVE  /\ TimerInv
           /\ A!Init
BY DEF Init, New, NoTimer, TimerInv, Timers, deadline, owed, A!Init

-----------------------------------------------------------------------------
(* The theorems.                                                            *)

\* The invariant holds of the default timer at every moment, whatever the
\* sequence of Reset, Extend and receives (timer/timer.go).
THEOREM TimerInvariant == Spec => []TimerInv
<1>1. Init => TimerInv  BY InitInv
<1>2. TimerInv /\ [Next]_timerVars => TimerInv'  BY StepInv
<1> QED  BY <1>1, <1>2, PTL DEF Spec

\* The default timer of timer/timer.go does what the Timer interface promises
\* the handlers: every run of it is one of the abstract alarm.
THEOREM TimerImplementsAlarm == Spec => A!Spec
<1>1. Init => A!Init  BY InitInv
<1>2. TimerInv /\ [Next]_timerVars => [A!Next]_<<now, owed, deadline>>  BY StepInv
<1> QED  BY <1>1, <1>2, TimerInvariant, PTL DEF Spec, A!Spec, A!alarmVars

\* A tick can be received exactly when one is owed and the delay is over (C,
\* Reset and Extend of timer/timer.go).
THEOREM TickIsPrompt == Spec => []TicksWhenDue
<1>1. TimerInv => TicksWhenDue
  BY DEF TimerInv, Timers, TicksWhenDue, Ticks, owed, deadline
<1> QED  BY <1>1, TimerInvariant, PTL

=============================================================================
