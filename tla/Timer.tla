-------------------------------- MODULE Timer --------------------------------
(***************************************************************************)
(* The default timer of package timer (timer/timer.go), as operators over  *)
(* a record with the fields of the Go struct.  Time is a natural number of *)
(* ticks of the clock, `now` the moment of the call.                       *)
(*                                                                         *)
(* tt is the time.Timer in use, if any: the moment it fires and whether    *)
(* its value has been received.  A zero delay puts its tick in a channel   *)
(* with one slot; ch counts the tick in the slot and one that a Reset      *)
(* waits to put there, so a Reset that leaves ch at 2 does not return      *)
(* before somebody receives from the channel.                              *)
(***************************************************************************)
EXTENDS Integers

NoTimer == [used |-> FALSE, at |-> 0, received |-> FALSE]

New == [height |-> 0, view |-> 0, s |-> 0, d |-> 0, tt |-> NoTimer, ch |-> 0]

stop(t) == [t EXCEPT !.tt = NoTimer]

drain(t) == [t EXCEPT !.ch = 0]

\* time.NewTimer(delay)
Started(t, at) == [t EXCEPT !.tt = [used |-> TRUE, at |-> at, received |-> FALSE]]

\* Mutant: a tick that comes at once keeps the view of the one before.
ResetKeepingView(t, now, height, view, d) ==
    LET t1 == [stop(t) EXCEPT !.s = now, !.d = d, !.height = height]
    IN  IF d # 0
        THEN Started([t1 EXCEPT !.view = view], now + d)
        ELSE [drain(t1) EXCEPT !.ch = @ + 1]

ResetTimer(t, now, height, view, d) ==
    LET t1 == [stop(t) EXCEPT !.s = now, !.d = d, !.height = height, !.view = view]
    IN  IF d # 0
        THEN Started(t1, now + d)
        ELSE [drain(t1) EXCEPT !.ch = @ + 1]

\* The new time.Timer replaces a tick that nobody has received yet, be it in
\* the channel of the old one or in ch, which C() no longer returns.
ExtendTimer(t, now, d) ==
    LET sum == t.d + d
        elapsed == now - t.s
    IN  IF sum > elapsed
        THEN Started([stop(t) EXCEPT !.d = sum], now + (sum - elapsed))
        ELSE [t EXCEPT !.d = sum]

\* A receive from C() does not block.
Ticks(t, now) ==
    IF t.tt.used THEN t.tt.at <= now /\ ~t.tt.received ELSE t.ch > 0

\* The receive from C().
Received(t) ==
    IF t.tt.used THEN [t EXCEPT !.tt.received = TRUE] ELSE [t EXCEPT !.ch = t.ch - 1]

=============================================================================
