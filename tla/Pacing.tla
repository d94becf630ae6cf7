-------------------------------- MODULE Pacing --------------------------------
(***************************************************************************)
(* What a node knows of time, and how long its timer runs: the durations   *)
(* behind the calls that the handlers make (`calls` of a context), the     *)
(* moment its last block was begun (lastBlockTime of context.go) and the   *)
(* round-trip estimate (rtt.go) that the next block is brought forward by. *)
(*                                                                         *)
(* A pace is a record with the fields of the Go structs Context and rtt.   *)
(***************************************************************************)
EXTENDS DbftContext, Timer

CONSTANTS
    timePerBlock, maxTimePerBlock,  \* Config.TimePerBlock() and MaxTimePerBlock()
    rttLength,                      \* samples of the round-trip estimate
    ZeroTime                        \* the zero time.Time, long before any event

\* prepareSentTime and lastBlockTime are the zero time until they are set.
NewPace ==
    [lastBlockTime   |-> ZeroTime,
     lastBlockIndex  |-> 0,
     lastBlockView   |-> 0,
     prepareSentTime |-> ZeroTime,
     times           |-> [i \in 0 .. rttLength - 1 |-> 0],
     idx             |-> 0,
     avg             |-> 0]

Least(a, b) == IF a <= b THEN a ELSE b

Greatest(a, b) == IF a >= b THEN a ELSE b

\* Division of Go, which rounds towards zero.
GoDiv(a, b) == IF a >= 0 THEN a \div b ELSE -((-a) \div b)

\* The first sample of a slot is taken as it is.
addTime(p, t) ==
    LET old == p.times[p.idx]
        sample == IF old # 0 THEN Least(t, 2 * old) ELSE t
    IN  [p EXCEPT !.avg = Greatest(0, p.avg + GoDiv(sample - old, rttLength)),
                  !.times[p.idx] = sample,
                  !.idx = (p.idx + 1) % rttLength]

-----------------------------------------------------------------------------
(* How long the timer runs: call names the place that sets it.              *)

\* Mutant: the time since the last block was begun is not taken away.
fullTimeout(p, height, timeout, now) == timeout

\* What initializeConsensus makes of a timeout when the node has prepared the
\* block before.  At height 1 that is also so of a node that has just started,
\* whose lastBlockIndex is 0 and whose lastBlockTime is the zero time.
adjusted(p, height, timeout, now) ==
    IF p.lastBlockIndex + 1 = height
    THEN Greatest(0, timeout - (now - p.lastBlockTime) - p.avg \div 2)
    ELSE timeout

\* Mutant: the timeouts of view 0 are a block time.
undoubled(view) == timePerBlock * 2 ^ view

\* timePerBlock << (view + 1)
doubledFor(view) == timePerBlock * 2 ^ (view + 1)

Delay(p, call, now) ==
    LET doubled == doubledFor(call.view)
    IN  CASE call.op = "propose"         -> adjusted(p, call.height, timePerBlock, now)
          [] call.op = "proposeAtOnce"   -> adjusted(p, call.height, 0, now)
          [] call.op = "await"           -> adjusted(p, call.height, doubled, now)
          [] call.op = "request"         ->
                IF call.view = 0 THEN doubled - timePerBlock ELSE doubled
          [] call.op = "changeView"      -> 2 * doubled
          [] call.op = "commit"          -> timePerBlock
          [] call.op = "resend"          -> 2 * timePerBlock
          [] call.op = "forced"          -> 2 * timePerBlock
          [] call.op = "subscribe"       -> maxTimePerBlock - timePerBlock
          [] call.op = "subscribeBackup" -> 2 * maxTimePerBlock - 2 * timePerBlock

\* The clocks of a node, [timer, pace], after one call.
Called(c, call, now) ==
    LET p == c.pace
        Share(count) == (count * timePerBlock) \div M
        isNew == p.lastBlockIndex # call.height \/ p.lastBlockView # call.view
    IN  CASE call.op \in Resets ->
                [c EXCEPT !.timer = ResetTimer(c.timer, now, call.height, call.view,
                                               Delay(p, call, now))]
          [] call.op = "extend2" -> [c EXCEPT !.timer = ExtendTimer(c.timer, now, Share(2))]
          [] call.op = "extend4" -> [c EXCEPT !.timer = ExtendTimer(c.timer, now, Share(4))]
          [] call.op = "reset" -> [c EXCEPT !.pace.prepareSentTime = ZeroTime]
          [] call.op = "prepareSent" -> [c EXCEPT !.pace.prepareSentTime = now]
          [] call.op = "prepareResponse" ->
                IF p.prepareSentTime = ZeroTime
                THEN c
                ELSE [c EXCEPT !.pace = addTime(p, now - p.prepareSentTime)]
          [] call.op = "checkPrepare" ->
                IF isNew
                THEN [c EXCEPT !.pace.lastBlockTime = now,
                               !.pace.lastBlockIndex = call.height,
                               !.pace.lastBlockView = call.view]
                ELSE c

AfterCalls(c, calls, now) ==
    LET after[i \in 0 .. Len(calls)] ==
            IF i = 0 THEN c ELSE Called(after[i - 1], calls[i], now)
    IN  after[Len(calls)]

=============================================================================
