------------------------------ MODULE TimedDbft ------------------------------
(***************************************************************************)
(* The network of module Dbft with the clocks of the nodes: every node     *)
(* runs the loop of internal/simulation/main.go, which takes a message or  *)
(* a tick of its Timer, whichever is there, and the ticks come when Timer  *)
(* and the durations of Pacing make them.                                  *)
(*                                                                         *)
(* The network is the channels of that program: a broadcast puts the       *)
(* payload at the end of the channel of every other node, unless it is     *)
(* full, and node r takes it at most MaxDelay[r] later; what is due does   *)
(* not wait for the clock.  Handlers take no time, a validator of          *)
(* Byzantine is silent, and the clocks of the nodes run at one speed: a    *)
(* node uses nothing but differences of its own times, so `now` may serve  *)
(* them all.                                                               *)
(***************************************************************************)
EXTENDS Dbft, Pacing

CONSTANTS
    MaxDelay,    \* how long a payload may be on its way, for every receiver
    ChanSize,    \* the size of the channel of a node (defaultChanSize)
    MaxTime      \* bound: the clock stops there

ASSUME ChannelAssumption ==
    /\ MaxDelay \in [Running -> Nat]
    /\ ChanSize \in Nat

VARIABLES
    now,       \* the moment, in ticks of the clock
    inbox,     \* inbox[r] is the channel of node r, and when each is due
    clocks,    \* clocks[r] is the Timer and the pace of node r
    begun      \* when the request of view 0 of a height was sent (history)

timedVars == <<ctx, msgs, ledger, now, inbox, clocks, begun>>

TimedInit ==
    /\ Init
    /\ now = 0
    /\ inbox = [r \in Running |-> <<>>]
    /\ clocks = [r \in Running |-> [timer |-> New, pace |-> NewPace]]
    /\ begun = [h \in 1 .. MaxHeight |-> ZeroTime]

\* The order in which one handler broadcasts.
Phase(m) == CHOOSE i \in 1 .. 7 :
    m.type = <<"PrepareRequest", "PrepareResponse", "PreCommit", "Commit", "ChangeView",
               "RecoveryRequest", "RecoveryMessage">>[i]

InOrder(S) ==
    {sent \in [1 .. Cardinality(S) -> S] :
        /\ \A m \in S : \E i \in DOMAIN sent : sent[i] = m
        /\ \A i, j \in DOMAIN sent : i < j => Phase(sent[i]) <= Phase(sent[j])}

\* simNode.Broadcast: a payload that finds the channel full is lost.
Deposited(s, box, sent) ==
    LET all == box \o [i \in DOMAIN sent |-> [msg |-> sent[i], due |-> now + MaxDelay[s]]]
    IN  SubSeq(all, 1, Least(Len(all), Greatest(Len(box), ChanSize)))

\* The end of a step of node r: the context, the payloads and the ledger as in
\* Dbft, what the handler has asked of the clocks c, and its payloads in the
\* channels of the others; what is left in its own is `left`.
TimedBecomes(r, d, c, left) ==
    /\ Becomes(r, d)
    /\ clocks' = [clocks EXCEPT ![r] = AfterCalls(c, d.calls, now)]
    /\ \E sent \in InOrder({m \in d.out \cap msgs' : ~Beyond(m)}) :
        inbox' = [s \in Running |->
                    IF s = r THEN left ELSE Deposited(s, inbox[s], sent)]
    /\ begun' = [h \in 1 .. MaxHeight |->
                    IF \E m \in d.out : /\ m.type = "PrepareRequest"
                                        /\ m.height = h /\ m.view = 0
                    THEN now
                    ELSE begun[h]]
    /\ UNCHANGED now

-----------------------------------------------------------------------------
(* The loop of a node.                                                      *)

TimedStart(r) ==
    /\ Idle
    /\ ctx[r].BlockIndex = 0
    /\ Len(ledger[r]) < MaxHeight
    /\ \E e \in FillCallbacks :
        LET d == initializeConsensus(r, ctx[r], 0, Len(ledger[r]) + 1)
        IN  TimedBecomes(r,
                IF IsPrimary(r, d) THEN sendPrepareRequest(r, d, TRUE, e) ELSE d,
                clocks[r], inbox[r])

CanReset(r) ==
    /\ Ready(r)
    /\ Len(ledger[r]) >= ctx[r].BlockIndex
    /\ Len(ledger[r]) < MaxHeight

TimedReset(r) ==
    /\ CanReset(r)
    /\ TimedBecomes(r, initializeConsensus(r, ctx[r], 0, Len(ledger[r]) + 1),
                    clocks[r], inbox[r])

TimedDeliver(r) ==
    /\ Ready(r)
    /\ inbox[r] # <<>>
    /\ \E e \in Callbacks :
        TimedBecomes(r, OnReceive(r, ctx[r], Head(inbox[r]).msg, e),
                     clocks[r], Tail(inbox[r]))

\* Height() and View() of the Timer are read after the tick is received.
TimedOnTimeout(r) ==
    LET timer == clocks[r].timer
    IN  /\ Ready(r)
        /\ Ticks(timer, now)
        /\ \E e \in FillCallbacks :
            LET d == onTimeout(r, [ctx[r] EXCEPT !.timer.armed = FALSE],
                               timer.height, timer.view, FALSE, e)
            IN  /\ Len(d.MissingTransactions) <= MaxMissing
                /\ TimedBecomes(r, d, [clocks[r] EXCEPT !.timer = Received(timer)], inbox[r])

\* What one step of the rest of a handler can make of the context.
Continued(r) ==
    LET item == Head(ctx[r].todo)
        d == Pop(ctx[r])
    IN  CASE item.op = "replay" ->
                IF item.payloads = {}
                THEN {d}
                ELSE {OnReceive(r, Push(d, <<Replay(item.payloads \ {m})>>), m, e) :
                        m \in {x \in item.payloads : ~Beyond(x)}, e \in Callbacks}
          [] item.op = "armTimer"      -> {armTimer(r, d, item.view)}
          [] item.op = "preparations"  -> {recoverPreparations(r, d, item.msg)}
          [] item.op = "commits"       -> {recoverCommits(d, item.msg)}
          [] item.op = "deleteMissing" -> {deleteMissing(d, item.index)}

TimedContinue(r) ==
    /\ ctx[r].todo # <<>>
    /\ \E d \in Continued(r) : TimedBecomes(r, d, clocks[r], inbox[r])

-----------------------------------------------------------------------------
(* Time.                                                                    *)

Done == \A r \in Running : Len(ledger[r]) >= MaxHeight

\* Node r has something to do at this moment.
Busy(r) ==
    \/ ctx[r].todo # <<>>
    \/ Idle /\ ctx[r].BlockIndex = 0
    \/ /\ Ready(r)
       /\ \/ CanReset(r)
          \/ Ticks(clocks[r].timer, now)
          \/ inbox[r] # <<>> /\ Head(inbox[r]).due <= now

NothingDue == \A r \in Running : ~Busy(r)

\* What is due does not wait for the clock.
Tock ==
    /\ NothingDue
    /\ ~Done
    /\ now < MaxTime
    /\ now' = now + 1
    /\ UNCHANGED <<ctx, msgs, ledger, inbox, clocks, begun>>

NodeStep ==
    \E r \in Running :
        \/ TimedStart(r)
        \/ TimedReset(r)
        \/ TimedDeliver(r)
        \/ TimedOnTimeout(r)
        \/ TimedContinue(r)

TimedNext == Tock \/ NodeStep

\* Time goes on, and while a node has something to do, a step is taken: the
\* second conjunct is weak fairness of the steps that are due, with the states
\* in which there is one spelled out.
TimedFairness ==
    /\ WF_timedVars(Tock)
    /\ []<>NothingDue \/ []<><<NodeStep>>_timedVars

TimedSpec == TimedInit /\ [][TimedNext]_timedVars /\ TimedFairness

-----------------------------------------------------------------------------
(* Properties.                                                              *)

\* The longest way of a payload.
Slowest == CHOOSE x \in {MaxDelay[r] : r \in Running} : \A r \in Running : MaxDelay[r] <= x

\* View 0 of a height above 1 is only given up when its primary does not run:
\* while the payloads of a live primary are on their way, the doubled timeout and
\* the Extend calls of onPrepareRequest, onPrepareResponse and onCommit keep the
\* timers of the others from firing (send.go sendChangeView).  At height 1 and in a later view
\* it is not so: initializeConsensus takes the time since the last block, or
\* since the zero time, off the timeout, nothing is left of it when that is
\* long ago, and a backup gives up the view it has just entered (dbft.go:152).
NoNeedlessViewChange ==
    \A m \in msgs : m.type = "ChangeView" /\ m.height > 1 /\ m.view = 0 =>
        GetPrimaryIndex(m.height, m.view) \notin Running

\* Blocks are begun a block time apart, whatever the responses and the commits
\* take: the primary of the next height counts its timeout from the moment it
\* prepared the last block, which is when the request reached it, and takes
\* half its round-trip estimate off (dbft.go, initializeConsensus; check.go,
\* checkPrepare).
BlockPace ==
    \A h \in 2 .. MaxHeight :
        begun[h] # ZeroTime /\ begun[h - 1] # ZeroTime =>
            begun[h] - begun[h - 1] \in
                timePerBlock - Slowest .. timePerBlock + MaxDelay[GetPrimaryIndex(h, 0)]

\* Everything the clocks and the channels let happen is a behaviour of Dbft,
\* where timers fire at any moment and payloads come in any order: what is
\* proved of Spec holds of the timed network (timer.go and main.go only
\* restrict the handlers of dbft.go).
ImplementsDbft == Spec

\* Every height gets its block, at every node and before MaxTime: F validators
\* may be silent, and the primary of a height may be one of them (dbft.go
\* OnTimeout and send.go sendChangeView bring another view).
EveryHeight == <>Done

=============================================================================
