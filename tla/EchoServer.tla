------------------------------ MODULE EchoServer ------------------------------
(***************************************************************************)
(* A Go rung of the echo: the /echo handler, the connection watcher, and   *)
(* the goroutines serveEcho starts for a session (main.go; legacy/main.go  *)
(* adds the probe listener with its own cap and budget).                   *)
(*                                                                         *)
(* Each member of Sessions is one client attempt: a QUIC connection that   *)
(* may ask /echo for a session.  Each member of DatagramLoops and          *)
(* StreamLoops is one echo goroutine; a stream loop is a slot of the       *)
(* peer's incoming-stream credit and serves one stream after another.      *)
(*                                                                         *)
(* quic-go and webtransport-go are external: they appear as conn and wt,   *)
(* which the peer or the server may take down at any time.                 *)
(***************************************************************************)
EXTENDS Budgets, Integers, FiniteSets

CONSTANTS
  Sessions,            \* client attempts
  AddressOf,           \* addressOf(r.RemoteAddr) of each attempt
  Probe,               \* the attempts that dial the probe listener
  DatagramLoops,       \* goroutines running ReceiveDatagram
  StreamLoops,         \* goroutines running echoStream
  SessionOf,           \* the session a loop belongs to
  Chunks,              \* payload sizes one receive can return, in model bytes
  PerAddressSessions,  \* perAddressSessions
  ProbeSessions,       \* probeSessions
  SessionEchoBudget,   \* sessionEchoBudget
  ProbeEchoBudget,     \* probeEchoBudget
  MaxCounter           \* bound: past it, a session's peer sends nothing more

Loops == DatagramLoops \cup StreamLoops

ASSUME EchoServerAssumption ==
  /\ IsFiniteSet(Sessions)
  /\ AddressOf \in [Sessions -> Addresses]
  /\ Probe \subseteq Sessions
  /\ IsFiniteSet(Loops)
  /\ DatagramLoops \cap StreamLoops = {}
  /\ SessionOf \in [Loops -> Sessions]
  /\ Chunks \subseteq Nat
  /\ PerAddressSessions \in Nat
  /\ ProbeSessions \in 0..PerAddressSessions
  /\ SessionEchoBudget \in Nat
  /\ ProbeEchoBudget \in Nat
  /\ MaxCounter \in Nat

VARIABLES
  conn,      \* the QUIC connection: none, up, gone
  recorded,  \* kinds the observer was handed for this attempt
  handler,   \* where the /echo handler of this attempt stands
  wt,        \* the WebTransport session: none, open, closed
  reason,    \* who closed it: the peer, or the reason the server gave
  ctx,       \* the lifetime context: none, live, expired, canceled
  stopped,   \* chan string of capacity 1; "none" when empty
  sup,       \* where the goroutine holding the slot stands
  why,       \* the reason that goroutine picked up in its select
  accept,    \* the AcceptStream goroutine: off, accepting, done
  pc,        \* where each echo loop stands
  size,      \* bytes in the loop's buffer
  last,      \* that read also returned an error (EOF or a reset)
  upto,      \* what echoed.Add returned for the bytes in the buffer
  counter,   \* the session's atomic echoed counter
  sent,      \* bytes the session put on the wire
  egress     \* bytes the process put on the wire

connVars   == <<conn, recorded>>
wtVars     == <<wt, reason>>
supVars    == <<ctx, stopped, sup, why>>
loopVars   == <<accept, pc, size, last, upto>>
ledgerVars == <<counter, sent, egress>>
vars == <<budgetVars, connVars, handler, wtVars, supVars, loopVars, ledgerVars>>

-----------------------------------------------------------------------------
(* Vocabulary                                                               *)

Kinds == {"quic", "connect", "session", "refused", "declined", "closed"}

BudgetReached   == "echo budget reached"
CeilingReached  == "daily egress ceiling reached"
LifetimeReached == "session lifetime reached"
Reasons == {BudgetReached, CeilingReached, LifetimeReached}

HandlerPC == {"idle", "connecting", "declined", "upgrading", "failed",
              "refused", "upgraded", "serving"}
SupPC  == {"off", "select", "close", "cancel", "release", "done"}
LoopPC == {"idle", "read", "charge", "spend", "write", "overBudget",
           "overCeiling", "close", "halfclosed", "done"}

\* cap in acquire(address, probe), and budget in serveWT
Cap(s)    == IF s \in Probe THEN ProbeSessions ELSE PerAddressSessions
Budget(s) == IF s \in Probe THEN ProbeEchoBudget ELSE SessionEchoBudget

\* ctx.Done() is closed
Done(s) == ctx[s] \in {"expired", "canceled"}

\* The attempt has taken a slot and not yet given it back.
Holding(s) ==
  \/ handler[s] \in {"upgrading", "failed", "upgraded"}
  \/ handler[s] = "serving" /\ sup[s] # "done"

\* echoStream closes its stream on the way out; the datagram loop just returns.
ReturnFrom(l) == IF l \in DatagramLoops THEN "done" ELSE "close"

\* The buffer of a loop with nothing charged and not yet written.
Emptied(l) ==
  /\ size' = [size EXCEPT ![l] = 0]
  /\ upto' = [upto EXCEPT ![l] = 0]

Record(s, kind) == recorded' = [recorded EXCEPT ![s] = @ \cup {kind}]

Init ==
  /\ BudgetsInit
  /\ conn = [s \in Sessions |-> "none"]
  /\ recorded = [s \in Sessions |-> {}]
  /\ handler = [s \in Sessions |-> "idle"]
  /\ wt = [s \in Sessions |-> "none"]
  /\ reason = [s \in Sessions |-> "none"]
  /\ ctx = [s \in Sessions |-> "none"]
  /\ stopped = [s \in Sessions |-> "none"]
  /\ sup = [s \in Sessions |-> "off"]
  /\ why = [s \in Sessions |-> "none"]
  /\ accept = [s \in Sessions |-> "off"]
  /\ pc = [l \in Loops |-> "idle"]
  /\ size = [l \in Loops |-> 0]
  /\ last = [l \in Loops |-> FALSE]
  /\ upto = [l \in Loops |-> 0]
  /\ counter = [s \in Sessions |-> 0]
  /\ sent = [s \in Sessions |-> 0]
  /\ egress = 0

-----------------------------------------------------------------------------
(* The connection                                                           *)

\* ConnContext: the handshake is complete; a watcher goroutine starts.
Handshake(s) ==
  /\ conn[s] = "none"
  /\ conn' = [conn EXCEPT ![s] = "up"]
  /\ Record(s, "quic")
  /\ UNCHANGED <<budgetVars, handler, wtVars, supVars, loopVars, ledgerVars>>

\* The watcher wakes from <-conn.Context().Done() and writes the line.
RecordClosed(s) ==
  /\ conn[s] = "gone"
  /\ "closed" \notin recorded[s]
  /\ Record(s, "closed")
  /\ UNCHANGED <<budgetVars, conn, handler, wtVars, supVars, loopVars, ledgerVars>>

\* The peer closes the session alone, or the whole connection goes away.
PeerCloses(s) ==
  /\ wt[s] = "open"
  /\ wt' = [wt EXCEPT ![s] = "closed"]
  /\ reason' = [reason EXCEPT ![s] = "peer"]
  /\ UNCHANGED <<budgetVars, connVars, handler, supVars, loopVars, ledgerVars>>

PeerLeaves(s) ==
  /\ conn[s] = "up"
  /\ conn' = [conn EXCEPT ![s] = "gone"]
  /\ wt' = [wt EXCEPT ![s] = IF @ = "open" THEN "closed" ELSE @]
  /\ reason' = [reason EXCEPT ![s] = IF wt[s] = "open" THEN "peer" ELSE @]
  /\ UNCHANGED <<budgetVars, recorded, handler, supVars, loopVars, ledgerVars>>

-----------------------------------------------------------------------------
(* The /echo handler                                                        *)

Connect(s) ==
  /\ handler[s] = "idle"
  /\ conn[s] = "up"
  /\ handler' = [handler EXCEPT ![s] = "connecting"]
  /\ Record(s, "connect")
  /\ UNCHANGED <<budgetVars, conn, wtVars, supVars, loopVars, ledgerVars>>

\* limits.acquire answered true
Admit(s) ==
  /\ handler[s] = "connecting"
  /\ acquire(AddressOf[s], Cap(s))
  /\ handler' = [handler EXCEPT ![s] = "upgrading"]
  /\ UNCHANGED <<connVars, wtVars, supVars, loopVars, ledgerVars>>

\* limits.acquire answered false: 503
Decline(s) ==
  /\ handler[s] = "connecting"
  /\ decline(AddressOf[s], Cap(s))
  /\ handler' = [handler EXCEPT ![s] = "declined"]
  /\ Record(s, "declined")
  /\ UNCHANGED <<conn, wtVars, supVars, loopVars, ledgerVars>>

\* server.Upgrade returned a session
Upgrade(s) ==
  /\ handler[s] = "upgrading"
  /\ conn[s] = "up"
  /\ handler' = [handler EXCEPT ![s] = "upgraded"]
  /\ wt' = [wt EXCEPT ![s] = "open"]
  /\ UNCHANGED <<budgetVars, connVars, reason, supVars, loopVars, ledgerVars>>

\* server.Upgrade returned an error
UpgradeFails(s) ==
  /\ handler[s] = "upgrading"
  /\ handler' = [handler EXCEPT ![s] = "failed"]
  /\ UNCHANGED <<budgetVars, connVars, wtVars, supVars, loopVars, ledgerVars>>

\* Broken: the error path forgets the slot.
RefuseKeepingSlot(s) ==
  /\ handler[s] = "failed"
  /\ handler' = [handler EXCEPT ![s] = "refused"]
  /\ Record(s, "refused")
  /\ UNCHANGED <<budgetVars, conn, wtVars, supVars, loopVars, ledgerVars>>

\* ... so the slot goes back: 500
Refuse(s) ==
  /\ handler[s] = "failed"
  /\ release(AddressOf[s])
  /\ handler' = [handler EXCEPT ![s] = "refused"]
  /\ Record(s, "refused")
  /\ UNCHANGED <<conn, wtVars, supVars, loopVars, ledgerVars>>

\* serveEcho: the lifetime starts and the goroutines are launched
ServeEcho(s) ==
  /\ handler[s] = "upgraded"
  /\ handler' = [handler EXCEPT ![s] = "serving"]
  /\ Record(s, "session")
  /\ ctx' = [ctx EXCEPT ![s] = "live"]
  /\ sup' = [sup EXCEPT ![s] = "select"]
  /\ accept' = [accept EXCEPT ![s] = "accepting"]
  /\ pc' = [l \in Loops |-> IF l \in DatagramLoops /\ SessionOf[l] = s
                              THEN "read" ELSE pc[l]]
  /\ UNCHANGED <<budgetVars, conn, wtVars, stopped, why, size, last, upto, ledgerVars>>

-----------------------------------------------------------------------------
(* The goroutine that holds the slot                                        *)

\* context.WithTimeout: the lifetime is over
Expire(s) ==
  /\ ctx[s] = "live"
  /\ ctx' = [ctx EXCEPT ![s] = "expired"]
  /\ UNCHANGED <<budgetVars, connVars, handler, wtVars, stopped, sup, why, loopVars, ledgerVars>>

\* Broken: the slot goes back without the session being closed.
TakeStopWithoutClosing(s) ==
  /\ sup[s] = "select"
  /\ stopped[s] # "none"
  /\ why' = [why EXCEPT ![s] = stopped[s]]
  /\ stopped' = [stopped EXCEPT ![s] = "none"]
  /\ sup' = [sup EXCEPT ![s] = "cancel"]
  /\ UNCHANGED <<budgetVars, connVars, handler, wtVars, ctx, loopVars, ledgerVars>>

\* Broken: the select has no case for the lifetime.
IgnoreDeadline(s) == FALSE

\* select: any ready case may be taken
TakeStop(s) ==
  /\ sup[s] = "select"
  /\ stopped[s] # "none"
  /\ why' = [why EXCEPT ![s] = stopped[s]]
  /\ stopped' = [stopped EXCEPT ![s] = "none"]
  /\ sup' = [sup EXCEPT ![s] = "close"]
  /\ UNCHANGED <<budgetVars, connVars, handler, wtVars, ctx, loopVars, ledgerVars>>

TakeDeadline(s) ==
  /\ sup[s] = "select"
  /\ Done(s)
  /\ why' = [why EXCEPT ![s] = LifetimeReached]
  /\ sup' = [sup EXCEPT ![s] = "close"]
  /\ UNCHANGED <<budgetVars, connVars, handler, wtVars, ctx, stopped, loopVars, ledgerVars>>

TakePeerLeft(s) ==
  /\ sup[s] = "select"
  /\ wt[s] = "closed"
  /\ sup' = [sup EXCEPT ![s] = "cancel"]
  /\ UNCHANGED <<budgetVars, connVars, handler, wtVars, ctx, stopped, why, loopVars, ledgerVars>>

\* session.CloseWithError(0, why): nothing happens to a session already closed
CloseWithError(s) ==
  /\ sup[s] = "close"
  /\ wt' = [wt EXCEPT ![s] = "closed"]
  /\ reason' = [reason EXCEPT ![s] = IF wt[s] = "open" THEN why[s] ELSE @]
  /\ sup' = [sup EXCEPT ![s] = "cancel"]
  /\ UNCHANGED <<budgetVars, connVars, handler, ctx, stopped, why, loopVars, ledgerVars>>

\* defer cancel()
Cancel(s) ==
  /\ sup[s] = "cancel"
  /\ ctx' = [ctx EXCEPT ![s] = IF @ = "live" THEN "canceled" ELSE @]
  /\ sup' = [sup EXCEPT ![s] = "release"]
  /\ UNCHANGED <<budgetVars, connVars, handler, wtVars, stopped, why, loopVars, ledgerVars>>

\* defer limits.release(address), which runs last
ReleaseSlot(s) ==
  /\ sup[s] = "release"
  /\ release(AddressOf[s])
  /\ sup' = [sup EXCEPT ![s] = "done"]
  /\ UNCHANGED <<connVars, handler, wtVars, ctx, stopped, why, loopVars, ledgerVars>>

-----------------------------------------------------------------------------
(* The echo loops                                                           *)

\* session.AcceptStream hands over a stream, echoed on a goroutine of its own
AcceptStream(l) ==
  LET s == SessionOf[l] IN
  /\ l \in StreamLoops
  /\ accept[s] = "accepting"
  /\ wt[s] = "open"
  /\ pc[l] = "idle"
  /\ pc' = [pc EXCEPT ![l] = "read"]
  /\ last' = [last EXCEPT ![l] = FALSE]
  /\ UNCHANGED <<budgetVars, connVars, handler, wtVars, supVars, accept, size, upto, ledgerVars>>

AcceptFails(s) ==
  /\ accept[s] = "accepting"
  /\ Done(s) \/ wt[s] = "closed"
  /\ accept' = [accept EXCEPT ![s] = "done"]
  /\ UNCHANGED <<budgetVars, connVars, handler, wtVars, supVars, pc, size, last, upto, ledgerVars>>

\* session.ReceiveDatagram returns a payload
ReceiveDatagram(l, n) ==
  /\ l \in DatagramLoops
  /\ pc[l] = "read"
  /\ wt[SessionOf[l]] = "open"
  /\ counter[SessionOf[l]] <= MaxCounter
  /\ pc' = [pc EXCEPT ![l] = "charge"]
  /\ size' = [size EXCEPT ![l] = n]
  /\ UNCHANGED <<budgetVars, connVars, handler, wtVars, supVars, accept, last, upto, ledgerVars>>

ReceiveFails(l) ==
  /\ l \in DatagramLoops
  /\ pc[l] = "read"
  /\ Done(SessionOf[l]) \/ wt[SessionOf[l]] = "closed"
  /\ pc' = [pc EXCEPT ![l] = "done"]
  /\ UNCHANGED <<budgetVars, connVars, handler, wtVars, supVars, accept, size, last, upto, ledgerVars>>

\* stream.Read returns n bytes, together with an error when `final`
Read(l, n, final) ==
  /\ l \in StreamLoops
  /\ pc[l] = "read"
  /\ wt[SessionOf[l]] = "open"
  /\ n > 0 \/ final
  /\ n > 0 => counter[SessionOf[l]] <= MaxCounter
  /\ pc' = [pc EXCEPT ![l] = IF n > 0 THEN "charge" ELSE "close"]
  /\ size' = [size EXCEPT ![l] = n]
  /\ last' = [last EXCEPT ![l] = final]
  /\ UNCHANGED <<budgetVars, connVars, handler, wtVars, supVars, accept, upto, ledgerVars>>

\* stream.Read returns the error of the closed session
ReadFails(l) ==
  /\ l \in StreamLoops
  /\ pc[l] = "read"
  /\ wt[SessionOf[l]] = "closed"
  /\ pc' = [pc EXCEPT ![l] = "close"]
  /\ last' = [last EXCEPT ![l] = TRUE]
  /\ UNCHANGED <<budgetVars, connVars, handler, wtVars, supVars, accept, size, upto, ledgerVars>>

\* Broken: counts the session's budget down.
AddedDown(l) == counter[SessionOf[l]] - size[l]

\* What echoed.Add(n) returns.
Added(l) == counter[SessionOf[l]] + size[l]

\* Broken: compares the counter before adding to it.
OverBudgetBefore(l) == counter[SessionOf[l]] > Budget(SessionOf[l])

\* Broken: stops at the budget rather than past it.
OverBudgetEarly(l) == Added(l) >= Budget(SessionOf[l])

OverBudget(l) == Added(l) > Budget(SessionOf[l])

\* spend, first half: echoed.Add(n) > sessionEchoBudget
Charge(l) ==
  /\ pc[l] = "charge"
  /\ counter' = [counter EXCEPT ![SessionOf[l]] = Added(l)]
  /\ IF OverBudget(l)
       THEN /\ pc' = [pc EXCEPT ![l] = "overBudget"]
            /\ Emptied(l)
       ELSE /\ pc' = [pc EXCEPT ![l] = "spend"]
            /\ upto' = [upto EXCEPT ![l] = Added(l)]
            /\ UNCHANGED size
  /\ UNCHANGED <<budgetVars, connVars, handler, wtVars, supVars, accept, last, sent, egress>>

\* spend, second half: limits.spend(n)
Spend(l) ==
  /\ pc[l] = "spend"
  /\ spend(size[l])
  /\ IF maySpend(size[l])
       THEN /\ pc' = [pc EXCEPT ![l] = "write"]
            /\ UNCHANGED <<size, upto>>
       ELSE /\ pc' = [pc EXCEPT ![l] = "overCeiling"]
            /\ Emptied(l)
  /\ UNCHANGED <<connVars, handler, wtVars, supVars, accept, last, ledgerVars>>

\* Broken: gives the ceiling as the reason whichever limit bit.
CeilingWhateverBit(l) == CeilingReached

\* The reason for the limit that bit.
Bitten(l) == IF pc[l] = "overBudget" THEN BudgetReached ELSE CeilingReached

\* Broken: a full and an empty channel alike drop the reason.
Undelivered(s, w) == stopped[s]

\* Broken: a loop that meets the ceiling returns without a word.
CeilingUndelivered(s, w) ==
  IF stopped[s] = "none" /\ w # CeilingReached THEN w ELSE stopped[s]

\* stop(why): a send that never blocks; a full channel keeps its first reason.
Delivered(s, w) == IF stopped[s] = "none" THEN w ELSE stopped[s]

\* Broken: a plain send, which blocks while the channel is full.
StopBlocking(l) ==
  LET s == SessionOf[l] IN
  /\ pc[l] \in {"overBudget", "overCeiling"}
  /\ stopped[s] = "none"
  /\ stopped' = [stopped EXCEPT ![s] = Bitten(l)]
  /\ pc' = [pc EXCEPT ![l] = ReturnFrom(l)]
  /\ UNCHANGED <<budgetVars, connVars, handler, wtVars, ctx, sup, why, accept, size, last, upto, ledgerVars>>

Stop(l) ==
  LET s == SessionOf[l] IN
  /\ pc[l] \in {"overBudget", "overCeiling"}
  /\ stopped' = [stopped EXCEPT ![s] = Delivered(s, Bitten(l))]
  /\ pc' = [pc EXCEPT ![l] = ReturnFrom(l)]
  /\ UNCHANGED <<budgetVars, connVars, handler, wtVars, ctx, sup, why, accept, size, last, upto, ledgerVars>>

\* stream.Write or session.SendDatagram puts k bytes of the buffer on the wire
PutOnWire(l, k) ==
  /\ sent' = [sent EXCEPT ![SessionOf[l]] = @ + k]
  /\ egress' = egress + k

Write(l) ==
  /\ pc[l] = "write"
  /\ wt[SessionOf[l]] = "open"
  /\ PutOnWire(l, size[l])
  /\ pc' = [pc EXCEPT ![l] = IF l \in StreamLoops /\ last[l] THEN "close" ELSE "read"]
  /\ Emptied(l)
  /\ UNCHANGED <<budgetVars, connVars, handler, wtVars, supVars, accept, last, counter>>

\* The write fails after k bytes: echoStream returns, while the datagram loop
\* ignores the error and goes round again.  A datagram is never sent in part.
WriteFails(l, k) ==
  /\ pc[l] = "write"
  /\ k > 0 => l \in StreamLoops /\ k < size[l] /\ wt[SessionOf[l]] = "open"
  /\ PutOnWire(l, k)
  /\ pc' = [pc EXCEPT ![l] = IF l \in StreamLoops THEN "close" ELSE "read"]
  /\ Emptied(l)
  /\ UNCHANGED <<budgetVars, connVars, handler, wtVars, supVars, accept, last, counter>>

\* defer stream.Close(): the slot is free again once both directions finished
CloseStream(l) ==
  /\ pc[l] = "close"
  /\ pc' = [pc EXCEPT ![l] = IF last[l] THEN "idle" ELSE "halfclosed"]
  /\ last' = [last EXCEPT ![l] = FALSE]
  /\ UNCHANGED <<budgetVars, connVars, handler, wtVars, supVars, accept, size, upto, ledgerVars>>

-----------------------------------------------------------------------------
Tick == DayPasses /\ UNCHANGED <<connVars, handler, wtVars, supVars, loopVars, ledgerVars>>

SessionNext(s) ==
  \/ Handshake(s) \/ RecordClosed(s) \/ PeerCloses(s) \/ PeerLeaves(s)
  \/ Connect(s) \/ Admit(s) \/ Decline(s)
  \/ Upgrade(s) \/ UpgradeFails(s) \/ Refuse(s) \/ ServeEcho(s)
  \/ Expire(s) \/ TakeStop(s) \/ TakeDeadline(s) \/ TakePeerLeft(s)
  \/ CloseWithError(s) \/ Cancel(s) \/ ReleaseSlot(s)
  \/ AcceptFails(s)

LoopNext(l) ==
  \/ AcceptStream(l)
  \/ \E n \in Chunks : ReceiveDatagram(l, n)
  \/ ReceiveFails(l)
  \/ \E n \in Chunks \cup {0}, final \in BOOLEAN : Read(l, n, final)
  \/ ReadFails(l)
  \/ Charge(l) \/ Spend(l) \/ Stop(l)
  \/ Write(l)
  \/ \E k \in Chunks \cup {0} : WriteFails(l, k)
  \/ CloseStream(l)

Next ==
  \/ Tick
  \/ \E s \in Sessions : SessionNext(s)
  \/ \E l \in Loops : LoopNext(l)

Spec == Init /\ [][Next]_vars

-----------------------------------------------------------------------------
(* Fairness.  The Go scheduler runs every runnable goroutine, Upgrade and   *)
(* CloseWithError return, and a call blocked on a session fails once that   *)
(* session is closed.  Nothing is assumed of the peer: it may stay silent,  *)
(* or grant no credit and leave a write blocked for ever.                   *)

FairSession(s) ==
  /\ WF_vars(Admit(s) \/ Decline(s))
  /\ WF_vars(Upgrade(s) \/ UpgradeFails(s))
  /\ WF_vars(Refuse(s))
  /\ WF_vars(ServeEcho(s))
  /\ WF_vars(TakeStop(s) \/ TakeDeadline(s) \/ TakePeerLeft(s))
  /\ WF_vars(CloseWithError(s))
  /\ WF_vars(Cancel(s))
  /\ WF_vars(ReleaseSlot(s))
  /\ WF_vars(AcceptFails(s))

FairLoop(l) ==
  /\ WF_vars(ReceiveFails(l))
  /\ WF_vars(ReadFails(l))
  /\ WF_vars(Charge(l))
  /\ WF_vars(Spend(l))
  /\ WF_vars(Stop(l))
  /\ WF_vars(wt[SessionOf[l]] = "closed" /\ WriteFails(l, 0))
  /\ WF_vars(CloseStream(l))

SchedulerFairness ==
  /\ \A s \in Sessions : FairSession(s)
  /\ \A l \in Loops : FairLoop(l)

\* A session lifetime, once started, runs out.
ClockFairness == \A s \in Sessions : WF_vars(Expire(s))

FairSpec == Spec /\ SchedulerFairness

-----------------------------------------------------------------------------
(* The contract this server implements                                      *)

\* Where the contract sees an attempt: it entered once a slot was taken, and
\* left once the slot came back.
Phase(s) ==
  CASE handler[s] \in {"idle", "connecting", "declined"} -> "outside"
    [] Holding(s) /\ wt[s] = "none"   -> "inside"
    [] Holding(s) /\ wt[s] = "open"   -> "open"
    [] Holding(s) /\ wt[s] = "closed" -> "closed"
    [] OTHER                          -> IF wt[s] = "open" THEN "open" ELSE "left"

\* Days that have opened by the wall clock, whether or not roll() saw it yet.
days == windows + IF aged THEN 2 ELSE 1

Contract == INSTANCE EchoContract WITH
  DayAllowance <- DailyEgressCeiling - 1,
  phase        <- [s \in Sessions |-> Phase(s)],
  allowance    <- days * (DailyEgressCeiling - 1)

-----------------------------------------------------------------------------
(* Properties                                                               *)

TypeOK ==
  /\ BudgetsTypeOK
  /\ conn \in [Sessions -> {"none", "up", "gone"}]
  /\ recorded \in [Sessions -> SUBSET Kinds]
  /\ handler \in [Sessions -> HandlerPC]
  /\ wt \in [Sessions -> {"none", "open", "closed"}]
  /\ reason \in [Sessions -> Reasons \cup {"none", "peer"}]
  /\ ctx \in [Sessions -> {"none", "live", "expired", "canceled"}]
  /\ stopped \in [Sessions -> Reasons \cup {"none"}]
  /\ sup \in [Sessions -> SupPC]
  /\ why \in [Sessions -> Reasons \cup {"none"}]
  /\ accept \in [Sessions -> {"off", "accepting", "done"}]
  /\ pc \in [Loops -> LoopPC]
  /\ size \in [Loops -> Nat]
  /\ last \in [Loops -> BOOLEAN]
  /\ upto \in [Loops -> Nat]
  /\ counter \in [Sessions -> Nat]
  /\ sent \in [Sessions -> Nat]
  /\ egress \in Nat

Holders(a) == {s \in Sessions : AddressOf[s] = a /\ Holding(s)}
OpenFrom(a) == {s \in Sessions : AddressOf[s] = a /\ wt[s] = "open"}

\* limits.sessions[a] is exactly the number of attempts from a that hold a
\* slot: every path out of the handler and of the slot goroutine releases
\* once, and no path releases another session's slot.
SlotsMatchHolders == \A a \in Addresses : sessions[a] = Cardinality(Holders(a))

\* "one address may hold only a few at once" (main.go:65), on the wire: the
\* slot outlives the session, so the sessions actually open from one address
\* never exceed the cap, and probe sessions never exceed theirs.
AddressCap ==
  \A a \in Addresses :
    /\ Cardinality(OpenFrom(a)) <= PerAddressSessions
    /\ Cardinality(OpenFrom(a) \cap Probe) <= ProbeSessions

\* The bytes a session puts on the wire stay within its budget, although its
\* loops charge the counter concurrently, overshoot it, and write later.
SessionEgress == \A s \in Sessions : sent[s] <= Budget(s)

\* What the process puts on the wire stays below the ceiling for each window
\* it has opened, although a write can land after its window has rolled over.
DailyEgress == egress <= (windows + 1) * (DailyEgressCeiling - 1)

\* The reason a client reads is true of its session, although it travels from
\* loop to channel to slot goroutine while everything else moves on: the
\* budget was exceeded, the ceiling was reached, or the lifetime had run out.
TruthfulReason ==
  \A s \in Sessions :
    /\ reason[s] = BudgetReached => counter[s] > Budget(s)
    /\ reason[s] = CeilingReached => windows > 0 \/ echoed >= DailyEgressCeiling
    /\ reason[s] = LifetimeReached => ctx[s] = "expired"

\* The slot goroutine has picked a reason up, or finds one in its select.
Warned(s) == sup[s] = "close" \/ (sup[s] = "select" /\ stopped[s] # "none")

\* A limit that bit is not forgotten while its session is open, whichever loop
\* met it and whoever else filled the one place in the channel: past the budget
\* a loop has still to say so or the slot goroutine is warned, and a datagram
\* loop is gone only if it is warned too or the lifetime is over.
NeverFallsSilent ==
  \A s \in Sessions : wt[s] = "open" =>
    /\ counter[s] > Budget(s) =>
         Warned(s) \/ \E l \in Loops : SessionOf[l] = s /\ pc[l] = "overBudget"
    /\ \A l \in DatagramLoops : SessionOf[l] = s /\ pc[l] = "done" =>
         Warned(s) \/ (sup[s] = "select" /\ Done(s))

\* The server implements EchoContract: an attempt enters below its cap and
\* once, echoes only while open and within every allowance, and gives its
\* slot back only after its session has closed.
ImplementsContract == Contract!Spec

\* A slot taken comes back, if lifetimes run out: a peer that stays silent
\* costs its address a slot only until then.
SlotComesBack == ClockFairness => \A s \in Sessions : Holding(s) ~> ~Holding(s)

\* A loop that meets a limit does not just fall silent: its session is closed,
\* without waiting for the lifetime to run out.
BittenSessionCloses ==
  \A l \in Loops :
    pc[l] \in {"overBudget", "overCeiling"} ~> wt[SessionOf[l]] = "closed"

Quiet(s) ==
  /\ sup[s] = "done"
  /\ accept[s] = "done"
  /\ \A l \in Loops : SessionOf[l] = s =>
       pc[l] \in IF l \in DatagramLoops THEN {"done"} ELSE {"idle", "halfclosed"}

\* No goroutine of a served session outlives it for ever: none blocks on the
\* stop channel, on a read, on a write or on accept once it is closed, and no
\* stream loop returns without closing its send side (legacy/main.go:266-269).
LoopsEnd ==
  \A s \in Sessions : wt[s] = "closed" /\ handler[s] = "serving" ~> Quiet(s)
=============================================================================
