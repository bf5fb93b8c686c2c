------------------------------ MODULE RustServer ------------------------------
(***************************************************************************)
(* The Rust rung of the echo (rust/src/main.rs): one tokio task per        *)
(* session, which accepts, selects, answers datagrams in line and gives    *)
(* the slot back, and one task per stream the peer opens.                  *)
(*                                                                         *)
(* Its Budgets are the Go rungs' under another mutex: roll, acquire,       *)
(* release and spend_global do what Budgets says.                          *)
(*                                                                         *)
(* wtransport and quinn are external.  DropCloses says whether a           *)
(* connection closes when its session task drops it although stream tasks  *)
(* still hold their halves of it: the code relies on neither answer.       *)
(***************************************************************************)
EXTENDS Budgets, Integers, FiniteSets

CONSTANTS
  Sessions,           \* client attempts
  AddressOf,          \* request.remote_address().ip() of each
  Streams,            \* bidirectional streams the peers may open
  SessionOf,          \* the session a stream belongs to
  Chunks,             \* payload sizes one receive can return, in model bytes
  PerAddressSessions, \* PER_ADDRESS_SESSIONS
  SessionEchoBudget,  \* SESSION_ECHO_BUDGET
  DropCloses,         \* a dropped connection closes under its streams
  MaxCounter          \* bound: past it, a session's peer sends nothing more

Tasks == Sessions \cup Streams

ASSUME RustServerAssumption ==
  /\ IsFiniteSet(Sessions)
  /\ AddressOf \in [Sessions -> Addresses]
  /\ Sessions \cap Streams = {}
  /\ SessionOf \in [Streams -> Sessions]
  /\ Chunks \subseteq Nat
  /\ PerAddressSessions \in Nat
  /\ SessionEchoBudget \in Nat
  /\ DropCloses \in BOOLEAN
  /\ MaxCounter \in Nat

VARIABLES
  at,        \* where each task stands
  wt,        \* the connection: none, open, closed
  expired,   \* the deadline of the session has passed
  stopped,   \* mpsc channel of capacity 1; "none" when empty
  outcome,   \* what limit a task met: "none" is Rust's None or Ok
  size,      \* bytes in the task's buffer
  counter,   \* the session's AtomicU64
  sent,      \* bytes the session put on the wire
  egress     \* bytes the process put on the wire

ledgerVars == <<counter, sent, egress>>
vars == <<budgetVars, at, wt, expired, stopped, outcome, size, ledgerVars>>

BudgetReached   == "echo budget reached"
CeilingReached  == "daily egress ceiling reached"
LifetimeReached == "session lifetime reached"
Reasons == {BudgetReached, CeilingReached, LifetimeReached}

SessionAt == {"idle", "asked", "declined", "accept", "select", "charge", "spend",
              "write", "grace", "close", "drop", "release", "done"}
StreamAt  == {"idle", "read", "charge", "spend", "write", "stop", "finish", "done"}

\* The session a task charges.
Of(x) == IF x \in Streams THEN SessionOf[x] ELSE x

\* Slots are held from acquire to release, through every exit in between.
Holding(s) == at[s] \notin {"idle", "asked", "declined", "done"}

Goto(x, there) == at' = [at EXCEPT ![x] = there]

\* Some stream task of s still holds its halves of the connection.
Held(s) == \E l \in Streams : SessionOf[l] = s /\ at[l] \notin {"idle", "done"}

Init ==
  /\ BudgetsInit
  /\ at = [x \in Tasks |-> "idle"]
  /\ wt = [s \in Sessions |-> "none"]
  /\ expired = [s \in Sessions |-> FALSE]
  /\ stopped = [s \in Sessions |-> "none"]
  /\ outcome = [x \in Tasks |-> "none"]
  /\ size = [x \in Tasks |-> 0]
  /\ counter = [s \in Sessions |-> 0]
  /\ sent = [s \in Sessions |-> 0]
  /\ egress = 0

-----------------------------------------------------------------------------
(* serve                                                                    *)

\* incoming.await and request.path() = "/echo"
Ask(s) ==
  /\ at[s] = "idle"
  /\ Goto(s, "asked")
  /\ UNCHANGED <<budgetVars, wt, expired, stopped, outcome, size, ledgerVars>>

Admit(s) ==
  /\ at[s] = "asked"
  /\ acquire(AddressOf[s], PerAddressSessions)
  /\ Goto(s, "accept")
  /\ UNCHANGED <<wt, expired, stopped, outcome, size, ledgerVars>>

\* request.forbidden()
Decline(s) ==
  /\ at[s] = "asked"
  /\ decline(AddressOf[s], PerAddressSessions)
  /\ Goto(s, "declined")
  /\ UNCHANGED <<wt, expired, stopped, outcome, size, ledgerVars>>

\* request.accept().await
Accept(s) ==
  /\ at[s] = "accept"
  /\ Goto(s, "select")
  /\ wt' = [wt EXCEPT ![s] = "open"]
  /\ UNCHANGED <<budgetVars, expired, stopped, outcome, size, ledgerVars>>

\* Broken: the `?` stands in serve itself and skips release.
AcceptFailsOutOfServe(s) ==
  /\ at[s] = "accept"
  /\ Goto(s, "done")
  /\ UNCHANGED <<budgetVars, wt, expired, stopped, outcome, size, ledgerVars>>

\* ... whose error leaves echo_session through `?`, straight to release
AcceptFails(s) ==
  /\ at[s] = "accept"
  /\ Goto(s, "release")
  /\ UNCHANGED <<budgetVars, wt, expired, stopped, outcome, size, ledgerVars>>

\* release(address), the last thing serve does
Release(s) ==
  /\ at[s] = "release"
  /\ release(AddressOf[s])
  /\ Goto(s, "done")
  /\ UNCHANGED <<wt, expired, stopped, outcome, size, ledgerVars>>

-----------------------------------------------------------------------------
(* The select loop of echo_session: tokio picks any ready branch            *)

\* The deadline was pinned when the session was accepted.
Expire(s) ==
  /\ at[s] \in {"select", "charge", "spend", "write"}
  /\ ~expired[s]
  /\ expired' = [expired EXCEPT ![s] = TRUE]
  /\ UNCHANGED <<budgetVars, at, wt, stopped, outcome, size, ledgerVars>>

\* `break Some(why)`, whichever branch breaks.
BreakSome(s, reason) ==
  /\ outcome' = [outcome EXCEPT ![s] = reason]
  /\ Goto(s, "grace")

\* Broken: the select has no branch for the deadline.
IgnoreDeadline(s) == FALSE

TakeDeadline(s) ==
  /\ at[s] = "select"
  /\ expired[s]
  /\ BreakSome(s, LifetimeReached)
  /\ UNCHANGED <<budgetVars, wt, expired, stopped, size, ledgerVars>>

TakeStop(s) ==
  /\ at[s] = "select"
  /\ stopped[s] # "none"
  /\ BreakSome(s, stopped[s])
  /\ stopped' = [stopped EXCEPT ![s] = "none"]
  /\ UNCHANGED <<budgetVars, wt, expired, size, ledgerVars>>

\* accept_bi gives a stream, which gets a task of its own
TakeStream(l) ==
  LET s == SessionOf[l] IN
  /\ at[s] = "select"
  /\ wt[s] = "open"
  /\ at[l] = "idle"
  /\ Goto(l, "read")
  /\ UNCHANGED <<budgetVars, wt, expired, stopped, outcome, size, ledgerVars>>

\* receive_datagram gives a payload, answered before the next select
TakeDatagram(s, n) ==
  /\ at[s] = "select"
  /\ wt[s] = "open"
  /\ counter[s] <= MaxCounter
  /\ Goto(s, "charge")
  /\ size' = [size EXCEPT ![s] = n]
  /\ UNCHANGED <<budgetVars, wt, expired, stopped, outcome, ledgerVars>>

\* accept_bi or receive_datagram gives the error of a closed connection
BreakNone(s) ==
  /\ at[s] = "select"
  /\ wt[s] = "closed"
  /\ Goto(s, "drop")
  /\ UNCHANGED <<budgetVars, wt, expired, stopped, outcome, size, ledgerVars>>

\* Broken: the grace is spent outside, after the task gave its slot back.
GraceAfterRelease(s) ==
  /\ at[s] = "grace"
  /\ Goto(s, "release")
  /\ UNCHANGED <<budgetVars, wt, expired, stopped, outcome, size, ledgerVars>>

\* 200 ms in which the stream tasks go on echoing
GraceEnds(s) ==
  /\ at[s] = "grace"
  /\ Goto(s, "close")
  /\ UNCHANGED <<budgetVars, wt, expired, stopped, outcome, size, ledgerVars>>

\* connection.close
Close(s) ==
  /\ at[s] = "close"
  /\ Goto(s, "drop")
  /\ wt' = [wt EXCEPT ![s] = "closed"]
  /\ UNCHANGED <<budgetVars, expired, stopped, outcome, size, ledgerVars>>

\* echo_session returns and drops its connection
Drop(s) ==
  /\ at[s] = "drop"
  /\ Goto(s, "release")
  /\ wt' = [wt EXCEPT ![s] = IF Held(s) /\ ~DropCloses THEN @ ELSE "closed"]
  /\ UNCHANGED <<budgetVars, expired, stopped, outcome, size, ledgerVars>>

\* The last stream task of a dropped connection has ended.
LastHandleDropped(s) ==
  /\ at[s] \in {"release", "done"}
  /\ wt[s] = "open"
  /\ ~Held(s)
  /\ wt' = [wt EXCEPT ![s] = "closed"]
  /\ UNCHANGED <<budgetVars, at, expired, stopped, outcome, size, ledgerVars>>

PeerCloses(s) ==
  /\ wt[s] = "open"
  /\ wt' = [wt EXCEPT ![s] = "closed"]
  /\ UNCHANGED <<budgetVars, at, expired, stopped, outcome, size, ledgerVars>>

-----------------------------------------------------------------------------
(* charge, shared by the session task and its stream tasks                  *)

\* Where a refused task goes: break Some(why), or Err(why) to be reported.
Refused(x, reason) ==
  /\ outcome' = [outcome EXCEPT ![x] = reason]
  /\ Goto(x, IF x \in Streams THEN "stop" ELSE "grace")
  /\ size' = [size EXCEPT ![x] = 0]

\* Broken: counts the session's budget down.
AddedDown(x) == counter[Of(x)] - size[x]

\* fetch_add(n) + n
Added(x) == counter[Of(x)] + size[x]

\* Broken: compares what fetch_add returned, forgetting to add n to it.
OverBudgetBefore(x) == counter[Of(x)] > SessionEchoBudget

OverBudget(x) == Added(x) > SessionEchoBudget

Charge(x) ==
  /\ at[x] = "charge"
  /\ counter' = [counter EXCEPT ![Of(x)] = Added(x)]
  /\ \/ OverBudget(x) /\ Refused(x, BudgetReached)
     \/ ~OverBudget(x) /\ Goto(x, "spend") /\ UNCHANGED <<outcome, size>>
  /\ UNCHANGED <<budgetVars, wt, expired, stopped, sent, egress>>

\* spend_global(n)
Spend(x) ==
  /\ at[x] = "spend"
  /\ spend(size[x])
  /\ \/ ~maySpend(size[x]) /\ Refused(x, CeilingReached)
     \/ maySpend(size[x]) /\ Goto(x, "write") /\ UNCHANGED <<outcome, size>>
  /\ UNCHANGED <<wt, expired, stopped, ledgerVars>>

PutOnWire(x, k) ==
  /\ sent' = [sent EXCEPT ![Of(x)] = @ + k]
  /\ egress' = egress + k
  /\ size' = [size EXCEPT ![x] = 0]

\* send_datagram or write_all succeeds
Write(x) ==
  /\ at[x] = "write"
  /\ wt[Of(x)] = "open"
  /\ PutOnWire(x, size[x])
  /\ Goto(x, IF x \in Streams THEN "read" ELSE "select")
  /\ UNCHANGED <<budgetVars, wt, expired, stopped, outcome, counter>>

\* send_datagram fails, on an open connection too (the payload may be too large
\* for the path): break None, without a close
SendDatagramFails(s) ==
  /\ at[s] = "write"
  /\ PutOnWire(s, 0)
  /\ Goto(s, "drop")
  /\ UNCHANGED <<budgetVars, wt, expired, stopped, outcome, counter>>

\* write_all fails after k bytes: Ok(())
WriteFails(l, k) ==
  /\ at[l] = "write"
  /\ k > 0 => k < size[l] /\ wt[Of(l)] = "open"
  /\ PutOnWire(l, k)
  /\ Goto(l, "finish")
  /\ UNCHANGED <<budgetVars, wt, expired, stopped, outcome, counter>>

-----------------------------------------------------------------------------
(* The stream tasks                                                         *)

Read(l, n) ==
  /\ at[l] = "read"
  /\ wt[Of(l)] = "open"
  /\ counter[Of(l)] <= MaxCounter
  /\ n > 0
  /\ Goto(l, "charge")
  /\ size' = [size EXCEPT ![l] = n]
  /\ UNCHANGED <<budgetVars, wt, expired, stopped, outcome, ledgerVars>>

\* FIN, a reset, an empty read or a closed connection: Ok(())
ReadEnds(l) ==
  /\ at[l] = "read"
  /\ Goto(l, "finish")
  /\ UNCHANGED <<budgetVars, wt, expired, stopped, outcome, size, ledgerVars>>

\* Broken: the stream task ends without telling the session task.
StopInSilence(l) ==
  /\ at[l] = "stop"
  /\ Goto(l, "finish")
  /\ UNCHANGED <<budgetVars, wt, expired, stopped, outcome, size, ledgerVars>>

\* stop.try_send(why): dropped when the channel is full or its receiver gone
Stop(l) ==
  LET s == SessionOf[l] IN
  /\ at[l] = "stop"
  /\ stopped' = [stopped EXCEPT ![s] =
       IF @ = "none" /\ at[s] \notin {"release", "done"} THEN outcome[l] ELSE @]
  /\ Goto(l, "finish")
  /\ UNCHANGED <<budgetVars, wt, expired, outcome, size, ledgerVars>>

\* send.finish(), and the task ends
Finish(l) ==
  /\ at[l] = "finish"
  /\ Goto(l, "done")
  /\ UNCHANGED <<budgetVars, wt, expired, stopped, outcome, size, ledgerVars>>

-----------------------------------------------------------------------------
Tick == DayPasses /\ UNCHANGED <<at, wt, expired, stopped, outcome, size, ledgerVars>>

SessionNext(s) ==
  \/ Ask(s) \/ Admit(s) \/ Decline(s) \/ Accept(s) \/ AcceptFails(s) \/ Release(s)
  \/ Expire(s) \/ TakeDeadline(s) \/ TakeStop(s) \/ BreakNone(s)
  \/ \E n \in Chunks : TakeDatagram(s, n)
  \/ SendDatagramFails(s)
  \/ GraceEnds(s) \/ Close(s) \/ Drop(s) \/ LastHandleDropped(s) \/ PeerCloses(s)

StreamNext(l) ==
  \/ TakeStream(l)
  \/ \E n \in Chunks : Read(l, n)
  \/ ReadEnds(l)
  \/ \E k \in Chunks \cup {0} : WriteFails(l, k)
  \/ Stop(l) \/ Finish(l)

Next ==
  \/ Tick
  \/ \E s \in Sessions : SessionNext(s)
  \/ \E l \in Streams : StreamNext(l)
  \/ \E x \in Tasks : Charge(x) \/ Spend(x) \/ Write(x)

Spec == Init /\ [][Next]_vars

\* tokio polls every ready task; accept and the deadline end by themselves.  A
\* select that has a ready branch takes one, and because it polls them in
\* random order, a deadline or a stop that stays ready is not passed over for
\* ever.  Nothing is assumed of the peer.
FairSpec ==
  /\ Spec
  /\ \A s \in Sessions :
       /\ WF_vars(Admit(s) \/ Decline(s)) /\ WF_vars(Accept(s) \/ AcceptFails(s))
       /\ WF_vars(BreakNone(s)) /\ SF_vars(TakeStop(s)) /\ SF_vars(TakeDeadline(s))
       /\ WF_vars(Write(s) \/ SendDatagramFails(s))
       /\ WF_vars(GraceEnds(s)) /\ WF_vars(Close(s)) /\ WF_vars(Drop(s))
       /\ WF_vars(LastHandleDropped(s)) /\ WF_vars(Release(s))
  /\ \A l \in Streams :
       /\ WF_vars(wt[SessionOf[l]] = "closed" /\ ReadEnds(l))
       /\ WF_vars(wt[SessionOf[l]] = "closed" /\ WriteFails(l, 0))
       /\ WF_vars(Stop(l)) /\ WF_vars(Finish(l))
  /\ \A x \in Tasks : WF_vars(Charge(x)) /\ WF_vars(Spend(x))

\* A session lifetime, once started, runs out.
ClockFairness == \A s \in Sessions : WF_vars(Expire(s))

-----------------------------------------------------------------------------
(* The contract this server implements, if a dropped connection closes      *)

Phase(s) ==
  CASE at[s] \in {"idle", "asked", "declined"} -> "outside"
    [] wt[s] = "open"                          -> "open"
    [] Holding(s) /\ wt[s] = "none"            -> "inside"
    [] Holding(s) /\ wt[s] = "closed"          -> "closed"
    [] OTHER                                   -> "left"

\* Days that have opened by the wall clock, whether or not roll() saw it yet.
days == windows + IF aged THEN 2 ELSE 1

Cap(s) == PerAddressSessions
Budget(s) == SessionEchoBudget

Contract == INSTANCE EchoContract WITH
  DayAllowance <- DailyEgressCeiling - 1,
  phase        <- [s \in Sessions |-> Phase(s)],
  allowance    <- days * (DailyEgressCeiling - 1)

-----------------------------------------------------------------------------
(* Properties                                                               *)

TypeOK ==
  /\ BudgetsTypeOK
  /\ at \in [Tasks -> SessionAt \cup StreamAt]
  /\ wt \in [Sessions -> {"none", "open", "closed"}]
  /\ expired \in [Sessions -> BOOLEAN]
  /\ stopped \in [Sessions -> Reasons \cup {"none"}]
  /\ outcome \in [Tasks -> Reasons \cup {"none"}]
  /\ size \in [Tasks -> Nat]
  /\ counter \in [Sessions -> Nat]
  /\ sent \in [Sessions -> Nat]
  /\ egress \in Nat

Holders(a) == {s \in Sessions : AddressOf[s] = a /\ Holding(s)}

\* "every exit below runs through release" (main.rs:171): the counter of an
\* address is the number of session tasks between acquire and release.
SlotsMatchHolders == \A a \in Addresses : sessions[a] = Cardinality(Holders(a))

\* "both directions share one budget" (main.rs:181): what a session puts on
\* the wire stays within it, in the grace period and, for the streams of a
\* session whose task has left, even after the slot went back.
SessionEgress == \A s \in Sessions : sent[s] <= SessionEchoBudget

\* The process stays below the ceiling for each window it has opened.
DailyEgress == egress <= (windows + 1) * (DailyEgressCeiling - 1)

\* "rather than quietly stopping and leaving the session idle" (main.rs:187):
\* while the session task goes round its select, a limit that one of its tasks
\* has met waits in the channel or with a stream task about to send it, although
\* try_send drops what finds the channel full.
NeverFallsSilent ==
  \A s \in Sessions :
    /\ at[s] \in {"select", "charge", "spend", "write"}
    /\ \/ counter[s] > SessionEchoBudget
       \/ \E l \in Streams : SessionOf[l] = s /\ outcome[l] # "none"
    => \/ stopped[s] # "none"
       \/ \E l \in Streams : SessionOf[l] = s /\ at[l] = "stop"

\* The rung keeps the contract of the Go rungs: no echo after the slot went
\* back, and no slot given back by a session still open.
ImplementsContract == Contract!Spec

\* A stream task that meets a limit reports it "rather than quietly stopping
\* and leaving the session idle" (main.rs:187): the connection closes without
\* waiting for the lifetime, unless the session task had left its loop without
\* a limit of its own.
BittenSessionCloses ==
  \A l \in Streams :
    at[l] = "stop" ~> \/ wt[SessionOf[l]] = "closed"
                      \/ at[SessionOf[l]] = "done" /\ outcome[SessionOf[l]] = "none"

\* A slot taken comes back, if lifetimes run out, whatever the peer does or
\* leaves undone.
SlotComesBack == ClockFairness => \A s \in Sessions : Holding(s) ~> ~Holding(s)
=============================================================================
