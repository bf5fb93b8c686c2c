--------------------------- MODULE RustServerProofs ---------------------------
(***************************************************************************)
(* What holds of RustServer for every number of addresses and attempts,    *)
(* for any number of streams, which need not even be finite, and for every *)
(* cap, budget and ceiling.                                                *)
(***************************************************************************)
EXTENDS RustServer, BudgetsProofs

USE BudgetsAssumption, RustServerAssumption

-----------------------------------------------------------------------------
(* Type correctness                                                         *)

\* Every task charges one session.
LEMMA OfType == \A x \in Tasks : Of(x) \in Sessions
BY DEF Of, Tasks

LEMMA SessionTypes ==
  ASSUME TypeOK, NEW s \in Sessions, SessionNext(s)
  PROVE  TypeOK'
<1> USE DEF TypeOK, BudgetsTypeOK, SessionAt, Reasons, Tasks, budgetVars, ledgerVars, Goto
<1>1. CASE Ask(s)            BY <1>1 DEF Ask
<1>2. CASE Admit(s)          BY <1>2, RollTypes DEF Admit, acquire
<1>3. CASE Decline(s)        BY <1>3, RollTypes DEF Decline, decline
<1>4. CASE Accept(s)         BY <1>4 DEF Accept
<1>5. CASE AcceptFails(s)    BY <1>5 DEF AcceptFails
<1>6. CASE Release(s)        BY <1>6 DEF Release, release
<1>7. CASE Expire(s)         BY <1>7 DEF Expire
<1>8. CASE TakeDeadline(s)   BY <1>8 DEF TakeDeadline, BreakSome
<1>9. CASE TakeStop(s)       BY <1>9 DEF TakeStop, BreakSome
<1>10. CASE BreakNone(s)     BY <1>10 DEF BreakNone
<1>11. CASE \E n \in Chunks : TakeDatagram(s, n)   BY <1>11 DEF TakeDatagram
<1>12. CASE SendDatagramFails(s)
  BY <1>12 DEF SendDatagramFails, PutOnWire, Of
<1>13. CASE GraceEnds(s)     BY <1>13 DEF GraceEnds
<1>14. CASE Close(s)         BY <1>14 DEF Close
<1>15. CASE Drop(s)          BY <1>15 DEF Drop
<1>16. CASE LastHandleDropped(s)   BY <1>16 DEF LastHandleDropped
<1>17. CASE PeerCloses(s)    BY <1>17 DEF PeerCloses
<1> QED
  BY <1>1, <1>2, <1>3, <1>4, <1>5, <1>6, <1>7, <1>8, <1>9, <1>10, <1>11, <1>12,
     <1>13, <1>14, <1>15, <1>16, <1>17 DEF SessionNext

LEMMA StreamTypes ==
  ASSUME TypeOK, NEW l \in Streams, StreamNext(l)
  PROVE  TypeOK'
<1> USE DEF TypeOK, BudgetsTypeOK, StreamAt, Reasons, Tasks, budgetVars, ledgerVars, Goto
<1>1. CASE TakeStream(l)     BY <1>1 DEF TakeStream
<1>2. CASE \E n \in Chunks : Read(l, n)   BY <1>2 DEF Read
<1>3. CASE ReadEnds(l)       BY <1>3 DEF ReadEnds
<1>4. CASE \E k \in Chunks \cup {0} : WriteFails(l, k)
  BY <1>4, OfType DEF WriteFails, PutOnWire
<1>5. CASE Stop(l)           BY <1>5 DEF Stop
<1>6. CASE Finish(l)         BY <1>6 DEF Finish
<1> QED
  BY <1>1, <1>2, <1>3, <1>4, <1>5, <1>6 DEF StreamNext

LEMMA TaskTypes ==
  ASSUME TypeOK, NEW x \in Tasks, Charge(x) \/ Spend(x) \/ Write(x)
  PROVE  TypeOK'
<1> USE DEF TypeOK, SessionAt, StreamAt, Reasons, Goto, Refused
<1>1. Of(x) \in Sessions /\ size[x] \in Nat
  BY OfType
<1>2. CASE Charge(x)
  <2>1. Added(x) \in Nat
    BY <1>1 DEF Added
  <2>2. BudgetsTypeOK'
    BY <1>2 DEF Charge, budgetVars, BudgetsTypeOK
  <2> QED
    BY <1>1, <1>2, <2>1, <2>2 DEF Charge
<1>3. CASE Spend(x)
  <2>1. BudgetsTypeOK'
    BY <1>1, <1>3, SpendTypes DEF Spend
  <2> QED
    BY <1>3, <2>1 DEF Spend, ledgerVars
<1>4. CASE Write(x)
  BY <1>1, <1>4 DEF Write, PutOnWire, budgetVars, BudgetsTypeOK
<1> QED
  BY <1>2, <1>3, <1>4

LEMMA TypesStep == TypeOK /\ [Next]_vars => TypeOK'
<1> SUFFICES ASSUME TypeOK, [Next]_vars PROVE TypeOK'
  OBVIOUS
<1>1. CASE Tick
  BY <1>1 DEF Tick, DayPasses, TypeOK, BudgetsTypeOK, ledgerVars
<1>2. CASE UNCHANGED vars
  BY <1>2 DEF vars, TypeOK, BudgetsTypeOK, budgetVars, ledgerVars
<1> QED
  BY <1>1, <1>2, SessionTypes, StreamTypes, TaskTypes DEF Next

LEMMA TypesInit == Init => TypeOK
<1> SUFFICES ASSUME Init PROVE TypeOK
  OBVIOUS
<1>1. aged \in BOOLEAN /\ warned \in BOOLEAN
  BY Zenon DEF Init, BudgetsInit
<1>2. BudgetsTypeOK
  BY <1>1 DEF Init, BudgetsInit, BudgetsTypeOK
<1> QED
  BY <1>2 DEF Init, TypeOK, SessionAt, StreamAt, Reasons

\* Every variable keeps its type, whatever the instance.
THEOREM TypeCorrect == Spec => []TypeOK
BY TypesInit, TypesStep, PTL DEF Spec
-----------------------------------------------------------------------------
(* Where a session task stands, and its connection                          *)

\* The connection is there from accept on; a task that leaves its select loop
\* goes on through grace, close, drop and release.
Shape(s) ==
  /\ at[s] \in SessionAt
  /\ at[s] \in {"idle", "asked", "declined", "accept"} => wt[s] = "none"
  /\ at[s] \in {"select", "charge", "spend", "write", "grace", "close", "drop"} => wt[s] # "none"

\* A step of one session task moves no other task and no other connection.
LEMMA SessionFrame ==
  ASSUME TypeOK, NEW s \in Sessions, SessionNext(s)
  PROVE  /\ \A x \in Tasks \ {s} : at'[x] = at[x]
         /\ \A t \in Sessions \ {s} : wt'[t] = wt[t]
<1> USE DEF Tasks, TypeOK
<1> QED
  BY DEF SessionNext, Goto,
       Ask, Admit, Decline, Accept, AcceptFails, Release, Expire, TakeDeadline,
       TakeStop, BreakNone, TakeDatagram, SendDatagramFails, GraceEnds, Close,
       Drop, LastHandleDropped, PeerCloses, BreakSome

\* A stream task moves no session task, closes nothing and holds no slot.
LEMMA StreamFrame ==
  ASSUME TypeOK, NEW l \in Streams, StreamNext(l)
  PROVE  /\ \A x \in Tasks \ {l} : at'[x] = at[x]
         /\ wt' = wt /\ sessions' = sessions
BY DEF StreamNext, Tasks, TypeOK, Goto, budgetVars,
       TakeStream, Read, ReadEnds, WriteFails, Stop, Finish

\* Nor does any task while it charges, spends and writes: a session task then
\* goes round its loop or into grace.
LEMMA TaskFrame ==
  ASSUME TypeOK, NEW x \in Tasks, Charge(x) \/ Spend(x) \/ Write(x)
  PROVE  /\ \A y \in Tasks \ {x} : at'[y] = at[y]
         /\ wt' = wt /\ sessions' = sessions
         /\ at[x] \in {"charge", "spend", "write"}
         /\ x \notin Streams => at'[x] \in {"spend", "write", "select", "grace"}
<1> USE DEF Tasks, TypeOK, Goto, Refused
<1>1. CASE Charge(x)   BY <1>1 DEF Charge, budgetVars
<1>2. CASE Spend(x)    BY <1>2 DEF Spend, spend
<1>3. CASE Write(x)    BY <1>3 DEF Write, budgetVars
<1> QED
  BY <1>1, <1>2, <1>3

LEMMA ShapeStep ==
  ASSUME TypeOK, NEW s \in Sessions, Shape(s), [Next]_vars
  PROVE  Shape(s)'
<1>1. s \in Tasks /\ s \notin Streams
  BY DEF Tasks
<1>2. CASE at'[s] = at[s] /\ wt'[s] = wt[s]
  BY <1>2 DEF Shape
<1>3. CASE SessionNext(s)
  <2> USE DEF Tasks, TypeOK, Shape, SessionAt, Goto
  <2>1. CASE Drop(s) \/ LastHandleDropped(s) \/ PeerCloses(s) \/ Close(s) \/ Accept(s)
    BY <2>1 DEF Drop, LastHandleDropped, PeerCloses, Close, Accept
  <2>2. CASE ~(Drop(s) \/ LastHandleDropped(s) \/ PeerCloses(s) \/ Close(s) \/ Accept(s))
    BY <1>3, <2>2 DEF SessionNext, Ask, Admit, Decline, AcceptFails, Release, Expire,
       TakeDeadline, TakeStop, BreakNone, TakeDatagram, SendDatagramFails, GraceEnds, BreakSome
  <2> QED
    BY <2>1, <2>2
<1>4. CASE \E t \in Sessions \ {s} : SessionNext(t)
  BY <1>1, <1>2, <1>4, SessionFrame
<1>5. CASE \E l \in Streams : StreamNext(l)
  BY <1>1, <1>2, <1>5, StreamFrame
<1>6. ASSUME NEW x \in Tasks, Charge(x) \/ Spend(x) \/ Write(x)
      PROVE  Shape(s)'
  <2>1. CASE x # s
    BY <1>1, <1>2, <1>6, <2>1, TaskFrame
  <2>2. CASE x = s
    <3>1. /\ wt' = wt /\ at[s] \in {"charge", "spend", "write"}
          /\ at'[s] \in {"spend", "write", "select", "grace"}
      BY <1>1, <1>6, <2>2, TaskFrame
    <3> QED
      BY <3>1 DEF Shape, SessionAt
  <2> QED
    BY <2>1, <2>2
<1>7. CASE Tick \/ UNCHANGED vars
  BY <1>2, <1>7 DEF Tick, vars
<1> QED
  BY <1>3, <1>4, <1>5, <1>6, <1>7 DEF Next

-----------------------------------------------------------------------------
(* Slots                                                                    *)

CountersCapped == \A a \in Addresses : sessions[a] <= PerAddressSessions

SlotInv ==
  /\ TypeOK
  /\ \A s \in Sessions : Shape(s)
  /\ SlotsMatchHolders
  /\ CountersCapped

SameHolders(t) == Holding(t)' <=> Holding(t)

\* What a step can do to the slots: nothing, take one, give one back.
KeepsSlots ==
  /\ sessions' = sessions
  /\ \A t \in Sessions : SameHolders(t)

TakesSlot(s) ==
  /\ sessions[AddressOf[s]] < PerAddressSessions
  /\ sessions' = [sessions EXCEPT ![AddressOf[s]] = @ + 1]
  /\ ~Holding(s) /\ Holding(s)'
  /\ \A t \in Sessions \ {s} : SameHolders(t)

GivesSlot(s) ==
  /\ sessions' = [sessions EXCEPT ![AddressOf[s]] = IF @ <= 1 THEN 0 ELSE @ - 1]
  /\ Holding(s) /\ ~Holding(s)'
  /\ \A t \in Sessions \ {s} : SameHolders(t)

LEMMA SlotStep ==
  ASSUME TypeOK, \A s \in Sessions : Shape(s), [Next]_vars
  PROVE  KeepsSlots \/ \E s \in Sessions : TakesSlot(s) \/ GivesSlot(s)
<1>1. \A s \in Sessions : s \in Tasks /\ s \notin Streams
  BY DEF Tasks
<1>2. ASSUME NEW s \in Sessions, SessionNext(s)
      PROVE  KeepsSlots \/ TakesSlot(s) \/ GivesSlot(s)
  <2> USE DEF Tasks, TypeOK, Goto
  <2>1. \A t \in Sessions \ {s} : SameHolders(t)
    BY <1>1, <1>2, SessionFrame DEF SameHolders, Holding
  <2>2. CASE Admit(s)
    BY <2>1, <2>2 DEF Admit, acquire, mayAcquire, Cap, TakesSlot, Holding
  <2>3. CASE Release(s)
    BY <2>1, <2>3 DEF Release, release, GivesSlot, Holding
  <2>4. CASE ~(Admit(s) \/ Release(s))
    <3>1. sessions' = sessions /\ SameHolders(s)
      BY <1>2, <2>4 DEF SessionNext, SameHolders, Holding, budgetVars, decline,
         Ask, Decline, Accept, AcceptFails, Expire, TakeDeadline, TakeStop, BreakNone,
         TakeDatagram, SendDatagramFails, GraceEnds, Close, Drop, LastHandleDropped,
         PeerCloses, BreakSome
    <3> QED
      BY <2>1, <3>1 DEF KeepsSlots
  <2> QED
    BY <2>2, <2>3, <2>4
<1>3. ASSUME NEW l \in Streams, StreamNext(l)
      PROVE  KeepsSlots
  BY <1>1, <1>3, StreamFrame DEF KeepsSlots, SameHolders, Holding
<1>4. ASSUME NEW x \in Tasks, Charge(x) \/ Spend(x) \/ Write(x)
      PROVE  KeepsSlots
  <2>1. ASSUME NEW t \in Sessions
        PROVE  SameHolders(t)
    <3>1. CASE t # x
      BY <1>1, <1>4, <3>1, TaskFrame DEF SameHolders, Holding
    <3>2. CASE t = x
      BY <1>1, <1>4, <3>2, TaskFrame DEF SameHolders, Holding
    <3> QED
      BY <3>1, <3>2
  <2> QED
    BY <1>4, <2>1, TaskFrame DEF KeepsSlots
<1>5. CASE Tick \/ UNCHANGED vars
  BY <1>5 DEF Tick, DayPasses, vars, budgetVars, KeepsSlots, SameHolders, Holding
<1> QED
  BY <1>2, <1>3, <1>4, <1>5 DEF Next

LEMMA CountersStep ==
  ASSUME SlotInv, KeepsSlots \/ \E s \in Sessions : TakesSlot(s) \/ GivesSlot(s)
  PROVE  SlotsMatchHolders'
<1> SUFFICES ASSUME NEW a \in Addresses
             PROVE  sessions'[a] = Cardinality(Holders(a)')
  BY DEF SlotsMatchHolders
<1>1. /\ sessions \in [Addresses -> Nat]
      /\ sessions[a] = Cardinality(Holders(a))
  BY DEF SlotInv, TypeOK, BudgetsTypeOK, SlotsMatchHolders
<1>2. IsFiniteSet(Holders(a)) /\ IsFiniteSet(Holders(a)')
  <2>1. Holders(a) \subseteq Sessions /\ Holders(a)' \subseteq Sessions
    BY DEF Holders
  <2> QED
    BY <2>1, FS_Subset
<1>3. ASSUME KeepsSlots \/ \E s \in Sessions : AddressOf[s] # a /\ (TakesSlot(s) \/ GivesSlot(s))
      PROVE  Holders(a)' = Holders(a) /\ sessions'[a] = sessions[a]
  BY <1>1, <1>3 DEF KeepsSlots, TakesSlot, GivesSlot, SameHolders, Holders
<1>4. ASSUME NEW s \in Sessions, TakesSlot(s), AddressOf[s] = a
      PROVE  sessions'[a] = Cardinality(Holders(a)')
  <2>1. Holders(a)' = Holders(a) \cup {s} /\ s \notin Holders(a)
    BY <1>4 DEF TakesSlot, SameHolders, Holders
  <2>2. Cardinality(Holders(a)') = Cardinality(Holders(a)) + 1
    BY <1>2, <2>1, FS_AddElement
  <2> QED
    BY <1>1, <1>4, <2>2 DEF TakesSlot
<1>5. ASSUME NEW s \in Sessions, GivesSlot(s), AddressOf[s] = a
      PROVE  sessions'[a] = Cardinality(Holders(a)')
  <2>1. Holders(a)' = Holders(a) \ {s} /\ s \in Holders(a)
    BY <1>5 DEF GivesSlot, SameHolders, Holders
  <2>2. /\ Cardinality(Holders(a)') = Cardinality(Holders(a)) - 1
        /\ Cardinality(Holders(a)') \in Nat
    BY <1>2, <2>1, FS_RemoveElement, FS_CardinalityType
  <2> QED
    BY <1>1, <1>5, <2>2 DEF GivesSlot
<1> QED
  BY <1>1, <1>3, <1>4, <1>5

LEMMA CapStep ==
  ASSUME SlotInv, KeepsSlots \/ \E s \in Sessions : TakesSlot(s) \/ GivesSlot(s)
  PROVE  CountersCapped'
<1> SUFFICES ASSUME NEW a \in Addresses PROVE sessions'[a] <= PerAddressSessions
  BY DEF CountersCapped
<1>1. /\ sessions \in [Addresses -> Nat] /\ sessions[a] \in Nat
      /\ sessions[a] <= PerAddressSessions /\ PerAddressSessions \in Nat
  BY DEF SlotInv, TypeOK, BudgetsTypeOK, CountersCapped
<1>2. CASE KeepsSlots
  BY <1>1, <1>2 DEF KeepsSlots
<1>3. ASSUME NEW s \in Sessions, TakesSlot(s)
      PROVE  sessions'[a] <= PerAddressSessions
  BY <1>1, <1>3 DEF TakesSlot
<1>4. ASSUME NEW s \in Sessions, GivesSlot(s)
      PROVE  sessions'[a] <= PerAddressSessions
  <2>1. sessions'[a] \in {sessions[a], 0, sessions[a] - 1}
    BY <1>1, <1>4 DEF GivesSlot
  <2> QED
    BY <1>1, <2>1
<1> QED
  BY <1>2, <1>3, <1>4

LEMMA SlotInvInit == Init => SlotInv
<1> SUFFICES ASSUME Init PROVE SlotInv
  OBVIOUS
<1>1. \A s \in Sessions : at[s] = "idle" /\ wt[s] = "none"
  BY DEF Init, Tasks
<1>2. \A a : Holders(a) = {}
  BY <1>1 DEF Holders, Holding
<1>3. SlotsMatchHolders
  BY <1>2, FS_EmptySet DEF SlotsMatchHolders, Init, BudgetsInit
<1>4. \A a \in Addresses : sessions[a] = 0
  BY DEF Init, BudgetsInit
<1>5. CountersCapped
  <2> SUFFICES ASSUME NEW a \in Addresses PROVE sessions[a] <= PerAddressSessions
    BY DEF CountersCapped
  <2>1. sessions[a] = 0 /\ PerAddressSessions \in Nat
    BY <1>4
  <2> QED
    BY <2>1
<1> QED
  BY <1>1, <1>3, <1>5, TypesInit DEF SlotInv, Shape, SessionAt

LEMMA SlotInvStep == SlotInv /\ [Next]_vars => SlotInv'
BY TypesStep, ShapeStep, SlotStep, CountersStep, CapStep DEF SlotInv

\* The inductive invariant behind the theorem below.
THEOREM SlotInvariant == Spec => []SlotInv
<1>1. SlotInv /\ [Next]_vars => SlotInv'
  BY SlotInvStep
<1> QED
  BY <1>1, SlotInvInit, PTL DEF Spec

\* Every exit runs through release, once: the counter of an address is the
\* number of session tasks between acquire and release, whether a session ends
\* by a limit, an error of accept or the peer.
THEOREM SlotAccounting == Spec => []SlotsMatchHolders
<1>1. SlotInv => SlotsMatchHolders
  BY DEF SlotInv
<1> QED
  BY <1>1, SlotInvariant, PTL
-----------------------------------------------------------------------------
(* The ledgers                                                              *)

\* Tasks that charged their session and have not written yet.
Charged(s) == {x \in Tasks : Of(x) = s /\ at[x] \in {"spend", "write"}}

\* Tasks that spend_global let through and that have not written yet.
Cleared == {x \in Tasks : at[x] = "write"}

\* A session: what it sent and what its tasks may still send was counted by
\* fetch_add, and fits the budget.
SessionLedger(s) ==
  /\ IsFiniteSet(Charged(s))
  /\ sent[s] + BytesIn(Charged(s), size) <= counter[s]
  /\ sent[s] + BytesIn(Charged(s), size) <= SessionEchoBudget

\* The process: what it sent and what its tasks may still send was granted.
ProcessLedger ==
  /\ IsFiniteSet(Cleared)
  /\ GrantsFit
  /\ egress + BytesIn(Cleared, size) <= Allowed(windows) + granted

LedgerInv ==
  /\ TypeOK
  /\ \A s \in Sessions : SessionLedger(s)
  /\ ProcessLedger

LEMMA TasksSized ==
  ASSUME TypeOK
  PROVE  (\A s : Sized(Charged(s), size)) /\ Sized(Cleared, size)
BY DEF Sized, Charged, Cleared, TypeOK

-----------------------------------------------------------------------------
(* What a step does to the bytes                                            *)

\* A task that has something to write keeps it, or gives it up.
KeepsBytes ==
  /\ \A x \in Tasks : \/ at'[x] = at[x] /\ size'[x] = size[x]
                      \/ at'[x] \notin {"spend", "write"}
  /\ sent' = sent /\ egress' = egress /\ counter' = counter

\* No step of the kind grants bytes: the window is left alone, or rolls over.
GrantsNone == Grants(0) \/ KeepsWindow

\* The task x puts k bytes of its buffer on the wire and drops the rest.
Writes(x, k) ==
  /\ at[x] = "write" /\ at'[x] \notin {"spend", "write"}
  /\ \A y \in Tasks \ {x} : at'[y] = at[y] /\ size'[y] = size[y]
  /\ k <= size[x]
  /\ sent' = [sent EXCEPT ![Of(x)] = @ + k]
  /\ egress' = egress + k
  /\ counter' = counter /\ KeepsWindow

LEMMA SessionQuiet ==
  ASSUME TypeOK, GrantsFit, NEW s \in Sessions, SessionNext(s)
  PROVE  KeepsBytes /\ GrantsNone
<1> USE DEF TypeOK, Tasks, Goto
<1>1. KeepsBytes
  <2>1. CASE SendDatagramFails(s)
    <3>1. s \in Tasks /\ Of(s) = s /\ sent[s] + 0 = sent[s] /\ egress + 0 = egress
      BY DEF Of
    <3> QED
      BY <2>1, <3>1 DEF SendDatagramFails, PutOnWire, KeepsBytes
  <2>2. CASE ~SendDatagramFails(s)
    BY <2>2 DEF SessionNext, KeepsBytes, ledgerVars,
       Ask, Admit, Decline, Accept, AcceptFails, Release, Expire, TakeDeadline, TakeStop,
       BreakNone, TakeDatagram, GraceEnds, Close, Drop, LastHandleDropped, PeerCloses, BreakSome
  <2> QED
    BY <2>1, <2>2
<1>2. CASE Admit(s) \/ Decline(s)
  BY <1>1, <1>2, RollGrants DEF Admit, Decline, acquire, decline, GrantsNone
<1>3. CASE ~(Admit(s) \/ Decline(s))
  BY <1>1, <1>3 DEF GrantsNone, KeepsWindow, SessionNext, budgetVars, release,
       Ask, Accept, AcceptFails, Release, Expire, TakeDeadline, TakeStop, BreakNone,
       TakeDatagram, SendDatagramFails, GraceEnds, Close, Drop, LastHandleDropped, PeerCloses
<1> QED
  BY <1>2, <1>3

LEMMA StreamBytes ==
  ASSUME TypeOK, NEW l \in Streams, StreamNext(l)
  PROVE  (KeepsBytes /\ GrantsNone) \/ \E k \in Nat : Writes(l, k)
<1> USE DEF TypeOK, Tasks, Goto
<1>1. ASSUME NEW k \in Chunks \cup {0}, WriteFails(l, k)
      PROVE  k \in Nat /\ Writes(l, k)
  BY <1>1 DEF WriteFails, PutOnWire, Writes, KeepsWindow, budgetVars
<1>2. CASE ~ \E k \in Chunks \cup {0} : WriteFails(l, k)
  BY <1>2 DEF StreamNext, KeepsBytes, GrantsNone, KeepsWindow, ledgerVars, budgetVars,
       TakeStream, Read, ReadEnds, Stop, Finish
<1> QED
  BY <1>1, <1>2

LEMMA WriteBytes ==
  ASSUME TypeOK, NEW x \in Tasks, Write(x)
  PROVE  \E k \in Nat : Writes(x, k)
<1>1. size[x] \in Nat
  BY DEF TypeOK
<1>2. Writes(x, size[x])
  BY <1>1 DEF TypeOK, Tasks, Goto, Write, PutOnWire, Writes, KeepsWindow, budgetVars
<1> QED
  BY <1>1, <1>2

LEMMA IdleQuiet ==
  ASSUME Tick \/ UNCHANGED vars
  PROVE  KeepsBytes /\ GrantsNone
BY DEF Tick, DayPasses, vars, budgetVars, ledgerVars, KeepsBytes, GrantsNone, KeepsWindow
-----------------------------------------------------------------------------
(* The ledgers are inductive                                                *)

LEMMA SessionLedgerStep ==
  ASSUME LedgerInv, [Next]_vars, NEW s \in Sessions
  PROVE  SessionLedger(s)'
<1>1. /\ TypeOK /\ GrantsFit /\ SessionLedger(s)
      /\ IsFiniteSet(Charged(s)) /\ Sized(Charged(s), size)
      /\ sent[s] \in Nat /\ counter[s] \in Nat
  BY TasksSized DEF LedgerInv, ProcessLedger, SessionLedger, TypeOK
<1>2. BytesIn(Charged(s), size) \in Nat
  BY <1>1, BytesFinite
<1>3. ASSUME KeepsBytes
      PROVE  SessionLedger(s)'
  <2>1. Charged(s)' \subseteq Charged(s) /\ \A x \in Charged(s)' : size'[x] = size[x]
    BY <1>3 DEF KeepsBytes, Charged
  <2>2. /\ IsFiniteSet(Charged(s)') /\ BytesIn(Charged(s)', size') \in Nat
        /\ BytesIn(Charged(s)', size') <= BytesIn(Charged(s), size)
    BY <1>1, <2>1, BytesDropped
  <2> QED
    BY <1>1, <1>2, <1>3, <2>2 DEF KeepsBytes, SessionLedger
<1>4. ASSUME NEW x \in Tasks, Charge(x)
      PROVE  SessionLedger(s)'
  <2>1. /\ Of(x) \in Sessions /\ size[x] \in Nat
        /\ at[x] = "charge" /\ \A y \in Tasks \ {x} : at'[y] = at[y] /\ size'[y] = size[y]
        /\ counter' = [counter EXCEPT ![Of(x)] = @ + size[x]]
        /\ sent' = sent
    BY <1>1, <1>4, OfType DEF Charge, Added, Goto, Refused, TypeOK
  <2>2. CASE Of(x) = s /\ ~OverBudget(x)
    <3>1. at'[x] = "spend" /\ size' = size
      BY <1>1, <1>4, <2>2 DEF Charge, Goto, TypeOK
    <3>2. x \notin Charged(s) /\ Charged(s)' = Charged(s) \cup {x}
      BY <2>1, <2>2, <3>1 DEF Charged
    <3>3. BytesIn(Charged(s)', size') = BytesIn(Charged(s), size) + size[x]
      BY <1>1, <2>1, <3>1, <3>2, BytesAdd
    <3>4. IsFiniteSet(Charged(s)')
      BY <1>1, <3>2, FS_AddElement
    <3>5. counter'[s] = counter[s] + size[x] /\ counter[s] + size[x] <= SessionEchoBudget
      BY <1>1, <2>1, <2>2 DEF OverBudget, Added, TypeOK
    <3> QED
      BY <1>1, <1>2, <2>1, <3>3, <3>4, <3>5 DEF SessionLedger
  <2>3. CASE Of(x) # s \/ OverBudget(x)
    <3>1. OverBudget(x) => at'[x] \notin {"spend", "write"}
      BY <1>1, <1>4 DEF Charge, Refused, Goto, TypeOK
    <3>2. Charged(s)' \subseteq Charged(s) /\ \A y \in Charged(s)' : size'[y] = size[y]
      BY <2>1, <2>3, <3>1 DEF Charged
    <3>3. /\ IsFiniteSet(Charged(s)') /\ BytesIn(Charged(s)', size') \in Nat
          /\ BytesIn(Charged(s)', size') <= BytesIn(Charged(s), size)
      BY <1>1, <3>2, BytesDropped
    <3>4. counter'[s] \in Nat /\ counter'[s] >= counter[s]
      BY <1>1, <2>1 DEF TypeOK
    <3> QED
      BY <1>1, <1>2, <2>1, <3>3, <3>4 DEF SessionLedger
  <2> QED
    BY <2>2, <2>3
<1>5. ASSUME NEW x \in Tasks, Spend(x)
      PROVE  SessionLedger(s)'
  <2>1. /\ at[x] = "spend" /\ \A y \in Tasks \ {x} : at'[y] = at[y] /\ size'[y] = size[y]
        /\ (at'[x] = "write" /\ size' = size) \/ at'[x] \notin {"spend", "write"}
        /\ sent' = sent /\ counter' = counter
    BY <1>1, <1>5 DEF Spend, Goto, Refused, TypeOK, ledgerVars
  <2>2. Charged(s)' \subseteq Charged(s) /\ \A y \in Charged(s)' : size'[y] = size[y]
    BY <2>1 DEF Charged
  <2>3. /\ IsFiniteSet(Charged(s)') /\ BytesIn(Charged(s)', size') \in Nat
        /\ BytesIn(Charged(s)', size') <= BytesIn(Charged(s), size)
    BY <1>1, <2>2, BytesDropped
  <2> QED
    BY <1>1, <1>2, <2>1, <2>3 DEF SessionLedger
<1>6. ASSUME NEW x \in Tasks, NEW k \in Nat, Writes(x, k)
      PROVE  SessionLedger(s)'
  <2>1. size[x] \in Nat /\ Of(x) \in Sessions /\ counter' = counter /\ k <= size[x]
    BY <1>1, <1>6, OfType DEF TypeOK, Writes
  <2>2. CASE Of(x) = s
    <3> DEFINE L == Charged(s)
    <3>1. L' = L \ {x}
      BY <1>6, <2>2 DEF Writes, Charged
    <3>6. x \in L
      BY <1>6, <2>2 DEF Writes, Charged
    <3>7. \A y \in L \ {x} : size'[y] = size[y]
      BY <1>6, <2>2 DEF Writes, Charged
    <3>2. sent'[s] = sent[s] + k
      BY <1>1, <1>6, <2>2 DEF Writes, TypeOK
    <3>3. IsFiniteSet(L) /\ Sized(L, size)
      BY <1>1
    <3> HIDE DEF L
    <3>8. IsFiniteSet(L \ {x})
      BY <3>3, FS_Subset
    <3>4. /\ BytesIn(L \ {x}, size') \in Nat
          /\ BytesIn(L, size) = BytesIn(L \ {x}, size') + size[x]
      BY <3>3, <3>6, <3>7, BytesTaken
    <3>5. /\ IsFiniteSet(Charged(s)') /\ BytesIn(Charged(s)', size') \in Nat
          /\ BytesIn(Charged(s), size) = BytesIn(Charged(s)', size') + size[x]
      BY <3>1, <3>4, <3>8 DEF L
    <3> QED
      BY <1>1, <2>1, <3>2, <3>5 DEF SessionLedger
  <2>3. CASE Of(x) # s
    <3>1. Charged(s)' \subseteq Charged(s) /\ \A y \in Charged(s)' : size'[y] = size[y]
      BY <1>6, <2>3 DEF Writes, Charged
    <3>2. /\ IsFiniteSet(Charged(s)') /\ BytesIn(Charged(s)', size') \in Nat
          /\ BytesIn(Charged(s)', size') <= BytesIn(Charged(s), size)
      BY <1>1, <3>1, BytesDropped
    <3>3. sent'[s] = sent[s]
      BY <1>1, <1>6, <2>3 DEF Writes, TypeOK
    <3> QED
      BY <1>1, <1>2, <2>1, <3>2, <3>3 DEF SessionLedger
  <2> QED
    BY <2>2, <2>3
<1> QED
  BY <1>1, <1>3, <1>4, <1>5, <1>6, SessionQuiet, StreamBytes, WriteBytes, IdleQuiet
     DEF Next, Tasks

LEMMA ProcessLedgerStep ==
  ASSUME LedgerInv, [Next]_vars
  PROVE  ProcessLedger'
<1>1. /\ TypeOK /\ BudgetsTypeOK /\ GrantsFit /\ ProcessLedger
      /\ IsFiniteSet(Cleared) /\ Sized(Cleared, size)
      /\ egress \in Nat /\ granted \in Nat /\ windows \in Nat
      /\ egress' \in Nat /\ granted' \in Nat /\ windows' \in Nat
  BY TypesStep, TasksSized DEF LedgerInv, ProcessLedger, TypeOK, BudgetsTypeOK
<1>2. /\ BytesIn(Cleared, size) \in Nat
      /\ Allowed(windows) \in Nat /\ Allowed(windows') \in Nat
  BY <1>1, BytesFinite, AllowedType
<1>3. ASSUME Cleared' \subseteq Cleared, \A x \in Cleared' : size'[x] = size[x],
             egress' = egress, GrantsNone
      PROVE  ProcessLedger'
  <2>1. /\ IsFiniteSet(Cleared') /\ BytesIn(Cleared', size') \in Nat
        /\ BytesIn(Cleared', size') <= BytesIn(Cleared, size)
    BY <1>1, <1>3, BytesDropped
  <2>2. GrantsFit' /\ Allowed(windows) + granted <= Allowed(windows') + granted'
    <3>1. CASE Grants(0)
      BY <1>1, <1>2, <3>1, GrantsRoom DEF Grants
    <3>2. CASE KeepsWindow
      BY <1>1, <1>2, <3>2 DEF KeepsWindow, GrantsFit
    <3> QED
      BY <1>3, <3>1, <3>2 DEF GrantsNone
  <2> QED
    BY <1>1, <1>2, <1>3, <2>1, <2>2 DEF ProcessLedger
<1>4. ASSUME KeepsBytes, GrantsNone
      PROVE  ProcessLedger'
  <2>1. Cleared' \subseteq Cleared /\ \A x \in Cleared' : size'[x] = size[x]
    BY <1>4 DEF KeepsBytes, Cleared
  <2> QED
    BY <1>3, <1>4, <2>1 DEF KeepsBytes
<1>5. ASSUME NEW x \in Tasks, Charge(x)
      PROVE  ProcessLedger'
  <2>1. /\ at[x] = "charge" /\ at'[x] # "write"
        /\ \A y \in Tasks \ {x} : at'[y] = at[y] /\ size'[y] = size[y]
        /\ egress' = egress
    BY <1>1, <1>5 DEF Charge, Refused, Goto, TypeOK
  <2>2. Cleared' \subseteq Cleared /\ \A y \in Cleared' : size'[y] = size[y]
    BY <2>1 DEF Cleared
  <2>3. GrantsNone
    BY <1>5 DEF Charge, budgetVars, GrantsNone, KeepsWindow
  <2> QED
    BY <1>3, <2>1, <2>2, <2>3
<1>6. ASSUME NEW x \in Tasks, Spend(x)
      PROVE  ProcessLedger'
  <2>1. /\ size[x] \in Nat /\ at[x] = "spend" /\ egress' = egress
        /\ \A y \in Tasks \ {x} : at'[y] = at[y] /\ size'[y] = size[y]
        /\ Grants(IF maySpend(size[x]) THEN size[x] ELSE 0)
    BY <1>1, <1>6, SpendGrants DEF Spend, Goto, Refused, TypeOK, ledgerVars
  <2>2. CASE maySpend(size[x])
    <3>1. at'[x] = "write" /\ size' = size
      BY <1>1, <1>6, <2>2 DEF Spend, Goto, TypeOK
    <3>2. x \notin Cleared /\ Cleared' = Cleared \cup {x}
      BY <2>1, <3>1 DEF Cleared
    <3>3. BytesIn(Cleared', size') = BytesIn(Cleared, size) + size[x]
      BY <1>1, <2>1, <3>1, <3>2, BytesAdd
    <3>4. IsFiniteSet(Cleared')
      BY <1>1, <3>2, FS_AddElement
    <3>5. GrantsFit' /\ Allowed(windows) + granted + size[x] <= Allowed(windows') + granted'
      BY <1>1, <2>1, <2>2, GrantsRoom DEF Grants
    <3> QED
      BY <1>1, <1>2, <2>1, <3>3, <3>4, <3>5 DEF ProcessLedger
  <2>3. CASE ~maySpend(size[x])
    <3>1. at'[x] # "write"
      BY <1>1, <1>6, <2>3 DEF Spend, Refused, Goto, TypeOK
    <3>2. Cleared' \subseteq Cleared /\ \A y \in Cleared' : size'[y] = size[y]
      BY <2>1, <3>1 DEF Cleared
    <3> QED
      BY <1>3, <2>1, <2>3, <3>2 DEF GrantsNone
  <2> QED
    BY <2>2, <2>3
<1>7. ASSUME NEW x \in Tasks, NEW k \in Nat, Writes(x, k)
      PROVE  ProcessLedger'
  <2>1. /\ size[x] \in Nat /\ k <= size[x] /\ egress' = egress + k
        /\ Cleared' = Cleared \ {x}
    BY <1>1, <1>7 DEF Writes, Cleared, TypeOK
  <2>4. x \in Cleared /\ IsFiniteSet(Cleared) /\ Sized(Cleared, size)
    BY <1>1, <1>7 DEF Writes, Cleared
  <2>5. \A y \in Cleared \ {x} : size'[y] = size[y]
    BY <1>7 DEF Writes, Cleared
  <2>6. IsFiniteSet(Cleared \ {x})
    BY <2>4, FS_Subset
  <2>2. /\ BytesIn(Cleared \ {x}, size') \in Nat
        /\ BytesIn(Cleared, size) = BytesIn(Cleared \ {x}, size') + size[x]
    <3> DEFINE M == Cleared \ {x}
    <3>1. IsFiniteSet(M) /\ Sized(M, size) /\ x \notin M /\ Cleared = M \cup {x}
      BY <2>4, <2>6 DEF Sized
    <3>2. \A y \in M : size'[y] = size[y]
      BY <2>5
    <3> HIDE DEF M
    <3>3. BytesIn(M, size') = BytesIn(M, size)
      BY <3>2, BytesFrame
    <3>4. BytesIn(M, size) \in Nat
      BY <3>1, BytesFinite
    <3>5. BytesIn(M \cup {x}, size) = BytesIn(M, size) + size[x]
      BY <2>1, <3>1, BytesAdd
    <3> QED
      BY <3>1, <3>3, <3>4, <3>5 DEF M
  <2>3. granted' = granted /\ windows' = windows /\ GrantsFit'
    BY <1>1, <1>7 DEF Writes, KeepsWindow, GrantsFit
  <2> QED
    BY <1>1, <1>2, <2>1, <2>2, <2>3, <2>4, <2>6 DEF ProcessLedger
<1> QED
  BY <1>1, <1>4, <1>5, <1>6, <1>7, SessionQuiet, StreamBytes, WriteBytes, IdleQuiet
     DEF Next, Tasks

LEMMA LedgerInit == Init => LedgerInv
<1> SUFFICES ASSUME Init PROVE LedgerInv
  OBVIOUS
<1>1. /\ TypeOK
      /\ \A x \in Tasks : at[x] = "idle"
      /\ \A s \in Sessions : sent[s] = 0 /\ counter[s] = 0
      /\ egress = 0 /\ echoed = 0 /\ granted = 0 /\ windows = 0
  BY TypesInit DEF Init, BudgetsInit
<1>2. (\A s : Charged(s) = {}) /\ Cleared = {}
  BY <1>1 DEF Charged, Cleared
<1>3. BytesIn({}, size) = 0 /\ IsFiniteSet({})
  BY NoBytes, FS_EmptySet
<1>4. ASSUME NEW s \in Sessions
      PROVE  SessionLedger(s)
  <2>1. Charged(s) = {} /\ sent[s] = 0 /\ counter[s] = 0 /\ SessionEchoBudget \in Nat
    BY <1>1, <1>2
  <2> QED
    BY <1>3, <2>1 DEF SessionLedger
<1>5. Allowed(0) = 0 /\ 0 <= DailyEgressCeiling - 1
  BY DEF Allowed
<1>6. ProcessLedger
  BY <1>1, <1>2, <1>3, <1>5 DEF ProcessLedger, GrantsFit
<1> QED
  BY <1>1, <1>4, <1>6 DEF LedgerInv

\* The inductive invariant behind the two theorems below.
THEOREM LedgerInvariant == Spec => []LedgerInv
<1>1. LedgerInv /\ [Next]_vars => LedgerInv'
  BY TypesStep, SessionLedgerStep, ProcessLedgerStep DEF LedgerInv
<1> QED
  BY <1>1, LedgerInit, PTL DEF Spec

\* Both directions and every stream share one budget: no session puts more on
\* the wire, in its grace period and after its slot went back too.
THEOREM SessionEgressWithinBudget == Spec => []SessionEgress
<1>1. LedgerInv => SessionEgress
  <2> SUFFICES ASSUME LedgerInv, NEW s \in Sessions PROVE sent[s] <= SessionEchoBudget
    BY DEF SessionEgress
  <2>1. SessionLedger(s) /\ sent[s] \in Nat
    BY DEF LedgerInv, TypeOK
  <2>2. BytesIn(Charged(s), size) \in Nat
    BY <2>1, TasksSized, BytesFinite DEF LedgerInv, SessionLedger
  <2> QED
    BY <2>1, <2>2 DEF SessionLedger
<1> QED
  BY <1>1, LedgerInvariant, PTL

\* The process puts no more on the wire than the ceiling leaves for each window
\* it has opened, although a write may land in a later window.
THEOREM DailyEgressWithinCeiling == Spec => []DailyEgress
<1>1. LedgerInv => DailyEgress
  <2> SUFFICES ASSUME LedgerInv PROVE egress <= Allowed(windows + 1)
    BY DEF DailyEgress, Allowed
  <2>1. /\ ProcessLedger /\ egress \in Nat /\ windows \in Nat /\ granted \in Nat
        /\ granted <= DailyEgressCeiling - 1
    BY DEF LedgerInv, ProcessLedger, GrantsFit, TypeOK, BudgetsTypeOK
  <2>2. BytesIn(Cleared, size) \in Nat
    BY <2>1, TasksSized, BytesFinite DEF LedgerInv, ProcessLedger
  <2>3. /\ Allowed(windows) \in Nat
        /\ Allowed(windows + 1) = Allowed(windows) + (DailyEgressCeiling - 1)
    BY <2>1, AllowedType, AllowedStep
  <2> QED
    BY <2>1, <2>2, <2>3 DEF ProcessLedger
<1> QED
  BY <1>1, LedgerInvariant, PTL

-----------------------------------------------------------------------------
(* Limits are not forgotten                                                 *)
(*                                                                         *)
(* A limit is met by the session task itself, which then leaves its loop,  *)
(* or by a stream task, whose outcome remembers it.                        *)

Selecting == {"select", "charge", "spend", "write"}
NotYet == {"idle", "asked", "declined", "accept"}

StreamsOf(s) == {l \in Streams : SessionOf[l] = s}

\* Before accept has returned, nothing of the session runs.
Asleep(s) ==
  at[s] \in NotYet =>
    counter[s] = 0 /\ \A l \in StreamsOf(s) : at[l] = "idle" /\ outcome[l] = "none"

\* Some task of s has met a limit; the session task hears of it, or will.
MetLimit(s) ==
  counter[s] > SessionEchoBudget \/ \E l \in StreamsOf(s) : outcome[l] # "none"
Told(s) == stopped[s] # "none" \/ \E l \in StreamsOf(s) : at[l] = "stop"
Noticed(s) == at[s] \in Selecting /\ MetLimit(s) => Told(s)

\* A stream task about to send a reason has one.
OwesReason == \A l \in Streams : at[l] = "stop" => outcome[l] # "none"

NoticeInv ==
  /\ TypeOK
  /\ \A s \in Sessions : Asleep(s) /\ Noticed(s)
  /\ OwesReason

\* What a step leaves to the session t as it was.
KeepsNotice(t) ==
  /\ at'[t] = at[t] /\ counter'[t] = counter[t] /\ stopped'[t] = stopped[t]
  /\ \A l \in StreamsOf(t) : at'[l] = at[l] /\ outcome'[l] = outcome[l]

LEMMA KeptNotice ==
  ASSUME NEW t \in Sessions, KeepsNotice(t), Asleep(t), Noticed(t)
  PROVE  Asleep(t)' /\ Noticed(t)'
BY DEF KeepsNotice, Asleep, Noticed, MetLimit, Told, StreamsOf

\* A session task charges nothing here and moves no stream; it comes to its
\* loop by accept, and stays there only if it leaves the channel alone.
LEMMA SessionNotice ==
  ASSUME NoticeInv, NEW s \in Sessions, SessionNext(s)
  PROVE  /\ \A t \in Sessions \ {s} : KeepsNotice(t)
         /\ Asleep(s)' /\ Noticed(s)' /\ OwesReason'
<1>1. TypeOK /\ Asleep(s) /\ Noticed(s) /\ OwesReason /\ s \in Tasks /\ s \notin Streams
  BY DEF NoticeInv, Tasks
<1>2. \A x \in Tasks \ {s} : at'[x] = at[x]
  BY <1>1, SessionFrame
<1>3. /\ counter' = counter
      /\ \A x \in Tasks \ {s} : outcome'[x] = outcome[x]
      /\ \A t \in Sessions \ {s} : stopped'[t] = stopped[t]
  BY <1>1 DEF SessionNext, ledgerVars, TypeOK, Goto, PutOnWire,
       Ask, Admit, Decline, Accept, AcceptFails, Release, Expire, TakeDeadline,
       TakeStop, BreakNone, TakeDatagram, SendDatagramFails, GraceEnds, Close,
       Drop, LastHandleDropped, PeerCloses, BreakSome
<1>4. /\ at'[s] \in NotYet => at[s] \in NotYet
      /\ at'[s] \in Selecting =>
           at[s] = "accept" \/ (at[s] \in Selecting /\ stopped'[s] = stopped[s])
  BY <1>1 DEF SessionNext, TypeOK, Goto, NotYet, Selecting,
       Ask, Admit, Decline, Accept, AcceptFails, Release, Expire, TakeDeadline,
       TakeStop, BreakNone, TakeDatagram, SendDatagramFails, GraceEnds, Close,
       Drop, LastHandleDropped, PeerCloses, BreakSome
<1>5. \A l \in Streams : at'[l] = at[l] /\ outcome'[l] = outcome[l]
  BY <1>1, <1>2, <1>3 DEF Tasks
<1>6. \A t \in Sessions \ {s} : KeepsNotice(t)
  BY <1>2, <1>3, <1>5 DEF KeepsNotice, StreamsOf, Tasks
<1>7. Asleep(s)' /\ OwesReason'
  BY <1>1, <1>3, <1>4, <1>5 DEF Asleep, OwesReason, StreamsOf
<1>8. CASE at[s] = "accept"
  <2>1. ~MetLimit(s)'
    BY <1>1, <1>3, <1>5, <1>8 DEF Asleep, NotYet, MetLimit, StreamsOf
  <2> QED
    BY <1>6, <1>7, <2>1 DEF Noticed
<1>9. CASE at'[s] \in Selecting => at[s] \in Selecting /\ stopped'[s] = stopped[s]
  <2>1. MetLimit(s)' = MetLimit(s)
    BY <1>3, <1>5 DEF MetLimit, StreamsOf
  <2>2. stopped'[s] = stopped[s] => (Told(s) => Told(s)')
    BY <1>5 DEF Told, StreamsOf
  <2> QED
    BY <1>1, <1>6, <1>7, <1>9, <2>1, <2>2 DEF Noticed
<1> QED
  BY <1>4, <1>8, <1>9

\* A stream task outside charge and write changes neither counter nor outcome;
\* try_send leaves a reason in the channel, its own or the one it found.
LEMMA StreamNotice ==
  ASSUME NoticeInv, NEW l \in Streams, StreamNext(l), NEW s, s = SessionOf[l]
  PROVE  /\ \A t \in Sessions \ {s} : KeepsNotice(t)
         /\ Asleep(s)' /\ Noticed(s)' /\ OwesReason'
<1>1. /\ TypeOK /\ s \in Sessions /\ Asleep(s) /\ Noticed(s) /\ OwesReason
      /\ s # l /\ s \in Tasks /\ l \in Tasks /\ l \in StreamsOf(s)
      /\ \A t \in Sessions : t # l
  BY DEF NoticeInv, Tasks, StreamsOf
<1>2. \A x \in Tasks \ {l} : at'[x] = at[x]
  BY <1>1, StreamFrame
<1>3. counter' = counter /\ outcome' = outcome
  BY DEF StreamNext, ledgerVars, PutOnWire,
       TakeStream, Read, ReadEnds, WriteFails, Stop, Finish
<1>4. /\ at[l] # "idle" \/ at[s] = "select"
      /\ at'[l] # "stop"
      /\ \A t \in Sessions \ {s} : stopped'[t] = stopped[t]
  BY <1>1 DEF StreamNext, TypeOK, Goto,
       TakeStream, Read, ReadEnds, WriteFails, Stop, Finish
<1>5. at[s] \notin NotYet /\ at'[s] = at[s]
  BY <1>1, <1>2, <1>4 DEF Asleep, NotYet
<1>6. \A t \in Sessions \ {s} : KeepsNotice(t)
  BY <1>1, <1>2, <1>3, <1>4 DEF KeepsNotice, StreamsOf, Tasks
<1>7. Asleep(s)' /\ OwesReason'
  BY <1>1, <1>2, <1>3, <1>4, <1>5 DEF Asleep, OwesReason, Tasks
<1>8. CASE Stop(l)
  <2>1. at[s] \in Selecting => stopped'[s] # "none"
    BY <1>1, <1>8 DEF Stop, TypeOK, OwesReason, Selecting
  <2> QED
    BY <1>5, <1>6, <1>7, <2>1 DEF Noticed, Told
<1>9. CASE ~Stop(l)
  <2>1. stopped' = stopped /\ at[l] # "stop"
    BY <1>9 DEF StreamNext, TakeStream, Read, ReadEnds, WriteFails, Finish
  <2>2. Told(s) => Told(s)'
    BY <1>1, <1>2, <2>1 DEF Told, StreamsOf, Tasks
  <2> QED
    BY <1>1, <1>3, <1>5, <1>6, <1>7, <2>2 DEF Noticed, MetLimit, StreamsOf
<1> QED
  BY <1>8, <1>9

\* A task that meets a limit is left with it: the session task has then left
\* its loop, a stream task is about to tell.
LEMMA TaskNotice ==
  ASSUME NoticeInv, NEW x \in Tasks, Charge(x) \/ Spend(x) \/ Write(x), NEW s, s = Of(x)
  PROVE  /\ \A t \in Sessions \ {s} : KeepsNotice(t)
         /\ Asleep(s)' /\ Noticed(s)' /\ OwesReason'
<1>1. /\ TypeOK /\ s \in Sessions /\ Asleep(s) /\ Noticed(s) /\ OwesReason
      /\ s \in Tasks /\ s \notin Streams
      /\ x \in Streams => x \in StreamsOf(s)
      /\ x \notin Streams => x = s
  BY OfType DEF NoticeInv, Tasks, Of, StreamsOf
<1>2. /\ \A y \in Tasks \ {x} : at'[y] = at[y]
      /\ at[x] \in {"charge", "spend", "write"}
      /\ x \notin Streams => at'[x] \in {"spend", "write", "select", "grace"}
  BY <1>1, TaskFrame
<1>3. at[s] \notin NotYet /\ at'[s] \notin NotYet
  BY <1>1, <1>2 DEF Asleep, NotYet
<1>4. /\ stopped' = stopped
      /\ \A y \in Tasks \ {x} : outcome'[y] = outcome[y]
      /\ \A t \in Sessions \ {s} : counter'[t] = counter[t]
  BY <1>1 DEF Charge, Spend, Write, Refused, Goto, ledgerVars, TypeOK
<1>5. \A t \in Sessions \ {s} : KeepsNotice(t)
  BY <1>1, <1>2, <1>4 DEF KeepsNotice, StreamsOf, Tasks
<1>6. Asleep(s)'
  BY <1>3 DEF Asleep
<1>7. \/ /\ at'[x] = IF x \in Streams THEN "stop" ELSE "grace"
         /\ outcome'[x] # "none"
      \/ /\ at'[x] \notin {"stop", "grace"} /\ outcome' = outcome
         /\ counter'[s] > SessionEchoBudget => counter' = counter
  <2>1. CASE Charge(x)
    BY <1>1, <2>1 DEF Charge, OverBudget, Refused, Goto, TypeOK, Tasks, BudgetReached
  <2>2. CASE Spend(x)
    BY <1>1, <2>2 DEF Spend, Refused, Goto, TypeOK, ledgerVars, CeilingReached
  <2>3. CASE Write(x)
    BY <1>1, <2>3 DEF Write, Goto, TypeOK
  <2> QED
    BY <2>1, <2>2, <2>3
<1>8. OwesReason'
  BY <1>1, <1>2, <1>4, <1>7 DEF OwesReason, Tasks
<1>9. CASE /\ at'[x] = IF x \in Streams THEN "stop" ELSE "grace"
           /\ outcome'[x] # "none"
  <2>1. x \in Streams => Told(s)'
    BY <1>1, <1>9 DEF Told, StreamsOf
  <2>2. x \notin Streams => at'[s] \notin Selecting
    BY <1>1, <1>9 DEF Selecting
  <2> QED
    BY <1>5, <1>6, <1>8, <2>1, <2>2 DEF Noticed
<1>10. CASE /\ at'[x] \notin {"stop", "grace"} /\ outcome' = outcome
            /\ counter'[s] > SessionEchoBudget => counter' = counter
  <2>1. MetLimit(s)' => MetLimit(s)
    BY <1>10 DEF MetLimit, StreamsOf
  <2>2. Told(s) => Told(s)'
    BY <1>1, <1>2, <1>4 DEF Told, StreamsOf, Tasks
  <2>3. at'[s] \in Selecting => at[s] \in Selecting
    BY <1>1, <1>2 DEF Selecting
  <2> QED
    BY <1>1, <1>5, <1>6, <1>8, <2>1, <2>2, <2>3 DEF Noticed
<1> QED
  BY <1>7, <1>9, <1>10

LEMMA NoticeInit == Init => NoticeInv
<1> SUFFICES ASSUME Init PROVE NoticeInv
  OBVIOUS
<1>1. \A s \in Sessions : s \in Tasks /\ counter[s] = 0 /\ at[s] = "idle"
  BY DEF Init, Tasks
<1>2. \A l \in Streams : at[l] = "idle" /\ outcome[l] = "none"
  BY DEF Init, Tasks
<1> QED
  BY <1>1, <1>2, TypesInit DEF NoticeInv, Asleep, Noticed, OwesReason, StreamsOf, Selecting

LEMMA NoticeStep == NoticeInv /\ [Next]_vars => NoticeInv'
<1> SUFFICES ASSUME NoticeInv, [Next]_vars PROVE NoticeInv'
  OBVIOUS
<1>1. TypeOK'
  BY TypesStep DEF NoticeInv
<1>2. ASSUME NEW s \in Sessions, Asleep(s)', Noticed(s)', OwesReason',
             \A t \in Sessions \ {s} : KeepsNotice(t)
      PROVE  NoticeInv'
  BY <1>1, <1>2, KeptNotice DEF NoticeInv
<1>3. CASE \E s \in Sessions : SessionNext(s)
  BY <1>2, <1>3, SessionNotice
<1>4. ASSUME NEW l \in Streams, StreamNext(l) PROVE NoticeInv'
  <2>1. SessionOf[l] \in Sessions
    OBVIOUS
  <2> QED
    BY <1>2, <1>4, <2>1, StreamNotice
<1>5. ASSUME NEW x \in Tasks, Charge(x) \/ Spend(x) \/ Write(x) PROVE NoticeInv'
  <2>1. Of(x) \in Sessions
    BY OfType
  <2> QED
    BY <1>2, <1>5, <2>1, TaskNotice
<1>6. CASE Tick \/ UNCHANGED vars
  <2>1. at' = at /\ outcome' = outcome /\ counter' = counter /\ stopped' = stopped
    BY <1>6 DEF Tick, vars, ledgerVars
  <2>2. (\A t \in Sessions : KeepsNotice(t)) /\ OwesReason'
    BY <2>1 DEF KeepsNotice, NoticeInv, OwesReason
  <2> QED
    BY <1>1, <2>2, KeptNotice DEF NoticeInv
<1> QED
  BY <1>3, <1>4, <1>5, <1>6 DEF Next

\* The inductive invariant behind the theorem below: nothing is charged before
\* accept, and a stream task about to report a limit has a reason to report.
THEOREM NoticeInvariant == Spec => []NoticeInv
BY NoticeInit, NoticeStep, PTL DEF Spec

\* While the session task goes round its select, a limit met by any task of the
\* session waits in the channel or is about to be sent, for any number of
\* streams: a reason that try_send drops is dropped for one already there.
THEOREM LimitsAreNotForgotten == Spec => []NeverFallsSilent
<1>1. NoticeInv => NeverFallsSilent
  BY DEF NoticeInv, Noticed, MetLimit, Told, StreamsOf, Selecting, NeverFallsSilent
<1> QED
  BY <1>1, NoticeInvariant, PTL

-----------------------------------------------------------------------------
(* The contract, where a dropped connection closes                          *)

Looping == {"select", "charge", "spend", "write", "grace", "close", "drop"}

\* No connection outlives the session task that holds its slot.
PhaseInv ==
  /\ DropCloses
  /\ SlotInv
  /\ \A s \in Sessions : wt[s] = "open" => at[s] \in Looping

\* Phase, by where the session task stands.
PhaseTable(s) ==
  /\ at[s] \in {"idle", "asked", "declined"} => Phase(s) = "outside"
  /\ at[s] = "accept" => Phase(s) = "inside"
  /\ at[s] \in Looping => Phase(s) = wt[s]
  /\ at[s] = "release" => Phase(s) = IF wt[s] = "none" THEN "inside" ELSE "closed"
  /\ at[s] = "done" => Phase(s) = "left"
  /\ Holding(s) <=> Phase(s) \in {"inside", "open", "closed"}

LEMMA OpenStep ==
  ASSUME PhaseInv, [Next]_vars, NEW s \in Sessions, wt'[s] = "open"
  PROVE  at'[s] \in Looping
<1>1. /\ TypeOK /\ Shape(s) /\ DropCloses /\ s \in Tasks /\ s \notin Streams
      /\ wt[s] = "open" => at[s] \in Looping
  BY DEF PhaseInv, SlotInv, Tasks
<1>2. CASE at'[s] = at[s] /\ wt'[s] = wt[s]
  BY <1>1, <1>2
<1>3. CASE SessionNext(s)
  <2> USE DEF Tasks, TypeOK, Shape, Goto, Looping
  <2>1. CASE Drop(s) \/ LastHandleDropped(s) \/ PeerCloses(s) \/ Close(s) \/ Accept(s)
    BY <1>1, <2>1 DEF Drop, LastHandleDropped, PeerCloses, Close, Accept
  <2>2. CASE ~(Drop(s) \/ LastHandleDropped(s) \/ PeerCloses(s) \/ Close(s) \/ Accept(s))
    BY <1>1, <1>3, <2>2 DEF SessionNext, Ask, Admit, Decline, AcceptFails, Release, Expire,
       TakeDeadline, TakeStop, BreakNone, TakeDatagram, SendDatagramFails, GraceEnds, BreakSome
  <2> QED
    BY <2>1, <2>2
<1>4. CASE \E t \in Sessions \ {s} : SessionNext(t)
  BY <1>1, <1>2, <1>4, SessionFrame
<1>5. CASE \E l \in Streams : StreamNext(l)
  BY <1>1, <1>2, <1>5, StreamFrame
<1>6. ASSUME NEW x \in Tasks, Charge(x) \/ Spend(x) \/ Write(x)
      PROVE  at'[s] \in Looping
  BY <1>1, <1>6, TaskFrame DEF Looping
<1>7. CASE Tick \/ UNCHANGED vars
  BY <1>2, <1>7 DEF Tick, vars
<1> QED
  BY <1>3, <1>4, <1>5, <1>6, <1>7 DEF Next

LEMMA PhaseInvStep == PhaseInv /\ [Next]_vars => PhaseInv'
BY SlotInvStep, OpenStep DEF PhaseInv

\* What Phase(s) is, in a state and in the one that follows.
LEMMA Phases ==
  ASSUME NEW s \in Sessions
  PROVE  /\ PhaseInv => PhaseTable(s)
         /\ PhaseInv' => PhaseTable(s)'
<1>1. ASSUME PhaseInv
      PROVE  PhaseTable(s)
  <2>1. /\ at[s] \in SessionAt /\ wt[s] \in {"none", "open", "closed"} /\ Shape(s)
        /\ wt[s] = "open" => at[s] \in Looping
    BY <1>1 DEF PhaseInv, SlotInv, TypeOK, Shape
  <2> QED
    BY <2>1 DEF PhaseTable, Phase, Holding, Shape, SessionAt, Looping
<1>2. ASSUME PhaseInv'
      PROVE  PhaseTable(s)'
  <2>1. /\ at'[s] \in SessionAt /\ wt'[s] \in {"none", "open", "closed"} /\ Shape(s)'
        /\ wt'[s] = "open" => at'[s] \in Looping
    BY <1>2 DEF PhaseInv, SlotInv, TypeOK, Shape
  <2> QED
    BY <2>1 DEF PhaseTable, Phase, Holding, Shape, SessionAt, Looping
<1> QED
  BY <1>1, <1>2

KeepsLedger == sent' = sent /\ egress' = egress /\ days' = days
KeepsPhases == \A s \in Sessions : Phase(s)' = Phase(s)

LEMMA Stutters ==
  ASSUME KeepsLedger, KeepsPhases
  PROVE  UNCHANGED Contract!contractVars
<1>1. [s \in Sessions |-> Phase(s)]' = [s \in Sessions |-> Phase(s)]
  BY DEF KeepsPhases
<1>2. (days * (DailyEgressCeiling - 1))' = days * (DailyEgressCeiling - 1)
  BY DEF KeepsLedger
<1> QED
  BY <1>1, <1>2 DEF KeepsLedger, Contract!contractVars

LEMMA Moves ==
  ASSUME KeepsLedger, NEW s \in Sessions, NEW from, NEW to,
         Phase(s) \in from, Phase(s)' = to,
         \A t \in Sessions \ {s} : Phase(t)' = Phase(t)
  PROVE  Contract!Move(s, from, to)
<1>1. [t \in Sessions |-> Phase(t)]' = [[t \in Sessions |-> Phase(t)] EXCEPT ![s] = to]
  OBVIOUS
<1>2. [t \in Sessions |-> Phase(t)][s] \in from
  OBVIOUS
<1>3. (days * (DailyEgressCeiling - 1))' = days * (DailyEgressCeiling - 1)
  BY DEF KeepsLedger
<1> QED
  BY <1>1, <1>2, <1>3 DEF KeepsLedger, Contract!Move

LEMMA RollKeepsDays ==
  ASSUME TypeOK, rollWindow
  PROVE  days' = days
BY DEF rollWindow, days, TypeOK, BudgetsTypeOK

\* No step of a session task by itself moves bytes or days, or another session.
LEMMA SessionKeepsLedger ==
  ASSUME TypeOK, NEW s \in Sessions, SessionNext(s)
  PROVE  KeepsLedger /\ \A t \in Sessions \ {s} : Phase(t)' = Phase(t)
<1>1. sent' = sent /\ egress' = egress
  <2>1. CASE SendDatagramFails(s)
    <3>1. sent[s] + 0 = sent[s] /\ egress + 0 = egress /\ Of(s) = s
      BY DEF TypeOK, Of
    <3> QED
      BY <2>1, <3>1 DEF SendDatagramFails, PutOnWire, TypeOK
  <2>2. CASE ~SendDatagramFails(s)
    BY <2>2 DEF SessionNext, ledgerVars,
       Ask, Admit, Decline, Accept, AcceptFails, Release, Expire, TakeDeadline, TakeStop,
       BreakNone, TakeDatagram, GraceEnds, Close, Drop, LastHandleDropped, PeerCloses
  <2> QED
    BY <2>1, <2>2
<1>2. days' = days
  <2>1. CASE Admit(s) \/ Decline(s)
    BY <2>1, RollKeepsDays DEF Admit, Decline, acquire, decline, roll
  <2>2. CASE ~(Admit(s) \/ Decline(s))
    BY <2>2 DEF SessionNext, budgetVars, release, days,
       Ask, Accept, AcceptFails, Release, Expire, TakeDeadline, TakeStop,
       BreakNone, TakeDatagram, SendDatagramFails, GraceEnds, Close, Drop,
       LastHandleDropped, PeerCloses
  <2> QED
    BY <2>1, <2>2
<1>3. \A t \in Sessions \ {s} : at'[t] = at[t] /\ wt'[t] = wt[t]
  BY SessionFrame DEF Tasks
<1> QED
  BY <1>1, <1>2, <1>3 DEF KeepsLedger, Phase, Holding

-----------------------------------------------------------------------------
(* A step of a session                                                      *)

\* The sessions inside for the contract are the ones that hold a slot.
LEMMA InsideHold ==
  ASSUME PhaseInv, NEW a
  PROVE  Contract!Inside(a) = Holders(a)
BY Phases DEF Contract!Inside, Holders, PhaseTable

\* The contract counts as this module does.
LEMMA SameCount == \A S : Contract!Cardinality(S) = Cardinality(S)
BY DEF Contract!Cardinality, Cardinality

LEMMA AdmitEnters ==
  ASSUME PhaseInv, PhaseInv', NEW s \in Sessions, Admit(s)
  PROVE  Contract!Enter(s)
<1>1. TypeOK /\ SlotsMatchHolders /\ SessionNext(s) /\ AddressOf[s] \in Addresses
  BY DEF PhaseInv, SlotInv, SessionNext
<1>2. Contract!Cardinality(Contract!Inside(AddressOf[s])) < Cap(s)
  BY <1>1, InsideHold, SameCount DEF SlotsMatchHolders, Admit, acquire, mayAcquire, Cap
<1>3. Phase(s) \in {"outside"} /\ Phase(s)' = "inside"
  <2>1. at[s] = "asked" /\ at'[s] = "accept"
    BY <1>1 DEF Admit, Goto, TypeOK, Tasks
  <2> QED
    BY <2>1, Phases DEF PhaseTable
<1>4. Contract!Move(s, {"outside"}, "inside")
  BY <1>1, <1>3, SessionKeepsLedger, Moves
<1> QED
  BY <1>2, <1>4 DEF Contract!Enter

LEMMA AcceptOpens ==
  ASSUME PhaseInv, PhaseInv', NEW s \in Sessions, Accept(s)
  PROVE  Contract!Open(s)
<1>1. TypeOK /\ SessionNext(s)
  BY DEF PhaseInv, SlotInv, SessionNext
<1>2. at[s] = "accept" /\ at'[s] = "select" /\ wt'[s] = "open"
  BY <1>1 DEF Accept, Goto, TypeOK, Tasks
<1>3. Phase(s) \in {"inside"} /\ Phase(s)' = "open"
  BY <1>2, Phases DEF PhaseTable, Looping
<1> QED
  BY <1>1, <1>3, SessionKeepsLedger, Moves DEF Contract!Open

\* The peer closes, the grace is over or the task drops its connection: only
\* the first of them is a step of the contract.
LEMMA ClosingCloses ==
  ASSUME PhaseInv, PhaseInv', NEW s \in Sessions,
         PeerCloses(s) \/ Close(s) \/ Drop(s) \/ LastHandleDropped(s)
  PROVE  Contract!Close(s) \/ UNCHANGED Contract!contractVars
<1>1. /\ TypeOK /\ Shape(s) /\ DropCloses /\ SessionNext(s)
      /\ wt[s] = "open" => at[s] \in Looping
      /\ KeepsLedger /\ \A t \in Sessions \ {s} : Phase(t)' = Phase(t)
  BY SessionKeepsLedger DEF PhaseInv, SlotInv, SessionNext
<1>2. /\ wt'[s] = "closed" /\ at[s] \in Looping
      /\ at'[s] \in Looping \cup {"release"}
  BY <1>1 DEF PeerCloses, Close, Drop, LastHandleDropped, TypeOK, Tasks, Goto, Looping, Shape
<1>3. Phase(s) = wt[s] /\ Phase(s)' = "closed" /\ wt[s] \in {"open", "closed"}
  BY <1>1, <1>2, Phases DEF PhaseTable, Shape, Looping, TypeOK
<1>4. CASE wt[s] = "open"
  BY <1>1, <1>3, <1>4, Moves DEF Contract!Close
<1>5. CASE wt[s] = "closed"
  BY <1>1, <1>3, <1>5, Stutters DEF KeepsPhases
<1> QED
  BY <1>3, <1>4, <1>5

LEMMA ReleaseLeaves ==
  ASSUME PhaseInv, PhaseInv', NEW s \in Sessions, Release(s)
  PROVE  Contract!Leave(s)
<1>1. TypeOK /\ SessionNext(s)
  BY DEF PhaseInv, SlotInv, SessionNext
<1>2. at[s] = "release" /\ at'[s] = "done"
  BY <1>1 DEF Release, Goto, TypeOK, Tasks
<1>3. Phase(s) \in {"inside", "closed"} /\ Phase(s)' = "left"
  BY <1>2, Phases DEF PhaseTable
<1> QED
  BY <1>1, <1>3, SessionKeepsLedger, Moves DEF Contract!Leave

\* The other steps of a session task change nothing the contract sees.
LEMMA OthersStutter ==
  ASSUME PhaseInv, PhaseInv', NEW s \in Sessions, SessionNext(s),
         ~(Admit(s) \/ Accept(s) \/ PeerCloses(s) \/ Close(s) \/ Drop(s)
             \/ LastHandleDropped(s) \/ Release(s))
  PROVE  UNCHANGED Contract!contractVars
<1>1. TypeOK
  BY DEF PhaseInv, SlotInv
<1>2. CASE Ask(s) \/ Decline(s)
  <2>1. at[s] \in {"idle", "asked", "declined"} /\ at'[s] \in {"idle", "asked", "declined"}
    BY <1>1, <1>2 DEF Ask, Decline, Goto, TypeOK, Tasks
  <2>2. Phase(s)' = Phase(s)
    BY <2>1, Phases DEF PhaseTable
  <2> QED
    BY <1>1, <2>2, SessionKeepsLedger, Stutters DEF KeepsPhases
<1>3. CASE ~(Ask(s) \/ Decline(s))
  <2>1. wt'[s] = wt[s] /\ Holding(s) /\ Holding(s)'
    BY <1>1, <1>3 DEF SessionNext, TypeOK, Tasks, Goto, Holding,
       AcceptFails, Expire, TakeDeadline, TakeStop, BreakNone,
       TakeDatagram, SendDatagramFails, GraceEnds, BreakSome
  <2>2. Phase(s)' = Phase(s)
    BY <2>1 DEF Phase, Holding
  <2> QED
    BY <1>1, <2>2, SessionKeepsLedger, Stutters DEF KeepsPhases
<1> QED
  BY <1>2, <1>3

LEMMA SessionRefines ==
  ASSUME PhaseInv, PhaseInv', NEW s \in Sessions, SessionNext(s)
  PROVE  [Contract!Next]_(Contract!contractVars)
BY AdmitEnters, AcceptOpens, ClosingCloses, ReleaseLeaves, OthersStutter DEF Contract!Next

-----------------------------------------------------------------------------
(* A step of a stream or of a charge, and the clock                         *)

LEMMA StreamKeepsPhases ==
  ASSUME TypeOK, NEW l \in Streams, StreamNext(l)
  PROVE  KeepsPhases
<1>1. \A s \in Sessions : s \in Tasks \ {l}
  BY DEF Tasks
<1> QED
  BY <1>1, StreamFrame DEF KeepsPhases, Phase, Holding

LEMMA TaskKeepsPhases ==
  ASSUME TypeOK, NEW x \in Tasks, Charge(x) \/ Spend(x) \/ Write(x)
  PROVE  KeepsPhases
<1> SUFFICES ASSUME NEW s \in Sessions PROVE Phase(s)' = Phase(s)
  BY DEF KeepsPhases
<1>1. s \in Tasks /\ s \notin Streams /\ wt' = wt
  BY TaskFrame DEF Tasks
<1>2. CASE x # s
  BY <1>1, <1>2, TaskFrame DEF Phase, Holding
<1>3. CASE x = s
  <2>1. Holding(s) /\ Holding(s)' /\ at'[s] \notin {"idle", "asked", "declined"}
    BY <1>1, <1>3, TaskFrame DEF Holding
  <2> QED
    BY <1>1, <2>1 DEF Phase, Holding
<1> QED
  BY <1>2, <1>3

\* Where the days so far cover the windows, the contract's allowance covers
\* what the process sent.
LEMMA DaysAllow ==
  ASSUME TypeOK, TypeOK', DailyEgress', windows' = windows
  PROVE  egress' <= days * (DailyEgressCeiling - 1)
<1>1. /\ egress' <= Allowed(windows + 1) /\ windows \in Nat
      /\ days \in {windows + 1, windows + 2}
  BY DEF DailyEgress, Allowed, days, TypeOK, BudgetsTypeOK
<1>2. /\ Allowed(windows + 1) \in Nat
      /\ Allowed((windows + 1) + 1) = Allowed(windows + 1) + (DailyEgressCeiling - 1)
  BY <1>1, AllowedType, AllowedStep
<1>3. windows + 2 = (windows + 1) + 1
  BY <1>1
<1>4. Allowed(windows + 1) <= Allowed(days)
  BY <1>1, <1>2, <1>3
<1>5. Allowed(days) \in Nat /\ egress' \in Nat
  BY <1>1, AllowedType DEF TypeOK
<1>6. egress' <= Allowed(days)
  BY <1>1, <1>2, <1>4, <1>5
<1> QED
  BY <1>6 DEF Allowed

\* A write puts k bytes on the wire of an open session, within its budget and
\* within the days, or none at all.
LEMMA WriteEchoes ==
  ASSUME PhaseInv, TypeOK', SessionEgress', DailyEgress', KeepsPhases,
         NEW x \in Tasks, NEW k \in Nat, UNCHANGED budgetVars,
         PutOnWire(x, k), k > 0 => wt[Of(x)] = "open"
  PROVE  (\E s \in Sessions : Contract!Echo(s)) \/ UNCHANGED Contract!contractVars
<1> DEFINE s == Of(x)
<1>1. /\ TypeOK /\ s \in Sessions
      /\ sent \in [Sessions -> Nat] /\ egress \in Nat
  BY OfType DEF PhaseInv, SlotInv, TypeOK
<1>2. /\ sent' = [sent EXCEPT ![s] = @ + k]
      /\ egress' = egress + k
      /\ windows' = windows /\ days' = days
  BY DEF PutOnWire, budgetVars, days
<1>3. CASE k = 0
  <2>1. sent' = sent /\ egress' = egress
    BY <1>1, <1>2, <1>3
  <2> QED
    BY <1>2, <2>1, Stutters DEF KeepsLedger
<1>4. CASE k > 0
  <2>1. Phase(s) = "open"
    BY <1>1, <1>4, Phases DEF PhaseInv, PhaseTable
  <2>2. sent'[s] = sent[s] + k /\ sent[s] \in Nat
    BY <1>1, <1>2
  <2>3. sent'[s] \in sent[s]..Budget(s)
    BY <1>1, <2>2 DEF SessionEgress, Budget
  <2>4. egress' = egress + (sent'[s] - sent[s])
    BY <1>1, <1>2, <2>2
  <2>5. egress' <= days * (DailyEgressCeiling - 1)
    BY <1>1, <1>2, DaysAllow
  <2>6. [t \in Sessions |-> Phase(t)]' = [t \in Sessions |-> Phase(t)]
    BY DEF KeepsPhases
  <2>7. sent' = [sent EXCEPT ![s] = sent'[s]]
    BY <1>1, <1>2
  <2>8. [t \in Sessions |-> Phase(t)][s] = "open"
    BY <1>1, <2>1
  <2>9. (days * (DailyEgressCeiling - 1))' = days * (DailyEgressCeiling - 1)
    BY <1>2
  <2>10. Contract!Echo(s)
    BY <2>3, <2>4, <2>5, <2>6, <2>7, <2>8, <2>9 DEF Contract!Echo
  <2> QED
    BY <1>1, <2>10
<1> QED
  BY <1>3, <1>4

LEMMA StreamRefines ==
  ASSUME PhaseInv, TypeOK', SessionEgress', DailyEgress', NEW l \in Streams, StreamNext(l)
  PROVE  [Contract!Next]_(Contract!contractVars)
<1>1. TypeOK /\ l \in Tasks /\ KeepsPhases
  BY StreamKeepsPhases DEF PhaseInv, SlotInv, Tasks
<1>2. ASSUME NEW k \in Chunks \cup {0}, WriteFails(l, k)
      PROVE  [Contract!Next]_(Contract!contractVars)
  <2>1. /\ k \in Nat /\ UNCHANGED budgetVars /\ PutOnWire(l, k)
        /\ k > 0 => wt[Of(l)] = "open"
    BY <1>2 DEF WriteFails
  <2> QED
    BY <1>1, <2>1, WriteEchoes DEF Contract!Next
<1>3. CASE ~ \E k \in Chunks \cup {0} : WriteFails(l, k)
  <2>1. sent' = sent /\ egress' = egress /\ windows' = windows /\ aged' = aged
    BY <1>3 DEF StreamNext, ledgerVars, budgetVars, TakeStream, Read, ReadEnds, Stop, Finish
  <2> QED
    BY <1>1, <2>1, Stutters DEF KeepsLedger, days
<1> QED
  BY <1>2, <1>3

LEMMA TaskRefines ==
  ASSUME PhaseInv, TypeOK', SessionEgress', DailyEgress',
         NEW x \in Tasks, Charge(x) \/ Spend(x) \/ Write(x)
  PROVE  [Contract!Next]_(Contract!contractVars)
<1>1. TypeOK /\ KeepsPhases /\ size[x] \in Nat
  BY TaskKeepsPhases DEF PhaseInv, SlotInv, TypeOK
<1>2. CASE Write(x)
  <2>1. UNCHANGED budgetVars /\ PutOnWire(x, size[x]) /\ wt[Of(x)] = "open"
    BY <1>2 DEF Write
  <2> QED
    BY <1>1, <2>1, WriteEchoes DEF Contract!Next
<1>3. CASE Charge(x)
  BY <1>1, <1>3, Stutters DEF Charge, budgetVars, KeepsLedger, days
<1>4. CASE Spend(x)
  BY <1>1, <1>4, RollKeepsDays, Stutters DEF Spend, spend, ledgerVars, KeepsLedger
<1> QED
  BY <1>2, <1>3, <1>4

\* The day that passes is the contract's new day.
LEMMA TickRefines ==
  ASSUME TypeOK, Tick
  PROVE  Contract!NewDay
<1>1. at' = at /\ wt' = wt /\ sent' = sent /\ egress' = egress
  BY DEF Tick, ledgerVars
<1>2. [s \in Sessions |-> Phase(s)]' = [s \in Sessions |-> Phase(s)]
  BY <1>1 DEF Phase, Holding
<1>3. days \in Nat /\ days' = days + 1
  BY DEF Tick, DayPasses, days, TypeOK, BudgetsTypeOK
<1>4. Allowed(days') = Allowed(days) + (DailyEgressCeiling - 1)
  BY <1>3, AllowedStep
<1>5. (days * (DailyEgressCeiling - 1))'
        = days * (DailyEgressCeiling - 1) + (DailyEgressCeiling - 1)
  BY <1>4 DEF Allowed
<1> QED
  BY <1>1, <1>2, <1>5 DEF Contract!NewDay

LEMMA PhaseInvInit == Init /\ DropCloses => PhaseInv
BY SlotInvInit DEF Init, PhaseInv

LEMMA RefinesInit == Init /\ DropCloses => Contract!Init
<1> SUFFICES ASSUME Init, DropCloses PROVE Contract!Init
  OBVIOUS
<1>1. \A s \in Sessions : Phase(s) = "outside"
  BY PhaseInvInit, Phases DEF Init, Tasks, PhaseTable
<1>2. sent = [s \in Sessions |-> 0] /\ egress = 0
  BY DEF Init
<1>3. days * (DailyEgressCeiling - 1) = DailyEgressCeiling - 1
  BY DEF Init, BudgetsInit, days
<1> QED
  BY <1>1, <1>2, <1>3 DEF Contract!Init

LEMMA RefinesNext ==
  ASSUME PhaseInv, PhaseInv', SessionEgress', DailyEgress', [Next]_vars
  PROVE  [Contract!Next]_(Contract!contractVars)
<1>1. TypeOK /\ TypeOK'
  BY DEF PhaseInv, SlotInv
<1>2. CASE Tick
  BY <1>1, <1>2, TickRefines DEF Contract!Next
<1>3. CASE UNCHANGED vars
  <2>1. at' = at /\ wt' = wt /\ sent' = sent /\ egress' = egress /\ windows' = windows /\ aged' = aged
    BY <1>3 DEF vars, budgetVars, ledgerVars
  <2>2. KeepsLedger /\ KeepsPhases
    BY <2>1 DEF KeepsLedger, KeepsPhases, Phase, Holding, days
  <2> QED
    BY <2>2, Stutters
<1> QED
  BY <1>1, <1>2, <1>3, SessionRefines, StreamRefines, TaskRefines DEF Next

LEMMA PhaseInvariant == DropCloses /\ Spec => []PhaseInv
BY PhaseInvInit, PhaseInvStep, PTL DEF Spec

\* Where a dropped connection closes, the Rust rung keeps the contract of the
\* Go rungs: no echo after the slot went back, and no slot given back by a
\* session still open.
THEOREM ServerImplementsContract == DropCloses /\ Spec => ImplementsContract
BY PhaseInvariant, SessionEgressWithinBudget, DailyEgressWithinCeiling,
   PhaseInvInit, RefinesInit, RefinesNext, PTL DEF Spec, ImplementsContract, Contract!Spec

\* The connections of an address that have a session.
OpenFrom(a) == {s \in Sessions : AddressOf[s] = a /\ wt[s] = "open"}

OpenCapped == \A a \in Addresses : Cardinality(OpenFrom(a)) <= PerAddressSessions

\* PER_ADDRESS_SESSIONS, on the wire: where a dropped connection closes, one
\* address never has more sessions open than the cap.
THEOREM OpenSessionsCapped == DropCloses /\ Spec => []OpenCapped
<1>1. ASSUME PhaseInv, NEW a \in Addresses
      PROVE  Cardinality(OpenFrom(a)) <= PerAddressSessions
  <2>1. OpenFrom(a) \subseteq Holders(a)
    BY <1>1 DEF PhaseInv, OpenFrom, Holders, Holding, Looping
  <2>2. Holders(a) \subseteq Sessions
    BY DEF Holders
  <2>3. IsFiniteSet(Holders(a)) /\ IsFiniteSet(OpenFrom(a))
    BY <2>1, <2>2, FS_Subset
  <2>4. Cardinality(OpenFrom(a)) <= Cardinality(Holders(a))
    BY <2>1, <2>3, FS_Subset
  <2>5. Cardinality(Holders(a)) <= PerAddressSessions
    BY <1>1 DEF PhaseInv, SlotInv, SlotsMatchHolders, CountersCapped
  <2>6. Cardinality(OpenFrom(a)) \in Nat /\ Cardinality(Holders(a)) \in Nat
    BY <2>3, FS_CardinalityType
  <2> QED
    BY <2>4, <2>5, <2>6
<1>2. PhaseInv => OpenCapped
  BY <1>1 DEF OpenCapped
<1> QED
  BY <1>2, PhaseInvariant, PTL
=============================================================================
