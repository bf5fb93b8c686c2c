--------------------------- MODULE EchoServerProofs ---------------------------
(***************************************************************************)
(* What holds of EchoServer for every number of addresses, attempts and    *)
(* loops, and for every cap, budget and ceiling.                           *)
(***************************************************************************)
EXTENDS EchoServer, BudgetsProofs

(* What the modules assume of their parameters.                             *)
USE BudgetsAssumption, EchoServerAssumption

-----------------------------------------------------------------------------
(* Type correctness                                                         *)

\* A step of a session keeps the types: the handler, the connection, the slot.
LEMMA SessionTypes ==
  ASSUME TypeOK, NEW s \in Sessions, SessionNext(s)
  PROVE  TypeOK'
<1> USE DEF TypeOK, BudgetsTypeOK, HandlerPC, SupPC, Kinds, Reasons
<1> USE DEF budgetVars, connVars, wtVars, supVars, loopVars, ledgerVars
<1>1. CASE Handshake(s)      BY <1>1 DEF Handshake, Record
<1>2. CASE RecordClosed(s)   BY <1>2 DEF RecordClosed, Record
<1>3. CASE PeerCloses(s)     BY <1>3 DEF PeerCloses
<1>4. CASE PeerLeaves(s)     BY <1>4 DEF PeerLeaves
<1>5. CASE Connect(s)        BY <1>5 DEF Connect, Record
<1>6. CASE Admit(s)
  BY <1>6, RollTypes DEF Admit, acquire
<1>7. CASE Decline(s)
  BY <1>7, RollTypes DEF Decline, decline, Record
<1>8. CASE Upgrade(s)        BY <1>8 DEF Upgrade
<1>9. CASE UpgradeFails(s)   BY <1>9 DEF UpgradeFails
<1>10. CASE Refuse(s)        BY <1>10 DEF Refuse, release, Record
<1>11. CASE ServeEcho(s)     BY <1>11 DEF ServeEcho, Record, LoopPC
<1>12. CASE Expire(s)        BY <1>12 DEF Expire
<1>13. CASE TakeStop(s)      BY <1>13 DEF TakeStop
<1>14. CASE TakeDeadline(s)  BY <1>14 DEF TakeDeadline
<1>15. CASE TakePeerLeft(s)  BY <1>15 DEF TakePeerLeft
<1>16. CASE CloseWithError(s) BY <1>16 DEF CloseWithError
<1>17. CASE Cancel(s)        BY <1>17 DEF Cancel
<1>18. CASE ReleaseSlot(s)   BY <1>18 DEF ReleaseSlot, release
<1>19. CASE AcceptFails(s)   BY <1>19 DEF AcceptFails
<1> QED
  BY <1>1, <1>2, <1>3, <1>4, <1>5, <1>6, <1>7, <1>8, <1>9, <1>10, <1>11, <1>12,
     <1>13, <1>14, <1>15, <1>16, <1>17, <1>18, <1>19 DEF SessionNext

\* A step of an echo loop keeps the types.
LEMMA LoopTypes ==
  ASSUME TypeOK, NEW l \in Loops, LoopNext(l)
  PROVE  TypeOK'
<1> USE DEF TypeOK, BudgetsTypeOK, LoopPC, Reasons
<1> USE DEF budgetVars, connVars, wtVars, supVars, loopVars, ledgerVars
<1>s. SessionOf[l] \in Sessions
  OBVIOUS
<1>1. CASE AcceptStream(l)   BY <1>1 DEF AcceptStream
<1>2. CASE \E n \in Chunks : ReceiveDatagram(l, n)
  BY <1>2 DEF ReceiveDatagram
<1>3. CASE ReceiveFails(l)   BY <1>3 DEF ReceiveFails
<1>4. CASE \E n \in Chunks \cup {0}, final \in BOOLEAN : Read(l, n, final)
  BY <1>4 DEF Read
<1>5. CASE ReadFails(l)      BY <1>5 DEF ReadFails
<1>6. CASE Charge(l)
  <2>1. Added(l) \in Nat
    BY <1>s DEF Added
  <2>2. CASE OverBudget(l)
    BY <1>6, <2>1, <2>2, <1>s DEF Charge, Emptied
  <2>3. CASE ~OverBudget(l)
    BY <1>6, <2>1, <2>3, <1>s DEF Charge
  <2> QED
    BY <2>2, <2>3
<1>7. CASE Spend(l)
  <2>1. warned' \in BOOLEAN
    BY <1>7, Zenon DEF Spend, spend
  <2> QED
    BY <1>7, <2>1, RollTypes DEF Spend, spend, Emptied
<1>8. CASE Stop(l)
  BY <1>8, <1>s DEF Stop, Delivered, Bitten, ReturnFrom
<1>9. CASE Write(l)          BY <1>9, <1>s DEF Write, PutOnWire, Emptied
<1>10. CASE \E k \in Chunks \cup {0} : WriteFails(l, k)
  BY <1>10, <1>s DEF WriteFails, PutOnWire, Emptied
<1>11. CASE CloseStream(l)   BY <1>11 DEF CloseStream
<1> QED
  BY <1>1, <1>2, <1>3, <1>4, <1>5, <1>6, <1>7, <1>8, <1>9, <1>10, <1>11 DEF LoopNext

LEMMA TypesStep == TypeOK /\ [Next]_vars => TypeOK'
<1> SUFFICES ASSUME TypeOK, [Next]_vars PROVE TypeOK'
  OBVIOUS
<1>1. CASE Tick
  BY <1>1 DEF Tick, DayPasses, TypeOK, BudgetsTypeOK, connVars, wtVars, supVars, loopVars, ledgerVars
<1>2. CASE \E s \in Sessions : SessionNext(s)   BY <1>2, SessionTypes
<1>3. CASE \E l \in Loops : LoopNext(l)         BY <1>3, LoopTypes
<1>4. CASE UNCHANGED vars
  BY <1>4 DEF vars, TypeOK, BudgetsTypeOK, budgetVars, connVars, wtVars, supVars, loopVars, ledgerVars
<1> QED
  BY <1>1, <1>2, <1>3, <1>4 DEF Next

LEMMA TypesInit == Init => TypeOK
<1> SUFFICES ASSUME Init PROVE TypeOK
  OBVIOUS
<1>1. aged \in BOOLEAN /\ warned \in BOOLEAN
  BY Zenon DEF Init, BudgetsInit
<1>2. BudgetsTypeOK
  BY <1>1 DEF Init, BudgetsInit, BudgetsTypeOK
<1> QED
  BY <1>2 DEF Init, TypeOK, HandlerPC, SupPC, LoopPC, Kinds, Reasons

\* Every variable keeps its type, whatever the instance.
THEOREM TypeCorrect == Spec => []TypeOK
BY TypesInit, TypesStep, PTL DEF Spec

-----------------------------------------------------------------------------
(* Slots                                                                    *)
(*                                                                          *)
(* The counter of an address equals its number of holders only if nothing   *)
(* releases twice and nothing else touches it, and a session is open only   *)
(* while its attempt holds: Shape says where the goroutines stand then.      *)

\* The slot goroutine runs exactly while the handler has handed over, and the
\* session is open only from Upgrade until that goroutine closed it.
Shape(s) ==
  /\ sup[s] # "off" <=> handler[s] = "serving"
  /\ wt[s] = "open" => /\ handler[s] \in {"upgraded", "serving"}
                       /\ sup[s] \in {"off", "select", "close"}

\* No counter passes the ordinary cap, and the probes of an address, which
\* share its counter, never number more than theirs.
CountersCapped ==
  \A a \in Addresses :
    /\ sessions[a] <= PerAddressSessions
    /\ Cardinality(Holders(a) \cap Probe) <= ProbeSessions

SlotInv ==
  /\ TypeOK
  /\ \A s \in Sessions : Shape(s)
  /\ SlotsMatchHolders
  /\ CountersCapped

\* What a step can do to the slots: nothing, take one, give one back.
SameHolders(t) == Holding(t)' <=> Holding(t)

KeepsSlots ==
  /\ sessions' = sessions
  /\ \A t \in Sessions : SameHolders(t)

TakesSlot(s) ==
  /\ sessions[AddressOf[s]] < Cap(s)
  /\ sessions' = [sessions EXCEPT ![AddressOf[s]] = @ + 1]
  /\ ~Holding(s) /\ Holding(s)'
  /\ \A t \in Sessions \ {s} : SameHolders(t)

GivesSlot(s) ==
  /\ sessions' = [sessions EXCEPT ![AddressOf[s]] = IF @ <= 1 THEN 0 ELSE @ - 1]
  /\ Holding(s) /\ ~Holding(s)'
  /\ \A t \in Sessions \ {s} : SameHolders(t)

\* A step of one session moves no other session's goroutines.
LEMMA SessionFrame ==
  ASSUME TypeOK, NEW s \in Sessions, SessionNext(s), NEW t \in Sessions \ {s}
  PROVE  handler'[t] = handler[t] /\ sup'[t] = sup[t] /\ wt'[t] = wt[t]
BY DEF SessionNext, TypeOK, wtVars, supVars,
       Handshake, RecordClosed, PeerCloses, PeerLeaves, Connect, Admit, Decline,
       Upgrade, UpgradeFails, Refuse, ServeEcho, Expire, TakeStop, TakeDeadline,
       TakePeerLeft, CloseWithError, Cancel, ReleaseSlot, AcceptFails

\* A loop moves neither the handler nor the slot goroutine, and takes no slot.
LEMMA LoopFrame ==
  ASSUME NEW l \in Loops, LoopNext(l)
  PROVE  handler' = handler /\ sup' = sup /\ wt' = wt /\ sessions' = sessions
BY DEF LoopNext, wtVars, supVars, budgetVars, spend,
       AcceptStream, ReceiveDatagram, ReceiveFails, Read, ReadFails, Charge,
       Spend, Stop, Write, WriteFails, CloseStream

LEMMA ShapeStep ==
  ASSUME TypeOK, \A s \in Sessions : Shape(s), [Next]_vars
  PROVE  \A s \in Sessions : Shape(s)'
<1> SUFFICES ASSUME NEW t \in Sessions PROVE Shape(t)'
  OBVIOUS
<1>1. CASE handler'[t] = handler[t] /\ sup'[t] = sup[t] /\ wt'[t] = wt[t]
  BY <1>1 DEF Shape
<1>2. CASE SessionNext(t)
  BY <1>2 DEF Shape, SessionNext, TypeOK, HandlerPC, SupPC, wtVars, supVars,
       Handshake, RecordClosed, PeerCloses, PeerLeaves, Connect, Admit, Decline,
       Upgrade, UpgradeFails, Refuse, ServeEcho, Expire, TakeStop, TakeDeadline,
       TakePeerLeft, CloseWithError, Cancel, ReleaseSlot, AcceptFails
<1>3. CASE \E s \in Sessions \ {t} : SessionNext(s)
  BY <1>1, <1>3, SessionFrame
<1>4. CASE \E l \in Loops : LoopNext(l)
  BY <1>1, <1>4, LoopFrame
<1>5. CASE Tick \/ UNCHANGED vars
  BY <1>1, <1>5 DEF Tick, vars, wtVars, supVars
<1> QED
  BY <1>2, <1>3, <1>4, <1>5 DEF Next

LEMMA SlotStep ==
  ASSUME TypeOK, \A s \in Sessions : Shape(s), [Next]_vars
  PROVE  KeepsSlots \/ \E s \in Sessions : TakesSlot(s) \/ GivesSlot(s)
<1>1. ASSUME handler' = handler, sup' = sup, sessions' = sessions
      PROVE  KeepsSlots
  BY <1>1 DEF KeepsSlots, SameHolders, Holding
<1>2. ASSUME NEW s \in Sessions, SessionNext(s)
      PROVE  KeepsSlots \/ TakesSlot(s) \/ GivesSlot(s)
  <2>1. \A t \in Sessions \ {s} : SameHolders(t)
    BY <1>2, SessionFrame DEF SameHolders, Holding
  <2>2. CASE Admit(s)
    BY <2>1, <2>2 DEF Admit, acquire, mayAcquire, TakesSlot, Holding, TypeOK, supVars
  <2>3. CASE Refuse(s)
    BY <2>1, <2>3 DEF Refuse, release, GivesSlot, Holding, TypeOK, supVars
  <2>4. CASE ReleaseSlot(s)
    BY <2>1, <2>4 DEF ReleaseSlot, release, GivesSlot, Holding, TypeOK, Shape
  <2>5. CASE ~(Admit(s) \/ Refuse(s) \/ ReleaseSlot(s))
    <3>1. sessions' = sessions /\ SameHolders(s)
      BY <1>2, <2>5 DEF SessionNext, TypeOK, wtVars, supVars, budgetVars,
         SameHolders, Holding, Shape, decline,
         Handshake, RecordClosed, PeerCloses, PeerLeaves, Connect, Decline,
         Upgrade, UpgradeFails, ServeEcho, Expire, TakeStop, TakeDeadline,
         TakePeerLeft, CloseWithError, Cancel, AcceptFails
    <3> QED
      BY <2>1, <3>1 DEF KeepsSlots
  <2> QED
    BY <2>2, <2>3, <2>4, <2>5
<1>3. CASE \E l \in Loops : LoopNext(l)
  BY <1>1, <1>3, LoopFrame
<1>4. CASE Tick \/ UNCHANGED vars
  BY <1>1, <1>4 DEF Tick, DayPasses, vars, budgetVars, supVars
<1> QED
  BY <1>2, <1>3, <1>4 DEF Next

\* Holders are finitely many, so counting them is sound.
LEMMA HoldersFinite ==
  ASSUME NEW a
  PROVE  /\ IsFiniteSet(Holders(a)) /\ IsFiniteSet(Holders(a)')
         /\ IsFiniteSet(Holders(a) \cap Probe) /\ IsFiniteSet(Holders(a)' \cap Probe)
<1>1. /\ Holders(a) \subseteq Sessions /\ Holders(a)' \subseteq Sessions
      /\ Holders(a) \cap Probe \subseteq Sessions /\ Holders(a)' \cap Probe \subseteq Sessions
  BY DEF Holders
<1> QED
  BY <1>1, FS_Subset

LEMMA CountersStep ==
  ASSUME SlotInv, KeepsSlots \/ \E s \in Sessions : TakesSlot(s) \/ GivesSlot(s)
  PROVE  SlotsMatchHolders' /\ CountersCapped'
<1> SUFFICES ASSUME NEW a \in Addresses
             PROVE  /\ sessions'[a] = Cardinality(Holders(a)')
                    /\ sessions'[a] <= PerAddressSessions
                    /\ Cardinality(Holders(a)' \cap Probe) <= ProbeSessions
  BY DEF SlotsMatchHolders, CountersCapped
<1>1. /\ sessions \in [Addresses -> Nat]
      /\ sessions[a] = Cardinality(Holders(a))
      /\ sessions[a] <= PerAddressSessions
      /\ Cardinality(Holders(a) \cap Probe) <= ProbeSessions
  BY DEF SlotInv, TypeOK, BudgetsTypeOK, SlotsMatchHolders, CountersCapped
<1>2. /\ IsFiniteSet(Holders(a)) /\ IsFiniteSet(Holders(a)')
      /\ IsFiniteSet(Holders(a) \cap Probe) /\ IsFiniteSet(Holders(a)' \cap Probe)
  BY HoldersFinite
<1>3. ASSUME Holders(a)' = Holders(a), sessions'[a] = sessions[a]
      PROVE  /\ sessions'[a] = Cardinality(Holders(a)')
             /\ sessions'[a] <= PerAddressSessions
             /\ Cardinality(Holders(a)' \cap Probe) <= ProbeSessions
  BY <1>1, <1>3
<1>4. CASE KeepsSlots
  <2>1. Holders(a)' = Holders(a)
    BY <1>4 DEF KeepsSlots, SameHolders, Holders
  <2> QED
    BY <1>3, <1>4, <2>1 DEF KeepsSlots
<1>5. ASSUME NEW s \in Sessions, TakesSlot(s) \/ GivesSlot(s), AddressOf[s] # a
      PROVE  /\ Holders(a)' = Holders(a)
             /\ sessions'[a] = sessions[a]
  BY <1>1, <1>5 DEF TakesSlot, GivesSlot, SameHolders, Holders
<1>6. ASSUME NEW s \in Sessions, TakesSlot(s), AddressOf[s] = a
      PROVE  /\ sessions'[a] = Cardinality(Holders(a)')
             /\ sessions'[a] <= PerAddressSessions
             /\ Cardinality(Holders(a)' \cap Probe) <= ProbeSessions
  <2>1. Holders(a)' = Holders(a) \cup {s} /\ s \notin Holders(a)
    BY <1>6 DEF TakesSlot, SameHolders, Holders
  <2>2. Cardinality(Holders(a)') = Cardinality(Holders(a)) + 1
    BY <1>2, <2>1, FS_AddElement
  <2>3. sessions'[a] = Cardinality(Holders(a)')
    BY <1>1, <1>6, <2>2 DEF TakesSlot
  <2>4. sessions'[a] <= Cap(s)
    BY <1>1, <1>6 DEF TakesSlot, Cap
  <2>5. CASE s \in Probe
    <3>1. Cardinality(Holders(a)' \cap Probe) <= Cardinality(Holders(a)')
      BY <1>2, FS_Subset
    <3> QED
      BY <1>2, <2>3, <2>4, <2>5, <3>1, FS_CardinalityType DEF Cap
  <2>6. CASE s \notin Probe
    <3>1. Holders(a)' \cap Probe = Holders(a) \cap Probe
      BY <2>1, <2>6
    <3> QED
      BY <1>1, <2>3, <2>4, <2>6, <3>1 DEF Cap
  <2> QED
    BY <2>5, <2>6
<1>7. ASSUME NEW s \in Sessions, GivesSlot(s), AddressOf[s] = a
      PROVE  /\ sessions'[a] = Cardinality(Holders(a)')
             /\ sessions'[a] <= PerAddressSessions
             /\ Cardinality(Holders(a)' \cap Probe) <= ProbeSessions
  <2>1. Holders(a)' = Holders(a) \ {s} /\ s \in Holders(a)
    BY <1>7 DEF GivesSlot, SameHolders, Holders
  <2>2. Cardinality(Holders(a)') = Cardinality(Holders(a)) - 1
    BY <1>2, <2>1, FS_RemoveElement
  <2>3. Cardinality(Holders(a)') \in Nat
    BY <1>2, FS_CardinalityType
  <2>4. sessions'[a] = Cardinality(Holders(a)')
    BY <1>1, <1>7, <2>2, <2>3 DEF GivesSlot
  <2>5. Cardinality(Holders(a)' \cap Probe) <= Cardinality(Holders(a) \cap Probe)
    BY <1>2, <2>1, FS_Subset
  <2> QED
    BY <1>1, <1>2, <2>2, <2>4, <2>5, FS_CardinalityType
<1> QED
  BY <1>3, <1>4, <1>5, <1>6, <1>7

LEMMA SlotInvInit == Init => SlotInv
<1> SUFFICES ASSUME Init PROVE SlotInv
  OBVIOUS
<1>1. \A s \in Sessions : Shape(s)
  BY DEF Init, Shape
<1>2. \A a : Holders(a) = {}
  BY DEF Init, Holders, Holding
<1>3. Cardinality({}) = 0
  BY FS_EmptySet
<1>4. SlotsMatchHolders
  BY <1>2, <1>3 DEF SlotsMatchHolders, Init, BudgetsInit
<1>5. CountersCapped
  <2>1. \A a : Holders(a) \cap Probe = {}
    BY <1>2
  <2>2. \A a \in Addresses : sessions[a] = 0
    BY DEF Init, BudgetsInit
  <2>3. \A a : Cardinality(Holders(a) \cap Probe) = 0
    BY <1>3, <2>1, Zenon
  <2>4. 0 <= PerAddressSessions /\ 0 <= ProbeSessions
    OBVIOUS
  <2>5. ASSUME NEW a \in Addresses
        PROVE  /\ sessions[a] <= PerAddressSessions
               /\ Cardinality(Holders(a) \cap Probe) <= ProbeSessions
    BY <2>2, <2>3, <2>4
  <2> QED
    BY <2>5 DEF CountersCapped
<1> QED
  BY <1>1, <1>4, <1>5, TypesInit DEF SlotInv

LEMMA SlotInvStep == SlotInv /\ [Next]_vars => SlotInv'
<1> SUFFICES ASSUME SlotInv, [Next]_vars PROVE SlotInv'
  OBVIOUS
<1>1. TypeOK'
  BY TypesStep DEF SlotInv
<1>2. \A s \in Sessions : Shape(s)'
  BY ShapeStep DEF SlotInv
<1>3. SlotsMatchHolders' /\ CountersCapped'
  BY SlotStep, CountersStep DEF SlotInv
<1> QED
  BY <1>1, <1>2, <1>3 DEF SlotInv

\* The inductive invariant behind the two theorems below.
THEOREM SlotInvariant == Spec => []SlotInv
BY SlotInvInit, SlotInvStep, PTL DEF Spec

\* The counter of every address is the number of attempts that hold a slot of
\* it, so nothing leaks a slot and nothing gives back one it did not take.
THEOREM SlotAccounting == Spec => []SlotsMatchHolders
<1>1. SlotInv => SlotsMatchHolders
  BY DEF SlotInv
<1> QED
  BY <1>1, SlotInvariant, PTL

LEMMA OpenSessionsHold ==
  ASSUME SlotInv, NEW a \in Addresses
  PROVE  OpenFrom(a) \subseteq Holders(a)
BY DEF SlotInv, Shape, OpenFrom, Holders, Holding

\* One address never has more sessions open than the cap, nor more probes open
\* than the probe cap: the slot is given back only after the session closed.
THEOREM OpenSessionsCapped == Spec => []AddressCap
<1>1. SlotInv => AddressCap
  <2> SUFFICES ASSUME SlotInv, NEW a \in Addresses
               PROVE  /\ Cardinality(OpenFrom(a)) <= PerAddressSessions
                      /\ Cardinality(OpenFrom(a) \cap Probe) <= ProbeSessions
    BY DEF AddressCap
  <2>1. OpenFrom(a) \subseteq Holders(a)
    BY OpenSessionsHold
  <2>2. /\ IsFiniteSet(Holders(a)) /\ IsFiniteSet(Holders(a) \cap Probe)
    BY HoldersFinite
  <2>3. /\ IsFiniteSet(OpenFrom(a)) /\ Cardinality(OpenFrom(a)) <= Cardinality(Holders(a))
    BY <2>1, <2>2, FS_Subset
  <2>4. /\ IsFiniteSet(OpenFrom(a) \cap Probe)
        /\ Cardinality(OpenFrom(a) \cap Probe) <= Cardinality(Holders(a) \cap Probe)
    BY <2>1, <2>2, FS_Subset
  <2>5. /\ Cardinality(Holders(a)) <= PerAddressSessions
        /\ Cardinality(Holders(a) \cap Probe) <= ProbeSessions
    BY DEF SlotInv, SlotsMatchHolders, CountersCapped
  <2> QED
    BY <2>2, <2>3, <2>4, <2>5, FS_CardinalityType
<1> QED
  BY <1>1, SlotInvariant, PTL

-----------------------------------------------------------------------------
(* Reasons                                                                  *)
(*                                                                          *)
(* A reason is born in a loop, or in the select that sees the lifetime run   *)
(* out; it waits in the channel, then in the slot goroutine, and reaches    *)
(* the client last.  It stays true on the way because what it says cannot   *)
(* become false again: the counter only rises, the ceiling once reached     *)
(* stays reached until the window rolls over, a context stays expired.      *)

\* What r says of the session s is so.
Truthful(r, s) ==
  /\ r = BudgetReached => counter[s] > Budget(s)
  /\ r = CeilingReached => CeilingSeen
  /\ r = LifetimeReached => ctx[s] = "expired"

\* The context is created with the slot goroutine and canceled by it, last
\* but one, so every select has a lifetime that runs or is over and none sees
\* the cancellation; and only the lifetime itself says that it ran out.
Lifetime(s) ==
  /\ sup[s] = "off" <=> ctx[s] = "none"
  /\ ctx[s] = "canceled" => sup[s] \in {"release", "done"}
  /\ stopped[s] # LifetimeReached

\* A loop about to give a reason has it.
LoopTruthful(l) ==
  /\ pc[l] = "overBudget" => counter[SessionOf[l]] > Budget(SessionOf[l])
  /\ pc[l] = "overCeiling" => CeilingSeen

ReasonInv ==
  /\ \A s \in Sessions :
       /\ Truthful(reason[s], s) /\ Truthful(why[s], s) /\ Truthful(stopped[s], s)
       /\ Lifetime(s)
  /\ \A l \in Loops : LoopTruthful(l)

-----------------------------------------------------------------------------
(* What cannot become false                                                 *)

\* The ceiling once reached stays reached until the window rolls over.
LEMMA CeilingStaysSeen ==
  ASSUME TypeOK, CeilingSeen, [Next]_vars
  PROVE  CeilingSeen'
<1>1. ASSUME windows' = windows, echoed' = echoed
      PROVE  CeilingSeen'
  BY <1>1 DEF CeilingSeen
<1>2. /\ rolledEchoed \in Nat /\ echoed' \in Nat /\ size \in [Loops -> Nat]
      /\ BudgetsTypeOK
  BY RollTypes, TypesStep DEF TypeOK, BudgetsTypeOK
<1>3. ASSUME NEW s \in Sessions, SessionNext(s)
      PROVE  CeilingSeen'
  <2>1. CASE Admit(s) \/ Decline(s)
    BY <1>2, <2>1, RollKeepsCeilingSeen DEF Admit, Decline, acquire, decline, roll
  <2>2. CASE ~(Admit(s) \/ Decline(s))
    BY <1>1, <1>3, <2>2 DEF SessionNext, budgetVars, release,
       Handshake, RecordClosed, PeerCloses, PeerLeaves, Connect,
       Upgrade, UpgradeFails, Refuse, ServeEcho, Expire, TakeStop, TakeDeadline,
       TakePeerLeft, CloseWithError, Cancel, ReleaseSlot, AcceptFails
  <2> QED
    BY <2>1, <2>2
<1>4. ASSUME NEW l \in Loops, LoopNext(l)
      PROVE  CeilingSeen'
  <2>1. CASE Spend(l)
    BY <1>2, <2>1, RollKeepsCeilingSeen DEF Spend, spend
  <2>2. CASE ~Spend(l)
    BY <1>1, <1>4, <2>2 DEF LoopNext, budgetVars,
       AcceptStream, ReceiveDatagram, ReceiveFails, Read, ReadFails, Charge,
       Stop, Write, WriteFails, CloseStream
  <2> QED
    BY <2>1, <2>2
<1>5. CASE Tick \/ UNCHANGED vars
  BY <1>1, <1>5 DEF Tick, DayPasses, vars, budgetVars
<1> QED
  BY <1>3, <1>4, <1>5 DEF Next

\* The session counter only rises, so a budget once passed stays passed.
LEMMA CounterRises ==
  ASSUME TypeOK, [Next]_vars, NEW s \in Sessions
  PROVE  counter'[s] >= counter[s]
<1>1. /\ counter[s] \in Nat
      /\ counter' = counter => counter'[s] >= counter[s]
  BY DEF TypeOK
<1>2. CASE \E t \in Sessions : SessionNext(t)
  BY <1>1, <1>2 DEF SessionNext, ledgerVars,
       Handshake, RecordClosed, PeerCloses, PeerLeaves, Connect, Admit, Decline,
       Upgrade, UpgradeFails, Refuse, ServeEcho, Expire, TakeStop, TakeDeadline,
       TakePeerLeft, CloseWithError, Cancel, ReleaseSlot, AcceptFails
<1>3. ASSUME NEW l \in Loops, LoopNext(l)
      PROVE  counter'[s] >= counter[s]
  <2>1. CASE Charge(l)
    BY <1>1, <2>1 DEF Charge, Added, TypeOK
  <2>2. CASE ~Charge(l)
    BY <1>1, <1>3, <2>2 DEF LoopNext, ledgerVars,
       AcceptStream, ReceiveDatagram, ReceiveFails, Read, ReadFails, Spend,
       Stop, Write, WriteFails, CloseStream
  <2> QED
    BY <2>1, <2>2
<1>4. CASE Tick \/ UNCHANGED vars
  BY <1>1, <1>4 DEF Tick, vars, ledgerVars
<1> QED
  BY <1>2, <1>3, <1>4 DEF Next

\* A context that ran out stays so: ServeEcho, which sets one to live, finds
\* none there yet.
LEMMA ExpiredStays ==
  ASSUME SlotInv, [Next]_vars, NEW s \in Sessions, Lifetime(s), ctx[s] = "expired"
  PROVE  ctx'[s] = "expired"
<1>1. TypeOK /\ Shape(s)
  BY DEF SlotInv
<1>2. CASE \E t \in Sessions : SessionNext(t)
  BY <1>1, <1>2 DEF SessionNext, supVars, TypeOK, Shape, Lifetime,
       Handshake, RecordClosed, PeerCloses, PeerLeaves, Connect, Admit, Decline,
       Upgrade, UpgradeFails, Refuse, ServeEcho, Expire, TakeStop, TakeDeadline,
       TakePeerLeft, CloseWithError, Cancel, ReleaseSlot, AcceptFails
<1>3. CASE \E l \in Loops : LoopNext(l)
  BY <1>3 DEF LoopNext, supVars,
       AcceptStream, ReceiveDatagram, ReceiveFails, Read, ReadFails, Charge,
       Spend, Stop, Write, WriteFails, CloseStream
<1>4. CASE Tick \/ UNCHANGED vars
  BY <1>4 DEF Tick, vars, supVars
<1> QED
  BY <1>2, <1>3, <1>4 DEF Next

\* What r says of s is so after the step.
TruthfulAfter(r, s) ==
  /\ r = BudgetReached => counter'[s] > Budget(s)
  /\ r = CeilingReached => CeilingSeen'
  /\ r = LifetimeReached => ctx'[s] = "expired"

\* So what a reason says of a session stays so.
LEMMA TruthStays ==
  ASSUME SlotInv, [Next]_vars, NEW s \in Sessions, Lifetime(s)
  PROVE  \A r : Truthful(r, s) => TruthfulAfter(r, s)
<1>1. TypeOK /\ TypeOK'
  BY TypesStep DEF SlotInv
<1>2. counter[s] \in Nat /\ counter'[s] \in Nat /\ Budget(s) \in Nat
  BY <1>1 DEF TypeOK, Budget
<1>3. counter[s] > Budget(s) => counter'[s] > Budget(s)
  BY <1>1, <1>2, CounterRises
<1>4. CeilingSeen => CeilingSeen'
  BY <1>1, CeilingStaysSeen
<1>5. ctx[s] = "expired" => ctx'[s] = "expired"
  BY ExpiredStays
<1> QED
  BY <1>3, <1>4, <1>5 DEF Truthful, TruthfulAfter
-----------------------------------------------------------------------------
(* Where a reason comes from                                                *)

\* A reason moves from the channel to the slot goroutine to the client; new
\* ones come from a loop that was bitten and from a select that saw the end.
LEMMA ReasonMoves ==
  ASSUME SlotInv, [Next]_vars, NEW s \in Sessions
  PROVE  /\ reason'[s] \in {reason[s], why[s], "peer"}
         /\ \/ why'[s] \in {why[s], stopped[s]}
            \/ why'[s] = LifetimeReached /\ sup[s] = "select" /\ Done(s)
         /\ \/ stopped'[s] \in {stopped[s], "none"}
            \/ \E l \in Loops : SessionOf[l] = s /\ Stop(l) /\ stopped'[s] = Bitten(l)
<1>1. TypeOK
  BY DEF SlotInv
<1>2. CASE reason' = reason /\ why' = why /\ stopped' = stopped
  BY <1>2
<1>3. ASSUME NEW t \in Sessions, SessionNext(t)
      PROVE  /\ reason'[s] \in {reason[s], why[s], "peer"}
             /\ \/ why'[s] \in {why[s], stopped[s]}
                \/ why'[s] = LifetimeReached /\ sup[s] = "select" /\ Done(s)
             /\ stopped'[s] \in {stopped[s], "none"}
  BY <1>1, <1>3 DEF SessionNext, wtVars, supVars, TypeOK,
       Handshake, RecordClosed, PeerCloses, PeerLeaves, Connect, Admit, Decline,
       Upgrade, UpgradeFails, Refuse, ServeEcho, Expire, TakeStop, TakeDeadline,
       TakePeerLeft, CloseWithError, Cancel, ReleaseSlot, AcceptFails
<1>4. ASSUME NEW l \in Loops, LoopNext(l), ~Stop(l)
      PROVE  reason' = reason /\ why' = why /\ stopped' = stopped
  BY <1>4 DEF LoopNext, wtVars, supVars,
       AcceptStream, ReceiveDatagram, ReceiveFails, Read, ReadFails, Charge,
       Spend, Write, WriteFails, CloseStream
<1>5. ASSUME NEW l \in Loops, Stop(l)
      PROVE  /\ reason' = reason /\ why' = why
             /\ \/ stopped'[s] \in {stopped[s], "none"}
                \/ SessionOf[l] = s /\ stopped'[s] = Bitten(l)
  BY <1>1, <1>5 DEF Stop, Delivered, wtVars, TypeOK
<1>6. CASE Tick \/ UNCHANGED vars
  BY <1>2, <1>6 DEF Tick, vars, wtVars, supVars
<1> QED
  BY <1>2, <1>3, <1>4, <1>5, <1>6 DEF Next

\* Only Charge sends a loop to overBudget and only Spend to overCeiling, and
\* each of them has just seen the limit passed.
LEMMA BittenLoops ==
  ASSUME TypeOK, [Next]_vars, NEW l \in Loops
  PROVE  /\ pc'[l] = "overBudget" =>
              \/ pc[l] = "overBudget"
              \/ counter'[SessionOf[l]] > Budget(SessionOf[l])
         /\ pc'[l] = "overCeiling" =>
              \/ pc[l] = "overCeiling"
              \/ CeilingSeen'
<1>1. CASE Charge(l)
  BY <1>1 DEF Charge, OverBudget, Added, TypeOK
<1>2. CASE Spend(l)
  <2>1. CASE maySpend(size[l])
    BY <1>2, <2>1 DEF Spend, TypeOK
  <2>2. CASE ~maySpend(size[l])
    <3>1. pc'[l] = "overCeiling" /\ echoed' = rolledEchoed + size[l]
      BY <1>2, <2>2 DEF Spend, spend, TypeOK
    <3>2. rolledEchoed \in Nat /\ size[l] \in Nat
      BY RollTypes DEF TypeOK
    <3>3. echoed' >= DailyEgressCeiling
      BY <2>2, <3>1, <3>2 DEF maySpend
    <3> QED
      BY <3>1, <3>3 DEF CeilingSeen
  <2> QED
    BY <2>1, <2>2
<1>3. ASSUME NEW m \in Loops, LoopNext(m), ~(m = l /\ (Charge(l) \/ Spend(l)))
      PROVE  pc'[l] = pc[l] \/ pc'[l] \notin {"overBudget", "overCeiling"}
  BY <1>3 DEF LoopNext, TypeOK, ReturnFrom,
       AcceptStream, ReceiveDatagram, ReceiveFails, Read, ReadFails, Charge,
       Spend, Stop, Write, WriteFails, CloseStream
<1>4. CASE \E s \in Sessions : SessionNext(s)
  <2>1. pc'[l] \in {pc[l], "read"}
    BY <1>4 DEF SessionNext, loopVars, TypeOK,
       Handshake, RecordClosed, PeerCloses, PeerLeaves, Connect, Admit, Decline,
       Upgrade, UpgradeFails, Refuse, ServeEcho, Expire, TakeStop, TakeDeadline,
       TakePeerLeft, CloseWithError, Cancel, ReleaseSlot, AcceptFails
  <2> QED
    BY <2>1
<1>5. CASE Tick \/ UNCHANGED vars
  BY <1>5 DEF Tick, vars, loopVars
<1> QED
  BY <1>1, <1>2, <1>3, <1>4, <1>5 DEF Next

-----------------------------------------------------------------------------
(* The invariant and the theorem                                            *)

LEMMA LifetimeStep ==
  ASSUME SlotInv, [Next]_vars, NEW s \in Sessions, Lifetime(s)
  PROVE  Lifetime(s)'
<1>1. TypeOK /\ Shape(s)
  BY DEF SlotInv
<1>2. stopped'[s] # LifetimeReached
  BY ReasonMoves DEF Lifetime, Bitten, BudgetReached, CeilingReached, LifetimeReached
<1>3. CASE ctx'[s] = ctx[s] /\ sup'[s] = sup[s]
  BY <1>2, <1>3 DEF Lifetime
<1>4. ASSUME NEW t \in Sessions, SessionNext(t)
      PROVE  /\ sup'[s] = "off" <=> ctx'[s] = "none"
             /\ ctx'[s] = "canceled" => sup'[s] \in {"release", "done"}
  BY <1>1, <1>4 DEF SessionNext, supVars, TypeOK, Shape, Lifetime, Done,
       Handshake, RecordClosed, PeerCloses, PeerLeaves, Connect, Admit, Decline,
       Upgrade, UpgradeFails, Refuse, ServeEcho, Expire, TakeStop, TakeDeadline,
       TakePeerLeft, CloseWithError, Cancel, ReleaseSlot, AcceptFails
<1>5. CASE \E l \in Loops : LoopNext(l)
  BY <1>3, <1>5 DEF LoopNext, supVars,
       AcceptStream, ReceiveDatagram, ReceiveFails, Read, ReadFails, Charge,
       Spend, Stop, Write, WriteFails, CloseStream
<1>6. CASE Tick \/ UNCHANGED vars
  BY <1>3, <1>6 DEF Tick, vars, supVars
<1> QED
  BY <1>2, <1>4, <1>5, <1>6 DEF Next, Lifetime

LEMMA ReasonInit == Init => ReasonInv
<1> SUFFICES ASSUME Init PROVE ReasonInv
  OBVIOUS
<1>1. \A s \in Sessions :
        /\ reason[s] = "none" /\ why[s] = "none" /\ stopped[s] = "none"
        /\ sup[s] = "off" /\ ctx[s] = "none"
  BY DEF Init
<1>2. \A l \in Loops : pc[l] = "idle"
  BY DEF Init
<1> QED
  BY <1>1, <1>2 DEF ReasonInv, Truthful, Lifetime, LoopTruthful,
     BudgetReached, CeilingReached, LifetimeReached

LEMMA ReasonStep == SlotInv /\ ReasonInv /\ [Next]_vars => ReasonInv'
<1> SUFFICES ASSUME SlotInv, ReasonInv, [Next]_vars PROVE ReasonInv'
  OBVIOUS
<1>1. TypeOK /\ TypeOK'
  BY TypesStep DEF SlotInv
<1>2. ASSUME NEW s \in Sessions
      PROVE  /\ Truthful(reason[s], s)' /\ Truthful(why[s], s)' /\ Truthful(stopped[s], s)'
             /\ Lifetime(s)'
  <2>1. /\ Truthful(reason[s], s) /\ Truthful(why[s], s) /\ Truthful(stopped[s], s)
        /\ Lifetime(s)
    BY DEF ReasonInv
  <2>2. /\ TruthfulAfter(reason[s], s) /\ TruthfulAfter(why[s], s)
        /\ TruthfulAfter(stopped[s], s)
        /\ TruthfulAfter("peer", s) /\ TruthfulAfter("none", s)
    <3>1. Truthful("peer", s) /\ Truthful("none", s)
      BY DEF Truthful, BudgetReached, CeilingReached, LifetimeReached
    <3> QED
      BY <2>1, <3>1, TruthStays
  <2>3. TruthfulAfter(reason'[s], s)
    BY <2>2, ReasonMoves
  <2>4. TruthfulAfter(why'[s], s)
    <3>1. CASE why'[s] = LifetimeReached /\ sup[s] = "select" /\ Done(s)
      <4>1. ctx[s] = "expired"
        BY <2>1, <3>1 DEF Done, Lifetime
      <4>2. ctx'[s] = "expired"
        BY <2>1, <4>1, ExpiredStays
      <4> QED
        BY <3>1, <4>2 DEF TruthfulAfter, BudgetReached, CeilingReached, LifetimeReached
    <3> QED
      BY <2>2, <3>1, ReasonMoves
  <2>5. TruthfulAfter(stopped'[s], s)
    <3>1. ASSUME NEW l \in Loops, SessionOf[l] = s, Stop(l)
          PROVE  TruthfulAfter(Bitten(l), s)
      <4>1. LoopTruthful(l) /\ pc[l] \in {"overBudget", "overCeiling"}
        BY <3>1 DEF ReasonInv, Stop
      <4>2. Truthful(Bitten(l), s)
        BY <3>1, <4>1 DEF LoopTruthful, Bitten, Truthful,
           BudgetReached, CeilingReached, LifetimeReached
      <4> QED
        BY <2>1, <4>2, TruthStays
    <3> QED
      BY <2>2, <3>1, ReasonMoves
  <2>6. /\ Truthful(reason[s], s)' /\ Truthful(why[s], s)' /\ Truthful(stopped[s], s)'
    BY <2>3, <2>4, <2>5 DEF Truthful, TruthfulAfter, Budget
  <2> QED
    BY <2>1, <2>6, LifetimeStep
<1>3. ASSUME NEW l \in Loops
      PROVE  LoopTruthful(l)'
  <2>1. /\ SessionOf[l] \in Sessions /\ LoopTruthful(l)
        /\ counter[SessionOf[l]] \in Nat /\ counter'[SessionOf[l]] \in Nat
        /\ Budget(SessionOf[l]) \in Nat
    BY <1>1 DEF ReasonInv, TypeOK, Budget
  <2>2. counter'[SessionOf[l]] >= counter[SessionOf[l]]
    BY <1>1, <2>1, CounterRises
  <2>3. CeilingSeen => CeilingSeen'
    BY <1>1, CeilingStaysSeen
  <2>4. pc'[l] = "overBudget" => counter'[SessionOf[l]] > Budget(SessionOf[l])
    BY <1>1, <2>1, <2>2, BittenLoops DEF LoopTruthful
  <2>5. pc'[l] = "overCeiling" => CeilingSeen'
    BY <1>1, <2>1, <2>3, BittenLoops DEF LoopTruthful
  <2> QED
    BY <2>4, <2>5 DEF LoopTruthful, Budget
<1> QED
  BY <1>2, <1>3 DEF ReasonInv

\* The inductive invariant behind the theorem below.
THEOREM ReasonInvariant == Spec => []ReasonInv
BY SlotInvariant, ReasonInit, ReasonStep, PTL DEF Spec

\* A client that is told the budget, the ceiling or the lifetime ended its
\* session is told the truth, whichever goroutine gave the reason and however
\* long it waited in the channel.
THEOREM ReasonsAreTrue == Spec => []TruthfulReason
<1>1. ReasonInv => TruthfulReason
  BY DEF ReasonInv, Truthful, CeilingSeen, TruthfulReason
<1> QED
  BY <1>1, ReasonInvariant, PTL

-----------------------------------------------------------------------------
(* Limits are not forgotten                                                *)
(*                                                                         *)
(* NeverFallsSilent speaks of open sessions, and a session opens before    *)
(* its goroutines start: nothing may have been charged by then.            *)

LoopsOf(s) == {l \in Loops : SessionOf[l] = s}

\* Before serveEcho has run, nothing of the session does.
Asleep(s) ==
  sup[s] = "off" =>
    /\ counter[s] = 0
    /\ accept[s] = "off"
    /\ \A l \in LoopsOf(s) : pc[l] = "idle"

\* What NeverFallsSilent says of one session.
BudgetNoticed(s) ==
  wt[s] = "open" /\ counter[s] > Budget(s) =>
    Warned(s) \/ \E l \in LoopsOf(s) : pc[l] = "overBudget"

LoopsNoticed(s) ==
  wt[s] = "open" =>
    \A l \in LoopsOf(s) \cap DatagramLoops :
      pc[l] = "done" => Warned(s) \/ (sup[s] = "select" /\ Done(s))

NoticeInv ==
  /\ SlotInv
  /\ \A s \in Sessions : Asleep(s) /\ BudgetNoticed(s) /\ LoopsNoticed(s)

\* What a step leaves to the session t as it was.
KeepsNotice(t) ==
  /\ wt'[t] = wt[t] /\ sup'[t] = sup[t] /\ ctx'[t] = ctx[t]
  /\ stopped'[t] = stopped[t] /\ accept'[t] = accept[t]
  /\ counter'[t] = counter[t]
  /\ \A l \in LoopsOf(t) : pc'[l] = pc[l]

LEMMA KeptNotice ==
  ASSUME NEW t \in Sessions, KeepsNotice(t), Asleep(t), BudgetNoticed(t), LoopsNoticed(t)
  PROVE  Asleep(t)' /\ BudgetNoticed(t)' /\ LoopsNoticed(t)'
BY DEF KeepsNotice, Asleep, BudgetNoticed, LoopsNoticed, Warned, Done, LoopsOf, Budget

\* A session that moves disturbs no other, nor what its own loops charged;
\* only serveEcho starts loops, the datagram loops of its own session.
LEMMA SessionNotice ==
  ASSUME TypeOK, NEW s \in Sessions, SessionNext(s)
  PROVE  /\ \A t \in Sessions \ {s} : KeepsNotice(t)
         /\ counter' = counter
         /\ ServeEcho(s) \/ pc' = pc
BY DEF SessionNext, KeepsNotice, LoopsOf, TypeOK, wtVars, supVars, loopVars, ledgerVars,
       Handshake, RecordClosed, PeerCloses, PeerLeaves, Connect, Admit, Decline,
       Upgrade, UpgradeFails, Refuse, ServeEcho, Expire, TakeStop, TakeDeadline,
       TakePeerLeft, CloseWithError, Cancel, ReleaseSlot, AcceptFails

LEMMA OwnNotice ==
  ASSUME NoticeInv, NEW s \in Sessions, SessionNext(s)
  PROVE  Asleep(s)' /\ BudgetNoticed(s)' /\ LoopsNoticed(s)'
<1>1. TypeOK /\ Shape(s) /\ Asleep(s) /\ BudgetNoticed(s) /\ LoopsNoticed(s)
  BY DEF NoticeInv, SlotInv
<1>2. counter'[s] = counter[s] /\ counter[s] \in Nat /\ Budget(s) \in Nat
  BY <1>1, SessionNotice DEF TypeOK, Budget
<1>3. CASE ServeEcho(s)
  <2>1. sup'[s] = "select" /\ sup[s] = "off"
    BY <1>1, <1>3 DEF ServeEcho, Shape, TypeOK
  <2>2. ~(counter'[s] > Budget(s))
    BY <1>1, <1>2, <2>1 DEF Asleep
  <2>3. \A l \in LoopsOf(s) : pc'[l] # "done"
    BY <1>1, <1>3, <2>1 DEF ServeEcho, Asleep, LoopsOf, TypeOK
  <2> QED
    BY <2>1, <2>2, <2>3 DEF Asleep, BudgetNoticed, LoopsNoticed, LoopsOf, Budget
<1>4. CASE ~ServeEcho(s)
  <2>1. pc' = pc /\ (sup'[s] = "off" => sup[s] = "off" /\ accept'[s] = accept[s])
    BY <1>1, <1>4, SessionNotice DEF SessionNext, TypeOK, supVars, loopVars, Asleep,
       Handshake, RecordClosed, PeerCloses, PeerLeaves, Connect, Admit, Decline,
       Upgrade, UpgradeFails, Refuse, Expire, TakeStop, TakeDeadline,
       TakePeerLeft, CloseWithError, Cancel, ReleaseSlot, AcceptFails
  <2>2. Asleep(s)'
    BY <1>1, <1>2, <2>1 DEF Asleep, LoopsOf
  <2>3. wt'[s] = "open" =>
          \/ wt[s] = "open" /\ (Warned(s) => Warned(s)')
                            /\ (sup[s] = "select" /\ Done(s) =>
                                  Warned(s)' \/ (sup'[s] = "select" /\ Done(s)'))
          \/ Upgrade(s)
    BY <1>1, <1>4 DEF SessionNext, TypeOK, Shape, wtVars, supVars, Warned, Done,
       Handshake, RecordClosed, PeerCloses, PeerLeaves, Connect, Admit, Decline,
       Upgrade, UpgradeFails, Refuse, Expire, TakeStop, TakeDeadline,
       TakePeerLeft, CloseWithError, Cancel, ReleaseSlot, AcceptFails
  <2>4. Upgrade(s) => sup[s] = "off"
    BY <1>1 DEF Upgrade, Shape
  <2> QED
    BY <1>1, <1>2, <2>1, <2>2, <2>3, <2>4
       DEF Asleep, BudgetNoticed, LoopsNoticed, LoopsOf, Budget
<1> QED
  BY <1>3, <1>4

\* A loop moves alone, and only once its session is served.
LEMMA LoopNotice ==
  ASSUME NoticeInv, NEW l \in Loops, LoopNext(l)
  PROVE  /\ \A t \in Sessions \ {SessionOf[l]} : KeepsNotice(t)
         /\ wt' = wt /\ sup' = sup /\ ctx' = ctx /\ accept' = accept
         /\ \A m \in Loops \ {l} : pc'[m] = pc[m]
         /\ sup[SessionOf[l]] # "off"
<1>1. TypeOK
  BY DEF NoticeInv, SlotInv
<1>s. SessionOf[l] \in Sessions /\ l \in LoopsOf(SessionOf[l])
  BY DEF LoopsOf
<1>2. wt' = wt /\ sup' = sup /\ ctx' = ctx /\ accept' = accept
  BY DEF LoopNext, wtVars, supVars,
       AcceptStream, ReceiveDatagram, ReceiveFails, Read, ReadFails, Charge,
       Spend, Stop, Write, WriteFails, CloseStream
<1>3. /\ \A m \in Loops \ {l} : pc'[m] = pc[m]
      /\ \A t \in Sessions \ {SessionOf[l]} :
           stopped'[t] = stopped[t] /\ counter'[t] = counter[t]
  BY <1>1, <1>s DEF LoopNext, TypeOK, supVars, ledgerVars,
       AcceptStream, ReceiveDatagram, ReceiveFails, Read, ReadFails, Charge,
       Spend, Stop, Write, WriteFails, CloseStream
<1>4. pc[l] # "idle" \/ accept[SessionOf[l]] = "accepting"
  BY DEF LoopNext,
       AcceptStream, ReceiveDatagram, ReceiveFails, Read, ReadFails, Charge,
       Spend, Stop, Write, WriteFails, CloseStream
<1>5. sup[SessionOf[l]] # "off"
  BY <1>4, <1>s DEF NoticeInv, Asleep
<1>6. \A t \in Sessions \ {SessionOf[l]} : KeepsNotice(t)
  BY <1>2, <1>3 DEF KeepsNotice, LoopsOf
<1> QED
  BY <1>2, <1>3, <1>5, <1>6

\* What the moving loop does to its own session: it charges, gives a reason,
\* or leaves both alone and stays about to give the reason it has.
LEMMA LoopSays ==
  ASSUME TypeOK, NEW l \in Loops, LoopNext(l), NEW s, s = SessionOf[l]
  PROVE  \/ /\ counter'[s] > Budget(s) => pc'[l] = "overBudget"
            /\ stopped' = stopped /\ pc'[l] # "done"
         \/ counter' = counter /\ stopped'[s] # "none"
         \/ /\ counter' = counter /\ stopped' = stopped
            /\ pc[l] # "overBudget"
            /\ pc'[l] = "done" => pc[l] = "done" \/ Done(s) \/ wt[s] = "closed"
<1>s. s \in Sessions /\ counter[s] \in Nat /\ size[l] \in Nat /\ Budget(s) \in Nat
  BY DEF TypeOK, Budget
<1>1. CASE Charge(l)
  <2>1. counter'[s] = Added(l) /\ Added(l) \in Nat /\ stopped' = stopped
    BY <1>1, <1>s DEF Charge, Added, supVars, TypeOK
  <2>2. pc'[l] = IF OverBudget(l) THEN "overBudget" ELSE "spend"
    BY <1>1 DEF Charge, TypeOK
  <2> QED
    BY <2>1, <2>2, <1>s DEF OverBudget
<1>2. CASE Stop(l)
  <2>1. Bitten(l) # "none"
    BY DEF Bitten, BudgetReached, CeilingReached
  <2> QED
    BY <1>2, <2>1, <1>s DEF Stop, Delivered, TypeOK, ledgerVars
<1>3. CASE ~Charge(l) /\ ~Stop(l)
  BY <1>3, <1>s DEF LoopNext, TypeOK, supVars, ledgerVars, Done,
       AcceptStream, ReceiveDatagram, ReceiveFails, Read, ReadFails,
       Spend, Write, WriteFails, CloseStream
<1> QED
  BY <1>1, <1>2, <1>3

LEMMA LoopOwnNotice ==
  ASSUME NoticeInv, NEW l \in Loops, LoopNext(l), NEW s, s = SessionOf[l]
  PROVE  Asleep(s)' /\ BudgetNoticed(s)' /\ LoopsNoticed(s)'
<1>1. /\ s \in Sessions /\ TypeOK /\ Shape(s)
      /\ Asleep(s) /\ BudgetNoticed(s) /\ LoopsNoticed(s)
  BY DEF NoticeInv, SlotInv
<1>2. /\ wt' = wt /\ sup' = sup /\ ctx' = ctx
      /\ \A m \in Loops \ {l} : pc'[m] = pc[m]
      /\ sup[s] # "off"
  BY LoopNotice
<1>3. Asleep(s)'
  BY <1>2 DEF Asleep
<1> SUFFICES ASSUME wt[s] = "open" PROVE BudgetNoticed(s)' /\ LoopsNoticed(s)'
  BY <1>2, <1>3 DEF BudgetNoticed, LoopsNoticed
<1>4. sup[s] \in {"select", "close"}
  BY <1>1, <1>2 DEF Shape
<1>5. Done(s)' = Done(s) /\ (stopped'[s] = stopped[s] => Warned(s)' = Warned(s))
  BY <1>2 DEF Done, Warned
<1>6. stopped'[s] # "none" => Warned(s)'
  BY <1>2, <1>4 DEF Warned
<1>7. LoopsOf(s)' = LoopsOf(s) /\ l \in LoopsOf(s) /\ Budget(s)' = Budget(s)
  BY DEF LoopsOf, Budget
<1>8. CASE /\ counter'[s] > Budget(s) => pc'[l] = "overBudget"
           /\ stopped' = stopped /\ pc'[l] # "done"
  BY <1>1, <1>2, <1>5, <1>7, <1>8 DEF BudgetNoticed, LoopsNoticed, LoopsOf
<1>9. CASE counter' = counter /\ stopped'[s] # "none"
  BY <1>6, <1>9 DEF BudgetNoticed, LoopsNoticed
<1>10. CASE /\ counter' = counter /\ stopped' = stopped /\ pc[l] # "overBudget"
            /\ pc'[l] = "done" => pc[l] = "done" \/ Done(s) \/ wt[s] = "closed"
  <2>1. BudgetNoticed(s)'
    BY <1>1, <1>2, <1>5, <1>7, <1>10 DEF BudgetNoticed, LoopsOf
  <2>2. LoopsNoticed(s)'
    BY <1>1, <1>2, <1>4, <1>5, <1>7, <1>10 DEF LoopsNoticed, LoopsOf, Warned
  <2> QED
    BY <2>1, <2>2
<1> QED
  BY <1>1, <1>8, <1>9, <1>10, LoopSays

LEMMA NoticeInit == Init => NoticeInv
BY SlotInvInit DEF Init, NoticeInv, Asleep, BudgetNoticed, LoopsNoticed, LoopsOf

LEMMA NoticeStep == NoticeInv /\ [Next]_vars => NoticeInv'
<1> SUFFICES ASSUME NoticeInv, [Next]_vars PROVE NoticeInv'
  OBVIOUS
<1>1. SlotInv'
  BY SlotInvStep DEF NoticeInv
<1> SUFFICES ASSUME NEW t \in Sessions
             PROVE  Asleep(t)' /\ BudgetNoticed(t)' /\ LoopsNoticed(t)'
  BY <1>1 DEF NoticeInv
<1>2. ASSUME KeepsNotice(t) PROVE Asleep(t)' /\ BudgetNoticed(t)' /\ LoopsNoticed(t)'
  BY <1>2, KeptNotice DEF NoticeInv
<1>3. ASSUME NEW s \in Sessions, SessionNext(s)
      PROVE  Asleep(t)' /\ BudgetNoticed(t)' /\ LoopsNoticed(t)'
  BY <1>2, <1>3, OwnNotice, SessionNotice DEF NoticeInv, SlotInv
<1>4. ASSUME NEW l \in Loops, LoopNext(l)
      PROVE  Asleep(t)' /\ BudgetNoticed(t)' /\ LoopsNoticed(t)'
  BY <1>2, <1>4, LoopOwnNotice, LoopNotice
<1>5. CASE Tick \/ UNCHANGED vars
  BY <1>2, <1>5 DEF KeepsNotice, Tick, vars, wtVars, supVars, loopVars, ledgerVars
<1> QED
  BY <1>3, <1>4, <1>5 DEF Next

\* The inductive invariant behind the theorem below: nothing is charged before
\* serveEcho, and from then on whoever meets a limit says so or finds it said.
THEOREM NoticeInvariant == Spec => []NoticeInv
BY NoticeInit, NoticeStep, PTL DEF Spec

\* No session stays open with its budget behind it or its datagram loop gone
\* while nobody has told the slot goroutine, for any number of loops that meet
\* a limit at once: the part of "a limit that bites closes the session" that
\* needs no fairness.
THEOREM LimitsAreNotForgotten == Spec => []NeverFallsSilent
<1>1. NoticeInv => NeverFallsSilent
  BY DEF NoticeInv, BudgetNoticed, LoopsNoticed, LoopsOf, NeverFallsSilent, Loops
<1> QED
  BY <1>1, NoticeInvariant, PTL

-----------------------------------------------------------------------------
(* The ledgers                                                              *)
(*                                                                         *)
(* A loop charges its bytes first and writes them later, while the other   *)
(* loops of the session and of the process do the same.  The proofs count  *)
(* the bytes that are charged and not yet written: what is on the wire and *)
(* what may still follow stay within the limit together.                   *)

\* Loops that charged their session and have not written yet.
Charged(s) == {l \in Loops : SessionOf[l] = s /\ pc[l] \in {"spend", "write"}}

\* Loops that spend() let through and that have not written yet.
Cleared == {l \in Loops : pc[l] = "write"}

\* A session: what it sent and what its loops may still send was counted by
\* echoed.Add, and fits its budget.  The counter itself overshoots.
SessionLedger(s) ==
  /\ sent[s] + BytesIn(Charged(s), size) <= counter[s]
  /\ sent[s] + BytesIn(Charged(s), size) <= Budget(s)

\* The process: what it sent and what its loops may still send was granted, in
\* this window or in one that has rolled over, where granted fits the ceiling.
ProcessLedger ==
  /\ GrantsFit
  /\ egress + BytesIn(Cleared, size) <= Allowed(windows) + granted

LedgerInv ==
  /\ TypeOK
  /\ \A s \in Sessions : SessionLedger(s)
  /\ ProcessLedger

\* The loops of a session that charged, and the loops let through, are
\* finitely many, each with a number of bytes.
LEMMA LoopSets ==
  ASSUME TypeOK
  PROVE  /\ \A s : IsFiniteSet(Charged(s)) /\ Sized(Charged(s), size)
         /\ IsFiniteSet(Cleared) /\ Sized(Cleared, size)
<1>1. (\A s : Charged(s) \subseteq Loops) /\ Cleared \subseteq Loops
  BY DEF Charged, Cleared
<1>2. (\A s : IsFiniteSet(Charged(s))) /\ IsFiniteSet(Cleared)
  BY <1>1, FS_Subset
<1> QED
  BY <1>1, <1>2 DEF Sized, TypeOK

-----------------------------------------------------------------------------
(* What a step does to the bytes of a session                               *)

\* No loop of s charges or writes, though some may give up what they hold.
KeepsSession(s) ==
  /\ Charged(s)' \subseteq Charged(s)
  /\ \A l \in Charged(s)' : size'[l] = size[l]
  /\ sent'[s] = sent[s]
  /\ counter'[s] >= counter[s]

\* A loop of s charges its buffer, within the budget.
Charges(s, l) ==
  /\ l \notin Charged(s)
  /\ Charged(s)' = Charged(s) \cup {l}
  /\ size' = size
  /\ sent' = sent
  /\ counter'[s] = counter[s] + size[l]
  /\ counter'[s] <= Budget(s)

\* A loop of s puts k bytes of its buffer on the wire and drops the rest.
Writes(s, l, k) ==
  /\ l \in Charged(s)
  /\ Charged(s)' = Charged(s) \ {l}
  /\ \A m \in Loops \ {l} : size'[m] = size[m]
  /\ k <= size[l]
  /\ sent'[s] = sent[s] + k
  /\ counter' = counter

\* The steps that move no bytes of any session.
LEMMA SessionKeeps ==
  ASSUME TypeOK, NEW t \in Sessions, SessionNext(t), NEW s \in Sessions
  PROVE  KeepsSession(s)
<1>1. /\ \A l \in Loops : pc'[l] = pc[l] \/ pc'[l] = "read"
      /\ size' = size /\ sent' = sent /\ counter' = counter
  BY DEF SessionNext, TypeOK, loopVars, ledgerVars,
       Handshake, RecordClosed, PeerCloses, PeerLeaves, Connect, Admit, Decline,
       Upgrade, UpgradeFails, Refuse, ServeEcho, Expire, TakeStop, TakeDeadline,
       TakePeerLeft, CloseWithError, Cancel, ReleaseSlot, AcceptFails
<1> QED
  BY <1>1 DEF KeepsSession, Charged, TypeOK

LEMMA LoopMoves ==
  ASSUME TypeOK, NEW l \in Loops, LoopNext(l), NEW s \in Sessions
  PROVE  \/ KeepsSession(s)
         \/ SessionOf[l] = s /\ (Charges(s, l) \/ \E k \in Nat : Writes(s, l, k))
<1> USE DEF TypeOK, Charged
<1>1. CASE Charge(l)
  <2>1. /\ pc[l] = "charge"
        /\ counter' = [counter EXCEPT ![SessionOf[l]] = @ + size[l]]
        /\ sent' = sent
    BY <1>1 DEF Charge, Added
  <2>2. CASE SessionOf[l] = s /\ ~OverBudget(l)
    <3>1. pc' = [pc EXCEPT ![l] = "spend"] /\ size' = size
      BY <1>1, <2>2 DEF Charge
    <3>2. Charged(s)' = Charged(s) \cup {l}
      BY <2>1, <2>2, <3>1
    <3>3. counter'[s] <= Budget(s)
      BY <2>1, <2>2 DEF OverBudget, Added, Budget
    <3> QED
      BY <2>1, <2>2, <3>1, <3>2, <3>3 DEF Charges
  <2>3. CASE SessionOf[l] # s \/ OverBudget(l)
    <3>1. \A m \in Charged(s)' : m # l
      BY <1>1, <2>3 DEF Charge
    <3>2. \A m \in Loops \ {l} : pc'[m] = pc[m] /\ size'[m] = size[m]
      BY <1>1 DEF Charge, Emptied
    <3> QED
      BY <2>1, <3>1, <3>2 DEF KeepsSession
  <2> QED
    BY <2>2, <2>3
<1>2. ASSUME NEW k \in Nat, (Write(l) /\ k = size[l]) \/ WriteFails(l, k)
      PROVE  KeepsSession(s) \/ (SessionOf[l] = s /\ Writes(s, l, k))
  <2>1. /\ pc[l] = "write" /\ pc'[l] \in {"close", "read"}
        /\ \A m \in Loops \ {l} : pc'[m] = pc[m] /\ size'[m] = size[m]
        /\ counter' = counter /\ k <= size[l]
        /\ sent' = [sent EXCEPT ![SessionOf[l]] = @ + k]
    BY <1>2 DEF Write, WriteFails, PutOnWire, Emptied
  <2>2. CASE SessionOf[l] = s
    BY <2>1, <2>2 DEF Writes
  <2>3. CASE SessionOf[l] # s
    <3>1. sent'[s] = sent[s]
      BY <2>1, <2>3
    <3>2. \A m \in Charged(s)' : m # l
      BY <2>1
    <3> QED
      BY <2>1, <3>1, <3>2 DEF KeepsSession
  <2> QED
    BY <2>2, <2>3
<1>3. CASE ~(Charge(l) \/ Write(l) \/ \E k \in Chunks \cup {0} : WriteFails(l, k))
  BY <1>3 DEF LoopNext, ledgerVars, KeepsSession, Emptied, ReturnFrom,
       AcceptStream, ReceiveDatagram, ReceiveFails, Read, ReadFails, Spend, Stop, CloseStream
<1> QED
  BY <1>1, <1>2, <1>3

LEMMA SessionLedgerStep ==
  ASSUME LedgerInv, [Next]_vars, NEW s \in Sessions
  PROVE  SessionLedger(s)'
<1>1. /\ TypeOK /\ SessionLedger(s)
      /\ IsFiniteSet(Charged(s)) /\ Sized(Charged(s), size)
      /\ sent[s] \in Nat /\ counter[s] \in Nat /\ counter'[s] \in Nat
      /\ Budget(s) \in Nat
  BY TypesStep, LoopSets DEF LedgerInv, TypeOK, Budget
<1>2. BytesIn(Charged(s), size) \in Nat
  BY <1>1, BytesFinite
<1>3. ASSUME sent'[s] + BytesIn(Charged(s)', size') <= counter'[s],
             sent'[s] + BytesIn(Charged(s)', size') <= Budget(s)
      PROVE  SessionLedger(s)'
  BY <1>3 DEF SessionLedger, Budget
<1>4. CASE KeepsSession(s)
  <2>1. /\ BytesIn(Charged(s)', size') \in Nat
        /\ BytesIn(Charged(s)', size') <= BytesIn(Charged(s), size)
    BY <1>1, <1>4, BytesDropped DEF KeepsSession
  <2> QED
    BY <1>1, <1>2, <1>3, <1>4, <2>1 DEF KeepsSession, SessionLedger
<1>5. ASSUME NEW l \in Loops, Charges(s, l)
      PROVE  SessionLedger(s)'
  <2>1. size[l] \in Nat
    BY <1>1 DEF TypeOK
  <2>2. BytesIn(Charged(s)', size') = BytesIn(Charged(s), size) + size[l]
    BY <1>1, <1>5, <2>1, BytesAdd DEF Charges
  <2> QED
    BY <1>1, <1>2, <1>3, <1>5, <2>1, <2>2 DEF Charges, SessionLedger
<1>6. ASSUME NEW l \in Loops, NEW k \in Nat, Writes(s, l, k)
      PROVE  SessionLedger(s)'
  <2>1. size[l] \in Nat
    BY <1>1 DEF TypeOK
  <2>2. l \in Charged(s) /\ \A m \in Charged(s) \ {l} : size'[m] = size[m]
    BY <1>6 DEF Writes, Charged
  <2>3. /\ BytesIn(Charged(s) \ {l}, size') \in Nat
        /\ BytesIn(Charged(s), size) = BytesIn(Charged(s) \ {l}, size') + size[l]
    <3> DEFINE L == Charged(s)
    <3>1. IsFiniteSet(L) /\ Sized(L, size) /\ l \in L /\ \A m \in L \ {l} : size'[m] = size[m]
      BY <1>1, <2>2
    <3> HIDE DEF L
    <3>2. /\ BytesIn(L \ {l}, size') \in Nat
          /\ BytesIn(L, size) = BytesIn(L \ {l}, size') + size[l]
      BY <3>1, BytesTaken
    <3> QED
      BY <3>2 DEF L
  <2> QED
    BY <1>1, <1>3, <1>6, <2>1, <2>3 DEF Writes, SessionLedger
<1>7. CASE Tick \/ UNCHANGED vars
  <2>1. pc' = pc /\ size' = size /\ sent' = sent /\ counter' = counter
    BY <1>7 DEF Tick, vars, loopVars, ledgerVars
  <2>2. KeepsSession(s)
    BY <1>1, <2>1 DEF KeepsSession, Charged
  <2> QED
    BY <1>4, <2>2
<1> QED
  BY <1>1, <1>4, <1>5, <1>6, <1>7, SessionKeeps, LoopMoves DEF Next

-----------------------------------------------------------------------------
(* What a step does to the bytes of the process                             *)

\* No loop is let through and none writes.
KeepsCleared ==
  /\ Cleared' \subseteq Cleared
  /\ \A l \in Cleared' : size'[l] = size[l]
  /\ egress' = egress

\* spend() lets the buffer of l through.
Clears(l) ==
  /\ l \notin Cleared
  /\ Cleared' = Cleared \cup {l}
  /\ size' = size
  /\ egress' = egress
  /\ Grants(size[l])

\* A loop puts k bytes of its buffer on the wire and drops the rest.
Sends(l, k) ==
  /\ l \in Cleared
  /\ Cleared' = Cleared \ {l}
  /\ \A m \in Loops \ {l} : size'[m] = size[m]
  /\ k <= size[l]
  /\ egress' = egress + k
  /\ KeepsWindow

\* A step that grants nothing leaves the window alone or rolls it over.
GrantsNone == Grants(0) \/ KeepsWindow

LEMMA SessionGrantsNone ==
  ASSUME TypeOK, ProcessLedger, NEW t \in Sessions, SessionNext(t)
  PROVE  KeepsCleared /\ GrantsNone
<1>1. /\ \A l \in Loops : pc'[l] = pc[l] \/ pc'[l] = "read"
      /\ size' = size /\ egress' = egress
  BY DEF SessionNext, TypeOK, loopVars, ledgerVars,
       Handshake, RecordClosed, PeerCloses, PeerLeaves, Connect, Admit, Decline,
       Upgrade, UpgradeFails, Refuse, ServeEcho, Expire, TakeStop, TakeDeadline,
       TakePeerLeft, CloseWithError, Cancel, ReleaseSlot, AcceptFails
<1>2. KeepsCleared
  BY <1>1 DEF KeepsCleared, Cleared
<1>3. CASE Admit(t) \/ Decline(t)
  <2>1. roll
    BY <1>3 DEF Admit, Decline, acquire, decline
  <2> QED
    BY <1>2, <2>1, RollGrants DEF GrantsNone, ProcessLedger, TypeOK
<1>4. CASE ~(Admit(t) \/ Decline(t))
  <2>1. KeepsWindow
    BY <1>4 DEF KeepsWindow, SessionNext, budgetVars, release,
       Handshake, RecordClosed, PeerCloses, PeerLeaves, Connect,
       Upgrade, UpgradeFails, Refuse, ServeEcho, Expire, TakeStop, TakeDeadline,
       TakePeerLeft, CloseWithError, Cancel, ReleaseSlot, AcceptFails
  <2> QED
    BY <1>2, <2>1 DEF GrantsNone
<1> QED
  BY <1>3, <1>4

LEMMA LoopGrants ==
  ASSUME TypeOK, ProcessLedger, NEW l \in Loops, LoopNext(l)
  PROVE  \/ KeepsCleared /\ GrantsNone
         \/ Clears(l)
         \/ \E k \in Nat : Sends(l, k)
<1> USE DEF TypeOK, Cleared
<1>1. CASE Spend(l)
  <2>1. /\ pc[l] = "spend" /\ egress' = egress
        /\ Grants(IF maySpend(size[l]) THEN size[l] ELSE 0)
    BY <1>1, SpendGrants DEF Spend, ProcessLedger, ledgerVars
  <2>2. CASE maySpend(size[l])
    <3>1. pc' = [pc EXCEPT ![l] = "write"] /\ size' = size
      BY <1>1, <2>2 DEF Spend
    <3> QED
      BY <2>1, <2>2, <3>1 DEF Clears
  <2>3. CASE ~maySpend(size[l])
    <3>1. pc'[l] = "overCeiling" /\ \A m \in Loops \ {l} : pc'[m] = pc[m] /\ size'[m] = size[m]
      BY <1>1, <2>3 DEF Spend, Emptied
    <3>2. KeepsCleared
      BY <2>1, <3>1 DEF KeepsCleared
    <3> QED
      BY <2>1, <2>3, <3>2 DEF GrantsNone
  <2> QED
    BY <2>2, <2>3
<1>2. ASSUME NEW k \in Nat, (Write(l) /\ k = size[l]) \/ WriteFails(l, k)
      PROVE  Sends(l, k)
  <2>1. /\ pc[l] = "write" /\ pc'[l] \in {"close", "read"}
        /\ \A m \in Loops \ {l} : pc'[m] = pc[m] /\ size'[m] = size[m]
        /\ k <= size[l]
        /\ egress' = egress + k
        /\ KeepsWindow
    BY <1>2 DEF Write, WriteFails, PutOnWire, Emptied, budgetVars, KeepsWindow
  <2>2. Cleared' = Cleared \ {l}
    BY <2>1
  <2> QED
    BY <2>1, <2>2 DEF Sends
<1>3. CASE ~(Spend(l) \/ Write(l) \/ \E k \in Chunks \cup {0} : WriteFails(l, k))
  <2>1. KeepsWindow /\ egress' = egress
    BY <1>3 DEF KeepsWindow, LoopNext, budgetVars, ledgerVars,
       AcceptStream, ReceiveDatagram, ReceiveFails, Read, ReadFails, Charge, Stop, CloseStream
  <2>2. KeepsCleared
    BY <1>3, <2>1 DEF LoopNext, KeepsCleared, Emptied, ReturnFrom,
       AcceptStream, ReceiveDatagram, ReceiveFails, Read, ReadFails, Charge, Stop, CloseStream
  <2> QED
    BY <2>1, <2>2 DEF GrantsNone
<1> QED
  BY <1>1, <1>2, <1>3

LEMMA ProcessLedgerStep ==
  ASSUME LedgerInv, [Next]_vars
  PROVE  ProcessLedger'
<1>1. /\ TypeOK /\ BudgetsTypeOK /\ ProcessLedger /\ GrantsFit
      /\ IsFiniteSet(Cleared) /\ Sized(Cleared, size)
      /\ egress \in Nat /\ granted \in Nat /\ windows \in Nat
      /\ egress' \in Nat /\ granted' \in Nat /\ windows' \in Nat
  BY TypesStep, LoopSets DEF LedgerInv, ProcessLedger, TypeOK, BudgetsTypeOK
<1>2. /\ BytesIn(Cleared, size) \in Nat
      /\ Allowed(windows) \in Nat /\ Allowed(windows') \in Nat
  BY <1>1, BytesFinite, AllowedType
<1>3. CASE KeepsCleared /\ GrantsNone
  <2>1. /\ BytesIn(Cleared', size') \in Nat
        /\ BytesIn(Cleared', size') <= BytesIn(Cleared, size)
    BY <1>1, <1>3, BytesDropped DEF KeepsCleared
  <2>2. egress' = egress
    BY <1>3 DEF KeepsCleared
  <2>3. GrantsFit' /\ Allowed(windows) + granted <= Allowed(windows') + granted'
    <3>1. CASE Grants(0)
      BY <1>1, <1>2, <3>1, GrantsRoom DEF Grants
    <3>2. CASE KeepsWindow
      BY <1>1, <1>2, <3>2 DEF KeepsWindow, GrantsFit
    <3> QED
      BY <1>3, <3>1, <3>2 DEF GrantsNone
  <2> QED
    BY <1>1, <1>2, <2>1, <2>2, <2>3 DEF ProcessLedger
<1>4. ASSUME NEW l \in Loops, Clears(l)
      PROVE  ProcessLedger'
  <2>1. size[l] \in Nat
    BY <1>1 DEF TypeOK
  <2>2. BytesIn(Cleared', size') = BytesIn(Cleared, size) + size[l]
    BY <1>1, <1>4, <2>1, BytesAdd DEF Clears
  <2>3. GrantsFit' /\ Allowed(windows) + granted + size[l] <= Allowed(windows') + granted'
    BY <1>1, <1>4, <2>1, GrantsRoom DEF Clears, Grants
  <2>4. egress' = egress
    BY <1>4 DEF Clears
  <2> QED
    BY <1>1, <1>2, <2>1, <2>2, <2>3, <2>4 DEF ProcessLedger
<1>5. ASSUME NEW l \in Loops, NEW k \in Nat, Sends(l, k)
      PROVE  ProcessLedger'
  <2>1. size[l] \in Nat
    BY <1>1 DEF TypeOK
  <2>2. \A m \in Cleared \ {l} : size'[m] = size[m]
    BY <1>5 DEF Sends, Cleared
  <2>3. /\ BytesIn(Cleared \ {l}, size') \in Nat
        /\ BytesIn(Cleared, size) = BytesIn(Cleared \ {l}, size') + size[l]
    BY <1>1, <1>5, <2>2, BytesTaken DEF Sends
  <2>4. Cleared' = Cleared \ {l} /\ k <= size[l] /\ egress' = egress + k
        /\ granted' = granted /\ windows' = windows /\ GrantsFit'
    BY <1>1, <1>5 DEF Sends, KeepsWindow, GrantsFit
  <2> QED
    BY <1>1, <1>2, <2>1, <2>3, <2>4 DEF ProcessLedger
<1>6. CASE Tick \/ UNCHANGED vars
  <2>1. /\ pc' = pc /\ size' = size /\ egress' = egress /\ KeepsWindow
    BY <1>6 DEF Tick, DayPasses, vars, budgetVars, loopVars, ledgerVars, KeepsWindow
  <2>2. KeepsCleared /\ GrantsNone
    BY <2>1 DEF KeepsCleared, GrantsNone, Cleared
  <2> QED
    BY <1>3, <2>2
<1> QED
  BY <1>1, <1>3, <1>4, <1>5, <1>6, SessionGrantsNone, LoopGrants DEF Next

-----------------------------------------------------------------------------
(* The ledgers stay within the limits                                       *)

LEMMA LedgerInit == Init => LedgerInv
<1> SUFFICES ASSUME Init PROVE LedgerInv
  OBVIOUS
<1>1. /\ TypeOK
      /\ \A s : Charged(s) = {} /\ Cleared = {}
  BY TypesInit DEF Init, Charged, Cleared
<1>2. BytesIn({}, size) = 0
  BY NoBytes
<1>3. ASSUME NEW s \in Sessions
      PROVE  SessionLedger(s)
  <2>1. sent[s] = 0 /\ counter[s] = 0 /\ Budget(s) \in Nat
    BY DEF Init, Budget
  <2>2. BytesIn(Charged(s), size) = 0
    BY <1>1, <1>2
  <2> QED
    BY <2>1, <2>2 DEF SessionLedger
<1>4. Allowed(0) = 0
  BY DEF Allowed
<1>5. ProcessLedger
  <2>1. egress = 0 /\ echoed = 0 /\ granted = 0 /\ windows = 0
    BY DEF Init, BudgetsInit
  <2>2. BytesIn(Cleared, size) = 0
    BY <1>1, <1>2
  <2>3. 0 <= DailyEgressCeiling - 1
    OBVIOUS
  <2> QED
    BY <1>4, <2>1, <2>2, <2>3 DEF ProcessLedger, GrantsFit
<1> QED
  BY <1>1, <1>3, <1>5 DEF LedgerInv

LEMMA LedgerStep == LedgerInv /\ [Next]_vars => LedgerInv'
<1> SUFFICES ASSUME LedgerInv, [Next]_vars PROVE LedgerInv'
  OBVIOUS
<1>1. TypeOK'
  BY TypesStep DEF LedgerInv
<1>2. \A s \in Sessions : SessionLedger(s)'
  BY SessionLedgerStep
<1> QED
  BY <1>1, <1>2, ProcessLedgerStep DEF LedgerInv

\* The inductive invariant behind the two theorems below.
THEOREM LedgerInvariant == Spec => []LedgerInv
BY LedgerInit, LedgerStep, PTL DEF Spec

\* No session puts more on the wire than its budget, however many loops charge
\* its counter at once and however late they write.
THEOREM SessionEgressWithinBudget == Spec => []SessionEgress
<1>1. LedgerInv => SessionEgress
  <2> SUFFICES ASSUME LedgerInv, NEW s \in Sessions PROVE sent[s] <= Budget(s)
    BY DEF SessionEgress
  <2>1. SessionLedger(s) /\ sent[s] \in Nat /\ Budget(s) \in Nat
    BY DEF LedgerInv, TypeOK, Budget
  <2>2. BytesIn(Charged(s), size) \in Nat
    BY LoopSets, BytesFinite DEF LedgerInv
  <2> QED
    BY <2>1, <2>2 DEF SessionLedger
<1> QED
  BY <1>1, LedgerInvariant, PTL

\* The process puts no more on the wire than the ceiling leaves for each window
\* it has opened, although a write may land in a later window.
THEOREM DailyEgressWithinCeiling == Spec => []DailyEgress
<1>1. LedgerInv => DailyEgress
  <2> SUFFICES ASSUME LedgerInv PROVE egress <= Allowed(windows + 1)
    BY DEF DailyEgress, Allowed
  <2>1. /\ ProcessLedger /\ egress \in Nat /\ windows \in Nat /\ granted \in Nat
        /\ granted <= DailyEgressCeiling - 1
    BY DEF LedgerInv, ProcessLedger, GrantsFit, TypeOK, BudgetsTypeOK
  <2>2. BytesIn(Cleared, size) \in Nat
    BY LoopSets, BytesFinite DEF LedgerInv
  <2>3. /\ Allowed(windows) \in Nat
        /\ Allowed(windows + 1) = Allowed(windows) + (DailyEgressCeiling - 1)
    BY <2>1, AllowedType, AllowedStep
  <2> QED
    BY <2>1, <2>2, <2>3 DEF ProcessLedger
<1> QED
  BY <1>1, LedgerInvariant, PTL
=============================================================================
