------------------------- MODULE EchoServerRefinement -------------------------
(***************************************************************************)
(* EchoServer implements EchoContract, for every number of addresses,      *)
(* attempts and loops, and for every cap, budget and ceiling: each step    *)
(* maps to a step of the contract, or to none.                             *)
(*                                                                         *)
(* The slot accounting makes the cap the code tests the one the contract   *)
(* asks for; the ledgers put every write within its allowances.            *)
(***************************************************************************)
EXTENDS EchoServerProofs

USE BudgetsAssumption, EchoServerAssumption

-----------------------------------------------------------------------------
(* Where the contract sees an attempt                                       *)

\* A session exists from the moment Upgrade answered, and never again none.
Upgraded(s) == wt[s] # "none" <=> handler[s] \in {"upgraded", "serving"}

\* Phase, by where the handler and the slot goroutine stand.
PhaseTable(s) ==
  /\ handler[s] \in {"idle", "connecting", "declined"} => Phase(s) = "outside"
  /\ handler[s] \in {"upgrading", "failed"} => Phase(s) = "inside"
  /\ handler[s] = "refused" => Phase(s) = "left"
  /\ handler[s] \in {"upgraded", "serving"} /\ sup[s] # "done" => Phase(s) = wt[s]
  /\ handler[s] = "serving" /\ sup[s] = "done" => Phase(s) = "left"
  /\ Holding(s) <=> Phase(s) \in {"inside", "open", "closed"}

PhaseInv ==
  /\ SlotInv
  /\ \A s \in Sessions : Upgraded(s)

LEMMA UpgradedStep ==
  ASSUME PhaseInv, [Next]_vars, NEW s \in Sessions
  PROVE  Upgraded(s)'
<1>1. TypeOK /\ Shape(s) /\ Upgraded(s)
  BY DEF PhaseInv, SlotInv
<1>2. CASE handler'[s] = handler[s] /\ wt'[s] = wt[s]
  BY <1>1, <1>2 DEF Upgraded
<1>3. CASE SessionNext(s)
  <2> USE <1>1, <1>3 DEF Upgraded, TypeOK, wtVars
  <2>1. CASE Upgrade(s) \/ UpgradeFails(s) \/ Refuse(s) \/ ServeEcho(s)
    BY <2>1 DEF Upgrade, UpgradeFails, Refuse, ServeEcho
  <2>2. CASE PeerCloses(s) \/ PeerLeaves(s) \/ CloseWithError(s)
    BY <2>2 DEF Shape, PeerCloses, PeerLeaves, CloseWithError
  <2>3. CASE Handshake(s) \/ RecordClosed(s) \/ Connect(s) \/ Admit(s) \/ Decline(s)
    BY <2>3 DEF Handshake, RecordClosed, Connect, Admit, Decline, supVars
  <2>4. CASE Expire(s) \/ TakeStop(s) \/ TakeDeadline(s) \/ TakePeerLeft(s) \/ Cancel(s)
               \/ ReleaseSlot(s) \/ AcceptFails(s)
    BY <2>4 DEF Expire, TakeStop, TakeDeadline, TakePeerLeft, Cancel, ReleaseSlot, AcceptFails
  <2> QED
    BY <2>1, <2>2, <2>3, <2>4 DEF SessionNext
<1>4. CASE \E t \in Sessions \ {s} : SessionNext(t)
  BY <1>1, <1>2, <1>4, SessionFrame
<1>5. CASE \E l \in Loops : LoopNext(l)
  BY <1>2, <1>5, LoopFrame
<1>6. CASE Tick \/ UNCHANGED vars
  BY <1>2, <1>6 DEF Tick, vars, wtVars
<1> QED
  BY <1>3, <1>4, <1>5, <1>6 DEF Next

LEMMA PhaseInvariant == Spec => []PhaseInv
<1>1. Init => PhaseInv
  BY SlotInvInit DEF Init, PhaseInv, Upgraded
<1>2. PhaseInv /\ [Next]_vars => PhaseInv'
  BY SlotInvStep, UpgradedStep DEF PhaseInv
<1> QED
  BY <1>1, <1>2, PTL DEF Spec

\* What Phase(s) is, in a state and in the one that follows.
LEMMA Phases ==
  ASSUME NEW s \in Sessions
  PROVE  /\ PhaseInv => PhaseTable(s)
         /\ PhaseInv' => PhaseTable(s)'
<1>1. ASSUME PhaseInv
      PROVE  PhaseTable(s)
  <2>1. /\ handler[s] \in HandlerPC /\ sup[s] \in SupPC
        /\ wt[s] \in {"none", "open", "closed"}
        /\ Shape(s) /\ Upgraded(s)
    BY <1>1 DEF PhaseInv, SlotInv, TypeOK
  <2> QED
    BY <2>1 DEF PhaseTable, Phase, Holding, Shape, Upgraded, HandlerPC, SupPC
<1>2. ASSUME PhaseInv'
      PROVE  PhaseTable(s)'
  <2>1. /\ handler'[s] \in HandlerPC /\ sup'[s] \in SupPC
        /\ wt'[s] \in {"none", "open", "closed"}
        /\ Shape(s)' /\ Upgraded(s)'
    BY <1>2 DEF PhaseInv, SlotInv, TypeOK
  <2> QED
    BY <2>1 DEF PhaseTable, Phase, Holding, Shape, Upgraded, HandlerPC, SupPC
<1> QED
  BY <1>1, <1>2

-----------------------------------------------------------------------------
(* Steps the contract does not see, and steps that move one attempt         *)

\* The bytes and the days of the contract stay as they are.
KeepsLedger ==
  /\ sent' = sent
  /\ egress' = egress
  /\ days' = days

KeepsPhases == \A s \in Sessions : Phase(s)' = Phase(s)

LEMMA Stutters ==
  ASSUME KeepsLedger, KeepsPhases
  PROVE  UNCHANGED Contract!contractVars
<1>1. [s \in Sessions |-> Phase(s)]' = [s \in Sessions |-> Phase(s)]
  BY DEF KeepsPhases
<1>2. (days * (DailyEgressCeiling - 1))' = days * (DailyEgressCeiling - 1)
  BY DEF KeepsLedger
<1> QED
  BY <1>1, <1>2 DEF KeepsLedger, Contract!contractVars

LEMMA Moves ==
  ASSUME KeepsLedger, NEW s \in Sessions, NEW from, NEW to,
         Phase(s) \in from, Phase(s)' = to,
         \A t \in Sessions \ {s} : Phase(t)' = Phase(t)
  PROVE  Contract!Move(s, from, to)
<1>1. [t \in Sessions |-> Phase(t)]' = [[t \in Sessions |-> Phase(t)] EXCEPT ![s] = to]
  OBVIOUS
<1>2. [t \in Sessions |-> Phase(t)][s] \in from
  OBVIOUS
<1>3. (days * (DailyEgressCeiling - 1))' = days * (DailyEgressCeiling - 1)
  BY DEF KeepsLedger
<1> QED
  BY <1>1, <1>2, <1>3 DEF KeepsLedger, Contract!Move

\* roll() opens a window exactly when a day had passed: no new day for the
\* contract, which saw that day begin.
LEMMA RollKeepsDays ==
  ASSUME TypeOK, rollWindow
  PROVE  days' = days
BY DEF rollWindow, days, TypeOK, BudgetsTypeOK

LEMMA DaysType == TypeOK => days \in Nat /\ days >= windows + 1
BY DEF days, TypeOK, BudgetsTypeOK

\* No step of a session moves bytes or days.
LEMMA SessionKeepsLedger ==
  ASSUME TypeOK, NEW s \in Sessions, SessionNext(s)
  PROVE  KeepsLedger
<1>1. sent' = sent /\ egress' = egress
  BY DEF SessionNext, ledgerVars,
       Handshake, RecordClosed, PeerCloses, PeerLeaves, Connect, Admit, Decline,
       Upgrade, UpgradeFails, Refuse, ServeEcho, Expire, TakeStop, TakeDeadline,
       TakePeerLeft, CloseWithError, Cancel, ReleaseSlot, AcceptFails
<1>2. CASE Admit(s) \/ Decline(s)
  BY <1>1, <1>2, RollKeepsDays DEF KeepsLedger, Admit, Decline, acquire, decline, roll
<1>3. CASE ~(Admit(s) \/ Decline(s))
  <2>1. windows' = windows /\ aged' = aged
    BY <1>3 DEF SessionNext, budgetVars, release,
       Handshake, RecordClosed, PeerCloses, PeerLeaves, Connect,
       Upgrade, UpgradeFails, Refuse, ServeEcho, Expire, TakeStop, TakeDeadline,
       TakePeerLeft, CloseWithError, Cancel, ReleaseSlot, AcceptFails
  <2> QED
    BY <1>1, <2>1 DEF KeepsLedger, days
<1> QED
  BY <1>2, <1>3

\* No step of a session moves another one.
LEMMA OtherPhases ==
  ASSUME TypeOK, NEW s \in Sessions, SessionNext(s)
  PROVE  \A t \in Sessions \ {s} : Phase(t)' = Phase(t)
BY SessionFrame DEF Phase, Holding
-----------------------------------------------------------------------------
(* A step of an attempt                                                     *)

\* The sessions inside for the contract are the ones that hold a slot.
LEMMA InsideHold ==
  ASSUME PhaseInv, NEW a
  PROVE  Contract!Inside(a) = Holders(a)
BY Phases DEF Contract!Inside, Holders, PhaseTable

\* The contract counts as this module does.
LEMMA SameCount == \A S : Contract!Cardinality(S) = Cardinality(S)
BY DEF Contract!Cardinality, Cardinality

LEMMA AdmitEnters ==
  ASSUME PhaseInv, PhaseInv', NEW s \in Sessions, Admit(s)
  PROVE  Contract!Enter(s)
<1>1. TypeOK /\ SlotsMatchHolders /\ SessionNext(s) /\ AddressOf[s] \in Addresses
  BY DEF PhaseInv, SlotInv, SessionNext
<1>2. sessions[AddressOf[s]] < Cap(s)
  BY DEF Admit, acquire, mayAcquire
<1>3. Contract!Cardinality(Contract!Inside(AddressOf[s])) < Cap(s)
  BY <1>1, <1>2, InsideHold, SameCount DEF SlotsMatchHolders
<1>4. Phase(s) \in {"outside"} /\ Phase(s)' = "inside"
  <2>1. handler[s] = "connecting" /\ handler'[s] = "upgrading"
    BY <1>1 DEF Admit, TypeOK
  <2> QED
    BY <2>1, Phases DEF PhaseTable
<1>5. Contract!Move(s, {"outside"}, "inside")
  BY <1>1, <1>4, SessionKeepsLedger, OtherPhases, Moves
<1> QED
  BY <1>3, <1>5 DEF Contract!Enter

LEMMA UpgradeOpens ==
  ASSUME PhaseInv, PhaseInv', NEW s \in Sessions, Upgrade(s)
  PROVE  Contract!Open(s)
<1>1. TypeOK /\ Shape(s) /\ SessionNext(s)
  BY DEF PhaseInv, SlotInv, SessionNext
<1>2. /\ handler[s] = "upgrading" /\ handler'[s] = "upgraded"
      /\ wt'[s] = "open" /\ sup'[s] # "done"
  BY <1>1 DEF Upgrade, TypeOK, Shape, supVars
<1>3. Phase(s) \in {"inside"} /\ Phase(s)' = "open"
  BY <1>2, Phases DEF PhaseTable
<1> QED
  BY <1>1, <1>3, SessionKeepsLedger, OtherPhases, Moves DEF Contract!Open

\* The peer closes, the connection goes away, or the slot goroutine closes:
\* only the first of them is a step of the contract.
LEMMA ClosingCloses ==
  ASSUME PhaseInv, PhaseInv', NEW s \in Sessions,
         PeerCloses(s) \/ PeerLeaves(s) \/ CloseWithError(s)
  PROVE  Contract!Close(s) \/ UNCHANGED Contract!contractVars
<1>1. TypeOK /\ Shape(s) /\ Upgraded(s) /\ SessionNext(s)
  BY DEF PhaseInv, SlotInv, SessionNext
<1>2. /\ handler'[s] = handler[s]
      /\ wt'[s] = IF wt[s] = "open" THEN "closed" ELSE wt[s]
      /\ sup'[s] = sup[s] \/ (sup[s] = "close" /\ sup'[s] = "cancel")
  BY <1>1 DEF PeerCloses, PeerLeaves, CloseWithError, TypeOK, supVars, Shape, Upgraded
<1>3. CASE wt[s] = "open"
  <2>1. handler[s] \in {"upgraded", "serving"} /\ sup[s] # "done" /\ sup'[s] # "done"
    BY <1>1, <1>2, <1>3 DEF Shape
  <2>2. Phase(s) \in {"open"} /\ Phase(s)' = "closed"
    BY <1>2, <1>3, <2>1, Phases DEF PhaseTable
  <2> QED
    BY <1>1, <2>2, SessionKeepsLedger, OtherPhases, Moves DEF Contract!Close
<1>4. CASE wt[s] # "open"
  <2>1. Phase(s)' = Phase(s)
    BY <1>2, <1>4 DEF Phase, Holding
  <2>2. KeepsPhases
    BY <1>1, <2>1, OtherPhases DEF KeepsPhases
  <2> QED
    BY <1>1, <2>2, SessionKeepsLedger, Stutters
<1> QED
  BY <1>3, <1>4

\* The slot goes back: after a failed Upgrade, or once the session is closed.
LEMMA ReleaseLeaves ==
  ASSUME PhaseInv, PhaseInv', NEW s \in Sessions, Refuse(s) \/ ReleaseSlot(s)
  PROVE  Contract!Leave(s)
<1>1. TypeOK /\ Shape(s) /\ Upgraded(s) /\ SessionNext(s)
  BY DEF PhaseInv, SlotInv, SessionNext
<1>2. CASE Refuse(s)
  <2>1. handler[s] = "failed" /\ handler'[s] = "refused"
    BY <1>1, <1>2 DEF Refuse, TypeOK
  <2>2. Phase(s) \in {"inside", "closed"} /\ Phase(s)' = "left"
    BY <2>1, Phases DEF PhaseTable
  <2> QED
    BY <1>1, <2>2, SessionKeepsLedger, OtherPhases, Moves DEF Contract!Leave
<1>3. CASE ReleaseSlot(s)
  <2>1. /\ handler[s] = "serving" /\ handler'[s] = "serving"
        /\ sup[s] = "release" /\ sup'[s] = "done"
        /\ wt[s] = "closed"
    BY <1>1, <1>3 DEF ReleaseSlot, TypeOK, Shape, Upgraded
  <2>2. Phase(s) \in {"inside", "closed"} /\ Phase(s)' = "left"
    BY <2>1, Phases DEF PhaseTable
  <2> QED
    BY <1>1, <2>2, SessionKeepsLedger, OtherPhases, Moves DEF Contract!Leave
<1> QED
  BY <1>2, <1>3

\* The other steps of an attempt change nothing the contract sees.
LEMMA OthersStutter ==
  ASSUME PhaseInv, PhaseInv', NEW s \in Sessions, SessionNext(s),
         ~(Admit(s) \/ Upgrade(s) \/ PeerCloses(s) \/ PeerLeaves(s)
             \/ CloseWithError(s) \/ Refuse(s) \/ ReleaseSlot(s))
  PROVE  UNCHANGED Contract!contractVars
<1>1. TypeOK /\ Shape(s) /\ Upgraded(s)
  BY DEF PhaseInv, SlotInv
<1> SUFFICES Phase(s)' = Phase(s)
  BY <1>1, SessionKeepsLedger, OtherPhases, Stutters DEF KeepsPhases
<1>2. CASE Connect(s) \/ Decline(s)
  <2>1. /\ handler[s] \in {"idle", "connecting", "declined"}
        /\ handler'[s] \in {"idle", "connecting", "declined"}
    BY <1>1, <1>2 DEF Connect, Decline, TypeOK
  <2> QED
    BY <2>1, Phases DEF PhaseTable
<1>3. CASE UpgradeFails(s)
  <2>1. handler[s] = "upgrading" /\ handler'[s] = "failed"
    BY <1>1, <1>3 DEF UpgradeFails, TypeOK
  <2> QED
    BY <2>1, Phases DEF PhaseTable
<1>4. CASE ServeEcho(s)
  <2>1. /\ handler[s] = "upgraded" /\ handler'[s] = "serving"
        /\ sup[s] = "off" /\ sup'[s] = "select" /\ wt'[s] = wt[s]
    BY <1>1, <1>4 DEF ServeEcho, TypeOK, Shape, wtVars
  <2> QED
    BY <2>1, Phases DEF PhaseTable
<1>5. CASE ~(Connect(s) \/ Decline(s) \/ UpgradeFails(s) \/ ServeEcho(s))
  <2>1. /\ handler'[s] = handler[s] /\ wt'[s] = wt[s]
        /\ sup[s] # "done" <=> sup'[s] # "done"
    BY <1>1, <1>5 DEF SessionNext, TypeOK, wtVars, supVars,
       Handshake, RecordClosed, Expire, TakeStop, TakeDeadline, TakePeerLeft, Cancel, AcceptFails
  <2> QED
    BY <2>1 DEF Phase, Holding
<1> QED
  BY <1>2, <1>3, <1>4, <1>5
LEMMA SessionRefines ==
  ASSUME PhaseInv, PhaseInv', NEW s \in Sessions, SessionNext(s)
  PROVE  [Contract!Next]_(Contract!contractVars)
BY AdmitEnters, UpgradeOpens, ClosingCloses, ReleaseLeaves, OthersStutter DEF Contract!Next

-----------------------------------------------------------------------------
(* A step of a loop, and the clock                                          *)

LEMMA LoopKeepsPhases ==
  ASSUME NEW l \in Loops, LoopNext(l)
  PROVE  KeepsPhases
BY LoopFrame DEF KeepsPhases, Phase, Holding

\* A write puts k bytes on the wire of an open session, within its budget and
\* within the days, or none at all.
LEMMA WriteEchoes ==
  ASSUME PhaseInv, TypeOK', SessionEgress', DailyEgress',
         NEW l \in Loops, LoopNext(l),
         NEW k \in Nat, (Write(l) /\ k = size[l]) \/ WriteFails(l, k)
  PROVE  (\E s \in Sessions : Contract!Echo(s)) \/ UNCHANGED Contract!contractVars
<1> DEFINE s == SessionOf[l]
<1>1. /\ TypeOK /\ s \in Sessions
      /\ sent \in [Sessions -> Nat] /\ egress \in Nat
  BY DEF PhaseInv, SlotInv, TypeOK
<1>2. /\ sent' = [sent EXCEPT ![s] = @ + k]
      /\ egress' = egress + k
      /\ windows' = windows /\ aged' = aged
  BY <1>1 DEF Write, WriteFails, PutOnWire, budgetVars, TypeOK
<1>3. days' = days /\ KeepsPhases
  BY <1>2, LoopKeepsPhases DEF days
<1>4. CASE k = 0
  <2>1. sent' = sent /\ egress' = egress
    BY <1>1, <1>2, <1>4
  <2> QED
    BY <1>3, <2>1, Stutters DEF KeepsLedger
<1>5. CASE k > 0
  <2>1. wt[s] = "open"
    BY <1>5 DEF Write, WriteFails
  <2>2. Phase(s) = "open"
    <3>1. handler[s] \in {"upgraded", "serving"} /\ sup[s] # "done"
      BY <1>1, <2>1 DEF PhaseInv, SlotInv, Shape
    <3> QED
      BY <1>1, <2>1, <3>1, Phases DEF PhaseTable
  <2>3. sent'[s] = sent[s] + k /\ sent[s] \in Nat
    BY <1>1, <1>2
  <2>4. sent'[s] \in sent[s]..Budget(s)
    BY <1>1, <2>3 DEF SessionEgress, Budget
  <2>5. egress' = egress + (sent'[s] - sent[s])
    BY <1>1, <1>2, <2>3
  <2>6. egress' <= days * (DailyEgressCeiling - 1)
    <3>1. egress' <= Allowed(windows + 1) /\ windows \in Nat /\ days \in {windows + 1, windows + 2}
      BY <1>1, <1>2 DEF DailyEgress, Allowed, days, TypeOK, BudgetsTypeOK
    <3>2. /\ Allowed(windows + 1) \in Nat
          /\ Allowed((windows + 1) + 1) = Allowed(windows + 1) + (DailyEgressCeiling - 1)
      BY <3>1, AllowedType, AllowedStep
    <3>3. windows + 2 = (windows + 1) + 1
      BY <3>1
    <3>4. Allowed(windows + 1) <= Allowed(days)
      BY <3>1, <3>2, <3>3
    <3>5. Allowed(days) \in Nat /\ egress' \in Nat
      BY <3>1, AllowedType DEF TypeOK
    <3>6. egress' <= Allowed(days)
      BY <3>1, <3>2, <3>4, <3>5
    <3> QED
      BY <3>6 DEF Allowed
  <2>7. [t \in Sessions |-> Phase(t)]' = [t \in Sessions |-> Phase(t)]
    BY <1>3 DEF KeepsPhases
  <2>8. sent' = [sent EXCEPT ![s] = sent'[s]]
    BY <1>1, <1>2
  <2>9. [t \in Sessions |-> Phase(t)][s] = "open"
    BY <1>1, <2>2
  <2>10. (days * (DailyEgressCeiling - 1))' = days * (DailyEgressCeiling - 1)
    BY <1>3
  <2>11. Contract!Echo(s)
    BY <2>4, <2>5, <2>6, <2>7, <2>8, <2>9, <2>10 DEF Contract!Echo
  <2> QED
    BY <1>1, <2>11
<1> QED
  BY <1>4, <1>5

LEMMA LoopRefines ==
  ASSUME PhaseInv, TypeOK', SessionEgress', DailyEgress', NEW l \in Loops, LoopNext(l)
  PROVE  [Contract!Next]_(Contract!contractVars)
<1>1. TypeOK
  BY DEF PhaseInv, SlotInv
<1>2. CASE Write(l)
  <2>1. size[l] \in Nat
    BY <1>1 DEF TypeOK
  <2> QED
    BY <1>2, <2>1, WriteEchoes DEF Contract!Next
<1>3. CASE \E k \in Chunks \cup {0} : WriteFails(l, k)
  BY <1>3, WriteEchoes DEF Contract!Next
<1>4. CASE ~(Write(l) \/ \E k \in Chunks \cup {0} : WriteFails(l, k))
  <2>1. sent' = sent /\ egress' = egress
    BY <1>4 DEF LoopNext, ledgerVars,
       AcceptStream, ReceiveDatagram, ReceiveFails, Read, ReadFails, Charge,
       Spend, Stop, CloseStream
  <2>2. days' = days
    <3>1. CASE Spend(l)
      BY <1>1, <3>1, RollKeepsDays DEF Spend, spend
    <3>2. CASE ~Spend(l)
      BY <1>4, <3>2 DEF LoopNext, budgetVars, days,
         AcceptStream, ReceiveDatagram, ReceiveFails, Read, ReadFails, Charge,
         Stop, CloseStream
    <3> QED
      BY <3>1, <3>2
  <2> QED
    BY <2>1, <2>2, LoopKeepsPhases, Stutters DEF KeepsLedger
<1> QED
  BY <1>2, <1>3, <1>4

\* The day that passes is the contract's new day.
LEMMA TickRefines ==
  ASSUME TypeOK, Tick
  PROVE  Contract!NewDay
<1>1. /\ handler' = handler /\ sup' = sup /\ wt' = wt
      /\ sent' = sent /\ egress' = egress
  BY DEF Tick, wtVars, supVars, ledgerVars
<1>2. [s \in Sessions |-> Phase(s)]' = [s \in Sessions |-> Phase(s)]
  BY <1>1 DEF Phase, Holding
<1>3. days \in Nat /\ days' = days + 1
  BY DEF Tick, DayPasses, days, TypeOK, BudgetsTypeOK
<1>4. Allowed(days') = Allowed(days) + (DailyEgressCeiling - 1)
  BY <1>3, AllowedStep
<1>5. (days * (DailyEgressCeiling - 1))'
        = days * (DailyEgressCeiling - 1) + (DailyEgressCeiling - 1)
  BY <1>4 DEF Allowed
<1> QED
  BY <1>1, <1>2, <1>5 DEF Contract!NewDay

-----------------------------------------------------------------------------
(* The theorem                                                              *)

LEMMA RefinesInit == Init => Contract!Init
<1> SUFFICES ASSUME Init PROVE Contract!Init
  OBVIOUS
<1>1. \A s \in Sessions : Phase(s) = "outside"
  <2>1. \A s \in Sessions : handler[s] = "idle"
    BY DEF Init
  <2>2. PhaseInv
    BY SlotInvInit DEF Init, PhaseInv, Upgraded
  <2> QED
    BY <2>1, <2>2, Phases DEF PhaseTable
<1>2. sent = [s \in Sessions |-> 0] /\ egress = 0
  BY DEF Init
<1>3. days = 1
  BY DEF Init, BudgetsInit, days
<1>4. days * (DailyEgressCeiling - 1) = DailyEgressCeiling - 1
  BY <1>3
<1> QED
  BY <1>1, <1>2, <1>4 DEF Contract!Init

LEMMA RefinesNext ==
  ASSUME PhaseInv, PhaseInv', SessionEgress', DailyEgress', [Next]_vars
  PROVE  [Contract!Next]_(Contract!contractVars)
<1>1. TypeOK /\ TypeOK'
  BY DEF PhaseInv, SlotInv
<1>2. CASE Tick
  BY <1>1, <1>2, TickRefines DEF Contract!Next
<1>3. CASE \E s \in Sessions : SessionNext(s)
  BY <1>3, SessionRefines
<1>4. CASE \E l \in Loops : LoopNext(l)
  BY <1>1, <1>4, LoopRefines
<1>5. CASE UNCHANGED vars
  <2>1. /\ handler' = handler /\ sup' = sup /\ wt' = wt
        /\ sent' = sent /\ egress' = egress /\ windows' = windows /\ aged' = aged
    BY <1>5 DEF vars, budgetVars, wtVars, supVars, ledgerVars
  <2>2. KeepsLedger /\ KeepsPhases
    BY <2>1 DEF KeepsLedger, KeepsPhases, Phase, Holding, days
  <2> QED
    BY <2>2, Stutters
<1> QED
  BY <1>2, <1>3, <1>4, <1>5 DEF Next

\* Whatever the goroutines do, an attempt enters below its cap and once, echoes
\* only while open and within every allowance, and leaves only once closed.
THEOREM ServerImplementsContract == Spec => ImplementsContract
BY PhaseInvariant, SessionEgressWithinBudget, DailyEgressWithinCeiling,
   RefinesInit, RefinesNext, PTL DEF Spec, ImplementsContract, Contract!Spec
=============================================================================
