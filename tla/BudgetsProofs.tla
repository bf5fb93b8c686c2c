---------------------------- MODULE BudgetsProofs ----------------------------
(***************************************************************************)
(* Lemmas about the accountant and about the bytes it has let through, for *)
(* the proofs of the rungs that share it: EchoServer and RustServer.       *)
(***************************************************************************)
EXTENDS Budgets, FiniteSetTheorems, TLAPS

USE BudgetsAssumption

-----------------------------------------------------------------------------
(* The window                                                               *)

\* roll() keeps the types, with or without a charge of n bytes.
LEMMA RollTypes ==
  ASSUME BudgetsTypeOK
  PROVE  /\ rolledEchoed \in Nat
         /\ rolledWarned \in BOOLEAN
         /\ rolledGranted \in Nat
         /\ rollWindow => aged' \in BOOLEAN /\ windows' \in Nat
         /\ roll => /\ aged' \in BOOLEAN /\ windows' \in Nat /\ echoed' \in Nat
                    /\ warned' \in BOOLEAN /\ granted' \in Nat
<1> USE DEF BudgetsTypeOK
<1>1. rolledEchoed \in Nat /\ rolledGranted \in Nat
  BY DEF rolledEchoed, rolledGranted
<1>2. rolledWarned \in BOOLEAN
  BY Zenon DEF rolledWarned
<1>3. rollWindow => aged' \in BOOLEAN
  BY Zenon DEF rollWindow
<1>4. rollWindow => windows' \in Nat
  BY DEF rollWindow
<1> QED
  BY <1>1, <1>2, <1>3, <1>4 DEF roll

\* The types after a charge.
LEMMA SpendTypes ==
  ASSUME BudgetsTypeOK, NEW n \in Nat, spend(n)
  PROVE  BudgetsTypeOK'
<1>1. warned' \in BOOLEAN
  BY Zenon DEF spend
<1> QED
  BY <1>1, RollTypes DEF spend, BudgetsTypeOK

\* The ceiling was reached in this window, or there was an earlier one.
CeilingSeen == windows > 0 \/ echoed >= DailyEgressCeiling

\* roll() forgets the total of the day only by opening another window.
LEMMA RollKeepsCeilingSeen ==
  ASSUME BudgetsTypeOK, CeilingSeen, rollWindow, echoed' \in Nat, echoed' >= rolledEchoed
  PROVE  CeilingSeen'
<1>1. windows \in Nat /\ echoed \in Nat
  BY DEF BudgetsTypeOK
<1>2. CASE aged
  BY <1>1, <1>2 DEF CeilingSeen, rollWindow
<1>3. CASE ~aged
  BY <1>1, <1>3 DEF CeilingSeen, rollWindow, rolledEchoed
<1> QED
  BY <1>2, <1>3

-----------------------------------------------------------------------------
(* What the windows allow                                                   *)

\* What w windows may grant.
Allowed(w) == w * (DailyEgressCeiling - 1)

LEMMA AllowedType == \A w \in Nat : Allowed(w) \in Nat
<1> SUFFICES ASSUME NEW w \in Nat PROVE w * (DailyEgressCeiling - 1) \in Nat
  BY DEF Allowed
<1>1. DailyEgressCeiling - 1 \in Nat
  OBVIOUS
<1> QED
  BY <1>1

LEMMA AllowedStep == \A w \in Nat : Allowed(w + 1) = Allowed(w) + (DailyEgressCeiling - 1)
<1> SUFFICES ASSUME NEW w \in Nat, NEW d \in Nat, d = DailyEgressCeiling - 1
             PROVE  (w + 1) * d = w * d + d
  BY DEF Allowed
<1> QED
  OBVIOUS

\* What was granted in the window was charged in it, and is below the ceiling:
\* spend() answers true only while the total, which counts refused bytes too,
\* is below.
GrantsFit ==
  /\ granted <= echoed
  /\ granted <= DailyEgressCeiling - 1

\* The window stays or rolls over, and n bytes are granted in it.
Grants(n) ==
  /\ rollWindow
  /\ granted' = rolledGranted + n
  /\ GrantsFit'

\* The window stays and grants nothing.
KeepsWindow == granted' = granted /\ echoed' = echoed /\ windows' = windows

\* roll() alone, as in acquire(), grants nothing.
LEMMA RollGrants ==
  ASSUME BudgetsTypeOK, GrantsFit, roll
  PROVE  Grants(0)
BY DEF roll, Grants, GrantsFit, rolledGranted, rolledEchoed, BudgetsTypeOK

\* spend(n) grants n bytes or none.
LEMMA SpendGrants ==
  ASSUME BudgetsTypeOK, GrantsFit, NEW n \in Nat, spend(n)
  PROVE  Grants(IF maySpend(n) THEN n ELSE 0)
<1>1. /\ rolledGranted \in Nat /\ rolledEchoed \in Nat
      /\ rolledGranted <= rolledEchoed /\ rolledGranted <= DailyEgressCeiling - 1
      /\ rollWindow /\ echoed' = rolledEchoed + n
  BY DEF GrantsFit, rolledGranted, rolledEchoed, BudgetsTypeOK, spend
<1>2. CASE maySpend(n)
  BY <1>1, <1>2 DEF spend, maySpend, Grants, GrantsFit
<1>3. CASE ~maySpend(n)
  BY <1>1, <1>3 DEF spend, Grants, GrantsFit
<1> QED
  BY <1>2, <1>3

\* Granting n more bytes, in this window or the next, makes room for them.
LEMMA GrantsRoom ==
  ASSUME BudgetsTypeOK, GrantsFit, granted' \in Nat, NEW n \in Nat, Grants(n)
  PROVE  Allowed(windows) + granted + n <= Allowed(windows') + granted'
<1>1. /\ granted \in Nat /\ windows \in Nat /\ Allowed(windows) \in Nat
      /\ Allowed(windows + 1) = Allowed(windows) + (DailyEgressCeiling - 1)
  BY AllowedType, AllowedStep DEF BudgetsTypeOK
<1>2. CASE aged
  <2>1. windows' = windows + 1 /\ granted' = n
    BY <1>2 DEF Grants, rollWindow, rolledGranted
  <2> QED
    BY <1>1, <2>1 DEF GrantsFit
<1>3. CASE ~aged
  <2>1. windows' = windows /\ granted' = granted + n
    BY <1>3 DEF Grants, rollWindow, rolledGranted
  <2> QED
    BY <1>1, <2>1
<1> QED
  BY <1>2, <1>3

-----------------------------------------------------------------------------
(* The bytes in the buffers of finitely many tasks, one pair                *)
(* <<task, position>> each, so that counting them adds the sizes up.        *)

Bytes(L, sz) == {b \in L \X Nat : b[2] \in 1..sz[b[1]]}
BytesIn(L, sz) == Cardinality(Bytes(L, sz))

\* Every task of L has a number of bytes in its buffer.
Sized(L, sz) == \A l \in L : sz[l] \in Nat

\* No task buffers nothing.
LEMMA NoBytes == \A sz : BytesIn({}, sz) = 0
<1>1. \A sz : Bytes({}, sz) = {}
  BY DEF Bytes
<1> QED
  BY <1>1, FS_EmptySet DEF BytesIn

\* The buffer of one task holds sz[l] bytes.
LEMMA OneBuffer ==
  ASSUME NEW l, NEW n \in Nat
  PROVE  /\ IsFiniteSet({l} \X (1..n))
         /\ Cardinality({l} \X (1..n)) = n
<1>1. IsFiniteSet({l}) /\ Cardinality({l}) = 1
  BY FS_Singleton
<1>2. IsFiniteSet(1..n) /\ Cardinality(1..n) = n
  BY FS_Interval
<1>3. /\ IsFiniteSet({l} \X (1..n))
      /\ Cardinality({l} \X (1..n)) = Cardinality({l}) * Cardinality(1..n)
  BY <1>1, <1>2, FS_Product
<1> QED
  BY <1>1, <1>2, <1>3

\* Finitely many tasks buffer finitely many bytes.
LEMMA BytesFinite ==
  ASSUME NEW L, NEW sz, IsFiniteSet(L), Sized(L, sz)
  PROVE  IsFiniteSet(Bytes(L, sz)) /\ BytesIn(L, sz) \in Nat
<1> DEFINE buffer == [l \in L |-> {l} \X (1..sz[l])]
           buffers == {buffer[l] : l \in L}
<1>1. buffer \in Surjection(L, buffers)
  BY DEF Surjection
<1>2. IsFiniteSet(buffers)
  BY <1>1, FS_Surjection
<1>3. \A B \in buffers : IsFiniteSet(B)
  <2> SUFFICES ASSUME NEW l \in L PROVE IsFiniteSet({l} \X (1..sz[l]))
    OBVIOUS
  <2> QED
    BY OneBuffer DEF Sized
<1>4. IsFiniteSet(UNION buffers)
  BY <1>2, <1>3, FS_UNION
<1>5. Bytes(L, sz) \subseteq UNION buffers
  BY DEF Bytes
<1>6. IsFiniteSet(Bytes(L, sz))
  BY <1>4, <1>5, FS_Subset
<1> QED
  BY <1>6, FS_CardinalityType DEF BytesIn

\* Only the buffers of the tasks in L count.
LEMMA BytesFrame ==
  ASSUME NEW L, NEW sz, NEW tz, \A l \in L : tz[l] = sz[l]
  PROVE  BytesIn(L, tz) = BytesIn(L, sz)
<1>1. Bytes(L, tz) = Bytes(L, sz)
  BY DEF Bytes
<1> QED
  BY <1>1 DEF BytesIn

\* One task more buffers its own bytes more.
LEMMA BytesAdd ==
  ASSUME NEW L, NEW sz, IsFiniteSet(L), Sized(L, sz), NEW l, l \notin L, sz[l] \in Nat
  PROVE  BytesIn(L \cup {l}, sz) = BytesIn(L, sz) + sz[l]
<1> DEFINE own == {l} \X (1..sz[l])
<1>1. Bytes(L \cup {l}, sz) = Bytes(L, sz) \cup own
  BY DEF Bytes
<1>2. Bytes(L, sz) \cap own = {}
  BY DEF Bytes
<1>3. IsFiniteSet(own) /\ Cardinality(own) = sz[l]
  BY OneBuffer
<1>4. IsFiniteSet(Bytes(L, sz)) /\ BytesIn(L, sz) \in Nat
  BY BytesFinite
<1>5. Cardinality(Bytes(L, sz) \cup own)
        = Cardinality(Bytes(L, sz)) + Cardinality(own) - Cardinality(Bytes(L, sz) \cap own)
  BY <1>3, <1>4, FS_Union
<1>6. Cardinality(Bytes(L, sz) \cap own) = 0
  BY <1>2, FS_EmptySet
<1> HIDE DEF own
<1>7. /\ BytesIn(L \cup {l}, sz) = Cardinality(Bytes(L, sz) \cup own)
      /\ BytesIn(L, sz) = Cardinality(Bytes(L, sz))
  BY <1>1 DEF BytesIn
<1> QED
  BY <1>3, <1>4, <1>5, <1>6, <1>7

\* Tasks that stop waiting to write, without writing, leave what is buffered
\* at most what it was.
LEMMA BytesDropped ==
  ASSUME NEW L, NEW sz, IsFiniteSet(L), Sized(L, sz),
         NEW M \in SUBSET L, NEW tz, \A l \in M : tz[l] = sz[l]
  PROVE  /\ IsFiniteSet(M) /\ Sized(M, tz)
         /\ BytesIn(M, tz) \in Nat /\ BytesIn(M, tz) <= BytesIn(L, sz)
<1>1. BytesIn(M, tz) = BytesIn(M, sz)
  BY BytesFrame
<1>2. IsFiniteSet(M) /\ Sized(M, sz) /\ Sized(M, tz)
  BY FS_Subset DEF Sized
<1>3. BytesIn(M, sz) \in Nat
  BY <1>2, BytesFinite
<1>4. Bytes(M, sz) \subseteq Bytes(L, sz)
  BY DEF Bytes
<1>5. BytesIn(M, sz) <= BytesIn(L, sz)
  BY <1>4, BytesFinite, FS_Subset DEF BytesIn
<1> QED
  BY <1>1, <1>2, <1>3, <1>5

\* A task that stops waiting takes its own bytes along.
LEMMA BytesTaken ==
  ASSUME NEW L, NEW sz, IsFiniteSet(L), Sized(L, sz),
         NEW l \in L, NEW tz, \A m \in L \ {l} : tz[m] = sz[m]
  PROVE  /\ IsFiniteSet(L \ {l}) /\ Sized(L \ {l}, tz)
         /\ BytesIn(L \ {l}, tz) \in Nat
         /\ BytesIn(L, sz) = BytesIn(L \ {l}, tz) + sz[l]
<1> DEFINE M == L \ {l}
<1>1. IsFiniteSet(M) /\ Sized(M, sz) /\ Sized(M, tz) /\ sz[l] \in Nat
  BY FS_Subset DEF Sized
<1>2. BytesIn(M, tz) = BytesIn(M, sz) /\ BytesIn(M, sz) \in Nat
  BY <1>1, BytesFrame, BytesFinite
<1>3. BytesIn(M \cup {l}, sz) = BytesIn(M, sz) + sz[l]
  BY <1>1, BytesAdd
<1>4. M \cup {l} = L
  OBVIOUS
<1> QED
  BY <1>1, <1>2, <1>3, <1>4
=============================================================================
