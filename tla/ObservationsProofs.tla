-------------------------- MODULE ObservationsProofs --------------------------
(***************************************************************************)
(* What the page may say of an attempt, for any number of attempts and of  *)
(* listener processes, and any ceiling: whatever fails, a verdict is wrong *)
(* by no more than the rows its own attempt lost, and where nothing is     *)
(* lost it is the one the attempt's record gives.                          *)
(***************************************************************************)
EXTENDS Observations, FiniteSetTheorems, TLAPS

USE ObservationsAssumption

-----------------------------------------------------------------------------
(* Type correctness                                                         *)

LEMMA AtType == \A a \in Attempts : At(a) \in Processes
BY DEF At

LEMMA VerdictType ==
  ASSUME NEW kinds, NEW result
  PROVE  VerdictFor(kinds, result) \in Verdicts
BY DEF VerdictFor, Silence, Verdicts

LEMMA LoseTypes ==
  ASSUME TypeOK, NEW rows \in SUBSET Rows, Lose(rows)
  PROVE  lost' \in [Attempts -> SUBSET Kinds]
<1>1. \A row \in rows : row.kind \in Kinds
  BY DEF Rows
<1> QED
  BY <1>1 DEF Lose, TypeOK

LEMMA StampTypes ==
  ASSUME TypeOK, NEW a \in Attempts, NEW kind \in Kinds, Stamp(a, kind)
  PROVE  own' \in [Attempts -> SUBSET Kinds] /\ pending' \in [Attempts -> SUBSET Rows]
<1>1. [by |-> a, kind |-> kind, at |-> clock] \in Rows
  BY DEF TypeOK, Rows
<1> QED
  BY <1>1 DEF TypeOK, Stamp

LEMMA AdvanceTypes ==
  ASSUME TypeOK, NEW a \in Attempts, NEW kind \in Kinds, NEW from,
         NEW to \in {"quic", "connect", "declined", "refused", "session"},
         Advance(a, from, to, kind)
  PROVE  TypeOK'
<1>1. own' \in [Attempts -> SUBSET Kinds] /\ pending' \in [Attempts -> SUBSET Rows]
  BY StampTypes DEF Advance
<1> QED
  BY <1>1 DEF TypeOK, Advance, fileVars, askVars

LEMMA ServerTypes ==
  ASSUME TypeOK, NEW a \in Attempts,
         Arrive(a) \/ Connect(a) \/ Decline(a) \/ Refuse(a) \/ SessionOpened(a)
           \/ Reach(a) \/ Upgrade(a) \/ ConnectionGone(a)
  PROVE  TypeOK'
<1>1. CASE Reach(a) \/ Upgrade(a)
  BY <1>1 DEF Reach, Upgrade, TypeOK, givenVars, fileVars, askVars
<1>2. CASE ConnectionGone(a)
  <2>1. own' \in [Attempts -> SUBSET Kinds] /\ pending' \in [Attempts -> SUBSET Rows]
    BY <1>2, StampTypes DEF ConnectionGone, Kinds
  <2> QED
    BY <1>2, <2>1 DEF ConnectionGone, TypeOK, fileVars, askVars
<1>3. {"quic", "connect", "declined", "refused", "session"} \subseteq Kinds
  BY DEF Kinds
<1> QED
  BY <1>1, <1>2, <1>3, AdvanceTypes DEF Arrive, Connect, Decline, Refuse, SessionOpened

LEMMA FileTypes ==
  ASSUME TypeOK, NEW a \in Attempts, NEW row \in pending[a],
         Append(a, row) \/ AppendFails(a, row)
  PROVE  TypeOK'
<1>1. /\ At(a) \in Processes /\ row \in Rows /\ pending[a] \subseteq Rows
      /\ file \in [Processes -> SUBSET Rows] /\ Kept(At(a)) \subseteq Rows
  BY AtType DEF TypeOK, Kept
<1>2. size[At(a)] \in 0..Ceiling /\ torn[At(a)] \in BOOLEAN
  BY <1>1 DEF TypeOK
<1>3. CASE Append(a, row)
  <2>1. pending' \in [Attempts -> SUBSET Rows] /\ file' \in [Processes -> SUBSET Rows]
    BY <1>1, <1>3 DEF Append, TypeOK
  <2>2. size' \in [Processes -> 0..Ceiling]
    <3>1. (IF Rolls(At(a)) THEN 0 ELSE size[At(a)]) + 1 \in 0..Ceiling
      BY <1>2 DEF Rolls
    <3> QED
      BY <1>3, <3>1 DEF Append, TypeOK
  <2>3. torn' \in [Processes -> BOOLEAN]
    BY <1>3 DEF Append, TypeOK
  <2>4. lost' \in [Attempts -> SUBSET Kinds]
    BY <1>1, <1>3, LoseTypes DEF Append, Rolled
  <2> QED
    BY <1>3, <2>1, <2>2, <2>3, <2>4 DEF Append, TypeOK, askVars
<1>4. CASE AppendFails(a, row)
  <2>1. pending' \in [Attempts -> SUBSET Rows] /\ file' \in [Processes -> SUBSET Rows]
    BY <1>1, <1>4 DEF AppendFails, TypeOK
  <2>2. size' \in [Processes -> 0..Ceiling]
    <3>1. (IF Rolls(At(a)) THEN 0 ELSE size[At(a)]) \in 0..Ceiling
      BY <1>2
    <3> QED
      BY <1>4, <3>1 DEF AppendFails, TypeOK
  <2>3. torn' \in [Processes -> BOOLEAN]
    <3>1. (torn[At(a)] /\ ~Rolls(At(a))) \in BOOLEAN
      BY Zenon
    <3> QED
      BY <1>4, <3>1 DEF AppendFails, TypeOK
  <2>4. faults' \in 0..MaxFaults
    BY <1>4 DEF AppendFails, Fault, TypeOK
  <2>5. lost' \in [Attempts -> SUBSET Kinds]
    BY <1>1, <1>4, LoseTypes DEF AppendFails, Rolled
  <2> QED
    BY <1>4, <2>1, <2>2, <2>3, <2>4, <2>5 DEF AppendFails, TypeOK, askVars
<1> QED
  BY <1>3, <1>4

LEMMA RestartTypes ==
  ASSUME TypeOK, NEW p \in Processes, Restart(p)
  PROVE  TypeOK'
<1>1. faults' \in 0..MaxFaults
  BY DEF Restart, Fault, TypeOK
<1>2. lost' \in [Attempts -> SUBSET Kinds]
  <2>1. file[p] \cup UNION {pending[a] : a \in {b \in Attempts : At(b) = p}} \subseteq Rows
    BY DEF TypeOK
  <2> QED
    BY <2>1, LoseTypes DEF Restart
<1> QED
  BY <1>1, <1>2 DEF Restart, TypeOK, askVars

LEMMA PageTypes ==
  ASSUME TypeOK, NEW a \in Attempts,
         \/ Dial(a) \/ Ask(a) \/ Show(a) \/ Unanswered(a)
         \/ \E result \in {"ready", "failed"} : Ends(a, result)
         \/ \E p \in Processes : ReadFile(a, p)
  PROVE  TypeOK'
<1> USE DEF serverVars, fileVars, askVars
<1>1. CASE Dial(a)
  BY <1>1 DEF Dial, TypeOK
<1>2. CASE \E result \in {"ready", "failed"} : Ends(a, result)
  BY <1>2 DEF Ends, TypeOK
<1>3. CASE Ask(a)
  <2>1. lost' \in [Attempts -> SUBSET Kinds]
    BY <1>3, LoseTypes DEF Ask, TypeOK
  <2> QED
    BY <1>3, <2>1 DEF Ask, TypeOK
<1>4. CASE Show(a)
  <2>1. VerdictFor(KindsShown(a, events[a]), outcome[a]) \in Verdicts
    BY VerdictType
  <2> QED
    BY <1>4, <2>1 DEF Show, TypeOK
<1>5. CASE Unanswered(a)
  BY <1>5 DEF Unanswered, Fault, TypeOK
<1>6. CASE \E p \in Processes : ReadFile(a, p)
  BY <1>6 DEF ReadFile, TypeOK
<1> QED
  BY <1>1, <1>2, <1>3, <1>4, <1>5, <1>6

LEMMA TypesStep == TypeOK /\ [Next]_vars => TypeOK'
<1> SUFFICES ASSUME TypeOK, [Next]_vars PROVE TypeOK'
  OBVIOUS
<1>1. CASE Tick
  BY <1>1 DEF Tick, TypeOK, serverVars, fileVars, askVars
<1>2. CASE UNCHANGED vars
  BY <1>2 DEF vars, TypeOK, serverVars, fileVars, askVars
<1> QED
  BY <1>1, <1>2, ServerTypes, FileTypes, RestartTypes, PageTypes DEF Next, AttemptNext

LEMMA TypesInit == Init => TypeOK
BY DEF Init, TypeOK

\* Every variable keeps its type: a file never grows past its ceiling, nor the
\* clock or the faults past their bounds.
THEOREM TypeCorrect == Spec => []TypeOK
BY TypesInit, TypesStep, PTL DEF Spec

-----------------------------------------------------------------------------
(* Where rows come from and where they go                                   *)

\* Wherever a row is, it tells what happened to the attempt it names; a file
\* holds rows of its own process, and a page reads rows of its own address.
HonestRows ==
  /\ \A a \in Attempts : lost[a] \subseteq own[a]
  /\ \A a \in Attempts : \A row \in pending[a] : row.by = a /\ row.kind \in own[a]
  /\ \A p \in Processes : \A row \in file[p] : At(row.by) = p /\ row.kind \in own[row.by]
  /\ \A a \in Attempts : \A row \in events[a] :
       ClientOf[row.by] = ClientOf[a] /\ row.kind \in own[row.by]

\* Rows come from a handler, go to a file and from there to a page.
RowsMove ==
  /\ \A a \in Attempts : own[a] \subseteq own'[a]
  /\ \A a \in Attempts : \A row \in pending'[a] :
       row \in pending[a] \/ (row.by = a /\ row.kind \in own'[a])
  /\ \A p \in Processes : \A row \in file'[p] :
       row \in file[p] \/ \E a \in Attempts : At(a) = p /\ row \in pending[a]
  /\ \A a \in Attempts : \A row \in events'[a] :
       \/ row \in events[a]
       \/ ClientOf[row.by] = ClientOf[a] /\ \E p \in Processes : row \in file[p]
  /\ \A a \in Attempts : \A kind \in lost'[a] :
       \/ kind \in lost[a] \/ kind \in before[a]
       \/ \E p \in Processes : \E row \in file[p] : row.by = a /\ row.kind = kind
       \/ \E b \in Attempts : \E row \in pending[b] : row.by = a /\ row.kind = kind

\* What a page asks about was in the record when it asked.
AskedFirst == \A a \in Attempts : before[a] \subseteq own[a]

RecordInv == TypeOK /\ HonestRows /\ AskedFirst

LEMMA StampMoves ==
  ASSUME TypeOK, NEW a \in Attempts, NEW kind \in Kinds, Stamp(a, kind),
         UNCHANGED <<file, events, lost>>
  PROVE  RowsMove
<1>1. own[a] \subseteq own'[a] /\ kind \in own'[a]
  BY DEF Stamp, TypeOK
<1>2. \A b \in Attempts \ {a} : own'[b] = own[b] /\ pending'[b] = pending[b]
  BY DEF Stamp, TypeOK
<1>3. \A row \in pending'[a] : row \in pending[a] \/ (row.by = a /\ row.kind = kind)
  BY DEF Stamp, TypeOK
<1> QED
  BY <1>1, <1>2, <1>3 DEF RowsMove

\* A row is lost only from where it was.
LEMMA LoseMoves ==
  ASSUME NEW rows, Lose(rows),
         \A row \in rows : \/ \E p \in Processes : row \in file[p]
                           \/ \E b \in Attempts : row \in pending[b]
  PROVE  \A a \in Attempts : \A kind \in lost'[a] :
           \/ kind \in lost[a]
           \/ \E p \in Processes : \E row \in file[p] : row.by = a /\ row.kind = kind
           \/ \E b \in Attempts : \E row \in pending[b] : row.by = a /\ row.kind = kind
BY DEF Lose

LEMMA AttemptMoves ==
  ASSUME TypeOK, NEW a \in Attempts, AttemptNext(a)
  PROVE  RowsMove
<1> USE DEF serverVars, givenVars, fileVars, askVars
<1>1. CASE Arrive(a) \/ Connect(a) \/ Decline(a) \/ Refuse(a) \/ SessionOpened(a)
           \/ ConnectionGone(a)
  <2>1. PICK kind \in Kinds : Stamp(a, kind) /\ UNCHANGED <<file, events, lost>>
    BY <1>1 DEF Arrive, Connect, Decline, Refuse, SessionOpened, ConnectionGone, Advance, Kinds
  <2> QED
    BY <2>1, StampMoves
<1>2. CASE Unanswered(a)
  BY <1>2 DEF Unanswered, RowsMove, TypeOK
<1>3. ASSUME NEW row \in pending[a], Append(a, row) \/ AppendFails(a, row)
      PROVE  RowsMove
  <2>1. /\ pending' = [pending EXCEPT ![a] = @ \ {row}]
        /\ UNCHANGED <<own, events>>
    BY <1>3 DEF Append, AppendFails
  <2>2. file'[At(a)] \subseteq file[At(a)] \cup {row}
    BY <1>3, AtType DEF Append, AppendFails, TypeOK, Kept
  <2>3. \A p \in Processes \ {At(a)} : file'[p] = file[p]
    BY <1>3, AtType DEF Append, AppendFails, TypeOK
  <2>4. \E rows \in SUBSET (file[At(a)] \cup {row}) : Lose(rows)
    BY <1>3 DEF Append, AppendFails, Rolled
  <2>5. \A b \in Attempts : \A kind \in lost'[b] :
           \/ kind \in lost[b]
           \/ \E p \in Processes : \E r \in file[p] : r.by = b /\ r.kind = kind
           \/ \E c \in Attempts : \E r \in pending[c] : r.by = b /\ r.kind = kind
    BY <2>4, AtType, LoseMoves
  <2> QED
    BY <2>1, <2>2, <2>3, <2>5 DEF RowsMove, TypeOK
<1>4. ASSUME NEW p \in Processes, ReadFile(a, p)
      PROVE  RowsMove
  BY <1>4 DEF ReadFile, RowsMove, TypeOK, Asked
<1>5. CASE Reach(a) \/ Upgrade(a) \/ Dial(a) \/ Show(a) \/ \E result \in {"ready", "failed"} : Ends(a, result)
  BY <1>5 DEF Reach, Upgrade, Dial, Show, Ends, RowsMove, TypeOK
<1>6. CASE Ask(a)
  BY <1>6, LoseMoves DEF Ask, RowsMove
<1> QED
  BY <1>1, <1>2, <1>3, <1>4, <1>5, <1>6 DEF AttemptNext

LEMMA RecordMoves == TypeOK /\ [Next]_vars => RowsMove
<1> SUFFICES ASSUME TypeOK, [Next]_vars PROVE RowsMove
  OBVIOUS
<1>1. ASSUME NEW p \in Processes, Restart(p)
      PROVE  RowsMove
  <2>1. \A a \in Attempts : \A kind \in lost'[a] :
           \/ kind \in lost[a]
           \/ \E q \in Processes : \E row \in file[q] : row.by = a /\ row.kind = kind
           \/ \E b \in Attempts : \E row \in pending[b] : row.by = a /\ row.kind = kind
    BY <1>1, LoseMoves DEF Restart
  <2> QED
    BY <1>1, <2>1 DEF Restart, RowsMove, TypeOK, askVars
<1>2. CASE Tick \/ UNCHANGED vars
  BY <1>2 DEF Tick, vars, RowsMove, serverVars, fileVars, askVars
<1> QED
  BY <1>1, <1>2, AttemptMoves DEF Next

LEMMA HonestStep ==
  ASSUME TypeOK, HonestRows, AskedFirst, RowsMove
  PROVE  HonestRows'
<1>1. \A p \in Processes : \A row \in file[p] : row.by \in Attempts
  BY DEF TypeOK, Rows
<1>2. \A a \in Attempts : \A row \in events[a] : row.by \in Attempts
  BY DEF TypeOK, Rows
<1>3. \A a \in Attempts : \A row \in pending'[a] : row.by = a /\ row.kind \in own'[a]
  BY DEF HonestRows, RowsMove
<1>4. \A p \in Processes : \A row \in file'[p] : At(row.by) = p /\ row.kind \in own'[row.by]
  BY <1>1 DEF HonestRows, RowsMove
<1>5. \A a \in Attempts : \A row \in events'[a] :
        ClientOf[row.by] = ClientOf[a] /\ row.kind \in own'[row.by]
  BY <1>1, <1>2 DEF HonestRows, RowsMove
<1>6. \A a \in Attempts : lost'[a] \subseteq own'[a]
  BY DEF HonestRows, AskedFirst, RowsMove
<1> QED
  BY <1>3, <1>4, <1>5, <1>6 DEF HonestRows, At

LEMMA AskedFirstStep ==
  ASSUME TypeOK, AskedFirst, RowsMove, [Next]_vars
  PROVE  AskedFirst'
<1>1. \A a \in Attempts : before'[a] \in {before[a], own[a], {}}
  <2>1. ASSUME NEW a \in Attempts, Ask(a) \/ Show(a)
        PROVE  \A b \in Attempts : before'[b] \in {before[b], own[b], {}}
    BY <2>1 DEF Ask, Show, TypeOK
  <2>2. CASE ~\E a \in Attempts : Ask(a) \/ Show(a)
    <3>1. before' = before
      BY <2>2 DEF Next, AttemptNext, Tick, Restart, Dial, Reach, Arrive, Connect, Decline, Refuse,
         Upgrade, SessionOpened, ConnectionGone, Advance, Append, AppendFails, Ends, ReadFile,
         Unanswered, vars, askVars
    <3> QED
      BY <3>1
  <2> QED
    BY <2>1, <2>2
<1> QED
  BY <1>1 DEF AskedFirst, RowsMove

LEMMA RecordStep == RecordInv /\ [Next]_vars => RecordInv'
BY TypesStep, RecordMoves, HonestStep, AskedFirstStep DEF RecordInv

LEMMA RecordInit == Init => RecordInv
BY TypesInit DEF Init, RecordInv, HonestRows, AskedFirst

-----------------------------------------------------------------------------
(* A verdict is wrong by what was lost                                      *)

\* Every port is served by a process that keeps a record.
KeepsRecords == \A a \in Attempts : At(a) \in Writers

Row(a, kind, row) == row.by = a /\ row.kind = kind

\* Each kind an attempt was given has a row of its own, pending or in the file
\* of its process, unless it was lost.
OnRecord(a) ==
  \A kind \in own[a] \ lost[a] :
    (\E row \in pending[a] : row.kind = kind) \/ (\E row \in file[At(a)] : Row(a, kind, row))

\* What the page asked about is in the file, and in the answer once it is read.
Answering(a) ==
  page[a] = "asking" =>
    \A kind \in before[a] \ lost[a] : \E row \in file[At(a)] :
      Row(a, kind, row) /\ (At(a) \in unread[a] \/ row \in events[a])

KeptInv == RecordInv /\ KeepsRecords /\ \A a \in Attempts : OnRecord(a) /\ Answering(a)

\* No row leaves the record but by being lost.
RowsAccounted ==
  /\ \A a \in Attempts : lost[a] \subseteq lost'[a]
  /\ \A a \in Attempts : \A kind \in own'[a] \ own[a] : \E row \in pending'[a] : row.kind = kind
  /\ \A a \in Attempts : \A row \in pending[a] :
       row \in pending'[a] \/ row \in file'[At(a)] \/ row.kind \in lost'[a]
  /\ \A p \in Processes : \A row \in file[p] : row \in file'[p] \/ row.kind \in lost'[row.by]

LEMMA LoseGrows ==
  ASSUME TypeOK, NEW rows, Lose(rows)
  PROVE  /\ \A a \in Attempts : lost[a] \subseteq lost'[a]
         /\ \A row \in rows : row.by \in Attempts => row.kind \in lost'[row.by]
BY DEF Lose, TypeOK

LEMMA StampAccounted ==
  ASSUME TypeOK, KeepsRecords, NEW a \in Attempts, NEW kind, Stamp(a, kind), UNCHANGED <<file, lost>>
  PROVE  RowsAccounted
<1>1. /\ \A b \in Attempts \ {a} : own'[b] = own[b] /\ pending'[b] = pending[b]
      /\ own'[a] = own[a] \cup {kind}
      /\ pending'[a] = pending[a] \cup {[by |-> a, kind |-> kind, at |-> clock]}
  BY DEF Stamp, TypeOK, KeepsRecords
<1>2. \A k \in own'[a] \ own[a] : \E row \in pending'[a] : row.kind = k
  <2> SUFFICES \E row \in pending'[a] : row.kind = kind
    BY <1>1
  <2>1. [by |-> a, kind |-> kind, at |-> clock] \in pending'[a]
    BY <1>1
  <2> QED
    BY <2>1
<1> QED
  BY <1>1, <1>2 DEF RowsAccounted

LEMMA FileAccounted ==
  ASSUME TypeOK, HonestRows, NEW a \in Attempts, NEW row \in pending[a],
         Append(a, row) \/ AppendFails(a, row)
  PROVE  RowsAccounted
<1>1. /\ own' = own /\ At(a) \in Processes /\ row.by = a
      /\ \A b \in Attempts \ {a} : pending'[b] = pending[b]
      /\ pending'[a] = pending[a] \ {row}
      /\ \A p \in Processes \ {At(a)} : file'[p] = file[p]
  BY AtType DEF Append, AppendFails, TypeOK, HonestRows
<1>2. \A r \in file[At(a)] : r.by \in Attempts
  BY <1>1 DEF TypeOK, Rows
<1>3. Kept(At(a)) \cup Rolled(At(a)) = file[At(a)] /\ Kept(At(a)) \subseteq file'[At(a)]
  <2>1. Kept(At(a)) \cup Rolled(At(a)) = file[At(a)]
    BY DEF Kept, Rolled
  <2>2. CASE Append(a, row)
    BY <1>1, <2>1, <2>2 DEF Append, Kept, TypeOK
  <2>3. CASE AppendFails(a, row)
    BY <1>1, <2>1, <2>3 DEF AppendFails, TypeOK
  <2> QED
    BY <2>1, <2>2, <2>3
<1>4. /\ \A b \in Attempts : lost[b] \subseteq lost'[b]
      /\ \A r \in Rolled(At(a)) : r.kind \in lost'[r.by]
      /\ row \in file'[At(a)] \/ row.kind \in lost'[a]
  <2>1. CASE Append(a, row)
    <3>1. /\ \A b \in Attempts : lost[b] \subseteq lost'[b]
          /\ \A r \in Rolled(At(a)) \cup IF torn[At(a)] THEN {row} ELSE {} :
               r.by \in Attempts => r.kind \in lost'[r.by]
      BY <2>1, LoseGrows DEF Append
    <3>2. ~torn[At(a)] => row \in file'[At(a)]
      BY <1>1, <2>1 DEF Append, TypeOK
    <3> QED
      BY <1>1, <1>2, <1>3, <3>1, <3>2
  <2>2. CASE AppendFails(a, row)
    <3>1. /\ \A b \in Attempts : lost[b] \subseteq lost'[b]
          /\ \A r \in Rolled(At(a)) \cup {row} : r.by \in Attempts => r.kind \in lost'[r.by]
      BY <2>2, LoseGrows DEF AppendFails
    <3> QED
      BY <1>1, <1>2, <1>3, <3>1
  <2> QED
    BY <2>1, <2>2
<1> QED
  BY <1>1, <1>3, <1>4 DEF RowsAccounted

LEMMA RestartAccounted ==
  ASSUME TypeOK, HonestRows, NEW p \in Processes, Restart(p)
  PROVE  RowsAccounted
<1> DEFINE gone == file[p] \cup UNION {pending[a] : a \in {b \in Attempts : At(b) = p}}
<1>1. /\ \A a \in Attempts : lost[a] \subseteq lost'[a]
      /\ \A row \in gone : row.by \in Attempts => row.kind \in lost'[row.by]
  BY LoseGrows DEF Restart
<1>2. /\ own' = own
      /\ \A q \in Processes \ {p} : file'[q] = file[q]
      /\ \A a \in Attempts : At(a) # p => pending'[a] = pending[a]
  BY DEF Restart, TypeOK
<1>3. \A row \in file[p] : row.by \in Attempts
  BY DEF TypeOK, Rows
<1>4. \A a \in Attempts : \A row \in pending[a] : row.by = a
  BY DEF HonestRows
<1> QED
  BY <1>1, <1>2, <1>3, <1>4 DEF RowsAccounted

LEMMA Accounted ==
  ASSUME TypeOK, HonestRows, KeepsRecords, [Next]_vars
  PROVE  RowsAccounted
<1>1. ASSUME NEW a \in Attempts,
             Arrive(a) \/ Connect(a) \/ Decline(a) \/ Refuse(a) \/ SessionOpened(a) \/ ConnectionGone(a)
      PROVE  RowsAccounted
  <2>1. PICK kind : Stamp(a, kind) /\ UNCHANGED <<file, lost>>
    BY <1>1 DEF Arrive, Connect, Decline, Refuse, SessionOpened, ConnectionGone, Advance, fileVars
  <2> QED
    BY <2>1, StampAccounted
<1>2. ASSUME NEW a \in Attempts, Ask(a) \/ Unanswered(a)
      PROVE  RowsAccounted
  <2>1. own' = own /\ pending' = pending /\ file' = file
    BY <1>2 DEF Ask, Unanswered, serverVars, fileVars
  <2>2. \A b \in Attempts : lost[b] \subseteq lost'[b]
    BY <1>2, LoseGrows DEF Ask, Unanswered, TypeOK
  <2> QED
    BY <2>1, <2>2 DEF RowsAccounted
<1>3. CASE own' = own /\ pending' = pending /\ file' = file /\ lost' = lost
  BY <1>3 DEF RowsAccounted
<1>4. ASSUME NEW a \in Attempts,
             \/ Dial(a) \/ Reach(a) \/ Upgrade(a) \/ Show(a)
             \/ \E result \in {"ready", "failed"} : Ends(a, result)
             \/ \E p \in Processes : ReadFile(a, p)
      PROVE  own' = own /\ pending' = pending /\ file' = file /\ lost' = lost
  BY <1>4 DEF Dial, Reach, Upgrade, Show, Ends, ReadFile, serverVars, givenVars, fileVars
<1>5. Tick \/ UNCHANGED vars => own' = own /\ pending' = pending /\ file' = file /\ lost' = lost
  BY DEF Tick, vars, serverVars, fileVars
<1> QED
  BY <1>1, <1>2, <1>3, <1>4, <1>5, FileAccounted, RestartAccounted DEF Next, AttemptNext

LEMMA OnRecordStep ==
  ASSUME KeptInv, RowsAccounted
  PROVE  \A a \in Attempts : OnRecord(a)'
<1> SUFFICES ASSUME NEW a \in Attempts, NEW kind \in own'[a] \ lost'[a]
             PROVE  \/ \E row \in pending'[a] : row.kind = kind
                    \/ \E row \in file'[At(a)] : Row(a, kind, row)
  BY DEF OnRecord, Row, At
<1>1. /\ OnRecord(a) /\ At(a) \in Processes
      /\ \A row \in pending[a] : row.by = a
  BY AtType DEF KeptInv, RecordInv, HonestRows
<1>2. CASE kind \notin own[a]
  BY <1>2 DEF RowsAccounted
<1>3. CASE kind \in own[a]
  <2>1. kind \in own[a] \ lost[a]
    BY <1>3 DEF RowsAccounted
  <2>2. ASSUME NEW row \in pending[a], row.kind = kind
        PROVE  \/ \E r \in pending'[a] : r.kind = kind
               \/ \E r \in file'[At(a)] : Row(a, kind, r)
    BY <1>1, <2>2 DEF RowsAccounted, Row
  <2>3. ASSUME NEW row \in file[At(a)], Row(a, kind, row)
        PROVE  \E r \in file'[At(a)] : Row(a, kind, r)
    BY <1>1, <2>3 DEF RowsAccounted, Row
  <2> QED
    BY <1>1, <2>1, <2>2, <2>3 DEF OnRecord
<1> QED
  BY <1>2, <1>3

\* No row of an attempt is older than the window when its page asks.
Recent ==
  \A a \in Attempts :
    page[a] = "asking" =>
      \A row \in file[At(a)] : row.by = a => row.at + Window >= askedAt[a]

\* A page that already asked, and whose answer no step of another touches.
LEMMA AnsweringKept ==
  ASSUME KeptInv, RowsAccounted, NEW a \in Attempts, page'[a] = "asking" => page[a] = "asking",
         before'[a] = before[a], unread'[a] = unread[a], events'[a] = events[a]
  PROVE  Answering(a)'
<1>1. Answering(a) /\ At(a) \in Processes
  BY AtType DEF KeptInv
<1>2. \A kind \in before[a] \ lost'[a] : kind \in before[a] \ lost[a]
  BY DEF RowsAccounted
<1>3. \A row \in file[At(a)] : \A kind \in before[a] \ lost'[a] :
        Row(a, kind, row) => row \in file'[At(a)]
  BY <1>1 DEF RowsAccounted, Row
<1> QED
  BY <1>1, <1>2, <1>3 DEF Answering, At, Row

LEMMA AskAnswers ==
  ASSUME KeptInv, NEW a \in Attempts, Ask(a)
  PROVE  Answering(a)'
<1>1. /\ TypeOK /\ OnRecord(a) /\ At(a) \in Writers
      /\ \A row \in pending[a] : row.by = a
  BY DEF KeptInv, RecordInv, HonestRows, KeepsRecords
<1>2. file' = file /\ before'[a] = own[a] /\ unread'[a] = Writers
  BY <1>1 DEF Ask, TypeOK, fileVars
<1>3. \A kind \in lost[a] : kind \in lost'[a]
  BY <1>1, LoseGrows DEF Ask
<1>4. \A row \in pending[a] : row.kind \in lost'[a]
  BY <1>1, LoseGrows DEF Ask
<1> QED
  BY <1>1, <1>2, <1>3, <1>4 DEF Answering, OnRecord, At, Row

LEMMA ReadAnswers ==
  ASSUME KeptInv, Recent, NEW a \in Attempts, NEW p \in Processes, ReadFile(a, p)
  PROVE  Answering(a)'
<1>1. /\ TypeOK /\ page[a] = "asking" /\ Answering(a)
  BY DEF KeptInv, RecordInv, ReadFile
<1>2. /\ file' = file /\ before' = before /\ lost' = lost
      /\ unread'[a] = unread[a] \ {p}
      /\ events'[a] = events[a] \cup {row \in file[p] : Asked(a, row)}
  BY <1>1 DEF ReadFile, TypeOK, fileVars
<1>3. p = At(a) => \A row \in file[p] : row.by = a => Asked(a, row)
  BY <1>1 DEF Recent, Asked
<1> QED
  BY <1>1, <1>2, <1>3 DEF Answering, At, Row

LEMMA KeptStep == KeptInv /\ Recent /\ [Next]_vars => KeptInv'
<1> SUFFICES ASSUME KeptInv, Recent, [Next]_vars PROVE KeptInv'
  OBVIOUS
<1>1. TypeOK /\ RecordInv' /\ KeepsRecords' /\ RowsAccounted
  BY RecordStep, Accounted DEF KeptInv, RecordInv, KeepsRecords, At
<1>2. ASSUME NEW a \in Attempts, AttemptNext(a)
      PROVE  \A b \in Attempts : Answering(b)'
  <2>1. \A b \in Attempts \ {a} : /\ page'[b] = page[b] /\ before'[b] = before[b]
                                  /\ unread'[b] = unread[b] /\ events'[b] = events[b]
    <3>1. CASE Dial(a) \/ (\E result \in {"ready", "failed"} : Ends(a, result))
      BY <1>1, <3>1 DEF Dial, Ends, TypeOK, askVars
    <3>2. CASE Ask(a) \/ Show(a)
      BY <1>1, <3>2 DEF Ask, Show, TypeOK
    <3>3. CASE Unanswered(a) \/ \E p \in Processes : ReadFile(a, p)
      BY <1>1, <3>3 DEF ReadFile, Unanswered, TypeOK
    <3>4. CASE \/ Reach(a) \/ Arrive(a) \/ Connect(a) \/ Decline(a) \/ Refuse(a)
               \/ Upgrade(a) \/ SessionOpened(a) \/ ConnectionGone(a)
               \/ \E row \in pending[a] : Append(a, row) \/ AppendFails(a, row)
      <4>1. page' = page /\ UNCHANGED askVars
        BY <3>4 DEF Reach, Arrive, Connect, Decline, Refuse, Upgrade, SessionOpened,
           ConnectionGone, Advance, Append, AppendFails
      <4> QED
        BY <4>1 DEF askVars
    <3> QED
      BY <1>2, <3>1, <3>2, <3>3, <3>4 DEF AttemptNext
  <2>2. Answering(a)'
    <3>1. CASE Ask(a)
      BY <3>1, AskAnswers
    <3>2. CASE \E p \in Processes : ReadFile(a, p)
      BY <3>2, ReadAnswers
    <3>3. CASE Show(a)
      BY <1>1, <3>3 DEF Show, Answering, TypeOK
    <3>4. CASE Unanswered(a)
      BY <1>1, <3>4 DEF Unanswered, Answering, TypeOK
    <3>5. CASE ~(Ask(a) \/ Show(a) \/ Unanswered(a) \/ \E p \in Processes : ReadFile(a, p))
      <4>1. /\ before' = before /\ unread' = unread /\ events' = events
            /\ page'[a] = "asking" => page[a] = "asking"
        BY <1>1, <1>2, <3>5 DEF AttemptNext, Dial, Reach, Arrive, Connect, Decline, Refuse, Upgrade,
           SessionOpened, ConnectionGone, Advance, Append, AppendFails, Ends, TypeOK, askVars
      <4> QED
        BY <1>1, <4>1, AnsweringKept
    <3> QED
      BY <3>1, <3>2, <3>3, <3>4, <3>5
  <2> QED
    BY <1>1, <2>1, <2>2, AnsweringKept
<1>3. ASSUME Tick \/ (\E p \in Processes : Restart(p)) \/ UNCHANGED vars
      PROVE  \A a \in Attempts : Answering(a)'
  BY <1>1, <1>3, AnsweringKept DEF Tick, Restart, vars, askVars
<1> QED
  BY <1>1, <1>2, <1>3, OnRecordStep DEF KeptInv, Next

\* The inductive invariant behind the theorems about verdicts: no row leaves
\* the record unless it is lost, and a page's answer holds what it asked about.
THEOREM KeptInvariant == KeepsRecords /\ Spec /\ []Recent => []KeptInv
<1>1. Init /\ KeepsRecords => KeptInv
  BY RecordInit DEF Init, KeptInv, OnRecord, Answering
<1> QED
  BY <1>1, KeptStep, PTL DEF Spec

\* What the page is about to show holds all it asked about that was not lost.
LEMMA ShowsBefore ==
  ASSUME KeptInv, NEW a \in Attempts, page[a] = "asking", unread[a] = {}
  PROVE  before[a] \ lost[a] \subseteq KindsShown(a, events[a])
BY DEF KeptInv, Answering, KindsShown, Row

\* Only a page that shows its answer says anything.
LEMMA SaysOnShow ==
  ASSUME TypeOK, [Next]_vars, NEW a \in Attempts, verdict'[a] # verdict[a]
  PROVE  /\ page[a] = "asking" /\ unread[a] = {}
         /\ verdict'[a] = VerdictFor(KindsShown(a, events[a]), outcome[a])
<1>1. PICK b \in Attempts : Show(b)
  BY DEF Next, AttemptNext, Tick, Restart, Dial, Reach, Arrive, Connect, Decline, Refuse,
     Upgrade, SessionOpened, ConnectionGone, Advance, Append, AppendFails, Ends, Ask, ReadFile,
     Unanswered, vars
<1> QED
  BY <1>1 DEF Show, TypeOK

-----------------------------------------------------------------------------
(* Where nothing is lost                                                    *)

\* Every port keeps a record, and what is to be in it lands before a page asks.
Undisturbed == KeepsRecords /\ Faults = {} /\ RecordsLand

\* The attempts a verdict is still to be shown for.
InProgress(a) == page[a] \in {"dialing", "waiting", "asking"}

\* No file is about to roll over that holds rows of an attempt in progress.
Roomy ==
  \A a, b \in Attempts :
    InProgress(a) /\ own[a] # {} /\ pending[b] # {} /\ At(b) = At(a) => ~Rolls(At(a))

InTime == Roomy /\ Recent

\* The kinds an attempt can still be given; nothing cuts one short.
Ahead(there) ==
  CASE there = "none"     -> {"quic", "connect", "declined", "refused", "session", "closed"}
    [] there = "packet"   -> {"quic", "connect", "declined", "refused", "session", "closed"}
    [] there = "quic"     -> {"connect", "declined", "refused", "session"}
    [] there = "connect"  -> {"declined", "refused", "session"}
    [] there = "upgraded" -> {"session"}
    [] OTHER              -> {}

\* No kind is given twice, and none before the page dials.
StepsOnce(a) ==
  /\ own[a] \cap Ahead(step[a]) = {}
  /\ page[a] = "idle" => step[a] = "none" /\ own[a] = {}

\* No two pending rows are alike, and none is like one in a file.
RowsOnce(a) ==
  /\ \A row, other \in pending[a] : row.kind = other.kind => row = other
  /\ \A row \in pending[a] : \A p \in Processes : \A other \in file[p] : ~Row(a, row.kind, other)

OrderlyInv ==
  /\ Undisturbed /\ RecordInv
  /\ \A a \in Attempts : StepsOnce(a) /\ RowsOnce(a)
  /\ \A p \in Processes : ~torn[p]

\* observer.size counts the rows, of which there are no two alike.
Pairs(p) == {<<row.by, row.kind>> : row \in file[p]}
Counted(p) == IsFiniteSet(Pairs(p)) /\ size[p] = Cardinality(Pairs(p))

CountInv == OrderlyInv /\ \A p \in Processes : Counted(p)

-----------------------------------------------------------------------------
(* What a step does to the record                                           *)

\* The attempt a is given a kind it was not given before.
Stamps(a, kind) ==
  /\ kind \notin own[a]
  /\ own' = [own EXCEPT ![a] = @ \cup {kind}]
  /\ pending' = [pending EXCEPT ![a] = @ \cup {[by |-> a, kind |-> kind, at |-> clock]}]
  /\ UNCHANGED <<lost, fileVars, page>>

\* A row of a lands in the file of its process, which may roll over first.
Lands(a, row) ==
  /\ row \in pending[a]
  /\ pending' = [pending EXCEPT ![a] = @ \ {row}]
  /\ file' = [file EXCEPT ![At(a)] = Kept(At(a)) \cup {row}]
  /\ size' = [size EXCEPT ![At(a)] = (IF Rolls(At(a)) THEN 0 ELSE @) + 1]
  /\ torn' = torn
  /\ Lose(Rolled(At(a)))
  /\ UNCHANGED <<own, page>>

\* The pages go on; one that dials has no row yet.
Turns ==
  /\ UNCHANGED <<own, pending, lost, fileVars>>
  /\ \A a \in Attempts : page'[a] = page[a] \/ InProgress(a) \/ own[a] = {}

LEMMA StampFresh ==
  ASSUME OrderlyInv, NEW a \in Attempts, NEW kind, kind \notin own[a], Stamp(a, kind),
         UNCHANGED <<lost, fileVars, page>>
  PROVE  Stamps(a, kind)
BY DEF Stamp, Stamps, OrderlyInv, Undisturbed, KeepsRecords

\* Nothing is late where the record has landed when the page asks.
LEMMA AskTurns ==
  ASSUME OrderlyInv, NEW a \in Attempts, Ask(a)
  PROVE  Turns
<1>1. pending[a] = {} /\ TypeOK /\ InProgress(a)
  BY DEF Ask, Landed, OrderlyInv, Undisturbed, RecordInv, InProgress
<1>2. lost' = lost
  BY <1>1 DEF Ask, Lose, TypeOK
<1> QED
  BY <1>1, <1>2 DEF Ask, Turns, TypeOK, serverVars, fileVars

LEMMA UndisturbedAttempt ==
  ASSUME OrderlyInv, NEW a \in Attempts, AttemptNext(a)
  PROVE  \/ \E kind \in Kinds : Stamps(a, kind)
         \/ \E row \in pending[a] : Lands(a, row)
         \/ Turns
<1>1. TypeOK /\ StepsOnce(a) /\ Faults = {} /\ ~torn[At(a)]
  BY AtType DEF OrderlyInv, Undisturbed, RecordInv
<1>2. CASE Arrive(a) \/ Connect(a) \/ Decline(a) \/ Refuse(a) \/ SessionOpened(a)
           \/ ConnectionGone(a)
  <2>1. PICK kind \in Kinds : /\ kind \notin own[a] /\ Stamp(a, kind)
                              /\ UNCHANGED <<lost, fileVars, page>>
    BY <1>1, <1>2 DEF Arrive, Connect, Decline, Refuse, SessionOpened, ConnectionGone, Advance,
       Kinds, StepsOnce, Ahead
  <2> QED
    BY <2>1, StampFresh
<1>3. ASSUME NEW row \in pending[a], Append(a, row)
      PROVE  Lands(a, row)
  <2>1. torn' = torn
    BY <1>1, <1>3, AtType DEF Append, TypeOK
  <2>2. Lose(Rolled(At(a)))
    BY <1>1, <1>3 DEF Append
  <2> QED
    BY <1>1, <1>3, <2>1, <2>2 DEF Append, Lands
<1>4. ASSUME NEW row \in pending[a]
      PROVE  ~AppendFails(a, row)
  BY <1>1 DEF AppendFails, Fault
<1>5. ~Unanswered(a)
  BY <1>1 DEF Unanswered, Fault
<1>6. CASE Ask(a)
  BY <1>6, AskTurns
<1>7. CASE \/ Reach(a) \/ Upgrade(a) \/ Dial(a) \/ Show(a) \/ \E p \in Processes : ReadFile(a, p)
           \/ \E result \in {"ready", "failed"} : Ends(a, result)
  BY <1>1, <1>7 DEF Reach, Upgrade, Dial, Show, ReadFile, Ends, Turns, serverVars, givenVars, TypeOK,
     StepsOnce, InProgress
<1> QED
  BY <1>2, <1>3, <1>4, <1>5, <1>6, <1>7 DEF AttemptNext

LEMMA UndisturbedStep ==
  ASSUME OrderlyInv, [Next]_vars
  PROVE  \/ \E a \in Attempts : \E kind \in Kinds : Stamps(a, kind)
         \/ \E a \in Attempts : \E row \in pending[a] : Lands(a, row)
         \/ Turns
<1>1. CASE \E p \in Processes : Restart(p)
  BY <1>1 DEF Restart, Fault, OrderlyInv, Undisturbed
<1>2. CASE Tick \/ UNCHANGED vars
  BY <1>2 DEF Tick, vars, Turns, serverVars
<1> QED
  BY <1>1, <1>2, UndisturbedAttempt DEF Next

-----------------------------------------------------------------------------
(* The record is inductive                                                  *)

LEMMA StepsOnceStep ==
  ASSUME OrderlyInv, [Next]_vars
  PROVE  \A a \in Attempts : StepsOnce(a)'
<1>1. TypeOK /\ \A a \in Attempts : StepsOnce(a)
  BY DEF OrderlyInv, RecordInv
<1>2. CASE step' = step /\ own' = own /\ \A a \in Attempts : page'[a] = "idle" => page[a] = "idle"
  BY <1>1, <1>2 DEF StepsOnce
<1>3. CASE \E p \in Processes : Restart(p)
  BY <1>3 DEF Restart, Fault, OrderlyInv, Undisturbed
<1>4. ASSUME NEW a \in Attempts, AttemptNext(a)
      PROVE  \A b \in Attempts : StepsOnce(b)'
  <2>1. CASE Reach(a) \/ Arrive(a) \/ Connect(a) \/ Decline(a) \/ Refuse(a) \/ SessionOpened(a)
             \/ ConnectionGone(a) \/ Upgrade(a)
    <3>1. page' = page /\ page[a] # "idle"
      BY <1>1, <2>1 DEF Reach, Arrive, Connect, Decline, Refuse, SessionOpened, ConnectionGone, Upgrade,
         Advance, StepsOnce
    <3>2. own'[a] \cap Ahead(step'[a]) = {}
      BY <1>1, <2>1 DEF Reach, Arrive, Connect, Decline, Refuse, SessionOpened, ConnectionGone, Upgrade,
         Advance, Stamp, StepsOnce, Ahead, TypeOK, givenVars
    <3>3. \A b \in Attempts \ {a} : step'[b] = step[b] /\ own'[b] = own[b]
      BY <1>1, <2>1 DEF Reach, Arrive, Connect, Decline, Refuse, SessionOpened, ConnectionGone, Upgrade,
         Advance, Stamp, TypeOK, givenVars
    <3> QED
      BY <1>1, <3>1, <3>2, <3>3 DEF StepsOnce
  <2>2. CASE ~(Reach(a) \/ Arrive(a) \/ Connect(a) \/ Decline(a) \/ Refuse(a) \/ SessionOpened(a)
               \/ ConnectionGone(a) \/ Upgrade(a))
    <3>1. step' = step /\ own' = own
      BY <1>4, <2>2 DEF AttemptNext, Append, AppendFails, Dial, Ends, Ask, ReadFile, Show,
         Unanswered, serverVars
    <3>2. \A b \in Attempts : page'[b] = "idle" => page[b] = "idle"
      BY <1>1, <1>4, <2>2 DEF AttemptNext, Append, AppendFails, Dial, Ends, Ask, ReadFile, Show,
         Unanswered, TypeOK
    <3> QED
      BY <1>2, <3>1, <3>2
  <2> QED
    BY <2>1, <2>2
<1>5. CASE Tick \/ UNCHANGED vars
  BY <1>2, <1>5 DEF Tick, vars, serverVars
<1> QED
  BY <1>3, <1>4, <1>5 DEF Next

\* A stamp makes a row unlike every other; landing takes it from one place to
\* the other.
LEMMA RowsOnceStep ==
  ASSUME OrderlyInv, [Next]_vars
  PROVE  (\A a \in Attempts : RowsOnce(a)') /\ (\A p \in Processes : ~torn'[p])
<1>1. /\ TypeOK /\ HonestRows
      /\ \A a \in Attempts : RowsOnce(a) /\ At(a) \in Processes
      /\ \A p \in Processes : ~torn[p]
  BY AtType DEF OrderlyInv, RecordInv
<1>2. ASSUME NEW a \in Attempts, NEW kind \in Kinds, Stamps(a, kind)
      PROVE  (\A b \in Attempts : RowsOnce(b)') /\ torn' = torn
  <2>1. /\ file' = file /\ torn' = torn
        /\ \A b \in Attempts \ {a} : pending'[b] = pending[b]
        /\ pending'[a] = pending[a] \cup {[by |-> a, kind |-> kind, at |-> clock]}
    BY <1>1, <1>2 DEF Stamps, TypeOK, fileVars
  <2>2. /\ \A other \in pending[a] : other.kind # kind
        /\ \A p \in Processes : \A other \in file[p] : ~Row(a, kind, other)
    BY <1>1, <1>2 DEF HonestRows, Stamps, Row
  <2>3. RowsOnce(a)'
    BY <1>1, <2>1, <2>2 DEF RowsOnce, Row
  <2> QED
    BY <1>1, <2>1, <2>3 DEF RowsOnce, Row
<1>3. ASSUME NEW a \in Attempts, NEW row \in pending[a], Lands(a, row)
      PROVE  (\A b \in Attempts : RowsOnce(b)') /\ torn' = torn
  <2>1. /\ torn' = torn /\ row.by = a
        /\ \A b \in Attempts \ {a} : pending'[b] = pending[b]
        /\ pending'[a] = pending[a] \ {row}
    BY <1>1, <1>3 DEF Lands, TypeOK, HonestRows
  <2>2. \A p \in Processes : \A other \in file'[p] : other \in file[p] \/ other = row
    BY <1>1, <1>3 DEF Lands, Kept, TypeOK
  <2>3. RowsOnce(a)'
    BY <1>1, <2>1, <2>2 DEF RowsOnce, Row
  <2>4. ASSUME NEW b \in Attempts \ {a}
        PROVE  RowsOnce(b)'
    BY <1>1, <2>1, <2>2 DEF RowsOnce, Row
  <2> QED
    BY <2>1, <2>3, <2>4
<1>4. CASE Turns
  BY <1>1, <1>4 DEF Turns, fileVars, RowsOnce, Row
<1> QED
  BY <1>1, <1>2, <1>3, <1>4, UndisturbedStep

LEMMA OrderlyStep == OrderlyInv /\ [Next]_vars => OrderlyInv'
<1> SUFFICES ASSUME OrderlyInv, [Next]_vars PROVE OrderlyInv'
  OBVIOUS
<1>1. RecordInv' /\ Undisturbed'
  BY RecordStep DEF OrderlyInv, Undisturbed, KeepsRecords, At
<1> QED
  BY <1>1, StepsOnceStep, RowsOnceStep DEF OrderlyInv

LEMMA OrderlyInit == Init /\ Undisturbed => OrderlyInv
<1> SUFFICES ASSUME Init, Undisturbed PROVE OrderlyInv
  OBVIOUS
<1>1. RecordInv
  BY RecordInit
<1>2. \A a \in Attempts : StepsOnce(a) /\ RowsOnce(a)
  BY DEF Init, StepsOnce, RowsOnce
<1> QED
  BY <1>1, <1>2 DEF Init, OrderlyInv

-----------------------------------------------------------------------------
(* The observer counts what its file holds                                  *)

LEMMA CountStep == CountInv /\ [Next]_vars => CountInv'
<1> SUFFICES ASSUME CountInv, [Next]_vars PROVE CountInv'
  OBVIOUS
<1>1. OrderlyInv /\ TypeOK /\ \A p \in Processes : Counted(p)
  BY DEF CountInv, OrderlyInv, RecordInv
<1>2. ASSUME file' = file, size' = size
      PROVE  \A p \in Processes : Counted(p)'
  BY <1>1, <1>2 DEF Counted, Pairs
<1>3. ASSUME NEW a \in Attempts, NEW row \in pending[a], Lands(a, row)
      PROVE  \A p \in Processes : Counted(p)'
  <2>1. /\ At(a) \in Processes /\ RowsOnce(a) /\ row.by = a
        /\ file'[At(a)] = Kept(At(a)) \cup {row}
        /\ \A p \in Processes \ {At(a)} : file'[p] = file[p] /\ size'[p] = size[p]
        /\ size'[At(a)] = (IF Rolls(At(a)) THEN 0 ELSE size[At(a)]) + 1
    BY <1>1, <1>3, AtType DEF Lands, TypeOK, OrderlyInv, RecordInv, HonestRows
  <2>2. \A p \in Processes \ {At(a)} : Counted(p)'
    BY <1>1, <2>1 DEF Counted, Pairs
  <2>3. ASSUME Rolls(At(a))
        PROVE  Counted(At(a))'
    <3>1. Pairs(At(a))' = {<<a, row.kind>>}
      BY <2>1, <2>3 DEF Pairs, Kept, At
    <3>2. IsFiniteSet({<<a, row.kind>>}) /\ Cardinality({<<a, row.kind>>}) = 1
      BY FS_Singleton
    <3>3. At(a)' = At(a) /\ size'[At(a)] = 1
      BY <2>1, <2>3 DEF At
    <3> QED
      BY <3>1, <3>2, <3>3 DEF Counted
  <2>4. ASSUME ~Rolls(At(a))
        PROVE  Counted(At(a))'
    <3>1. Pairs(At(a))' = Pairs(At(a)) \cup {<<a, row.kind>>}
      BY <2>1, <2>4 DEF Pairs, Kept, At
    <3>2. <<a, row.kind>> \notin Pairs(At(a))
      BY <2>1 DEF RowsOnce, Pairs, Row
    <3> DEFINE P == Pairs(At(a))
               x == <<a, row.kind>>
    <3>3. /\ IsFiniteSet(P) /\ x \notin P /\ size[At(a)] = Cardinality(P) /\ P \cup {x} = Pairs(At(a))'
          /\ size'[At(a)] = size[At(a)] + 1
      BY <1>1, <2>1, <2>4, <3>1, <3>2 DEF Counted
    <3> HIDE DEF P, x
    <3>4. IsFiniteSet(P \cup {x}) /\ Cardinality(P \cup {x}) = Cardinality(P) + 1
      BY <3>3, FS_AddElement
    <3>5. At(a)' = At(a)
      BY DEF At
    <3> QED
      BY <3>3, <3>4, <3>5 DEF Counted
  <2> QED
    BY <2>2, <2>3, <2>4 DEF At
<1> QED
  BY <1>1, <1>2, <1>3, OrderlyStep, UndisturbedStep DEF CountInv, Stamps, Turns, fileVars

LEMMA CountInit == Init /\ Undisturbed => CountInv
<1> SUFFICES ASSUME Init, Undisturbed PROVE CountInv
  OBVIOUS
<1>1. \A p \in Processes : Pairs(p) = {} /\ size[p] = 0
  BY DEF Init, Pairs
<1> QED
  BY <1>1, OrderlyInit, FS_EmptySet DEF CountInv, Counted

LEMMA KindsFinite == IsFiniteSet(Kinds)
<1>1. Kinds = {"quic"} \cup {"connect"} \cup {"session"} \cup {"refused"} \cup {"declined"} \cup {"closed"}
  BY DEF Kinds
<1> QED
  BY <1>1, FS_Singleton, FS_Union

\* The rows of all attempts fit a file, and the page asks in the window.
Small ==
  /\ IsFiniteSet(Attempts) /\ Cardinality(Attempts \X Kinds) <= Ceiling
  /\ MaxClock <= Window

LEMMA NeverRolls ==
  ASSUME CountInv, Small, NEW a \in Attempts, pending[a] # {}
  PROVE  ~Rolls(At(a))
<1> DEFINE p == At(a)
<1>1. PICK row : row \in pending[a]
  OBVIOUS
<1>2. /\ TypeOK /\ HonestRows /\ RowsOnce(a) /\ Counted(p) /\ p \in Processes
      /\ row.by = a /\ row.kind \in Kinds
  BY <1>1, AtType DEF CountInv, OrderlyInv, RecordInv, HonestRows, TypeOK, Rows
<1>3. <<a, row.kind>> \notin Pairs(p)
  BY <1>1, <1>2 DEF RowsOnce, Pairs, Row
<1>4. Pairs(p) \cup {<<a, row.kind>>} \subseteq Attempts \X Kinds
  <2>1. file[p] \subseteq Rows
    BY <1>2 DEF TypeOK
  <2> QED
    BY <1>2, <2>1 DEF Pairs, Rows
<1>5. IsFiniteSet(Attempts \X Kinds)
  BY KindsFinite, FS_Product DEF Small
<1>6. IsFiniteSet(Pairs(p))
  BY <1>2 DEF Counted
<1>7. /\ Cardinality(Pairs(p) \cup {<<a, row.kind>>}) = Cardinality(Pairs(p)) + 1
      /\ Cardinality(Pairs(p) \cup {<<a, row.kind>>}) <= Cardinality(Attempts \X Kinds)
      /\ Cardinality(Attempts \X Kinds) \in Nat /\ Cardinality(Pairs(p)) \in Nat
  BY <1>3, <1>4, <1>5, <1>6, FS_AddElement, FS_Subset, FS_CardinalityType
<1>8. Cardinality(Attempts \X Kinds) <= Ceiling
  BY DEF Small
<1> QED
  BY <1>2, <1>7, <1>8 DEF Counted, Rolls

\* A record small enough for its file is in time for every page that asks
\* within the window: size never reaches the ceiling, since no row is written
\* twice.
THEOREM SmallIsInTime == Undisturbed /\ Small /\ Spec => []InTime
<1>1. CountInv /\ Small => InTime
  <2> SUFFICES ASSUME CountInv, Small PROVE InTime
    OBVIOUS
  <2>1. Roomy
    BY NeverRolls DEF Roomy, At, Rolls
  <2>2. Recent
    <3> SUFFICES ASSUME NEW a \in Attempts, NEW row \in file[At(a)]
                 PROVE  row.at + Window >= askedAt[a]
      BY DEF Recent
    <3>1. row.at \in 0..MaxClock /\ askedAt[a] \in 0..MaxClock
      BY AtType DEF CountInv, OrderlyInv, RecordInv, TypeOK, Rows
    <3> QED
      BY <3>1 DEF Small
  <2> QED
    BY <2>1, <2>2 DEF InTime
<1>2. Small => Small'
  BY DEF Small
<1> QED
  BY <1>1, <1>2, CountInit, CountStep, PTL DEF Spec

-----------------------------------------------------------------------------
(* Nothing is lost                                                          *)

\* A verdict is still to be shown, and none of the rows it is made from is lost.
Unlost(a) == InProgress(a) => lost[a] = {}

UnlostInv == OrderlyInv /\ \A a \in Attempts : Unlost(a)

LEMMA LandLosesNone ==
  ASSUME UnlostInv, Roomy, NEW a \in Attempts, NEW row \in pending[a], Lands(a, row)
  PROVE  \A b \in Attempts : Unlost(b)'
<1> SUFFICES ASSUME NEW b \in Attempts, InProgress(b)
             PROVE  lost'[b] = {}
  BY DEF Unlost, InProgress, Lands
<1>1. lost[b] = {} /\ HonestRows /\ At(a) \in Processes
  BY AtType DEF UnlostInv, Unlost, OrderlyInv, RecordInv
<1>2. {r \in Rolled(At(a)) : r.by = b} = {}
  <2> SUFFICES ASSUME NEW r \in file[At(a)], r.by = b, Rolls(At(a))
               PROVE  FALSE
    BY DEF Rolled
  <2>1. At(b) = At(a) /\ own[b] # {}
    BY <1>1 DEF HonestRows
  <2> QED
    BY <2>1 DEF Roomy
<1>3. lost'[b] = lost[b] \cup {r.kind : r \in {q \in Rolled(At(a)) : q.by = b}}
  BY DEF Lands, Lose
<1> QED
  BY <1>1, <1>2, <1>3

LEMMA UnlostStep == UnlostInv /\ Roomy /\ [Next]_vars => UnlostInv'
<1> SUFFICES ASSUME UnlostInv, Roomy, [Next]_vars PROVE UnlostInv'
  OBVIOUS
<1>1. OrderlyInv /\ OrderlyInv' /\ \A a \in Attempts : Unlost(a) /\ lost[a] \subseteq own[a]
  BY OrderlyStep DEF UnlostInv, OrderlyInv, RecordInv, HonestRows
<1>2. ASSUME NEW a \in Attempts, NEW kind, Stamps(a, kind)
      PROVE  \A b \in Attempts : Unlost(b)'
  BY <1>1, <1>2 DEF Stamps, Unlost, InProgress
<1>3. ASSUME Turns
      PROVE  \A b \in Attempts : Unlost(b)'
  BY <1>1, <1>3 DEF Turns, Unlost, InProgress
<1> QED
  BY <1>1, <1>2, <1>3, LandLosesNone, UndisturbedStep DEF UnlostInv

\* The inductive invariant behind the two theorems below: an attempt loses no
\* row before its page has shown the verdict.
THEOREM UnlostInvariant == Undisturbed /\ Spec /\ []Roomy => []UnlostInv
<1>1. Init /\ Undisturbed => UnlostInv
  BY OrderlyInit DEF Init, UnlostInv, Unlost
<1> QED
  BY <1>1, UnlostStep, PTL DEF Spec

\* Where every port keeps a record and nothing of it is lost, rolled away or
\* out of date while it is wanted, a page calls UDP blocked only if its client's
\* handshake had not completed when it asked, whoever else dials that port.
THEOREM NoUdpIsTrue == Undisturbed /\ Spec /\ []InTime => NoUdpMeansNoHandshake
<1> DEFINE Told ==
      \A a \in Attempts :
        verdict'[a] = "no-udp" /\ verdict[a] # "no-udp" => "quic" \notin before[a]
<1>1. ASSUME UnlostInv, KeptInv, [Next]_vars
      PROVE  Told
  <2> SUFFICES ASSUME NEW a \in Attempts, verdict'[a] = "no-udp", verdict[a] # "no-udp"
               PROVE  "quic" \notin before[a]
    OBVIOUS
  <2>1. /\ page[a] = "asking" /\ unread[a] = {}
        /\ verdict'[a] = VerdictFor(KindsShown(a, events[a]), outcome[a])
    BY <1>1, SaysOnShow DEF KeptInv, RecordInv
  <2>2. KindsShown(a, events[a]) = {}
    BY <2>1 DEF VerdictFor
  <2>3. before[a] \ lost[a] = {}
    BY <1>1, <2>1, <2>2, ShowsBefore
  <2>4. lost[a] = {}
    BY <1>1, <2>1 DEF UnlostInv, Unlost, InProgress
  <2> QED
    BY <2>3, <2>4
<1>2. UnlostInv /\ KeptInv /\ [Next]_vars => [Told]_vars
  BY <1>1
<1>3. Undisturbed => KeepsRecords
  BY DEF Undisturbed
<1>4. InTime => Roomy /\ Recent
  BY DEF InTime
<1> QED
  BY <1>2, <1>3, <1>4, UnlostInvariant, KeptInvariant, PTL DEF Spec, NoUdpMeansNoHandshake

-----------------------------------------------------------------------------
(* Whose rows a page shows                                                  *)

\* While a page asks, no other attempt on its port and from its address has a
\* row that is recent enough to be handed back.
Apart ==
  \A a \in Attempts : page[a] = "asking" =>
    \A p \in Processes : \A row \in file[p] :
      Asked(a, row) /\ PortOf[row.by] = PortOf[a] => row.by = a

\* No two attempts dial the same port from the same address.
EachItsOwnPort ==
  \A a, b \in Attempts : ClientOf[a] = ClientOf[b] /\ PortOf[a] = PortOf[b] => a = b

\* What a page has read and will show is of its own attempt.
OwnRows(a) ==
  /\ page[a] # "asking" => events[a] = {}
  /\ \A row \in events[a] : PortOf[row.by] = PortOf[a] => row.by = a

OwnInv == RecordInv /\ \A a \in Attempts : OwnRows(a)

\* Only the page of a changes what it has read.
LEMMA OwnStep == OwnInv /\ Apart /\ [Next]_vars => OwnInv'
<1> SUFFICES ASSUME OwnInv, Apart, [Next]_vars PROVE OwnInv'
  OBVIOUS
<1>1. TypeOK /\ \A a \in Attempts : OwnRows(a)
  BY DEF OwnInv, RecordInv
<1>2. RecordInv'
  BY RecordStep DEF OwnInv
<1>3. ASSUME events' = events, \A a \in Attempts : page[a] = "asking" => page'[a] = "asking"
      PROVE  \A a \in Attempts : OwnRows(a)'
  BY <1>1, <1>3 DEF OwnRows
<1>4. ASSUME NEW a \in Attempts, AttemptNext(a)
      PROVE  \A b \in Attempts : OwnRows(b)'
  <2>1. CASE Show(a) \/ Unanswered(a)
    BY <1>1, <2>1 DEF Show, Unanswered, OwnRows, TypeOK
  <2>2. ASSUME NEW p \in Processes, ReadFile(a, p)
        PROVE  \A b \in Attempts : OwnRows(b)'
    <3>1. /\ page' = page /\ page[a] = "asking"
          /\ events'[a] = events[a] \cup {row \in file[p] : Asked(a, row)}
          /\ \A b \in Attempts \ {a} : events'[b] = events[b]
      BY <1>1, <2>2 DEF ReadFile, TypeOK
    <3>2. OwnRows(a)'
      BY <1>1, <3>1 DEF OwnRows, Apart
    <3> QED
      BY <1>1, <3>1, <3>2 DEF OwnRows
  <2>3. CASE ~(Show(a) \/ Unanswered(a) \/ \E p \in Processes : ReadFile(a, p))
    <3>1. events' = events
      BY <1>4, <2>3 DEF AttemptNext, Dial, Reach, Arrive, Connect, Decline, Refuse, Upgrade, SessionOpened,
         ConnectionGone, Advance, Append, AppendFails, Ends, Ask, askVars
    <3>2. \A b \in Attempts : page[b] = "asking" => page'[b] = "asking"
      BY <1>1, <1>4, <2>3 DEF AttemptNext, Dial, Reach, Arrive, Connect, Decline, Refuse, Upgrade,
         SessionOpened, ConnectionGone, Advance, Append, AppendFails, Ends, Ask, TypeOK
    <3> QED
      BY <1>3, <3>1, <3>2
  <2> QED
    BY <2>1, <2>2, <2>3
<1>5. ASSUME Tick \/ (\E p \in Processes : Restart(p)) \/ UNCHANGED vars
      PROVE  \A a \in Attempts : OwnRows(a)'
  BY <1>3, <1>5 DEF Tick, Restart, vars, askVars
<1> QED
  BY <1>2, <1>4, <1>5 DEF OwnInv, Next

\* The rows a page shows are its attempt's own, if other attempts on its port
\* from its address lie further back than /observed looks.
THEOREM OwnRowsInvariant == Spec /\ []Apart => []OwnInv
<1>1. Init => OwnInv
  BY RecordInit DEF Init, OwnInv, OwnRows
<1> QED
  BY <1>1, OwnStep, PTL DEF Spec

\* Attempts that never share a port are apart, whatever the clock says.
THEOREM OwnPortsAreApart == EachItsOwnPort /\ Spec => []Apart
<1>1. TypeOK /\ EachItsOwnPort => Apart
  BY DEF TypeOK, EachItsOwnPort, Apart, Asked, Rows
<1>2. EachItsOwnPort => EachItsOwnPort'
  BY DEF EachItsOwnPort
<1> QED
  BY <1>1, <1>2, TypeCorrect, PTL

LEMMA ShowsOwn ==
  ASSUME OwnInv, NEW a \in Attempts
  PROVE  KindsShown(a, events[a]) \in SUBSET own[a]
BY DEF OwnInv, RecordInv, OwnRows, HonestRows, KindsShown

\* A verdict, when it is shown, is what the attempt's own record gives but for
\* the rows it lost.
Misled ==
  \A a \in Attempts :
    verdict'[a] # verdict[a] =>
      \E kinds \in SUBSET own[a] :
        /\ before[a] \ lost[a] \subseteq kinds
        /\ verdict'[a] = VerdictFor(kinds, outcome[a])

LEMMA ToldOfWhatIsLeft == KeptInv /\ OwnInv /\ [Next]_vars => Misled
<1> SUFFICES ASSUME KeptInv, OwnInv, [Next]_vars, NEW a \in Attempts, verdict'[a] # verdict[a]
             PROVE  \E kinds \in SUBSET own[a] :
                      /\ before[a] \ lost[a] \subseteq kinds
                      /\ verdict'[a] = VerdictFor(kinds, outcome[a])
  BY DEF Misled
<1>1. /\ page[a] = "asking" /\ unread[a] = {}
      /\ verdict'[a] = VerdictFor(KindsShown(a, events[a]), outcome[a])
  BY SaysOnShow DEF KeptInv, RecordInv
<1> QED
  BY <1>1, ShowsBefore, ShowsOwn

\* Whatever fails -- writes lost or torn, files rolled over or wiped by a
\* restart, requests unanswered, rows late -- what a page says of an attempt is
\* wrong by no more than the rows that attempt lost.
THEOREM LossAloneMisleads ==
  KeepsRecords /\ Spec /\ []Recent /\ []Apart => OnlyLossMisleads
<1>1. KeptInv /\ OwnInv /\ [Next]_vars => [Misled]_vars
  BY ToldOfWhatIsLeft
<1> QED
  BY <1>1, KeptInvariant, OwnRowsInvariant, PTL DEF Spec, OnlyLossMisleads, Misled

\* Where nothing is lost each page is told of its own attempt, as its record
\* stood at some moment between the asking and the showing.
THEOREM VerdictIsItsOwn ==
  Undisturbed /\ Spec /\ []InTime /\ []Apart => VerdictForThisAttempt
<1> DEFINE Told ==
      \A a \in Attempts :
        verdict'[a] # verdict[a] =>
          \E kinds \in SUBSET own[a] :
            before[a] \subseteq kinds /\ verdict'[a] = VerdictFor(kinds, outcome[a])
<1>1. ASSUME UnlostInv, KeptInv, OwnInv, [Next]_vars
      PROVE  Told
  <2> SUFFICES ASSUME NEW a \in Attempts, verdict'[a] # verdict[a]
               PROVE  \E kinds \in SUBSET own[a] :
                        before[a] \subseteq kinds /\ verdict'[a] = VerdictFor(kinds, outcome[a])
    OBVIOUS
  <2>1. page[a] = "asking"
    BY <1>1, SaysOnShow DEF KeptInv, RecordInv
  <2>2. lost[a] = {}
    BY <1>1, <2>1 DEF UnlostInv, Unlost, InProgress
  <2> QED
    BY <1>1, <2>2, ToldOfWhatIsLeft DEF Misled
<1>2. UnlostInv /\ KeptInv /\ OwnInv /\ [Next]_vars => [Told]_vars
  BY <1>1
<1>3. Undisturbed => KeepsRecords
  BY DEF Undisturbed
<1>4. InTime => Roomy /\ Recent
  BY DEF InTime
<1> QED
  BY <1>2, <1>3, <1>4, UnlostInvariant, KeptInvariant, OwnRowsInvariant, PTL
     DEF Spec, VerdictForThisAttempt
=============================================================================
