------------------------------- MODULE Budgets -------------------------------
(***************************************************************************)
(* The process-wide accountant of a Go rung: `type budgets` and its four   *)
(* methods roll, acquire, release and spend (main.go, legacy/main.go).     *)
(* Every method runs under one mutex, so each is one step here.  The       *)
(* module is not run alone: EchoServer extends it and takes the steps.     *)
(*                                                                         *)
(* Wall-clock time appears only as `aged`, the condition roll() tests.     *)
(***************************************************************************)
EXTENDS Integers

CONSTANTS
  Addresses,            \* normalised client addresses
  DailyEgressCeiling,   \* dailyEgressCeiling, in model bytes
  MaxWindows            \* bound: how often the 24h window may restart

ASSUME BudgetsAssumption ==
  /\ DailyEgressCeiling \in Nat \ {0}
  /\ MaxWindows \in Nat

VARIABLES
  sessions,  \* slots held per address; 0 stands for a key the map lacks
  echoed,    \* bytes charged in the current window
  aged,      \* time.Since(windowAt) >= 24h
  warned,    \* the ceiling warning was logged in this window
  granted,   \* auxiliary: bytes spend() answered true for in this window
  windows    \* auxiliary: how often roll() restarted the window

budgetVars == <<sessions, echoed, aged, warned, granted, windows>>

BudgetsTypeOK ==
  /\ sessions \in [Addresses -> Nat]
  /\ echoed \in Nat
  /\ aged \in BOOLEAN
  /\ warned \in BOOLEAN
  /\ granted \in Nat
  /\ windows \in Nat

\* var limits = &budgets{sessions: map[string]int{}, windowAt: time.Now()}
BudgetsInit ==
  /\ sessions = [a \in Addresses |-> 0]
  /\ echoed = 0
  /\ aged = FALSE
  /\ warned = FALSE
  /\ granted = 0
  /\ windows = 0

\* 24 hours have gone by since the window opened.
DayPasses ==
  /\ ~aged
  /\ windows < MaxWindows
  /\ aged' = TRUE
  /\ UNCHANGED <<sessions, echoed, warned, granted, windows>>

-----------------------------------------------------------------------------
(* What the counters are once roll() has run at the head of a method.       *)

rolledEchoed == IF aged THEN 0 ELSE echoed
rolledWarned == warned /\ ~aged
rolledGranted == IF aged THEN 0 ELSE granted

\* roll() restarting, or keeping, the window: shared by acquire and spend.
rollWindow ==
  /\ aged' = FALSE
  /\ windows' = IF aged THEN windows + 1 ELSE windows

\* roll() when the method changes no counter itself.
roll ==
  /\ rollWindow
  /\ echoed' = rolledEchoed
  /\ warned' = rolledWarned
  /\ granted' = rolledGranted

\* Broken: admits one session past the cap.
mayAcquireOneMore(a, cap) ==
  /\ rolledEchoed < DailyEgressCeiling
  /\ sessions[a] <= cap

\* acquire() returns true: below the ceiling and below the caller's cap.
mayAcquire(a, cap) ==
  /\ rolledEchoed < DailyEgressCeiling
  /\ sessions[a] < cap

acquire(a, cap) ==
  /\ mayAcquire(a, cap)
  /\ roll
  /\ sessions' = [sessions EXCEPT ![a] = @ + 1]

\* acquire() returns false: the window may still have rolled.
decline(a, cap) ==
  /\ ~mayAcquire(a, cap)
  /\ roll
  /\ UNCHANGED sessions

\* release(): at one or below the key is deleted, otherwise decremented.
release(a) ==
  /\ sessions' = [sessions EXCEPT ![a] = IF @ <= 1 THEN 0 ELSE @ - 1]
  /\ UNCHANGED <<echoed, aged, warned, granted, windows>>

\* Broken: looks at the total before counting n.
maySpendUncounted(n) == rolledEchoed < DailyEgressCeiling

\* spend(n): counts first, then answers whether the total is below the ceiling.
maySpend(n) == rolledEchoed + n < DailyEgressCeiling

spend(n) ==
  /\ rollWindow
  /\ echoed' = rolledEchoed + n
  /\ warned' = (rolledWarned \/ ~maySpend(n))
  /\ granted' = IF maySpend(n) THEN rolledGranted + n ELSE rolledGranted
  /\ UNCHANGED sessions
=============================================================================
