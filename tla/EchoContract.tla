----------------------------- MODULE EchoContract -----------------------------
(***************************************************************************)
(* What an echo rung promises, without saying how: an attempt takes one    *)
(* slot of its address, at most once, and gives it back only when nothing  *)
(* of it is open any more; bytes leave only through an open session,       *)
(* within that session's budget and within what the days so far allow.     *)
(* EchoServer keeps this promise with counters, a channel and goroutines.  *)
(***************************************************************************)
EXTENDS Naturals, FiniteSets

CONSTANTS
  Sessions,      \* client attempts
  AddressOf,     \* where each attempt dials from
  Cap(_),        \* how many slots of its address an attempt may find taken
  Budget(_),     \* bytes an attempt may have echoed
  DayAllowance   \* bytes the process may echo for each day that opened

VARIABLES
  phase,      \* outside, inside, open, closed, left
  sent,       \* bytes echoed to each attempt
  egress,     \* bytes echoed by the process
  allowance   \* bytes the days so far allow

contractVars == <<phase, sent, egress, allowance>>

Inside(a) == {s \in Sessions : AddressOf[s] = a /\ phase[s] \in {"inside", "open", "closed"}}

Init ==
  /\ phase = [s \in Sessions |-> "outside"]
  /\ sent = [s \in Sessions |-> 0]
  /\ egress = 0
  /\ allowance = DayAllowance

Move(s, from, to) ==
  /\ phase[s] \in from
  /\ phase' = [phase EXCEPT ![s] = to]
  /\ UNCHANGED <<sent, egress, allowance>>

Enter(s) ==
  /\ Cardinality(Inside(AddressOf[s])) < Cap(s)
  /\ Move(s, {"outside"}, "inside")
Open(s)  == Move(s, {"inside"}, "open")
Close(s) == Move(s, {"open"}, "closed")
Leave(s) == Move(s, {"inside", "closed"}, "left")

Echo(s) ==
  /\ phase[s] = "open"
  /\ sent'[s] \in sent[s]..Budget(s)
  /\ sent' = [sent EXCEPT ![s] = sent'[s]]
  /\ egress' = egress + (sent'[s] - sent[s])
  /\ egress' <= allowance
  /\ UNCHANGED <<phase, allowance>>

NewDay ==
  /\ allowance' = allowance + DayAllowance
  /\ UNCHANGED <<phase, sent, egress>>

Next ==
  \/ NewDay
  \/ \E s \in Sessions : Enter(s) \/ Open(s) \/ Close(s) \/ Leave(s) \/ Echo(s)

Spec == Init /\ [][Next]_contractVars
=============================================================================
