----------------------------- MODULE Observations -----------------------------
(***************************************************************************)
(* What the page says the server saw: each listener process appends rows   *)
(* to a rolling file of its own (observe.go), GET /observed joins the      *)
(* files for the address asking (main.go), and the page turns the kinds it *)
(* gets back into a verdict (web/assets/wt.js, web/pages/echo.html).       *)
(*                                                                         *)
(* A file is the set of the rows it holds: the reader sorts by timestamp   *)
(* and the verdict looks only at which kinds occur.                        *)
(***************************************************************************)
EXTENDS Naturals, FiniteSets

CONSTANTS
  Attempts,   \* attempts made from pages
  ClientOf,   \* the normalised address each attempt comes from
  PortOf,     \* the port it dials
  Processes,  \* listener processes
  ProcessOf,  \* the process serving a port
  Writers,    \* the processes that keep an observer at all
  Ceiling,    \* observationCeiling, in rows
  Window,     \* the 30 s of /observed, in ticks
  OneTab,     \* a client dials again only once the last verdict is shown
  RecordsLand,\* the 400 ms the page waits are enough for a record to land
  Faults,     \* which faults can happen: restart, lose, tear, unanswered
  MaxFaults,  \* bound: how many of them
  MaxClock    \* bound: ticks

ASSUME ObservationsAssumption ==
  /\ PortOf \in [Attempts -> DOMAIN ProcessOf]
  /\ \A port \in DOMAIN ProcessOf : ProcessOf[port] \in Processes
  /\ Writers \subseteq Processes
  /\ Ceiling \in Nat \ {0} /\ Window \in Nat
  /\ RecordsLand \in BOOLEAN /\ OneTab \in BOOLEAN
  /\ Faults \subseteq {"restart", "lose", "tear", "unanswered"}
  /\ MaxFaults \in Nat /\ MaxClock \in Nat

VARIABLES
  clock,    \* time.Now()
  faults,   \* faults that happened
  step,     \* how far the server has taken each attempt
  own,      \* auxiliary: kinds it was given, written or not
  lost,     \* auxiliary: kinds whose row no answer holds: destroyed, late, unanswered
  pending,  \* rows stamped by a goroutine and not yet written
  file,     \* rows each process's file holds
  size,     \* observer.size, in rows
  torn,     \* the file ends in a partial line
  page,     \* where the page is with each attempt
  outcome,  \* what attempt() returned
  askedAt,  \* when /observed took its cutoff
  unread,   \* files /observed has yet to read
  events,   \* rows it has found
  before,   \* auxiliary: own when the page asked
  verdict   \* what the page says

serverVars == <<step, own, pending>>
givenVars == <<own, pending>>
fileVars == <<file, size, torn>>
askVars == <<askedAt, unread, events, before>>
vars == <<clock, faults, serverVars, lost, fileVars, page, outcome, askVars, verdict>>

Kinds == {"quic", "connect", "session", "refused", "declined", "closed"}
Rows == [by : Attempts, kind : Kinds, at : 0..MaxClock]
Verdicts == {"established", "no-udp", "unmatched", "gave-up", "upgrade-failed",
             "declined", "unknown"}

\* The process an attempt reaches.
At(a) == ProcessOf[PortOf[a]]

Init ==
  /\ clock = 0 /\ faults = 0
  /\ step = [a \in Attempts |-> "none"]
  /\ own = [a \in Attempts |-> {}]
  /\ lost = [a \in Attempts |-> {}]
  /\ pending = [a \in Attempts |-> {}]
  /\ file = [p \in Processes |-> {}]
  /\ size = [p \in Processes |-> 0]
  /\ torn = [p \in Processes |-> FALSE]
  /\ page = [a \in Attempts |-> "idle"]
  /\ outcome = [a \in Attempts |-> "none"]
  /\ askedAt = [a \in Attempts |-> 0]
  /\ unread = [a \in Attempts |-> {}]
  /\ events = [a \in Attempts |-> {}]
  /\ before = [a \in Attempts |-> {}]
  /\ verdict = [a \in Attempts |-> "none"]

Fault(kind) ==
  /\ kind \in Faults
  /\ faults < MaxFaults
  /\ faults' = faults + 1

-----------------------------------------------------------------------------
(* The server side of an attempt                                            *)

\* A packet of the attempt reaches the listener, which records nothing of it.
\* The attempt lives on in the browser whatever its page does meanwhile: the
\* race with the timeout leaves the WebTransport object alone.
Reach(a) ==
  /\ page[a] # "idle" /\ step[a] = "none"
  /\ step' = [step EXCEPT ![a] = "packet"]
  /\ UNCHANGED <<clock, faults, givenVars, lost, fileVars, page, outcome, askVars, verdict>>

\* record(): stamp the row before taking the observer's lock.
Stamp(a, kind) ==
  /\ own' = [own EXCEPT ![a] = @ \cup {kind}]
  /\ pending' = [pending EXCEPT ![a] =
       IF At(a) \in Writers THEN @ \cup {[by |-> a, kind |-> kind, at |-> clock]} ELSE @]

\* The handler's goroutine has returned from its last record().
Returned(a) == \A row \in pending[a] : row.kind = "closed"

Advance(a, from, to, kind) ==
  /\ step[a] = from
  /\ Returned(a)
  /\ step' = [step EXCEPT ![a] = to]
  /\ Stamp(a, kind)
  /\ UNCHANGED <<clock, faults, lost, fileVars, page, outcome, askVars, verdict>>

\* ConnContext, once the handshake completes: a client that turns down the
\* certificate, or fails in TLS, stays at "packet".
Arrive(a)  == Advance(a, "packet", "quic", "quic")
Connect(a) == Advance(a, "quic", "connect", "connect")
Decline(a) == Advance(a, "connect", "declined", "declined")
Refuse(a)  == Advance(a, "connect", "refused", "refused")

\* Upgrade has answered the client; the record comes after it.
Upgrade(a) ==
  /\ step[a] = "connect"
  /\ Returned(a)
  /\ step' = [step EXCEPT ![a] = "upgraded"]
  /\ UNCHANGED <<clock, faults, givenVars, lost, fileVars, page, outcome, askVars, verdict>>

SessionOpened(a) == Advance(a, "upgraded", "session", "session")

\* The watcher goroutine of ConnContext, started after the first record().
ConnectionGone(a) ==
  /\ "quic" \in own[a] /\ "closed" \notin own[a]
  /\ \A row \in pending[a] : row.kind # "quic"
  /\ Stamp(a, "closed")
  /\ UNCHANGED <<clock, faults, step, lost, fileVars, page, outcome, askVars, verdict>>

-----------------------------------------------------------------------------
(* record(), under the lock                                                 *)

\* Broken: the file grows without end.
RollsNever(p) == FALSE

\* One row more would pass the ceiling, so the file is removed first.
Rolls(p) == size[p] + 1 > Ceiling

\* Broken: every record begins the file anew.
KeptNone(p) == {}

\* What is left of the file when the row arrives.
Kept(p) == IF Rolls(p) THEN {} ELSE file[p]

\* The rows a roll-over takes with it.
Rolled(p) == IF Rolls(p) THEN file[p] ELSE {}

\* No answer will hold these rows any more.
Lose(rows) ==
  lost' = [a \in Attempts |-> lost[a] \cup {row.kind : row \in {r \in rows : r.by = a}}]

\* A line written after a partial one is unreadable together with it.
Append(a, row) ==
  LET p == At(a) IN
  /\ row \in pending[a]
  /\ pending' = [pending EXCEPT ![a] = @ \ {row}]
  /\ file' = [file EXCEPT ![p] = IF torn[p] /\ ~Rolls(p) THEN @ ELSE Kept(p) \cup {row}]
  /\ size' = [size EXCEPT ![p] = (IF Rolls(p) THEN 0 ELSE @) + 1]
  /\ torn' = [torn EXCEPT ![p] = FALSE]
  /\ Lose(Rolled(p) \cup IF torn[p] THEN {row} ELSE {})
  /\ UNCHANGED <<clock, faults, step, own, page, outcome, askVars, verdict>>

\* The file does not open, or its write fails, after part of a line or none.
AppendFails(a, row) ==
  LET p == At(a) IN
  /\ row \in pending[a]
  /\ \/ Fault("lose") /\ torn' = [torn EXCEPT ![p] = @ /\ ~Rolls(p)]
     \/ Fault("tear") /\ torn' = [torn EXCEPT ![p] = TRUE]
  /\ pending' = [pending EXCEPT ![a] = @ \ {row}]
  /\ file' = [file EXCEPT ![p] = Kept(p)]
  /\ size' = [size EXCEPT ![p] = IF Rolls(p) THEN 0 ELSE @]
  /\ Lose(Rolled(p) \cup {row})
  /\ UNCHANGED <<clock, step, own, page, outcome, askVars, verdict>>

\* newObserver: a process that starts again removes its file. A client still
\* in its handshake may complete it with the new process.
Restart(p) ==
  /\ Fault("restart")
  /\ file' = [file EXCEPT ![p] = {}]
  /\ size' = [size EXCEPT ![p] = 0]
  /\ torn' = [torn EXCEPT ![p] = FALSE]
  /\ pending' = [a \in Attempts |-> IF At(a) = p THEN {} ELSE pending[a]]
  /\ Lose(file[p] \cup UNION {pending[a] : a \in {b \in Attempts : At(b) = p}})
  /\ step' = [a \in Attempts |->
                IF At(a) = p /\ step[a] \notin {"none", "packet"} THEN "cut" ELSE step[a]]
  /\ UNCHANGED <<clock, own, page, outcome, askVars, verdict>>

-----------------------------------------------------------------------------
(* The page                                                                 *)

Dial(a) ==
  /\ page[a] = "idle"
  /\ OneTab => \A b \in Attempts :
                 ClientOf[b] = ClientOf[a] => page[b] \in {"idle", "shown"}
  /\ page' = [page EXCEPT ![a] = "dialing"]
  /\ UNCHANGED <<clock, faults, serverVars, lost, fileVars, outcome, askVars, verdict>>

\* attempt() returns: ready once Upgrade answered, failed at any time.
Ends(a, result) ==
  /\ page[a] = "dialing"
  /\ result = "ready" => step[a] \in {"upgraded", "session"}
  /\ page' = [page EXCEPT ![a] = "waiting"]
  /\ outcome' = [outcome EXCEPT ![a] = result]
  /\ UNCHANGED <<clock, faults, serverVars, lost, fileVars, askVars, verdict>>

\* Everything the server has to say of the attempt so far is in its file.
Landed(a) == pending[a] = {} /\ step[a] # "upgraded"

\* showObservation, 400 ms on: /observed takes its cutoff and lists the files.
\* A row not written yet is late.
Ask(a) ==
  /\ page[a] = "waiting"
  /\ RecordsLand => Landed(a)
  /\ page' = [page EXCEPT ![a] = "asking"]
  /\ askedAt' = [askedAt EXCEPT ![a] = clock]
  /\ unread' = [unread EXCEPT ![a] = Writers]
  /\ before' = [before EXCEPT ![a] = own[a]]
  /\ Lose(pending[a])
  /\ UNCHANGED <<clock, faults, serverVars, fileVars, outcome, events, verdict>>

\* Broken: the cutoff is the moment of asking.
AskedNow(a, row) == ClientOf[row.by] = ClientOf[a] /\ row.at >= askedAt[a]

\* The rows /observed hands back: of this address, not before the cutoff.
Asked(a, row) == ClientOf[row.by] = ClientOf[a] /\ row.at + Window >= askedAt[a]

ReadFile(a, p) ==
  /\ page[a] = "asking"
  /\ p \in unread[a]
  /\ unread' = [unread EXCEPT ![a] = @ \ {p}]
  /\ events' = [events EXCEPT ![a] = @ \cup {row \in file[p] : Asked(a, row)}]
  /\ UNCHANGED <<clock, faults, serverVars, fileVars, lost, page, outcome, askedAt, before, verdict>>

\* What the page makes of an empty answer.
Silence(result) == IF result = "ready" THEN "unmatched" ELSE "no-udp"

\* verdictFor
VerdictFor(kinds, result) ==
  IF kinds = {} THEN Silence(result)
  ELSE IF "session" \in kinds THEN "established"
  ELSE IF "declined" \in kinds THEN "declined"
  ELSE IF kinds \cap {"refused", "connect"} # {} THEN "upgrade-failed"
  ELSE IF "quic" \in kinds THEN "gave-up" ELSE "unknown"

\* Broken: rows of every port are shown.
KindsAnyPort(a, rows) == {row.kind : row \in rows}

\* renderObservation keeps the rows of the port that was dialled.
KindsShown(a, rows) == {row.kind : row \in {r \in rows : PortOf[r.by] = PortOf[a]}}

\* The answer and what it was read into are gone once it is shown.
Show(a) ==
  /\ page[a] = "asking" /\ unread[a] = {}
  /\ page' = [page EXCEPT ![a] = "shown"]
  /\ verdict' = [verdict EXCEPT ![a] = VerdictFor(KindsShown(a, events[a]), outcome[a])]
  /\ askedAt' = [askedAt EXCEPT ![a] = 0]
  /\ unread' = [unread EXCEPT ![a] = {}]
  /\ events' = [events EXCEPT ![a] = {}]
  /\ before' = [before EXCEPT ![a] = {}]
  /\ UNCHANGED <<clock, faults, serverVars, lost, fileVars, outcome>>

\* fetch failed or /observed answered badly: observed() gives null, which is
\* shown as the empty list.
Unanswered(a) ==
  /\ page[a] = "asking"
  /\ Fault("unanswered")
  /\ unread' = [unread EXCEPT ![a] = {}]
  /\ events' = [events EXCEPT ![a] = {}]
  /\ lost' = [lost EXCEPT ![a] = @ \cup before[a]]
  /\ UNCHANGED <<clock, serverVars, fileVars, page, outcome, askedAt, before, verdict>>

Tick ==
  /\ clock < MaxClock
  /\ clock' = clock + 1
  /\ UNCHANGED <<faults, serverVars, lost, fileVars, page, outcome, askVars, verdict>>

AttemptNext(a) ==
  \/ Dial(a) \/ Reach(a) \/ Arrive(a) \/ Connect(a) \/ Decline(a) \/ Refuse(a)
  \/ Upgrade(a) \/ SessionOpened(a) \/ ConnectionGone(a)
  \/ \E row \in pending[a] : Append(a, row) \/ AppendFails(a, row)
  \/ \E result \in {"ready", "failed"} : Ends(a, result)
  \/ Ask(a) \/ Show(a) \/ Unanswered(a)
  \/ \E p \in Processes : ReadFile(a, p)

Next ==
  \/ Tick
  \/ \E p \in Processes : Restart(p)
  \/ \E a \in Attempts : AttemptNext(a)

Spec == Init /\ [][Next]_vars

-----------------------------------------------------------------------------
(* Properties                                                               *)

TypeOK ==
  /\ clock \in 0..MaxClock /\ faults \in 0..MaxFaults
  /\ step \in [Attempts -> {"none", "packet", "quic", "connect", "declined",
                            "refused", "upgraded", "session", "cut"}]
  /\ own \in [Attempts -> SUBSET Kinds]
  /\ lost \in [Attempts -> SUBSET Kinds]
  /\ pending \in [Attempts -> SUBSET Rows]
  /\ file \in [Processes -> SUBSET Rows]
  /\ size \in [Processes -> 0..Ceiling]
  /\ torn \in [Processes -> BOOLEAN]
  /\ page \in [Attempts -> {"idle", "dialing", "waiting", "asking", "shown"}]
  /\ outcome \in [Attempts -> {"none", "ready", "failed"}]
  /\ askedAt \in [Attempts -> 0..MaxClock]
  /\ unread \in [Attempts -> SUBSET Processes]
  /\ events \in [Attempts -> SUBSET Rows]
  /\ before \in [Attempts -> SUBSET Kinds]
  /\ verdict \in [Attempts -> Verdicts \cup {"none"}]

\* "Below is what this server recorded for your attempt above" (echo.html:127-128):
\* a verdict, when it is shown, is the one this attempt's own record gives, as
\* the record stood at some moment between the asking and the showing.
VerdictForThisAttempt ==
  [][\A a \in Attempts :
       verdict'[a] # verdict[a] =>
         \E kinds \in SUBSET own[a] :
           before[a] \subseteq kinds /\ verdict'[a] = VerdictFor(kinds, outcome[a])]_vars

\* The file is kept per process and read line by line (observe.go:42-48, 107-121),
\* so a loss harms those it falls on: with rows rolled away, torn, wiped by a
\* restart or late, a verdict is still the one its attempt's own record gives
\* but for the rows that attempt itself lost. A page whose attempt lost none is
\* told the truth; one that lost a later row may well read "closed without
\* sending CONNECT" (wt.js:229) of a client that sent it.
OnlyLossMisleads ==
  [][\A a \in Attempts :
       verdict'[a] # verdict[a] =>
         \E kinds \in SUBSET own[a] :
           /\ before[a] \ lost[a] \subseteq kinds
           /\ verdict'[a] = VerdictFor(kinds, outcome[a])]_vars

\* UDP is said to be blocked only of a client whose handshake had not completed
\* when its page asked: ConnContext records each one that does (main.go:388-394).
NoUdpMeansNoHandshake ==
  [][\A a \in Attempts :
       verdict'[a] = "no-udp" /\ verdict[a] # "no-udp" => "quic" \notin before[a]]_vars

\* "No QUIC packet from your address reached this port" (wt.js:218), taken at
\* its word: no packet of the attempt has, when it is said.
NoUdpMeansNoPacket ==
  [][\A a \in Attempts :
       verdict'[a] = "no-udp" /\ verdict[a] # "no-udp" => step[a] = "none"]_vars
=============================================================================
