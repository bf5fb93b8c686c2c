-------------------------------- MODULE Dialer --------------------------------
(***************************************************************************)
(* The datagram side of the dialer page (echo.html): a send parks a        *)
(* resolver, one reader hands payloads to parked resolvers, a timer gives  *)
(* up on an echo, and sessions follow one another under the sends still    *)
(* outstanding.  Every action is one task of the browser's event loop.     *)
(***************************************************************************)
EXTENDS Naturals, SequencesExt

CONSTANTS
  Sends,       \* clicks on "send datagram"
  MaxSessions  \* bound: sessions the page opens, one after another

VARIABLES
  live,      \* session and writer are set
  sessions,  \* sessions opened so far
  waiting,   \* the parked resolvers, each as the send it belongs to
  send,      \* none, writing, waiting, echoed, timed out, failed
  on,        \* the session a send went out on
  echoes     \* sends whose datagram, or its echo, is under way

vars == <<live, sessions, waiting, send, on, echoes>>

Init ==
  /\ live = FALSE /\ sessions = 0
  /\ waiting = <<>>
  /\ send = [s \in Sends |-> "none"]
  /\ on = [s \in Sends |-> 0]
  /\ echoes = {}

\* An attempt that gets through.  One that fails tears down what is not there.
Connect ==
  /\ ~live /\ sessions < MaxSessions
  /\ live' = TRUE
  /\ sessions' = sessions + 1
  /\ UNCHANGED <<waiting, send, on, echoes>>

\* The button, or the session's own end: teardown.
Disconnect ==
  /\ live
  /\ live' = FALSE
  /\ waiting' = <<>>
  /\ echoes' = {}
  /\ UNCHANGED <<sessions, send, on>>

\* The click: park, then write.  The datagram comes back or is lost.
Send(s) ==
  /\ live /\ send[s] = "none"
  /\ waiting' = Append(waiting, s)
  /\ send' = [send EXCEPT ![s] = "writing"]
  /\ on' = [on EXCEPT ![s] = sessions]
  /\ echoes' \in {echoes, echoes \cup {s}}
  /\ UNCHANGED <<live, sessions>>

\* await writer.write: the three seconds begin, also if the session has gone
\* since; or it rejects, and nothing unparks the resolver.
Written(s) ==
  /\ send[s] = "writing"
  /\ send' = [send EXCEPT ![s] = "waiting"]
  /\ UNCHANGED <<live, sessions, waiting, on, echoes>>

WriteFails(s) ==
  /\ send[s] = "writing"
  /\ ~live \/ on[s] # sessions
  /\ send' = [send EXCEPT ![s] = "failed"]
  /\ UNCHANGED <<live, sessions, waiting, on, echoes>>

\* readDatagrams: the oldest resolver gets the payload, whoever sent it.  One
\* whose send has given up takes it and does nothing.
Receive(s) ==
  /\ live /\ s \in echoes
  /\ echoes' = echoes \ {s}
  /\ IF waiting = <<>>
       THEN UNCHANGED <<waiting, send>>
       ELSE /\ waiting' = Tail(waiting)
            /\ send' = [send EXCEPT ![Head(waiting)] =
                          IF @ \in {"writing", "waiting"} THEN "echoed" ELSE @]
  /\ UNCHANGED <<live, sessions, on>>

\* waiting.pop(): the newest resolver, if there is one.
TimeOut(s) ==
  /\ send[s] = "waiting"
  /\ send' = [send EXCEPT ![s] = "timed out"]
  /\ waiting' = IF waiting = <<>> THEN <<>> ELSE Front(waiting)
  /\ UNCHANGED <<live, sessions, on, echoes>>

Next ==
  \/ Connect \/ Disconnect
  \/ \E s \in Sends : Send(s) \/ Written(s) \/ WriteFails(s) \/ Receive(s) \/ TimeOut(s)

Spec == Init /\ [][Next]_vars

\* Writes settle and timers fire.
FairSpec ==
  /\ Spec
  /\ \A s \in Sends : WF_vars(Written(s) \/ WriteFails(s)) /\ WF_vars(TimeOut(s))

-----------------------------------------------------------------------------
(* Properties                                                               *)

\* Sends of the current session that have neither an echo nor given up.
Outstanding == {s \in Sends : live /\ on[s] = sessions /\ send[s] \in {"writing", "waiting"}}

\* "a send parks a resolver and the reader hands the next payload to whoever is
\* waiting" (echo.html:203-204): a payload that comes in while sends of its
\* session are waiting for one answers one of them.
HandsToWhoeverWaits ==
  [][\A s \in Sends : Receive(s) /\ Outstanding # {}
       => \E t \in Outstanding : send'[t] = "echoed"]_vars
=============================================================================
