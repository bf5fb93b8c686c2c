----------------------------- MODULE DialerProofs -----------------------------
(***************************************************************************)
(* What holds of the parked resolvers of the dialer page, for any number   *)
(* of sends and of sessions.                                               *)
(*                                                                         *)
(* The page promises an echo to whoever waits, and Dialer shows that it    *)
(* does not always keep that.  It does for a client that sends one         *)
(* datagram at a time, and for any client as long as nothing times out:    *)
(* the pop of a timeout is all that can displace a resolver.               *)
(***************************************************************************)
EXTENDS Dialer, SequenceTheorems, TLAPS

\* Sends whose promise is still open.
Unsettled == {s \in Sends : send[s] \in {"writing", "waiting"}}

\* What becomes of a send.
Fates == {"none", "writing", "waiting", "echoed", "timed out", "failed"}

Parks ==
  /\ sessions \in Nat
  /\ waiting \in Seq(Sends)
  /\ send \in [Sends -> Fates]
  /\ on \in [Sends -> Nat]
  /\ echoes \subseteq Sends

TypeOK == live \in BOOLEAN /\ Parks

LEMMA NothingParked == <<>> \in Seq(Sends)
BY EmptySeq

\* waiting.pop() takes the last of the resolvers and leaves the others.
LEMMA Popped ==
  ASSUME NEW w \in Seq(Sends), w # <<>>
  PROVE  /\ Front(w) \in Seq(Sends)
         /\ Len(w) \in Nat \ {0} /\ Len(Front(w)) = Len(w) - 1
         /\ \A i \in 1..Len(Front(w)) : Front(w)[i] = w[i]
<1>1. Len(w) \in Nat \ {0}
  BY EmptySeq
<1>2. \A i \in 1..Len(w) - 1 : w[i] \in Sends
  BY <1>1, ElementOfSeq
<1> DEFINE n == Len(w) - 1
<1>3. n \in Nat /\ \A i \in 1..n : w[i] \in Sends
  BY <1>1, <1>2
<1> HIDE DEF n
<1>4. /\ SubSeq(w, 1, n) \in Seq(Sends)
      /\ Len(SubSeq(w, 1, n)) = IF 1 <= n THEN n - 1 + 1 ELSE 0
      /\ \A i \in 1..n - 1 + 1 : SubSeq(w, 1, n)[i] = w[1 + i - 1]
  BY <1>3, SubSeqProperties
<1>5. Front(w) = SubSeq(w, 1, n)
  BY DEF Front, n
<1>6. Len(SubSeq(w, 1, n)) = n /\ \A i \in 1..n : SubSeq(w, 1, n)[i] = w[i]
  BY <1>3, <1>4
<1> QED
  BY <1>1, <1>4, <1>5, <1>6 DEF n

LEMMA TypesInit == Init => TypeOK
<1>1. Init => Parks
  BY NothingParked DEF Init, Parks, Fates
<1> QED
  BY <1>1 DEF Init, TypeOK

LEMMA ParksStep == Parks /\ [Next]_vars => Parks'
<1> SUFFICES ASSUME Parks, [Next]_vars PROVE Parks'
  OBVIOUS
<1> USE DEF Parks, Fates
<1>1. CASE Connect \/ Disconnect
  <2>1. sessions' = sessions \/ sessions' = sessions + 1
    BY <1>1 DEF Connect, Disconnect
  <2>2. /\ waiting' = waiting \/ waiting' = <<>>
        /\ echoes' \subseteq echoes
        /\ send' = send /\ on' = on
    BY <1>1 DEF Connect, Disconnect
  <2>3. sessions' \in Nat
    <3> HIDE DEF Parks
    <3>1. sessions \in Nat
      BY DEF Parks
    <3> QED
      BY <2>1, <3>1
  <2>4. waiting' \in Seq(Sends)
    BY <2>2, NothingParked
  <2> QED
    BY <2>2, <2>3, <2>4
<1>2. ASSUME NEW s \in Sends, Send(s)
      PROVE  Parks'
  BY <1>2, AppendProperties DEF Send
<1>3. ASSUME NEW s \in Sends, Written(s) \/ WriteFails(s)
      PROVE  Parks'
  BY <1>3 DEF Written, WriteFails
<1>4. ASSUME NEW s \in Sends, Receive(s)
      PROVE  Parks'
  <2>1. waiting' \in Seq(Sends)
    <3> HIDE DEF Parks
    <3>1. waiting \in Seq(Sends)
      BY DEF Parks
    <3>2. waiting # <<>> => Tail(waiting) \in Seq(Sends)
      BY <3>1, HeadTailProperties
    <3>3. waiting' = waiting \/ (waiting # <<>> /\ waiting' = Tail(waiting))
      BY <1>4 DEF Receive
    <3> QED
      BY <3>1, <3>2, <3>3
  <2> QED
    BY <1>4, <2>1 DEF Receive
<1>5. ASSUME NEW s \in Sends, TimeOut(s)
      PROVE  Parks'
  <2>1. waiting' \in Seq(Sends)
    BY <1>5, Popped, NothingParked DEF TimeOut
  <2> QED
    BY <1>5, <2>1 DEF TimeOut
<1>6. CASE UNCHANGED vars
  BY <1>6 DEF vars
<1> QED
  BY <1>1, <1>2, <1>3, <1>4, <1>5, <1>6 DEF Next

LEMMA TypesStep == TypeOK /\ [Next]_vars => TypeOK'
<1> SUFFICES ASSUME TypeOK, [Next]_vars PROVE TypeOK'
  OBVIOUS
<1>1. live' = live \/ live' = TRUE \/ live' = FALSE
  BY DEF Next, vars, Connect, Disconnect, Send, Written, WriteFails, Receive, TimeOut
<1> QED
  BY <1>1, ParksStep DEF TypeOK

\* Every variable stays what the page keeps in it, with resolvers handed out,
\* popped and cleared in any order.
THEOREM TypeCorrect == Spec => []TypeOK
BY TypesInit, TypesStep, PTL DEF Spec

-----------------------------------------------------------------------------
(* The parked resolvers                                                     *)

\* The resolver at i belongs to the session that is open, and to a send that
\* waits for its echo or has given up on it.
ParkedHere(i) ==
  /\ on[waiting[i]] = sessions
  /\ send[waiting[i]] \in {"writing", "waiting", "timed out"}

\* Each send parks once.
NoTwins == \A i, j \in 1..Len(waiting) : waiting[i] = waiting[j] => i = j

NobodyTimedOut == \A s \in Sends : send[s] # "timed out"

IsParked(s) == \E i \in 1..Len(waiting) : waiting[i] = s

ParkedInv ==
  /\ Parks
  /\ ~live => waiting = <<>>
  /\ \A s \in Sends : on[s] <= sessions
  /\ \A i \in 1..Len(waiting) : ParkedHere(i)
  /\ NoTwins
  /\ NobodyTimedOut => \A s \in Outstanding : IsParked(s)

\* How a step moves the resolvers: it keeps them, drops them all, parks one,
\* hands out the oldest or pops the newest.
LEMMA Park ==
  ASSUME Parks, NEW s \in Sends, waiting' = Append(waiting, s)
  PROVE  /\ Len(waiting) \in Nat /\ Len(waiting') = Len(waiting) + 1
         /\ \A i \in 1..Len(waiting) : waiting'[i] = waiting[i]
         /\ waiting'[Len(waiting) + 1] = s
<1>1. waiting \in Seq(Sends)
  BY DEF Parks
<1>2. Len(waiting) \in Nat
  BY <1>1, LenProperties
<1>3. /\ Len(Append(waiting, s)) = Len(waiting) + 1
      /\ \A i \in 1..Len(waiting) : Append(waiting, s)[i] = waiting[i]
      /\ Append(waiting, s)[Len(waiting) + 1] = s
  BY <1>1, AppendProperties
<1> QED
  BY <1>2, <1>3

LEMMA HandOut ==
  ASSUME Parks, waiting # <<>>, waiting' = Tail(waiting)
  PROVE  /\ Len(waiting) \in Nat \ {0} /\ Len(waiting') = Len(waiting) - 1
         /\ Head(waiting) = waiting[1]
         /\ \A i \in 1..Len(waiting') : waiting'[i] = waiting[i + 1]
<1>1. waiting \in Seq(Sends)
  BY DEF Parks
<1>2. Len(waiting) \in Nat \ {0}
  BY <1>1, EmptySeq
<1>3. /\ Len(Tail(waiting)) = Len(waiting) - 1
      /\ \A i \in 1..Len(Tail(waiting)) : Tail(waiting)[i] = waiting[i + 1]
  BY <1>1, HeadTailProperties
<1>4. Head(waiting) = waiting[1]
  BY <1>1
<1> QED
  BY <1>2, <1>3, <1>4

LEMMA Pop ==
  ASSUME Parks, waiting # <<>>, waiting' = Front(waiting)
  PROVE  /\ Len(waiting) \in Nat \ {0} /\ Len(waiting') = Len(waiting) - 1
         /\ \A i \in 1..Len(waiting') : waiting'[i] = waiting[i]
BY Popped DEF Parks

\* The click parks a new resolver, the newest; its send was parked nowhere.
LEMMA SendParks ==
  ASSUME ParkedInv, NEW s \in Sends, Send(s)
  PROVE  ParkedInv'
<1>1. /\ Parks /\ Parks' /\ NoTwins /\ \A i \in 1..Len(waiting) : ParkedHere(i)
      /\ send[s] = "none" /\ send'[s] = "writing" /\ on'[s] = sessions
      /\ \A t \in Sends \ {s} : send'[t] = send[t] /\ on'[t] = on[t]
      /\ sessions' = sessions /\ live' = live /\ live
  BY ParksStep DEF ParkedInv, Parks, Send, Next
<1>2. /\ Len(waiting) \in Nat /\ Len(waiting') = Len(waiting) + 1
      /\ \A i \in 1..Len(waiting) : waiting'[i] = waiting[i] /\ waiting[i] \in Sends
      /\ waiting'[Len(waiting) + 1] = s
  <2>1. waiting \in Seq(Sends)
    BY <1>1 DEF Parks
  <2> QED
    BY <1>1, <2>1, Park, ElementOfSeq DEF Send
<1>3. \A i \in 1..Len(waiting) : waiting[i] # s
  BY <1>1 DEF ParkedHere
<1>4. ASSUME NEW i \in 1..Len(waiting')
      PROVE  ParkedHere(i)'
  <2>1. CASE i = Len(waiting) + 1
    BY <1>1, <1>2, <2>1 DEF ParkedHere
  <2>2. CASE i # Len(waiting) + 1
    <3>1. i \in 1..Len(waiting)
      BY <1>2, <2>2
    <3>2. waiting'[i] = waiting[i] /\ waiting[i] \in Sends \ {s} /\ ParkedHere(i)
      BY <1>1, <1>2, <1>3, <3>1
    <3> QED
      BY <1>1, <3>2 DEF ParkedHere
  <2> QED
    BY <2>1, <2>2
<1>5. NoTwins'
  BY <1>1, <1>2, <1>3 DEF NoTwins
<1>6. \A t \in Sends : on'[t] <= sessions'
  <2>1. sessions \in Nat /\ \A t \in Sends : on[t] <= sessions
    BY DEF ParkedInv, Parks
  <2> QED
    BY <1>1, <2>1
<1>7. ASSUME NobodyTimedOut', NEW t \in Outstanding'
      PROVE  IsParked(t)'
  <2>1. CASE t = s
    BY <1>2, <2>1 DEF IsParked
  <2>2. CASE t # s
    <3>1. NobodyTimedOut /\ t \in Outstanding
      BY <1>1, <1>7, <2>2 DEF NobodyTimedOut, Outstanding
    <3> QED
      BY <1>2, <3>1 DEF ParkedInv, IsParked
  <2> QED
    BY <2>1, <2>2
<1> QED
  BY <1>1, <1>4, <1>5, <1>6, <1>7 DEF ParkedInv

\* The reader takes the oldest resolver from the others.
LEMMA ReceiveParks ==
  ASSUME ParkedInv, NEW s \in Sends, Receive(s), waiting # <<>>
  PROVE  ParkedInv'
<1>1. /\ Parks /\ Parks' /\ NoTwins /\ \A i \in 1..Len(waiting) : ParkedHere(i)
      /\ on' = on /\ sessions' = sessions /\ live' = live /\ live
      /\ \A t \in Sends : send'[t] = IF t = Head(waiting) /\ send[t] \in {"writing", "waiting"}
                                       THEN "echoed" ELSE send[t]
  BY ParksStep DEF ParkedInv, Parks, Receive, Next
<1>2. /\ Len(waiting) \in Nat \ {0} /\ Len(waiting') = Len(waiting) - 1
      /\ Head(waiting) = waiting[1]
      /\ \A i \in 1..Len(waiting') : waiting'[i] = waiting[i + 1]
      /\ \A i \in 1..Len(waiting) : waiting[i] \in Sends
  <2>1. waiting \in Seq(Sends)
    BY <1>1 DEF Parks
  <2> QED
    BY <1>1, <2>1, HandOut, ElementOfSeq DEF Receive
<1>3. ASSUME NEW i \in 1..Len(waiting')
      PROVE  ParkedHere(i)'
  <2>1. /\ i + 1 \in 1..Len(waiting) /\ 1 \in 1..Len(waiting) /\ i + 1 # 1
        /\ waiting'[i] = waiting[i + 1]
    BY <1>2
  <2>2. waiting[i + 1] # Head(waiting) /\ waiting[i + 1] \in Sends
    BY <1>1, <1>2, <2>1 DEF NoTwins
  <2> QED
    BY <1>1, <2>1, <2>2 DEF ParkedHere
<1>4. NoTwins'
  <2> SUFFICES ASSUME NEW i \in 1..Len(waiting'), NEW j \in 1..Len(waiting'), waiting'[i] = waiting'[j]
               PROVE  i = j
    BY DEF NoTwins
  <2>1. i + 1 \in 1..Len(waiting) /\ j + 1 \in 1..Len(waiting) /\ waiting[i + 1] = waiting[j + 1]
    BY <1>2
  <2>2. i + 1 = j + 1
    BY <1>1, <2>1 DEF NoTwins
  <2> QED
    BY <1>2, <2>2
<1>5. ASSUME NobodyTimedOut', NEW t \in Outstanding'
      PROVE  IsParked(t)'
  <2>1. NobodyTimedOut /\ t \in Outstanding /\ t # Head(waiting)
    BY <1>1, <1>5 DEF NobodyTimedOut, Outstanding
  <2>2. PICK i \in 1..Len(waiting) : waiting[i] = t
    BY <2>1 DEF ParkedInv, IsParked
  <2>3. i - 1 \in 1..Len(waiting') /\ waiting'[i - 1] = t
    BY <1>2, <2>1, <2>2
  <2> QED
    BY <2>3 DEF IsParked
<1>6. \A t \in Sends : on'[t] <= sessions'
  BY <1>1 DEF ParkedInv
<1> QED
  BY <1>1, <1>3, <1>4, <1>5, <1>6 DEF ParkedInv

\* The timeout takes the newest from the others, whoever it belongs to.
LEMMA TimeOutParks ==
  ASSUME ParkedInv, NEW s \in Sends, TimeOut(s)
  PROVE  ParkedInv'
<1>1. /\ Parks /\ Parks' /\ NoTwins /\ \A i \in 1..Len(waiting) : ParkedHere(i)
      /\ on' = on /\ sessions' = sessions /\ live' = live
      /\ send[s] = "waiting" /\ send'[s] = "timed out"
      /\ \A t \in Sends \ {s} : send'[t] = send[t]
  BY ParksStep DEF ParkedInv, Parks, TimeOut, Next
<1>2. Len(waiting) \in Nat /\ \A i \in 1..Len(waiting) : waiting[i] \in Sends
  <2>1. waiting \in Seq(Sends)
    BY <1>1 DEF Parks
  <2> QED
    BY <2>1, LenProperties, ElementOfSeq
<1>3. /\ 1..Len(waiting') \subseteq 1..Len(waiting)
      /\ \A i \in 1..Len(waiting') : waiting'[i] = waiting[i]
      /\ waiting = <<>> => waiting' = <<>>
  <2>1. CASE waiting = <<>>
    <3>1. waiting' = waiting
      BY <2>1 DEF TimeOut
    <3> QED
      BY <2>1, <3>1
  <2>2. CASE waiting # <<>>
    <3>1. waiting' = Front(waiting)
      BY <2>2 DEF TimeOut
    <3>2. /\ Len(waiting) \in Nat \ {0} /\ Len(waiting') = Len(waiting) - 1
          /\ \A i \in 1..Len(waiting') : waiting'[i] = waiting[i]
      BY <1>1, <2>2, <3>1, Pop
    <3> QED
      BY <2>2, <3>2
  <2> QED
    BY <2>1, <2>2
<1>4. ASSUME NEW i \in 1..Len(waiting')
      PROVE  ParkedHere(i)'
  <2>1. i \in 1..Len(waiting) /\ waiting'[i] = waiting[i]
    BY <1>3
  <2>2. waiting[i] \in Sends /\ ParkedHere(i)
    BY <1>1, <1>2, <2>1
  <2> QED
    BY <1>1, <2>1, <2>2 DEF ParkedHere
<1>5. NoTwins'
  <2> SUFFICES ASSUME NEW i \in 1..Len(waiting'), NEW j \in 1..Len(waiting'), waiting'[i] = waiting'[j]
               PROVE  i = j
    BY DEF NoTwins
  <2>1. i \in 1..Len(waiting) /\ j \in 1..Len(waiting) /\ waiting[i] = waiting[j]
    BY <1>3
  <2> QED
    BY <1>1, <2>1 DEF NoTwins
<1>6. ~NobodyTimedOut'
  BY <1>1 DEF NobodyTimedOut
<1>7. \A t \in Sends : on'[t] <= sessions'
  BY <1>1 DEF ParkedInv
<1> QED
  BY <1>1, <1>3, <1>4, <1>5, <1>6, <1>7 DEF ParkedInv

LEMMA ParkedStep == ParkedInv /\ [Next]_vars => ParkedInv'
<1> SUFFICES ASSUME ParkedInv, [Next]_vars PROVE ParkedInv'
  OBVIOUS
<1>1. /\ Parks' /\ sessions \in Nat /\ \A i \in 1..Len(waiting) : ParkedHere(i)
      /\ waiting \in Seq(Sends) /\ \A s \in Sends : on[s] \in Nat /\ on[s] <= sessions
  BY ParksStep DEF ParkedInv, Parks
<1>2. \A i \in 1..Len(waiting) : waiting[i] \in Sends
  BY <1>1, ElementOfSeq
<1>3. ASSUME waiting' = <<>>, Outstanding' = {}, sessions' >= sessions, on' = on, sessions' \in Nat
      PROVE  ParkedInv'
  <2>1. Len(waiting') = 0
    BY <1>3
  <2>2. (\A i \in 1..Len(waiting') : ParkedHere(i)') /\ NoTwins'
    BY <2>1 DEF NoTwins
  <2>3. \A s \in Sends : on'[s] <= sessions'
    BY <1>1, <1>3
  <2> QED
    BY <1>1, <1>3, <2>2, <2>3 DEF ParkedInv
<1>4. CASE Connect
  <2>1. waiting' = <<>> /\ on' = on /\ sessions' = sessions + 1
    BY <1>4 DEF Connect, ParkedInv
  <2>2. \A s \in Sends : on'[s] # sessions'
    BY <1>1, <2>1
  <2>3. Outstanding' = {}
    BY <2>2 DEF Outstanding
  <2>4. sessions' >= sessions /\ sessions' \in Nat
    BY <1>1, <2>1
  <2> QED
    BY <1>3, <2>1, <2>3, <2>4
<1>5. CASE Disconnect
  <2>1. waiting' = <<>> /\ on' = on /\ sessions' = sessions /\ ~live'
    BY <1>5 DEF Disconnect
  <2>2. Outstanding' = {}
    BY <2>1 DEF Outstanding
  <2> QED
    BY <1>1, <1>3, <2>1, <2>2
<1>6. ASSUME waiting' = waiting, on' = on, sessions' = sessions, live' = live,
             \A t \in Sends : \/ send'[t] = send[t]
                              \/ send[t] = "writing" /\ send'[t] = "waiting"
                              \/ send[t] = "writing" /\ send'[t] = "failed" /\ (~live \/ on[t] # sessions)
      PROVE  ParkedInv'
  <2>1. ASSUME NEW i \in 1..Len(waiting')
        PROVE  ParkedHere(i)'
    <3>1. live /\ ParkedHere(i) /\ waiting[i] \in Sends
      <4>1. waiting # <<>>
        BY <1>6, <2>1
      <4> QED
        BY <1>1, <1>2, <1>6, <2>1, <4>1 DEF ParkedInv
    <3> QED
      BY <1>6, <3>1 DEF ParkedHere
  <2>2. ASSUME NobodyTimedOut', NEW t \in Outstanding'
        PROVE  IsParked(t)'
    <3>1. NobodyTimedOut /\ t \in Outstanding
      BY <1>6, <2>2 DEF NobodyTimedOut, Outstanding
    <3> QED
      BY <1>6, <3>1 DEF ParkedInv, IsParked
  <2> QED
    BY <1>1, <1>6, <2>1, <2>2 DEF ParkedInv, NoTwins
<1>7. ASSUME NEW s \in Sends, Written(s) \/ WriteFails(s) \/ (Receive(s) /\ waiting = <<>>)
      PROVE  ParkedInv'
  <2>1. /\ waiting' = waiting /\ on' = on /\ sessions' = sessions /\ live' = live
        /\ \A t \in Sends : \/ send'[t] = send[t]
                            \/ send[t] = "writing" /\ send'[t] = "waiting"
                            \/ send[t] = "writing" /\ send'[t] = "failed" /\ (~live \/ on[t] # sessions)
    BY <1>7 DEF Written, WriteFails, Receive, ParkedInv, Parks
  <2> QED
    BY <1>6, <2>1
<1>8. CASE UNCHANGED vars
  BY <1>6, <1>8 DEF vars
<1> QED
  BY <1>4, <1>5, <1>7, <1>8, SendParks, ReceiveParks, TimeOutParks DEF Next

LEMMA ParkedInit == Init => ParkedInv
<1> SUFFICES ASSUME Init PROVE ParkedInv
  OBVIOUS
<1>1. Parks /\ waiting = <<>> /\ \A s \in Sends : on[s] = 0
  BY TypesInit DEF TypeOK, Init
<1>2. Len(waiting) = 0 /\ sessions = 0 /\ Outstanding = {}
  BY <1>1 DEF Init, Outstanding
<1> QED
  BY <1>1, <1>2 DEF ParkedInv, NoTwins

\* A resolver that is parked belongs to the session that is open and is the
\* only one of its send; and while nothing has timed out, every send of the
\* session that waits for its echo is parked.  Payloads, disconnects and failed
\* writes in any order leave that so.
THEOREM ParkedInvariant == Spec => []ParkedInv
BY ParkedInit, ParkedStep, PTL DEF Spec

-----------------------------------------------------------------------------
(* When an echo reaches who waits for it                                    *)

\* What the page promises of one step.
Hands ==
  \A s \in Sends : Receive(s) /\ Outstanding # {} => \E t \in Outstanding : send'[t] = "echoed"

\* The payload settles the oldest resolver; it answers who waits if each of
\* them is parked and the oldest is one of them.
LEMMA OldestIsAnswered ==
  ASSUME ParkedInv,
         \A s \in Outstanding : IsParked(s),
         waiting # <<>> => send[waiting[1]] \in {"writing", "waiting"}
  PROVE  Hands
<1> SUFFICES ASSUME NEW s \in Sends, Receive(s), NEW u \in Outstanding
             PROVE  \E t \in Outstanding : send'[t] = "echoed"
  BY DEF Hands
<1>1. waiting \in Seq(Sends) /\ live
  BY DEF ParkedInv, Parks, Receive
<1>2. waiting # <<>>
  <2>1. PICK i \in 1..Len(waiting) : waiting[i] = u
    BY DEF IsParked
  <2> QED
    BY <2>1
<1>3. 1 \in 1..Len(waiting) /\ Head(waiting) = waiting[1] /\ waiting[1] \in Sends
  <2>1. Len(waiting) \in Nat \ {0}
    BY <1>1, <1>2, EmptySeq
  <2>2. 1 \in 1..Len(waiting)
    BY <2>1
  <2> QED
    BY <1>1, <2>2, ElementOfSeq
<1>4. waiting[1] \in Outstanding
  BY <1>1, <1>2, <1>3 DEF ParkedInv, ParkedHere, Outstanding
<1>5. send'[waiting[1]] = "echoed"
  BY <1>2, <1>3 DEF Receive, ParkedInv, Parks
<1> QED
  BY <1>4, <1>5

\* While no send has given up, every payload answers a send that waits, with
\* any number of sends outstanding and sessions following one another: the
\* pop of a timeout is the only way to lose a place in the queue.
THEOREM TimelyEchoesReachWhoWaits == Spec /\ []NobodyTimedOut => HandsToWhoeverWaits
<1>1. ParkedInv /\ NobodyTimedOut => Hands
  <2> SUFFICES ASSUME ParkedInv, NobodyTimedOut PROVE Hands
    OBVIOUS
  <2>1. \A s \in Outstanding : IsParked(s)
    BY DEF ParkedInv
  <2>2. ASSUME waiting # <<>>
        PROVE  send[waiting[1]] \in {"writing", "waiting"}
    <3>1. waiting \in Seq(Sends) /\ \A i \in 1..Len(waiting) : ParkedHere(i)
      BY DEF ParkedInv, Parks
    <3>2. Len(waiting) \in Nat \ {0}
      BY <2>2, <3>1, EmptySeq
    <3>3. 1 \in 1..Len(waiting)
      BY <3>2
    <3>4. ParkedHere(1) /\ waiting[1] \in Sends
      BY <3>1, <3>3, ElementOfSeq
    <3> QED
      BY <3>4 DEF ParkedHere, NobodyTimedOut
  <2> QED
    BY <2>1, <2>2, OldestIsAnswered
<1>2. ParkedInv /\ NobodyTimedOut => [Hands]_vars
  BY <1>1
<1> QED
  BY <1>2, ParkedInvariant, PTL DEF HandsToWhoeverWaits, Hands

\* The user clicks again only once the last send has its answer or gave up.
OneAtATime == \A s \in Sends : Send(s) => Unsettled = {}

AloneInv ==
  /\ ParkedInv
  /\ \A s, t \in Unsettled : s = t
  /\ \A i \in 1..Len(waiting) : waiting[i] \in Unsettled
  /\ \A s \in Outstanding : IsParked(s)

\* With one send unsettled there is at most one resolver, and it is its own.
LEMMA OneResolver ==
  ASSUME AloneInv
  PROVE  /\ Len(waiting) \in {0, 1}
         /\ waiting # <<>> => Len(waiting) = 1 /\ waiting[1] \in Unsettled
<1>1. waiting \in Seq(Sends) /\ NoTwins
  BY DEF AloneInv, ParkedInv, Parks
<1>2. Len(waiting) \in Nat
  BY <1>1, LenProperties
<1>3. ~(Len(waiting) > 1)
  <2> SUFFICES ASSUME Len(waiting) > 1 PROVE FALSE
    OBVIOUS
  <2>1. 1 \in 1..Len(waiting) /\ 2 \in 1..Len(waiting)
    BY <1>2
  <2>2. waiting[1] = waiting[2]
    BY <2>1 DEF AloneInv
  <2> QED
    BY <1>1, <2>1, <2>2 DEF NoTwins
<1>4. Len(waiting) = 0 \/ Len(waiting) = 1
  <2> DEFINE n == Len(waiting)
  <2>1. n \in Nat /\ ~(n > 1)
    BY <1>2, <1>3
  <2> HIDE DEF n
  <2>2. n = 0 \/ n = 1
    BY <2>1
  <2> QED
    BY <2>2 DEF n
<1>5. ASSUME waiting # <<>>
      PROVE  Len(waiting) = 1 /\ waiting[1] \in Unsettled
  <2>1. Len(waiting) = 1
    BY <1>1, <1>4, <1>5, EmptySeq
  <2>2. 1 \in 1..Len(waiting)
    BY <2>1
  <2> QED
    BY <2>1, <2>2 DEF AloneInv
<1> QED
  BY <1>4, <1>5

LEMMA AloneStep == AloneInv /\ OneAtATime /\ [Next]_vars => AloneInv'
<1> SUFFICES ASSUME AloneInv, OneAtATime, [Next]_vars PROVE AloneInv'
  OBVIOUS
<1>1. /\ ParkedInv /\ ParkedInv' /\ Parks /\ Parks'
      /\ waiting \in Seq(Sends)
      /\ \A s, t \in Unsettled : s = t
      /\ \A i \in 1..Len(waiting) : waiting[i] \in Unsettled
      /\ \A s \in Outstanding : IsParked(s)
  BY ParkedStep DEF AloneInv, ParkedInv, Parks
<1>2. Outstanding' \subseteq Unsettled'
  BY DEF Outstanding, Unsettled
\* Nobody waits any more.
<1>3. ASSUME Unsettled' = {}, waiting' = <<>>
      PROVE  AloneInv'
  BY <1>1, <1>2, <1>3 DEF AloneInv
\* The session is gone from under whoever waits.
<1>4. ASSUME Unsettled' = Unsettled, waiting' = <<>>, Outstanding' = {}
      PROVE  AloneInv'
  BY <1>1, <1>4 DEF AloneInv
<1>5. CASE Connect \/ Disconnect
  <2>1. waiting' = <<>> /\ send' = send /\ on' = on
    BY <1>1, <1>5 DEF Connect, Disconnect, ParkedInv
  <2>2. \A s \in Sends : ~live' \/ on'[s] # sessions'
    <3>1. CASE Disconnect
      BY <3>1 DEF Disconnect
    <3>2. CASE Connect
      <4>1. sessions' = sessions + 1 /\ on' = on
        BY <3>2 DEF Connect
      <4>2. sessions \in Nat /\ \A s \in Sends : on[s] \in Nat /\ on[s] <= sessions
        BY <1>1 DEF ParkedInv, Parks
      <4> QED
        BY <4>1, <4>2
    <3> QED
      BY <1>5, <3>1, <3>2
  <2> QED
    BY <1>4, <2>1, <2>2 DEF Outstanding, Unsettled
<1>6. ASSUME NEW s \in Sends, Send(s)
      PROVE  AloneInv'
  <2>1. /\ Unsettled = {} /\ on'[s] = sessions
        /\ send'[s] = "writing" /\ \A t \in Sends \ {s} : send'[t] = send[t]
    BY <1>1, <1>6 DEF OneAtATime, Send, Parks
  <2>2. Unsettled' = {s}
    BY <2>1 DEF Unsettled
  <2>3. waiting = <<>>
    BY <2>1, OneResolver
  <2>4. waiting' = <<s>>
    BY <1>6, <2>3 DEF Send
  <2>5. Len(waiting') = 1 /\ waiting'[1] = s
    BY <2>4
  <2>6. \A i \in 1..Len(waiting') : waiting'[i] \in Unsettled'
    BY <2>2, <2>5
  <2>7. IsParked(s)'
    BY <2>5 DEF IsParked
  <2> QED
    BY <1>1, <1>2, <2>2, <2>6, <2>7 DEF AloneInv
<1>7. ASSUME NEW s \in Sends, Written(s)
      PROVE  AloneInv'
  <2>1. /\ waiting' = waiting /\ on' = on /\ live' = live /\ sessions' = sessions
        /\ Unsettled' = Unsettled
    BY <1>1, <1>7 DEF Written, Parks, Unsettled
  <2>2. Outstanding' = Outstanding
    BY <2>1 DEF Outstanding, Unsettled
  <2> QED
    BY <1>1, <2>1, <2>2 DEF AloneInv, IsParked
<1>8. ASSUME NEW s \in Sends, WriteFails(s)
      PROVE  AloneInv'
  <2>1. /\ waiting' = waiting /\ s \in Unsettled /\ (~live \/ on[s] # sessions)
        /\ send'[s] = "failed" /\ \A t \in Sends \ {s} : send'[t] = send[t]
    BY <1>1, <1>8 DEF WriteFails, Parks, Unsettled
  <2>2. Unsettled' = {}
    BY <1>1, <2>1 DEF Unsettled
  <2>3. waiting = <<>>
    <3> SUFFICES ASSUME waiting # <<>> PROVE FALSE
      OBVIOUS
    <3>1. Len(waiting) = 1 /\ waiting[1] = s /\ live
      BY <1>1, <2>1, OneResolver DEF ParkedInv
    <3>2. 1 \in 1..Len(waiting)
      BY <3>1
    <3> QED
      BY <1>1, <2>1, <3>1, <3>2 DEF ParkedInv, ParkedHere
  <2> QED
    BY <1>3, <2>1, <2>2, <2>3
<1>9. ASSUME NEW s \in Sends, Receive(s)
      PROVE  AloneInv'
  <2>1. CASE waiting = <<>>
    <3>1. /\ waiting' = waiting /\ send' = send /\ on' = on /\ live' = live /\ sessions' = sessions
      BY <1>9, <2>1 DEF Receive
    <3> QED
      BY <1>1, <3>1 DEF AloneInv, Outstanding, Unsettled, IsParked
  <2>2. CASE waiting # <<>>
    <3>1. Len(waiting) = 1 /\ waiting[1] \in Unsettled
      BY <2>2, OneResolver
    <3>2. waiting' = Tail(waiting) /\ Head(waiting) = waiting[1] /\ Len(waiting') = 0
      BY <1>1, <1>9, <2>2, <3>1, HandOut DEF Receive
    <3>3. waiting' = <<>>
      BY <1>1, <3>2, EmptySeq DEF Parks
    <3>4. /\ send'[waiting[1]] = "echoed"
          /\ \A t \in Sends \ {waiting[1]} : send'[t] = send[t]
      BY <1>1, <1>9, <2>2, <3>1, <3>2 DEF Receive, Parks, Unsettled
    <3>5. Unsettled' = {}
      BY <1>1, <3>1, <3>4 DEF Unsettled
    <3> QED
      BY <1>3, <3>3, <3>5
  <2> QED
    BY <2>1, <2>2
<1>10. ASSUME NEW s \in Sends, TimeOut(s)
       PROVE  AloneInv'
  <2>1. /\ s \in Unsettled
        /\ send'[s] = "timed out" /\ \A t \in Sends \ {s} : send'[t] = send[t]
    BY <1>1, <1>10 DEF TimeOut, Parks, Unsettled
  <2>2. Unsettled' = {}
    BY <1>1, <2>1 DEF Unsettled
  <2>3. waiting' = <<>>
    <3>1. CASE waiting = <<>>
      BY <1>10, <3>1 DEF TimeOut
    <3>2. CASE waiting # <<>>
      <4>1. waiting' = Front(waiting)
        BY <1>10, <3>2 DEF TimeOut
      <4>2. Len(waiting') = Len(waiting) - 1
        BY <1>1, <3>2, <4>1, Pop
      <4>3. Len(waiting') = 0
        BY <3>2, <4>2, OneResolver
      <4> QED
        BY <1>1, <4>3, EmptySeq DEF Parks
    <3> QED
      BY <3>1, <3>2
  <2> QED
    BY <1>3, <2>2, <2>3
<1>11. CASE UNCHANGED vars
  BY <1>1, <1>11 DEF vars, AloneInv, Outstanding, Unsettled, IsParked
<1> QED
  BY <1>5, <1>6, <1>7, <1>8, <1>9, <1>10, <1>11 DEF Next

\* A client that sends one datagram at a time is answered by every payload
\* that comes in while it waits, also after timeouts, failed writes, late
\* echoes and new sessions: the pop of its timeout takes its own resolver.
THEOREM OneAtATimeIsAnswered == Spec /\ [][OneAtATime]_vars => HandsToWhoeverWaits
<1>1. AloneInv => Hands
  <2> SUFFICES ASSUME AloneInv PROVE Hands
    OBVIOUS
  <2>1. waiting # <<>> => send[waiting[1]] \in {"writing", "waiting"}
    BY OneResolver DEF Unsettled
  <2> QED
    BY <2>1, OldestIsAnswered DEF AloneInv
<1>2. Init => AloneInv
  <2> SUFFICES ASSUME Init PROVE AloneInv
    OBVIOUS
  <2>1. Unsettled = {} /\ Outstanding = {}
    BY DEF Init, Unsettled, Outstanding
  <2>2. Len(waiting) = 0
    BY DEF Init
  <2> QED
    BY <2>1, <2>2, ParkedInit DEF AloneInv
<1>3. AloneInv /\ [Next]_vars /\ [OneAtATime]_vars => AloneInv'
  <2> SUFFICES ASSUME AloneInv, [Next]_vars, [OneAtATime]_vars PROVE AloneInv'
    OBVIOUS
  <2>1. ASSUME UNCHANGED vars
        PROVE  OneAtATime
    BY <2>1 DEF vars, OneAtATime, Send, AloneInv, ParkedInv, Parks
  <2> QED
    BY <2>1, AloneStep
<1>4. AloneInv => [Hands]_vars
  BY <1>1
<1> QED
  BY <1>2, <1>3, <1>4, PTL DEF Spec, HandsToWhoeverWaits, Hands
=============================================================================
