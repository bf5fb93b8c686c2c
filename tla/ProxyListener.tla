---------------------------- MODULE ProxyListener ----------------------------
(***************************************************************************)
(* How a connection reaches the page server and which address the page is  *)
(* then asked about: proxyListener.Accept reads a PROXY header before it   *)
(* hands a connection over (proxy.go), and /observed spells the client's   *)
(* address (observe.go, clientAddress) the way the UDP listeners do.       *)
(*                                                                         *)
(* What a client sends is cut into three parts: the twelve bytes Peek      *)
(* waits for, the rest of the header, where there is one, and the request  *)
(* behind it, which may come much later.  Parsing is abstracted to whether *)
(* a header names its client.                                              *)
(***************************************************************************)
EXTENDS Naturals, Sequences, FiniteSets

CONSTANTS
  Conns,      \* TCP connections
  Kinds,      \* what can be in front of a connection, or on it (see Header)
  ClientOf,   \* the machine each connection comes from
  Spellings,  \* the addresses a machine is seen under, over TCP or UDP
  Loopbacks,  \* hosts for which ip.IsLoopback() holds
  Loopback,   \* "127.0.0.1"
  Edge        \* the address of whatever proxy is in front

ASSUME ProxyAssumption ==
  /\ Kinds \subseteq {"direct", "v1", "v2", "unusable v1", "unusable v2", "http", "forwarded"}
  /\ \A c \in Conns : Spellings[ClientOf[c]] # {}

\* An address has a host and a form, plain or v4-mapped.  TCP and UDP see a
\* machine under one host, or on the loopback under any of its hosts.
IsAddress(x) == x = [host |-> x.host, form |-> x.form]

ASSUME SpellingAssumption ==
  \A c \in Conns : \A x, y \in Spellings[ClientOf[c]] :
    /\ IsAddress(x) /\ x.host # "none"
    /\ x.host = y.host \/ {x.host, y.host} \subseteq Loopbacks

ASSUME EdgeAssumption == IsAddress(Edge)
ASSUME LoopbackAssumption == IsAddress(Loopback) /\ Loopback.form = "plain"

VARIABLES
  phase,     \* none, backlog, reading (inside Accept), served
  backlog,   \* connections the kernel holds for Accept, in order
  kind,      \* one of Kinds
  seen,      \* the address the client's own packets carry
  arrived,   \* parts of its stream that have arrived
  ended,     \* the client has closed its side
  deadline,  \* the read deadline: none, armed, passed
  consumed,  \* parts newProxyConn took out of the stream
  remote,    \* proxyConn.remote
  cut,       \* auxiliary: a read failed on the way to the header's end
  asked      \* the address /observed looked up

clientVars == <<kind, seen, arrived, ended>>
vars == <<phase, backlog, clientVars, deadline, consumed, remote, cut, asked>>

Peeked   == 1  \* parts that make up the first twelve bytes
Complete == 2  \* the header, where there is one
All      == 3  \* and the request behind it

NoAddress == [host |-> "none", form |-> "none"]

Init ==
  /\ phase = [c \in Conns |-> "none"]
  /\ backlog = <<>>
  /\ kind = [c \in Conns |-> "direct"]
  /\ seen = [c \in Conns |-> NoAddress]
  /\ arrived = [c \in Conns |-> 0]
  /\ ended = [c \in Conns |-> FALSE]
  /\ deadline = [c \in Conns |-> "none"]
  /\ consumed = [c \in Conns |-> 0]
  /\ remote = [c \in Conns |-> NoAddress]
  /\ cut = [c \in Conns |-> FALSE]
  /\ asked = [c \in Conns |-> NoAddress]

-----------------------------------------------------------------------------
(* The other end: the client, and the proxies in front of the server        *)

Connect(c, k, address) ==
  /\ phase[c] = "none"
  /\ phase' = [phase EXCEPT ![c] = "backlog"]
  /\ backlog' = Append(backlog, c)
  /\ kind' = [kind EXCEPT ![c] = k]
  /\ seen' = [seen EXCEPT ![c] = address]
  /\ UNCHANGED <<arrived, ended, deadline, consumed, remote, cut, asked>>

Send(c) ==
  /\ phase[c] # "none" /\ ~ended[c]
  /\ arrived[c] < All
  /\ arrived' = [arrived EXCEPT ![c] = @ + 1]
  /\ UNCHANGED <<phase, backlog, kind, seen, ended, deadline, consumed, remote, cut, asked>>

HangUp(c) ==
  /\ phase[c] # "none" /\ ~ended[c]
  /\ ended' = [ended EXCEPT ![c] = TRUE]
  /\ UNCHANGED <<phase, backlog, kind, seen, arrived, deadline, consumed, remote, cut, asked>>

-----------------------------------------------------------------------------
(* Accept                                                                   *)

\* One connection at a time: newProxyConn runs inside Accept.
Accept ==
  /\ backlog # <<>>
  /\ \A c \in Conns : phase[c] # "reading"
  /\ phase' = [phase EXCEPT ![Head(backlog)] = "reading"]
  /\ deadline' = [deadline EXCEPT ![Head(backlog)] = "armed"]
  /\ backlog' = Tail(backlog)
  /\ UNCHANGED <<clientVars, consumed, remote, cut, asked>>

\* Broken: no deadline is ever set.
NeverExpires(c) == FALSE

\* Ten seconds after SetReadDeadline.
Expire(c) ==
  /\ deadline[c] = "armed"
  /\ deadline' = [deadline EXCEPT ![c] = "passed"]
  /\ UNCHANGED <<phase, backlog, clientVars, consumed, remote, cut, asked>>

\* Which header the first twelve bytes announce.
Header(c) ==
  CASE kind[c] \in {"v1", "unusable v1"} -> "v1"
    [] kind[c] \in {"v2", "unusable v2"} -> "v2"
    [] OTHER -> "none"

\* Broken: a v2 header without an address is left half read.
ConsumedUntilUnusable(c) ==
  IF Header(c) = "none" THEN 0 ELSE IF kind[c] = "unusable v2" THEN Peeked ELSE Complete

\* Broken: the first twelve bytes are read instead of peeked at.
ConsumedWithPeek(c) == IF Header(c) = "none" THEN Peeked ELSE Complete + Peeked

\* A v1 line or a v2 block is read to its end before it is judged.
Consumed(c) == IF Header(c) = "none" THEN 0 ELSE Complete

\* A v1 line names its client with six fields, a number and an address; a v2
\* block with the PROXY command, a TCP family and room for the address.
\* LOCAL, UNKNOWN and everything malformed name nobody.
Source(c) == IF kind[c] \in {"v1", "v2"} THEN seen[c] ELSE NoAddress

\* Broken: the deadline outlives the header.
StillArmed(c) == deadline[c]

\* SetReadDeadline(time.Time{})
Disarmed(c) == "none"

\* newProxyConn returns, and with it Accept.
HandOver(c, parts, source, failed) ==
  /\ phase[c] = "reading"
  /\ phase' = [phase EXCEPT ![c] = "served"]
  /\ deadline' = [deadline EXCEPT ![c] = Disarmed(c)]
  /\ consumed' = [consumed EXCEPT ![c] = parts]
  /\ remote' = [remote EXCEPT ![c] = source]
  /\ cut' = [cut EXCEPT ![c] = failed]
  /\ UNCHANGED <<backlog, clientVars, asked>>

\* readProxyHeader gets as far as it wants to, with or without the request.
ReadHeader(c) ==
  /\ arrived[c] >= (IF Header(c) = "none" THEN Peeked ELSE Complete)
  /\ deadline[c] = "armed"
  /\ HandOver(c, Consumed(c), Source(c), FALSE)

\* Peek fails on the deadline or on the end of the stream: nothing is consumed.
PeekFails(c) ==
  /\ deadline[c] = "passed" \/ (ended[c] /\ arrived[c] < Peeked)
  /\ HandOver(c, 0, NoAddress, TRUE)

\* ReadString or readFull fails behind the Peek: what it had read is gone.
HeaderFails(c) ==
  /\ Header(c) # "none"
  /\ arrived[c] >= Peeked
  /\ deadline[c] = "passed" \/ (ended[c] /\ arrived[c] < Complete)
  /\ HandOver(c, Peeked, NoAddress, TRUE)

-----------------------------------------------------------------------------
(* The request behind it                                                    *)

\* Conn.RemoteAddr(): the client itself, unless something is in front.
Peer(c) == IF kind[c] = "direct" THEN seen[c] ELSE Edge

\* proxyConn.RemoteAddr
RemoteAddr(c) == IF remote[c] # NoAddress THEN remote[c] ELSE Peer(c)

\* Broken: only the loopback spellings are settled.
normalizeLoopback(address) ==
  IF address.host \in Loopbacks THEN Loopback ELSE address

\* Loopback is 127.0.0.1, a v4-mapped address its v4 form, the rest itself.
normalizeAddress(address) ==
  IF address.host \in Loopbacks THEN Loopback ELSE [address EXCEPT !.form = "plain"]

\* The copy of it that legacy records its UDP clients with.
recordedAs(address) ==
  IF address.host \in Loopbacks THEN Loopback ELSE [address EXCEPT !.form = "plain"]

\* The port goes, where there is one.
addressOf(address) == normalizeAddress(address)

\* Fly-Client-IP or X-Forwarded-For, which a proxy that speaks HTTP has set.
\* Whoever else sends one is asked about the address it names instead of its
\* own: no deployment of the pages does, and no browser on its own account.
Forwarded(c) == kind[c] \in {"http", "forwarded"}

clientAddress(c) ==
  IF Forwarded(c) THEN normalizeAddress(seen[c]) ELSE addressOf(RemoteAddr(c))

\* TLS finds its own first byte where it looks for it.
Intact(c) == consumed[c] = IF Header(c) = "none" THEN 0 ELSE Complete

\* GET /observed, read from the connection without a deadline in the way
Observe(c) ==
  /\ phase[c] = "served"
  /\ Intact(c) /\ arrived[c] = All
  /\ deadline[c] # "passed"
  /\ asked[c] = NoAddress
  /\ asked' = [asked EXCEPT ![c] = clientAddress(c)]
  /\ UNCHANGED <<phase, backlog, clientVars, deadline, consumed, remote, cut>>

ConnNext(c) ==
  \/ \E k \in Kinds, address \in Spellings[ClientOf[c]] : Connect(c, k, address)
  \/ Send(c) \/ HangUp(c)
  \/ Expire(c) \/ ReadHeader(c) \/ PeekFails(c) \/ HeaderFails(c)
  \/ Observe(c)

Next == Accept \/ \E c \in Conns : ConnNext(c)

Spec == Init /\ [][Next]_vars

\* The accept loop and the handlers run, and deadlines pass; nothing is
\* assumed of the client, who may never say anything.
FairSpec ==
  /\ Spec
  /\ WF_vars(Accept)
  /\ \A c \in Conns :
       /\ WF_vars(Expire(c))
       /\ WF_vars(ReadHeader(c) \/ PeekFails(c) \/ HeaderFails(c))
       /\ WF_vars(Observe(c))

-----------------------------------------------------------------------------
(* Properties                                                               *)

Address == (UNION {Spellings[ClientOf[c]] : c \in Conns}) \cup {Edge, Loopback, NoAddress}

TypeOK ==
  /\ phase \in [Conns -> {"none", "backlog", "reading", "served"}]
  /\ backlog \in Seq(Conns)
  /\ kind \in [Conns -> Kinds \cup {"direct"}]
  /\ seen \in [Conns -> Address]
  /\ arrived \in [Conns -> 0..All]
  /\ ended \in [Conns -> BOOLEAN]
  /\ deadline \in [Conns -> {"none", "armed", "passed"}]
  /\ consumed \in [Conns -> 0..Complete]
  /\ remote \in [Conns -> Address]
  /\ cut \in [Conns -> BOOLEAN]
  /\ asked \in [Conns -> {normalizeAddress(x) : x \in Address} \cup {NoAddress}]
  /\ \A c \in Conns : asked[c] # NoAddress => asked[c].form = "plain"

\* "It consumes nothing when there is no header" (proxy.go:67-68): a stream
\* without one reaches TLS from its first byte however slowly it arrived, and
\* one with a header from the first byte behind it, whatever the header said,
\* unless the header itself was cut short.
TakesTheHeaderOnly ==
  \A c \in Conns : phase[c] = "served" =>
    Intact(c) \/ (Header(c) # "none" /\ cut[c])

\* "the two only line up if the header wins" (observe.go:138-139): the address
\* a page asks about is the one its own client is recorded under, by whatever
\* path the page came and however each side spells it.  A proxy that names
\* nobody leaves only its own address to ask about.
AsksForItself ==
  \A c \in Conns :
    asked[c] # NoAddress =>
      IF kind[c] \in {"unusable v1", "unusable v2"} THEN asked[c] = addressOf(Edge)
      ELSE \A udp \in Spellings[ClientOf[c]] : asked[c] = recordedAs(udp)

\* "a client that connects and says nothing must not hold the accept loop"
\* (proxy.go:47): whoever is in the backlog is served, whatever the others say.
EveryoneIsServed ==
  \A c \in Conns : phase[c] = "backlog" ~> phase[c] = "served"

\* A client whose stream TLS can read is answered, although it was so slow
\* that the header's deadline passed: that deadline ends with the header.
SlowIsNotLost ==
  \A c \in Conns :
    phase[c] = "served" /\ Intact(c) /\ arrived[c] = All ~> asked[c] # NoAddress
=============================================================================
