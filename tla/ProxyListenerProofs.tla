------------------------- MODULE ProxyListenerProofs --------------------------
(***************************************************************************)
(* What holds of ProxyListener for any number of connections, machines and *)
(* spellings of their addresses.                                           *)
(***************************************************************************)
EXTENDS ProxyListener, TLAPS

-----------------------------------------------------------------------------
(* Addresses                                                                *)

\* What normalizeAddress and recordedAs leave of an address.
Settled(x) == IF x.host \in Loopbacks THEN Loopback ELSE [x EXCEPT !.form = "plain"]

LEMMA Settling == \A x : normalizeAddress(x) = Settled(x) /\ recordedAs(x) = Settled(x)
BY DEF normalizeAddress, recordedAs, Settled

LEMMA PlainFields ==
  ASSUME NEW x, IsAddress(x)
  PROVE  [x EXCEPT !.form = "plain"] = [host |-> x.host, form |-> "plain"]
BY DEF IsAddress

\* A settled address has no form but the plain one.
LEMMA PlainForm ==
  ASSUME NEW x, IsAddress(x)
  PROVE  Settled(x).form = "plain"
<1>1. [host |-> x.host, form |-> "plain"].form = "plain"
  OBVIOUS
<1> QED
  BY <1>1, PlainFields, LoopbackAssumption DEF Settled

LEMMA AddressTypes ==
  /\ NoAddress \in Address /\ Edge \in Address
  /\ \A c \in Conns : Spellings[ClientOf[c]] \subseteq Address
BY Zenon DEF Address

LEMMA AddressIs == \A x \in Address : IsAddress(x)
<1> SUFFICES ASSUME NEW x \in Address PROVE IsAddress(x)
  OBVIOUS
<1>1. CASE \E c \in Conns : x \in Spellings[ClientOf[c]]
  BY <1>1, SpellingAssumption
<1>2. CASE x \in {Edge, Loopback}
  BY <1>2, EdgeAssumption, LoopbackAssumption
<1>3. CASE x = NoAddress
  BY <1>3 DEF IsAddress, NoAddress
<1>4. \/ \E c \in Conns : x \in Spellings[ClientOf[c]]
      \/ x \in {Edge, Loopback} \/ x = NoAddress
  BY Zenon DEF Address
<1> QED
  BY <1>1, <1>2, <1>3, <1>4

-----------------------------------------------------------------------------
(* Type correctness                                                         *)

LEMMA SourceType ==
  ASSUME TypeOK, NEW c \in Conns
  PROVE  Source(c) \in Address
BY AddressTypes DEF Source, TypeOK

LEMMA HandOverTypes ==
  ASSUME TypeOK, NEW c \in Conns, NEW parts \in 0..Complete, NEW source \in Address,
         NEW failed \in BOOLEAN, HandOver(c, parts, source, failed)
  PROVE  TypeOK'
BY DEF HandOver, TypeOK, Disarmed, clientVars, Address

LEMMA ClientAddressPlain ==
  ASSUME TypeOK, NEW c \in Conns
  PROVE  /\ clientAddress(c) \in {normalizeAddress(x) : x \in Address}
         /\ clientAddress(c).form = "plain"
<1>1. seen[c] \in Address /\ remote[c] \in Address
  BY DEF TypeOK
<1>2. RemoteAddr(c) \in Address
  BY <1>1, AddressTypes DEF RemoteAddr, Peer
<1> QED
  BY <1>1, <1>2, AddressIs, PlainForm, Settling DEF clientAddress, addressOf

LEMMA ConnTypes ==
  ASSUME TypeOK, NEW c \in Conns, ConnNext(c)
  PROVE  TypeOK'
<1> USE DEF clientVars
<1>1. ASSUME NEW k \in Kinds, NEW address \in Spellings[ClientOf[c]], Connect(c, k, address)
      PROVE  TypeOK'
  <2>1. address \in Address
    BY AddressTypes
  <2> QED
    BY <1>1, <2>1 DEF Connect, TypeOK, Address
<1>2. CASE Send(c)
  <2>1. arrived[c] + 1 \in 0..All
    <3>1. arrived[c] \in 0..3 /\ arrived[c] < 3
      BY <1>2 DEF Send, TypeOK, All
    <3> QED
      BY <3>1 DEF All
  <2> QED
    BY <1>2, <2>1 DEF Send, TypeOK, Address
<1>3. CASE HangUp(c)
  BY <1>3 DEF HangUp, TypeOK, Address
<1>4. CASE Expire(c)
  BY <1>4 DEF Expire, TypeOK, Address
<1>5. CASE ReadHeader(c) \/ PeekFails(c) \/ HeaderFails(c)
  <2>1. 0 \in 0..Complete /\ Peeked \in 0..Complete /\ Consumed(c) \in 0..Complete
    BY DEF Complete, Peeked, Consumed
  <2> QED
    BY <1>5, <2>1, SourceType, AddressTypes, HandOverTypes DEF ReadHeader, PeekFails, HeaderFails
<1>6. CASE Observe(c)
  BY <1>6, ClientAddressPlain DEF Observe, TypeOK, Address
<1> QED
  BY <1>1, <1>2, <1>3, <1>4, <1>5, <1>6 DEF ConnNext

LEMMA TypesStep == TypeOK /\ [Next]_vars => TypeOK'
<1> SUFFICES ASSUME TypeOK, [Next]_vars PROVE TypeOK'
  OBVIOUS
<1>1. CASE Accept
  <2>1. Head(backlog) \in Conns /\ Tail(backlog) \in Seq(Conns)
    BY <1>1 DEF Accept, TypeOK
  <2> QED
    BY <1>1, <2>1 DEF Accept, TypeOK, Address, clientVars
<1>2. CASE UNCHANGED vars
  BY <1>2 DEF vars, TypeOK, Address, clientVars
<1> QED
  BY <1>1, <1>2, ConnTypes DEF Next

LEMMA TypesInit == Init => TypeOK
BY AddressTypes DEF Init, TypeOK, All, Complete

\* Every variable keeps its type; an address asked about is a settled one.
THEOREM TypeCorrect == Spec => []TypeOK
BY TypesInit, TypesStep, PTL DEF Spec

-----------------------------------------------------------------------------
(* What a connection carries                                                *)

\* The kernel's queue holds each connection once, until Accept takes it.
Queued ==
  /\ \A i \in 1..Len(backlog) : phase[backlog[i]] = "backlog"
  /\ \A i, j \in 1..Len(backlog) : backlog[i] = backlog[j] => i = j

\* Nobody is asked about before newProxyConn has returned; a connection TLS can
\* read carries the address its header named, if it had one.
Carried(c) ==
  /\ phase[c] # "none" => seen[c] \in Spellings[ClientOf[c]]
  /\ phase[c] # "served" => asked[c] = NoAddress
  /\ phase[c] = "served" => Intact(c) \/ (Header(c) # "none" /\ cut[c])
  /\ phase[c] = "served" /\ Intact(c) => remote[c] = Source(c)

\* What AsksForItself asks of one connection.
AsksRight(c) ==
  asked[c] # NoAddress =>
    IF kind[c] \in {"unusable v1", "unusable v2"} THEN asked[c] = addressOf(Edge)
    ELSE \A udp \in Spellings[ClientOf[c]] : asked[c] = recordedAs(udp)

HeaderInv ==
  /\ TypeOK /\ Queued
  /\ \A c \in Conns : Carried(c) /\ AsksRight(c)

-----------------------------------------------------------------------------
(* Reading the header                                                       *)

\* What the invariant looks at stays as it is for d.
SameAs(d) ==
  /\ phase'[d] = phase[d] /\ kind'[d] = kind[d] /\ seen'[d] = seen[d]
  /\ consumed'[d] = consumed[d] /\ remote'[d] = remote[d]
  /\ cut'[d] = cut[d] /\ asked'[d] = asked[d]

LEMMA ConnFrame ==
  ASSUME TypeOK, NEW c \in Conns, ConnNext(c)
  PROVE  \A d \in Conns \ {c} : SameAs(d)
<1> USE DEF clientVars, TypeOK
<1>1. ASSUME NEW k, NEW address, Connect(c, k, address)
      PROVE  \A d \in Conns \ {c} : SameAs(d)
  BY <1>1 DEF Connect, SameAs
<1>2. CASE Send(c) \/ HangUp(c) \/ Expire(c)
  BY <1>2 DEF Send, HangUp, Expire, SameAs
<1>3. ASSUME NEW parts, NEW source, NEW failed, HandOver(c, parts, source, failed)
      PROVE  \A d \in Conns \ {c} : SameAs(d)
  BY <1>3 DEF HandOver, SameAs
<1>4. CASE Observe(c)
  BY <1>4 DEF Observe, SameAs
<1> QED
  BY <1>1, <1>2, <1>3, <1>4 DEF ConnNext, ReadHeader, PeekFails, HeaderFails

LEMMA SameConn ==
  ASSUME NEW d \in Conns, Carried(d), AsksRight(d), SameAs(d)
  PROVE  Carried(d)' /\ AsksRight(d)'
<1>1. Header(d)' = Header(d) /\ Source(d)' = Source(d) /\ Intact(d)' = Intact(d)
  BY DEF SameAs, Header, Source, Intact
<1>2. Carried(d)'
  BY <1>1 DEF SameAs, Carried
<1>3. AsksRight(d)'
  BY DEF SameAs, AsksRight
<1> QED
  BY <1>2, <1>3

\* No header, no source.
LEMMA HeaderSource ==
  ASSUME NEW c \in Conns, Header(c) = "none"
  PROVE  kind[c] \notin {"v1", "v2"}
<1>1. kind[c] = "v1" => Header(c) = "v1"
  BY DEF Header
<1>2. kind[c] = "v2" => Header(c) = "v2"
  BY DEF Header
<1> QED
  BY <1>1, <1>2

\* newProxyConn takes the whole header, or nothing where there is none, or it
\* was cut short and takes what no TLS can follow.
LEMMA HandOverCarries ==
  ASSUME TypeOK, NEW c \in Conns, Carried(c), AsksRight(c),
         ReadHeader(c) \/ PeekFails(c) \/ HeaderFails(c)
  PROVE  Carried(c)' /\ AsksRight(c)'
<1>1. PICK parts \in 0..Complete, source \in {Source(c), NoAddress}, failed \in BOOLEAN :
        /\ HandOver(c, parts, source, failed)
        /\ \/ parts = Consumed(c) /\ source = Source(c)
           \/ parts = 0 /\ source = NoAddress /\ failed = TRUE
           \/ parts = Peeked /\ source = NoAddress /\ failed = TRUE /\ Header(c) # "none"
  <2>1. 0 \in 0..Complete /\ Peeked \in 0..Complete /\ Consumed(c) \in 0..Complete
    BY DEF Consumed, Complete, Peeked
  <2>2. CASE ReadHeader(c)
    BY <2>1, <2>2 DEF ReadHeader
  <2>3. CASE PeekFails(c)
    BY <2>1, <2>3 DEF PeekFails
  <2>4. CASE HeaderFails(c)
    BY <2>1, <2>4 DEF HeaderFails
  <2> QED
    BY <2>2, <2>3, <2>4
<1>2. /\ phase[c] = "reading" /\ phase'[c] = "served"
      /\ consumed'[c] = parts /\ remote'[c] = source /\ cut'[c] = failed
      /\ kind' = kind /\ seen' = seen /\ asked' = asked
  BY <1>1 DEF HandOver, TypeOK, clientVars
<1>3. Header(c)' = Header(c) /\ Source(c)' = Source(c) /\ asked'[c] = NoAddress
  BY <1>2 DEF Header, Source, Carried
<1>4. Intact(c)' <=> parts = Consumed(c)
  BY <1>2, <1>3 DEF Intact, Consumed
<1>5. Intact(c)' \/ (Header(c)' # "none" /\ cut'[c])
  BY <1>1, <1>2, <1>3, <1>4 DEF Consumed
<1>6. Intact(c)' => remote'[c] = Source(c)'
  <2>1. CASE parts = Consumed(c) /\ source = Source(c)
    BY <1>2, <1>3, <2>1
  <2>2. CASE parts # Consumed(c)
    BY <1>4, <2>2
  <2>3. CASE parts = Consumed(c) /\ source = NoAddress /\ parts \in {0, Peeked}
    <3>1. Header(c) = "none"
      BY <2>3 DEF Consumed, Complete, Peeked
    <3>2. kind[c] \notin {"v1", "v2"}
      BY <3>1, HeaderSource
    <3> QED
      BY <1>2, <1>3, <2>3, <3>2 DEF Source
  <2> QED
    BY <1>1, <2>1, <2>2, <2>3
<1> QED
  BY <1>2, <1>3, <1>5, <1>6 DEF Carried, AsksRight

\* The spellings of one machine are settled alike.
LEMMA SettledAlike ==
  ASSUME NEW c \in Conns, NEW x \in Spellings[ClientOf[c]], NEW y \in Spellings[ClientOf[c]]
  PROVE  Settled(x) = Settled(y)
<1>1. /\ IsAddress(x) /\ IsAddress(y)
      /\ x.host = y.host \/ {x.host, y.host} \subseteq Loopbacks
  BY SpellingAssumption
<1> QED
  BY <1>1, PlainFields DEF Settled

LEMMA ObserveAsks ==
  ASSUME TypeOK, NEW c \in Conns, Carried(c), AsksRight(c), Observe(c)
  PROVE  Carried(c)' /\ AsksRight(c)'
<1>1. /\ phase[c] = "served" /\ Intact(c) /\ asked'[c] = clientAddress(c)
      /\ phase' = phase /\ kind' = kind /\ seen' = seen /\ consumed' = consumed
      /\ remote' = remote /\ cut' = cut
  BY DEF Observe, TypeOK, clientVars
<1>2. remote[c] = Source(c) /\ seen[c] \in Spellings[ClientOf[c]]
  BY <1>1 DEF Carried
<1>3. kind[c] \in {"direct", "v1", "v2", "unusable v1", "unusable v2", "http", "forwarded"}
  BY ProxyAssumption DEF TypeOK
<1>4. Carried(c)'
  <2>1. Header(c)' = Header(c) /\ Source(c)' = Source(c) /\ Intact(c)' = Intact(c)
    BY <1>1 DEF Header, Source, Intact
  <2> QED
    BY <1>1, <2>1 DEF Carried
<1>5. CASE kind[c] \in {"unusable v1", "unusable v2"}
  <2>1. ~Forwarded(c) /\ Source(c) = NoAddress /\ Peer(c) = Edge
    BY <1>5 DEF Forwarded, Source, Peer
  <2>2. clientAddress(c) = addressOf(Edge)
    BY <1>2, <2>1 DEF clientAddress, RemoteAddr
  <2> QED
    BY <1>1, <1>4, <1>5, <2>2 DEF AsksRight
<1>6. CASE kind[c] \notin {"unusable v1", "unusable v2"}
  <2>1. seen[c] # NoAddress
    BY <1>2, SpellingAssumption DEF NoAddress
  <2>2. clientAddress(c) = normalizeAddress(seen[c])
    BY <1>2, <1>3, <1>6, <2>1 DEF clientAddress, addressOf, Forwarded, RemoteAddr, Source, Peer
  <2>3. \A udp \in Spellings[ClientOf[c]] : clientAddress(c) = recordedAs(udp)
    BY <1>2, <2>2, Settling, SettledAlike
  <2> QED
    BY <1>1, <1>4, <1>6, <2>3 DEF AsksRight
<1> QED
  BY <1>5, <1>6

-----------------------------------------------------------------------------
(* The invariant is inductive                                               *)

LEMMA ConnCarries ==
  ASSUME TypeOK, NEW c \in Conns, Carried(c), AsksRight(c), ConnNext(c)
  PROVE  Carried(c)' /\ AsksRight(c)'
<1>1. ASSUME NEW k \in Kinds, NEW address \in Spellings[ClientOf[c]], Connect(c, k, address)
      PROVE  Carried(c)' /\ AsksRight(c)'
  <2>1. /\ phase[c] = "none" /\ phase'[c] = "backlog" /\ seen'[c] = address
        /\ asked'[c] = NoAddress
    BY <1>1 DEF Connect, TypeOK, Carried
  <2> QED
    BY <2>1 DEF Carried, AsksRight
<1>2. CASE Send(c) \/ HangUp(c) \/ Expire(c)
  <2>1. SameAs(c)
    BY <1>2 DEF Send, HangUp, Expire, SameAs, clientVars
  <2> QED
    BY <2>1, SameConn
<1> QED
  BY <1>1, <1>2, HandOverCarries, ObserveAsks DEF ConnNext

LEMMA ConnQueued ==
  ASSUME TypeOK, Queued, NEW c \in Conns, ConnNext(c)
  PROVE  Queued'
<1>1. backlog \in Seq(Conns) /\ \A i \in 1..Len(backlog) : backlog[i] \in Conns
  BY DEF TypeOK
<1>2. ASSUME NEW k, NEW address, Connect(c, k, address)
      PROVE  Queued'
  <2>1. /\ backlog' = Append(backlog, c) /\ phase[c] = "none"
        /\ phase' = [phase EXCEPT ![c] = "backlog"]
    BY <1>2 DEF Connect
  <2>2. /\ Len(backlog') = Len(backlog) + 1 /\ backlog'[Len(backlog) + 1] = c
        /\ \A i \in 1..Len(backlog) : backlog'[i] = backlog[i] /\ backlog[i] # c
    BY <1>1, <2>1 DEF Queued
  <2>3. \A i \in 1..Len(backlog') : i \in 1..Len(backlog) \/ i = Len(backlog) + 1
    BY <1>1, <2>2
  <2>4. \A i \in 1..Len(backlog') : phase'[backlog'[i]] = "backlog"
    BY <1>1, <2>1, <2>2, <2>3 DEF Queued, TypeOK
  <2>5. \A i, j \in 1..Len(backlog') : backlog'[i] = backlog'[j] => i = j
    BY <2>2, <2>3 DEF Queued
  <2> QED
    BY <2>4, <2>5 DEF Queued
<1>3. ASSUME NEW parts, NEW source, NEW failed, HandOver(c, parts, source, failed)
      PROVE  Queued'
  <2>1. /\ backlog' = backlog /\ phase[c] = "reading"
        /\ \A d \in Conns \ {c} : phase'[d] = phase[d]
    BY <1>3 DEF HandOver, TypeOK
  <2> QED
    BY <1>1, <2>1 DEF Queued
<1>4. CASE Send(c) \/ HangUp(c) \/ Expire(c) \/ Observe(c)
  BY <1>4 DEF Send, HangUp, Expire, Observe, Queued
<1> QED
  BY <1>2, <1>3, <1>4 DEF ConnNext, ReadHeader, PeekFails, HeaderFails

LEMMA AcceptKeeps ==
  ASSUME HeaderInv, Accept
  PROVE  Queued' /\ \A c \in Conns : Carried(c)' /\ AsksRight(c)'
<1>1. /\ TypeOK /\ Queued /\ backlog \in Seq(Conns) /\ backlog # <<>>
      /\ \A i \in 1..Len(backlog) : backlog[i] \in Conns
  BY DEF HeaderInv, TypeOK, Accept
<1>2. PICK h \in Conns : /\ h = Head(backlog) /\ phase[h] = "backlog"
                         /\ h = backlog[1] /\ 1 \in 1..Len(backlog)
  BY <1>1 DEF Queued
<1>3. /\ backlog' = Tail(backlog)
      /\ phase'[h] = "reading" /\ \A c \in Conns \ {h} : phase'[c] = phase[c]
      /\ kind' = kind /\ seen' = seen /\ consumed' = consumed /\ remote' = remote
      /\ cut' = cut /\ asked' = asked
  BY <1>1, <1>2 DEF Accept, TypeOK, clientVars
<1>4. /\ Len(backlog') = Len(backlog) - 1
      /\ \A i \in 1..Len(backlog') : backlog'[i] = backlog[i + 1] /\ i + 1 \in 1..Len(backlog)
  BY <1>1, <1>3
<1>5. Queued'
  <2>1. \A i \in 1..Len(backlog') : backlog[i + 1] # h
    BY <1>1, <1>2, <1>4 DEF Queued
  <2>2. \A i \in 1..Len(backlog') : phase'[backlog'[i]] = "backlog"
    BY <1>1, <1>3, <1>4, <2>1 DEF Queued
  <2>3. \A i, j \in 1..Len(backlog') : backlog'[i] = backlog'[j] => i = j
    <3> SUFFICES ASSUME NEW i \in 1..Len(backlog'), NEW j \in 1..Len(backlog'), backlog'[i] = backlog'[j]
                 PROVE  i = j
      OBVIOUS
    <3>1. i + 1 = j + 1
      BY <1>1, <1>4 DEF Queued
    <3> QED
      BY <3>1
  <2> QED
    BY <2>2, <2>3 DEF Queued
<1>6. \A c \in Conns \ {h} : Carried(c)' /\ AsksRight(c)'
  BY <1>3, SameConn DEF HeaderInv, SameAs
<1>7. Carried(h)' /\ AsksRight(h)'
  BY <1>2, <1>3 DEF HeaderInv, Carried, AsksRight
<1> QED
  BY <1>5, <1>6, <1>7

LEMMA HeaderStep == HeaderInv /\ [Next]_vars => HeaderInv'
<1> SUFFICES ASSUME HeaderInv, [Next]_vars PROVE HeaderInv'
  OBVIOUS
<1>1. TypeOK'
  BY TypesStep DEF HeaderInv
<1>2. CASE Accept
  BY <1>1, <1>2, AcceptKeeps DEF HeaderInv
<1>3. ASSUME NEW c \in Conns, ConnNext(c)
      PROVE  Queued' /\ \A d \in Conns : Carried(d)' /\ AsksRight(d)'
  <2>1. Queued' /\ Carried(c)' /\ AsksRight(c)'
    BY <1>3, ConnQueued, ConnCarries DEF HeaderInv
  <2>2. \A d \in Conns \ {c} : Carried(d)' /\ AsksRight(d)'
    BY <1>3, ConnFrame, SameConn DEF HeaderInv
  <2> QED
    BY <2>1, <2>2
<1>4. CASE UNCHANGED vars
  <2>1. Queued' /\ \A c \in Conns : SameAs(c)
    BY <1>4 DEF vars, HeaderInv, Queued, SameAs, clientVars
  <2> QED
    BY <1>1, <2>1, SameConn DEF HeaderInv
<1> QED
  BY <1>1, <1>2, <1>3, <1>4 DEF Next, HeaderInv

LEMMA HeaderInit == Init => HeaderInv
<1> SUFFICES ASSUME Init PROVE HeaderInv
  OBVIOUS
<1>1. TypeOK
  BY TypesInit
<1>2. Queued
  <2>1. 1..Len(backlog) = {}
    BY DEF Init
  <2> QED
    BY <2>1 DEF Queued
<1>3. \A c \in Conns : Carried(c) /\ AsksRight(c)
  BY DEF Init, Carried, AsksRight
<1> QED
  BY <1>1, <1>2, <1>3 DEF HeaderInv

\* The inductive invariant behind the two theorems below.
THEOREM HeaderInvariant == Spec => []HeaderInv
BY HeaderInit, HeaderStep, PTL DEF Spec

\* Whatever is in front of a connection and however slowly it arrives,
\* newProxyConn takes the header and nothing else, unless the header itself was
\* cut short.
THEOREM HeaderTakenWhole == Spec => []TakesTheHeaderOnly
<1>1. HeaderInv => TakesTheHeaderOnly
  BY DEF HeaderInv, Carried, TakesTheHeaderOnly
<1> QED
  BY <1>1, HeaderInvariant, PTL

\* The address a page asks about is the one its own client is recorded under,
\* by whatever path it came; behind a proxy that names nobody it is the proxy's.
THEOREM PageAsksForItself == Spec => []AsksForItself
<1>1. HeaderInv => AsksForItself
  BY DEF HeaderInv, AsksRight, AsksForItself
<1> QED
  BY <1>1, HeaderInvariant, PTL

-----------------------------------------------------------------------------
(* The accept loop goes on                                                  *)

\* Whoever waits is in the queue; the loop is held by one connection at most,
\* against a deadline; a connection handed over carries none.
WayOut(c) ==
  /\ phase[c] = "backlog" => \E i \in 1..Len(backlog) : backlog[i] = c
  /\ phase[c] = "reading" => deadline[c] \in {"armed", "passed"}
  /\ phase[c] # "reading" => deadline[c] = "none"

LoopGoesOn ==
  /\ \A c \in Conns : WayOut(c)
  /\ \A c, d \in Conns : phase[c] = "reading" /\ phase[d] = "reading" => c = d

\* A connection that moves leaves the others and their deadlines alone, and
\* takes nobody out of the queue.
LEMMA OthersWait ==
  ASSUME TypeOK, NEW c \in Conns, ConnNext(c)
  PROVE  /\ \A d \in Conns \ {c} : phase'[d] = phase[d] /\ deadline'[d] = deadline[d]
         /\ phase'[c] = "reading" => phase[c] = "reading"
         /\ \A i \in 1..Len(backlog) : i \in 1..Len(backlog') /\ backlog'[i] = backlog[i]
<1>1. \A a \in Conns : /\ Len(Append(backlog, a)) = Len(backlog) + 1
                       /\ \A i \in 1..Len(backlog) : Append(backlog, a)[i] = backlog[i]
  BY DEF TypeOK
<1>2. Len(backlog) \in Nat
  BY DEF TypeOK
<1>3. ASSUME NEW k, NEW address, Connect(c, k, address)
      PROVE  /\ \A d \in Conns \ {c} : phase'[d] = phase[d] /\ deadline'[d] = deadline[d]
             /\ phase'[c] = "reading" => phase[c] = "reading"
             /\ \A i \in 1..Len(backlog) : i \in 1..Len(backlog') /\ backlog'[i] = backlog[i]
  BY <1>1, <1>2, <1>3 DEF Connect, TypeOK
<1>4. ASSUME NEW parts, NEW source, NEW failed, HandOver(c, parts, source, failed)
      PROVE  /\ \A d \in Conns \ {c} : phase'[d] = phase[d] /\ deadline'[d] = deadline[d]
             /\ phase'[c] = "reading" => phase[c] = "reading"
             /\ backlog' = backlog
  BY <1>4 DEF HandOver, TypeOK
<1>5. CASE Send(c) \/ HangUp(c) \/ Expire(c) \/ Observe(c)
  BY <1>5 DEF Send, HangUp, Expire, Observe, TypeOK
<1> QED
  BY <1>3, <1>4, <1>5 DEF ConnNext, ReadHeader, PeekFails, HeaderFails

\* The step leaves the connection in the queue, held against its deadline, or
\* without one.
LEMMA OwnWayOut ==
  ASSUME TypeOK, NEW c \in Conns, ConnNext(c), WayOut(c)
  PROVE  WayOut(c)'
<1>1. ASSUME NEW k, NEW address, Connect(c, k, address)
      PROVE  WayOut(c)'
  <2>1. /\ phase'[c] = "backlog" /\ deadline'[c] = "none"
        /\ backlog' = Append(backlog, c) /\ backlog \in Seq(Conns)
    BY <1>1 DEF Connect, TypeOK, WayOut
  <2>2. Len(backlog) + 1 \in 1..Len(backlog') /\ backlog'[Len(backlog) + 1] = c
    BY <2>1
  <2> QED
    BY <2>1, <2>2 DEF WayOut
<1>2. ASSUME NEW parts, NEW source, NEW failed, HandOver(c, parts, source, failed)
      PROVE  WayOut(c)'
  BY <1>2 DEF HandOver, Disarmed, TypeOK, WayOut
<1>3. CASE Expire(c)
  BY <1>3 DEF Expire, TypeOK, WayOut
<1>4. CASE Send(c) \/ HangUp(c) \/ Observe(c)
  BY <1>4 DEF Send, HangUp, Observe, WayOut
<1> QED
  BY <1>1, <1>2, <1>3, <1>4 DEF ConnNext, ReadHeader, PeekFails, HeaderFails

LEMMA AcceptGoesOn ==
  ASSUME HeaderInv, LoopGoesOn, Accept
  PROVE  LoopGoesOn'
<1>1. /\ TypeOK /\ backlog \in Seq(Conns) /\ backlog # <<>>
      /\ \A i, j \in 1..Len(backlog) : backlog[i] = backlog[j] => i = j
      /\ \A c \in Conns : WayOut(c) /\ phase[c] # "reading"
  BY DEF HeaderInv, TypeOK, Accept, LoopGoesOn, Queued
<1>2. PICK h \in Conns : h = Head(backlog) /\ h = backlog[1]
  BY <1>1
<1>3. /\ phase'[h] = "reading" /\ deadline'[h] = "armed"
      /\ \A c \in Conns \ {h} : phase'[c] = phase[c] /\ deadline'[c] = deadline[c]
      /\ backlog' = Tail(backlog)
  BY <1>1, <1>2 DEF Accept, TypeOK
<1>4. ASSUME NEW c \in Conns \ {h} PROVE WayOut(c)'
  <2>1. ASSUME NEW i \in 1..Len(backlog), backlog[i] = c
        PROVE  i - 1 \in 1..Len(backlog') /\ backlog'[i - 1] = c
    BY <1>1, <1>2, <1>3, <2>1
  <2> QED
    BY <1>1, <1>3, <2>1 DEF WayOut
<1>5. WayOut(h)'
  BY <1>3 DEF WayOut
<1> QED
  BY <1>1, <1>3, <1>4, <1>5 DEF LoopGoesOn

LEMMA GoesOnStep == HeaderInv /\ LoopGoesOn /\ [Next]_vars => LoopGoesOn'
<1> SUFFICES ASSUME HeaderInv, LoopGoesOn, [Next]_vars PROVE LoopGoesOn'
  OBVIOUS
<1>1. ASSUME NEW c \in Conns, ConnNext(c) PROVE LoopGoesOn'
  <2>1. TypeOK /\ WayOut(c)'
    BY <1>1, OwnWayOut DEF HeaderInv, LoopGoesOn
  <2>2. \A d \in Conns \ {c} : WayOut(d)'
    BY <1>1, <2>1, OthersWait DEF LoopGoesOn, WayOut
  <2>3. \A d, e \in Conns : phase'[d] = "reading" /\ phase'[e] = "reading" => d = e
    BY <1>1, <2>1, OthersWait DEF LoopGoesOn
  <2> QED
    BY <2>1, <2>2, <2>3 DEF LoopGoesOn
<1>2. CASE UNCHANGED vars
  BY <1>2 DEF vars, LoopGoesOn, WayOut
<1> QED
  BY <1>1, <1>2, AcceptGoesOn DEF Next

\* "must not hold the accept loop" (proxy.go:47), the part that needs no
\* fairness: at any moment one connection at most holds the loop and a deadline
\* runs against it or has passed, nobody who waits has dropped out of the queue,
\* and nobody handed over still has the header's deadline on its connection.
THEOREM AcceptLoopGoesOn == Spec => []LoopGoesOn
<1>1. Init => LoopGoesOn
  BY DEF Init, LoopGoesOn, WayOut
<1> QED
  BY <1>1, GoesOnStep, HeaderInvariant, PTL DEF Spec
=============================================================================
