---------------------------- MODULE CertStoreProofs ----------------------------
(***************************************************************************)
(* What holds of CertStore for any ports, modes and tabs, however often    *)
(* the processes die and whichever file operations fail.                   *)
(***************************************************************************)
EXTENDS CertStore, SequenceTheorems, TLAPS

USE CertAssumption

-----------------------------------------------------------------------------
(* Certificates                                                             *)

Minted == {"ca", "lab", "page", "pinned", "certsign"}

LEMMA CertTypes ==
  /\ Absent \in Certs /\ Torn \in Certs /\ Chain \in Certs
  /\ \A what \in Minted, n \in Nat : Cert(what, n) \in Certs
BY DEF Certs, Cert, Absent, Torn, Chain, Minted

\* No certificate is taken for a missing or an empty file.
LEMMA CertsDiffer ==
  /\ Absent # Torn /\ Absent # Chain /\ Torn # Chain
  /\ \A what \in Minted, n \in Nat : Cert(what, n) \notin {Absent, Torn, Chain}
BY DEF Cert, Absent, Torn, Chain, Minted

LEMMA LeafType ==
  ASSUME NEW p, NEW boot \in Nat
  PROVE  LeafOf(p, boot) \in Certs \ {Absent, Torn, Chain}
BY CertTypes, CertsDiffer DEF LeafOf, Minted

LEMMA ServedType ==
  ASSUME NEW mode \in Modes, NEW boot \in Nat
  PROVE  /\ Served(mode, boot) \in Certs \ {Absent, Torn}
         /\ HashOf(mode, Served(mode, boot)) \in Certs \ {Torn}
         /\ \/ HashOf(mode, Served(mode, boot)) = Served(mode, boot)
            \/ HashOf(mode, Served(mode, boot)) = Absent /\ Served(mode, boot) = Chain
<1>1. mode \in {"hash", "ca", "le"}
  OBVIOUS
<1>2. mintWTCert(boot) \in Certs \ {Absent, Torn} /\ mintPageChain(boot) \in Certs \ {Absent, Torn}
  BY CertTypes, CertsDiffer DEF mintWTCert, mintPageChain, Minted
<1>3. Absent \in Certs \ {Torn} /\ Chain \in Certs \ {Absent, Torn}
  BY CertTypes, CertsDiffer
<1> QED
  BY <1>1, <1>2, <1>3 DEF Served, HashOf

-----------------------------------------------------------------------------
(* Type correctness                                                         *)

\* The part of TypeOK each of the three parties moves; the file that legacy has
\* emptied is that of the port it is at.
LabTypes ==
  /\ labAt \in {"down", "load", "open", "write", "sign", "serve"}
  /\ writing \in Files
  /\ ca \in [Files -> Certs \ {Torn}] /\ disk \in [Files -> Certs]
  /\ mints \in Nat /\ labBoots \in Nat
  /\ {labLeaf, hash, pageCA, profile} \subseteq Certs \ {Torn}
  /\ mishaps \subseteq {"death", "error"}

LegacyTypes ==
  /\ legacyBoots \in Nat
  /\ legacyAt \in {"down", "publish", "truncated", "listen"}
  /\ unpublished \in Seq(PinnedPorts)
  /\ published \in [PinnedPorts -> Certs]
  /\ listener \in [PinnedPorts -> {"down", "up", "failed"}]
  /\ legacyAt = "truncated" => unpublished # <<>>

TabTypes ==
  /\ pin \in [Tabs -> Certs \ {Torn}]
  /\ since \in [Tabs -> Nat]
  /\ outcome \in [Tabs -> {"none", "fetched", "trusted", "refused", "outdated"}]

Bounds == deaths \in 0..MaxDeaths /\ faults \in 0..MaxFaults

TypeInv == Bounds /\ LabTypes /\ LegacyTypes /\ TabTypes

LEMMA TypesAre == TypeInv => TypeOK
BY DEF TypeInv, TypeOK, Bounds, LabTypes, LegacyTypes, TabTypes

LEMMA BoundsStep ==
  ASSUME Bounds, [Next]_vars
  PROVE  Bounds'
<1>1. CASE UNCHANGED <<deaths, faults>>
  BY <1>1 DEF Bounds
<1>2. CASE Die /\ faults' = faults
  BY <1>2 DEF Bounds, Die
<1>3. CASE Fail /\ deaths' = deaths
  BY <1>3 DEF Bounds, Fail
<1> QED
  BY <1>1, <1>2, <1>3 DEF Next, vars,
     Start, Load, Mint, Open, Write, WriteFails, LabDies, Install, Sign,
     LegacyStart, Truncate, Publish, PublishFails, Fatal, LegacyDies, Listen,
     ListenerFails, FetchHash, Dial

-----------------------------------------------------------------------------
(* The three parties                                                        *)

LabStep ==
  \/ Start \/ Load \/ Mint \/ Open \/ Write \/ WriteFails \/ LabDies \/ Install
  \/ \E mode \in Modes : Sign(mode)

LegacyStep ==
  \/ LegacyStart \/ Truncate \/ Publish \/ PublishFails \/ Fatal \/ LegacyDies
  \/ \E p \in PinnedPorts : Listen(p) \/ ListenerFails(p)

TabStep == \E t \in Tabs : FetchHash(t) \/ Dial(t)

\* A step is one party's, and leaves the others' state alone.
LEMMA Parties ==
  ASSUME [Next]_vars
  PROVE  \/ LabStep /\ UNCHANGED <<legacyVars, tabVars>>
         \/ LegacyStep /\ UNCHANGED <<mishaps, labVars, profile, tabVars>>
         \/ TabStep /\ UNCHANGED <<mishaps, labVars, profile, legacyVars>>
         \/ UNCHANGED <<mishaps, labVars, profile, legacyVars, tabVars>>
<1>1. CASE LabStep
  BY <1>1 DEF LabStep, Start, Load, Mint, Open, Write, WriteFails, LabDies, Install, Sign
<1>2. CASE LegacyStep
  BY <1>2 DEF LegacyStep, LegacyStart, Truncate, Publish, PublishFails, Fatal, LegacyDies,
     Listen, ListenerFails
<1>3. CASE TabStep
  BY <1>3 DEF TabStep, FetchHash, Dial
<1>4. CASE UNCHANGED vars
  BY <1>4 DEF vars
<1> QED
  BY <1>1, <1>2, <1>3, <1>4 DEF Next, LabStep, LegacyStep, TabStep

LEMMA LabTypesStep ==
  ASSUME LabTypes, LabStep
  PROVE  LabTypes'
<1> USE DEF LabTypes
<1>1. CASE Start \/ LabDies
  BY <1>1 DEF Start, LabDies
<1>2. CASE Load
  BY <1>2 DEF Load
<1>3. CASE Mint
  <2>1. mints' \in Nat /\ Cert("ca", mints') \in Certs \ {Torn}
    BY <1>3, CertTypes, CertsDiffer DEF Mint, Minted
  <2> QED
    BY <1>3, <2>1 DEF Mint, Files
<1>4. CASE Open \/ Write \/ WriteFails
  BY <1>4, CertTypes DEF Open, Write, WriteFails, NextFile, Files
<1>5. CASE Install
  <2>1. ca["pem"] \in Certs \ {Torn}
    BY DEF Files
  <2> QED
    BY <1>5, <2>1 DEF Install, labVars
<1>6. ASSUME NEW mode \in Modes, Sign(mode)
      PROVE  LabTypes'
  <2>1. CASE ca["key"] # ca["pem"]
    BY <1>6, <2>1 DEF Sign
  <2>2. CASE ca["key"] = ca["pem"]
    <3>1. labBoots' \in Nat /\ labLeaf' = Served(mode, labBoots') /\ hash' = HashOf(mode, labLeaf')
      BY <1>6, <2>2 DEF Sign
    <3>2. labLeaf' \in Certs \ {Torn} /\ hash' \in Certs \ {Torn}
      BY <3>1, ServedType
    <3>3. pageCA' \in Certs \ {Torn}
      BY <1>6, <2>2, CertTypes, CertsDiffer DEF Sign, Files
    <3> QED
      BY <1>6, <2>2, <3>1, <3>2, <3>3 DEF Sign
  <2> QED
    BY <2>1, <2>2
<1> QED
  BY <1>1, <1>2, <1>3, <1>4, <1>5, <1>6 DEF LabStep

LEMMA LegacyTypesStep ==
  ASSUME LegacyTypes, LegacyStep
  PROVE  LegacyTypes'
<1> USE DEF LegacyTypes
<1>1. CASE LegacyStart
  BY <1>1 DEF LegacyStart
<1>2. CASE Truncate
  BY <1>2, CertTypes DEF Truncate
<1>3. CASE Publish
  <2>1. Tail(unpublished) \in Seq(PinnedPorts)
    BY <1>3 DEF Publish
  <2> QED
    BY <1>3, <2>1, LeafType DEF Publish, HashFor
<1>4. CASE PublishFails \/ Fatal \/ LegacyDies
  <2>1. <<>> \in Seq(PinnedPorts)
    OBVIOUS
  <2>2. LegacyEnds /\ UNCHANGED <<published, legacyBoots>>
    BY <1>4 DEF PublishFails, Fatal, LegacyDies
  <2> QED
    BY <2>1, <2>2 DEF LegacyEnds
<1>5. ASSUME NEW p \in PinnedPorts, Listen(p) \/ ListenerFails(p)
      PROVE  LegacyTypes'
  BY <1>5 DEF Listen, ListenerFails
<1> QED
  BY <1>1, <1>2, <1>3, <1>4, <1>5 DEF LegacyStep

LEMMA AnswerType ==
  ASSUME LabTypes, LegacyTypes, NEW t \in Tabs
  PROVE  Answer(PortOf[t]) \in Certs \ {Torn}
<1>1. PortOf[t] = LabPort \/ PortOf[t] \in PinnedPorts
  OBVIOUS
<1> QED
  BY <1>1, CertTypes, CertsDiffer DEF Answer, LabTypes, LegacyTypes

LEMMA TabTypesStep ==
  ASSUME LabTypes, LegacyTypes, TabTypes, TabStep
  PROVE  TabTypes'
<1>1. ASSUME NEW t \in Tabs, FetchHash(t)
      PROVE  TabTypes'
  <2>1. Answer(PortOf[t]) \in Certs \ {Torn} /\ Boot(PortOf[t]) \in Nat
    BY AnswerType DEF Boot, LabTypes, LegacyTypes
  <2> QED
    BY <1>1, <2>1 DEF FetchHash, TabTypes
<1>2. ASSUME NEW t \in Tabs, Dial(t)
      PROVE  TabTypes'
  BY <1>2 DEF Dial, TabTypes
<1> QED
  BY <1>1, <1>2 DEF TabStep

LEMMA TypesStep == TypeInv /\ [Next]_vars => TypeInv'
<1> SUFFICES ASSUME TypeInv, [Next]_vars PROVE TypeInv'
  OBVIOUS
<1>1. Bounds' /\ LabTypes /\ LegacyTypes /\ TabTypes
  BY BoundsStep DEF TypeInv
<1>2. LabTypes'
  BY <1>1, Parties, LabTypesStep DEF LabTypes, labVars
<1>3. LegacyTypes'
  BY <1>1, Parties, LegacyTypesStep DEF LegacyTypes, legacyVars
<1>4. TabTypes'
  BY <1>1, Parties, TabTypesStep DEF TabTypes, tabVars
<1> QED
  BY <1>1, <1>2, <1>3, <1>4 DEF TypeInv

LEMMA TypesInit == Init => TypeInv
BY CertTypes, CertsDiffer DEF Init, TypeInv, Bounds, LabTypes, LegacyTypes, TabTypes, Files

LEMMA TypeInvariant == Spec => []TypeInv
BY TypesInit, TypesStep, PTL DEF Spec

\* Every variable keeps its type: the CA in memory, what the ports serve, what
\* /hash answers and what a device installs are never a file left empty.
THEOREM TypeCorrect == Spec => []TypeOK
BY TypeInvariant, TypesAre, PTL

-----------------------------------------------------------------------------
(* A pin holds                                                              *)

\* What /hash and a pin are to be compared with: the leaf, or for a real chain
\* nothing.
Matches(answer, leaf) == answer = leaf \/ (answer = Absent /\ leaf = Chain)

\* What /hash answers is the leaf of the boot that answers.
LabHash ==
  /\ labAt = "serve" => labBoots > 0
  /\ labBoots > 0 => Matches(hash, labLeaf)

\* A port is answered for once its hash is that of the leaf of this boot.
LegacyHashes ==
  /\ \A p \in PinnedPorts : listener[p] = "up" => legacyAt = "listen"
  /\ legacyAt = "listen" => unpublished = <<>>
  /\ legacyAt # "down" =>
       /\ legacyBoots > 0
       /\ \A p \in PinnedPorts :
            (\A i \in DOMAIN unpublished : unpublished[i] # p)
               => published[p] = LeafOf(p, legacyBoots)

\* A hash fetched of the boot that still serves matches its leaf.
PinsMatch ==
  \A t \in Tabs :
    /\ outcome[t] # "refused"
    /\ since[t] <= Boot(PortOf[t])
    /\ outcome[t] = "fetched" /\ since[t] # 0 /\ since[t] = Boot(PortOf[t])
         => Matches(pin[t], Leaf(PortOf[t]))

PinInv == TypeInv /\ LabHash /\ LegacyHashes /\ PinsMatch

LEMMA LabHashStep ==
  ASSUME LabTypes, LabHash, LabStep
  PROVE  LabHash'
<1>1. ASSUME NEW mode \in Modes, Sign(mode)
      PROVE  LabHash'
  <2>1. CASE ca["key"] # ca["pem"]
    BY <1>1, <2>1 DEF Sign, LabHash
  <2>2. CASE ca["key"] = ca["pem"]
    <3>1. labBoots' = labBoots + 1 /\ labLeaf' = Served(mode, labBoots')
          /\ hash' = HashOf(mode, labLeaf')
      BY <1>1, <2>2 DEF Sign
    <3>2. labBoots' \in Nat /\ labBoots' > 0
      BY <3>1 DEF LabTypes
    <3>3. Matches(hash', labLeaf')
      BY <3>1, <3>2, ServedType DEF Matches
    <3> QED
      BY <3>2, <3>3 DEF LabHash
  <2> QED
    BY <2>1, <2>2
<1>2. CASE Start \/ Load \/ Mint \/ Open \/ Write \/ WriteFails \/ LabDies
  <2>1. labAt' # "serve" /\ UNCHANGED <<labBoots, hash, labLeaf>>
    BY <1>2 DEF Start, Load, Mint, Open, Write, WriteFails, LabDies, NextFile
  <2> QED
    BY <2>1 DEF LabHash
<1>3. CASE Install
  BY <1>3 DEF Install, labVars, LabHash
<1> QED
  BY <1>1, <1>2, <1>3 DEF LabStep

\* Of a sequence that is not empty, an element that is not the head is in the
\* tail.
LEMMA InTail ==
  ASSUME NEW S, NEW s \in Seq(S), s # <<>>, NEW p, p # Head(s),
         \A i \in DOMAIN Tail(s) : Tail(s)[i] # p
  PROVE  \A i \in DOMAIN s : s[i] # p
<1> TAKE i \in DOMAIN s
<1>1. s[1] = Head(s) /\ DOMAIN s = 1..Len(s) /\ DOMAIN Tail(s) = 1..(Len(s) - 1)
  BY HeadTailProperties
<1>2. CASE i = 1
  BY <1>1, <1>2
<1>3. CASE i # 1
  <2>1. i - 1 \in DOMAIN Tail(s) /\ Tail(s)[i - 1] = s[i]
    BY <1>1, <1>3, HeadTailProperties
  <2> QED
    BY <2>1
<1> QED
  BY <1>2, <1>3

LEMMA LegacyHashesStep ==
  ASSUME LegacyTypes, LegacyHashes, LegacyStep
  PROVE  LegacyHashes'
<1>1. CASE LegacyStart
  <2>1. legacyBoots' > 0 /\ legacyAt' = "publish" /\ unpublished' = PublishOrder
        /\ UNCHANGED listener
    BY <1>1 DEF LegacyStart, LegacyTypes
  <2>2. \A p \in PinnedPorts : listener[p] # "up"
    BY <1>1 DEF LegacyStart, LegacyHashes
  <2>3. \A p \in PinnedPorts : \E i \in DOMAIN PublishOrder : PublishOrder[i] = p
    BY DEF PinnedPorts
  <2> QED
    BY <2>1, <2>2, <2>3 DEF LegacyHashes
<1>2. CASE Truncate
  <2>1. PICK h : h = Head(unpublished)
    OBVIOUS
  <2>2. unpublished[1] = h /\ 1 \in DOMAIN unpublished
    BY <1>2, <2>1 DEF Truncate, LegacyTypes
  <2>3. published' = [published EXCEPT ![h] = Torn] /\ legacyAt' = "truncated"
        /\ UNCHANGED <<unpublished, listener, legacyBoots>>
    BY <1>2, <2>1 DEF Truncate
  <2>4. legacyAt = "publish"
    BY <1>2 DEF Truncate
  <2>5. ASSUME NEW p \in PinnedPorts, \A i \in DOMAIN unpublished' : unpublished'[i] # p
        PROVE  published'[p] = LeafOf(p, legacyBoots)
    BY <2>2, <2>3, <2>4, <2>5 DEF LegacyHashes, LegacyTypes
  <2> QED
    BY <2>3, <2>4, <2>5 DEF LegacyHashes
<1>3. CASE Publish
  <2>1. PICK h : h = Head(unpublished)
    OBVIOUS
  <2>2. unpublished \in Seq(PinnedPorts) /\ unpublished # <<>> /\ legacyAt = "truncated"
    BY <1>3 DEF Publish, LegacyTypes
  <2>3. published' = [published EXCEPT ![h] = LeafOf(h, legacyBoots)]
        /\ unpublished' = Tail(unpublished) /\ legacyAt' = "publish"
        /\ UNCHANGED <<listener, legacyBoots>>
    BY <1>3, <2>1 DEF Publish, HashFor
  <2>4. ASSUME NEW p \in PinnedPorts, \A i \in DOMAIN unpublished' : unpublished'[i] # p
        PROVE  published'[p] = LeafOf(p, legacyBoots)
    <3>1. CASE p = h
      BY <2>3, <3>1 DEF LegacyTypes
    <3>2. CASE p # h
      <4>1. \A i \in DOMAIN unpublished : unpublished[i] # p
        BY <2>1, <2>2, <2>3, <2>4, <3>2, InTail
      <4> QED
        BY <2>2, <2>3, <3>2, <4>1 DEF LegacyHashes, LegacyTypes
    <3> QED
      BY <3>1, <3>2
  <2> QED
    BY <2>2, <2>3, <2>4 DEF LegacyHashes
<1>4. CASE PublishFails \/ Fatal \/ LegacyDies
  <2>1. LegacyEnds
    BY <1>4 DEF PublishFails, Fatal, LegacyDies
  <2> QED
    BY <2>1 DEF LegacyEnds, LegacyHashes
<1>5. ASSUME NEW q \in PinnedPorts, Listen(q) \/ ListenerFails(q)
      PROVE  LegacyHashes'
  <2>1. Published /\ legacyAt' = "listen" /\ UNCHANGED <<unpublished, published, legacyBoots>>
    BY <1>5 DEF Listen, ListenerFails, Published
  <2> QED
    BY <2>1 DEF LegacyHashes, Published
<1> QED
  BY <1>1, <1>2, <1>3, <1>4, <1>5 DEF LegacyStep

\* A boot keeps its leaf.
LEMMA BootKeepsLeaf ==
  ASSUME LabTypes, LegacyTypes, [Next]_vars, NEW p \in PinnedPorts \cup {LabPort}
  PROVE  /\ Boot(p) \in Nat /\ Boot(p)' \in Nat /\ Boot(p) <= Boot(p)'
         /\ Boot(p)' = Boot(p) => Leaf(p)' = Leaf(p)
<1>1. labBoots \in Nat /\ legacyBoots \in Nat
  BY DEF LabTypes, LegacyTypes
<1>2. labBoots' = labBoots + 1 \/ UNCHANGED <<labBoots, labLeaf>>
  <2>1. CASE UNCHANGED <<labBoots, labLeaf>>
    BY <2>1
  <2>2. ASSUME NEW mode \in Modes, Sign(mode)
        PROVE  labBoots' = labBoots + 1 \/ UNCHANGED <<labBoots, labLeaf>>
    BY <2>2 DEF Sign
  <2>3. CASE Start \/ Load \/ Mint \/ Open \/ Write \/ WriteFails \/ LabDies \/ Install
    BY <2>3 DEF Start, Load, Mint, Open, Write, WriteFails, LabDies, Install, labVars
  <2> QED
    BY <2>1, <2>2, <2>3, Parties DEF LabStep, labVars
<1>3. legacyBoots' = legacyBoots + 1 \/ UNCHANGED legacyBoots
  <2>1. CASE LegacyStep
    BY <2>1 DEF LegacyStep, LegacyStart, Truncate, Publish, PublishFails, Fatal, LegacyDies,
       Listen, ListenerFails
  <2> QED
    BY <2>1, Parties DEF legacyVars
<1> QED
  BY <1>1, <1>2, <1>3 DEF Boot, Leaf

\* What is answered for a port that serves is the leaf it serves.
LEMMA AnswerMatches ==
  ASSUME PinInv, NEW p \in PinnedPorts \cup {LabPort}, Serving(p)
  PROVE  Matches(Answer(p), Leaf(p))
<1>1. CASE p = LabPort
  BY <1>1 DEF PinInv, LabHash, Serving, Answer, Leaf
<1>2. CASE p # LabPort
  <2>1. listener[p] = "up" /\ p \in PinnedPorts
    BY <1>2 DEF Serving
  <2>2. legacyAt = "listen" /\ unpublished = <<>>
    BY <2>1 DEF PinInv, LegacyHashes
  <2>3. published[p] = LeafOf(p, legacyBoots)
    BY <2>1, <2>2 DEF PinInv, LegacyHashes
  <2>4. published[p] # Torn
    BY <2>3, LeafType, CertsDiffer DEF PinInv, TypeInv, LegacyTypes
  <2> QED
    BY <1>2, <2>3, <2>4 DEF Answer, Leaf, Matches
<1> QED
  BY <1>1, <1>2

LEMMA PinsMatchStep ==
  ASSUME PinInv, [Next]_vars
  PROVE  PinsMatch'
<1> USE DEF PinInv, TypeInv
<1>1. \A t \in Tabs : PortOf[t] \in PinnedPorts \cup {LabPort}
  OBVIOUS
<1>2. CASE UNCHANGED tabVars
  <2>1. ASSUME NEW t \in Tabs
        PROVE  /\ outcome'[t] # "refused"
               /\ since'[t] <= Boot(PortOf[t])'
               /\ outcome'[t] = "fetched" /\ since'[t] # 0 /\ since'[t] = Boot(PortOf[t])'
                    => Matches(pin'[t], Leaf(PortOf[t])')
    <3>1. PICK p \in PinnedPorts \cup {LabPort} : p = PortOf[t]
      BY <1>1
    <3>2. /\ Boot(p) \in Nat /\ Boot(p)' \in Nat /\ Boot(p) <= Boot(p)'
          /\ Boot(p)' = Boot(p) => Leaf(p)' = Leaf(p)
      BY BootKeepsLeaf
    <3>3. outcome' = outcome /\ since' = since /\ pin' = pin /\ since[t] \in Nat
      BY <1>2 DEF tabVars, TabTypes
    <3>4. /\ outcome[t] # "refused"
          /\ since[t] <= Boot(p)
          /\ outcome[t] = "fetched" /\ since[t] # 0 /\ since[t] = Boot(p)
               => Matches(pin[t], Leaf(p))
      BY <3>1 DEF PinsMatch
    <3>5. since[t] = Boot(p)' => since[t] = Boot(p) /\ Leaf(p)' = Leaf(p)
      BY <3>2, <3>3, <3>4
    <3>6. since'[t] <= Boot(p)'
      BY <3>2, <3>3, <3>4
    <3> QED
      BY <3>1, <3>3, <3>4, <3>5, <3>6 DEF Matches
  <2> QED
    BY <2>1 DEF PinsMatch
<1>3. ASSUME NEW t \in Tabs, FetchHash(t)
      PROVE  PinsMatch'
  <2>1. PICK p \in PinnedPorts \cup {LabPort} : p = PortOf[t]
    BY <1>1
  <2>2. \A q : Boot(q)' = Boot(q) /\ Leaf(q)' = Leaf(q)
    BY <1>3 DEF FetchHash, Boot, Leaf, labVars, legacyVars
  <2>3. /\ pin' = [pin EXCEPT ![t] = Answer(p)]
        /\ since' = [since EXCEPT ![t] = IF Serving(p) THEN Boot(p) ELSE 0]
        /\ outcome' = [outcome EXCEPT ![t] = "fetched"]
    BY <1>3, <2>1 DEF FetchHash
  <2>4. Boot(p) \in Nat
    BY DEF Boot, LabTypes, LegacyTypes
  <2>5. pin'[t] = Answer(p) /\ since'[t] = (IF Serving(p) THEN Boot(p) ELSE 0)
        /\ outcome'[t] = "fetched"
    BY <2>3 DEF TabTypes
  <2>6. since'[t] # 0 => Matches(pin'[t], Leaf(p))
    BY <2>5, AnswerMatches
  <2>7. since'[t] <= Boot(p)
    BY <2>4, <2>5
  <2>8. \A u \in Tabs \ {t} : UNCHANGED <<pin[u], since[u], outcome[u]>>
    BY <2>3 DEF TabTypes
  <2> QED
    BY <2>1, <2>2, <2>5, <2>6, <2>7, <2>8 DEF PinsMatch
<1>4. ASSUME NEW t \in Tabs, Dial(t)
      PROVE  PinsMatch'
  <2>1. PICK p \in PinnedPorts \cup {LabPort} : p = PortOf[t]
    BY <1>1
  <2>2. \A q : Boot(q)' = Boot(q) /\ Leaf(q)' = Leaf(q)
    BY <1>4 DEF Dial, Boot, Leaf, labVars, legacyVars
  <2>3. /\ outcome[t] = "fetched" /\ Serving(p) /\ UNCHANGED <<pin, since>>
        /\ outcome' = [outcome EXCEPT ![t] =
             IF pin[t] = Leaf(p) \/ (pin[t] = Absent /\ Leaf(p) = Chain)
               THEN "trusted" ELSE IF since[t] = Boot(p) THEN "refused" ELSE "outdated"]
    BY <1>4, <2>1 DEF Dial
  <2>4. Boot(p) > 0
    BY <2>3 DEF Serving, Boot, LabHash, LegacyHashes, LabTypes, LegacyTypes
  <2>5. since[t] = Boot(p) => Matches(pin[t], Leaf(p))
    BY <2>1, <2>3, <2>4 DEF PinsMatch
  <2>6. outcome'[t] \in {"trusted", "outdated"}
    BY <2>3, <2>5 DEF Matches, TabTypes
  <2>7. \A u \in Tabs \ {t} : outcome'[u] = outcome[u]
    BY <2>3 DEF TabTypes
  <2> QED
    BY <2>2, <2>3, <2>6, <2>7 DEF PinsMatch
<1> QED
  BY <1>2, <1>3, <1>4, Parties DEF TabStep

\* The inductive invariant behind the theorem below: no port answers for a boot
\* that does not serve it.
THEOREM PinInvariant == Spec => []PinInv
<1>1. Init => PinInv
  BY TypesInit DEF Init, PinInv, LabHash, LegacyHashes, PinsMatch, Boot
<1>2. PinInv /\ [Next]_vars => PinInv'
  <2> SUFFICES ASSUME PinInv, [Next]_vars PROVE PinInv'
    OBVIOUS
  <2>1. TypeInv'
    BY TypesStep DEF PinInv
  <2>2. LabHash'
    BY Parties, LabHashStep DEF PinInv, TypeInv, LabHash, labVars
  <2>3. LegacyHashes'
    BY Parties, LegacyHashesStep DEF PinInv, TypeInv, LegacyHashes, legacyVars
  <2> QED
    BY <2>1, <2>2, <2>3, PinsMatchStep DEF PinInv
<1> QED
  BY <1>1, <1>2, PTL DEF Spec

\* No pin is refused by the boot that was serving when the page fetched it: a
\* port listens only when the hash of its leaf of this boot has been written,
\* and /hash follows the leaf that -wtcert selects.
THEOREM PinsHold == Spec => []PinHolds
<1>1. PinInv => PinHolds
  BY DEF PinInv, PinsMatch, PinHolds
<1> QED
  BY <1>1, PinInvariant, PTL

-----------------------------------------------------------------------------
(* The profile and the files                                                *)

\* What main holds is a whole CA, and what it serves ends in it.
WholeCA ==
  /\ labAt \in {"open", "write", "serve"} => ca["key"] = ca["pem"]
  /\ labAt \in {"open", "write", "sign", "serve"} => \A f \in Files : ca[f] # Absent
  /\ labAt = "serve" => pageCA \in {Chain, ca["pem"]}

\* The files hold what main holds, and what a device has installed.
OnDisk ==
  /\ labAt \in {"open", "write"} /\ writing = "pem" => disk["key"] = ca["key"]
  /\ labAt \in {"sign", "serve"} => \A f \in Files : disk[f] = ca[f]
  /\ profile # Absent =>
       /\ \A f \in Files : disk[f] = profile
       /\ labAt \notin {"open", "write"}

\* ca.pem is written last, when ca.key is whole.
PemLast ==
  IF labAt \in {"open", "write"}
    THEN disk["pem"] = Absent \/ (labAt = "write" /\ writing = "pem")
    ELSE disk["pem"] # Absent => disk["key"] = disk["pem"] /\ disk["pem"] # Torn

FilesInv ==
  /\ LabTypes /\ WholeCA
  /\ "error" \notin mishaps => OnDisk
  /\ mishaps = {} => PemLast

LEMMA WholeCAStep ==
  ASSUME LabTypes, WholeCA, LabStep
  PROVE  WholeCA'
<1> USE DEF WholeCA
<1>1. CASE Start \/ LabDies
  BY <1>1 DEF Start, LabDies
<1>2. CASE Load
  BY <1>2 DEF Load
<1>3. CASE Mint
  <2>1. Cert("ca", mints') # Absent
    BY <1>3, CertsDiffer DEF Mint, Minted, LabTypes
  <2> QED
    BY <1>3, <2>1 DEF Mint, Files
<1>4. CASE Open \/ Write \/ WriteFails
  BY <1>4 DEF Open, Write, WriteFails, NextFile
<1>5. CASE Install
  BY <1>5 DEF Install, labVars
<1>6. ASSUME NEW mode \in Modes, Sign(mode)
      PROVE  WholeCA'
  BY <1>6 DEF Sign
<1> QED
  BY <1>1, <1>2, <1>3, <1>4, <1>5, <1>6 DEF LabStep

LEMMA OnDiskStep ==
  ASSUME LabTypes, WholeCA, OnDisk, LabStep, "error" \notin mishaps'
  PROVE  OnDisk'
<1> USE DEF OnDisk
<1>1. CASE Start \/ LabDies
  BY <1>1 DEF Start, LabDies
<1>2. CASE Load
  BY <1>2 DEF Load
<1>3. CASE Mint
  BY <1>3 DEF Mint, Readable
<1>4. CASE Open
  BY <1>4 DEF Open, LabTypes, Files
<1>5. CASE Write
  BY <1>5 DEF Write, NextFile, LabTypes, WholeCA, Files
<1>6. CASE Install
  BY <1>6 DEF Install, labVars, WholeCA, Files
<1>7. ASSUME NEW mode \in Modes, Sign(mode)
      PROVE  OnDisk'
  BY <1>7 DEF Sign
<1>8. ~WriteFails
  BY DEF WriteFails
<1> QED
  BY <1>1, <1>2, <1>3, <1>4, <1>5, <1>6, <1>7, <1>8 DEF LabStep

LEMMA PemLastStep ==
  ASSUME LabTypes, WholeCA, OnDisk, PemLast, LabStep, mishaps' = {}
  PROVE  PemLast'
<1> USE DEF PemLast
<1>1. CASE Start
  BY <1>1 DEF Start
<1>2. CASE Load
  BY <1>2 DEF Load
<1>3. CASE Mint
  BY <1>3 DEF Mint, Readable, Files
<1>4. CASE Open
  BY <1>4 DEF Open, LabTypes, Files
<1>5. CASE Write
  <2>1. ca["pem"] # Torn
    BY DEF LabTypes, Files
  <2> QED
    BY <1>5, <2>1 DEF Write, NextFile, LabTypes, WholeCA, OnDisk, Files
<1>6. CASE LabDies
  <2>1. labAt # "write"
    BY <1>6 DEF LabDies
  <2> QED
    BY <1>6, <2>1, CertsDiffer DEF LabDies
<1>7. CASE Install
  BY <1>7 DEF Install, labVars
<1>8. ASSUME NEW mode \in Modes, Sign(mode)
      PROVE  PemLast'
  BY <1>8 DEF Sign
<1>9. ~WriteFails
  BY DEF WriteFails
<1> QED
  BY <1>1, <1>2, <1>3, <1>4, <1>5, <1>6, <1>7, <1>8, <1>9 DEF LabStep

\* What hit a write is not forgotten.
LEMMA MishapsStay ==
  ASSUME LabStep
  PROVE  mishaps \subseteq mishaps'
BY DEF LabStep, Start, Load, Mint, Open, Write, WriteFails, LabDies, Install, Sign

\* The inductive invariant behind the two theorems below: how memory, files and
\* profile stand together wherever main is.
THEOREM FilesInvariant == Spec => []FilesInv
<1>1. Init => FilesInv
  BY TypesInit DEF Init, TypeInv, FilesInv, WholeCA, OnDisk, PemLast, Files
<1>2. FilesInv /\ [Next]_vars => FilesInv'
  <2> SUFFICES ASSUME FilesInv, [Next]_vars PROVE FilesInv'
    OBVIOUS
  <2>1. CASE LabStep
    <3>1. LabTypes' /\ WholeCA' /\ mishaps \subseteq mishaps'
      BY <2>1, LabTypesStep, WholeCAStep, MishapsStay DEF FilesInv
    <3>2. "error" \notin mishaps' => OnDisk'
      BY <2>1, <3>1, OnDiskStep DEF FilesInv
    <3>3. mishaps' = {} => PemLast'
      BY <2>1, <3>1, PemLastStep DEF FilesInv
    <3> QED
      BY <3>1, <3>2, <3>3 DEF FilesInv
  <2>2. CASE UNCHANGED <<mishaps, labVars, profile>>
    BY <2>2 DEF labVars, FilesInv, LabTypes, WholeCA, OnDisk, PemLast
  <2> QED
    BY <2>1, <2>2, Parties
<1> QED
  BY <1>1, <1>2, PTL DEF Spec

\* Unless a file could not be written, the chain the page is served with ends in
\* the CA a device has installed: main holds what the files hold, mints only
\* when it cannot read them, and never writes over what it served.
THEOREM ProfileIsKept == Spec => []ProfileKeepsMatching
<1>1. FilesInv => ProfileKeepsMatching
  BY DEF FilesInv, WholeCA, OnDisk, ProfileKeepsMatching, Files
<1> QED
  BY <1>1, FilesInvariant, PTL

\* Only a death inside a write, or a write that failed, leaves files that main
\* cannot start from: ca.pem is written last, so that without it main mints
\* again, and with it both files are whole.
THEOREM DeathBetweenFilesIsHarmless == Spec => []BetweenFilesIsHarmless
<1>1. FilesInv => BetweenFilesIsHarmless
  BY DEF FilesInv, PemLast, BetweenFilesIsHarmless, Unusable, Files
<1> QED
  BY <1>1, FilesInvariant, PTL

=============================================================================
