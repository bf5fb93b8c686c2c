------------------------------- MODULE CertStore -------------------------------
(***************************************************************************)
(* Which certificate every port serves, what is published about it, and    *)
(* what survives the processes: the local CA main.go keeps in two files    *)
(* and a device trusts as a profile, the leaves both processes mint at     *)
(* boot, and the hash files legacy/main.go leaves for the page server.     *)
(*                                                                         *)
(* The processes start and die on their own, as they do by hand; start.sh  *)
(* starts them together and ends legacy with main, which is a special case.*)
(* Keys, X.509 and hashing are abstracted to: a certificate is its hash.   *)
(***************************************************************************)
EXTENDS Naturals, Sequences, FiniteSets

CONSTANTS
  Modes,        \* values of -wtcert main may be started with
  LabPort,      \* a WebTransport port of main.go
  PublishOrder, \* ports of legacy/main.go that serve a pinned leaf, as published
  CertSignPort, \* the one whose leaf carries CertSign
  Tabs,         \* pages that fetch a hash and dial with it
  PortOf,       \* the port each of them dials
  MaxDeaths,    \* bound: how often a process is killed or a listener fails
  MaxFaults     \* bound: how many file operations fail

PinnedPorts == {PublishOrder[i] : i \in DOMAIN PublishOrder}

ASSUME CertAssumption ==
  /\ Modes \subseteq {"hash", "ca", "le"}
  /\ PublishOrder \in Seq(PinnedPorts) /\ LabPort \notin PinnedPorts
  /\ PortOf \in [Tabs -> PinnedPorts \cup {LabPort}]
  /\ MaxDeaths \in Nat /\ MaxFaults \in Nat

VARIABLES
  deaths,    \* how many so far
  faults,    \* how many so far
  mishaps,   \* auxiliary: what hit the writing of a CA file: death, error
  labAt,     \* main: down, load, open, write, sign, serve
  writing,   \* the CA file main is at
  ca,        \* the CA main holds in memory: key and certificate
  disk,      \* ca.key and ca.pem
  mints,     \* CAs minted so far
  labBoots,  \* times main came as far as serving
  labLeaf,   \* the leaf LabPort serves
  hash,      \* what /hash answers
  pageCA,    \* what the page's chain ends in
  profile,   \* the CA a device has installed
  legacyAt,  \* legacy: down, publish, truncated, listen
  unpublished,  \* what is left of PublishOrder
  published, \* the hash files
  listener,  \* of each pinned port: down, up, failed
  legacyBoots,  \* times legacy began to listen
  pin,       \* the hash a tab fetched
  since,     \* auxiliary: the boot that was serving its port at the time
  outcome    \* none, fetched, then of its dial: trusted, refused, outdated

labVars    == <<labAt, writing, ca, disk, mints, labBoots, labLeaf, hash, pageCA>>
legacyVars == <<legacyAt, unpublished, published, listener, legacyBoots>>
tabVars    == <<pin, since, outcome>>
vars == <<deaths, faults, mishaps, labVars, profile, legacyVars, tabVars>>

Cert(what, n) == [what |-> what, n |-> n]
Absent == Cert("absent", 0)   \* no file, or no answer
Torn   == Cert("torn", 0)     \* a file opened for writing and left empty
Chain  == Cert("chain", 0)    \* the real chain, from -cert and -key

Files == {"key", "pem"}

Init ==
  /\ deaths = 0 /\ faults = 0 /\ mishaps = {}
  /\ labAt = "down" /\ writing = "key"
  /\ ca = [f \in Files |-> Absent] /\ disk = [f \in Files |-> Absent]
  /\ mints = 0 /\ labBoots = 0
  /\ labLeaf = Absent /\ hash = Absent /\ pageCA = Absent /\ profile = Absent
  /\ legacyAt = "down" /\ legacyBoots = 0
  /\ unpublished = <<>>
  /\ published = [p \in PinnedPorts |-> Absent]
  /\ listener = [p \in PinnedPorts |-> "down"]
  /\ pin = [t \in Tabs |-> Absent]
  /\ since = [t \in Tabs |-> 0]
  /\ outcome = [t \in Tabs |-> "none"]

Die == deaths < MaxDeaths /\ deaths' = deaths + 1
Fail == faults < MaxFaults /\ faults' = faults + 1

-----------------------------------------------------------------------------
(* main: loadOrMintCA, mintPageChain and the certificate modes              *)

Start ==
  /\ labAt = "down"
  /\ labAt' = "load"
  /\ UNCHANGED <<deaths, faults, mishaps, writing, ca, disk, mints, labBoots, labLeaf, hash,
                 pageCA, profile, legacyVars, tabVars>>

\* Broken: one of the files is enough.
EitherReadable == \E f \in Files : disk[f] # Absent

\* Broken: the files are never read back.
NeverReadable == FALSE

\* Both files can be read.
Readable == \A f \in Files : disk[f] # Absent

\* An empty or half-written file decodes to no PEM block, and using it panics.
Load ==
  /\ labAt = "load" /\ Readable
  /\ IF \A f \in Files : disk[f] \notin {Absent, Torn}
       THEN labAt' = "sign" /\ ca' = disk
       ELSE labAt' = "down" /\ UNCHANGED ca
  /\ UNCHANGED <<deaths, faults, mishaps, writing, disk, mints, labBoots, labLeaf, hash,
                 pageCA, profile, legacyVars, tabVars>>

Mint ==
  /\ labAt = "load" /\ ~Readable
  /\ mints' = mints + 1
  /\ ca' = [f \in Files |-> Cert("ca", mints')]
  /\ labAt' = "open" /\ writing' = "key"
  /\ UNCHANGED <<deaths, faults, mishaps, disk, labBoots, labLeaf, hash, pageCA, profile,
                 legacyVars, tabVars>>

\* ca.key is written first, ca.pem after it, then main goes on.
NextFile ==
  IF writing = "key" THEN labAt' = "open" /\ writing' = "pem"
                     ELSE labAt' = "sign" /\ UNCHANGED writing

\* Broken: a key file that is there already is left alone.
OpenNew ==
  /\ labAt = "open"
  /\ IF disk[writing] = Absent
       THEN disk' = [disk EXCEPT ![writing] = Torn] /\ labAt' = "write" /\ UNCHANGED writing
       ELSE NextFile /\ UNCHANGED disk
  /\ UNCHANGED <<deaths, faults, mishaps, ca, mints, labBoots, labLeaf, hash, pageCA, profile,
                 legacyVars, tabVars>>

\* os.WriteFile opens the file and empties it ...
Open ==
  /\ labAt = "open"
  /\ disk' = [disk EXCEPT ![writing] = Torn]
  /\ labAt' = "write"
  /\ UNCHANGED <<deaths, faults, mishaps, writing, ca, mints, labBoots, labLeaf, hash, pageCA,
                 profile, legacyVars, tabVars>>

\* ... and then writes it.
Write ==
  /\ labAt = "write"
  /\ disk' = [disk EXCEPT ![writing] = ca[writing]]
  /\ NextFile
  /\ UNCHANGED <<deaths, faults, mishaps, ca, mints, labBoots, labLeaf, hash, pageCA, profile,
                 legacyVars, tabVars>>

\* Neither error is looked at.
WriteFails ==
  /\ labAt \in {"open", "write"}
  /\ Fail
  /\ mishaps' = mishaps \cup {"error"}
  /\ NextFile
  /\ UNCHANGED <<deaths, ca, disk, mints, labBoots, labLeaf, hash, pageCA, profile,
                 legacyVars, tabVars>>

\* Every boot mints both leaves, whichever it goes on to serve.
mintWTCert(boot)    == Cert("lab", boot)
mintPageChain(boot) == Cert("page", boot)

\* What -wtcert makes the WebTransport ports serve.
Served(mode, boot) ==
  CASE mode = "hash" -> mintWTCert(boot)
    [] mode = "ca"   -> mintPageChain(boot)
    [] mode = "le"   -> Chain

\* Broken: /hash keeps naming the self-signed leaf.
HashOfSelfSigned(mode, leaf) == IF mode = "le" THEN Absent ELSE mintWTCert(labBoots + 1)

\* The pinned hash tracks the leaf that is served, and a real chain is not pinned.
HashOf(mode, leaf) == IF mode = "le" THEN Absent ELSE leaf

\* CreateCertificate refuses a key that is not the certificate's; otherwise
\* the mode decides what the ports serve, and main listens.  A chain that does
\* not load, or a port that cannot be bound, is fatal: LabDies, and like every
\* death not for ever.
Sign(mode) ==
  /\ labAt = "sign"
  /\ IF ca["key"] # ca["pem"]
       THEN labAt' = "down" /\ UNCHANGED <<labBoots, labLeaf, hash, pageCA>>
       ELSE /\ labAt' = "serve"
            /\ labBoots' = labBoots + 1
            /\ labLeaf' = Served(mode, labBoots')
            /\ hash' = HashOf(mode, labLeaf')
            /\ pageCA' = IF mode = "le" THEN Chain ELSE ca["pem"]
  /\ UNCHANGED <<deaths, faults, mishaps, writing, ca, disk, mints, profile, legacyVars, tabVars>>

LabDies ==
  /\ labAt # "down"
  /\ Die
  /\ labAt' = "down"
  /\ mishaps' = mishaps \cup (IF labAt = "write" THEN {"death"} ELSE {})
  /\ UNCHANGED <<faults, writing, ca, disk, mints, labBoots, labLeaf, hash, pageCA, profile,
                 legacyVars, tabVars>>

\* A device downloads the CA from the plain-http server and trusts it.
Install ==
  /\ labAt = "serve"
  /\ profile = Absent
  /\ profile' = ca["pem"]
  /\ UNCHANGED <<deaths, faults, mishaps, labVars, legacyVars, tabVars>>

-----------------------------------------------------------------------------
(* legacy: mint, publish, listen                                            *)

LeafOf(p, boot) == Cert(IF p = CertSignPort THEN "certsign" ELSE "pinned", boot)

\* The leaves of this boot are minted, before a listener is counted.
LegacyStart ==
  /\ legacyAt = "down"
  /\ legacyAt' = "publish"
  /\ unpublished' = PublishOrder
  /\ legacyBoots' = legacyBoots + 1
  /\ UNCHANGED <<deaths, faults, mishaps, labVars, profile, published, listener, tabVars>>

\* publish: os.WriteFile empties the file ...
Truncate ==
  /\ legacyAt = "publish" /\ unpublished # <<>>
  /\ legacyAt' = "truncated"
  /\ published' = [published EXCEPT ![Head(unpublished)] = Torn]
  /\ UNCHANGED <<deaths, faults, mishaps, labVars, profile, unpublished, listener, legacyBoots,
                 tabVars>>

\* Broken: every port is given the hash of the plain pinned leaf.
PlainHash(p) == Cert("pinned", legacyBoots)

HashFor(p) == LeafOf(p, legacyBoots)

\* ... and then writes it.
Publish ==
  /\ legacyAt = "truncated"
  /\ legacyAt' = "publish"
  /\ published' = [published EXCEPT ![Head(unpublished)] = HashFor(Head(unpublished))]
  /\ unpublished' = Tail(unpublished)
  /\ UNCHANGED <<deaths, faults, mishaps, labVars, profile, listener, legacyBoots, tabVars>>

LegacyEnds ==
  /\ legacyAt' = "down"
  /\ unpublished' = <<>>
  /\ listener' = [p \in PinnedPorts |-> "down"]

\* An error while publishing is fatal.
PublishFails ==
  /\ legacyAt \in {"publish", "truncated"} /\ unpublished # <<>>
  /\ Fail
  /\ LegacyEnds
  /\ UNCHANGED <<deaths, mishaps, labVars, profile, published, legacyBoots, tabVars>>

\* Broken: the listeners do not wait for the hashes.
AnyTime == legacyAt \in {"publish", "truncated", "listen"}

\* Everything is published, and the goroutines of the listeners start.
Published == legacyAt \in {"publish", "listen"} /\ unpublished = <<>>

Listen(p) ==
  /\ Published
  /\ listener[p] = "down"
  /\ listener' = [listener EXCEPT ![p] = "up"]
  /\ legacyAt' = IF legacyAt = "publish" THEN "listen" ELSE legacyAt
  /\ UNCHANGED <<deaths, faults, mishaps, labVars, profile, unpublished, published, legacyBoots,
                 tabVars>>

\* serveWT returns: at once, when the port cannot be bound, or later.  The two
\* listeners on the real chain report to the same channel and serve no pinned
\* leaf: what a failure of theirs ends here is LegacyDies.
ListenerFails(p) ==
  /\ Published
  /\ listener[p] # "failed"
  /\ Die
  /\ listener' = [listener EXCEPT ![p] = "failed"]
  /\ legacyAt' = "listen"
  /\ UNCHANGED <<faults, mishaps, labVars, profile, unpublished, published, legacyBoots, tabVars>>

\* log.Fatal(<-errs)
Fatal ==
  /\ \E p \in PinnedPorts : listener[p] = "failed"
  /\ LegacyEnds
  /\ UNCHANGED <<deaths, faults, mishaps, labVars, profile, published, legacyBoots, tabVars>>

LegacyDies ==
  /\ legacyAt # "down"
  /\ Die
  /\ LegacyEnds
  /\ UNCHANGED <<faults, mishaps, labVars, profile, published, legacyBoots, tabVars>>

-----------------------------------------------------------------------------
(* A page: fetch the hash, then dial                                        *)

\* Broken: a file caught between its truncation and its write is no answer.
AnswerRaw(p) == IF p = LabPort THEN hash ELSE published[p]

\* What main answers for a port: /hash from memory, /hash<port> from the file,
\* where a file that is missing or empty is an empty answer.
Answer(p) ==
  IF p = LabPort THEN hash ELSE IF published[p] = Torn THEN Absent ELSE published[p]

Serving(p) == IF p = LabPort THEN labAt = "serve" ELSE listener[p] = "up"
Boot(p)    == IF p = LabPort THEN labBoots ELSE legacyBoots
Leaf(p)    == IF p = LabPort THEN labLeaf ELSE LeafOf(p, legacyBoots)

FetchHash(t) ==
  /\ outcome[t] = "none"
  /\ labAt = "serve"
  /\ pin' = [pin EXCEPT ![t] = Answer(PortOf[t])]
  /\ since' = [since EXCEPT ![t] = IF Serving(PortOf[t]) THEN Boot(PortOf[t]) ELSE 0]
  /\ outcome' = [outcome EXCEPT ![t] = "fetched"]
  /\ UNCHANGED <<deaths, faults, mishaps, labVars, profile, legacyVars>>

\* A pin is compared with the leaf; without one only a real chain will do.  A
\* pin that fails is outdated if another boot had been serving the port.
Dial(t) ==
  LET p == PortOf[t] IN
  /\ outcome[t] = "fetched"
  /\ Serving(p)
  /\ outcome' = [outcome EXCEPT ![t] =
       IF pin[t] = Leaf(p) \/ (pin[t] = Absent /\ Leaf(p) = Chain)
         THEN "trusted" ELSE IF since[t] = Boot(p) THEN "refused" ELSE "outdated"]
  /\ UNCHANGED <<deaths, faults, mishaps, labVars, profile, legacyVars, pin, since>>

Next ==
  \/ Start \/ Load \/ Mint \/ Open \/ Write \/ WriteFails \/ LabDies \/ Install
  \/ \E mode \in Modes : Sign(mode)
  \/ LegacyStart \/ Truncate \/ Publish \/ PublishFails \/ Fatal \/ LegacyDies
  \/ \E p \in PinnedPorts : Listen(p) \/ ListenerFails(p)
  \/ \E t \in Tabs : FetchHash(t) \/ Dial(t)

Spec == Init /\ [][Next]_vars

\* A process that is running goes on, and main is started again when it ends,
\* by the machine or by hand.  Nobody has to start legacy again: see start.sh.
FairSpec ==
  /\ Spec
  /\ WF_vars(Start)
  /\ WF_vars(Load \/ Mint)
  /\ WF_vars(Open)
  /\ WF_vars(Write)
  /\ WF_vars(\E mode \in Modes : Sign(mode))

-----------------------------------------------------------------------------
(* Properties                                                               *)

Certs == [what : {"absent", "torn", "chain", "ca", "lab", "page", "pinned", "certsign"}, n : Nat]

TypeOK ==
  /\ deaths \in 0..MaxDeaths /\ faults \in 0..MaxFaults
  /\ mishaps \subseteq {"death", "error"}
  /\ labAt \in {"down", "load", "open", "write", "sign", "serve"}
  /\ writing \in Files
  /\ ca \in [Files -> Certs \ {Torn}] /\ disk \in [Files -> Certs]
  /\ mints \in Nat /\ labBoots \in Nat /\ legacyBoots \in Nat
  /\ {labLeaf, hash, pageCA, profile} \subseteq Certs \ {Torn}
  /\ legacyAt \in {"down", "publish", "truncated", "listen"}
  /\ unpublished \in Seq(PinnedPorts)
  /\ published \in [PinnedPorts -> Certs]
  /\ listener \in [PinnedPorts -> {"down", "up", "failed"}]
  /\ pin \in [Tabs -> Certs \ {Torn}]
  /\ since \in [Tabs -> Nat]
  /\ outcome \in [Tabs -> {"none", "fetched", "trusted", "refused", "outdated"}]

\* A hash fetched while its port was being served pins the leaf that port
\* serves, until the process behind it starts again: hashes are published
\* before anything listens, and each process owns the hashes of its ports
\* ("hashes travel by file", legacy/main.go:73; main.go:351-352 for ca mode).
PinHolds == \A t \in Tabs : outcome[t] # "refused"

\* "the device's installed profile must keep matching" (main.go:261-262): the
\* page's chain ends in the CA a device has installed, through any number of
\* deaths at any moment, as long as the files could be written.
ProfileKeepsMatching ==
  labAt = "serve" /\ profile # Absent /\ pageCA # Chain /\ "error" \notin mishaps
    => pageCA = profile

\* Both files can be read, and main cannot start from what they hold.
Unusable ==
  /\ \A f \in Files : disk[f] # Absent
  /\ Torn \in {disk["key"], disk["pem"]} \/ disk["key"] # disk["pem"]

\* A death between the two files, or before the first, leaves nothing behind
\* that stops the next boot: only one inside a write, or a write that failed
\* unnoticed (main.go:287-288), can do that.
BetweenFilesIsHarmless == labAt = "down" /\ Unusable => mishaps # {}

\* However often it is killed, main serves again, unless it finds files it
\* cannot start from: those it never replaces.
LabComesUp == labAt = "down" ~> labAt = "serve" \/ (labAt = "down" /\ Unusable)
=============================================================================
