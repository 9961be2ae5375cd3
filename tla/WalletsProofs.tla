---------------------------- MODULE WalletsProofs ----------------------------
(***************************************************************************)
(* A node stands by the identities it hands out, for any roles, any           *)
(* configuration, any number of callers and restarts.                        *)
(*                                                                          *)
(* What is known of an identity only grows (Grows).  Whoever makes one has it *)
(* written down step by step, and it is complete when it is given             *)
(* (WorkersOK); prepared identities are complete as well (PreparedOK), and so  *)
(* is the one of a wallet of certificates, as soon as the wallet is there      *)
(* (CertificatesOK).  What is complete is found by a lookup (OwnIsFound).     *)
(***************************************************************************)
EXTENDS Wallets, TLAPS

Names(r) == resolvers[r].names
Agents == Callers \cup PseudonymousWallets

OwnIdentities ==
    {Identity(w, form, n) : w \in Ids, form \in {"cert", "wrapped", "pseudonym"}, n \in 0 .. MaxDrawn}

Steps == {"idle", "await", "register", "lookup", "wait",
          "derive", "signer", "audit", "owner", "prefix", "give"}

Worker ==
    [step : Steps,
     view : {None, "respond", "request", "exchange", "answer", "issue", "arrive"},
     role : Roles \cup {None}, wallet : Ids \cup {None},
     identity : Ids \cup {None} \cup OwnIdentities]

\* The identity of a wallet of certificates.
CertificateOf(r, w) == IF r \in Wrapping THEN WrappedCert(w) ELSE Cert(w)

OfWallet(r, w, i) ==
    /\ r \in Roles /\ w \in Names(r)
    /\ i \in OwnIdentities /\ i.wallet = w
    /\ r \notin Pseudonymous => i = CertificateOf(r, w)

\* All is written down that a later lookup, signature or audit needs.
Complete(r, w, i) ==
    /\ OfWallet(r, w, i)
    /\ i \in signers /\ i \in auditInfo /\ i \in DOMAIN owner
    /\ r \in Pseudonymous => <<r, w, i>> \in prefixed

StoreOK ==
    /\ paths \subseteq Ids
    /\ signers \subseteq OwnIdentities
    /\ DOMAIN owner \subseteq OwnIdentities
    /\ \A i \in DOMAIN owner : owner[i] = i.wallet
    /\ received \subseteq {Foreign} \cap auditInfo
    /\ drawn \in [Ids -> 0 .. MaxDrawn]

\* What a role can load again after a restart.
Loadable(r) == (Range(Configured[r]) \cup paths) \cap Fits[r]

NamesOK ==
    /\ DOMAIN resolvers = Roles /\ DOMAIN wallets = Roles
    /\ \A r \in Roles :
           /\ Names(r) \subseteq Loadable(r)
           /\ wallets[r] \subseteq Names(r)
           /\ r \notin Pseudonymous => \A w \in Names(r) : Cert(w) \in signers
    /\ \A p \in registering : p[1] \in Roles /\ p[2] \in paths /\ p[2] \in Fits[p[1]]
    /\ \A p \in registered : p[1] \in Roles /\ p[2] \in Names(p[1])

HandedOK == \A h \in handed : Complete(h.role, h.wallet, h.identity)

CertificatesOK ==
    \A r \in Roles \ Pseudonymous : \A w \in wallets[r] : Complete(r, w, CertificateOf(r, w))

PreparedOK ==
    /\ DOMAIN channel = PseudonymousWallets
    /\ \A p \in PseudonymousWallets :
           channel[p] \in Seq({i \in OwnIdentities : Complete(p[1], p[2], i)})

\* Who is at a step has the steps before it done.
WorkerOK(a, x) ==
    /\ a \in PseudonymousWallets =>
           /\ x.role = a[1] /\ x.wallet = a[2]
           /\ x.step \notin {"await", "register", "lookup", "wait"}
    /\ x.step \in {"register", "lookup"} => x.role \in Roles
    /\ x.step \notin {"idle", "await", "register", "lookup"} =>
           x.role \in Roles /\ x.wallet \in Names(x.role)
    /\ x.step = "wait" => x.role \in Pseudonymous
    /\ x.step \in {"signer", "audit"} => x.role \in Wrapping
    /\ x.step \in {"signer", "audit", "owner", "prefix", "give"} =>
           OfWallet(x.role, x.wallet, x.identity)
    /\ x.step \in {"audit", "owner", "prefix", "give"} => x.identity \in signers
    /\ x.step \in {"owner", "prefix", "give"} => x.identity \in auditInfo
    /\ x.step \in {"prefix", "give"} => x.identity \in DOMAIN owner
    /\ x.step = "give" => Complete(x.role, x.wallet, x.identity)

WorkersOK ==
    /\ worker \in [Agents -> Worker]
    /\ \A a \in Agents : WorkerOK(a, worker[a])

WInv == StoreOK /\ NamesOK /\ HandedOK /\ CertificatesOK /\ PreparedOK /\ WorkersOK

-----------------------------------------------------------------------------
\* Identities are no names, and those of other nodes are not among the node's own.
LEMMA IdentitiesDiffer ==
    /\ \A i \in OwnIdentities : i \notin Ids /\ i # None /\ i.wallet \in Ids
    /\ None \notin Ids
    /\ Foreign \notin OwnIdentities /\ Foreign \notin Ids /\ Foreign # None
    /\ \A w \in Ids : Cert(w) \in OwnIdentities /\ WrappedCert(w) \in OwnIdentities
    /\ \A w \in Ids : Cert(w).wallet = w /\ WrappedCert(w).wallet = w /\ WrappedCert(w) # Cert(w)
  <1>1. 0 \in 0 .. MaxDrawn
    BY WalletsAssumption
  <1>2. None \notin Ids /\ Other \notin Ids
    BY WalletsAssumption
  <1>3. ASSUME NEW i \in OwnIdentities
        PROVE  i \notin Ids /\ i # None /\ i.wallet \in Ids
    <2>1. PICK w \in Ids, form \in {"cert", "wrapped", "pseudonym"}, n \in 0 .. MaxDrawn :
              i = Identity(w, form, n)
      BY DEF OwnIdentities
    <2>2. i \notin Ids /\ i # None
      BY <2>1, IdentitiesAssumption
    <2>3. i.wallet = w
      BY <2>1 DEF Identity
    <2> QED
      BY <2>1, <2>2, <2>3
  <1>4. Foreign \notin OwnIdentities
    <2>1. Foreign.wallet = Other
      BY DEF Foreign, WrappedCert, Identity
    <2> QED
      BY <1>2, <1>3, <2>1
  <1>5. Foreign \notin Ids /\ Foreign # None
    BY <1>1, IdentitiesAssumption DEF Foreign, WrappedCert
  <1>6. ASSUME NEW w \in Ids
        PROVE  Cert(w) \in OwnIdentities /\ WrappedCert(w) \in OwnIdentities
    BY <1>1 DEF Cert, WrappedCert, OwnIdentities
  <1>7. ASSUME NEW w \in Ids
        PROVE  Cert(w).wallet = w /\ WrappedCert(w).wallet = w /\ WrappedCert(w) # Cert(w)
    BY DEF Cert, WrappedCert, Identity
  <1> QED
    BY <1>2, <1>3, <1>4, <1>5, <1>6, <1>7

\* A role loads what was configured or registered and fits it.
LEMMA LoadsAll ==
    ASSUME NEW r \in Roles
    PROVE  Load(r).names = Loadable(r)
  <1>1. (Range(Configured[r]) \cap Fits[r]) \cup ((paths \cap Fits[r]) \ (Range(Configured[r]) \cap Fits[r]))
            = Loadable(r)
    BY DEF Loadable
  <1> QED
    BY <1>1 DEF Load, LoadFromKVS, RegisterIdentities

-----------------------------------------------------------------------------
\* Lookups.

\* A lookup finds nothing that the role does not resolve.
LEMMA FoundIsNamed ==
    ASSUME NamesOK, NEW r \in Roles, NEW v
    PROVE  Lookup(r, v) \in Names(r) \cup {None}
  BY DEF NamesOK, Lookup, Names

\* An identity that is complete is found to be of its wallet, ...
LEMMA OwnIsFound ==
    ASSUME StoreOK, NamesOK, NEW r, NEW w, NEW i, Complete(r, w, i)
    PROVE  Lookup(r, i) = w
  <1>1. /\ r \in Roles /\ w \in Names(r) /\ i \in OwnIdentities /\ i.wallet = w
        /\ i \in signers /\ i \in DOMAIN owner /\ owner[i] = w
    BY DEF Complete, OfWallet, StoreOK
  <1>2. i \notin Ids /\ i # None /\ None \notin Ids /\ w \in Ids
    BY <1>1, IdentitiesDiffer
  <1>3. None \notin wallets[r] /\ None \notin Names(r)
    <2>1. Fits[r] \subseteq Ids
      BY <1>1, WalletsAssumption
    <2> QED
      BY <1>1, <1>2, <2>1 DEF NamesOK, Loadable
  <1>4. GetWallet(i) = w
    BY <1>1 DEF GetWallet
  <1>5. CASE r \in Pseudonymous
    <2>1. MapToID(r, i) = [identity |-> i, label |-> None]
      BY <1>1, <1>2, <1>5 DEF MapToID, MapToIDIdemix
    <2> QED
      BY <1>1, <1>2, <1>3, <1>4, <2>1 DEF Lookup, Names
  <1>6. CASE r \notin Pseudonymous
    <2>1. /\ MapToID(r, i).identity = i
          /\ MapToID(r, i).label \in {w, None}
      BY <1>1, <1>2, <1>6 DEF MapToID, MapToIDX509
    <2> QED
      BY <1>1, <1>2, <1>3, <1>4, <2>1 DEF Lookup, Names
  <1> QED
    BY <1>5, <1>6

\* ... an identifier that is resolved is found, ...
LEMMA NameIsFound ==
    ASSUME StoreOK, NamesOK, NEW r \in Roles, NEW w \in Names(r)
    PROVE  Lookup(r, w) = w
  <1>1. w \in Ids /\ None \notin Ids /\ None \notin OwnIdentities
    <2>1. Fits[r] \subseteq Ids
      BY WalletsAssumption
    <2> QED
      BY <2>1, IdentitiesDiffer DEF NamesOK, Loadable
  <1>2. w # None /\ w \notin signers /\ None \notin DOMAIN owner
    BY <1>1, IdentitiesDiffer DEF StoreOK
  <1>3. MapToID(r, w).label = w
    BY <1>1, <1>2 DEF MapToID, MapToIDIdemix, MapToIDX509
  <1>4. GetWallet(MapToID(r, w).identity) \in {w, None}
    <2>1. GetWallet(None) = None
      BY <1>2 DEF GetWallet
    <2>2. GetWallet(Cert(w)) \in {w, None}
      BY <1>1, IdentitiesDiffer DEF GetWallet, StoreOK
    <2>3. MapToID(r, w).identity \in {None, Cert(w)}
      BY <1>1, <1>2 DEF MapToID, MapToIDIdemix, MapToIDX509
    <2> QED
      BY <2>1, <2>2, <2>3
  <1>5. None \notin wallets[r]
    <2>1. Fits[r] \subseteq Ids
      BY WalletsAssumption
    <2> QED
      BY <1>1, <2>1 DEF NamesOK, Loadable
  <1> QED
    BY <1>2, <1>3, <1>4, <1>5 DEF Lookup, Names

\* ... and the identity of another node is not.
LEMMA ForeignIsNotFound ==
    ASSUME StoreOK, NamesOK, NEW r \in Roles
    PROVE  Lookup(r, Foreign) = None
  <1>1. /\ Foreign \notin signers /\ Foreign \notin DOMAIN owner
        /\ Foreign \notin Ids /\ Foreign # None
    BY IdentitiesDiffer DEF StoreOK
  <1>2. None \notin DOMAIN owner /\ None \notin Names(r) /\ None \notin wallets[r]
    <2>1. Fits[r] \subseteq Ids
      BY WalletsAssumption
    <2> QED
      BY <2>1, IdentitiesDiffer DEF StoreOK, NamesOK, Loadable
  <1>3. Foreign # Cert(Foreign.wallet)
    BY DEF Foreign, WrappedCert, Cert, Identity
  <1>4. /\ MapToID(r, Foreign).label = None
        /\ MapToID(r, Foreign).identity \in {None, Foreign}
    BY <1>1, <1>3 DEF MapToID, MapToIDIdemix, MapToIDX509
  <1>5. GetWallet(MapToID(r, Foreign).identity) = None
    BY <1>1, <1>2, <1>4 DEF GetWallet
  <1> QED
    BY <1>2, <1>4, <1>5 DEF Lookup, Names

\* The promises follow.
LEMMA PromisesFollow == WInv => PromisesSurvive
  <1> SUFFICES ASSUME WInv PROVE PromisesSurvive
    OBVIOUS
  <1>1. ASSUME NEW h \in handed
        PROVE  /\ Lookup(h.role, h.identity) = h.wallet
               /\ GetSigner(h.role, h.wallet, h.identity) /\ h.identity \in auditInfo
    <2>1. Complete(h.role, h.wallet, h.identity)
      BY DEF WInv, HandedOK
    <2>2. Lookup(h.role, h.identity) = h.wallet
      BY <2>1, OwnIsFound DEF WInv
    <2>3. WalletContains(h.role, h.wallet, h.identity)
      BY <2>1 DEF Complete, OfWallet, CertificateOf, WalletContains, ContainsIdentity, ContainsCert
    <2> QED
      BY <2>1, <2>2, <2>3 DEF GetSigner, Complete
  <1>2. ASSUME NEW p \in registered
        PROVE  Lookup(p[1], p[2]) = p[2]
    BY NameIsFound DEF WInv, NamesOK
  <1>3. ASSUME NEW f \in received
        PROVE  f \in auditInfo /\ \A r \in Roles : Lookup(r, f) = None
    BY ForeignIsNotFound DEF WInv, StoreOK
  <1> QED
    BY <1>1, <1>2, <1>3 DEF PromisesSurvive

-----------------------------------------------------------------------------
\* Steps.

\* Nothing that makes an identity complete is ever taken back.
Grows ==
    /\ signers \subseteq signers' /\ auditInfo \subseteq auditInfo'
    /\ DOMAIN owner \subseteq DOMAIN owner' /\ prefixed \subseteq prefixed'
    /\ \A r \in Roles : Names(r) \subseteq Names(r)'

\* Whatever was complete stays so, ...
LEMMA CompleteStays ==
    ASSUME Grows, NEW r, NEW w, NEW i
    PROVE  /\ OfWallet(r, w, i) => OfWallet(r, w, i)'
           /\ Complete(r, w, i) => Complete(r, w, i)'
  BY DEF Grows, Complete, OfWallet

\* ... a worker that did not move is where it was, ...
LEMMA WorkerStays ==
    ASSUME Grows, NEW a, NEW x, WorkerOK(a, x)
    PROVE  WorkerOK(a, x)'
  <1>1. ASSUME x.step \notin {"idle", "await", "register", "lookup"}
        PROVE  x.role \in Roles /\ x.wallet \in Names(x.role)'
    BY <1>1 DEF WorkerOK, Grows
  <1> QED
    BY <1>1, CompleteStays DEF WorkerOK, Grows

\* ... and prepared identities are as good as before.
LEMMA PreparedStays ==
    ASSUME Grows, NEW p, NEW s \in Seq({i \in OwnIdentities : Complete(p[1], p[2], i)})
    PROVE  s \in Seq({i \in OwnIdentities : Complete(p[1], p[2], i)'})
  <1>1. {i \in OwnIdentities : Complete(p[1], p[2], i)}
            \subseteq {i \in OwnIdentities : Complete(p[1], p[2], i)'}
    BY CompleteStays
  <1> QED
    BY <1>1

\* What can be loaded is an identifier.
LEMMA LoadedAreNamed ==
    ASSUME paths \subseteq Ids, NEW r \in Roles
    PROVE  Loadable(r) \subseteq Ids
  BY WalletsAssumption DEF Loadable

\* Nobody is at work at first, nor after a restart.
LEMMA IdleWorkers ==
    /\ InitialWorkers \in [Agents -> Worker]
    /\ \A a \in Agents :
           /\ InitialWorkers[a].step = "idle"
           /\ a \in PseudonymousWallets => /\ InitialWorkers[a].role = a[1]
                                           /\ InitialWorkers[a].wallet = a[2]
  <1>1. ASSUME NEW a \in Agents
        PROVE  /\ InitialWorkers[a] \in Worker /\ InitialWorkers[a].step = "idle"
               /\ a \in PseudonymousWallets => InitialWorkers[a].role = a[1] /\ InitialWorkers[a].wallet = a[2]
    <2>1. CASE a \in Callers
      <3>1. a \notin PseudonymousWallets
        BY <2>1, WalletsAssumption DEF PseudonymousWallets
      <3>2. InitialWorkers[a] = Idle
        BY <2>1 DEF InitialWorkers
      <3> QED
        BY <3>1, <3>2 DEF Idle, Worker, Steps
    <2>2. CASE a \notin Callers
      <3>1. a \in PseudonymousWallets /\ a[1] \in Roles /\ a[2] \in Ids
        BY <2>2, WalletsAssumption DEF Agents, PseudonymousWallets
      <3>2. InitialWorkers[a] = Goroutine(a)
        BY <2>2, <3>1 DEF InitialWorkers
      <3> QED
        BY <3>1, <3>2 DEF Goroutine, Idle, Worker, Steps
    <2> QED
      BY <2>1, <2>2
  <1>2. InitialWorkers \in [Agents -> Worker]
    BY <1>1 DEF InitialWorkers, Agents
  <1> QED
    BY <1>1, <1>2

\* Who is not at work has nothing to show.
LEMMA IdleWorkersAreOK ==
    /\ worker = InitialWorkers => WorkersOK
    /\ worker' = InitialWorkers => WorkersOK'
  BY IdleWorkers DEF WorkersOK, WorkerOK

\* The invariant holds at first: only certificates are known.
LEMMA WalletsInit == Init => WInv
  <1> SUFFICES ASSUME Init PROVE WInv
    OBVIOUS
  <1> USE DEF Init
  <1>1. \A r \in Roles : Names(r) = Loadable(r) /\ Loadable(r) \subseteq Ids
    BY LoadsAll, LoadedAreNamed DEF Names
  <1>2. DOMAIN resolvers = Roles
    OBVIOUS
  <1>3. \A i \in signers : \E r \in Roles \ Pseudonymous : \E w \in Names(r) : i = Cert(w)
    BY DEF AllCertificates, Certificates, Names
  <1>4. \A r \in Roles \ Pseudonymous : \A w \in Names(r) : Cert(w) \in signers
    BY DEF AllCertificates, Certificates, Names
  <1>5. StoreOK
    <2>1. signers \subseteq OwnIdentities
      BY <1>1, <1>3, IdentitiesDiffer
    <2>2. drawn \in [Ids -> 0 .. MaxDrawn]
      BY WalletsAssumption
    <2>3. DOMAIN owner = {}
      OBVIOUS
    <2> QED
      BY <2>1, <2>2, <2>3 DEF StoreOK
  <1>6. NamesOK
    BY <1>1, <1>2, <1>4 DEF NamesOK, Resolves, Names
  <1>7. HandedOK /\ CertificatesOK
    BY DEF HandedOK, CertificatesOK
  <1>8. PreparedOK
    BY DEF PreparedOK
  <1>9. WorkersOK
    BY IdleWorkersAreOK
  <1> QED
    BY <1>5, <1>6, <1>7, <1>8, <1>9 DEF WInv

-----------------------------------------------------------------------------
\* A step that writes nothing.
LEMMA StoreStays ==
    ASSUME WInv,
           UNCHANGED <<store, resolvers, registering, wallets, registered, received, drawn>>
    PROVE  Grows /\ StoreOK' /\ NamesOK'
  <1> USE DEF store
  <1>1. Grows
    BY DEF Grows, Names
  <1>2. StoreOK'
    BY DEF WInv, StoreOK
  <1>3. NamesOK'
    BY DEF WInv, NamesOK, Names, Loadable
  <1> QED
    BY <1>1, <1>2, <1>3

\* A step that hands nothing out.
LEMMA HandedStays ==
    ASSUME WInv, Grows, handed' = handed
    PROVE  HandedOK'
  BY CompleteStays DEF WInv, HandedOK

\* A step that leaves the channels alone.
LEMMA ChannelStays ==
    ASSUME WInv, Grows, channel' = channel
    PROVE  PreparedOK'
  BY PreparedStays DEF WInv, PreparedOK

\* A step that creates no wallet of certificates.
LEMMA CertificatesStay ==
    ASSUME WInv, Grows, \A r \in Roles \ Pseudonymous : wallets'[r] = wallets[r]
    PROVE  CertificatesOK'
  BY CompleteStays DEF WInv, CertificatesOK

\* One worker moves.
LEMMA WorkerMoves ==
    ASSUME WInv, Grows, NEW a \in Agents, NEW x \in Worker,
           worker' = [worker EXCEPT ![a] = x], WorkerOK(a, x)'
    PROVE  WorkersOK'
  <1>1. worker \in [Agents -> Worker] /\ \A b \in Agents : WorkerOK(b, worker[b])
    BY DEF WInv, WorkersOK
  <1>2. worker' \in [Agents -> Worker]
    BY <1>1
  <1>3. ASSUME NEW b \in Agents
        PROVE  WorkerOK(b, worker[b])'
    <2>1. CASE b = a
      BY <1>1, <2>1
    <2>2. CASE b # a
      BY <1>1, <2>2, WorkerStays
    <2> QED
      BY <2>1, <2>2
  <1> QED
    BY <1>2, <1>3 DEF WorkersOK

\* A step that changes nothing else.
LEMMA OnlyWorkerMoves ==
    ASSUME WInv, NEW a \in Agents, NEW x \in Worker,
           worker' = [worker EXCEPT ![a] = x], WorkerOK(a, x)',
           UNCHANGED <<store, resolvers, registering, wallets, channel, ghosts, drawn>>
    PROVE  WInv'
  <1>1. /\ UNCHANGED <<store, resolvers, registering, wallets, registered, received, drawn>>
        /\ handed' = handed /\ channel' = channel /\ wallets' = wallets
    BY DEF ghosts
  <1>2. Grows /\ StoreOK' /\ NamesOK'
    BY <1>1, StoreStays
  <1>3. HandedOK' /\ PreparedOK' /\ CertificatesOK'
    BY <1>1, <1>2, HandedStays, ChannelStays, CertificatesStay
  <1>4. WorkersOK'
    BY <1>2, WorkerMoves
  <1> QED
    BY <1>2, <1>3, <1>4 DEF WInv

\* A caller is no goroutine.
LEMMA CallersAreAgents ==
    /\ \A c \in Callers : c \in Agents /\ c \notin PseudonymousWallets
    /\ \A p \in PseudonymousWallets : /\ p \in Agents /\ p[1] \in Pseudonymous
                                      /\ p[1] \in Roles /\ p[2] \in Ids
  BY WalletsAssumption DEF Agents, PseudonymousWallets

\* The identity of a complete entry belongs to the node.
LEMMA CompleteIsOwn ==
    ASSUME NEW r, NEW w, NEW i, Complete(r, w, i)
    PROVE  i \in OwnIdentities
  BY DEF Complete, OfWallet

-----------------------------------------------------------------------------
\* One lemma per operation.

\* A view that begins, or waits in vain, holds nothing yet.
LEMMA CallerWaits ==
    ASSUME WInv, NEW c \in Callers, NEW x \in Worker,
           worker' = [worker EXCEPT ![c] = x],
           x.step \in {"idle", "await", "register", "lookup"},
           x.step \in {"register", "lookup"} => x.role \in Roles,
           UNCHANGED <<store, resolvers, registering, wallets, channel, ghosts, drawn>>
    PROVE  WInv'
  <1>1. WorkerOK(c, x)'
    BY CallersAreAgents DEF WorkerOK
  <1> QED
    BY <1>1, CallersAreAgents, OnlyWorkerMoves

\* A view that ended.
LEMMA IdleIsWorker == Idle \in Worker /\ Idle.step = "idle"
  BY DEF Idle, Worker, Steps

\* A view begins.
LEMMA ViewsStep ==
    ASSUME WInv, NEW c \in Callers, Views(c)
    PROVE  WInv'
  <1>1. PICK r \in Roles, view \in {"respond", "request", "exchange", "answer", "issue", "arrive"},
             v \in Ids \cup {None} \cup OwnIdentities :
             Begin(c, r, view, v)
    <2>1. ASSUME NEW h \in handed, IsMine(c, h)
          PROVE  h.role \in Roles /\ h.identity \in OwnIdentities
      BY DEF WInv, HandedOK, Complete, OfWallet
    <2> QED
      BY <2>1 DEF Views, RespondRequestRecipientIdentity, GetIssuerIdentity,
                  ExchangeRecipientIdentities, RespondExchangeRecipientIdentities,
                  RequestRecipientIdentity, IsMine
  <1>2. PICK x :
            x = [Idle EXCEPT !.view = view, !.role = r, !.identity = v,
                             !.step = CASE view = "request" -> "await"
                                        [] view = "answer"  -> "register"
                                        [] OTHER            -> "lookup"]
    OBVIOUS
  <1>3. x \in Worker /\ x.step \in {"await", "register", "lookup"} /\ x.role = r
    BY <1>2 DEF Idle, Worker, Steps
  <1>4. /\ worker' = [worker EXCEPT ![c] = x]
        /\ UNCHANGED <<store, resolvers, registering, wallets, channel, ghosts, drawn>>
    BY <1>1, <1>2 DEF Begin
  <1> QED
    BY <1>3, <1>4, CallerWaits

\* The other node does not answer in time.
LEMMA ReadMessageWithTimeoutStep ==
    ASSUME WInv, NEW c \in Callers, ReadMessageWithTimeout(c)
    PROVE  WInv'
  BY IdleIsWorker, CallerWaits DEF ReadMessageWithTimeout

\* A lookup finds nothing.
LEMMA NoWalletStep ==
    ASSUME WInv, NEW c \in Callers, NoWallet(c)
    PROVE  WInv'
  BY IdleIsWorker, CallerWaits DEF NoWallet

\* The recipient of another node is known from now on, and nothing else.
LEMMA RegisterRecipientIdentityStep ==
    ASSUME WInv, NEW c \in Callers, RegisterRecipientIdentity(c)
    PROVE  WInv'
  <1> USE DEF RegisterRecipientIdentity
  <1>1. Grows
    BY DEF Grows, Names
  <1>2. StoreOK' /\ NamesOK'
    BY DEF WInv, StoreOK, NamesOK, Names, Loadable
  <1>3. HandedOK' /\ PreparedOK' /\ CertificatesOK'
    BY <1>1, HandedStays, ChannelStays, CertificatesStay
  <1>4. worker[c] \in Worker /\ WorkerOK(c, worker[c])
    BY CallersAreAgents DEF WInv, WorkersOK
  <1>5. PICK x : x = IF worker[c].step = "register" THEN [worker[c] EXCEPT !.step = "lookup"] ELSE Idle
    OBVIOUS
  <1>6. x \in Worker /\ x.step \in {"idle", "lookup"} /\ (x.step = "lookup" => x.role \in Roles)
    BY <1>4, <1>5, IdleIsWorker DEF Worker, Steps, WorkerOK
  <1>7. WorkerOK(c, x)'
    BY <1>6, CallersAreAgents DEF WorkerOK
  <1>8. WorkersOK'
    BY <1>1, <1>5, <1>6, <1>7, CallersAreAgents, WorkerMoves
  <1> QED
    BY <1>2, <1>3, <1>8 DEF WInv

\* A wallet is found that the role resolves.
LEMMA FoundIsResolved ==
    ASSUME WInv, NEW r \in Roles, NEW v, NEW w \in {Lookup(r, v)} \ {None}
    PROVE  /\ w \in Names(r) /\ w \in Ids
           /\ r \in Pseudonymous => <<r, w>> \in PseudonymousWallets
  <1>1. w \in Names(r)
    BY FoundIsNamed DEF WInv
  <1>2. w \in Fits[r] /\ w \in Ids
    BY <1>1, WalletsAssumption DEF WInv, NamesOK, Loadable
  <1> QED
    BY <1>1, <1>2 DEF PseudonymousWallets

\* A wallet may be created, and its goroutine starts.
LEMMA OwnerWalletByIDStep ==
    ASSUME WInv, NEW c \in Callers, OwnerWalletByID(c)
    PROVE  WInv'
  <1>1. /\ worker \in [Agents -> Worker] /\ worker[c] \in Worker /\ WorkerOK(c, worker[c])
        /\ \A b \in Agents : WorkerOK(b, worker[b])
    BY CallersAreAgents DEF WInv, WorkersOK
  <1>2. PICK r : r = worker[c].role
    OBVIOUS
  <1>3. r \in Roles /\ r \in Pseudonymous
    BY <1>1, <1>2 DEF OwnerWalletByID, Lock, WorkerOK
  <1>4. PICK w \in {Lookup(r, worker[c].identity)} \ {None} :
            LET ready == [worker EXCEPT ![c] =
                    IF @.view = "arrive" THEN Idle
                    ELSE [@ EXCEPT !.step = "wait", !.wallet = w, !.identity = None]]
            IN  /\ wallets' = [wallets EXCEPT ![r] = @ \cup {w}]
                /\ worker' = IF w \in wallets[r] THEN ready ELSE newOwnerWallet(r, w, ready)
    BY <1>2 DEF OwnerWalletByID
  <1>5. w \in Names(r) /\ w \in Ids /\ <<r, w>> \in PseudonymousWallets
    BY <1>3, FoundIsResolved
  <1>6. UNCHANGED <<store, resolvers, registering, channel, ghosts, drawn>>
    BY DEF OwnerWalletByID
  <1>7. Grows
    BY <1>6 DEF Grows, Names, store
  <1>8. StoreOK'
    BY <1>6 DEF WInv, StoreOK, store, ghosts
  <1>9. NamesOK'
    <2>1. DOMAIN wallets' = Roles /\ \A s \in Roles : wallets'[s] \subseteq wallets[s] \cup Names(s)
      BY <1>3, <1>4, <1>5 DEF WInv, NamesOK
    <2> QED
      BY <1>6, <2>1 DEF WInv, NamesOK, Names, Loadable, store, ghosts
  <1>10. CertificatesOK'
    <2>1. \A s \in Roles \ Pseudonymous : wallets'[s] = wallets[s]
      BY <1>3, <1>4 DEF WInv, NamesOK
    <2> QED
      BY <1>7, <2>1, CertificatesStay
  <1>11. HandedOK' /\ PreparedOK'
    BY <1>6, <1>7, HandedStays, ChannelStays DEF ghosts
  <1>12. PICK x : x = IF worker[c].view = "arrive" THEN Idle
                      ELSE [worker[c] EXCEPT !.step = "wait", !.wallet = w, !.identity = None]
    OBVIOUS
  <1>13. x \in Worker /\ WorkerOK(c, x)'
    <2>1. w \in Names(r)'
      BY <1>3, <1>5, <1>7 DEF Grows
    <2>2. CASE worker[c].view = "arrive"
      BY <1>12, <2>2, IdleIsWorker, CallersAreAgents DEF WorkerOK
    <2>3. CASE worker[c].view # "arrive"
      <3>1. x \in Worker /\ x.step = "wait" /\ x.role = r /\ x.wallet = w
        BY <1>1, <1>2, <1>5, <1>12, <2>3 DEF Worker, Steps
      <3> QED
        BY <1>3, <2>1, <3>1, CallersAreAgents DEF WorkerOK
    <2> QED
      BY <2>2, <2>3
  <1>14. PICK p : p = <<r, w>>
    OBVIOUS
  <1>15. p \in Agents /\ p # c /\ p \in PseudonymousWallets
    BY <1>5, <1>14, CallersAreAgents
  <1>16. PICK y : y = [worker[p] EXCEPT !.step = "derive"]
    OBVIOUS
  <1>17. y \in Worker /\ WorkerOK(p, y)'
    <2>1. /\ worker[p] \in Worker /\ worker[p].role = r /\ worker[p].wallet = w
      BY <1>1, <1>14, <1>15 DEF WorkerOK
    <2>2. y \in Worker /\ y.step = "derive" /\ y.role = r /\ y.wallet = w
      BY <1>16, <2>1 DEF Worker, Steps
    <2>3. w \in Names(r)'
      BY <1>3, <1>5, <1>7 DEF Grows
    <2> QED
      BY <1>3, <1>14, <2>2, <2>3 DEF WorkerOK
  <1>18. WorkersOK'
    <2>1. /\ worker' \in [Agents -> Worker] /\ worker'[c] = x
          /\ worker'[p] \in {worker[p], y}
          /\ \A b \in Agents : b # c /\ b # p => worker'[b] = worker[b]
      <3>1. CASE w \in wallets[r]
        <4>1. worker' = [worker EXCEPT ![c] = x]
          BY <1>4, <1>12, <3>1
        <4> QED
          BY <1>1, <1>13, <1>15, <4>1, CallersAreAgents
      <3>2. CASE w \notin wallets[r]
        <4>1. worker' = [[worker EXCEPT ![c] = x] EXCEPT ![p].step = "derive"]
          BY <1>4, <1>12, <1>14, <3>2 DEF newOwnerWallet
        <4>2. [worker EXCEPT ![c] = x][p] = worker[p]
          BY <1>15
        <4>3. worker' = [[worker EXCEPT ![c] = x] EXCEPT ![p] = y]
          BY <1>16, <4>1, <4>2
        <4> QED
          BY <1>1, <1>13, <1>15, <1>17, <4>3, CallersAreAgents
      <3> QED
        BY <3>1, <3>2
    <2>2. ASSUME NEW b \in Agents
          PROVE  WorkerOK(b, worker[b])'
      BY <1>1, <1>7, <1>13, <1>17, <2>1, WorkerStays
    <2> QED
      BY <2>1, <2>2 DEF WorkersOK
  <1> QED
    BY <1>8, <1>9, <1>10, <1>11, <1>18 DEF WInv

\* A wallet of certificates has its identity, or makes it.
LEMMA WalletOfCertificateStep ==
    ASSUME WInv, NEW c \in Callers, WalletOfCertificate(c)
    PROVE  WInv'
  <1>1. worker[c] \in Worker /\ WorkerOK(c, worker[c])
    BY CallersAreAgents DEF WInv, WorkersOK
  <1>2. PICK r : r = worker[c].role
    OBVIOUS
  <1>3. r \in Roles /\ r \notin Pseudonymous
    BY <1>1, <1>2 DEF WalletOfCertificate, Lock, WorkerOK
  <1>4. PICK w \in {Lookup(r, worker[c].identity)} \ {None} :
            worker' = [worker EXCEPT ![c] =
                IF w \in wallets[r]
                THEN [@ EXCEPT !.step = "give", !.wallet = w, !.identity = CertificateOf(r, w)]
                ELSE [@ EXCEPT !.step = "derive", !.wallet = w, !.identity = None]]
    BY <1>2 DEF WalletOfCertificate, CertificateOf
  <1>5. w \in Names(r) /\ w \in Ids
    BY <1>3, FoundIsResolved
  <1>6. PICK x : x = IF w \in wallets[r]
                     THEN [worker[c] EXCEPT !.step = "give", !.wallet = w,
                                            !.identity = CertificateOf(r, w)]
                     ELSE [worker[c] EXCEPT !.step = "derive", !.wallet = w, !.identity = None]
    OBVIOUS
  <1>7. UNCHANGED <<store, resolvers, registering, wallets, channel, ghosts, drawn>>
    BY DEF WalletOfCertificate
  <1>8. Grows
    BY <1>7 DEF Grows, Names, store
  <1>9. x \in Worker /\ WorkerOK(c, x)'
    <2>1. w \in Names(r)'
      BY <1>3, <1>5, <1>8 DEF Grows
    <2>2. CASE w \in wallets[r]
      <3>1. Complete(r, w, CertificateOf(r, w))
        BY <1>3, <2>2 DEF WInv, CertificatesOK
      <3>2. /\ x \in Worker /\ x.step = "give" /\ x.role = r /\ x.wallet = w
            /\ x.identity = CertificateOf(r, w)
        BY <1>1, <1>2, <1>5, <1>6, <2>2, <3>1, CompleteIsOwn DEF Worker, Steps
      <3>3. PICK i : i = CertificateOf(r, w)
        OBVIOUS
      <3>4. Complete(r, w, i) /\ Complete(r, w, i)' /\ x.identity = i
        BY <1>8, <3>1, <3>2, <3>3, CompleteStays
      <3> QED
        BY <1>3, <2>1, <3>2, <3>4, CallersAreAgents DEF WorkerOK, Complete
    <2>3. CASE w \notin wallets[r]
      <3>1. x \in Worker /\ x.step = "derive" /\ x.role = r /\ x.wallet = w
        BY <1>1, <1>2, <1>5, <1>6, <2>3 DEF Worker, Steps
      <3> QED
        BY <1>3, <2>1, <3>1, CallersAreAgents DEF WorkerOK
    <2> QED
      BY <2>2, <2>3
  <1> QED
    BY <1>4, <1>6, <1>7, <1>9, CallersAreAgents, OnlyWorkerMoves

\* The channel holds complete identities of the wallet.
LEMMA TakePreparedStep ==
    ASSUME WInv, NEW c \in Callers, TakePrepared(c)
    PROVE  WInv'
  <1>1. /\ worker[c] \in Worker /\ WorkerOK(c, worker[c]) /\ worker[c].step = "wait"
        /\ c \in Agents /\ c \notin PseudonymousWallets
    BY CallersAreAgents DEF WInv, WorkersOK, TakePrepared
  <1>2. PICK r, w, p : r = worker[c].role /\ w = worker[c].wallet /\ p = <<r, w>>
    OBVIOUS
  <1>3. r \in Pseudonymous /\ r \in Roles /\ w \in Names(r)
    BY <1>1, <1>2 DEF WorkerOK
  <1>4. p \in PseudonymousWallets
    BY <1>2, <1>3, WalletsAssumption DEF WInv, NamesOK, Loadable, PseudonymousWallets
  <1>5. channel[p] \in Seq({i \in OwnIdentities : Complete(r, w, i)}) /\ channel[p] # << >>
    BY <1>2, <1>4 DEF WInv, PreparedOK, TakePrepared
  <1>6. PICK i \in OwnIdentities : i = Head(channel[p]) /\ Complete(r, w, i)
    BY <1>5
  <1>7. /\ worker' = [worker EXCEPT ![c] = [worker[c] EXCEPT !.step = "give", !.identity = i]]
        /\ channel' = [channel EXCEPT ![p] = Tail(channel[p])]
        /\ UNCHANGED <<store, resolvers, registering, wallets, ghosts, drawn>>
    BY <1>1, <1>2, <1>6 DEF TakePrepared, WInv, WorkersOK
  <1>8. Grows /\ StoreOK' /\ NamesOK'
    BY <1>7, StoreStays DEF ghosts
  <1>9. HandedOK' /\ CertificatesOK'
    BY <1>7, <1>8, HandedStays, CertificatesStay DEF ghosts
  <1>10. PreparedOK'
    <2>1. Tail(channel[p]) \in Seq({k \in OwnIdentities : Complete(r, w, k)})
      BY <1>5
    <2>2. DOMAIN channel' = PseudonymousWallets
      BY <1>7 DEF WInv, PreparedOK
    <2>3. ASSUME NEW q \in PseudonymousWallets
          PROVE  channel'[q] \in Seq({k \in OwnIdentities : Complete(q[1], q[2], k)})
      BY <1>2, <1>7, <2>1 DEF WInv, PreparedOK
    <2> QED
      BY <1>8, <2>2, <2>3, PreparedStays DEF PreparedOK
  <1>11. PICK x : x = [worker[c] EXCEPT !.step = "give", !.identity = i]
    OBVIOUS
  <1>12. /\ x \in Worker /\ x.step = "give"
         /\ x.role = r /\ x.wallet = w /\ x.identity = i
    BY <1>1, <1>2, <1>11 DEF Worker, Steps
  <1>13. Complete(r, w, i)' /\ w \in Names(r)'
    BY <1>3, <1>6, <1>8, CompleteStays DEF Grows
  <1>14. WorkerOK(c, x)'
    BY <1>1, <1>3, <1>12, <1>13 DEF WorkerOK, Complete
  <1>15. WorkersOK'
    BY <1>1, <1>7, <1>8, <1>11, <1>12, <1>14, WorkerMoves
  <1> QED
    BY <1>8, <1>9, <1>10, <1>15 DEF WInv

\* A caller derives an identity itself.
LEMMA TimesOutStep ==
    ASSUME WInv, NEW c \in Callers, TimesOut(c)
    PROVE  WInv'
  <1>1. /\ worker[c] \in Worker /\ WorkerOK(c, worker[c]) /\ worker[c].step = "wait"
        /\ c \in Agents /\ c \notin PseudonymousWallets
    BY CallersAreAgents DEF WInv, WorkersOK, TimesOut
  <1>2. PICK x : x = [worker[c] EXCEPT !.step = "derive"]
    OBVIOUS
  <1>3. /\ x \in Worker /\ x.step = "derive"
        /\ x.role = worker[c].role /\ x.wallet = worker[c].wallet
    BY <1>1, <1>2 DEF Worker, Steps
  <1>4. /\ worker' = [worker EXCEPT ![c] = x]
        /\ UNCHANGED <<store, resolvers, registering, wallets, channel, ghosts, drawn>>
    BY <1>2 DEF TimesOut
  <1>5. WorkerOK(c, x)'
    BY <1>1, <1>3, <1>4 DEF WorkerOK, Names
  <1> QED
    BY <1>1, <1>3, <1>4, <1>5, OnlyWorkerMoves

\* The order in which an identity is written down.
LEMMA DrawSteps ==
    ASSUME NEW r
    PROVE  /\ r \in Wrapping => /\ DrawOrder(r)["derive"] = "signer"
                                /\ DrawOrder(r)["signer"] = "audit"
                                /\ DrawOrder(r)["audit"] = "owner"
           /\ r \notin Wrapping => DrawOrder(r)["derive"] = "owner"
           /\ DrawOrder(r)["owner"] = "prefix"
           /\ DrawOrder(r)["prefix"] = "give"
  BY DEF DrawOrder

\* What a worker that makes an identity has to show for its step, and what that
\* entails for all.
LEMMA WorkerAdvances ==
    ASSUME WInv, NEW a \in Agents, worker[a].step \in {"derive", "signer", "audit", "owner", "prefix"},
           NEW i \in OwnIdentities, NEW s \in {"signer", "audit", "owner", "prefix", "give"},
           worker' = [worker EXCEPT ![a] = [worker[a] EXCEPT !.step = s, !.identity = i]],
           Grows, StoreOK', NamesOK', CertificatesOK', handed' = handed, channel' = channel,
           OfWallet(worker[a].role, worker[a].wallet, i),
           s \in {"signer", "audit"} => worker[a].role \in Wrapping,
           s # "signer" => i \in signers',
           s \notin {"signer", "audit"} => i \in auditInfo',
           s \in {"prefix", "give"} => i \in DOMAIN owner',
           s = "give" /\ worker[a].role \in Pseudonymous =>
               <<worker[a].role, worker[a].wallet, i>> \in prefixed'
    PROVE  WInv'
  <1>1. HandedOK' /\ PreparedOK'
    BY HandedStays, ChannelStays
  <1>2. PICK x : x = [worker[a] EXCEPT !.step = s, !.identity = i]
    OBVIOUS
  <1>3. /\ worker[a] \in Worker /\ WorkerOK(a, worker[a])
        /\ x \in Worker /\ x.step = s /\ x.identity = i
        /\ x.role = worker[a].role /\ x.wallet = worker[a].wallet
    <2>1. s \in Steps
      BY DEF Steps
    <2>2. worker[a] \in Worker /\ WorkerOK(a, worker[a])
      BY DEF WInv, WorkersOK
    <2> QED
      BY <1>2, <2>1, <2>2 DEF Worker
  <1>4. PICK r, w : r = worker[a].role /\ w = worker[a].wallet
    OBVIOUS
  <1>5. /\ r \in Roles /\ w \in Names(r)' /\ OfWallet(r, w, i)'
    BY <1>4, CompleteStays DEF OfWallet, Grows
  <1>6. a \in PseudonymousWallets => r = a[1] /\ w = a[2]
    BY <1>3, <1>4 DEF WorkerOK
  <1>7. s = "give" => Complete(r, w, i)'
    BY <1>4, <1>5 DEF Complete
  <1>8. WorkerOK(a, x)'
    BY <1>3, <1>4, <1>5, <1>6, <1>7 DEF WorkerOK
  <1>9. WorkersOK'
    BY <1>2, <1>3, <1>8, WorkerMoves
  <1> QED
    BY <1>1, <1>9 DEF WInv

\* A pseudonym is new and of its wallet.
LEMMA DerivePseudonymStep ==
    ASSUME WInv, NEW a \in Agents, DerivePseudonym(a)
    PROVE  WInv'
  <1>1. /\ worker[a] \in Worker /\ WorkerOK(a, worker[a])
        /\ worker[a].step = "derive" /\ worker[a].role \in Pseudonymous
    BY DEF WInv, WorkersOK, DerivePseudonym
  <1>2. PICK r, w : r = worker[a].role /\ w = worker[a].wallet
    OBVIOUS
  <1>3. r \in Roles /\ w \in Names(r) /\ w \in Ids /\ r \in Wrapping /\ r \in Pseudonymous
    BY <1>1, <1>2, WalletsAssumption DEF WorkerOK, WInv, NamesOK, Loadable
  <1>4. PICK n : n = drawn[w] + 1
    OBVIOUS
  <1>5. /\ n \in 0 .. MaxDrawn
        /\ drawn' = [drawn EXCEPT ![w] = n]
    BY <1>2, <1>3, <1>4, WalletsAssumption DEF WInv, StoreOK, DerivePseudonym
  <1>6. PICK i : i = Identity(w, "pseudonym", n)
    OBVIOUS
  <1>7. i \in OwnIdentities /\ OfWallet(r, w, i)
    BY <1>3, <1>5, <1>6 DEF OwnIdentities, OfWallet, Identity
  <1>8. worker' = [worker EXCEPT ![a] = [worker[a] EXCEPT !.step = "signer", !.identity = i]]
    <2>1. worker' = [Advance(a) EXCEPT ![a].identity = i]
      BY <1>2, <1>4, <1>6 DEF DerivePseudonym
    <2>2. Advance(a) = [worker EXCEPT ![a].step = "signer"]
      BY <1>1, <1>2, <1>3, DrawSteps DEF Advance
    <2> QED
      BY <2>1, <2>2 DEF WInv, WorkersOK
  <1>9. UNCHANGED <<store, resolvers, registering, wallets, channel, ghosts>>
    BY DEF DerivePseudonym
  <1>10. Grows /\ NamesOK'
    BY <1>9 DEF Grows, Names, store, ghosts, WInv, NamesOK, Loadable
  <1>11. StoreOK'
    BY <1>3, <1>5, <1>9 DEF WInv, StoreOK, store, ghosts
  <1>12. CertificatesOK' /\ handed' = handed /\ channel' = channel
    BY <1>9, <1>10, CertificatesStay DEF ghosts
  <1> QED
    BY <1>1, <1>2, <1>3, <1>7, <1>8, <1>10, <1>11, <1>12, WorkerAdvances

\* The identity of a wallet of certificates, whose signer came with its resolver.
LEMMA GetCertificateStep ==
    ASSUME WInv, NEW a \in Agents, GetCertificate(a)
    PROVE  WInv'
  <1>1. /\ worker[a] \in Worker /\ WorkerOK(a, worker[a])
        /\ worker[a].step = "derive" /\ worker[a].role \notin Pseudonymous
    BY DEF WInv, WorkersOK, GetCertificate
  <1>2. PICK r, w : r = worker[a].role /\ w = worker[a].wallet
    OBVIOUS
  <1>3. r \in Roles /\ w \in Names(r) /\ w \in Ids /\ r \notin Pseudonymous
    BY <1>1, <1>2, WalletsAssumption DEF WorkerOK, WInv, NamesOK, Loadable
  <1>4. PICK i : i = CertificateOf(r, w)
    OBVIOUS
  <1>5. PICK s : s = IF r \in Wrapping THEN "signer" ELSE "owner"
    OBVIOUS
  <1>6. i \in OwnIdentities /\ OfWallet(r, w, i)
    BY <1>3, <1>4, IdentitiesDiffer DEF OfWallet, CertificateOf
  <1>7. worker' = [worker EXCEPT ![a] = [worker[a] EXCEPT !.step = s, !.identity = i]]
    <2>1. worker' = [Advance(a) EXCEPT ![a].identity = i]
      BY <1>2, <1>4 DEF GetCertificate, CertificateOf
    <2>2. Advance(a) = [worker EXCEPT ![a].step = s]
      BY <1>1, <1>2, <1>5, DrawSteps DEF Advance
    <2> QED
      BY <2>1, <2>2 DEF WInv, WorkersOK
  <1>8. /\ auditInfo' = auditInfo \cup {Cert(w)}
        /\ UNCHANGED <<paths, signers, owner, prefixed, resolvers, registering, wallets, channel,
                       registered, handed, received, drawn>>
    BY <1>2 DEF GetCertificate, ghosts
  <1>9. Grows /\ NamesOK' /\ StoreOK'
    BY <1>8 DEF Grows, Names, WInv, NamesOK, Loadable, StoreOK
  <1>10. CertificatesOK'
    BY <1>8, <1>9, CertificatesStay
  <1>11. s = "owner" => i \in signers' /\ i \in auditInfo'
    BY <1>3, <1>4, <1>5, <1>8 DEF CertificateOf, WInv, NamesOK
  <1>12. s \in {"signer", "owner"} /\ (s = "signer" => r \in Wrapping)
    BY <1>5
  <1> QED
    BY <1>1, <1>2, <1>6, <1>7, <1>8, <1>9, <1>10, <1>11, <1>12, WorkerAdvances

\* The signer is written down.
LEMMA BindSignerStep ==
    ASSUME WInv, NEW a \in Agents, BindSigner(a)
    PROVE  WInv'
  <1>1. /\ worker[a] \in Worker /\ WorkerOK(a, worker[a]) /\ worker[a].step = "signer"
    BY DEF WInv, WorkersOK, BindSigner
  <1>2. PICK i : i = worker[a].identity
    OBVIOUS
  <1>3. /\ OfWallet(worker[a].role, worker[a].wallet, i) /\ worker[a].role \in Wrapping
        /\ i \in OwnIdentities
    BY <1>1, <1>2 DEF WorkerOK, OfWallet
  <1>4. worker' = [worker EXCEPT ![a] = [worker[a] EXCEPT !.step = "audit", !.identity = i]]
    <2>1. worker' = [worker EXCEPT ![a].step = "audit"]
      BY <1>1, <1>3, DrawSteps DEF BindSigner, Advance
    <2> QED
      BY <1>1, <1>2, <2>1 DEF Worker
  <1>5. /\ signers' = signers \cup {i}
        /\ UNCHANGED <<paths, auditInfo, owner, prefixed, resolvers, registering, wallets, channel,
                       registered, handed, received, drawn>>
    BY <1>2 DEF BindSigner, ghosts
  <1>6. Grows /\ NamesOK' /\ StoreOK'
    BY <1>3, <1>5 DEF Grows, Names, WInv, NamesOK, Loadable, StoreOK
  <1>7. CertificatesOK'
    BY <1>5, <1>6, CertificatesStay
  <1>8. i \in signers'
    BY <1>5
  <1> QED
    BY <1>1, <1>3, <1>4, <1>5, <1>6, <1>7, <1>8, WorkerAdvances

\* The audit info is written down.
LEMMA BindAuditInfoStep ==
    ASSUME WInv, NEW a \in Agents, BindAuditInfo(a)
    PROVE  WInv'
  <1>1. /\ worker[a] \in Worker /\ WorkerOK(a, worker[a]) /\ worker[a].step = "audit"
    BY DEF WInv, WorkersOK, BindAuditInfo
  <1>2. PICK i : i = worker[a].identity
    OBVIOUS
  <1>3. /\ OfWallet(worker[a].role, worker[a].wallet, i) /\ worker[a].role \in Wrapping
        /\ i \in OwnIdentities /\ i \in signers
    BY <1>1, <1>2 DEF WorkerOK, OfWallet
  <1>4. worker' = [worker EXCEPT ![a] = [worker[a] EXCEPT !.step = "owner", !.identity = i]]
    <2>1. worker' = [worker EXCEPT ![a].step = "owner"]
      BY <1>1, <1>3, DrawSteps DEF BindAuditInfo, Advance
    <2> QED
      BY <1>1, <1>2, <2>1 DEF Worker
  <1>5. /\ auditInfo' = auditInfo \cup {i}
        /\ UNCHANGED <<paths, signers, owner, prefixed, resolvers, registering, wallets, channel,
                       registered, handed, received, drawn>>
    BY <1>2 DEF BindAuditInfo, ghosts
  <1>6. Grows /\ NamesOK' /\ StoreOK'
    BY <1>5 DEF Grows, Names, WInv, NamesOK, Loadable, StoreOK
  <1>7. CertificatesOK'
    BY <1>5, <1>6, CertificatesStay
  <1>8. i \in signers' /\ i \in auditInfo'
    BY <1>3, <1>5
  <1> QED
    BY <1>1, <1>3, <1>4, <1>5, <1>6, <1>7, <1>8, WorkerAdvances

\* The wallet of a certificate appears together with the owner of the identity.
LEMMA PutOwnerStep ==
    ASSUME WInv, NEW a \in Agents, PutOwner(a)
    PROVE  WInv'
  <1>1. /\ worker[a] \in Worker /\ WorkerOK(a, worker[a]) /\ worker[a].step = "owner"
    BY DEF WInv, WorkersOK, PutOwner
  <1>2. PICK r, w, i : r = worker[a].role /\ w = worker[a].wallet /\ i = worker[a].identity
    OBVIOUS
  <1>3. /\ OfWallet(r, w, i) /\ r \in Roles /\ w \in Names(r)
        /\ i \in OwnIdentities /\ i.wallet = w /\ i \in signers /\ i \in auditInfo
    BY <1>1, <1>2 DEF WorkerOK, OfWallet
  <1>4. worker' = [worker EXCEPT ![a] = [worker[a] EXCEPT !.step = "prefix", !.identity = i]]
    <2>1. worker' = [worker EXCEPT ![a].step = "prefix"]
      BY <1>1, DrawSteps DEF PutOwner, Advance
    <2> QED
      BY <1>1, <1>2, <2>1 DEF Worker
  <1>5. /\ wallets' = [wallets EXCEPT ![r] = wallets[r] \cup {w}]
        /\ UNCHANGED <<paths, signers, auditInfo, prefixed, resolvers, registering, channel,
                       registered, handed, received, drawn>>
    BY <1>2 DEF PutOwner, ghosts
  <1>6. /\ DOMAIN owner' = DOMAIN owner \cup {i}
        /\ owner'[i] = w
        /\ \A j \in DOMAIN owner : j # i => owner'[j] = owner[j]
    BY <1>2 DEF PutOwner
  <1>7. Grows
    BY <1>5, <1>6 DEF Grows, Names
  <1>8. StoreOK'
    <2>1. \A j \in DOMAIN owner' : owner'[j] = j.wallet
      BY <1>3, <1>6 DEF WInv, StoreOK
    <2> QED
      BY <1>3, <1>5, <1>6, <2>1 DEF WInv, StoreOK
  <1>9. NamesOK'
    <2>1. DOMAIN wallets' = Roles /\ \A s \in Roles : wallets'[s] \subseteq wallets[s] \cup Names(s)
      BY <1>3, <1>5 DEF WInv, NamesOK
    <2> QED
      BY <1>5, <2>1 DEF WInv, NamesOK, Names, Loadable
  <1>10. i \in signers' /\ i \in auditInfo' /\ i \in DOMAIN owner'
    BY <1>3, <1>5, <1>6
  <1>11. CertificatesOK'
    <2>1. ASSUME NEW s \in Roles \ Pseudonymous, NEW u \in wallets'[s]
          PROVE  Complete(s, u, CertificateOf(s, u))'
      <3>1. PICK k : k = CertificateOf(s, u)
        OBVIOUS
      <3>2. CASE u \in wallets[s]
        <4>1. Complete(s, u, k)
          BY <2>1, <3>1, <3>2 DEF WInv, CertificatesOK
        <4>2. Complete(s, u, k)'
          BY <1>7, <4>1, CompleteStays
        <4> QED
          BY <3>1, <4>2
      <3>3. CASE u \notin wallets[s]
        <4>1. s = r /\ u = w
          BY <1>5, <2>1, <3>3 DEF WInv, NamesOK
        <4>2. k = i
          BY <1>3, <2>1, <3>1, <4>1 DEF OfWallet
        <4>3. OfWallet(s, u, k)'
          BY <1>3, <1>7, <4>1, <4>2, CompleteStays
        <4>4. Complete(s, u, k)'
          BY <1>10, <2>1, <4>2, <4>3 DEF Complete
        <4> QED
          BY <3>1, <4>4
      <3> QED
        BY <3>2, <3>3
    <2> QED
      BY <2>1 DEF CertificatesOK, CertificateOf, WrappedCert, Cert, Identity
  <1> QED
    BY <1>1, <1>2, <1>3, <1>4, <1>5, <1>7, <1>8, <1>9, <1>10, <1>11, WorkerAdvances

\* The key with the prefix is the last to be written.
LEMMA PutPrefixStep ==
    ASSUME WInv, NEW a \in Agents, PutPrefix(a)
    PROVE  WInv'
  <1>1. /\ worker[a] \in Worker /\ WorkerOK(a, worker[a]) /\ worker[a].step = "prefix"
    BY DEF WInv, WorkersOK, PutPrefix
  <1>2. PICK r, w, i : r = worker[a].role /\ w = worker[a].wallet /\ i = worker[a].identity
    OBVIOUS
  <1>3. /\ OfWallet(r, w, i) /\ i \in OwnIdentities
        /\ i \in signers /\ i \in auditInfo /\ i \in DOMAIN owner
    BY <1>1, <1>2 DEF WorkerOK, OfWallet
  <1>4. worker' = [worker EXCEPT ![a] = [worker[a] EXCEPT !.step = "give", !.identity = i]]
    <2>1. worker' = [worker EXCEPT ![a].step = "give"]
      BY <1>1, DrawSteps DEF PutPrefix, Advance
    <2> QED
      BY <1>1, <1>2, <2>1 DEF Worker
  <1>5. /\ prefixed' = prefixed \cup {<<r, w, i>>}
        /\ UNCHANGED <<paths, signers, auditInfo, owner, resolvers, registering, wallets, channel,
                       registered, handed, received, drawn>>
    BY <1>2 DEF PutPrefix, ghosts
  <1>6. Grows /\ NamesOK' /\ StoreOK'
    BY <1>5 DEF Grows, Names, WInv, NamesOK, Loadable, StoreOK
  <1>7. CertificatesOK'
    BY <1>5, <1>6, CertificatesStay
  <1>8. i \in signers' /\ i \in auditInfo' /\ i \in DOMAIN owner' /\ <<r, w, i>> \in prefixed'
    BY <1>3, <1>5
  <1> QED
    BY <1>1, <1>2, <1>3, <1>4, <1>5, <1>6, <1>7, <1>8, WorkerAdvances

\* What the goroutine puts into the channel is complete.
LEMMA PrepareStep ==
    ASSUME WInv, NEW p \in PseudonymousWallets, Prepare(p)
    PROVE  WInv'
  <1>1. /\ p \in Agents /\ p[1] \in Roles /\ p[2] \in Ids
        /\ worker[p] \in Worker /\ WorkerOK(p, worker[p]) /\ worker[p].step = "give"
    BY CallersAreAgents DEF WInv, WorkersOK, Prepare
  <1>2. PICK i : i = worker[p].identity
    OBVIOUS
  <1>3. /\ Complete(p[1], p[2], i) /\ i \in OwnIdentities
        /\ worker[p].role = p[1] /\ worker[p].wallet = p[2] /\ p[2] \in Names(p[1])
    BY <1>1, <1>2, CompleteIsOwn DEF WorkerOK
  <1>4. PICK x : x = [worker[p] EXCEPT !.step = "derive", !.identity = None]
    OBVIOUS
  <1>5. /\ x \in Worker /\ x.step = "derive" /\ x.role = p[1] /\ x.wallet = p[2]
    BY <1>1, <1>3, <1>4 DEF Worker, Steps
  <1>6. /\ worker' = [worker EXCEPT ![p] = x]
        /\ channel' = [channel EXCEPT ![p] = Append(channel[p], i)]
        /\ UNCHANGED <<store, resolvers, registering, wallets, ghosts, drawn>>
    BY <1>2, <1>4 DEF Prepare
  <1>7. Grows /\ StoreOK' /\ NamesOK'
    BY <1>6, StoreStays DEF ghosts
  <1>8. HandedOK' /\ CertificatesOK'
    BY <1>6, <1>7, HandedStays, CertificatesStay DEF ghosts
  <1>9. PreparedOK'
    <2>1. Append(channel[p], i) \in Seq({k \in OwnIdentities : Complete(p[1], p[2], k)})
      BY <1>3 DEF WInv, PreparedOK
    <2>2. DOMAIN channel' = PseudonymousWallets
      BY <1>6 DEF WInv, PreparedOK
    <2>3. ASSUME NEW q \in PseudonymousWallets
          PROVE  channel'[q] \in Seq({k \in OwnIdentities : Complete(q[1], q[2], k)})
      BY <1>6, <2>1 DEF WInv, PreparedOK
    <2> QED
      BY <1>7, <2>2, <2>3, PreparedStays DEF PreparedOK
  <1>10. WorkerOK(p, x)'
    <2>1. p[2] \in Names(p[1])'
      BY <1>1, <1>3, <1>7 DEF Grows
    <2> QED
      BY <1>1, <1>5, <2>1 DEF WorkerOK
  <1>11. WorkersOK'
    BY <1>1, <1>5, <1>6, <1>7, <1>10, WorkerMoves
  <1> QED
    BY <1>7, <1>8, <1>9, <1>11 DEF WInv

\* What is handed out is complete.
LEMMA GiveStep ==
    ASSUME WInv, NEW c \in Callers, Give(c)
    PROVE  WInv'
  <1>1. /\ c \in Agents /\ worker[c] \in Worker /\ WorkerOK(c, worker[c])
        /\ worker[c].step = "give"
    BY CallersAreAgents DEF WInv, WorkersOK, Give
  <1>2. Complete(worker[c].role, worker[c].wallet, worker[c].identity)
    BY <1>1 DEF WorkerOK
  <1>3. UNCHANGED <<store, resolvers, registering, wallets, channel, registered, received, drawn>>
    BY DEF Give
  <1>4. Grows /\ StoreOK' /\ NamesOK'
    BY <1>3, StoreStays
  <1>5. PreparedOK' /\ CertificatesOK'
    BY <1>3, <1>4, ChannelStays, CertificatesStay
  <1>6. HandedOK'
    <2>1. ASSUME NEW h \in handed'
          PROVE  Complete(h.role, h.wallet, h.identity)
      BY <1>2, <2>1 DEF Give, WInv, HandedOK
    <2> QED
      BY <1>4, <2>1, CompleteStays DEF HandedOK
  <1>7. PICK x : x = IF worker[c].view = "exchange" THEN [Idle EXCEPT !.step = "await"] ELSE Idle
    OBVIOUS
  <1>8. x \in Worker /\ x.step \in {"idle", "await"}
    BY <1>7 DEF Idle, Worker, Steps
  <1>9. WorkerOK(c, x)'
    BY <1>8, CallersAreAgents DEF WorkerOK
  <1>10. worker' = [worker EXCEPT ![c] = x]
    BY <1>7 DEF Give
  <1>11. WorkersOK'
    BY <1>1, <1>4, <1>8, <1>9, <1>10, WorkerMoves
  <1> QED
    BY <1>4, <1>5, <1>6, <1>11 DEF WInv

\* A step in which no worker moves.
LEMMA WorkersStay ==
    ASSUME WInv, Grows, worker' = worker
    PROVE  WorkersOK'
  BY WorkerStays DEF WInv, WorkersOK

\* Registration stores the path of an identity, ...
LEMMA RegisterWalletStep ==
    ASSUME WInv, NEW r \in Roles, NEW id \in Ids, RegisterWallet(r, id)
    PROVE  WInv'
  <1>1. /\ id \in Fits[r]
        /\ paths' = paths \cup {id} /\ registering' = registering \cup {<<r, id>>}
        /\ UNCHANGED <<signers, auditInfo, owner, prefixed, resolvers, wallets, channel, worker,
                       registered, handed, received, drawn>>
    BY DEF RegisterWallet, ghosts
  <1>2. Grows /\ StoreOK'
    BY <1>1 DEF Grows, Names, WInv, StoreOK
  <1>3. NamesOK'
    BY <1>1 DEF WInv, NamesOK, Names, Loadable
  <1>4. HandedOK' /\ PreparedOK' /\ CertificatesOK' /\ WorkersOK'
    BY <1>1, <1>2, HandedStays, ChannelStays, CertificatesStay, WorkersStay
  <1> QED
    BY <1>2, <1>3, <1>4 DEF WInv

\* ... and resolves it afterwards.
LEMMA AddResolverStep ==
    ASSUME WInv, NEW r \in Roles, NEW id \in Ids, AddResolver(r, id)
    PROVE  WInv'
  <1>1. /\ id \in Fits[r] /\ id \in paths
        /\ resolvers' = [resolvers EXCEPT ![r] = RegisterIdentity(r, resolvers[r], id)]
        /\ registering' = registering \ {<<r, id>>}
        /\ registered' = registered \cup {<<r, id>>}
        /\ UNCHANGED <<paths, auditInfo, owner, prefixed, wallets, channel, worker, handed,
                       received, drawn>>
    BY DEF AddResolver, WInv, NamesOK
  <1>2. DOMAIN resolvers = Roles
    BY DEF WInv, NamesOK
  <1>3. /\ DOMAIN resolvers' = Roles
        /\ Names(r)' = Names(r) \cup {id}
        /\ \A s \in Roles : s # r => Names(s)' = Names(s)
    <2>1. RegisterIdentity(r, resolvers[r], id).names = Names(r) \cup {id}
      BY <1>1 DEF RegisterIdentity, RegisterIdentities, Names
    <2> QED
      BY <1>1, <1>2, <2>1 DEF Names
  <1>4. signers' = signers \cup IF r \in Pseudonymous THEN {} ELSE {Cert(w) : w \in Names(r)'}
    BY DEF AddResolver, Certificates, Names
  <1>5. Grows
    BY <1>1, <1>3, <1>4 DEF Grows
  <1>6. StoreOK'
    <2>1. Names(r)' \subseteq Ids
      BY <1>3, WalletsAssumption DEF WInv, NamesOK, Loadable
    <2>2. signers' \subseteq OwnIdentities
      BY <1>4, <2>1, IdentitiesDiffer DEF WInv, StoreOK
    <2> QED
      BY <1>1, <2>2 DEF WInv, StoreOK
  <1>7. NamesOK'
    <2>1. ASSUME NEW s \in Roles
          PROVE  /\ Names(s)' \subseteq Loadable(s)'
                 /\ wallets'[s] \subseteq Names(s)'
                 /\ s \notin Pseudonymous => \A w \in Names(s)' : Cert(w) \in signers'
      BY <1>1, <1>3, <1>4 DEF WInv, NamesOK, Loadable
    <2>2. ASSUME NEW p \in registered'
          PROVE  p[1] \in Roles /\ p[2] \in Names(p[1])'
      BY <1>1, <1>3, <1>5 DEF WInv, NamesOK, Grows
    <2>3. ASSUME NEW p \in registering'
          PROVE  p[1] \in Roles /\ p[2] \in paths' /\ p[2] \in Fits[p[1]]
      BY <1>1 DEF WInv, NamesOK
    <2>4. DOMAIN resolvers' = Roles /\ DOMAIN wallets' = Roles
      BY <1>1, <1>3 DEF WInv, NamesOK
    <2> QED
      BY <2>1, <2>2, <2>3, <2>4 DEF NamesOK
  <1>8. HandedOK' /\ PreparedOK' /\ CertificatesOK' /\ WorkersOK'
    BY <1>1, <1>5, HandedStays, ChannelStays, CertificatesStay, WorkersStay
  <1> QED
    BY <1>6, <1>7, <1>8 DEF WInv

\* A restart loads whatever was configured or registered.
LEMMA RestartStep ==
    ASSUME WInv, Restart
    PROVE  WInv'
  <1>1. /\ resolvers' = [r \in Roles |-> Load(r)]
        /\ registering' = {} /\ wallets' = [r \in Roles |-> {}]
        /\ channel' = [p \in PseudonymousWallets |-> << >>]
        /\ worker' = InitialWorkers
        /\ UNCHANGED <<paths, auditInfo, owner, prefixed, registered, handed, received, drawn>>
    BY DEF Restart, ghosts
  <1>2. \A r \in Roles : Names(r)' = Loadable(r) /\ Loadable(r)' = Loadable(r) /\ Loadable(r) \subseteq Ids
    BY <1>1, LoadsAll, LoadedAreNamed DEF Names, Loadable, WInv, StoreOK
  <1>3. \A i \in signers' : i \in signers \/ \E r \in Roles \ Pseudonymous : \E w \in Names(r)' : i = Cert(w)
    BY DEF Restart, AllCertificates, Certificates, Names
  <1>4. /\ signers \subseteq signers'
        /\ \A r \in Roles \ Pseudonymous : \A w \in Names(r)' : Cert(w) \in signers'
    BY DEF Restart, AllCertificates, Certificates, Names
  <1>5. Grows
    BY <1>1, <1>2, <1>4 DEF Grows, WInv, NamesOK
  <1>6. StoreOK'
    <2>1. signers' \subseteq OwnIdentities
      BY <1>2, <1>3, IdentitiesDiffer DEF WInv, StoreOK
    <2> QED
      BY <1>1, <2>1 DEF WInv, StoreOK
  <1>7. NamesOK'
    <2>1. DOMAIN resolvers' = Roles /\ DOMAIN wallets' = Roles
      BY <1>1
    <2>2. \A p \in registered' : p[1] \in Roles /\ p[2] \in Names(p[1])'
      BY <1>1, <1>5 DEF WInv, NamesOK, Grows
    <2> QED
      BY <1>1, <1>2, <1>4, <2>1, <2>2 DEF NamesOK
  <1>8. HandedOK'
    BY <1>1, <1>5, HandedStays
  <1>9. CertificatesOK' /\ PreparedOK'
    BY <1>1 DEF CertificatesOK, PreparedOK
  <1>10. WorkersOK'
    BY <1>1, IdleWorkersAreOK
  <1> QED
    BY <1>6, <1>7, <1>8, <1>9, <1>10 DEF WInv

\* Nothing happens.
LEMMA StutterStep ==
    ASSUME WInv, UNCHANGED vars
    PROVE  WInv'
  <1>1. /\ UNCHANGED <<store, resolvers, registering, wallets, registered, received, drawn>>
        /\ handed' = handed /\ channel' = channel /\ wallets' = wallets /\ worker' = worker
    BY DEF vars, memory, ghosts
  <1>2. Grows /\ StoreOK' /\ NamesOK'
    BY <1>1, StoreStays
  <1> QED
    BY <1>1, <1>2, HandedStays, ChannelStays, CertificatesStay, WorkersStay DEF WInv

\* Every step preserves the invariant.
LEMMA WalletsStep == WInv /\ [Next]_vars => WInv'
  <1> SUFFICES ASSUME WInv, [Next]_vars PROVE WInv'
    OBVIOUS
  <1>1. CASE Restart
    BY <1>1, RestartStep
  <1>2. CASE \E r \in Roles, id \in Ids : RegisterWallet(r, id) \/ AddResolver(r, id)
    BY <1>2, RegisterWalletStep, AddResolverStep
  <1>3. CASE \E p \in PseudonymousWallets : Prepare(p)
    BY <1>3, PrepareStep
  <1>4. ASSUME NEW c \in Callers,
               \/ Views(c) \/ RegisterRecipientIdentity(c) \/ ReadMessageWithTimeout(c)
               \/ NoWallet(c) \/ OwnerWalletByID(c) \/ WalletOfCertificate(c)
               \/ TakePrepared(c) \/ TimesOut(c) \/ Give(c)
        PROVE  WInv'
    BY <1>4, ViewsStep, RegisterRecipientIdentityStep, ReadMessageWithTimeoutStep, NoWalletStep,
       OwnerWalletByIDStep, WalletOfCertificateStep, TakePreparedStep, TimesOutStep, GiveStep
  <1>5. ASSUME NEW a \in Callers \cup PseudonymousWallets,
               \/ DerivePseudonym(a) \/ GetCertificate(a)
               \/ BindSigner(a) \/ BindAuditInfo(a) \/ PutOwner(a) \/ PutPrefix(a)
        PROVE  WInv'
    <2>1. a \in Agents
      BY DEF Agents
    <2> QED
      BY <1>5, <2>1, DerivePseudonymStep, GetCertificateStep, BindSignerStep, BindAuditInfoStep,
         PutOwnerStep, PutPrefixStep
  <1>6. CASE UNCHANGED vars
    BY <1>6, StutterStep
  <1> QED
    BY <1>1, <1>2, <1>3, <1>4, <1>5, <1>6 DEF Next

\* A node stands by every identity it handed out and every wallet it registered, and
\* takes no identity of another node for its own, at any later time and after any
\* restart, wherever it struck.
THEOREM PromisesAreKept == Spec => []PromisesSurvive
  <1> QED
    BY WalletsInit, WalletsStep, PromisesFollow, PTL DEF Spec
=============================================================================
