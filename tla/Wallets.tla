-------------------------------- MODULE Wallets --------------------------------
(***************************************************************************)
(* The wallets of one node.  An identity is configured or registered while   *)
(* the node runs, for one of the roles; its wallet is created when it is       *)
(* first looked up.  A wallet of certificates has one identity for ever.  A    *)
(* pseudonymous one derives an identity per use: a goroutine of its own        *)
(* prepares some in a channel, a caller takes one from there or, after a       *)
(* timeout, derives one itself.  Identities are handed to the party that will  *)
(* assign tokens to them, and the node must know them when the tokens arrive,  *)
(* be it after a restart.                                                     *)
(*                                                                          *)
(* The key-value store survives a restart, the rest of the state does not.    *)
(* Every write to the store is a step of its own.  A restart is possible       *)
(* between any two; it also stands for the runtime's fatal error when a        *)
(* goroutine reads the map of wallets while a lookup writes it.               *)
(***************************************************************************)
EXTENDS Integers, SequencesExt

CONSTANTS
    Roles,          \* a role of a token management system
    Pseudonymous,   \* roles with idemix identities, the others have certificates
    Wrapping,       \* roles of owners, who wrap their identities
    Ids,            \* wallet identifiers
    Fits,           \* Roles -> identifiers whose keys are of the kind of the role
    Configured,     \* Roles -> a sequence of identifiers in the configuration
    ConfigDefault,  \* Roles -> the one marked as default, or None
    KeyOrder,       \* the order in which the store iterates over identifiers
    None,           \* also the empty identifier, which means the default wallet
    Other,          \* stands for the wallet of another node
    Callers,
    CacheSize,
    MaxDrawn,       \* bound on the pseudonyms of a wallet
    MaxRestarts     \* bound on the restarts

VARIABLES
    paths,          \* store: identifiers registered while the node ran, of any role
    signers,        \* store: identities the signature service signs for
    auditInfo,      \* store: identities with audit info
    owner,          \* store: the wallet of an identity
    prefixed,       \* store: <<role, wallet, identity>>, the key with the wallet's prefix
    resolvers,      \* of each role: the identifiers it resolves, and the default
    registering,    \* pairs <<role, identifier>> stored and not yet resolved
    wallets,        \* wallets created, of each role
    channel,        \* prepared pseudonyms of each pseudonymous wallet
    worker,         \* what a caller, or the goroutine of such a wallet, is doing
    registered,     \* history: registrations that returned
    handed,         \* history: identities handed out, with role and wallet
    received,       \* history: identities of others that were registered
    drawn,          \* number of pseudonyms drawn from each wallet
    restarts

store == <<paths, signers, auditInfo, owner, prefixed>>
memory == <<resolvers, registering, wallets, channel, worker>>
ghosts == <<registered, handed, received>>
vars == <<store, memory, ghosts, drawn, restarts>>

ASSUME WalletsAssumption ==
    /\ Pseudonymous \subseteq Wrapping /\ Wrapping \subseteq Roles
    /\ {None, Other} \cap Ids = {} /\ Callers \cap (Roles \X Ids) = {}
    /\ Fits \in [Roles -> SUBSET Ids]
    /\ Configured \in [Roles -> Seq(Ids)]
    /\ ConfigDefault \in [Roles -> Ids \cup {None}]
    /\ KeyOrder \in Seq(Ids) /\ Range(KeyOrder) = Ids
    /\ {CacheSize, MaxDrawn, MaxRestarts} \subseteq Nat

Identity(w, form, n) == [wallet |-> w, form |-> form, number |-> n]
Cert(w) == Identity(w, "cert", 0)
WrappedCert(w) == Identity(w, "wrapped", 0)
Foreign == WrappedCert(Other)

\* An identity is not taken for an identifier.
ASSUME IdentitiesAssumption ==
    \A w \in Ids \cup {Other}, form \in {"cert", "wrapped", "pseudonym"}, n \in 0 .. MaxDrawn :
        Identity(w, form, n) \notin Ids \cup {None}

\* A pseudonymous wallet is named by its role and its identifier.
PseudonymousWallets == {p \in Pseudonymous \X Ids : p[2] \in Fits[p[1]]}

Idle == [step |-> "idle", view |-> None, role |-> None, wallet |-> None, identity |-> None]
Goroutine(p) == [Idle EXCEPT !.role = p[1], !.wallet = p[2]]

-----------------------------------------------------------------------------
\* Identities.

Resolves(rs, id) == id \in rs.names
GetDefaultIdentifier(rs) == rs.default

First(s, S) ==
    LET found == {i \in DOMAIN s : s[i] \in S}
    IN  IF found = {} THEN None ELSE s[Min(found)]

\* Adds identifiers of a sequence, the first of them as default if there is none.
\* Keys that do not fit are skipped without an error.
RegisterIdentities(role, rs, s, ids) ==
    LET new == (ids \cap Fits[role]) \ rs.names
    IN  [names |-> rs.names \cup new,
         default |-> IF GetDefaultIdentifier(rs) = None THEN First(s, new)
                     ELSE GetDefaultIdentifier(rs)]

RegisterIdentity(role, rs, id) == RegisterIdentities(role, rs, <<id>>, {id})
LoadFromKVS(role, rs) == RegisterIdentities(role, rs, KeyOrder, paths)

\* Without a default the first identity is it.
Load(role) ==
    LET configured == Range(Configured[role]) \cap Fits[role]
        marked == IF ConfigDefault[role] \in configured THEN ConfigDefault[role] ELSE None
        loaded == LoadFromKVS(role, [names |-> configured, default |-> marked])
    IN  IF GetDefaultIdentifier(loaded) = None
        THEN [loaded EXCEPT !.default = First(Configured[role], configured)]
        ELSE loaded

\* The signature service learns of a certificate when it is loaded.
Certificates(role, rs) ==
    IF role \in Pseudonymous THEN {} ELSE {Cert(w) : w \in rs.names}

\* A pseudonymous role knows its identities by their signers, ...
MapToIDIdemix(r, v) ==
    CASE v = None      -> [identity |-> None, label |-> GetDefaultIdentifier(resolvers[r])]
      [] v \in Ids     -> [identity |-> None, label |-> v]
      [] v \in signers -> [identity |-> v, label |-> None]
      [] OTHER         -> [identity |-> None, label |-> None]

\* ... the others by the certificates they loaded.
MapToIDX509(r, v) ==
    CASE v = None  -> [identity |-> None, label |-> GetDefaultIdentifier(resolvers[r])]
      [] v \in Ids -> [identity |-> IF Resolves(resolvers[r], v) THEN Cert(v) ELSE None, label |-> v]
      [] OTHER     -> [identity |-> v,
                       label |-> IF v = Cert(v.wallet) /\ Resolves(resolvers[r], v.wallet)
                                 THEN v.wallet ELSE None]

MapToID(r, v) == IF r \in Pseudonymous THEN MapToIDIdemix(r, v) ELSE MapToIDX509(r, v)

GetWallet(identity) == IF identity \in DOMAIN owner THEN owner[identity] ELSE None

\* The wallet for an identifier or an identity, or None: the label is tried before
\* the owner, and wallets that were created before those that can be.
Lookup(r, v) ==
    LET id == MapToID(r, v)
        owned == GetWallet(id.identity)
        Known(S) == IF id.label \in S THEN id.label ELSE IF owned \in S THEN owned ELSE None
    IN  IF Known(wallets[r]) # None THEN Known(wallets[r]) ELSE Known(resolvers[r].names)

ContainsIdentity(r, w, identity) == <<r, w, identity>> \in prefixed

ContainsCert(r, w, identity) ==
    identity = Cert(w) \/ (r \in Wrapping /\ identity = WrappedCert(w))

WalletContains(r, w, identity) ==
    IF r \in Pseudonymous THEN ContainsIdentity(r, w, identity) ELSE ContainsCert(r, w, identity)

GetSigner(r, w, identity) == WalletContains(r, w, identity) /\ identity \in signers

-----------------------------------------------------------------------------
\* Registration of an identity while the node runs: store, then resolve.

RegisterWallet(r, id) ==
    /\ id \in Fits[r] /\ <<r, id>> \notin registering /\ ~Resolves(resolvers[r], id)
    /\ paths' = paths \cup {id}
    /\ registering' = registering \cup {<<r, id>>}
    /\ UNCHANGED <<signers, auditInfo, owner, prefixed, resolvers, wallets, channel, worker,
                   ghosts, drawn, restarts>>

AddResolver(r, id) ==
    /\ <<r, id>> \in registering
    /\ resolvers' = [resolvers EXCEPT ![r] = RegisterIdentity(r, @, id)]
    /\ signers' = signers \cup Certificates(r, resolvers'[r])
    /\ registering' = registering \ {<<r, id>>}
    /\ registered' = registered \cup {<<r, id>>}
    /\ UNCHANGED <<paths, auditInfo, owner, prefixed, wallets, channel, worker, handed, received,
                   drawn, restarts>>

-----------------------------------------------------------------------------
\* Views.  "respond" answers a request for a recipient, "issue" uses the node's
\* own identity, "arrive" asks whose a token is; "request" asks another node for a
\* recipient; "exchange" and "answer" are the two sides of an exchange.

Begin(c, r, view, v) ==
    /\ worker[c] = Idle
    /\ worker' = [worker EXCEPT ![c] =
           [Idle EXCEPT !.view = view, !.role = r, !.identity = v,
                        !.step = CASE view = "request" -> "await"
                                   [] view = "answer"  -> "register"
                                   [] OTHER            -> "lookup"]]
    /\ UNCHANGED <<store, resolvers, registering, wallets, channel, ghosts, drawn, restarts>>

RespondRequestRecipientIdentity(c, r, v) == r \in Wrapping /\ Begin(c, r, "respond", v)
RequestRecipientIdentity(c, r)           == r \in Wrapping /\ Begin(c, r, "request", None)
ExchangeRecipientIdentities(c, r, v)     == r \in Wrapping /\ Begin(c, r, "exchange", v)
RespondExchangeRecipientIdentities(c, r, v) == r \in Wrapping /\ Begin(c, r, "answer", v)
GetIssuerIdentity(c, r, v)               == r \notin Wrapping /\ Begin(c, r, "issue", v)
IsMine(c, h)                             == Begin(c, h.role, "arrive", h.identity)

\* The recipient of the other node comes with its audit info, ...
RegisterRecipientIdentity(c) ==
    /\ worker[c].step \in {"await", "register"}
    /\ auditInfo' = auditInfo \cup {Foreign}
    /\ received' = received \cup {Foreign}
    /\ worker' = [worker EXCEPT ![c] =
           IF @.step = "register" THEN [@ EXCEPT !.step = "lookup"] ELSE Idle]
    /\ UNCHANGED <<paths, signers, owner, prefixed, resolvers, registering, wallets, channel,
                   registered, handed, drawn, restarts>>

\* ... or does not come in time.
ReadMessageWithTimeout(c) ==
    /\ worker[c].step = "await"
    /\ worker' = [worker EXCEPT ![c] = Idle]
    /\ UNCHANGED <<store, resolvers, registering, wallets, channel, ghosts, drawn, restarts>>

-----------------------------------------------------------------------------
\* Lookups hold the lock of the registry.

\* Whoever creates a wallet of certificates holds it until the identity is stored.
Creating(a) == worker[a].role \notin Pseudonymous
               /\ worker[a].step \in {"derive", "signer", "audit", "owner", "prefix"}
Locked(r) == \E c \in Callers : worker[c].role = r /\ Creating(c)

Lock(c) == worker[c].step = "lookup" /\ ~Locked(worker[c].role)

NoWallet(c) ==
    /\ Lock(c)
    /\ Lookup(worker[c].role, worker[c].identity) = None
    /\ worker' = [worker EXCEPT ![c] = Idle]
    /\ UNCHANGED <<store, resolvers, registering, wallets, channel, ghosts, drawn, restarts>>

\* The goroutine of a new wallet starts to prepare pseudonyms.
newOwnerWallet(r, w, workers) == [workers EXCEPT ![<<r, w>>].step = "derive"]

OwnerWalletByID(c) ==
    /\ Lock(c) /\ worker[c].role \in Pseudonymous
    /\ \E w \in {Lookup(worker[c].role, worker[c].identity)} \ {None} :
         LET r == worker[c].role
             ready == [worker EXCEPT ![c] =
                 IF @.view = "arrive" THEN Idle
                 ELSE [@ EXCEPT !.step = "wait", !.wallet = w, !.identity = None]]
         IN  /\ wallets' = [wallets EXCEPT ![r] = @ \cup {w}]
             /\ worker' = IF w \in wallets[r] THEN ready ELSE newOwnerWallet(r, w, ready)
    /\ UNCHANGED <<store, resolvers, registering, channel, ghosts, drawn, restarts>>

\* A wallet of certificates is created with its identity.
WalletOfCertificate(c) ==
    /\ Lock(c) /\ worker[c].role \notin Pseudonymous
    /\ \E w \in {Lookup(worker[c].role, worker[c].identity)} \ {None} :
         LET r == worker[c].role
             known == IF r \in Wrapping THEN WrappedCert(w) ELSE Cert(w)
         IN  worker' = [worker EXCEPT ![c] =
                 IF w \in wallets[r]
                 THEN [@ EXCEPT !.step = "give", !.wallet = w, !.identity = known]
                 ELSE [@ EXCEPT !.step = "derive", !.wallet = w, !.identity = None]]
    /\ UNCHANGED <<store, resolvers, registering, wallets, channel, ghosts, drawn, restarts>>

-----------------------------------------------------------------------------
\* How an identity is made.

TakePrepared(c) ==
    /\ worker[c].step = "wait"
    /\ LET p == <<worker[c].role, worker[c].wallet>> IN
       /\ channel[p] # << >>
       /\ worker' = [worker EXCEPT ![c].step = "give", ![c].identity = Head(channel[p])]
       /\ channel' = [channel EXCEPT ![p] = Tail(@)]
    /\ UNCHANGED <<store, resolvers, registering, wallets, ghosts, drawn, restarts>>

TimesOut(c) ==
    /\ worker[c].step = "wait"
    /\ worker' = [worker EXCEPT ![c].step = "derive"]
    /\ UNCHANGED <<store, resolvers, registering, wallets, channel, ghosts, drawn, restarts>>

\* Mistake: hands the identity out and leaves it to others to write it down.
DrawOrderEarly(r) ==
    IF r \in Wrapping
    THEN [derive |-> "signer", signer |-> "audit", audit |-> "give"]
    ELSE [derive |-> "owner", owner |-> "prefix", prefix |-> "give"]

\* The steps of a worker that makes an identity.
DrawOrder(r) ==
    IF r \in Wrapping
    THEN [derive |-> "signer", signer |-> "audit", audit |-> "owner", owner |-> "prefix",
          prefix |-> "give"]
    ELSE [derive |-> "owner", owner |-> "prefix", prefix |-> "give"]

Advance(a) == [worker EXCEPT ![a].step = DrawOrder(worker[a].role)[@]]

DerivePseudonym(a) ==
    /\ worker[a].step = "derive" /\ worker[a].role \in Pseudonymous
    /\ LET w == worker[a].wallet IN
       /\ drawn[w] < MaxDrawn
       /\ drawn' = [drawn EXCEPT ![w] = @ + 1]
       /\ worker' = [Advance(a) EXCEPT ![a].identity = Identity(w, "pseudonym", drawn[w] + 1)]
    /\ UNCHANGED <<store, resolvers, registering, wallets, channel, ghosts, restarts>>

GetCertificate(a) ==
    /\ worker[a].step = "derive" /\ worker[a].role \notin Pseudonymous
    /\ LET w == worker[a].wallet IN
       /\ auditInfo' = auditInfo \cup {Cert(w)}
       /\ worker' = [Advance(a) EXCEPT ![a].identity =
              IF worker[a].role \in Wrapping THEN WrappedCert(w) ELSE Cert(w)]
    /\ UNCHANGED <<paths, signers, owner, prefixed, resolvers, registering, wallets, channel,
                   ghosts, drawn, restarts>>

BindSigner(a) ==
    /\ worker[a].step = "signer"
    /\ signers' = signers \cup {worker[a].identity}
    /\ worker' = Advance(a)
    /\ UNCHANGED <<paths, auditInfo, owner, prefixed, resolvers, registering, wallets, channel,
                   ghosts, drawn, restarts>>

BindAuditInfo(a) ==
    /\ worker[a].step = "audit"
    /\ auditInfo' = auditInfo \cup {worker[a].identity}
    /\ worker' = Advance(a)
    /\ UNCHANGED <<paths, signers, owner, prefixed, resolvers, registering, wallets, channel,
                   ghosts, drawn, restarts>>

PutOwner(a) ==
    /\ worker[a].step = "owner"
    /\ wallets' = [wallets EXCEPT ![worker[a].role] = @ \cup {worker[a].wallet}]
    /\ owner' = [i \in DOMAIN owner \cup {worker[a].identity} |->
           IF i = worker[a].identity THEN worker[a].wallet ELSE owner[i]]
    /\ worker' = Advance(a)
    /\ UNCHANGED <<paths, signers, auditInfo, prefixed, resolvers, registering, channel,
                   ghosts, drawn, restarts>>

PutPrefix(a) ==
    /\ worker[a].step = "prefix"
    /\ prefixed' = prefixed \cup {<<worker[a].role, worker[a].wallet, worker[a].identity>>}
    /\ worker' = Advance(a)
    /\ UNCHANGED <<paths, signers, auditInfo, owner, resolvers, registering, wallets, channel,
                   ghosts, drawn, restarts>>

\* The goroutine waits for room in the channel and starts over.
Prepare(p) ==
    /\ worker[p].step = "give"
    /\ Len(channel[p]) < CacheSize
    /\ channel' = [channel EXCEPT ![p] = Append(@, worker[p].identity)]
    /\ worker' = [worker EXCEPT ![p] = [@ EXCEPT !.step = "derive", !.identity = None]]
    /\ UNCHANGED <<store, resolvers, registering, wallets, ghosts, drawn, restarts>>

\* The view uses the identity: it goes out with its audit info.
Give(c) ==
    /\ worker[c].step = "give"
    /\ worker[c].identity \in auditInfo
    /\ handed' = IF worker[c].view = "arrive" THEN handed
                 ELSE handed \cup {[role |-> worker[c].role, wallet |-> worker[c].wallet,
                                    identity |-> worker[c].identity]}
    /\ worker' = [worker EXCEPT ![c] =
           IF @.view = "exchange" THEN [Idle EXCEPT !.step = "await"] ELSE Idle]
    /\ UNCHANGED <<store, resolvers, registering, wallets, channel, registered, received, drawn,
                   restarts>>

-----------------------------------------------------------------------------
InitialWorkers == [a \in Callers \cup PseudonymousWallets |->
    IF a \in Callers THEN Idle ELSE Goroutine(a)]
AllCertificates(rs) == UNION {Certificates(r, rs[r]) : r \in Roles}

Restart ==
    /\ restarts < MaxRestarts
    /\ restarts' = restarts + 1
    /\ resolvers' = [r \in Roles |-> Load(r)]
    /\ signers' = signers \cup AllCertificates(resolvers')
    /\ registering' = {}
    /\ wallets' = [r \in Roles |-> {}]
    /\ channel' = [p \in PseudonymousWallets |-> << >>]
    /\ worker' = InitialWorkers
    /\ UNCHANGED <<paths, auditInfo, owner, prefixed, ghosts, drawn>>

Init ==
    /\ paths = {} /\ auditInfo = {} /\ owner = << >> /\ prefixed = {}
    /\ resolvers = [r \in Roles |-> Load(r)]
    /\ signers = AllCertificates(resolvers)
    /\ registering = {}
    /\ wallets = [r \in Roles |-> {}]
    /\ channel = [p \in PseudonymousWallets |-> << >>]
    /\ worker = InitialWorkers
    /\ registered = {p \in Roles \X Ids : Resolves(resolvers[p[1]], p[2])}
    /\ handed = {} /\ received = {}
    /\ drawn = [w \in Ids |-> 0]
    /\ restarts = 0

Views(c) ==
    \/ \E r \in Roles, v \in Ids \cup {None} :
           \/ RespondRequestRecipientIdentity(c, r, v) \/ GetIssuerIdentity(c, r, v)
           \/ ExchangeRecipientIdentities(c, r, v) \/ RespondExchangeRecipientIdentities(c, r, v)
    \/ \E r \in Roles : RequestRecipientIdentity(c, r)
    \/ \E h \in handed : IsMine(c, h)

Next ==
    \/ Restart
    \/ \E r \in Roles, id \in Ids : RegisterWallet(r, id) \/ AddResolver(r, id)
    \/ \E p \in PseudonymousWallets : Prepare(p)
    \/ \E c \in Callers :
           \/ Views(c) \/ RegisterRecipientIdentity(c) \/ ReadMessageWithTimeout(c)
           \/ NoWallet(c) \/ OwnerWalletByID(c) \/ WalletOfCertificate(c)
           \/ TakePrepared(c) \/ TimesOut(c) \/ Give(c)
    \/ \E a \in Callers \cup PseudonymousWallets :
           \/ DerivePseudonym(a) \/ GetCertificate(a)
           \/ BindSigner(a) \/ BindAuditInfo(a) \/ PutOwner(a) \/ PutPrefix(a)

Spec == Init /\ [][Next]_vars

-----------------------------------------------------------------------------
\* Whatever the node handed out it stands by, at any later time and after any
\* restart: a token assigned to the identity is found to be of the wallet that
\* gave it, the wallet takes it for its own and can sign for it, and the auditor
\* can be told whose it is.  A wallet whose registration returned can be used.  An
\* identity of another node is nobody's here, and the auditor can be told of it.
\* (authrorization.go IsMine, wallet.go getRecipientIdentity, lm.go RegisterIdentity,
\* recipients.go)
PromisesSurvive ==
    /\ \A h \in handed :
           /\ Lookup(h.role, h.identity) = h.wallet
           /\ GetSigner(h.role, h.wallet, h.identity) /\ h.identity \in auditInfo
    /\ \A p \in registered : Lookup(p[1], p[2]) = p[2]
    /\ \A f \in received : f \in auditInfo /\ \A r \in Roles : Lookup(r, f) = None
=============================================================================
