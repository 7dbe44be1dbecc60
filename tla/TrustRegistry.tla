--------------------------- MODULE TrustRegistry ---------------------------
(***************************************************************************)
(* The trust roots of one issuer and purpose, the remote key set they may  *)
(* be imported from, and the signed evidence that refers to them           *)
(* (backend/app/services/trust_registry.py, trust_source_sync.py,          *)
(*  signed_evidence.py and the attestations of supply_chain.py).           *)
(*                                                                         *)
(* No operation locks anything: every request reads, then writes and       *)
(* commits, and only unique constraints stand between two requests.  A key *)
(* is its material, 0 for none; signatures verify or not by comparing it.  *)
(***************************************************************************)
EXTENDS Naturals

CONSTANTS
    KeyIds,        \* kid values
    Presented,     \* Presented[k]: the keys operators register under kid k
    Offered,       \* Offered[k]: the keys the source may publish under kid k
    Statements,    \* signed statements
    SignedBy,      \* SignedBy[a]: the kid of statement a; its key is 1
    TrustSessions, \* concurrent requests
    Freshness,     \* freshness_seconds of the source
    MaxNow,        \* bound of the model on time
    MaxPublish     \* bound of the model on changes of the remote key set

ASSUME TrustAssumption ==
    /\ Presented \in [KeyIds -> SUBSET (Nat \ {0})]
    /\ Offered \in [KeyIds -> SUBSET (Nat \ {0})]
    /\ SignedBy \in [Statements -> KeyIds]
    /\ Freshness \in Nat \ {0}
    /\ MaxNow \in Nat
    /\ MaxPublish \in Nat

VARIABLES
    roots,       \* roots[k]: the trust root with key id k
    evidence,    \* evidence[a]: the attestation of statement a
    published,   \* the keys the remote source publishes now
    publishes,   \* changes of published so far
    lastOut,     \* lastOut[k][m]: when key m was last seen there, if it is gone
    applied,     \* the latest successful Apply receipt
    request,     \* request[s]: what session s has read and will write
    now          \* the time

trustVars == <<roots, evidence, published, publishes, lastOut, applied, request, now>>

-----------------------------------------------------------------------------
(* Rows *)

Material == UNION {Presented[k] \cup Offered[k] : k \in KeyIds}

RootAction == {"rotated", "retired", "revoked"}

NoRoot == [key |-> 0, imported |-> FALSE, actions |-> {}]

\* A root is registered by an operator or imported from the source.
Root == [key: Material \cup {0}, imported: BOOLEAN, actions: SUBSET RootAction]

\* linked: publisher_trust_root_id is set; the root can only be SignedBy[a]'s.
Evidence == [status: {"absent", "verified", "revoked"}, linked: BOOLEAN]

KeySet ==
    {keys \in [KeyIds -> Material \cup {0}] : \A k \in KeyIds : keys[k] \in Offered[k] \cup {0}}

\* at is completed_at, which the sync sets to the time it began.
Receipt == [made: BOOLEAN, at: 0..MaxNow, keys: KeySet]

\* trust_root_status, validity periods left out.
ActiveRoot(root) == root.key # 0 /\ root.actions = {}

\* trust_source_status is healthy or degraded.
FreshApply == applied.made /\ now < applied.at + Freshness

\* trust_root_is_production_eligible and trust_source_key_is_current.
EligibleRoot(k) ==
    /\ ActiveRoot(roots[k])
    /\ roots[k].imported => FreshApply /\ applied.keys[k] = roots[k].key

\* The publisher half of supply_chain_is_production_eligible.
EligibleEvidence(a) ==
    /\ evidence[a].status = "verified"
    /\ evidence[a].linked
    /\ EligibleRoot(SignedBy[a])

\* Candidate roots: the keys of a key set nobody has registered.
Unregistered(keys) == {k \in KeyIds : keys[k] # 0 /\ roots[k].key = 0}

\* Mutant of Collides: only the keys a source imported are compared.
CollidesWithImported(keys) ==
    \E k \in KeyIds : keys[k] # 0 /\ roots[k].imported /\ roots[k].key # keys[k]

\* A known key id with another key.
Collides(keys) == \E k \in KeyIds : keys[k] # 0 /\ roots[k].key \notin {0, keys[k]}

NoRequest == [op |-> "none"]

NoKeys == [k \in KeyIds |-> 0]

TrustInit ==
    /\ roots = [k \in KeyIds |-> NoRoot]
    /\ evidence = [a \in Statements |-> [status |-> "absent", linked |-> FALSE]]
    /\ published \in KeySet
    /\ publishes = 0
    /\ lastOut = [k \in KeyIds |-> [m \in Material |-> 0]]
    /\ applied = [made |-> FALSE, at |-> 0, keys |-> NoKeys]
    /\ request = [s \in TrustSessions |-> NoRequest]
    /\ now = 0

-----------------------------------------------------------------------------
(* The world *)

\* The owner of the source changes what it publishes.
Publish ==
    /\ publishes < MaxPublish
    /\ published' \in KeySet \ {published}
    /\ publishes' = publishes + 1
    /\ lastOut' = [k \in KeyIds |-> [m \in Material |->
                      IF published[k] = m THEN now ELSE lastOut[k][m]]]
    /\ UNCHANGED <<roots, evidence, applied, request, now>>

TrustTick ==
    /\ now < MaxNow
    /\ now' = now + 1
    /\ UNCHANGED <<roots, evidence, published, publishes, lastOut, applied, request>>

-----------------------------------------------------------------------------
(* Synchronisation *)

Asks(s, r) ==
    /\ request[s] = NoRequest
    /\ request' = [request EXCEPT ![s] = r]

Answers(s) == request' = [request EXCEPT ![s] = NoRequest]

\* sync_evidence_trust_source fixes observed_at before it fetches.
BeginSync(s) ==
    /\ Asks(s, [op |-> "sync", at |-> now])
    /\ UNCHANGED <<roots, evidence, published, publishes, lastOut, applied, now>>

\* The fetch and _classify_remote_keys.  A failed fetch, an empty key set and
\* a collision record a failed receipt.
FetchKeys(s) ==
    /\ request[s].op = "sync"
    /\ \/ Answers(s)
       \/ /\ published # NoKeys
          /\ ~Collides(published)
          /\ request' = [request EXCEPT ![s] =
                [op |-> "apply", at |-> request[s].at, keys |-> published,
                 import |-> Unregistered(published)]]
    /\ UNCHANGED <<roots, evidence, published, publishes, lastOut, applied, now>>

\* reconcile_existing_evidence for the roots in table.
Reconciled(table) ==
    [a \in Statements |->
        [evidence[a] EXCEPT !.linked =
            @ \/ (evidence[a].status # "absent" /\ table[SignedBy[a]].key = 1)]]

\* Mutant of ImportedRoots: an existing root is taken over by the import.
RootsTakenOver(r) ==
    [k \in KeyIds |->
        IF r.keys[k] # 0 THEN [key |-> r.keys[k], imported |-> TRUE, actions |-> {}]
        ELSE roots[k]]

\* The registered roots once an Apply has imported its candidates.
ImportedRoots(r) ==
    [k \in KeyIds |->
        IF k \in r.import THEN [key |-> r.keys[k], imported |-> TRUE, actions |-> {}]
        ELSE roots[k]]

\* Mutant of ReceiptOf: completed_at is the time of the commit.
ReceiptAtCommit(r) == [made |-> TRUE, at |-> now, keys |-> r.keys]

ReceiptOf(r) == [made |-> TRUE, at |-> r.at, keys |-> r.keys]

\* Apply: receipt, imported roots and their links commit together, or the
\* unique constraint refuses a root that was registered since and a failed
\* receipt is recorded.  The latest receipt is the one with the latest
\* completed_at, of equal ones the one created last.
ApplyKeys(s) ==
    /\ request[s].op = "apply"
    /\ LET r == request[s] IN
         IF \E k \in r.import : roots[k].key # 0
         THEN UNCHANGED <<roots, evidence, applied>>
         ELSE /\ roots' = ImportedRoots(r)
              /\ evidence' = Reconciled(ImportedRoots(r))
              /\ applied' = IF applied.made /\ ReceiptOf(r).at < applied.at
                            THEN applied ELSE ReceiptOf(r)
    /\ Answers(s)
    /\ UNCHANGED <<published, publishes, lastOut, now>>

-----------------------------------------------------------------------------
(* Registration and its end *)

\* create_evidence_trust_root reads the root of the key id and the root to
\* rotate (k itself: none), which must be active.
BeginRegister(s, k, m, old) ==
    /\ roots[k].key \in {0, m}
    /\ roots[k].key = 0 /\ old # k => ActiveRoot(roots[old])
    /\ Asks(s, [op |-> "register", kid |-> k, key |-> m, old |-> old,
                replay |-> roots[k].key # 0])
    /\ UNCHANGED <<roots, evidence, published, publishes, lastOut, applied, now>>

\* A replay only reconciles.  A new root and the "rotated" action of its
\* predecessor commit together unless a unique constraint refuses one.
Register(s) ==
    /\ request[s].op = "register"
    /\ LET r == request[s]
           fresh == [roots EXCEPT ![r.kid] =
                        [key |-> r.key, imported |-> FALSE, actions |-> {}]]
           table == IF r.replay THEN roots
                    ELSE IF r.old = r.kid THEN fresh
                    ELSE [fresh EXCEPT ![r.old].actions = @ \cup {"rotated"}]
       IN
         IF /\ ~r.replay
            /\ \/ roots[r.kid].key # 0
               \/ r.old # r.kid /\ "rotated" \in roots[r.old].actions
         THEN UNCHANGED <<roots, evidence>>
         ELSE roots' = table /\ evidence' = Reconciled(table)
    /\ Answers(s)
    /\ UNCHANGED <<published, publishes, lastOut, applied, now>>

\* record_evidence_trust_root_action: retire what is active, revoke what is
\* not revoked.
BeginRootAction(s, k, action) ==
    /\ roots[k].key # 0
    /\ IF action = "retired" THEN ActiveRoot(roots[k]) ELSE "revoked" \notin roots[k].actions
    /\ Asks(s, [op |-> "act", kid |-> k, action |-> action])
    /\ UNCHANGED <<roots, evidence, published, publishes, lastOut, applied, now>>

\* A second action of one type is refused by the unique constraint, which
\* leaves the set as it is.
RecordRootAction(s) ==
    /\ request[s].op = "act"
    /\ roots' = [roots EXCEPT ![request[s].kid].actions = @ \cup {request[s].action}]
    /\ Answers(s)
    /\ UNCHANGED <<evidence, published, publishes, lastOut, applied, now>>

-----------------------------------------------------------------------------
(* Evidence *)

\* verify_registered_signed_statement: a key id nobody has registered falls
\* back to the local key file; a registered one must be active and match.
BeginAttest(s, a) ==
    /\ evidence[a].status = "absent"
    /\ LET root == roots[SignedBy[a]] IN
         /\ root.key = 0 \/ (ActiveRoot(root) /\ root.key = 1)
         /\ Asks(s, [op |-> "attest", statement |-> a, linked |-> root.key # 0])
    /\ UNCHANGED <<roots, evidence, published, publishes, lastOut, applied, now>>

\* create_model_supply_chain_attestation commits what it read.
Attest(s) ==
    /\ request[s].op = "attest"
    /\ LET a == request[s].statement IN
         evidence' = IF evidence[a].status = "absent"
                     THEN [evidence EXCEPT ![a] =
                              [status |-> "verified", linked |-> request[s].linked]]
                     ELSE evidence
    /\ Answers(s)
    /\ UNCHANGED <<roots, published, publishes, lastOut, applied, now>>

\* revoke_model_supply_chain_attestation
RevokeEvidence(a) ==
    /\ evidence[a].status = "verified"
    /\ evidence' = [evidence EXCEPT ![a].status = "revoked"]
    /\ UNCHANGED <<roots, published, publishes, lastOut, applied, request, now>>

-----------------------------------------------------------------------------
TrustNext ==
    \/ Publish
    \/ TrustTick
    \/ \E s \in TrustSessions : BeginSync(s)
    \/ \E s \in TrustSessions : FetchKeys(s)
    \/ \E s \in TrustSessions : ApplyKeys(s)
    \/ \E s \in TrustSessions, k, old \in KeyIds : \E m \in Presented[k] : BeginRegister(s, k, m, old)
    \/ \E s \in TrustSessions : Register(s)
    \/ \E s \in TrustSessions, k \in KeyIds, action \in {"retired", "revoked"} :
          BeginRootAction(s, k, action)
    \/ \E s \in TrustSessions : RecordRootAction(s)
    \/ \E s \in TrustSessions, a \in Statements : BeginAttest(s, a)
    \/ \E s \in TrustSessions : Attest(s)
    \/ \E a \in Statements : RevokeEvidence(a)

TrustSpec == TrustInit /\ [][TrustNext]_trustVars

-----------------------------------------------------------------------------
(* Properties *)

Requests ==
    {NoRequest}
    \cup [op: {"sync"}, at: 0..MaxNow]
    \cup [op: {"apply"}, at: 0..MaxNow, keys: KeySet, import: SUBSET KeyIds]
    \cup [op: {"register"}, kid: KeyIds, key: Material, old: KeyIds, replay: BOOLEAN]
    \cup [op: {"act"}, kid: KeyIds, action: RootAction]
    \cup [op: {"attest"}, statement: Statements, linked: BOOLEAN]

\* Every variable keeps its type, and evidence is linked only to a root that
\* holds the key it was signed with.
TrustTypeOK ==
    /\ roots \in [KeyIds -> Root]
    /\ evidence \in [Statements -> Evidence]
    /\ published \in KeySet
    /\ publishes \in 0..MaxPublish
    /\ lastOut \in [KeyIds -> [Material -> 0..MaxNow]]
    /\ applied \in Receipt
    /\ request \in [TrustSessions -> Requests]
    /\ now \in 0..MaxNow
    /\ \A a \in Statements : evidence[a].linked => roots[SignedBy[a]].key = 1

\* However syncs overlap, fail, are repeated or commit late, a key imported
\* from a source counts for production only if the source published it less
\* than freshness_seconds ago: a removed or stale key fails closed.
EligibleKeysWerePublished ==
    \A k \in KeyIds :
        EligibleRoot(k) /\ roots[k].imported =>
            \/ published[k] = roots[k].key
            \/ /\ publishes > 0
               /\ now < lastOut[k][roots[k].key] + Freshness

\* A successful Apply leaves every key it observed registered with exactly
\* that key, although other requests register roots between the
\* classification of the keys and the commit.
AppliedKeysAreRegistered ==
    applied.made => \A k \in KeyIds : applied.keys[k] # 0 => roots[k].key = applied.keys[k]

\* Retired, rotated and revoked roots and revoked evidence never count again:
\* no replayed registration, later import or reconciliation brings them back.
WithdrawnStaysWithdrawn ==
    [][\A a \in Statements :
         \/ evidence[a].status = "revoked"
         \/ evidence[a].linked /\ roots[SignedBy[a]].actions # {}
         => ~EligibleEvidence(a)']_trustVars
=============================================================================
