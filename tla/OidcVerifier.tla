---------------------------- MODULE OidcVerifier ----------------------------
(***************************************************************************)
(* Verification of an RS256 token against the provider's signing keys      *)
(* (OIDCJWTVerifier in backend/app/services/operator_identity.py and       *)
(* DatabaseOIDCDocumentCache in oidc_state.py).                            *)
(*                                                                         *)
(* A verifier keeps the JWKS in its process; below that is a row of        *)
(* oidc_cache_entries that all processes share, and below that the         *)
(* provider, which may rotate its keys while documents are on their way.   *)
(* One lock of the verifier covers the lookup, the request and both        *)
(* writes; a request reads the clock before it waits for the lock.  The    *)
(* deployment configures the JWKS URI; a document without keys is one that *)
(* _load_jwks rejects.                                                     *)
(***************************************************************************)
EXTENDS Integers

CONSTANTS
    Verifiers,     \* of the login client and of the middleware, in each process
    Threads,       \* the threads that serve requests
    SigningKeys,   \* the provider's keys, as named by kid
    None,          \* stands for the key and the verifier of no token
    Documents,     \* the JWKS documents it may serve, each a set of keys
    JwksTtl,       \* oidc_jwks_cache_ttl_seconds, in ticks
    FetchTime,     \* ticks that a fetch and its write may take
    LastTick,      \* bound of the model on time
    MaxRotations   \* bound of the model on changes of the document

ASSUME VerifierAssumption ==
    /\ Documents \subseteq SUBSET SigningKeys
    /\ None \notin SigningKeys \cup Verifiers
    /\ JwksTtl \in Nat \ {0}
    /\ FetchTime \in Nat
    /\ LastTick \in Nat
    /\ MaxRotations \in Nat

VARIABLES
    document,  \* the JWKS the provider serves
    with,      \* with[k]: the tick at which it last served a document with k
    without,   \* without[k]: the tick at which it last served one without k
    rotations, \* changes of the document so far
    tick,      \* the time
    shared,    \* the shared row; expires = 0 while there is none
    local,     \* local[v]: _jwks and _jwks_expires_at of verifier v
    check      \* check[t]: the token that thread t verifies

verifierVars == <<document, with, without, rotations, tick, shared, local, check>>

-----------------------------------------------------------------------------

CachedDocument == [doc: Documents \cup {{}}, expires: 0..LastTick + JwksTtl + FetchTime]

\* at: the verifier; key: the key that signed the token and that its header names;
\* current: the clock when the document was asked for; asked: when the fetch began.
Check == [phase: {"waiting", "fetching", "fetched", "accepted", "unknown", "failed"},
          at: Verifiers \cup {None}, key: SigningKeys \cup {None}, forced: BOOLEAN,
          current: 0..LastTick, asked: 0..LastTick, doc: Documents \cup {{}}]

Nothing == [doc |-> {}, expires |-> 0]

\* A thread that is done; what it verified is forgotten.
Done(outcome) ==
    [phase |-> outcome, at |-> None, key |-> None, forced |-> FALSE,
     current |-> 0, asked |-> 0, doc |-> {}]

\* The tick at which each key was last served, and last missing, when d is served at i.
LastWith(d, i) == [k \in SigningKeys |-> IF k \in d THEN i ELSE with[k]]
LastWithout(d, i) == [k \in SigningKeys |-> IF k \notin d THEN i ELSE without[k]]

VerifierInit ==
    /\ document \in Documents \ {{}}
    /\ with = [k \in SigningKeys |-> IF k \in document THEN 0 ELSE -1]
    /\ without = [k \in SigningKeys |-> IF k \notin document THEN 0 ELSE -1]
    /\ rotations = 0
    /\ tick = 0
    /\ shared = Nothing
    /\ local = [v \in Verifiers |-> Nothing]
    /\ check = [t \in Threads |-> Done("failed")]

-----------------------------------------------------------------------------
(* The provider and time *)

Rotate ==
    /\ rotations < MaxRotations
    /\ \E d \in Documents \ {document} :
          /\ document' = d
          /\ with' = LastWith(d, tick)
          /\ without' = LastWithout(d, tick)
    /\ rotations' = rotations + 1
    /\ UNCHANGED <<tick, shared, local, check>>

\* The HTTP timeout keeps a fetch from taking longer than FetchTime.
VerifierTick ==
    /\ tick < LastTick
    /\ \A t \in Threads :
          check[t].phase \in {"fetching", "fetched"} => tick < check[t].asked + FetchTime
    /\ tick' = tick + 1
    /\ with' = LastWith(document, tick + 1)
    /\ without' = LastWithout(document, tick + 1)
    /\ UNCHANGED <<document, rotations, shared, local, check>>

-----------------------------------------------------------------------------
(* One verification *)

Idle(c) == c.phase \in {"accepted", "unknown", "failed"}

\* The lock is free, unless a thread at v waits for the provider under it.
Unlocked(v) == \A t \in Threads :
    check[t].at = v => check[t].phase \notin {"fetching", "fetched"}

\* The copy of the process is in time by the clock as the request read it.
LocalInTime(t) == ~check[t].forced /\ check[t].current < local[check[t].at].expires

SharedInTime == tick < shared.expires

\* verify: a key that is missing is looked for once more, beyond the caches.
Selected(c, d) ==
    IF c.key \in d THEN Done("accepted")
    ELSE IF c.forced THEN Done("unknown")
    ELSE [phase |-> "waiting", at |-> c.at, key |-> c.key, forced |-> TRUE,
          current |-> tick, asked |-> 0, doc |-> {}]

\* Mutant of Remaining: a document from the shared row counts as fetched now.
RemainingRenewed == JwksTtl

\* _local_cache_ttl: what is left of the shared row, not a new TTL.
Remaining == IF shared.expires - tick < JwksTtl THEN shared.expires - tick ELSE JwksTtl

Present(t) ==
    /\ Idle(check[t])
    /\ \E v \in Verifiers, k \in SigningKeys :
          check' = [check EXCEPT ![t] =
             [phase |-> "waiting", at |-> v, key |-> k, forced |-> FALSE,
              current |-> tick, asked |-> 0, doc |-> {}]]
    /\ UNCHANGED <<document, with, without, rotations, tick, shared, local>>

UseLocal(t) ==
    /\ check[t].phase = "waiting"
    /\ Unlocked(check[t].at)
    /\ LocalInTime(t)
    /\ check' = [check EXCEPT ![t] = Selected(@, local[check[t].at].doc)]
    /\ UNCHANGED <<document, with, without, rotations, tick, shared, local>>

\* A shared document without keys fails the request; the provider is not asked.
UseShared(t) ==
    /\ check[t].phase = "waiting"
    /\ Unlocked(check[t].at)
    /\ ~check[t].forced /\ ~LocalInTime(t)
    /\ SharedInTime
    /\ IF shared.doc = {}
       THEN /\ check' = [check EXCEPT ![t] = Done("failed")]
            /\ UNCHANGED local
       ELSE /\ check' = [check EXCEPT ![t] = Selected(@, shared.doc)]
            /\ local' = [local EXCEPT ![check[t].at] =
                  [doc |-> shared.doc, expires |-> check[t].current + Remaining]]
    /\ UNCHANGED <<document, with, without, rotations, tick, shared>>

\* No document in time, a shared cache that cannot be read, or a forced refresh.
AskProvider(t) ==
    /\ check[t].phase = "waiting"
    /\ Unlocked(check[t].at)
    /\ ~LocalInTime(t)
    /\ check' = [check EXCEPT ![t].phase = "fetching", ![t].asked = tick]
    /\ UNCHANGED <<document, with, without, rotations, tick, shared, local>>

\* The answer of the provider, or no answer in time.
Receive(t) ==
    /\ check[t].phase = "fetching"
    /\ \/ check' = [check EXCEPT ![t].phase = "fetched", ![t].doc = document]
       \/ check' = [check EXCEPT ![t] = Done("failed")]
    /\ UNCHANGED <<document, with, without, rotations, tick, shared, local>>

\* The shared row is written, unless the database fails, before the keys are looked at.
Keep(t) ==
    LET c == check[t] IN
    /\ c.phase = "fetched"
    /\ \/ shared' = [doc |-> c.doc, expires |-> tick + JwksTtl]
       \/ UNCHANGED shared
    /\ IF c.doc = {}
       THEN /\ check' = [check EXCEPT ![t] = Done("failed")]
            /\ UNCHANGED local
       ELSE /\ check' = [check EXCEPT ![t] = Selected(@, c.doc)]
            /\ local' = [local EXCEPT ![check[t].at] =
                  [doc |-> c.doc, expires |-> c.current + JwksTtl]]
    /\ UNCHANGED <<document, with, without, rotations, tick>>

VerifierNext ==
    \/ Rotate
    \/ VerifierTick
    \/ \E t \in Threads :
          \/ Present(t)
          \/ UseLocal(t)
          \/ UseShared(t)
          \/ AskProvider(t)
          \/ Receive(t)
          \/ Keep(t)

VerifierSpec == VerifierInit /\ [][VerifierNext]_verifierVars

-----------------------------------------------------------------------------

VerifierTypeOK ==
    /\ document \in Documents
    /\ with \in [SigningKeys -> -1..tick]
    /\ without \in [SigningKeys -> -1..tick]
    /\ rotations \in 0..MaxRotations
    /\ tick \in 0..LastTick
    /\ shared \in CachedDocument
    /\ local \in [Verifiers -> CachedDocument]
    /\ check \in [Threads -> Check]

\* docs/browser_oidc.md: a replica cannot extend a nearly expired shared
\* document by treating it as newly fetched, and an unknown kid bypasses both
\* caches once.  However documents pass through the caches, are fetched side by
\* side and overwrite each other: the key of an accepted token was still served
\* one TTL and one fetch before the verifier asked for it, and a key is called
\* unknown only on a document that was served after it had asked.
VerdictsFollowTheProvider ==
    [][\A t \in Threads :
         LET c == check[t]
             outcome == check'[t].phase
         IN  ~Idle(c) =>
                /\ outcome = "accepted" => with[c.key] > c.current - JwksTtl - FetchTime
                /\ outcome = "unknown" => without[c.key] >= c.current]_verifierVars
=============================================================================
