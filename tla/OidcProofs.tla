----------------------------- MODULE OidcProofs -----------------------------
(* What the verification of tokens guarantees for every set of verifiers,  *)
(* threads, keys and documents, and the browser sessions for every set of  *)
(* sessions, administrators and cleaners.                                  *)
EXTENDS OidcVerifier, OidcSessions, TLAPS

(***************************************************************************)
(* OidcVerifier                                                            *)
(*                                                                         *)
(* A cached document vouches for the past: each of its keys was served so  *)
(* late that what is left of the cache entry is covered.  The caches keep  *)
(* that because an entry never lives longer than what it was made from.    *)
(***************************************************************************)

\* The provider's history agrees with what it serves now.
HistoryIsCurrent ==
    /\ \A k \in document : with[k] = tick
    /\ \A k \in SigningKeys \ document : without[k] = tick

\* A cache entry expires at most one TTL and one fetch after its keys were served.
CoveredBy(entry) ==
    \A k \in entry.doc : with[k] >= entry.expires - JwksTtl - FetchTime

\* What a thread knows of the time and of the provider.
CheckFollows(c) ==
    /\ c.current <= tick
    /\ ~Idle(c) => c.at \in Verifiers /\ c.key \in SigningKeys
    /\ c.phase \in {"fetching", "fetched"} =>
          /\ c.current <= c.asked
          /\ c.asked <= tick
          /\ tick <= c.asked + FetchTime
    /\ c.phase = "fetched" =>
          /\ \A k \in c.doc : with[k] >= c.asked
          /\ \A k \in SigningKeys \ c.doc : without[k] >= c.asked

VerifierInv ==
    /\ VerifierTypeOK
    /\ HistoryIsCurrent
    /\ CoveredBy(shared)
    /\ \A v \in Verifiers : CoveredBy(local[v])
    /\ \A t \in Threads : CheckFollows(check[t])

\* The documents and the outcomes have the types of the records that hold them.
LEMMA VerifierTypes ==
    /\ \A d \in Documents \cup {{}} : d \subseteq SigningKeys
    /\ Nothing \in CachedDocument
    /\ \A outcome \in {"accepted", "unknown", "failed"} :
          Done(outcome) \in Check /\ Idle(Done(outcome))
  BY VerifierAssumption DEF Nothing, CachedDocument, Done, Check, Idle

\* Selected decides, or asks for one more look with the clock of now.
LEMMA SelectedCases ==
    ASSUME VerifierTypeOK, NEW c \in Check, NEW d,
           c.at \in Verifiers, c.key \in SigningKeys
    PROVE  /\ Selected(c, d) \in Check
           /\ CheckFollows(Selected(c, d))
           /\ Selected(c, d).phase = "accepted" => c.key \in d
           /\ Selected(c, d).phase = "unknown" => c.key \notin d /\ c.forced
  <1> DEFINE again == [phase |-> "waiting", at |-> c.at, key |-> c.key, forced |-> TRUE,
                       current |-> tick, asked |-> 0, doc |-> {}]
  <1>1. again \in Check
    BY VerifierAssumption DEF Check, VerifierTypeOK
  <1>2. CheckFollows(again)
    <2>1. /\ again.phase = "waiting" /\ again.current = tick
          /\ again.at = c.at /\ again.key = c.key
      BY DEF Check
    <2>2. tick \in Int
      BY DEF VerifierTypeOK
    <2> QED
      BY <2>1, <2>2 DEF CheckFollows, Idle
  <1>3. ASSUME NEW outcome \in {"accepted", "unknown", "failed"}
        PROVE  /\ Done(outcome) \in Check
               /\ Done(outcome).phase = outcome
               /\ CheckFollows(Done(outcome))
    <2>1. Done(outcome) \in Check /\ Idle(Done(outcome))
      BY VerifierTypes
    <2>2. Done(outcome).phase = outcome /\ Done(outcome).current = 0
      BY DEF Done
    <2> QED
      BY <2>1, <2>2, VerifierAssumption DEF CheckFollows, VerifierTypeOK
  <1> QED
    BY <1>1, <1>2, <1>3 DEF Selected

\* The history only moves on.
LEMMA HistoryGrows ==
    ASSUME VerifierTypeOK, NEW d \in Documents, NEW i \in Nat, tick <= i
    PROVE  \A k \in SigningKeys :
             /\ LastWith(d, i)[k] \in Int /\ LastWith(d, i)[k] >= with[k]
             /\ LastWithout(d, i)[k] \in Int /\ LastWithout(d, i)[k] >= without[k]
             /\ k \in d => LastWith(d, i)[k] = i
             /\ k \notin d => LastWithout(d, i)[k] = i
             /\ LastWith(d, i)[k] \in -1..i /\ LastWithout(d, i)[k] \in -1..i
  BY DEF VerifierTypeOK, LastWith, LastWithout

LEMMA VerifierInitial == VerifierInit => VerifierInv
  <1> SUFFICES ASSUME VerifierInit PROVE VerifierInv
    OBVIOUS
  <1>1. VerifierTypeOK
    BY VerifierAssumption, VerifierTypes DEF VerifierInit, VerifierTypeOK
  <1>2. HistoryIsCurrent
    BY VerifierAssumption DEF VerifierInit, HistoryIsCurrent
  <1>3. CoveredBy(shared) /\ \A v \in Verifiers : CoveredBy(local[v])
    BY DEF VerifierInit, CoveredBy, Nothing
  <1>4. ASSUME NEW t \in Threads PROVE CheckFollows(check[t])
    BY DEF VerifierInit, CheckFollows, Done, Idle
  <1> QED
    BY <1>1, <1>2, <1>3, <1>4 DEF VerifierInv

\* A thread's step, which leaves the provider and the time alone.
LEMMA ThreadStep ==
    ASSUME VerifierInv, NEW t \in Threads, NEW c \in Check, CheckFollows(c),
           check' = [check EXCEPT ![t] = c],
           UNCHANGED <<document, with, without, rotations, tick>>,
           shared' \in CachedDocument, CoveredBy(shared'),
           \/ UNCHANGED local
           \/ \E v \in Verifiers, entry \in CachedDocument :
                 CoveredBy(entry) /\ local' = [local EXCEPT ![v] = entry]
    PROVE  VerifierInv'
  <1> USE DEF VerifierInv
  <1>1. local' \in [Verifiers -> CachedDocument] /\ \A v \in Verifiers : CoveredBy(local'[v])
    BY DEF VerifierTypeOK
  <1>2. VerifierTypeOK'
    BY <1>1 DEF VerifierTypeOK
  <1>3. HistoryIsCurrent'
    BY DEF HistoryIsCurrent
  <1>4. CoveredBy(shared)' /\ \A v \in Verifiers : CoveredBy(local[v])'
    BY <1>1 DEF CoveredBy
  <1>5. ASSUME NEW u \in Threads PROVE CheckFollows(check[u])'
    <2>1. CheckFollows(check'[u])
      BY DEF VerifierTypeOK
    <2> QED
      BY <2>1 DEF CheckFollows
  <1> QED
    BY <1>2, <1>3, <1>4, <1>5

\* The provider's step or the passing of time: whatever holds of the past still does.
LEMMA HistoryStep ==
    ASSUME VerifierInv, Rotate \/ VerifierTick
    PROVE  VerifierInv'
  <1> USE VerifierAssumption DEF VerifierInv
  <1>1. PICK d \in Documents, i \in Nat :
          /\ document' = d
          /\ tick' = i /\ tick <= i /\ i <= LastTick
          /\ with' = LastWith(d, i)
          /\ without' = LastWithout(d, i)
          /\ rotations' \in 0..MaxRotations
          /\ UNCHANGED <<shared, local, check>>
          /\ i # tick => \A t \in Threads :
                check[t].phase \in {"fetching", "fetched"} => i <= check[t].asked + FetchTime
    <2>1. CASE Rotate
      BY <2>1 DEF Rotate, VerifierTypeOK
    <2>2. CASE VerifierTick
      <3>1. tick + 1 \in Nat /\ tick + 1 <= LastTick /\ tick \in Nat
        BY <2>2 DEF VerifierTick, VerifierTypeOK
      <3>2. ASSUME NEW t \in Threads, check[t].phase \in {"fetching", "fetched"}
            PROVE  tick + 1 <= check[t].asked + FetchTime
        <4>1. check[t].asked \in Nat
          BY DEF VerifierTypeOK, Check
        <4> QED
          BY <2>2, <3>1, <3>2, <4>1 DEF VerifierTick
      <3> QED
        BY <2>2, <3>1, <3>2 DEF VerifierTick, VerifierTypeOK
    <2> QED
      BY <2>1, <2>2
  <1>2. \A k \in SigningKeys :
          /\ with'[k] \in -1..i /\ without'[k] \in -1..i
          /\ with[k] \in Int /\ without[k] \in Int
          /\ with'[k] >= with[k] /\ without'[k] >= without[k]
          /\ k \in d => with'[k] = i
          /\ k \notin d => without'[k] = i
    BY <1>1, HistoryGrows DEF VerifierTypeOK
  <1>3. VerifierTypeOK'
    <2>1. with' \in [SigningKeys -> -1..i] /\ without' \in [SigningKeys -> -1..i]
      BY <1>1, <1>2 DEF LastWith, LastWithout
    <2> QED
      BY <1>1, <2>1 DEF VerifierTypeOK
  <1>4. HistoryIsCurrent'
    BY <1>1, <1>2 DEF HistoryIsCurrent
  <1>5. ASSUME NEW entry \in CachedDocument, CoveredBy(entry)
        PROVE  \A k \in entry.doc : with'[k] >= entry.expires - JwksTtl - FetchTime
    <2>1. entry.doc \subseteq SigningKeys /\ entry.expires \in Int
      BY VerifierTypes DEF CachedDocument
    <2> QED
      BY <1>2, <1>5, <2>1 DEF CoveredBy
  <1>6. CoveredBy(shared)' /\ \A v \in Verifiers : CoveredBy(local[v])'
    BY <1>1, <1>5 DEF CoveredBy, VerifierTypeOK
  <1>7. ASSUME NEW t \in Threads PROVE CheckFollows(check[t])'
    <2> DEFINE c == check[t]
    <2>1. c \in Check /\ CheckFollows(c) /\ check' = check
      BY <1>1 DEF VerifierTypeOK
    <2>2. c.doc \subseteq SigningKeys /\ c.asked \in Int /\ c.current \in Int /\ tick \in Int
      BY <2>1, VerifierTypes DEF Check, VerifierTypeOK
    <2> HIDE DEF c
    <2>3. CheckFollows(c)'
      BY <1>1, <1>2, <2>1, <2>2 DEF CheckFollows, c
    <2> QED
      BY <2>1, <2>3 DEF c
  <1> QED
    BY <1>3, <1>4, <1>6, <1>7

LEMMA VerifierStep == VerifierInv /\ [VerifierNext]_verifierVars => VerifierInv'
  <1> SUFFICES ASSUME VerifierInv, [VerifierNext]_verifierVars PROVE VerifierInv'
    OBVIOUS
  <1> USE VerifierAssumption
  <1>1. CASE Rotate \/ VerifierTick
    BY <1>1, HistoryStep
  <1>2. ASSUME NEW t \in Threads PROVE
          /\ check[t] \in Check /\ CheckFollows(check[t])
          /\ shared \in CachedDocument /\ CoveredBy(shared)
          /\ VerifierTypeOK /\ tick \in Nat
    BY DEF VerifierInv, VerifierTypeOK
  <1>3. ASSUME NEW t \in Threads, NEW outcome \in {"accepted", "unknown", "failed"}
        PROVE  Done(outcome) \in Check /\ CheckFollows(Done(outcome))
    <2>1. Done(outcome) \in Check /\ Idle(Done(outcome)) /\ tick \in Nat
      BY VerifierTypes, <1>2
    <2> QED
      BY <2>1 DEF Done, CheckFollows, Idle
  <1>4. ASSUME NEW t \in Threads, Present(t) PROVE VerifierInv'
    <2>1. PICK v \in Verifiers, k \in SigningKeys :
             check' = [check EXCEPT ![t] =
               [phase |-> "waiting", at |-> v, key |-> k, forced |-> FALSE,
                current |-> tick, asked |-> 0, doc |-> {}]]
      BY <1>4 DEF Present
    <2> DEFINE c == [phase |-> "waiting", at |-> v, key |-> k, forced |-> FALSE,
                     current |-> tick, asked |-> 0, doc |-> {}]
    <2>2. c \in Check
      BY <1>2 DEF Check, VerifierTypeOK
    <2>3. CheckFollows(c)
      BY <1>2 DEF CheckFollows
    <2> QED
      BY <1>2, <1>4, <2>1, <2>2, <2>3, ThreadStep DEF Present
  <1>5. ASSUME NEW t \in Threads, UseLocal(t) PROVE VerifierInv'
    <2> DEFINE c == Selected(check[t], local[check[t].at].doc)
    <2>1. check[t].at \in Verifiers /\ check[t].key \in SigningKeys
      BY <1>2, <1>5 DEF UseLocal, CheckFollows, Idle
    <2>2. c \in Check /\ CheckFollows(c)
      BY <1>2, <2>1, SelectedCases
    <2>3. check' = [check EXCEPT ![t] = c]
      BY <1>5 DEF UseLocal
    <2> HIDE DEF c
    <2> QED
      BY <1>2, <1>5, <2>2, <2>3, ThreadStep DEF UseLocal
  <1>6. ASSUME NEW t \in Threads, UseShared(t) PROVE VerifierInv'
    <2>1. check[t].at \in Verifiers /\ check[t].key \in SigningKeys
      BY <1>2, <1>6 DEF UseShared, CheckFollows, Idle
    <2>2. CASE shared.doc = {}
      BY <1>2, <1>3, <1>6, <2>2, ThreadStep DEF UseShared
    <2>3. CASE shared.doc # {}
      <3> DEFINE c == Selected(check[t], shared.doc)
                 entry == [doc |-> shared.doc, expires |-> check[t].current + Remaining]
      <3>1. c \in Check /\ CheckFollows(c)
        BY <1>2, <2>1, SelectedCases
      <3>2. check[t].current \in 0..tick /\ tick \in 0..LastTick
            /\ shared.expires \in 0..LastTick + JwksTtl + FetchTime /\ tick < shared.expires
        BY <1>2, <1>6 DEF UseShared, SharedInTime, CheckFollows, Check, CachedDocument,
                          VerifierTypeOK
      <3>3. entry.expires \in 0..LastTick + JwksTtl + FetchTime
            /\ entry.expires <= shared.expires
        BY <3>2 DEF Remaining
      <3>4. entry \in CachedDocument
        BY <1>2, <3>3 DEF CachedDocument
      <3>5. \A k \in shared.doc : with[k] \in Int
        BY <1>2, VerifierTypes DEF CachedDocument, VerifierTypeOK
      <3>6. CoveredBy(entry)
        BY <1>2, <3>2, <3>3, <3>5 DEF CoveredBy
      <3>7. check' = [check EXCEPT ![t] = c] /\ local' = [local EXCEPT ![check[t].at] = entry]
        BY <1>6, <2>3 DEF UseShared
      <3> HIDE DEF c, entry
      <3> QED
        BY <1>2, <1>6, <2>1, <3>1, <3>4, <3>6, <3>7, ThreadStep DEF UseShared
    <2> QED
      BY <2>2, <2>3
  <1>7. ASSUME NEW t \in Threads, AskProvider(t) PROVE VerifierInv'
    <2> DEFINE c == [check[t] EXCEPT !.phase = "fetching", !.asked = tick]
    <2>1. check[t].at \in Verifiers /\ check[t].key \in SigningKeys
      BY <1>2, <1>7 DEF AskProvider, CheckFollows, Idle
    <2>2. c \in Check /\ c.phase = "fetching" /\ c.asked = tick
          /\ c.at = check[t].at /\ c.key = check[t].key /\ c.current = check[t].current
      BY <1>2 DEF Check, VerifierTypeOK
    <2>3. check' = [check EXCEPT ![t] = c]
      BY <1>2, <1>7 DEF AskProvider, VerifierTypeOK
    <2> HIDE DEF c
    <2>4. CheckFollows(c)
      BY <1>2, <2>1, <2>2 DEF CheckFollows
    <2> QED
      BY <1>2, <1>7, <2>2, <2>3, <2>4, ThreadStep DEF AskProvider
  <1>8. ASSUME NEW t \in Threads, Receive(t) PROVE VerifierInv'
    <2> DEFINE c == [check[t] EXCEPT !.phase = "fetched", !.doc = document]
    <2>1. CASE check' = [check EXCEPT ![t] = Done("failed")]
      BY <1>2, <1>3, <1>8, <2>1, ThreadStep DEF Receive
    <2>2. CASE check' = [check EXCEPT ![t] = c]
      <3>1. check[t].phase = "fetching"
        BY <1>8 DEF Receive
      <3>2. c \in Check /\ c.phase = "fetched" /\ c.asked = check[t].asked /\ c.doc = document
            /\ c.at = check[t].at /\ c.key = check[t].key /\ c.current = check[t].current
        BY <1>2 DEF Check, VerifierTypeOK
      <3> HIDE DEF c
      <3>3. c.asked <= tick /\ HistoryIsCurrent /\ c.asked \in Int
        BY <1>2, <3>1, <3>2 DEF CheckFollows, VerifierInv, Check
      <3>4. CheckFollows(c)
        BY <1>2, <3>1, <3>2, <3>3 DEF CheckFollows, HistoryIsCurrent, Idle
      <3> QED
        BY <1>2, <1>8, <2>2, <3>2, <3>4, ThreadStep DEF Receive
    <2>3. check' = [check EXCEPT ![t] = Done("failed")] \/ check' = [check EXCEPT ![t] = c]
      BY <1>2, <1>8 DEF Receive, VerifierTypeOK
    <2> QED
      BY <2>1, <2>2, <2>3
  <1>9. ASSUME NEW t \in Threads, Keep(t) PROVE VerifierInv'
    <2> DEFINE c == check[t]
               d == Selected(c, c.doc)
               entry == [doc |-> c.doc, expires |-> c.current + JwksTtl]
               kept == [doc |-> c.doc, expires |-> tick + JwksTtl]
    <2>1. c.phase = "fetched" /\ c.at \in Verifiers /\ c.key \in SigningKeys
      BY <1>2, <1>9 DEF Keep, CheckFollows, Idle
    <2>2. /\ c.current \in 0..LastTick /\ c.asked \in 0..LastTick /\ tick \in 0..LastTick
          /\ c.current <= c.asked /\ tick <= c.asked + FetchTime
          /\ c.doc \in Documents \cup {{}}
          /\ \A k \in c.doc : with[k] >= c.asked
      BY <1>2, <2>1 DEF CheckFollows, Check, VerifierTypeOK
    <2>3. \A k \in c.doc : with[k] \in Int
      BY <1>2, <2>2, VerifierTypes DEF VerifierTypeOK
    <2>4. entry \in CachedDocument /\ kept \in CachedDocument
      BY <2>2 DEF CachedDocument
    <2>5. CoveredBy(entry) /\ CoveredBy(kept)
      BY <2>2, <2>3 DEF CoveredBy
    <2>6. shared' \in CachedDocument /\ CoveredBy(shared')
      BY <1>2, <1>9, <2>4, <2>5 DEF Keep
    <2>7. CASE c.doc = {}
      BY <1>2, <1>3, <1>9, <2>6, <2>7, ThreadStep DEF Keep
    <2>8. CASE c.doc # {}
      <3>1. d \in Check /\ CheckFollows(d)
        BY <1>2, <2>1, SelectedCases
      <3>2. check' = [check EXCEPT ![t] = d] /\ local' = [local EXCEPT ![c.at] = entry]
        BY <1>9, <2>8 DEF Keep
      <3> HIDE DEF d, entry
      <3> QED
        BY <1>2, <1>9, <2>1, <2>4, <2>5, <2>6, <3>1, <3>2, ThreadStep DEF Keep
    <2> QED
      BY <2>7, <2>8
  <1>10. CASE UNCHANGED verifierVars
    BY <1>10 DEF verifierVars, VerifierInv, VerifierTypeOK, HistoryIsCurrent, CoveredBy,
                 CheckFollows
  <1> QED
    BY <1>1, <1>4, <1>5, <1>6, <1>7, <1>8, <1>9, <1>10 DEF VerifierNext

LEMMA VerifierHolds == VerifierSpec => []VerifierInv
  BY VerifierInitial, VerifierStep, PTL DEF VerifierSpec

\* Every variable of the verifiers keeps its type.
THEOREM VerifierTypeCorrect == VerifierSpec => []VerifierTypeOK
  <1>1. VerifierInv => VerifierTypeOK
    BY DEF VerifierInv
  <1> QED
    BY <1>1, VerifierHolds, PTL

\* The key of an accepted token was still served one TTL and one fetch before
\* the verifier asked for it, and a key is unknown only to a document that was
\* served after it had asked (OIDCJWTVerifier.verify and its two caches).
THEOREM VerdictsAreTrue == VerifierSpec => VerdictsFollowTheProvider
  <1> DEFINE Verdict(t) ==
        ~Idle(check[t]) =>
           /\ check'[t].phase = "accepted" =>
                 with[check[t].key] > check[t].current - JwksTtl - FetchTime
           /\ check'[t].phase = "unknown" => without[check[t].key] >= check[t].current
  <1>1. ASSUME VerifierInv, [VerifierNext]_verifierVars, NEW t \in Threads PROVE Verdict(t)
    <2> DEFINE c == check[t]
    <2> SUFFICES ASSUME ~Idle(c), check'[t].phase \in {"accepted", "unknown"} PROVE Verdict(t)
      OBVIOUS
    <2>1. /\ VerifierTypeOK /\ c \in Check /\ CheckFollows(c)
          /\ c.at \in Verifiers /\ c.key \in SigningKeys
          /\ with[c.key] \in Int /\ without[c.key] \in Int
          /\ c.current \in Int /\ c.current <= tick /\ tick \in Int
          /\ JwksTtl \in Nat \ {0} /\ FetchTime \in Nat
      <3>1. /\ VerifierTypeOK /\ c \in Check /\ CheckFollows(c)
            /\ c.at \in Verifiers /\ c.key \in SigningKeys /\ c.current <= tick
        BY <1>1 DEF VerifierInv, VerifierTypeOK, CheckFollows
      <3>2. c.current \in Int
        BY <3>1, VerifierAssumption DEF Check
      <3> QED
        BY <3>1, <3>2, VerifierAssumption DEF VerifierTypeOK
    <2>2. c.phase \in {"waiting", "fetching", "fetched"}
      BY <2>1 DEF Check, Idle
    <2>3. CASE check'[t] = c
      BY <2>2, <2>3
    <2>4. CASE UseLocal(t)
      <3> DEFINE entry == local[c.at]
      <3>1. check'[t] = Selected(c, entry.doc) /\ ~c.forced /\ c.current < entry.expires
        BY <2>1, <2>4 DEF UseLocal, LocalInTime, VerifierTypeOK
      <3>2. check'[t].phase = "accepted" /\ c.key \in entry.doc
        BY <2>1, <3>1, SelectedCases
      <3>3. entry.expires \in Int /\ with[c.key] >= entry.expires - JwksTtl - FetchTime
        BY <1>1, <2>1, <3>2, VerifierAssumption
        DEF VerifierInv, CoveredBy, VerifierTypeOK, CachedDocument
      <3> QED
        BY <2>1, <3>1, <3>2, <3>3
    <2>5. CASE UseShared(t)
      <3>1. ~c.forced /\ tick < shared.expires
        BY <2>5 DEF UseShared, SharedInTime
      <3>2. check'[t] = Selected(c, shared.doc)
        BY <2>1, <2>5 DEF UseShared, VerifierTypeOK, Done
      <3>3. check'[t].phase = "accepted" /\ c.key \in shared.doc
        BY <2>1, <3>1, <3>2, SelectedCases
      <3>4. shared.expires \in Int /\ with[c.key] >= shared.expires - JwksTtl - FetchTime
        BY <1>1, <2>1, <3>3, VerifierAssumption
        DEF VerifierInv, CoveredBy, VerifierTypeOK, CachedDocument
      <3> QED
        BY <2>1, <3>1, <3>3, <3>4
    <2>6. CASE Keep(t)
      <3>1. /\ c.current <= c.asked /\ c.asked \in Int
            /\ \A k \in c.doc : with[k] >= c.asked
            /\ \A k \in SigningKeys \ c.doc : without[k] >= c.asked
        BY <2>1, <2>6 DEF Keep, CheckFollows, Check
      <3>2. check'[t] = Selected(c, c.doc)
        BY <2>1, <2>6 DEF Keep, VerifierTypeOK, Done
      <3>3. /\ check'[t].phase = "accepted" => c.key \in c.doc
            /\ check'[t].phase = "unknown" => c.key \notin c.doc
        BY <2>1, <3>2, SelectedCases
      <3> QED
        BY <2>1, <3>1, <3>3
    <2>7. CASE AskProvider(t) \/ Receive(t)
      <3>1. check'[t].phase \in {"fetching", "fetched", "failed"}
        BY <2>1, <2>7 DEF AskProvider, Receive, Done, VerifierTypeOK, Check
      <3> QED
        BY <3>1
    <2>8. ASSUME NEW u \in Threads, u # t,
                 \/ Present(u) \/ UseLocal(u) \/ UseShared(u)
                 \/ AskProvider(u) \/ Receive(u) \/ Keep(u)
          PROVE  check'[t] = c
      BY <2>1, <2>8 DEF Present, UseLocal, UseShared, AskProvider, Receive, Keep,
                        VerifierTypeOK
    <2>9. ~Present(t)
      BY DEF Present
    <2>10. CASE Rotate \/ VerifierTick \/ UNCHANGED verifierVars
      BY <2>3, <2>10 DEF Rotate, VerifierTick, verifierVars
    <2> QED
      BY <1>1, <2>3, <2>4, <2>5, <2>6, <2>7, <2>8, <2>9, <2>10 DEF VerifierNext
  <1>2. VerifierInv /\ [VerifierNext]_verifierVars =>
          [\A t \in Threads : Verdict(t)]_verifierVars
    BY <1>1
  <1> QED
    BY <1>2, VerifierHolds, PTL DEF VerifierSpec, VerdictsFollowTheProvider

(***************************************************************************)
(* OidcSessions                                                            *)
(*                                                                         *)
(* Every row that an administrator or a cleanup has locked is stored and   *)
(* locked by nobody else, so that only a logout works on a copy that may   *)
(* be old; it can be wrong about the token in one direction only.          *)
(***************************************************************************)

Taken(c) == cleanup[c].delete \cup cleanup[c].purge

LocksExclude ==
    /\ \A a \in Admins : \A s \in action[a].rows : Stored(s)
    /\ \A c \in Cleaners : \A s \in Taken(c) : Stored(s)
    /\ \A a, b \in Admins : a = b \/ action[a].rows \cap action[b].rows = {}
    /\ \A a \in Admins, c \in Cleaners : action[a].rows \cap Taken(c) = {}
    /\ \A c, d \in Cleaners : c = d \/ Taken(c) \cap Taken(d) = {}
    /\ \A c \in Cleaners : cleanup[c].delete \cap cleanup[c].purge = {}

SessionTypes ==
    /\ row \in [BrowserSessions -> SessionRow]
    /\ events \in [BrowserSessions -> Seq(Event)]
    /\ visit \in [BrowserSessions -> Visit]
    /\ action \in [Admins -> Action]
    /\ cleanup \in [Cleaners -> Cleanup]
    /\ actions \in 0..MaxAdminActions

LogInv(s) ==
    /\ row[s].state = "absent" =>
          ~row[s].revoked /\ visit[s].phase = "none" /\ events[s] = <<>>
    /\ Stored(s) =>
          /\ events[s] # <<>>
          /\ LogTellsTheRow(s)
          /\ visit[s].phase = "loaded" /\ row[s].token => visit[s].token
    /\ DeletionEndsTheLog(s)

SessionInv ==
    /\ SessionTypes
    /\ LocksExclude
    /\ \A s \in BrowserSessions : LogInv(s)

\* What a log says after one more event.
LEMMA LogGrows ==
    ASSUME NEW log \in Seq(Event), log # <<>>, NEW e \in Event
    PROVE  LET new == Append(log, e) IN
           /\ new \in Seq(Event) /\ new # <<>> /\ Len(new) = Len(log) + 1
           /\ new[1] = log[1] /\ new[Len(new)] = e /\ Len(new) \in 2..Len(new)
           /\ \A i \in DOMAIN log : i \in DOMAIN new /\ new[i] = log[i]
           /\ \A i \in DOMAIN new : i \in DOMAIN log \/ i = Len(new)
           /\ Len(new) \in DOMAIN new /\ Len(new) \notin DOMAIN log
           /\ DOMAIN log = 1..Len(log) /\ DOMAIN new = 1..Len(new)
  <1>1. Len(log) \in Nat \ {0}
    OBVIOUS
  <1> QED
    BY <1>1

\* A step that leaves the log and what it is about alone.
LEMMA LogKept ==
    ASSUME NEW s \in BrowserSessions, SessionTypes, SessionTypes', LogInv(s),
           events'[s] = events[s],
           row'[s].state = row[s].state,
           row'[s].revoked = row[s].revoked,
           row'[s].token = row[s].token,
           \/ visit'[s] = visit[s]
           \/ visit'[s].phase = "none"
           \/ visit'[s].phase \in {"touching", "resolved"} /\ Stored(s)
           \/ visit'[s].token = row[s].token /\ Stored(s)
    PROVE  LogInv(s)'
  BY DEF LogInv, LogTellsTheRow, DeletionEndsTheLog, Events, Stored

\* An event that ends the session or clears its token, with the row.
LEMMA LogAppended ==
    ASSUME NEW s \in BrowserSessions, SessionTypes, SessionTypes', LogInv(s), Stored(s),
           NEW e \in Event, e.type # "retention_deleted",
           events'[s] = Append(events[s], e),
           row'[s].state = "stored",
           row'[s].revoked <=> row[s].revoked \/ e.type = "revoked",
           ~row'[s].token,
           row[s].token => e.token
    PROVE  LogInv(s)'
  <1> DEFINE log == events[s]
             new == Append(log, e)
  <1>1. log \in Seq(Event) /\ log # <<>>
    BY DEF LogInv, SessionTypes
  <1>2. /\ new # <<>> /\ new[1] = log[1] /\ new[Len(new)] = e /\ Len(new) \in 2..Len(new)
        /\ \A i \in DOMAIN log : i \in DOMAIN new /\ new[i] = log[i]
        /\ \A i \in DOMAIN new : i \in DOMAIN log \/ i = Len(new)
        /\ Len(new) \in DOMAIN new /\ Len(new) \notin DOMAIN log
        /\ DOMAIN log = 1..Len(log) /\ DOMAIN new = 1..Len(new)
        /\ Len(new) = Len(log) + 1 /\ Len(log) \in Nat
    BY <1>1, LogGrows
  <1> HIDE DEF new
  <1>3. events'[s] = new
    BY DEF new
  <1>4. LogTellsTheRow(s)'
    <2>1. ~(new[1].token /\ \A i \in 2..Len(new) : ~new[i].token)
      <3>1. CASE row[s].token
        BY <1>2, <3>1
      <3>2. CASE ~row[s].token
        <4>1. ~log[1].token \/ \E i \in 2..Len(log) : log[i].token
          BY <3>2 DEF LogInv, LogTellsTheRow
        <4>2. \A i \in 2..Len(log) : i \in 2..Len(new) /\ new[i] = log[i]
          BY <1>2
        <4> QED
          BY <1>2, <4>1, <4>2
      <3> QED
        BY <3>1, <3>2
    <2>2. (\E x \in {new[i] : i \in DOMAIN new} : x.type = "revoked")
          <=> (\E x \in {log[i] : i \in DOMAIN log} : x.type = "revoked") \/ e.type = "revoked"
      BY <1>2
    <2>3. row[s].revoked <=> \E x \in {log[i] : i \in DOMAIN log} : x.type = "revoked"
      BY DEF LogInv, LogTellsTheRow, Events
    <2> QED
      BY <1>3, <2>1, <2>2, <2>3 DEF LogTellsTheRow, Events
  <1>5. DeletionEndsTheLog(s)'
    <2>1. {i \in DOMAIN log : log[i].type = "retention_deleted"} = {}
      BY DEF LogInv, DeletionEndsTheLog, Stored
    <2>2. {i \in DOMAIN new : new[i].type = "retention_deleted"} = {}
      BY <1>2, <2>1
    <2> QED
      BY <1>3, <2>2 DEF DeletionEndsTheLog
  <1> QED
    BY <1>2, <1>3, <1>4, <1>5 DEF LogInv, Stored

\* The event of a deletion, with the row.
LEMMA LogEnded ==
    ASSUME NEW s \in BrowserSessions, SessionTypes, LogInv(s), Stored(s),
           NEW e \in Event, e.type = "retention_deleted",
           events'[s] = Append(events[s], e),
           row'[s].state = "deleted"
    PROVE  LogInv(s)'
  <1> DEFINE log == events[s]
             new == Append(log, e)
  <1>1. log \in Seq(Event) /\ log # <<>>
    BY DEF LogInv, SessionTypes
  <1>2. /\ new[Len(new)] = e
        /\ \A i \in DOMAIN log : i \in DOMAIN new /\ new[i] = log[i]
        /\ \A i \in DOMAIN new : i \in DOMAIN log \/ i = Len(new)
        /\ Len(new) \in DOMAIN new
    BY <1>1, LogGrows
  <1> HIDE DEF new
  <1>3. {i \in DOMAIN log : log[i].type = "retention_deleted"} = {}
    BY DEF LogInv, DeletionEndsTheLog, Stored
  <1>4. {i \in DOMAIN new : new[i].type = "retention_deleted"} = {Len(new)}
    BY <1>2, <1>3
  <1>5. events'[s] = new
    BY DEF new
  <1> QED
    BY <1>4, <1>5 DEF LogInv, DeletionEndsTheLog, Stored

LEMMA SessionInitial == OidcInit => SessionInv
  <1> SUFFICES ASSUME OidcInit PROVE SessionInv
    OBVIOUS
  <1> USE DEF OidcInit
  <1>1. SessionTypes
    BY OidcAssumption
    DEF SessionTypes, SessionRow, Visit, Action, Cleanup, NoVisit, NoAction, NoCleanup
  <1>2. LocksExclude
    BY DEF LocksExclude, Taken, NoAction, NoCleanup
  <1>3. ASSUME NEW s \in BrowserSessions PROVE LogInv(s)
    BY DEF LogInv, Stored, DeletionEndsTheLog, NoVisit
  <1> QED
    BY <1>1, <1>2, <1>3 DEF SessionInv

\* The events that administrators and cleanups write, and the rows they leave.
LEMMA SessionTypeStep == SessionTypes /\ [OidcNext]_oidcVars => SessionTypes'
  <1> SUFFICES ASSUME SessionTypes, [OidcNext]_oidcVars PROVE SessionTypes'
    OBVIOUS
  <1> USE DEF SessionTypes
  <1>1. \A s \in BrowserSessions :
          /\ row[s] \in SessionRow /\ row[s].token \in BOOLEAN /\ row[s].revoked \in BOOLEAN
          /\ visit[s] \in Visit
          /\ \A e \in Event : Append(events[s], e) \in Seq(Event)
    BY DEF SessionRow
  <1>2. \A s \in BrowserSessions, b \in BOOLEAN : [type |-> "revoked", token |-> b] \in Event
                /\ [type |-> "issued", token |-> b] \in Event
                /\ [type |-> "provider_token_purged", token |-> b] \in Event
                /\ [type |-> "retention_deleted", token |-> b] \in Event
    BY DEF Event
  <1>3. ASSUME NEW s \in BrowserSessions, Issue(s) PROVE SessionTypes'
    <2>1. PICK token \in BOOLEAN :
            /\ row' = [row EXCEPT ![s].state = "stored", ![s].token = token]
            /\ events' = [events EXCEPT ![s] = <<[type |-> "issued", token |-> token]>>]
      BY <1>3 DEF Issue
    <2>2. [[row[s] EXCEPT !.state = "stored"] EXCEPT !.token = token] \in SessionRow
      BY <1>1 DEF SessionRow
    <2>3. row' \in [BrowserSessions -> SessionRow]
      BY <2>1, <2>2
    <2>4. \A e \in Event : <<e>> \in Seq(Event)
      OBVIOUS
    <2> QED
      BY <1>2, <1>3, <2>1, <2>3, <2>4 DEF Issue
  <1>4. ASSUME NEW s \in BrowserSessions, Age(s) PROVE SessionTypes'
    BY <1>4 DEF Age, SessionRow
  <1>5. ASSUME NEW s \in BrowserSessions,
               Touch(s) \/ EndTouch(s) \/ BeginLogout(s) \/ LoadLogout(s)
        PROVE  SessionTypes'
    <2>1. \A b \in BOOLEAN : [phase |-> "loaded", token |-> b] \in Visit
      BY DEF Visit
    <2>2. NoVisit \in Visit /\ [visit[s] EXCEPT !.phase = "touching"] \in Visit
          /\ [visit[s] EXCEPT !.phase = "resolved"] \in Visit
      BY <1>1 DEF Visit, NoVisit
    <2> QED
      BY <1>1, <1>5, <2>1, <2>2 DEF Touch, EndTouch, BeginLogout, LoadLogout
  <1>6. ASSUME NEW s \in BrowserSessions, CommitLogout(s) PROVE SessionTypes'
    <2>1. visit' \in [BrowserSessions -> Visit]
      BY <1>6 DEF CommitLogout, Visit, NoVisit
    <2>2. CASE Stored(s)
      <3>1. visit[s].token \in BOOLEAN
        BY <1>1 DEF Visit
      <3> DEFINE r == [[[row[s] EXCEPT !.revoked = TRUE] EXCEPT !.age = "live"]
                        EXCEPT !.token = @ /\ ~visit[s].token]
                 e == [type |-> "revoked", token |-> visit[s].token]
      <3>2. r \in SessionRow
        BY <1>1 DEF SessionRow
      <3>3. row' = [row EXCEPT ![s] = r]
        <4>1. row' = [row EXCEPT ![s].revoked = TRUE, ![s].age = "live",
                                 ![s].token = @ /\ ~visit[s].token]
          BY <1>6, <2>2 DEF CommitLogout
        <4>2. \A x \in BrowserSessions : row'[x] = IF x = s THEN r ELSE row[x]
          BY <4>1
        <4> QED
          BY <4>1, <4>2
      <3>4. Append(events[s], e) \in Seq(Event)
        BY <1>1, <1>2, <3>1
      <3>5. events' = [events EXCEPT ![s] = Append(events[s], e)]
        BY <1>6, <2>2 DEF CommitLogout
      <3> HIDE DEF r, e
      <3> QED
        BY <1>6, <2>1, <3>2, <3>3, <3>4, <3>5 DEF CommitLogout
    <2> QED
      BY <1>6, <2>1, <2>2 DEF CommitLogout
  <1>7. ASSUME NEW a \in Admins, LockOne(a) \/ LockGroup(a) PROVE SessionTypes'
    <2>1. PICK rows \in SUBSET BrowserSessions, current \in BrowserSessions \cup {NoCurrent} :
            Hold(a, rows, current) /\ actions < MaxAdminActions
      BY <1>7, OidcAssumption DEF LockOne, LockGroup
    <2>2. [phase |-> "locked", rows |-> rows, current |-> current] \in Action
      BY DEF Action
    <2> QED
      BY <2>1, <2>2, OidcAssumption DEF Hold
  <1>8. ASSUME NEW a \in Admins, Revoke(a) PROVE SessionTypes'
    <2> DEFINE changed == {s \in action[a].rows \ {action[a].current} :
                             Active(s) \/ row[s].token}
    <2>1. row' = [s \in BrowserSessions |->
                    IF s \in changed
                    THEN [row[s] EXCEPT !.token = FALSE, !.revoked = @ \/ Active(s)]
                    ELSE row[s]]
      BY <1>8 DEF Revoke
    <2>2. events' = [s \in BrowserSessions |->
                       IF s \in changed THEN Append(events[s], Ended(s)) ELSE events[s]]
      BY <1>8 DEF Revoke
    <2> HIDE DEF changed
    <2>3. \A s \in BrowserSessions :
             /\ [row[s] EXCEPT !.token = FALSE, !.revoked = @ \/ Active(s)] \in SessionRow
             /\ Ended(s) \in Event
      BY <1>1, <1>2 DEF SessionRow, Ended
    <2>4. NoAction \in Action
      BY DEF NoAction, Action
    <2> QED
      <3>1. row' \in [BrowserSessions -> SessionRow]
        BY <1>1, <2>1, <2>3
      <3>2. \A s \in BrowserSessions : Append(events[s], Ended(s)) \in Seq(Event)
        BY <1>1, <2>3
      <3>3. events' \in [BrowserSessions -> Seq(Event)]
        BY <1>1, <2>2, <3>2
      <3> QED
        BY <1>8, <2>4, <3>1, <3>3 DEF Revoke
  <1>9. ASSUME NEW c \in Cleaners, LockDue(c) \/ LockPurgeable(c) PROVE SessionTypes'
    <2>1. CASE LockDue(c)
      <3>1. PICK batch \in Batch({s \in BrowserSessions : Available(s) /\ row[s].age = "due"}) :
              cleanup' = [cleanup EXCEPT ![c] =
                        [phase |-> "selected", delete |-> batch, purge |-> {},
                         expired |-> {s \in BrowserSessions : row[s].age # "live"}]]
        BY <2>1 DEF LockDue
      <3>2. batch \subseteq BrowserSessions
        BY DEF Batch
      <3>3. [phase |-> "selected", delete |-> batch, purge |-> {},
             expired |-> {s \in BrowserSessions : row[s].age # "live"}] \in Cleanup
        BY <3>2 DEF Cleanup
      <3> QED
        BY <2>1, <3>1, <3>3 DEF LockDue
    <2>2. CASE LockPurgeable(c)
      <3>1. PICK batch \in Batch({s \in BrowserSessions \ cleanup[c].delete :
                             Available(s) /\ Purgeable(c, s)}) :
              cleanup' = [cleanup EXCEPT ![c].phase = "locked", ![c].purge = batch]
        BY <2>2 DEF LockPurgeable
      <3>2. batch \subseteq BrowserSessions
        BY DEF Batch
      <3> DEFINE t == [[cleanup[c] EXCEPT !.phase = "locked"] EXCEPT !.purge = batch]
      <3>3. t \in Cleanup
        BY <3>2 DEF Cleanup
      <3>4. cleanup' = [cleanup EXCEPT ![c] = t]
        BY <3>1
      <3> HIDE DEF t
      <3> QED
        BY <2>2, <3>3, <3>4 DEF LockPurgeable
    <2> QED
      BY <1>9, <2>1, <2>2
  <1>10. ASSUME NEW c \in Cleaners, CommitCleanup(c) PROVE SessionTypes'
    <2>1. \A s \in BrowserSessions :
             /\ [row[s] EXCEPT !.state = "deleted", !.token = FALSE] \in SessionRow
             /\ [row[s] EXCEPT !.token = FALSE] \in SessionRow
      BY <1>1 DEF SessionRow
    <2>2. row' \in [BrowserSessions -> SessionRow]
      BY <1>1, <1>10, <2>1 DEF CommitCleanup
    <2>3. events' \in [BrowserSessions -> Seq(Event)]
      BY <1>1, <1>2, <1>10 DEF CommitCleanup
    <2>4. NoCleanup \in Cleanup
      BY DEF NoCleanup, Cleanup
    <2> QED
      BY <1>10, <2>2, <2>3, <2>4 DEF CommitCleanup
  <1>11. CASE UNCHANGED oidcVars
    BY <1>11 DEF oidcVars
  <1> QED
    BY <1>3, <1>4, <1>5, <1>6, <1>7, <1>8, <1>9, <1>10, <1>11 DEF OidcNext

LEMMA AvailableRows ==
    \A s \in BrowserSessions : Available(s) =>
       /\ Stored(s)
       /\ \A a \in Admins : s \notin action[a].rows
       /\ \A c \in Cleaners : s \notin Taken(c)
  BY DEF Available, LockedRows, Taken

\* A step that takes no lock, and deletes no row that stays locked.
LEMMA LocksReleased ==
    ASSUME SessionTypes, LocksExclude,
           \A a \in Admins : action'[a].rows \subseteq action[a].rows,
           \A c \in Cleaners : /\ cleanup'[c].delete \subseteq cleanup[c].delete
                               /\ cleanup'[c].purge \subseteq cleanup[c].purge,
           \A s \in BrowserSessions : Stored(s) =>
              \/ row'[s].state = "stored"
              \/ /\ \A a \in Admins : s \notin action'[a].rows
                 /\ \A c \in Cleaners : s \notin cleanup'[c].delete \cup cleanup'[c].purge
    PROVE  LocksExclude'
  <1>1. \A a \in Admins : action[a].rows \subseteq BrowserSessions
    BY DEF SessionTypes, Action
  <1>2. \A c \in Cleaners : Taken(c) \subseteq BrowserSessions
    BY DEF SessionTypes, Cleanup, Taken
  <1> QED
    BY <1>1, <1>2 DEF LocksExclude, Taken, Stored

LEMMA LockStep ==
    ASSUME SessionTypes, LocksExclude, [OidcNext]_oidcVars
    PROVE  LocksExclude'
  <1>1. ASSUME UNCHANGED <<action, cleanup>>,
               \A s \in BrowserSessions : Stored(s) => row'[s].state = "stored"
        PROVE  LocksExclude'
    BY <1>1, LocksReleased
  <1>2. ASSUME NEW s \in BrowserSessions,
               Issue(s) \/ Age(s) \/ Touch(s) \/ EndTouch(s) \/ BeginLogout(s) \/ LoadLogout(s)
        PROVE  LocksExclude'
    <2>1. \A x \in BrowserSessions : Stored(x) => row'[x].state = "stored"
      BY <1>2 DEF Issue, Age, Touch, EndTouch, BeginLogout, LoadLogout, Stored, SessionTypes,
                  SessionRow
    <2> QED
      BY <1>1, <1>2, <2>1
      DEF Issue, Age, Touch, EndTouch, BeginLogout, LoadLogout
  <1>3. ASSUME NEW s \in BrowserSessions, CommitLogout(s) PROVE LocksExclude'
    <2>1. \A x \in BrowserSessions : Stored(x) => row'[x].state = "stored"
      <3>1. CASE Stored(s)
        <4>1. row' = [row EXCEPT ![s].revoked = TRUE, ![s].age = "live",
                                 ![s].token = @ /\ ~visit[s].token]
          BY <1>3, <3>1 DEF CommitLogout
        <4> QED
          BY <4>1 DEF Stored, SessionTypes, SessionRow
      <3> QED
        BY <1>3, <3>1 DEF CommitLogout, Stored
    <2> QED
      BY <1>1, <1>3, <2>1 DEF CommitLogout
  <1>4. ASSUME NEW a \in Admins, LockOne(a) \/ LockGroup(a) PROVE LocksExclude'
    <2>1. PICK rows \in SUBSET BrowserSessions, current \in BrowserSessions \cup {NoCurrent} :
            Hold(a, rows, current) /\ \A s \in rows : Available(s)
      <3>1. CASE LockOne(a)
        <4>1. PICK s \in BrowserSessions, current \in BrowserSessions \cup {NoCurrent} :
                Available(s) /\ Hold(a, {s}, current)
          BY <3>1 DEF LockOne
        <4>2. {s} \in SUBSET BrowserSessions /\ \A x \in {s} : Available(x)
          BY <4>1
        <4> QED
          BY <4>1, <4>2
      <3>2. CASE LockGroup(a)
        <4>1. PICK group \in Groups, current \in BrowserSessions \cup {NoCurrent} :
                Hold(a, {s \in group : Available(s)}, current)
          BY <3>2 DEF LockGroup
        <4> DEFINE rows == {s \in group : Available(s)}
        <4>2. rows \in SUBSET BrowserSessions /\ \A x \in rows : Available(x)
          BY <4>1, OidcAssumption
        <4> HIDE DEF rows
        <4>3. Hold(a, rows, current)
          BY <4>1 DEF rows
        <4> QED
          BY <4>2, <4>3
      <3> QED
        BY <1>4, <3>1, <3>2
    <2>2. /\ action'[a].rows = rows
          /\ \A b \in Admins : b # a => action'[b].rows = action[b].rows
          /\ UNCHANGED <<row, cleanup>>
      BY <2>1 DEF Hold, SessionTypes
    <2>3. \A s \in rows : /\ Stored(s)
                          /\ \A b \in Admins : s \notin action[b].rows
                          /\ \A c \in Cleaners : s \notin Taken(c)
      BY <2>1, AvailableRows
    <2> QED
      BY <2>2, <2>3 DEF LocksExclude, Taken, Stored
  <1>5. ASSUME NEW a \in Admins, Revoke(a) PROVE LocksExclude'
    <2>1. /\ \A b \in Admins : action'[b].rows \subseteq action[b].rows
          /\ UNCHANGED cleanup
      BY <1>5 DEF Revoke, NoAction, SessionTypes
    <2>2. \A s \in BrowserSessions : Stored(s) => row'[s].state = "stored"
      BY <1>5 DEF Revoke, Stored, SessionTypes, SessionRow
    <2> QED
      BY <2>1, <2>2, LocksReleased
  <1>6. ASSUME NEW c \in Cleaners, LockDue(c) PROVE LocksExclude'
    <2>1. PICK batch \in Batch({s \in BrowserSessions : Available(s) /\ row[s].age = "due"}) :
            cleanup' = [cleanup EXCEPT ![c] =
                      [phase |-> "selected", delete |-> batch, purge |-> {},
                       expired |-> {s \in BrowserSessions : row[s].age # "live"}]]
      BY <1>6 DEF LockDue
    <2>2. \A s \in batch : s \in BrowserSessions /\ Available(s)
      BY DEF Batch
    <2>3. \A s \in batch : /\ Stored(s)
                           /\ \A b \in Admins : s \notin action[b].rows
                           /\ \A d \in Cleaners : s \notin Taken(d)
      BY <2>2, AvailableRows
    <2>4. /\ cleanup'[c].delete = batch /\ cleanup'[c].purge = {}
          /\ \A d \in Cleaners : d # c => cleanup'[d] = cleanup[d]
          /\ UNCHANGED <<row, action>>
      BY <1>6, <2>1 DEF LockDue, SessionTypes
    <2> QED
      BY <2>3, <2>4 DEF LocksExclude, Taken, Stored
  <1>7. ASSUME NEW c \in Cleaners, LockPurgeable(c) PROVE LocksExclude'
    <2>1. PICK batch \in Batch({s \in BrowserSessions \ cleanup[c].delete :
                             Available(s) /\ Purgeable(c, s)}) :
              cleanup' = [cleanup EXCEPT ![c].phase = "locked", ![c].purge = batch]
      BY <1>7 DEF LockPurgeable
    <2>2. \A s \in batch : s \in BrowserSessions /\ Available(s)
      BY DEF Batch
    <2>3. \A s \in batch : /\ Stored(s)
                           /\ \A b \in Admins : s \notin action[b].rows
                           /\ \A d \in Cleaners : s \notin Taken(d)
      BY <2>2, AvailableRows
    <2>4. /\ cleanup'[c].delete = cleanup[c].delete /\ cleanup'[c].purge = batch
          /\ \A d \in Cleaners : d # c => cleanup'[d] = cleanup[d]
          /\ UNCHANGED <<row, action>>
      BY <1>7, <2>1 DEF LockPurgeable, SessionTypes, Cleanup
    <2> QED
      BY <2>3, <2>4 DEF LocksExclude, Taken, Stored
  <1>8. ASSUME NEW c \in Cleaners, CommitCleanup(c) PROVE LocksExclude'
    <2>1. /\ UNCHANGED action
          /\ cleanup'[c] = NoCleanup
          /\ \A d \in Cleaners : d # c => cleanup'[d] = cleanup[d]
      BY <1>8 DEF CommitCleanup, SessionTypes
    <2>2. \A s \in BrowserSessions :
             Stored(s) => row'[s].state = "stored" \/ s \in cleanup[c].delete
      BY <1>8 DEF CommitCleanup, Stored, SessionTypes, SessionRow
    <2>3. ASSUME NEW s \in cleanup[c].delete
          PROVE  /\ \A a \in Admins : s \notin action'[a].rows
                 /\ \A d \in Cleaners : s \notin cleanup'[d].delete \cup cleanup'[d].purge
      BY <2>1 DEF LocksExclude, Taken, NoCleanup
    <2>4. \A d \in Cleaners : /\ cleanup'[d].delete \subseteq cleanup[d].delete
                              /\ cleanup'[d].purge \subseteq cleanup[d].purge
      BY <2>1 DEF NoCleanup
    <2> QED
      BY <2>1, <2>2, <2>3, <2>4, LocksReleased
  <1>9. CASE UNCHANGED oidcVars
    BY <1>1, <1>9 DEF oidcVars, Stored
  <1> QED
    BY <1>2, <1>3, <1>4, <1>5, <1>6, <1>7, <1>8, <1>9 DEF OidcNext

LEMMA LogStep ==
    ASSUME SessionInv, SessionTypes', [OidcNext]_oidcVars, NEW s \in BrowserSessions
    PROVE  LogInv(s)'
  <1>1. /\ SessionTypes /\ LocksExclude /\ LogInv(s)
        /\ row[s] \in SessionRow /\ visit[s] \in Visit
    BY DEF SessionInv, SessionTypes
  <1>2. /\ \A b \in BOOLEAN : [type |-> "revoked", token |-> b] \in Event
        /\ \A b \in BOOLEAN : [type |-> "provider_token_purged", token |-> b] \in Event
        /\ \A b \in BOOLEAN : [type |-> "retention_deleted", token |-> b] \in Event
    BY DEF Event
  <1>3. ASSUME UNCHANGED <<row, events>>,
               \/ visit'[s] = visit[s]
               \/ visit'[s].phase = "none"
               \/ visit'[s].phase \in {"touching", "resolved"} /\ Stored(s)
               \/ visit'[s].token = row[s].token /\ Stored(s)
        PROVE  LogInv(s)'
    BY <1>1, <1>3, LogKept
  <1>4. ASSUME NEW x \in BrowserSessions, Issue(x) PROVE LogInv(s)'
    <2>1. CASE x # s
      BY <1>1, <1>4, <2>1, LogKept DEF Issue, SessionTypes
    <2>2. CASE x = s
      <3>1. PICK token \in BOOLEAN :
              /\ row' = [row EXCEPT ![s].state = "stored", ![s].token = token]
              /\ events' = [events EXCEPT ![s] = <<[type |-> "issued", token |-> token]>>]
        BY <1>4, <2>2 DEF Issue
      <3> DEFINE e == [type |-> "issued", token |-> token]
      <3>2. events'[s] = <<e>> /\ row'[s].state = "stored" /\ row'[s].token = token
            /\ row'[s].revoked = row[s].revoked /\ visit' = visit
        BY <1>1, <1>4, <3>1 DEF Issue, SessionTypes, SessionRow
      <3>3. ~row[s].revoked /\ visit[s].phase = "none"
        BY <1>1, <1>4, <2>2 DEF Issue, LogInv
      <3>4. e.type = "issued" /\ e.token = token /\ <<e>>[1] = e
            /\ Len(<<e>>) = 1 /\ DOMAIN <<e>> = {1} /\ <<e>> # <<>>
        OBVIOUS
      <3> HIDE DEF e
      <3> QED
        BY <3>2, <3>3, <3>4
        DEF LogInv, Stored, LogTellsTheRow, Events, DeletionEndsTheLog
    <2> QED
      BY <2>1, <2>2
  <1>5. ASSUME NEW x \in BrowserSessions, Age(x) PROVE LogInv(s)'
    <2>1. /\ row'[s].state = row[s].state /\ row'[s].revoked = row[s].revoked
          /\ row'[s].token = row[s].token /\ UNCHANGED <<events, visit>>
      BY <1>1, <1>5 DEF Age, SessionTypes, SessionRow
    <2> QED
      BY <1>1, <2>1, LogKept
  <1>6. ASSUME NEW x \in BrowserSessions,
               Touch(x) \/ EndTouch(x) \/ BeginLogout(x)
        PROVE  LogInv(s)'
    <2>1. \/ visit'[s] = visit[s]
          \/ visit'[s].phase = "none"
          \/ visit'[s].phase \in {"touching", "resolved"} /\ Stored(s)
      BY <1>1, <1>6
      DEF Touch, EndTouch, BeginLogout, NoVisit, Active, SessionTypes, Visit
    <2> QED
      BY <1>3, <1>6, <2>1 DEF Touch, EndTouch, BeginLogout
  <1>7. ASSUME NEW x \in BrowserSessions, LoadLogout(x) PROVE LogInv(s)'
    <2>1. \/ visit'[s] = visit[s]
          \/ visit'[s].phase = "none"
          \/ visit'[s].token = row[s].token /\ Stored(s)
      BY <1>1, <1>7 DEF LoadLogout, NoVisit, SessionTypes
    <2> QED
      BY <1>3, <1>7, <2>1 DEF LoadLogout
  <1>8. ASSUME NEW x \in BrowserSessions, CommitLogout(x) PROVE LogInv(s)'
    <2>1. visit'[s] = IF x = s THEN NoVisit ELSE visit[s]
      BY <1>1, <1>8 DEF CommitLogout, SessionTypes
    <2>2. CASE ~Stored(x)
      <3>1. visit'[s] = visit[s] \/ visit'[s].phase = "none"
        BY <2>1 DEF NoVisit
      <3>2. UNCHANGED <<row, events>>
        BY <1>8, <2>2 DEF CommitLogout
      <3> QED
        BY <1>3, <3>1, <3>2
    <2>3. CASE Stored(x)
      <3> DEFINE e == [type |-> "revoked", token |-> visit[x].token]
      <3>1. /\ row' = [row EXCEPT ![x].revoked = TRUE, ![x].age = "live",
                                   ![x].token = @ /\ ~visit[x].token]
            /\ events' = [events EXCEPT ![x] = Append(@, e)]
        BY <1>8, <2>3 DEF CommitLogout
      <3>2. CASE x # s
        BY <1>1, <2>1, <3>1, <3>2, LogKept DEF SessionTypes
      <3>3. CASE x = s
        <4>1. visit[s].token \in BOOLEAN /\ row[s].token \in BOOLEAN /\ e \in Event
              /\ e.type = "revoked" /\ e.token = visit[s].token
          BY <1>1, <1>2, <3>3 DEF Visit, SessionRow
        <4>2. /\ events'[s] = Append(events[s], e)
              /\ row'[s].state = "stored" /\ row'[s].revoked
              /\ row'[s].token = (row[s].token /\ ~visit[s].token)
          BY <1>1, <2>3, <3>1, <3>3 DEF SessionTypes, SessionRow, Stored
        <4>3. row[s].token => visit[s].token
          BY <1>1, <1>8, <2>3, <3>3 DEF CommitLogout, LogInv
        <4> HIDE DEF e
        <4> QED
          BY <1>1, <2>3, <3>3, <4>1, <4>2, <4>3, LogAppended
      <3> QED
        BY <3>2, <3>3
    <2> QED
      BY <2>2, <2>3
  <1>9. ASSUME NEW a \in Admins, LockOne(a) \/ LockGroup(a) PROVE LogInv(s)'
    <2>1. UNCHANGED <<row, events, visit>>
      BY <1>9 DEF LockOne, LockGroup, Hold
    <2> QED
      BY <1>3, <2>1
  <1>10. ASSUME NEW a \in Admins, Revoke(a) PROVE LogInv(s)'
    <2> DEFINE changed == {x \in action[a].rows \ {action[a].current} :
                             Active(x) \/ row[x].token}
    <2>1. /\ row'[s] = IF s \in changed
                       THEN [row[s] EXCEPT !.token = FALSE, !.revoked = @ \/ Active(s)]
                       ELSE row[s]
          /\ events'[s] = IF s \in changed THEN Append(events[s], Ended(s)) ELSE events[s]
          /\ visit' = visit
      BY <1>10 DEF Revoke
    <2>2. CASE s \notin changed
      <3> HIDE DEF changed
      <3> QED
        BY <1>1, <2>1, <2>2, LogKept
    <2>3. CASE s \in changed
      <3>1. Stored(s)
        BY <1>1, <2>3 DEF LocksExclude
      <3>2. Ended(s) \in Event /\ Ended(s).type # "retention_deleted"
            /\ (Ended(s).type = "revoked" <=> Active(s)) /\ (row[s].token => Ended(s).token)
        BY <1>1, <1>2 DEF Ended, SessionRow
      <3>3. /\ row'[s].state = "stored" /\ ~row'[s].token
            /\ row'[s].revoked <=> row[s].revoked \/ Active(s)
        BY <1>1, <2>1, <2>3, <3>1 DEF SessionRow, Stored
      <3>4. events'[s] = Append(events[s], Ended(s))
        BY <2>1, <2>3
      <3> HIDE DEF changed
      <3> QED
        BY <1>1, <3>1, <3>2, <3>3, <3>4, LogAppended
    <2> QED
      BY <2>2, <2>3
  <1>11. ASSUME NEW c \in Cleaners, LockDue(c) \/ LockPurgeable(c) PROVE LogInv(s)'
    BY <1>3, <1>11 DEF LockDue, LockPurgeable
  <1>12. ASSUME NEW c \in Cleaners, CommitCleanup(c) PROVE LogInv(s)'
    <2> DEFINE deletion == [type |-> "retention_deleted", token |-> row[s].token]
               purge == [type |-> "provider_token_purged", token |-> TRUE]
    <2>1. CASE s \in cleanup[c].delete
      <3>1. Stored(s) /\ deletion \in Event /\ deletion.type = "retention_deleted"
        BY <1>1, <1>2, <2>1 DEF LocksExclude, Taken, SessionRow
      <3>2. row'[s].state = "deleted" /\ events'[s] = Append(events[s], deletion)
        BY <1>1, <1>12, <2>1 DEF CommitCleanup, SessionRow
      <3> HIDE DEF deletion
      <3> QED
        BY <1>1, <3>1, <3>2, LogEnded
    <2>2. CASE s \in cleanup[c].purge \ cleanup[c].delete
      <3>1. Stored(s) /\ purge \in Event /\ purge.type = "provider_token_purged" /\ purge.token
        BY <1>1, <1>2, <2>2 DEF LocksExclude, Taken
      <3>2. /\ row'[s].state = "stored" /\ row'[s].revoked = row[s].revoked /\ ~row'[s].token
            /\ events'[s] = Append(events[s], purge)
        BY <1>1, <1>12, <2>2, <3>1 DEF CommitCleanup, SessionRow, Stored
      <3> HIDE DEF purge
      <3> QED
        BY <1>1, <3>1, <3>2, LogAppended
    <2>3. CASE s \notin cleanup[c].delete \cup cleanup[c].purge
      BY <1>1, <1>12, <2>3, LogKept DEF CommitCleanup
    <2> QED
      BY <2>1, <2>2, <2>3
  <1>13. CASE UNCHANGED oidcVars
    BY <1>3, <1>13 DEF oidcVars
  <1> QED
    BY <1>4, <1>5, <1>6, <1>7, <1>8, <1>9, <1>10, <1>11, <1>12, <1>13 DEF OidcNext

LEMMA SessionHolds == OidcSpec => []SessionInv
  <1>1. SessionInv /\ [OidcNext]_oidcVars => SessionInv'
    BY SessionTypeStep, LockStep, LogStep DEF SessionInv
  <1> QED
    BY <1>1, SessionInitial, PTL DEF OidcSpec

\* Rows, events and transactions keep their types, and no row is locked by two
\* administrators at once.
THEOREM SessionTypeCorrect == OidcSpec => []OidcTypeOK
  <1>1. SessionInv => OidcTypeOK
    BY DEF SessionInv, SessionTypes, LocksExclude, OidcTypeOK, Events
  <1> QED
    BY <1>1, SessionHolds, PTL

\* The event log of a browser session is true of its row: a deletion is told
\* once and last, a token left the row with an event that says so, a row is
\* revoked if its log says so (oidc_state.py, oidc_session_administration.py).
THEOREM SessionLogsCorrect == OidcSpec => []SessionLogsAreTrue
  <1>1. SessionInv => SessionLogsAreTrue
    BY DEF SessionInv, LogInv, SessionLogsAreTrue
  <1> QED
    BY <1>1, SessionHolds, PTL
=============================================================================
