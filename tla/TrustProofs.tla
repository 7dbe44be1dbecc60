---------------------------- MODULE TrustProofs ----------------------------
(* What the trust registry guarantees for every set of key ids, keys that  *)
(* operators present and sources publish, concurrent requests and bounds   *)
(* on time and on rotations; and, at the end, what the schedule of a       *)
(* source guarantees for every number of runs, attempts and requests.      *)
EXTENDS TrustRegistry, TrustSourceSchedule, TLAPS

(***************************************************************************)
(* A request writes what it has read before, so the invariant says what    *)
(* still holds of it: a key that a sync observed is published yet, or was  *)
(* when the sync began, and is registered unless the sync will import it.  *)
(***************************************************************************)

\* The source publishes key m, or did so at time at or later.
Retained(k, m, at) == published[k] = m \/ (publishes > 0 /\ lastOut[k][m] >= at)

Observed(keys, at) ==
    /\ at <= now
    /\ \A k \in KeyIds : keys[k] # 0 => Retained(k, keys[k], at)

RequestSound(r) ==
    /\ r.op = "sync" => r.at <= now
    /\ r.op = "apply" =>
         /\ Observed(r.keys, r.at)
         /\ \A k \in KeyIds : r.keys[k] # 0 => k \in r.import \/ roots[k].key = r.keys[k]
    /\ r.op = "attest" => (r.linked => roots[SignedBy[r.statement]].key = 1)

TrustInv ==
    /\ TrustTypeOK
    /\ applied.made => Observed(applied.keys, applied.at)
    /\ AppliedKeysAreRegistered
    /\ \A s \in TrustSessions : RequestSound(request[s])

-----------------------------------------------------------------------------
(* What a step must keep for the requests under way *)

\* A registered key stays, and so do the actions recorded on it.
RootsStay ==
    \A k \in KeyIds : roots[k].key # 0 =>
        roots'[k].key = roots[k].key /\ roots[k].actions \subseteq roots'[k].actions

\* What was published at some time was published at that time.
SourceMoves ==
    /\ now \in Nat /\ now' \in Nat /\ now <= now'
    /\ \A k \in KeyIds, m \in Material, at \in Nat :
         at <= now /\ Retained(k, m, at) => Retained(k, m, at)'

LEMMA KeySetType ==
    ASSUME NEW keys \in KeySet, NEW k \in KeyIds, keys[k] # 0
    PROVE  keys[k] \in Material
  BY DEF KeySet

LEMMA ObservedStays ==
    ASSUME SourceMoves, NEW keys \in KeySet, NEW at \in Nat, Observed(keys, at)
    PROVE  Observed(keys, at)'
  BY KeySetType DEF Observed, SourceMoves

\* Each kind of request carries what it will write.
LEMMA RequestFields ==
    ASSUME NEW r \in Requests
    PROVE  /\ r.op = "sync" => r.at \in 0..MaxNow
           /\ r.op = "apply" => /\ r.at \in 0..MaxNow /\ r.keys \in KeySet
                                /\ r.import \in SUBSET KeyIds
           /\ r.op = "register" => /\ r.kid \in KeyIds /\ r.key \in Material
                                   /\ r.old \in KeyIds /\ r.replay \in BOOLEAN
           /\ r.op = "act" => r.kid \in KeyIds /\ r.action \in RootAction
           /\ r.op = "attest" => r.statement \in Statements /\ r.linked \in BOOLEAN
  BY DEF Requests, NoRequest

LEMMA RequestStays ==
    ASSUME RootsStay, SourceMoves, NEW r \in Requests, RequestSound(r)
    PROVE  RequestSound(r)'
  <1>1. r.op = "sync" => r.at <= now'
    BY RequestFields, TrustAssumption DEF RequestSound, SourceMoves
  <1>2. ASSUME r.op = "apply"
        PROVE  /\ Observed(r.keys, r.at)'
               /\ \A k \in KeyIds : r.keys[k] # 0 => k \in r.import \/ roots'[k].key = r.keys[k]
    <2>1. r.keys \in KeySet /\ r.at \in Nat
      BY <1>2, RequestFields, TrustAssumption
    <2>2. Observed(r.keys, r.at)'
      BY <1>2, <2>1, ObservedStays DEF RequestSound
    <2> QED
      BY <1>2, <2>2 DEF RequestSound, RootsStay
  <1>3. r.op = "attest" => (r.linked => roots'[SignedBy[r.statement]].key = 1)
    BY RequestFields, TrustAssumption DEF RequestSound, RootsStay
  <1> QED
    BY <1>1, <1>2, <1>3 DEF RequestSound

\* A step that keeps the registry keeps the invariant when the request it
\* leaves, and the receipt it records, are sound.
LEMMA SoundStep ==
    ASSUME TrustInv, RootsStay, SourceMoves, TrustTypeOK',
           \/ request' = request
           \/ \E s \in TrustSessions : \E r :
                request' = [request EXCEPT ![s] = r] /\ RequestSound(r)',
           \/ applied' = applied
           \/ /\ Observed(applied.keys, applied.at)'
              /\ \A k \in KeyIds : applied'.keys[k] # 0 => roots'[k].key = applied'.keys[k]
    PROVE  TrustInv'
  <1>1. /\ applied \in Receipt /\ applied.keys \in KeySet /\ applied.at \in Nat
        /\ request \in [TrustSessions -> Requests]
    BY TrustAssumption DEF TrustInv, TrustTypeOK, Receipt
  <1>2. /\ applied'.made => Observed(applied.keys, applied.at)'
        /\ AppliedKeysAreRegistered'
    <2>1. CASE applied' = applied
      <3>1. PICK keys \in KeySet, at \in Nat : keys = applied.keys /\ at = applied.at
        BY <1>1
      <3>2. applied.made => Observed(keys, at)
        BY <3>1 DEF TrustInv
      <3>3. applied.made => Observed(keys, at)'
        BY <3>2, ObservedStays
      <3>4. applied'.made => Observed(applied.keys, applied.at)'
        BY <2>1, <3>1, <3>3
      <3>5. AppliedKeysAreRegistered'
        BY <2>1 DEF TrustInv, AppliedKeysAreRegistered, RootsStay
      <3> QED
        BY <3>4, <3>5
    <2>2. CASE applied' # applied
      BY <2>2 DEF AppliedKeysAreRegistered
    <2> QED
      BY <2>1, <2>2
  <1>3. ASSUME NEW t \in TrustSessions PROVE RequestSound(request[t])'
    <2>1. request[t] \in Requests /\ RequestSound(request[t])
      BY <1>1 DEF TrustInv
    <2>2. CASE request'[t] = request[t]
      <3>1. PICK r \in Requests : r = request[t] /\ r = request'[t]
        BY <2>1, <2>2
      <3>2. RequestSound(r)
        BY <2>1, <3>1
      <3>3. RequestSound(r)'
        BY <3>2, RequestStays
      <3> QED
        BY <3>1, <3>3 DEF RequestSound
    <2>3. CASE request'[t] # request[t]
      <3>1. PICK r : request'[t] = r /\ RequestSound(r)'
        BY <1>1, <2>3
      <3> QED
        BY <3>1 DEF RequestSound
    <2> QED
      BY <2>2, <2>3
  <1> QED
    BY <1>2, <1>3 DEF TrustInv

-----------------------------------------------------------------------------
(* Steps of a request *)

LEMMA TrustConstants ==
    /\ Freshness \in Nat \ {0} /\ MaxNow \in Nat /\ MaxPublish \in Nat
    /\ \A a \in Statements : SignedBy[a] \in KeyIds
    /\ \A k \in KeyIds : \A m \in Presented[k] : m \in Material
    /\ 0 \notin Material
    /\ NoRequest \in Requests /\ NoRequest.op = "none"
    /\ NoKeys \in KeySet
    /\ NoRoot \in Root /\ NoRoot.key = 0
  <1>1. 0 \notin Material /\ \A k \in KeyIds : \A m \in Presented[k] : m \in Material
    BY TrustAssumption DEF Material
  <1>2. NoRequest \in Requests /\ NoRequest.op = "none"
    BY DEF Requests, NoRequest
  <1>3. NoKeys \in KeySet /\ NoRoot \in Root /\ NoRoot.key = 0
    BY DEF NoKeys, KeySet, NoRoot, Root
  <1> QED
    BY <1>1, <1>2, <1>3, TrustAssumption

\* Reading changes nothing but the request.
LEMMA AsksStep ==
    ASSUME TrustInv, NEW s \in TrustSessions, NEW r \in Requests,
           request' = [request EXCEPT ![s] = r], RequestSound(r),
           UNCHANGED <<roots, evidence, published, publishes, lastOut, applied, now>>
    PROVE  TrustInv'
  <1>1. RootsStay /\ SourceMoves
    BY TrustAssumption DEF TrustInv, TrustTypeOK, RootsStay, SourceMoves, Retained
  <1>2. RequestSound(r)'
    BY <1>1, RequestStays
  <1>3. TrustTypeOK'
    BY DEF TrustInv, TrustTypeOK
  <1> QED
    BY <1>1, <1>2, <1>3, SoundStep

\* A request that ends has written to the registry.
LEMMA AnswersStep ==
    ASSUME TrustInv, NEW s \in TrustSessions, Answers(s),
           RootsStay, roots' \in [KeyIds -> Root],
           evidence' \in [Statements -> Evidence],
           \A a \in Statements : evidence'[a].linked => roots'[SignedBy[a]].key = 1,
           UNCHANGED <<published, publishes, lastOut, now>>,
           applied' \in Receipt,
           \/ applied' = applied
           \/ /\ Observed(applied.keys, applied.at)'
              /\ \A k \in KeyIds : applied'.keys[k] # 0 => roots'[k].key = applied'.keys[k]
    PROVE  TrustInv'
  <1>1. SourceMoves
    BY TrustAssumption DEF TrustInv, TrustTypeOK, SourceMoves, Retained
  <1>2. request' = [request EXCEPT ![s] = NoRequest] /\ RequestSound(NoRequest)'
    BY TrustConstants DEF Answers, RequestSound
  <1>3. TrustTypeOK'
    BY <1>2, TrustConstants DEF TrustInv, TrustTypeOK
  <1> QED
    BY <1>1, <1>2, <1>3, SoundStep

\* Reconciliation links evidence to a root that holds its key.
LEMMA ReconciledIsLinked ==
    ASSUME TrustInv, RootsStay, roots' \in [KeyIds -> Root], evidence' = Reconciled(roots')
    PROVE  /\ evidence' \in [Statements -> Evidence]
           /\ \A a \in Statements : evidence'[a].linked => roots'[SignedBy[a]].key = 1
           /\ \A a \in Statements : evidence'[a].status = evidence[a].status
           /\ \A a \in Statements : evidence[a].linked => evidence'[a].linked
  <1>1. ASSUME NEW a \in Statements
        PROVE  /\ evidence'[a] \in Evidence /\ evidence'[a].status = evidence[a].status
               /\ evidence'[a].linked =
                    (evidence[a].linked \/ (evidence[a].status # "absent" /\ roots'[SignedBy[a]].key = 1))
    <2>1. evidence[a] \in Evidence
      BY DEF TrustInv, TrustTypeOK
    <2>2. PICK linked \in BOOLEAN :
             linked = (evidence[a].linked \/ (evidence[a].status # "absent" /\ roots'[SignedBy[a]].key = 1))
      OBVIOUS
    <2>3. evidence'[a] = [evidence[a] EXCEPT !.linked = linked]
      BY <2>2 DEF Reconciled
    <2> QED
      BY <2>1, <2>2, <2>3 DEF Evidence
  <1>2. ASSUME NEW a \in Statements, evidence'[a].linked PROVE roots'[SignedBy[a]].key = 1
    <2>1. evidence[a].linked \/ roots'[SignedBy[a]].key = 1
      BY <1>1, <1>2, Zenon
    <2>2. evidence[a].linked => roots'[SignedBy[a]].key = 1
      BY TrustConstants DEF TrustInv, TrustTypeOK, RootsStay
    <2> QED
      BY <2>1, <2>2
  <1>3. ASSUME NEW a \in Statements, evidence[a].linked PROVE evidence'[a].linked
    BY <1>1, <1>3, Zenon
  <1>4. evidence' \in [Statements -> Evidence]
    BY <1>1 DEF Reconciled
  <1> QED
    BY <1>1, <1>2, <1>3, <1>4

LEMMA LinkedStays ==
    ASSUME TrustInv, RootsStay
    PROVE  \A a \in Statements : evidence[a].linked => roots'[SignedBy[a]].key = 1
  BY TrustConstants DEF TrustInv, TrustTypeOK, RootsStay

-----------------------------------------------------------------------------
(* The world *)

LEMMA PublishStep ==
    ASSUME TrustInv, Publish PROVE TrustInv'
  <1>1. RootsStay
    BY DEF Publish, TrustInv, TrustTypeOK, RootsStay
  <1>2. /\ lastOut \in [KeyIds -> [Material -> 0..MaxNow]] /\ now \in 0..MaxNow
        /\ publishes \in 0..MaxPublish /\ MaxNow \in Nat /\ MaxPublish \in Nat
    BY TrustConstants DEF TrustInv, TrustTypeOK
  <1>3. \A k \in KeyIds, m \in Material :
           lastOut'[k][m] = (IF published[k] = m THEN now ELSE lastOut[k][m])
    BY DEF Publish
  <1>4. SourceMoves
    <2>1. ASSUME NEW k \in KeyIds, NEW m \in Material, NEW at \in Nat,
                 at <= now, Retained(k, m, at)
          PROVE  Retained(k, m, at)'
      <3>1. publishes' > 0
        BY <1>2 DEF Publish
      <3>2. lastOut'[k][m] >= at
        BY <1>3, <2>1 DEF Retained
      <3> QED
        BY <3>1, <3>2 DEF Retained
    <2> QED
      BY <1>2, <2>1 DEF SourceMoves, Publish
  <1>5. publishes' \in 0..MaxPublish
    BY <1>2 DEF Publish
  <1>6. lastOut' \in [KeyIds -> [Material -> 0..MaxNow]]
    BY <1>2 DEF Publish
  <1>7. TrustTypeOK'
    BY <1>5, <1>6 DEF Publish, TrustInv, TrustTypeOK
  <1> QED
    BY <1>1, <1>4, <1>7, SoundStep DEF Publish

LEMMA TickStep ==
    ASSUME TrustInv, TrustTick PROVE TrustInv'
  <1>1. now \in 0..MaxNow /\ MaxNow \in Nat /\ now' = now + 1 /\ now' \in 0..MaxNow
    BY TrustConstants DEF TrustInv, TrustTypeOK, TrustTick
  <1>2. RootsStay /\ SourceMoves
    BY <1>1 DEF TrustTick, TrustInv, TrustTypeOK, RootsStay, SourceMoves, Retained
  <1>3. TrustTypeOK'
    BY <1>1 DEF TrustTick, TrustInv, TrustTypeOK
  <1> QED
    BY <1>2, <1>3, SoundStep DEF TrustTick

-----------------------------------------------------------------------------
(* Synchronisation *)

LEMMA BeginSyncStep ==
    ASSUME TrustInv, NEW s \in TrustSessions, BeginSync(s) PROVE TrustInv'
  <1>1. PICK r : /\ request' = [request EXCEPT ![s] = r]
                 /\ r = [op |-> "sync", at |-> now]
    BY DEF BeginSync, Asks
  <1>2. now \in 0..MaxNow
    BY DEF TrustInv, TrustTypeOK
  <1>3. r \in Requests
    BY <1>1, <1>2 DEF Requests
  <1>4. RequestSound(r)
    BY <1>1, <1>2, TrustConstants DEF RequestSound
  <1> QED
    BY <1>1, <1>3, <1>4, AsksStep DEF BeginSync

\* The classified keys are registered unless they are candidates.
LEMMA FetchKeysStep ==
    ASSUME TrustInv, NEW s \in TrustSessions, FetchKeys(s) PROVE TrustInv'
  <1>1. CASE Answers(s)
    BY <1>1, TrustConstants, AsksStep DEF FetchKeys, Answers, RequestSound
  <1>2. CASE ~Answers(s)
    <2>1. PICK r :
             /\ request' = [request EXCEPT ![s] = r]
             /\ r = [op |-> "apply", at |-> request[s].at, keys |-> published,
                     import |-> Unregistered(published)]
      BY <1>2 DEF FetchKeys
    <2>2. ~Collides(published)
      BY <1>2 DEF FetchKeys
    <2>3. /\ request[s] \in Requests /\ request[s].op = "sync" /\ RequestSound(request[s])
          /\ published \in KeySet
      BY DEF FetchKeys, TrustInv, TrustTypeOK
    <2>4. request[s].at \in 0..MaxNow /\ request[s].at <= now
      BY <2>3, RequestFields DEF RequestSound
    <2>5. Unregistered(published) \in SUBSET KeyIds
      BY DEF Unregistered
    <2>6. r \in Requests
      BY <2>1, <2>3, <2>4, <2>5 DEF Requests
    <2>7. /\ r.op = "apply" /\ r.at = request[s].at /\ r.keys = published
          /\ r.import = Unregistered(published)
      BY <2>1
    <2>8. Observed(r.keys, r.at)
      BY <2>4, <2>7 DEF Observed, Retained
    <2>9. \A k \in KeyIds : r.keys[k] # 0 => k \in r.import \/ roots[k].key = r.keys[k]
      BY <2>2, <2>7 DEF Collides, Unregistered
    <2>10. RequestSound(r)
      BY <2>7, <2>8, <2>9 DEF RequestSound
    <2> QED
      BY <2>1, <2>6, <2>10, AsksStep DEF FetchKeys
  <1> QED
    BY <1>1, <1>2

LEMMA ApplyKeysStep ==
    ASSUME TrustInv, NEW s \in TrustSessions, ApplyKeys(s) PROVE TrustInv' /\ RootsStay
  <1>1. /\ request[s] \in Requests /\ request[s].op = "apply" /\ RequestSound(request[s])
        /\ roots \in [KeyIds -> Root] /\ applied \in Receipt /\ Answers(s)
        /\ evidence \in [Statements -> Evidence]
        /\ UNCHANGED <<published, publishes, lastOut, now>>
    BY DEF ApplyKeys, TrustInv, TrustTypeOK
  <1>2. PICK r \in Requests : r = request[s]
    BY <1>1
  <1>3. /\ r.at \in 0..MaxNow /\ r.keys \in KeySet /\ r.import \in SUBSET KeyIds
        /\ Observed(r.keys, r.at)
        /\ \A k \in KeyIds : r.keys[k] # 0 => k \in r.import \/ roots[k].key = r.keys[k]
    BY <1>1, <1>2, RequestFields DEF RequestSound
  <1>4. CASE \E k \in r.import : roots[k].key # 0
    <2>1. UNCHANGED <<roots, evidence, applied>>
      BY <1>2, <1>4 DEF ApplyKeys
    <2>2. RootsStay
      BY <2>1, <1>1 DEF RootsStay
    <2> QED
      BY <1>1, <2>1, <2>2, LinkedStays, AnswersStep
  <1>5. CASE ~ \E k \in r.import : roots[k].key # 0
    <2>1. /\ roots' = ImportedRoots(r)
          /\ evidence' = Reconciled(ImportedRoots(r))
          /\ applied' = applied \/ applied' = ReceiptOf(r)
      BY <1>2, <1>5 DEF ApplyKeys
    <2>2. \A k \in KeyIds :
             /\ k \in r.import =>
                  roots'[k] = [key |-> r.keys[k], imported |-> TRUE, actions |-> {}]
             /\ k \notin r.import => roots'[k] = roots[k]
      BY <2>1 DEF ImportedRoots
    <2>3. RootsStay
      BY <1>5, <2>2 DEF RootsStay
    <2>4. ASSUME NEW k \in KeyIds PROVE roots'[k] \in Root
      <3>1. r.keys[k] \in Material \cup {0}
        BY <1>3 DEF KeySet
      <3>2. [key |-> r.keys[k], imported |-> TRUE, actions |-> {}] \in Root
        BY <3>1 DEF Root
      <3> QED
        BY <1>1, <2>2, <3>2
    <2>5. roots' \in [KeyIds -> Root]
      BY <2>1, <2>4 DEF ImportedRoots
    <2>6. evidence' = Reconciled(roots')
      BY <2>1
    <2>7. /\ evidence' \in [Statements -> Evidence]
          /\ \A a \in Statements : evidence'[a].linked => roots'[SignedBy[a]].key = 1
      BY <2>3, <2>5, <2>6, ReconciledIsLinked
    <2>8. ASSUME NEW k \in KeyIds, r.keys[k] # 0 PROVE roots'[k].key = r.keys[k]
      <3>1. CASE k \in r.import
        <4>1. roots'[k] = [key |-> r.keys[k], imported |-> TRUE, actions |-> {}]
          BY <2>2, <3>1
        <4> QED
          BY <4>1
      <3>2. CASE k \notin r.import
        BY <1>3, <2>2, <2>8, <3>2
      <3> QED
        BY <3>1, <3>2
    <2>9. CASE applied' = applied
      BY <1>1, <2>3, <2>5, <2>7, <2>9, AnswersStep
    <2>10. CASE applied' = ReceiptOf(r)
      <3>1. applied'.keys = r.keys /\ applied'.at = r.at /\ applied' \in Receipt
        BY <1>3, <2>10 DEF ReceiptOf, Receipt
      <3>2. Observed(applied.keys, applied.at)'
        BY <1>1, <1>3, <3>1 DEF Observed, Retained
      <3>3. \A k \in KeyIds : applied'.keys[k] # 0 => roots'[k].key = applied'.keys[k]
        BY <2>8, <3>1
      <3> QED
        BY <1>1, <2>3, <2>5, <2>7, <3>1, <3>2, <3>3, AnswersStep
    <2> QED
      BY <2>1, <2>9, <2>10
  <1> QED
    BY <1>4, <1>5

-----------------------------------------------------------------------------
(* Registration and its end *)

LEMMA BeginRegisterStep ==
    ASSUME TrustInv, NEW s \in TrustSessions, NEW k \in KeyIds, NEW old \in KeyIds,
           NEW m \in Presented[k], BeginRegister(s, k, m, old)
    PROVE  TrustInv'
  <1>1. PICK replay \in BOOLEAN : replay = (roots[k].key # 0)
    OBVIOUS
  <1>2. PICK r : /\ request' = [request EXCEPT ![s] = r]
                 /\ r = [op |-> "register", kid |-> k, key |-> m, old |-> old, replay |-> replay]
    BY <1>1 DEF BeginRegister, Asks
  <1>3. r \in Requests
    BY <1>2, TrustConstants DEF Requests
  <1>4. r.op = "register"
    BY <1>2
  <1>5. RequestSound(r)
    BY <1>4 DEF RequestSound
  <1> QED
    BY <1>2, <1>3, <1>5, AsksStep DEF BeginRegister

\* A root with an action more.
LEMMA ActedRoot ==
    ASSUME NEW root \in Root, NEW action \in RootAction
    PROVE  /\ [root EXCEPT !.actions = @ \cup {action}] \in Root
           /\ [root EXCEPT !.actions = @ \cup {action}].key = root.key
           /\ root.actions \subseteq [root EXCEPT !.actions = @ \cup {action}].actions
  BY DEF Root

LEMMA ActedRoots ==
    ASSUME NEW table \in [KeyIds -> Root], NEW k \in KeyIds, NEW action \in RootAction,
           NEW acted, acted = [table EXCEPT ![k].actions = @ \cup {action}]
    PROVE  /\ acted \in [KeyIds -> Root]
           /\ \A j \in KeyIds : /\ acted[j].key = table[j].key
                                /\ table[j].actions \subseteq acted[j].actions
  <1>1. PICK root \in Root :
           /\ root = [table[k] EXCEPT !.actions = @ \cup {action}]
           /\ root.key = table[k].key /\ table[k].actions \subseteq root.actions
    <2>1. table[k] \in Root
      OBVIOUS
    <2> QED
      BY <2>1, ActedRoot
  <1>2. acted = [table EXCEPT ![k] = root]
    BY <1>1
  <1> QED
    BY <1>1, <1>2

LEMMA RegisterStep ==
    ASSUME TrustInv, NEW s \in TrustSessions, Register(s) PROVE TrustInv' /\ RootsStay
  <1>1. /\ request[s] \in Requests /\ request[s].op = "register"
        /\ roots \in [KeyIds -> Root] /\ applied \in Receipt /\ Answers(s)
        /\ evidence \in [Statements -> Evidence]
        /\ UNCHANGED <<published, publishes, lastOut, applied, now>>
    BY DEF Register, TrustInv, TrustTypeOK
  <1>2. PICK r \in Requests : r = request[s]
    BY <1>1
  <1>3. r.kid \in KeyIds /\ r.key \in Material /\ r.old \in KeyIds
    BY <1>1, <1>2, RequestFields
  <1>4. CASE UNCHANGED <<roots, evidence>>
    <2>1. RootsStay
      BY <1>1, <1>4 DEF RootsStay
    <2> QED
      BY <1>1, <1>4, <2>1, LinkedStays, AnswersStep
  <1>5. CASE ~UNCHANGED <<roots, evidence>>
    <2> DEFINE root == [key |-> r.key, imported |-> FALSE, actions |-> {}]
    <2>1. PICK fresh : fresh = [roots EXCEPT ![r.kid] = root]
      OBVIOUS
    <2>2. /\ evidence' = Reconciled(roots')
          /\ \/ roots' = roots
             \/ roots[r.kid].key = 0 /\ roots' = fresh
             \/ roots[r.kid].key = 0 /\ roots' = [fresh EXCEPT ![r.old].actions = @ \cup {"rotated"}]
      BY <1>2, <1>5, <2>1 DEF Register
    <2>3. root \in Root
      BY <1>3 DEF Root
    <2>4. fresh \in [KeyIds -> Root]
      BY <1>1, <2>1, <2>3
    <2>5. roots[r.kid].key = 0 =>
             \A k \in KeyIds : roots[k].key # 0 => fresh[k] = roots[k]
      BY <1>1, <1>3, <2>1
    <2>6. RootsStay /\ roots' \in [KeyIds -> Root]
      <3>1. CASE roots' = roots
        BY <1>1, <3>1 DEF RootsStay
      <3>2. CASE roots[r.kid].key = 0 /\ roots' = fresh
        BY <2>4, <2>5, <3>2 DEF RootsStay
      <3>3. CASE roots[r.kid].key = 0 /\ roots' = [fresh EXCEPT ![r.old].actions = @ \cup {"rotated"}]
        <4>1. /\ roots' \in [KeyIds -> Root]
              /\ \A j \in KeyIds : /\ roots'[j].key = fresh[j].key
                                   /\ fresh[j].actions \subseteq roots'[j].actions
          BY <1>3, <2>4, <3>3, ActedRoots DEF RootAction
        <4> QED
          BY <2>5, <3>3, <4>1 DEF RootsStay
      <3> QED
        BY <2>2, <3>1, <3>2, <3>3
    <2>7. /\ evidence' \in [Statements -> Evidence]
          /\ \A a \in Statements : evidence'[a].linked => roots'[SignedBy[a]].key = 1
      BY <2>2, <2>6, ReconciledIsLinked
    <2> QED
      BY <1>1, <2>6, <2>7, AnswersStep
  <1> QED
    BY <1>4, <1>5

LEMMA BeginRootActionStep ==
    ASSUME TrustInv, NEW s \in TrustSessions, NEW k \in KeyIds,
           NEW action \in {"retired", "revoked"}, BeginRootAction(s, k, action)
    PROVE  TrustInv'
  <1>1. PICK r : /\ request' = [request EXCEPT ![s] = r]
                 /\ r = [op |-> "act", kid |-> k, action |-> action]
    BY DEF BeginRootAction, Asks
  <1>2. r \in Requests
    BY <1>1 DEF Requests, RootAction
  <1>3. r.op = "act"
    BY <1>1
  <1>4. RequestSound(r)
    BY <1>3 DEF RequestSound
  <1> QED
    BY <1>1, <1>2, <1>4, AsksStep DEF BeginRootAction

LEMMA RecordRootActionStep ==
    ASSUME TrustInv, NEW s \in TrustSessions, RecordRootAction(s) PROVE TrustInv' /\ RootsStay
  <1>1. /\ request[s] \in Requests /\ request[s].op = "act"
        /\ roots \in [KeyIds -> Root] /\ applied \in Receipt /\ Answers(s)
        /\ evidence \in [Statements -> Evidence]
        /\ UNCHANGED <<evidence, published, publishes, lastOut, applied, now>>
    BY DEF RecordRootAction, TrustInv, TrustTypeOK
  <1>2. PICK k \in KeyIds, action \in RootAction :
           k = request[s].kid /\ action = request[s].action
    BY <1>1, RequestFields
  <1>3. roots' = [roots EXCEPT ![k].actions = @ \cup {action}]
    BY <1>2 DEF RecordRootAction
  <1>4. /\ roots' \in [KeyIds -> Root]
        /\ \A j \in KeyIds : roots'[j].key = roots[j].key /\ roots[j].actions \subseteq roots'[j].actions
    <2>1. PICK root \in Root :
             /\ root = [roots[k] EXCEPT !.actions = @ \cup {action}]
             /\ root.key = roots[k].key /\ roots[k].actions \subseteq root.actions
      <3>1. roots[k] \in Root
        BY <1>1
      <3> QED
        BY <3>1, ActedRoot
    <2>2. roots' = [roots EXCEPT ![k] = root]
      BY <1>3, <2>1
    <2> QED
      BY <1>1, <2>1, <2>2
  <1>5. RootsStay
    BY <1>4 DEF RootsStay
  <1> QED
    BY <1>1, <1>4, <1>5, LinkedStays, AnswersStep

-----------------------------------------------------------------------------
(* Evidence *)

LEMMA BeginAttestStep ==
    ASSUME TrustInv, NEW s \in TrustSessions, NEW a \in Statements, BeginAttest(s, a)
    PROVE  TrustInv'
  <1>1. PICK linked \in BOOLEAN : linked = (roots[SignedBy[a]].key # 0)
    OBVIOUS
  <1>2. PICK r : /\ request' = [request EXCEPT ![s] = r]
                 /\ r = [op |-> "attest", statement |-> a, linked |-> linked]
    BY <1>1 DEF BeginAttest, Asks
  <1>3. r \in Requests
    BY <1>2 DEF Requests
  <1>4. linked => roots[SignedBy[a]].key = 1
    <2>1. linked => roots[SignedBy[a]].key # 0
      BY <1>1, Zenon
    <2> QED
      BY <2>1 DEF BeginAttest
  <1>5. r.op = "attest" /\ r.linked = linked /\ r.statement = a
    BY <1>2
  <1>6. RequestSound(r)
    BY <1>4, <1>5 DEF RequestSound
  <1> QED
    BY <1>2, <1>3, <1>6, AsksStep DEF BeginAttest

LEMMA AttestStep ==
    ASSUME TrustInv, NEW s \in TrustSessions, Attest(s) PROVE TrustInv'
  <1>1. /\ request[s] \in Requests /\ request[s].op = "attest" /\ RequestSound(request[s])
        /\ roots \in [KeyIds -> Root] /\ applied \in Receipt /\ Answers(s)
        /\ evidence \in [Statements -> Evidence]
        /\ UNCHANGED <<roots, published, publishes, lastOut, applied, now>>
    BY DEF Attest, TrustInv, TrustTypeOK
  <1>2. PICK a \in Statements, linked \in BOOLEAN :
           a = request[s].statement /\ linked = request[s].linked
    BY <1>1, RequestFields
  <1>3. linked => roots'[SignedBy[a]].key = 1
    BY <1>1, <1>2 DEF RequestSound
  <1>4. \/ evidence' = evidence
        \/ evidence' = [evidence EXCEPT ![a] = [status |-> "verified", linked |-> linked]]
    BY <1>2 DEF Attest
  <1>5. RootsStay
    BY <1>1 DEF RootsStay
  <1>6. [status |-> "verified", linked |-> linked] \in Evidence
    BY DEF Evidence
  <1>7. evidence' \in [Statements -> Evidence]
    BY <1>1, <1>4, <1>6
  <1>8. ASSUME NEW b \in Statements, evidence'[b].linked PROVE roots'[SignedBy[b]].key = 1
    <2>1. CASE evidence'[b] = evidence[b]
      BY <1>5, <1>8, <2>1, LinkedStays
    <2>2. CASE evidence'[b] # evidence[b]
      <3>1. a = b /\ evidence'[b] = [status |-> "verified", linked |-> linked]
        BY <1>1, <1>4, <2>2
      <3> QED
        BY <1>3, <1>8, <3>1
    <2> QED
      BY <2>1, <2>2
  <1> QED
    BY <1>1, <1>5, <1>7, <1>8, AnswersStep

LEMMA RevokeEvidenceStep ==
    ASSUME TrustInv, NEW a \in Statements, RevokeEvidence(a) PROVE TrustInv'
  <1>1. /\ evidence \in [Statements -> Evidence]
        /\ evidence' = [evidence EXCEPT ![a].status = "revoked"]
        /\ UNCHANGED <<roots, published, publishes, lastOut, applied, request, now>>
    BY DEF RevokeEvidence, TrustInv, TrustTypeOK
  <1>2. RootsStay /\ SourceMoves
    BY <1>1, TrustConstants DEF TrustInv, TrustTypeOK, RootsStay, SourceMoves, Retained
  <1>3. /\ evidence' \in [Statements -> Evidence]
        /\ \A b \in Statements : evidence'[b].linked = evidence[b].linked
    BY <1>1 DEF Evidence
  <1>4. TrustTypeOK'
    BY <1>1, <1>3 DEF TrustInv, TrustTypeOK
  <1> QED
    BY <1>1, <1>2, <1>4, SoundStep

-----------------------------------------------------------------------------
(* The invariant *)

LEMMA TrustInitial == TrustInit => TrustInv
  <1> SUFFICES ASSUME TrustInit PROVE TrustInv
    OBVIOUS
  <1>1. /\ roots = [k \in KeyIds |-> NoRoot]
        /\ evidence = [a \in Statements |-> [status |-> "absent", linked |-> FALSE]]
        /\ published \in KeySet /\ publishes = 0
        /\ lastOut = [k \in KeyIds |-> [m \in Material |-> 0]]
        /\ applied = [made |-> FALSE, at |-> 0, keys |-> NoKeys]
        /\ request = [s \in TrustSessions |-> NoRequest] /\ now = 0
    BY DEF TrustInit
  <1>2. applied \in Receipt /\ ~applied.made
    BY <1>1, TrustConstants DEF Receipt
  <1>3. evidence \in [Statements -> Evidence] /\ \A a \in Statements : ~evidence[a].linked
    BY <1>1 DEF Evidence
  <1>4. lastOut \in [KeyIds -> [Material -> 0..MaxNow]]
    BY <1>1, TrustConstants
  <1>5. TrustTypeOK
    BY <1>1, <1>2, <1>3, <1>4, TrustConstants DEF TrustTypeOK
  <1>6. \A s \in TrustSessions : RequestSound(request[s])
    BY <1>1, TrustConstants DEF RequestSound
  <1> QED
    BY <1>2, <1>5, <1>6 DEF TrustInv, AppliedKeysAreRegistered

LEMMA TrustStep == TrustInv /\ [TrustNext]_trustVars => TrustInv'
  <1> SUFFICES ASSUME TrustInv, [TrustNext]_trustVars PROVE TrustInv'
    OBVIOUS
  <1>1. CASE UNCHANGED trustVars
    BY <1>1
    DEF trustVars, TrustInv, TrustTypeOK, Observed, Retained, AppliedKeysAreRegistered, RequestSound
  <1>2. CASE TrustNext
    BY <1>2, PublishStep, TickStep, BeginSyncStep, FetchKeysStep, ApplyKeysStep,
       BeginRegisterStep, RegisterStep, BeginRootActionStep, RecordRootActionStep,
       BeginAttestStep, AttestStep, RevokeEvidenceStep DEF TrustNext
  <1> QED
    BY <1>1, <1>2

LEMMA TrustInvariant == TrustSpec => []TrustInv
  BY TrustInitial, TrustStep, PTL DEF TrustSpec

-----------------------------------------------------------------------------
(* Theorems *)

\* Roots, evidence, the published keys, the latest receipt and the requests
\* keep their types, and evidence is linked to a root that holds its key.
THEOREM TrustTypeCorrect == TrustSpec => []TrustTypeOK
  <1>1. TrustInv => TrustTypeOK
    BY DEF TrustInv
  <1> QED
    BY <1>1, TrustInvariant, PTL

\* However syncs overlap, fail and commit late, trust_root_is_production_eligible
\* holds of an imported root only while the source publishes its key, or did
\* less than freshness_seconds ago.
THEOREM EligibleKeysAreFresh == TrustSpec => []EligibleKeysWerePublished
  <1>1. ASSUME TrustInv, NEW k \in KeyIds, EligibleRoot(k), roots[k].imported
        PROVE  \/ published[k] = roots[k].key
               \/ publishes > 0 /\ now < lastOut[k][roots[k].key] + Freshness
    <2>1. /\ applied.made /\ now < applied.at + Freshness
          /\ applied.keys[k] = roots[k].key /\ roots[k].key # 0
      BY <1>1 DEF EligibleRoot, ActiveRoot, FreshApply
    <2>2. Retained(k, roots[k].key, applied.at)
      BY <1>1, <2>1 DEF TrustInv, Observed
    <2>3. /\ lastOut[k] \in [Material -> 0..MaxNow] /\ roots[k].key \in Material
          /\ applied.at \in Nat /\ now \in Nat
      BY <1>1, <2>1, TrustConstants DEF TrustInv, TrustTypeOK, Root, Receipt
    <2>4. lastOut[k][roots[k].key] \in Nat
      BY <2>3, TrustConstants
    <2> QED
      BY <2>1, <2>2, <2>3, <2>4, TrustConstants DEF Retained
  <1>2. TrustInv => EligibleKeysWerePublished
    BY <1>1 DEF EligibleKeysWerePublished
  <1> QED
    BY <1>2, TrustInvariant, PTL

\* Whatever other requests register between the classification of a key set
\* and the commit of the Apply, the keys of the latest receipt are registered.
THEOREM ReceiptsAreRegistered == TrustSpec => []AppliedKeysAreRegistered
  <1>1. TrustInv => AppliedKeysAreRegistered
    BY DEF TrustInv
  <1> QED
    BY <1>1, TrustInvariant, PTL

-----------------------------------------------------------------------------
(* Withdrawal *)

LEMMA RootsAreKept ==
    ASSUME TrustInv, [TrustNext]_trustVars PROVE RootsStay
  <1>1. CASE roots' = roots
    BY <1>1 DEF TrustInv, TrustTypeOK, RootsStay
  <1>2. CASE \E s \in TrustSessions : ApplyKeys(s) \/ Register(s) \/ RecordRootAction(s)
    BY <1>2, ApplyKeysStep, RegisterStep, RecordRootActionStep
  <1>3. roots' = roots \/ \E s \in TrustSessions : ApplyKeys(s) \/ Register(s) \/ RecordRootAction(s)
    BY DEF TrustNext, trustVars, Publish, TrustTick, BeginSync, FetchKeys, BeginRegister,
           BeginRootAction, BeginAttest, Attest, RevokeEvidence
  <1> QED
    BY <1>1, <1>2, <1>3

LEMMA ReconciledStatus ==
    ASSUME TrustInv, NEW table, NEW a \in Statements
    PROVE  Reconciled(table)[a].status = evidence[a].status
  <1>1. evidence[a] \in Evidence
    BY DEF TrustInv, TrustTypeOK
  <1>2. PICK linked :
           linked = (evidence[a].linked \/ (evidence[a].status # "absent" /\ table[SignedBy[a]].key = 1))
    OBVIOUS
  <1>3. Reconciled(table)[a] = [evidence[a] EXCEPT !.linked = linked]
    BY <1>2 DEF Reconciled
  <1> QED
    BY <1>1, <1>3 DEF Evidence

LEMMA RevokedStays ==
    ASSUME TrustInv, [TrustNext]_trustVars, NEW a \in Statements, evidence[a].status = "revoked"
    PROVE  evidence'[a].status = "revoked"
  <1>1. CASE evidence' = evidence
    BY <1>1
  <1>2. CASE \E table : evidence' = Reconciled(table)
    BY <1>2, ReconciledStatus
  <1>3. CASE \E s \in TrustSessions : Attest(s)
    BY <1>3 DEF Attest, TrustInv, TrustTypeOK
  <1>4. CASE \E b \in Statements : RevokeEvidence(b)
    BY <1>4 DEF RevokeEvidence, TrustInv, TrustTypeOK, Evidence
  <1>5. ASSUME NEW s \in TrustSessions, ApplyKeys(s) \/ Register(s)
        PROVE  evidence' = evidence \/ \E table : evidence' = Reconciled(table)
    BY <1>5 DEF ApplyKeys, Register
  <1>6. \/ evidence' = evidence
        \/ \E s \in TrustSessions : Attest(s) \/ ApplyKeys(s) \/ Register(s)
        \/ \E b \in Statements : RevokeEvidence(b)
    BY DEF TrustNext, trustVars, Publish, TrustTick, BeginSync, FetchKeys, BeginRegister,
           BeginRootAction, BeginAttest, RecordRootAction
  <1> QED
    BY <1>1, <1>2, <1>3, <1>4, <1>5, <1>6

\* No replayed registration, later import or reconciliation brings a withdrawn
\* root or a revoked attestation back.
THEOREM WithdrawalIsFinal == TrustSpec => WithdrawnStaysWithdrawn
  <1>1. ASSUME TrustInv, [TrustNext]_trustVars, NEW a \in Statements,
               \/ evidence[a].status = "revoked"
               \/ evidence[a].linked /\ roots[SignedBy[a]].actions # {}
        PROVE  ~EligibleEvidence(a)'
    <2>1. CASE evidence[a].status = "revoked"
      BY <1>1, <2>1, RevokedStays DEF EligibleEvidence
    <2>2. CASE evidence[a].linked /\ roots[SignedBy[a]].actions # {}
      <3>1. roots[SignedBy[a]].key = 1 /\ SignedBy[a] \in KeyIds
        BY <1>1, <2>2, TrustConstants DEF TrustInv, TrustTypeOK
      <3>2. roots'[SignedBy[a]].actions # {}
        BY <1>1, <2>2, <3>1, RootsAreKept DEF RootsStay
      <3> QED
        BY <3>2 DEF EligibleEvidence, EligibleRoot, ActiveRoot
    <2> QED
      BY <1>1, <2>1, <2>2
  <1>2. TrustInv /\ [TrustNext]_trustVars =>
          [\A a \in Statements :
              \/ evidence[a].status = "revoked"
              \/ evidence[a].linked /\ roots[SignedBy[a]].actions # {}
              => ~EligibleEvidence(a)']_trustVars
    BY <1>1
  <1> QED
    BY <1>2, TrustInvariant, PTL DEF TrustSpec, WithdrawnStaysWithdrawn

-----------------------------------------------------------------------------
(***************************************************************************)
(* The schedule.  A worker between its lineage check and the second lock   *)
(* of the schedule holds the last run, whose job is held with it.  That    *)
(* keeps the others out: a change is refused while the last job is held,   *)
(* and what a change already under way will cancel cannot pass the check,  *)
(* because the check waits for the schedule to be free.                    *)
(***************************************************************************)

WorkerSound(n) ==
    /\ worker[n] # "none" => runs[n].status \in {"held", "cancelled"}
    /\ worker[n] \notin {"none", "taken"} => runs[n].status = "held"
    /\ worker[n] \in Result => Lineage(n)

ChangeSound ==
    change # NoChange =>
        /\ \A n \in RunNumbers : worker[n] \notin Result
        /\ change.cancels <= schedule.sequence
        /\ change.cancels # 0 => worker[change.cancels] \in {"none", "taken"}

\* No job exists before its run number was drawn.
RunsSound == \A n \in RunNumbers : n > schedule.sequence => runs[n].status = "absent"

ScheduleInv ==
    /\ ScheduleTypeOK
    /\ \A n \in RunNumbers : WorkerSound(n)
    /\ ChangeSound
    /\ RunsSound

LEMMA UnleasedType ==
    ASSUME NEW row \in Schedule
    PROVE  /\ Unleased(row) \in Schedule
           /\ Unleased(row).lease = "none" /\ Unleased(row).holder = 0
           /\ Unleased(row).sequence = row.sequence
  <1>1. PICK mid : mid = [row EXCEPT !.lease = "none"]
    OBVIOUS
  <1>2. /\ mid \in Schedule
        /\ mid.lease = "none" /\ mid.sequence = row.sequence
    BY <1>1 DEF Schedule
  <1>3. Unleased(row) = [mid EXCEPT !.holder = 0]
    BY <1>1, Zenon DEF Unleased
  <1>4. 0 \in 0..MaxRuns
    BY ScheduleAssumption
  <1> QED
    BY <1>2, <1>3, <1>4 DEF Schedule

\* Only one worker can be between the check and the record.
LEMMA OneResult ==
    ASSUME ScheduleInv, NEW n \in RunNumbers, NEW m \in RunNumbers,
           worker[n] \in Result, LastJob = m
    PROVE  n = m
  BY DEF ScheduleInv, WorkerSound, Lineage

LEMMA ScheduleInitial == ScheduleInit => ScheduleInv
  <1> SUFFICES ASSUME ScheduleInit PROVE ScheduleInv
    OBVIOUS
  <1>1. ScheduleTypeOK
    <2>1. 0 \in 0..MaxRuns /\ 0 \in 0..SyncAttempts /\ 0 \in 0..MaxChanges
      BY ScheduleAssumption
    <2>2. schedule \in Schedule /\ schedule.lease = "none" /\ schedule.holder = 0
      BY <2>1 DEF ScheduleInit, Schedule
    <2>3. runs \in [RunNumbers -> JobRow] /\ worker \in [RunNumbers -> Phase]
      BY <2>1 DEF ScheduleInit, JobRow, Phase
    <2>4. change \in Changes
      BY <2>1 DEF ScheduleInit, Changes, NoChange
    <2> QED
      BY <2>1, <2>2, <2>3, <2>4 DEF ScheduleInit, ScheduleTypeOK
  <1>2. \A n \in RunNumbers : WorkerSound(n)
    BY DEF ScheduleInit, WorkerSound, Result
  <1>3. ChangeSound /\ RunsSound
    BY DEF ScheduleInit, ChangeSound, RunsSound
  <1> QED
    BY <1>1, <1>2, <1>3 DEF ScheduleInv

LEMMA BeginChangeStep ==
    ASSUME ScheduleInv, NEW kind \in {"enable", "enable_now", "disable", "run"}, BeginChange(kind)
    PROVE  ScheduleInv'
  <1>1. ScheduleTypeOK'
    BY ScheduleAssumption DEF BeginChange, ScheduleInv, ScheduleTypeOK, Changes, ActiveRun, LastJob, Schedule
  <1>2. \A n \in RunNumbers : WorkerSound(n)'
    BY DEF BeginChange, ScheduleInv, WorkerSound, Lineage, LastJob
  <1>3. ChangeSound'
    <2>1. LastJob \in 0..MaxRuns
      BY DEF ScheduleInv, ScheduleTypeOK, Schedule, LastJob
    <2>2. \A n \in RunNumbers : worker[n] \notin Result
      BY <2>1, ScheduleAssumption
      DEF BeginChange, ScheduleInv, WorkerSound, Lineage, LastJob, RunNumbers, Result
    <2>3. ActiveRun(LastJob) => LastJob \in RunNumbers /\ worker[LastJob] = "none"
      BY <2>1, ScheduleAssumption DEF BeginChange, ScheduleInv, WorkerSound, ActiveRun, RunNumbers
    <2>4. change'.cancels = IF ActiveRun(LastJob) THEN LastJob ELSE 0
      BY DEF BeginChange
    <2>5. change'.cancels <= schedule.sequence
      BY <2>1, <2>4, ScheduleAssumption DEF LastJob
    <2> QED
      BY <2>2, <2>3, <2>4, <2>5 DEF ChangeSound, BeginChange
  <1>4. RunsSound'
    BY DEF BeginChange, ScheduleInv, RunsSound
  <1> QED
    BY <1>1, <1>2, <1>3, <1>4 DEF ScheduleInv

LEMMA CommitChangeStep ==
    ASSUME ScheduleInv, CommitChange PROVE ScheduleInv'
  <1>0. change \in Changes /\ change' = NoChange /\ UNCHANGED <<worker, changes>>
    BY DEF CommitChange, ScheduleInv, ScheduleTypeOK
  <1>1. PICK policy \in {1, 2} :
           schedule' = [Unleased(schedule) EXCEPT !.enabled = (change.kind # "disable"),
                                                  !.due = NextPolicyRun(change.kind),
                                                  !.policy = policy]
    <2>1. schedule.policy \in {1, 2}
      BY DEF ScheduleInv, ScheduleTypeOK, Schedule
    <2> QED
      BY <2>1, Zenon DEF CommitChange
  <1>2. NextPolicyRun(change.kind) \in BOOLEAN
    BY DEF NextPolicyRun, ScheduleInv, ScheduleTypeOK, Schedule
  <1>3. /\ schedule' \in Schedule
        /\ schedule'.lease = "none" /\ schedule'.holder = 0
        /\ schedule'.sequence = schedule.sequence
    <2>1. PICK due \in BOOLEAN : due = NextPolicyRun(change.kind)
      BY <1>2
    <2>2. PICK row : row = Unleased(schedule)
      OBVIOUS
    <2>3. /\ row \in Schedule /\ row.lease = "none" /\ row.holder = 0
          /\ row.sequence = schedule.sequence
      BY <2>2, UnleasedType DEF ScheduleInv, ScheduleTypeOK
    <2>4. schedule' = [row EXCEPT !.enabled = (change.kind # "disable"), !.due = due, !.policy = policy]
      BY <1>1, <2>1, <2>2
    <2> QED
      BY <2>3, <2>4 DEF Schedule
  <1>4. asked' \in BOOLEAN
    BY Zenon DEF CommitChange
  <1>5. \A n \in RunNumbers : worker[n] \notin Result
    BY DEF ScheduleInv, ChangeSound, CommitChange
  <1>6. /\ runs' \in [RunNumbers -> JobRow]
        /\ \A n \in RunNumbers : runs'[n].status = IF n = change.cancels THEN "cancelled" ELSE runs[n].status
    <2>1. change.cancels \in Nat /\ 0 \notin RunNumbers
      BY <1>0, ScheduleAssumption DEF Changes, RunNumbers
    <2>2. runs' = IF change.cancels = 0
                  THEN runs ELSE [runs EXCEPT ![change.cancels].status = "cancelled"]
      BY Zenon DEF CommitChange
    <2> QED
      BY <2>1, <2>2 DEF ScheduleInv, ScheduleTypeOK, JobRow
  <1>7. ScheduleTypeOK'
    <2>1. NoChange \in Changes
      BY ScheduleAssumption DEF NoChange, Changes
    <2> QED
      BY <1>0, <1>3, <1>4, <1>6, <2>1 DEF ScheduleInv, ScheduleTypeOK
  <1>8. \A n \in RunNumbers : WorkerSound(n)'
    BY <1>0, <1>5, <1>6, ScheduleAssumption DEF ScheduleInv, WorkerSound, ChangeSound, CommitChange
  <1>9. ChangeSound'
    BY <1>0 DEF ChangeSound
  <1>10. RunsSound'
    <2>1. change.cancels <= schedule.sequence
      BY DEF ScheduleInv, ChangeSound, CommitChange
    <2>2. \A n \in RunNumbers : n > schedule.sequence => n # change.cancels
      BY <1>0, <2>1, ScheduleAssumption DEF ScheduleInv, ScheduleTypeOK, Schedule, Changes, RunNumbers
    <2> QED
      BY <1>3, <1>6, <2>2 DEF ScheduleInv, RunsSound
  <1> QED
    BY <1>7, <1>8, <1>9, <1>10 DEF ScheduleInv

\* The steps of operators and of the scheduler.
LEMMA RequeueRunStep ==
    ASSUME ScheduleInv, NEW n \in RunNumbers, RequeueRun(n) PROVE ScheduleInv'
  <1>1. /\ runs[n].status = "failed" /\ runs' \in [RunNumbers -> JobRow]
        /\ \A m \in RunNumbers : runs'[m].status = IF m = n THEN "queued" ELSE runs[m].status
        /\ \A m \in RunNumbers : runs'[m].policy = runs[m].policy
    <2>1. SyncAttempts \in 0..SyncAttempts
      BY ScheduleAssumption
    <2>2. PICK job : job = [runs[n] EXCEPT !.status = "queued"]
      OBVIOUS
    <2>3. job \in JobRow /\ job.status = "queued" /\ job.policy = runs[n].policy
      BY <2>2 DEF ScheduleInv, ScheduleTypeOK, JobRow
    <2>4. PICK again : again = [job EXCEPT !.left = SyncAttempts]
      OBVIOUS
    <2>5. again \in JobRow /\ again.status = "queued" /\ again.policy = runs[n].policy
      BY <2>1, <2>3, <2>4 DEF JobRow
    <2>6. runs \in [RunNumbers -> JobRow]
      BY DEF ScheduleInv, ScheduleTypeOK
    <2>7. runs' = [runs EXCEPT ![n] = again]
      <3>1. runs' = [runs EXCEPT ![n].status = "queued", ![n].left = SyncAttempts]
        BY Zenon DEF RequeueRun
      <3>2. PICK mid : mid = [runs EXCEPT ![n].status = "queued"]
        OBVIOUS
      <3>3. mid[n] = job /\ mid \in [RunNumbers -> JobRow] /\ \A m \in RunNumbers \ {n} : mid[m] = runs[m]
        BY <2>2, <2>3, <2>6, <3>2
      <3>4. runs' = [mid EXCEPT ![n].left = SyncAttempts]
        BY <3>1, <3>2, Zenon
      <3> QED
        BY <2>4, <2>6, <3>3, <3>4
    <2> QED
      BY <2>5, <2>6, <2>7 DEF RequeueRun
  <1>2. ScheduleTypeOK'
    BY <1>1, ScheduleAssumption DEF RequeueRun, ScheduleInv, ScheduleTypeOK
  <1>3. \A m \in RunNumbers : WorkerSound(m)'
    BY <1>1 DEF RequeueRun, ScheduleInv, WorkerSound, Lineage, LastJob
  <1>4. ChangeSound' /\ RunsSound'
    BY <1>1 DEF RequeueRun, ScheduleInv, ChangeSound, RunsSound
  <1> QED
    BY <1>2, <1>3, <1>4 DEF ScheduleInv

LEMMA AdoptStep ==
    ASSUME ScheduleInv, Adopt PROVE ScheduleInv'
  <1>1. LastJob \in 1..MaxRuns
    BY ScheduleAssumption DEF Adopt, ActiveRun, LastJob, ScheduleInv, ScheduleTypeOK, Schedule
  <1>2. /\ schedule' \in Schedule /\ schedule'.lease = "live" /\ schedule'.holder = LastJob
        /\ schedule'.sequence = schedule.sequence /\ schedule'.enabled = schedule.enabled
        /\ schedule'.policy = schedule.policy
    <2>1. PICK mid : mid = [schedule EXCEPT !.lease = "live"]
      OBVIOUS
    <2>2. /\ mid \in Schedule /\ mid.lease = "live" /\ mid.sequence = schedule.sequence
          /\ mid.enabled = schedule.enabled /\ mid.policy = schedule.policy
      BY <2>1 DEF ScheduleInv, ScheduleTypeOK, Schedule
    <2>3. schedule' = [mid EXCEPT !.holder = LastJob]
      BY <2>1, Zenon DEF Adopt
    <2> QED
      BY <1>1, <2>2, <2>3 DEF Schedule
  <1>3. ScheduleTypeOK'
    BY <1>1, <1>2 DEF Adopt, ScheduleInv, ScheduleTypeOK
  <1>4. \A n \in RunNumbers : WorkerSound(n)'
    BY <1>2 DEF Adopt, ScheduleInv, WorkerSound, Lineage, LastJob
  <1>5. ChangeSound' /\ RunsSound'
    BY <1>2 DEF Adopt, ScheduleInv, ChangeSound, RunsSound
  <1> QED
    BY <1>3, <1>4, <1>5 DEF ScheduleInv

LEMMA EnqueueRunStep ==
    ASSUME ScheduleInv, EnqueueRun PROVE ScheduleInv'
  <1>1. PICK n : n = schedule.sequence + 1
    OBVIOUS
  <1>2. n \in RunNumbers /\ runs[n].status = "absent" /\ worker[n] = "none"
    BY <1>1, ScheduleAssumption
    DEF EnqueueRun, RunNumbers, ScheduleInv, ScheduleTypeOK, Schedule, RunsSound, WorkerSound
  <1>3. /\ schedule' \in Schedule /\ schedule'.sequence = n
        /\ schedule'.lease = "live" /\ schedule'.holder = n
    <2>1. PICK row : row = [schedule EXCEPT !.sequence = n]
      OBVIOUS
    <2>2. row \in Schedule /\ row.sequence = n
      BY <1>2, <2>1, ScheduleAssumption DEF ScheduleInv, ScheduleTypeOK, Schedule, RunNumbers
    <2>3. PICK leased : leased = [row EXCEPT !.lease = "live"]
      OBVIOUS
    <2>4. leased \in Schedule /\ leased.sequence = n /\ leased.lease = "live"
      BY <2>2, <2>3 DEF Schedule
    <2>5. schedule' = [leased EXCEPT !.holder = n]
      BY <1>1, <2>1, <2>3, Zenon DEF EnqueueRun
    <2> QED
      BY <1>2, <2>4, <2>5, ScheduleAssumption DEF Schedule, RunNumbers
  <1>4. /\ runs' \in [RunNumbers -> JobRow]
        /\ \A m \in RunNumbers \ {n} : runs'[m] = runs[m]
        /\ runs'[n].status = "queued"
    <2>1. runs' = [runs EXCEPT ![n] = [status |-> "queued", left |-> SyncAttempts,
                                       policy |-> schedule.policy]]
      BY <1>1, Zenon DEF EnqueueRun
    <2>2. [status |-> "queued", left |-> SyncAttempts, policy |-> schedule.policy] \in JobRow
      BY ScheduleAssumption DEF JobRow, ScheduleInv, ScheduleTypeOK, Schedule
    <2> QED
      BY <1>2, <2>1, <2>2 DEF ScheduleInv, ScheduleTypeOK
  <1>5. \A m \in RunNumbers : worker[m] \notin Result
    BY DEF EnqueueRun, ScheduleInv, WorkerSound, Lineage, ActiveRun, LastJob, Result, RunNumbers
  <1>6. ScheduleTypeOK'
    BY <1>2, <1>3, <1>4 DEF EnqueueRun, ScheduleInv, ScheduleTypeOK, RunNumbers
  <1>7. \A m \in RunNumbers : WorkerSound(m)'
    BY <1>2, <1>4, <1>5 DEF EnqueueRun, ScheduleInv, WorkerSound
  <1>8. ChangeSound'
    BY DEF EnqueueRun, EnqueueableNow, Free, ChangeSound
  <1>9. RunsSound'
    BY <1>1, <1>2, <1>3, <1>4, ScheduleAssumption
    DEF ScheduleInv, ScheduleTypeOK, Schedule, RunsSound, RunNumbers
  <1> QED
    BY <1>6, <1>7, <1>8, <1>9 DEF ScheduleInv

\* The steps of workers.
LEMMA TakeRunStep ==
    ASSUME ScheduleInv, NEW n \in RunNumbers, TakeRun(n) PROVE ScheduleInv'
  <1>1. /\ runs[n].status = "queued" /\ runs' \in [RunNumbers -> JobRow]
        /\ \A m \in RunNumbers : runs'[m].status = IF m = n THEN "held" ELSE runs[m].status
        /\ \A m \in RunNumbers : runs'[m].policy = runs[m].policy
    <2>1. PICK left : left = runs[n].left - 1
      OBVIOUS
    <2>2. runs \in [RunNumbers -> JobRow] /\ left \in 0..SyncAttempts
      BY <2>1, ScheduleAssumption DEF ScheduleInv, ScheduleTypeOK, JobRow, TakeRun
    <2>3. PICK mid : mid = [runs EXCEPT ![n].status = "held"]
      OBVIOUS
    <2>4. /\ mid \in [RunNumbers -> JobRow] /\ mid[n].left = runs[n].left
          /\ \A m \in RunNumbers : mid[m].status = IF m = n THEN "held" ELSE runs[m].status
          /\ \A m \in RunNumbers : mid[m].policy = runs[m].policy
      BY <2>2, <2>3 DEF JobRow
    <2>5. runs' = [mid EXCEPT ![n].left = @ - 1]
      BY <2>3, Zenon DEF TakeRun
    <2>6. runs' = [mid EXCEPT ![n].left = left]
      BY <2>1, <2>2, <2>4, <2>5
    <2> QED
      BY <2>2, <2>4, <2>6 DEF TakeRun, JobRow
  <1>2. worker[n] = "none" /\ worker' = [worker EXCEPT ![n] = "taken"]
    BY <1>1 DEF TakeRun, ScheduleInv, WorkerSound
  <1>3. ScheduleTypeOK'
    BY <1>1, <1>2 DEF TakeRun, ScheduleInv, ScheduleTypeOK, Phase
  <1>4. \A m \in RunNumbers : WorkerSound(m)'
    BY <1>1, <1>2 DEF TakeRun, ScheduleInv, ScheduleTypeOK, WorkerSound, Lineage, LastJob, Result
  <1>5. ChangeSound' /\ RunsSound'
    BY <1>1, <1>2 DEF TakeRun, ScheduleInv, ScheduleTypeOK, ChangeSound, RunsSound, Result, WorkerSound
  <1> QED
    BY <1>3, <1>4, <1>5 DEF ScheduleInv

LEMMA NoticeCancelledStep ==
    ASSUME ScheduleInv, NEW n \in RunNumbers, NoticeCancelled(n) PROVE ScheduleInv'
  <1>1. /\ worker[n] = "taken" /\ runs[n].status = "cancelled"
        /\ UNCHANGED <<schedule, change, changes, asked>>
    BY DEF NoticeCancelled
  <1>2. CASE worker' = [worker EXCEPT ![n] = "none"] /\ UNCHANGED runs
    <2>1. ScheduleTypeOK'
      BY <1>1, <1>2 DEF ScheduleInv, ScheduleTypeOK, Phase
    <2>2. \A m \in RunNumbers : WorkerSound(m)'
      BY <1>1, <1>2 DEF ScheduleInv, ScheduleTypeOK, WorkerSound, Lineage, LastJob, Result
    <2>3. ChangeSound' /\ RunsSound'
      BY <1>1, <1>2 DEF ScheduleInv, ScheduleTypeOK, ChangeSound, RunsSound, Result
    <2> QED
      BY <2>1, <2>2, <2>3 DEF ScheduleInv
  <1>3. CASE runs' = [runs EXCEPT ![n].status = "held"] /\ UNCHANGED worker
    <2>1. ScheduleTypeOK'
      BY <1>1, <1>3 DEF ScheduleInv, ScheduleTypeOK, JobRow
    <2>2. \A m \in RunNumbers : WorkerSound(m)'
      BY <1>1, <1>3 DEF ScheduleInv, ScheduleTypeOK, JobRow, WorkerSound, Lineage, LastJob
    <2>3. ChangeSound' /\ RunsSound'
      BY <1>1, <1>3 DEF ScheduleInv, ScheduleTypeOK, JobRow, ChangeSound, RunsSound
    <2> QED
      BY <2>1, <2>2, <2>3 DEF ScheduleInv
  <1> QED
    BY <1>2, <1>3 DEF NoticeCancelled

\* A worker's phase changes and nothing else does.
LEMMA PhaseStep ==
    ASSUME ScheduleInv, NEW n \in RunNumbers, NEW phase \in Phase,
           worker' = [worker EXCEPT ![n] = phase],
           UNCHANGED <<schedule, runs, change, changes>>, asked' \in BOOLEAN,
           phase # "none" => Free /\ runs[n].status = "held",
           phase \in Result => Lineage(n)
    PROVE  ScheduleInv'
  <1>1. ScheduleTypeOK'
    BY DEF ScheduleInv, ScheduleTypeOK
  <1>2. ASSUME NEW m \in RunNumbers PROVE WorkerSound(m)'
    <2>1. worker'[m] = IF m = n THEN phase ELSE worker[m]
      BY DEF ScheduleInv, ScheduleTypeOK
    <2>2. Lineage(m)' <=> Lineage(m)
      BY DEF Lineage, LastJob
    <2> QED
      BY <2>1, <2>2 DEF ScheduleInv, WorkerSound
  <1>3. ChangeSound'
    <2>1. ASSUME change # NoChange, NEW m \in RunNumbers PROVE worker'[m] \notin Result
      BY <2>1 DEF ScheduleInv, ScheduleTypeOK, ChangeSound, Free, Result
    <2>2. ASSUME change # NoChange, change.cancels # 0
          PROVE  worker'[change.cancels] \in {"none", "taken"}
      <3>1. change.cancels \in RunNumbers
        BY <2>2, ScheduleAssumption DEF ScheduleInv, ScheduleTypeOK, Changes, RunNumbers
      <3>2. worker[change.cancels] \in {"none", "taken"} /\ ~Free
        BY <2>2 DEF ScheduleInv, ChangeSound, Free
      <3>3. change.cancels = n => phase \in {"none", "taken"}
        BY <3>2
      <3> QED
        BY <3>1, <3>2, <3>3 DEF ScheduleInv, ScheduleTypeOK
    <2> QED
      BY <2>1, <2>2 DEF ScheduleInv, ChangeSound
  <1>4. RunsSound'
    BY DEF ScheduleInv, RunsSound
  <1> QED
    BY <1>1, <1>2, <1>3, <1>4 DEF ScheduleInv

LEMMA SynchronizeStep ==
    ASSUME ScheduleInv, NEW n \in RunNumbers, Synchronize(n) PROVE ScheduleInv'
  BY PhaseStep DEF Synchronize, Phase

LEMMA KillWorkerStep ==
    ASSUME ScheduleInv, NEW n \in RunNumbers, KillWorker(n) PROVE ScheduleInv'
  BY PhaseStep DEF KillWorker, Phase, Result, ScheduleInv, ScheduleTypeOK

\* The schedule is written while it is free and no other worker is between
\* its check and its record.
LEMMA ScheduleWritten ==
    ASSUME ScheduleInv, NEW n \in RunNumbers, NEW phase \in Phase,
           worker' = [worker EXCEPT ![n] = phase], phase \notin {"none", "taken"}, phase \notin Result,
           runs[n].status = "held", Free, UNCHANGED <<runs, change, changes, asked>>,
           schedule' \in Schedule, schedule'.lease = "none" <=> schedule'.holder = 0,
           schedule'.sequence = schedule.sequence,
           \A m \in RunNumbers \ {n} : worker[m] \in Result => schedule' = schedule
    PROVE  ScheduleInv'
  <1>1. ScheduleTypeOK'
    BY DEF ScheduleInv, ScheduleTypeOK
  <1>2. ASSUME NEW m \in RunNumbers PROVE WorkerSound(m)'
    <2>1. worker'[m] = IF m = n THEN phase ELSE worker[m]
      BY DEF ScheduleInv, ScheduleTypeOK
    <2>2. m # n /\ worker[m] \in Result => (Lineage(m)' <=> Lineage(m))
      BY DEF Lineage, LastJob
    <2> QED
      BY <2>1, <2>2 DEF ScheduleInv, WorkerSound
  <1>3. ChangeSound' /\ RunsSound'
    BY DEF ScheduleInv, ChangeSound, RunsSound, Free
  <1> QED
    BY <1>1, <1>2, <1>3 DEF ScheduleInv

LEMMA SkipRunStep ==
    ASSUME ScheduleInv, NEW n \in RunNumbers, SkipRun(n) PROVE ScheduleInv'
  <1>1. CASE LastJob = n
    <2>1. PICK row : row = Unleased(schedule)
      OBVIOUS
    <2>2. row \in Schedule /\ row.lease = "none" /\ row.holder = 0 /\ row.sequence = schedule.sequence
      BY <2>1, UnleasedType DEF ScheduleInv, ScheduleTypeOK
    <2>3. schedule' = [row EXCEPT !.due = TRUE]
      BY <1>1, <2>1, Zenon DEF SkipRun
    <2>4. /\ schedule' \in Schedule /\ schedule'.lease = "none" /\ schedule'.holder = 0
          /\ schedule'.sequence = schedule.sequence
      BY <2>2, <2>3 DEF Schedule
    <2>5. \A m \in RunNumbers \ {n} : worker[m] \notin Result
      BY <1>1, OneResult
    <2> QED
      BY <2>4, <2>5, ScheduleWritten DEF SkipRun, Phase, Result
  <1>2. CASE LastJob # n
    <2>1. UNCHANGED schedule
      BY <1>2 DEF SkipRun
    <2> QED
      BY <2>1, ScheduleWritten DEF SkipRun, Phase, Result, ScheduleInv, ScheduleTypeOK
  <1> QED
    BY <1>1, <1>2

LEMMA RecordSyncStep ==
    ASSUME ScheduleInv, NEW n \in RunNumbers, RecordSync(n) PROVE ScheduleInv'
  <1>1. PICK result \in Result :
          /\ worker[n] = result
          /\ Free
          /\ schedule' = IF result = "retryable" /\ runs[n].left > 0
                         THEN [schedule EXCEPT !.lease = "live"]
                         ELSE [Unleased(schedule) EXCEPT !.due = FALSE]
          /\ worker' = [worker EXCEPT ![n] = Raised(result)]
          /\ UNCHANGED <<runs, change, changes, asked>>
    BY DEF RecordSync
  <1>2. Lineage(n) /\ runs[n].status = "held"
    BY <1>1 DEF ScheduleInv, WorkerSound, Result
  <1>3. \A m \in RunNumbers \ {n} : worker[m] \notin Result
    BY <1>2, OneResult DEF Lineage
  <1>4. /\ schedule' \in Schedule /\ schedule'.sequence = schedule.sequence
        /\ schedule'.lease = "none" <=> schedule'.holder = 0
    <2>1. CASE result = "retryable" /\ runs[n].left > 0
      <3>1. schedule' = [schedule EXCEPT !.lease = "live"] /\ schedule.holder = n /\ n # 0
        BY <1>1, <1>2, <2>1 DEF Lineage, RunNumbers
      <3> QED
        BY <3>1 DEF ScheduleInv, ScheduleTypeOK, Schedule
    <2>2. CASE ~(result = "retryable" /\ runs[n].left > 0)
      <3>1. PICK row : row = Unleased(schedule)
        OBVIOUS
      <3>2. row \in Schedule /\ row.lease = "none" /\ row.holder = 0 /\ row.sequence = schedule.sequence
        BY <3>1, UnleasedType DEF ScheduleInv, ScheduleTypeOK
      <3>3. schedule' = [row EXCEPT !.due = FALSE]
        BY <1>1, <2>2, <3>1
      <3> QED
        BY <3>2, <3>3 DEF Schedule
    <2> QED
      BY <2>1, <2>2
  <1>5. Raised(result) \in Phase /\ Raised(result) \notin {"none", "taken"} /\ Raised(result) \notin Result
    BY DEF Raised, Phase, Result
  <1> QED
    BY <1>1, <1>2, <1>3, <1>4, <1>5, ScheduleWritten

\* A job changes its status while its worker is, or becomes, idle.
LEMMA JobStep ==
    ASSUME ScheduleInv, NEW n \in RunNumbers, runs[n].status = "held",
           NEW status \in {"queued", "completed", "failed"},
           runs' = [runs EXCEPT ![n].status = status],
           worker' = [worker EXCEPT ![n] = "none"],
           UNCHANGED <<schedule, change, changes, asked>>
    PROVE  ScheduleInv'
  <1>1. /\ runs' \in [RunNumbers -> JobRow]
        /\ \A m \in RunNumbers : runs'[m].status = IF m = n THEN status ELSE runs[m].status
        /\ \A m \in RunNumbers : runs'[m].policy = runs[m].policy
        /\ \A m \in RunNumbers : worker'[m] = IF m = n THEN "none" ELSE worker[m]
    BY DEF ScheduleInv, ScheduleTypeOK, JobRow
  <1>2. ScheduleTypeOK'
    BY <1>1 DEF ScheduleInv, ScheduleTypeOK, Phase
  <1>3. ASSUME NEW m \in RunNumbers PROVE WorkerSound(m)'
    <2>1. Lineage(m)' <=> Lineage(m)
      BY <1>1 DEF Lineage, LastJob
    <2> QED
      BY <1>1, <2>1 DEF ScheduleInv, WorkerSound, Result
  <1>4. ChangeSound' /\ RunsSound'
    <2>1. \A m \in RunNumbers : worker'[m] \in {worker[m], "none"}
      BY <1>1
    <2>2. change # NoChange /\ change.cancels # 0 => change.cancels \in RunNumbers
      BY ScheduleAssumption DEF ScheduleInv, ScheduleTypeOK, Changes, RunNumbers
    <2> QED
      BY <1>1, <2>1, <2>2 DEF ScheduleInv, ChangeSound, RunsSound, Result
  <1> QED
    BY <1>2, <1>3, <1>4 DEF ScheduleInv

LEMMA FinishRunStep ==
    ASSUME ScheduleInv, NEW n \in RunNumbers, FinishRun(n) PROVE ScheduleInv'
  <1>1. runs[n].status = "held"
    BY DEF FinishRun, ScheduleInv, WorkerSound
  <1>2. \E status \in {"queued", "completed", "failed"} : runs' = [runs EXCEPT ![n].status = status]
    BY DEF FinishRun
  <1> QED
    BY <1>1, <1>2, JobStep DEF FinishRun

LEMMA RecoverRunStep ==
    ASSUME ScheduleInv, NEW n \in RunNumbers, RecoverRun(n) PROVE ScheduleInv'
  <1>1. worker' = [worker EXCEPT ![n] = "none"]
    BY DEF RecoverRun, ScheduleInv, ScheduleTypeOK
  <1>2. \E status \in {"queued", "completed", "failed"} : runs' = [runs EXCEPT ![n].status = status]
    BY DEF RecoverRun
  <1> QED
    BY <1>1, <1>2, JobStep DEF RecoverRun

LEMMA TimeStep ==
    ASSUME ScheduleInv, BecomeDue \/ ScheduleLeaseRunsOut PROVE ScheduleInv'
  <1>1. /\ schedule' \in Schedule
        /\ schedule'.lease = "none" <=> schedule'.holder = 0
        /\ schedule'.sequence = schedule.sequence /\ schedule'.holder = schedule.holder
        /\ schedule'.enabled = schedule.enabled /\ schedule'.policy = schedule.policy
    BY DEF BecomeDue, ScheduleLeaseRunsOut, ScheduleInv, ScheduleTypeOK, Schedule
  <1>2. UNCHANGED <<runs, worker, change, changes, asked>>
    BY DEF BecomeDue, ScheduleLeaseRunsOut
  <1>3. ScheduleTypeOK'
    BY <1>1, <1>2 DEF ScheduleInv, ScheduleTypeOK
  <1>4. \A n \in RunNumbers : WorkerSound(n)'
    BY <1>1, <1>2 DEF ScheduleInv, WorkerSound, Lineage, LastJob
  <1>5. ChangeSound' /\ RunsSound'
    BY <1>1, <1>2 DEF ScheduleInv, ChangeSound, RunsSound
  <1> QED
    BY <1>3, <1>4, <1>5 DEF ScheduleInv

LEMMA ScheduleStep == ScheduleInv /\ [ScheduleNext]_scheduleVars => ScheduleInv'
  <1> SUFFICES ASSUME ScheduleInv, [ScheduleNext]_scheduleVars PROVE ScheduleInv'
    OBVIOUS
  <1>1. CASE UNCHANGED scheduleVars
    BY <1>1 DEF scheduleVars, ScheduleInv, ScheduleTypeOK, WorkerSound, Lineage, LastJob,
                ChangeSound, RunsSound
  <1>2. CASE ScheduleNext
    BY <1>2, BeginChangeStep, CommitChangeStep, RequeueRunStep, AdoptStep, EnqueueRunStep,
       TakeRunStep, NoticeCancelledStep, SkipRunStep, SynchronizeStep, RecordSyncStep,
       FinishRunStep, RecoverRunStep, KillWorkerStep, TimeStep DEF ScheduleNext
  <1> QED
    BY <1>1, <1>2

LEMMA ScheduleInvariant == ScheduleSpec => []ScheduleInv
  BY ScheduleInitial, ScheduleStep, PTL DEF ScheduleSpec

\* The schedule, the jobs of its runs and the workers keep their types, and the
\* row has a lease exactly while it names the run that holds it.
THEOREM ScheduleTypeCorrect == ScheduleSpec => []ScheduleTypeOK
  <1>1. ScheduleInv => ScheduleTypeOK
    BY DEF ScheduleInv
  <1> QED
    BY <1>1, ScheduleInvariant, PTL

\* execute_trust_source_sync_job checks the lineage of its run once.  It still
\* holds when the result is written, whatever operators, the scheduler and
\* other workers did since.
THEOREM LineageHolds == ScheduleSpec => []LineageStillHolds
  <1>1. ScheduleInv => LineageStillHolds
    BY DEF ScheduleInv, WorkerSound, LineageStillHolds
  <1> QED
    BY <1>1, ScheduleInvariant, PTL
=============================================================================
