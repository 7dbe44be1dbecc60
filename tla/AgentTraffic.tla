---------------------------- MODULE AgentTraffic ----------------------------
(***************************************************************************)
(* Signed traffic evidence on its way from a collector's outbox to the     *)
(* benchmark results (backend/app/collectors/agent_traffic_collector.py,   *)
(* services/agent_traffic_ingestion.py and agent_evidence_import.py).      *)
(*                                                                         *)
(* The collector delivers a file until it is answered, the server commits  *)
(* a job and then a receipt, and a worker imports the events of the job.   *)
(* Each of the three may end between two commits, and an answer may get    *)
(* lost while its request goes on.  A signature covers the batch, the      *)
(* nonce and the time of sending, so it is their record here.  What a      *)
(* lease does that runs out while its worker lives is in AgentJobs.        *)
(***************************************************************************)
EXTENDS Naturals, FiniteSets

CONSTANTS
    Batches,          \* files in the outbox, by batch_id
    EventsOf,         \* EventsOf[b]: source events of batch b, at least one
    Handlers,         \* requests the server can have under way
    SendAttempts,     \* max_attempts of deliver_with_retry
    ImportAttempts,   \* max_attempts of an import job
    AllowedSkew,      \* max_clock_skew_seconds
    MaxHour,          \* bound of the model on the clock
    MaxRestarts,      \* bound of the model on crashes
    MaxRepeats        \* bound of the model on requeues of a job

ASSUME TrafficAssumption ==
    /\ \A b \in Batches : IsFiniteSet(EventsOf[b]) /\ EventsOf[b] # {}
    /\ SendAttempts \in Nat \ {0}
    /\ ImportAttempts \in Nat \ {0}
    /\ {AllowedSkew, MaxHour, MaxRestarts, MaxRepeats} \subseteq Nat

VARIABLES
    file,       \* file[b]: where the file of b is
    identities, \* pending of the state file: identities[b] of b, or NoIdentity
    nonces,     \* how many nonces were drawn
    collector,  \* what the collector process does
    handlers,   \* handlers[r]: what the server does for request r
    receipts,   \* receipts[b]: the identity of the receipt of b, or NoIdentity
    imports,    \* imports[b]: the row of the import job of b
    workers,    \* workers[b]: the transaction of the worker that has job b
    evidence,   \* benchmark results: [event, batch, attempt], by the run of the job
    hour,
    restarts

trafficVars ==
    <<file, identities, nonces, collector, handlers, receipts, imports, workers, evidence,
      hour, restarts>>

-----------------------------------------------------------------------------
(* Records *)

NoIdentity == [nonce |-> 0, sent_at |-> 0]

Resting == [step |-> "resting", batch |-> 0, identity |-> NoIdentity, attempts |-> 0, handler |-> 0]

Quiet == [step |-> "quiet", batch |-> 0, identity |-> NoIdentity]

NoImport == [status |-> "absent", attempts |-> 0, repeats |-> 0, identity |-> NoIdentity]

NoTransaction == [step |-> "none", flushed |-> {}]

TrafficInit ==
    /\ file = [b \in Batches |-> "outbox"]
    /\ identities = [b \in Batches |-> NoIdentity]
    /\ nonces = 0
    /\ collector = Resting
    /\ handlers = [r \in Handlers |-> Quiet]
    /\ receipts = [b \in Batches |-> NoIdentity]
    /\ imports = [b \in Batches |-> NoImport]
    /\ workers = [b \in Batches |-> NoTransaction]
    /\ evidence = {}
    /\ hour = 0
    /\ restarts = 0

-----------------------------------------------------------------------------
(* process_outbox_once *)

\* Mutant of TakeFile: the state file is saved only after the delivery.
TakeFileUnsaved(b) ==
    /\ collector.step = "resting"
    /\ file[b] = "outbox"
    /\ nonces' = nonces + 1
    /\ collector' = [Resting EXCEPT !.step = "ready", !.batch = b,
                                    !.identity = [nonce |-> nonces + 1, sent_at |-> hour]]
    /\ UNCHANGED <<file, identities, handlers, receipts, imports, workers, evidence, hour, restarts>>

\* The identity of an earlier round is kept, else one is drawn; it is saved
\* before the first attempt.  Files come in the order of their names, which is
\* left open.  There are no invalid files.
TakeFile(b) ==
    /\ collector.step = "resting"
    /\ file[b] = "outbox"
    /\ LET known == identities[b] # NoIdentity
           identity == IF known THEN identities[b] ELSE [nonce |-> nonces + 1, sent_at |-> hour]
       IN  /\ nonces' = IF known THEN nonces ELSE nonces + 1
           /\ identities' = [identities EXCEPT ![b] = identity]
           /\ collector' = [Resting EXCEPT !.step = "ready", !.batch = b, !.identity = identity]
    /\ UNCHANGED <<file, handlers, receipts, imports, workers, evidence, hour, restarts>>

\* deliver: one attempt.
Send(r) ==
    /\ collector.step = "ready"
    /\ handlers[r] = Quiet
    /\ collector' = [collector EXCEPT !.step = "waiting", !.attempts = @ + 1, !.handler = r]
    /\ handlers' = [handlers EXCEPT ![r] = [step |-> "received", batch |-> collector.batch,
                                           identity |-> collector.identity]]
    /\ UNCHANGED <<file, identities, nonces, receipts, imports, workers, evidence, hour, restarts>>

\* A time-out, a lost answer, a 429 or 5xx: the same delivery is tried again.
Unanswered ==
    IF collector.attempts < SendAttempts
    THEN [collector EXCEPT !.step = "ready"]
    ELSE [collector EXCEPT !.step = "failing"]

GiveUpWaiting ==
    /\ collector.step = "waiting"
    /\ collector' = Unanswered
    /\ UNCHANGED <<file, identities, nonces, handlers, receipts, imports, workers, evidence,
                   hour, restarts>>

\* The success is saved: the identity is forgotten.
SaveSuccess ==
    /\ collector.step = "delivered"
    /\ identities' = [identities EXCEPT ![collector.batch] = NoIdentity]
    /\ collector' = [collector EXCEPT !.step = "moving"]
    /\ UNCHANGED <<file, nonces, handlers, receipts, imports, workers, evidence, hour, restarts>>

MoveSent ==
    /\ collector.step = "moving"
    /\ file' = [file EXCEPT ![collector.batch] = "sent"]
    /\ collector' = Resting
    /\ UNCHANGED <<identities, nonces, handlers, receipts, imports, workers, evidence, hour,
                   restarts>>

\* A failure keeps the identity in the state file.
MoveFailed ==
    /\ collector.step = "failing"
    /\ file' = [file EXCEPT ![collector.batch] = "failed"]
    /\ collector' = Resting
    /\ UNCHANGED <<identities, nonces, handlers, receipts, imports, workers, evidence, hour,
                   restarts>>

CrashCollector ==
    /\ collector # Resting
    /\ restarts < MaxRestarts
    /\ restarts' = restarts + 1
    /\ collector' = Resting
    /\ UNCHANGED <<file, identities, nonces, handlers, receipts, imports, workers, evidence, hour>>

-----------------------------------------------------------------------------
(* queue_signed_traffic_batch *)

\* The request ends; the collector learns how, if it still waits for it.
Reply(r, step) ==
    /\ handlers' = [handlers EXCEPT ![r] = Quiet]
    /\ collector' = IF collector.step = "waiting" /\ collector.handler = r
                    THEN [collector EXCEPT !.step = step]
                    ELSE collector

\* _matching_receipt: a receipt of the batch or of the nonce.
ReceiptsLike(r) ==
    {b \in Batches : /\ receipts[b] # NoIdentity
                     /\ b = handlers[r].batch \/ receipts[b].nonce = handlers[r].identity.nonce}

\* _record_idempotent_replay: the batch, the nonce and the signature agree, or
\* the request is refused.
Replayed(r) ==
    Reply(r, IF ReceiptsLike(r) = {handlers[r].batch}
                /\ receipts[handlers[r].batch] = handlers[r].identity
             THEN "delivered" ELSE "failing")

ReplayReceipt(r) ==
    /\ handlers[r].step = "received"
    /\ ReceiptsLike(r) # {}
    /\ Replayed(r)
    /\ UNCHANGED <<file, identities, nonces, receipts, imports, workers, evidence, hour, restarts>>

Skewed(r) == hour > handlers[r].identity.sent_at + AllowedSkew

RefuseSkewed(r) ==
    /\ handlers[r].step = "received"
    /\ ReceiptsLike(r) = {}
    /\ Skewed(r)
    /\ Reply(r, "failing")
    /\ UNCHANGED <<file, identities, nonces, receipts, imports, workers, evidence, hour, restarts>>

\* enqueue_traffic_evidence_job commits the job, or finds the one that has the
\* dedupe key of the batch.
EnqueueImport(r) ==
    /\ handlers[r].step = "received"
    /\ ReceiptsLike(r) = {}
    /\ ~Skewed(r)
    /\ LET b == handlers[r].batch
       IN  imports' = IF imports[b].status = "absent"
                      THEN [imports EXCEPT ![b].status = "queued",
                                           ![b].identity = handlers[r].identity]
                      ELSE imports
    /\ handlers' = [handlers EXCEPT ![r].step = "enqueued"]
    /\ UNCHANGED <<file, identities, nonces, collector, receipts, workers, evidence, hour, restarts>>

\* The receipt is committed, unless another request was faster: then its unique
\* keys turn this one into a replay.
CommitReceipt(r) ==
    /\ handlers[r].step = "enqueued"
    /\ IF ReceiptsLike(r) = {}
       THEN /\ receipts' = [receipts EXCEPT ![handlers[r].batch] = handlers[r].identity]
            /\ Reply(r, "delivered")
       ELSE /\ Replayed(r)
            /\ UNCHANGED receipts
    /\ UNCHANGED <<file, identities, nonces, imports, workers, evidence, hour, restarts>>

\* The server process ends with every request it serves.
CrashServer ==
    /\ \E r \in Handlers : handlers[r] # Quiet
    /\ restarts < MaxRestarts
    /\ restarts' = restarts + 1
    /\ handlers' = [r \in Handlers |-> Quiet]
    /\ collector' = IF collector.step = "waiting" THEN Unanswered ELSE collector
    /\ UNCHANGED <<file, identities, nonces, receipts, imports, workers, evidence, hour>>

-----------------------------------------------------------------------------
(* import_traffic_job_payload, in a worker *)

StartImport(b) ==
    /\ imports[b].status = "queued"
    /\ imports[b].attempts < ImportAttempts
    /\ imports' = [imports EXCEPT ![b].status = "running", ![b].attempts = @ + 1]
    /\ workers' = [workers EXCEPT ![b] = [step |-> "importing", flushed |-> {}]]
    /\ UNCHANGED <<file, identities, nonces, collector, handlers, receipts, evidence, hour, restarts>>

\* Mutant of Duplicate: only the transaction's own events are looked at.
DuplicateOfOwn(b, e) == e \in workers[b].flushed

\* _assert_not_duplicate sees what is committed and what the transaction wrote.
Duplicate(b, e) == e \in workers[b].flushed \/ \E x \in evidence : x.event = e

\* import_production_agent_evidence(commit=False)
ImportEvent(b, e) ==
    /\ workers[b].step = "importing"
    /\ e \in EventsOf[b] \ workers[b].flushed
    /\ ~Duplicate(b, e)
    /\ workers' = [workers EXCEPT ![b].flushed = @ \cup {e}]
    /\ UNCHANGED <<file, identities, nonces, collector, handlers, receipts, imports, evidence,
                   hour, restarts>>

\* A duplicate ends the job: nothing of the transaction stays.
RefuseImport(b) ==
    /\ workers[b].step = "importing"
    /\ \E e \in EventsOf[b] \ workers[b].flushed : Duplicate(b, e)
    /\ workers' = [workers EXCEPT ![b] = NoTransaction]
    /\ imports' = [imports EXCEPT ![b].status = "failed"]
    /\ UNCHANGED <<file, identities, nonces, collector, handlers, receipts, evidence, hour, restarts>>

CommitImport(b) ==
    /\ workers[b].step = "importing"
    /\ workers[b].flushed = EventsOf[b]
    /\ evidence' = evidence \cup {[event |-> e, batch |-> b,
                                  attempt |-> <<imports[b].repeats, imports[b].attempts>>] : e \in workers[b].flushed}
    /\ workers' = [workers EXCEPT ![b].step = "imported"]
    /\ UNCHANGED <<file, identities, nonces, collector, handlers, receipts, imports, hour, restarts>>

\* The worker completes the job in a transaction of its own.
CompleteImport(b) ==
    /\ workers[b].step = "imported"
    /\ workers' = [workers EXCEPT ![b] = NoTransaction]
    /\ imports' = [imports EXCEPT ![b].status = "completed"]
    /\ UNCHANGED <<file, identities, nonces, collector, handlers, receipts, evidence, hour, restarts>>

\* The worker ends; its lease runs out and is recovered.
CrashImport(b) ==
    /\ workers[b].step # "none"
    /\ restarts < MaxRestarts
    /\ restarts' = restarts + 1
    /\ workers' = [workers EXCEPT ![b] = NoTransaction]
    /\ imports' = [imports EXCEPT ![b].status =
                     IF imports[b].attempts < ImportAttempts THEN "queued" ELSE "failed"]
    /\ UNCHANGED <<file, identities, nonces, collector, handlers, receipts, evidence, hour>>

\* requeue_dead_letter_job: an operator grants another attempt.
RequeueImport(b) ==
    /\ imports[b].status = "failed"
    /\ imports[b].repeats < MaxRepeats
    /\ imports' = [imports EXCEPT ![b].status = "queued", ![b].attempts = 0,
                                  ![b].repeats = @ + 1]
    /\ UNCHANGED <<file, identities, nonces, collector, handlers, receipts, workers, evidence,
                   hour, restarts>>

-----------------------------------------------------------------------------
PassHour ==
    /\ hour < MaxHour
    /\ hour' = hour + 1
    /\ UNCHANGED <<file, identities, nonces, collector, handlers, receipts, imports, workers,
                   evidence, restarts>>

TrafficNext ==
    \/ \E b \in Batches : TakeFile(b)
    \/ \E r \in Handlers : Send(r)
    \/ GiveUpWaiting
    \/ SaveSuccess
    \/ MoveSent
    \/ MoveFailed
    \/ CrashCollector
    \/ \E r \in Handlers : ReplayReceipt(r)
    \/ \E r \in Handlers : RefuseSkewed(r)
    \/ \E r \in Handlers : EnqueueImport(r)
    \/ \E r \in Handlers : CommitReceipt(r)
    \/ CrashServer
    \/ \E b \in Batches : StartImport(b)
    \/ \E b \in Batches : \E e \in EventsOf[b] : ImportEvent(b, e)
    \/ \E b \in Batches : RefuseImport(b)
    \/ \E b \in Batches : CommitImport(b)
    \/ \E b \in Batches : CompleteImport(b)
    \/ \E b \in Batches : CrashImport(b)
    \/ \E b \in Batches : RequeueImport(b)
    \/ PassHour

TrafficSpec == TrafficInit /\ [][TrafficNext]_trafficVars

-----------------------------------------------------------------------------
(* Properties *)

Identity == [nonce: Nat, sent_at: 0..MaxHour]

\* Every variable keeps its type.
TrafficTypeOK ==
    /\ file \in [Batches -> {"outbox", "sent", "failed"}]
    /\ identities \in [Batches -> Identity]
    /\ nonces \in Nat
    /\ collector \in [step: {"resting", "ready", "waiting", "delivered", "moving", "failing"},
                      batch: Batches \cup {0}, identity: Identity, attempts: 0..SendAttempts,
                      handler: Handlers \cup {0}]
    /\ handlers \in [Handlers -> [step: {"quiet", "received", "enqueued"},
                                  batch: Batches \cup {0}, identity: Identity]]
    /\ receipts \in [Batches -> Identity]
    /\ imports \in [Batches -> [status: {"absent", "queued", "running", "completed", "failed"},
                                attempts: 0..ImportAttempts, repeats: 0..MaxRepeats,
                                identity: Identity]]
    /\ \A b \in Batches : /\ workers[b].step \in {"none", "importing", "imported"}
                          /\ workers[b].flushed \subseteq EventsOf[b]
                          /\ workers[b].step # "none" <=> imports[b].status = "running"
    /\ hour \in 0..MaxHour
    /\ restarts \in 0..MaxRestarts

\* A file in sent/ has a receipt, and a receipt has a job that carries the very
\* identity it was signed with: although attempts are repeated while earlier
\* ones still run, the job and the receipt are committed one after the other,
\* and the collector and the server lose what they have not committed.
DeliveriesAreTrue ==
    \A b \in Batches :
        /\ file[b] = "sent" => receipts[b] # NoIdentity
        /\ receipts[b] # NoIdentity => /\ imports[b].status # "absent"
                                       /\ imports[b].identity = receipts[b]

\* The events of a batch are imported all together or not at all, and once,
\* however often the batch is delivered and its job run, recovered and requeued;
\* a completed job has imported them.
ImportsAreWhole ==
    \A b \in Batches :
        LET own == {x \in evidence : x.batch = b}
        IN  /\ own # {} => {x.event : x \in own} = EventsOf[b]
            /\ Cardinality(own) <= Cardinality(EventsOf[b])
            /\ imports[b].status = "completed" => own # {}
=============================================================================
