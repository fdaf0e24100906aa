--------------------------- MODULE IntentDelivery ---------------------------
(***************************************************************************)
(* Delivery of committed outbox intents: the outbox collection and the      *)
(* intent feed of adapters/mongo/outbox.go, the worker of                   *)
(* adapters/executionruntime/worker.go and the lease sweeper of             *)
(* adapters/operationalruntime/production.go.                               *)
(*                                                                          *)
(* Time is abstract: a claim's lease is live until it expires, once and for *)
(* every process at the same moment.  attempts and claim_epoch are          *)
(* incremented together and nowhere else, so epoch stands for both.  What   *)
(* Process does (application/operational_execution_coordinator.go) is one   *)
(* of the four kinds of result ProcessOne tells apart.                      *)
(***************************************************************************)
EXTENDS Integers, Sequences, FiniteSets

CONSTANTS Intents,
          Workers,          \* worker processes, each with its own consumer id
          NoWorker,
          MaxAttempts,      \* SweepExpiredIntents' maxAttempts
          MaxReconciliations, \* Policy.MaximumReconciliations
          MaxJobs,          \* Policy.MaximumConcurrentInvocations
          MaxFailures,      \* bound on the claim epoch at which Process still fails
          MaxFaults         \* bound on worker stops, lost stream histories and timed-out calls

ASSUME BoundsAssumption ==
  /\ MaxAttempts \in Nat \ {0} /\ MaxReconciliations \in Nat \ {0} /\ MaxJobs \in Nat \ {0}
  /\ MaxFailures \in Nat /\ MaxFaults \in Nat /\ NoWorker \notin Workers

VARIABLES outbox,      \* per intent: delivery state, holder, claim epoch, is the lease live
          feed,        \* per worker: "closed", "streaming" (no backlog yet), "open"
          backlog,     \* the unread documents of the backlog cursor, as keys
          stream,      \* the unread change-stream events
          seen,        \* the delivery keys the feed has returned
          checkpoint,  \* has the consumer a durable resume token
          resynced,    \* IntentFeed.resynchronized
          jobs,        \* the ProcessOne calls under way
          expired,     \* what the sweeper's cursor has read
          faults,      \* how many stops, lost histories and timeouts there were
          timedOut     \* history: the intents an Acquire timed out on without effect

vars == <<outbox, feed, backlog, stream, seen, checkpoint, resynced, jobs, expired, faults,
          timedOut>>
feedVars == <<feed, backlog, stream, seen, checkpoint, resynced>>

States == {"ABSENT", "PENDING", "CLAIMED", "RESOLVED", "DEAD_LETTER"}
Settled(i) == outbox[i].state \in {"RESOLVED", "DEAD_LETTER"}

(* Mutated: the feed key is the intent id alone.                            *)
KeyWithoutEpoch(i) == <<i, 0>>

(* intentDeliveryKey: the intent and its claim epoch.                       *)
Key(i) == <<i, outbox[i].epoch>>
Pending == {i \in Intents : outbox[i].state = "PENDING"}

Init ==
  /\ outbox = [i \in Intents |-> [state |-> "ABSENT", holder |-> NoWorker, epoch |-> 0, live |-> FALSE]]
  /\ feed = [w \in Workers |-> "closed"]
  /\ backlog = [w \in Workers |-> {}]
  /\ stream = [w \in Workers |-> <<>>]
  /\ seen = [w \in Workers |-> {}]
  /\ checkpoint = [w \in Workers |-> FALSE]
  /\ resynced = [w \in Workers |-> FALSE]
  /\ jobs = {} /\ expired = {} /\ faults = 0 /\ timedOut = {}

(* The environment's faults, up to the bound.                               *)
Fault == faults < MaxFaults /\ faults' = faults + 1

(***************************************************************************)
(* The change stream: an insert carries the inserted document; an update    *)
(* that leaves the intent PENDING is looked up when it is read              *)
(* (UpdateLookup).  Other updates are filtered, or show a PENDING state     *)
(* that a later event shows too.  A closed feed without a checkpoint will   *)
(* start after what happens now.                                            *)
(***************************************************************************)
Emit(i, kind) ==
  stream' = [w \in Workers |->
    IF feed[w] # "closed" \/ checkpoint[w] THEN Append(stream[w], [intent |-> i, kind |-> kind])
    ELSE stream[w]]

(* The transaction of a decision inserts its intent.                        *)
Commit(i) ==
  /\ outbox[i].state = "ABSENT"
  /\ outbox' = [outbox EXCEPT ![i].state = "PENDING"]
  /\ Emit(i, "insert")
  /\ UNCHANGED <<feed, backlog, seen, checkpoint, resynced, jobs, expired, faults, timedOut>>

(***************************************************************************)
(* openIntentFeed: the change stream first, resumed after the consumer's    *)
(* checkpoint, or from now on when there is none or its history is lost;    *)
(* then the backlog.  A worker runs one feed for its whole life.            *)
(***************************************************************************)
OpenStream(w, resumed) ==
  /\ feed[w] = "closed" /\ \A j \in jobs : j.worker # w
  /\ resumed => checkpoint[w]
  /\ feed' = [feed EXCEPT ![w] = "streaming"]
  /\ stream' = IF resumed THEN stream ELSE [stream EXCEPT ![w] = <<>>]
  /\ checkpoint' = [checkpoint EXCEPT ![w] = resumed]
  /\ resynced' = [resynced EXCEPT ![w] = checkpoint[w] /\ ~resumed]
  /\ UNCHANGED <<outbox, backlog, seen, jobs, expired, faults, timedOut>>

(* Mutated: the backlog also returns claimed documents.                     *)
OpenBacklogWithClaims(w) ==
  /\ feed[w] = "streaming"
  /\ feed' = [feed EXCEPT ![w] = "open"]
  /\ backlog' = [backlog EXCEPT ![w] =
       {Key(i) : i \in {k \in Intents : outbox[k].state \in {"PENDING", "CLAIMED"}}}]
  /\ UNCHANGED <<outbox, stream, seen, checkpoint, resynced, jobs, expired, faults, timedOut>>

(* openBoundedBacklog: the PENDING documents.                               *)
OpenBacklog(w) ==
  /\ feed[w] = "streaming"
  /\ feed' = [feed EXCEPT ![w] = "open"]
  /\ backlog' = [backlog EXCEPT ![w] = {Key(i) : i \in Pending}]
  /\ UNCHANGED <<outbox, stream, seen, checkpoint, resynced, jobs, expired, faults, timedOut>>

(* resynchronize, once in the life of a feed: the stream's history was      *)
(* lost; a new stream and a new backlog, the keys already seen are kept.    *)
Resynchronize(w) ==
  /\ feed[w] = "open" /\ ~resynced[w] /\ Fault
  /\ feed' = [feed EXCEPT ![w] = "streaming"]
  /\ stream' = [stream EXCEPT ![w] = <<>>]
  /\ backlog' = [backlog EXCEPT ![w] = {}]
  /\ checkpoint' = [checkpoint EXCEPT ![w] = FALSE]
  /\ resynced' = [resynced EXCEPT ![w] = TRUE]
  /\ UNCHANGED <<outbox, seen, jobs, expired, timedOut>>

(* A key not seen before starts a ProcessOne, up to the concurrency limit.  *)
CanPoll(w) == feed[w] = "open" /\ Cardinality({j \in jobs : j.worker = w}) < MaxJobs
Deliver(w, key) ==
  /\ seen' = [seen EXCEPT ![w] = @ \cup {key}]
  /\ jobs' = IF key \in seen[w] THEN jobs
             ELSE jobs \cup {[worker |-> w, intent |-> key[1], epoch |-> 0, step |-> "acquire",
                              tries |-> 0]}

(* Poll: the backlog before the stream.                                     *)
PollBacklog(w) ==
  /\ CanPoll(w)
  /\ \E key \in backlog[w] :
       /\ backlog' = [backlog EXCEPT ![w] = @ \ {key}]
       /\ Deliver(w, key)
  /\ UNCHANGED <<outbox, feed, stream, checkpoint, resynced, expired, faults, timedOut>>

PollStream(w) ==
  LET event == Head(stream[w])
      matches == event.kind = "insert" \/ outbox[event.intent].state = "PENDING"
  IN /\ CanPoll(w) /\ backlog[w] = {} /\ stream[w] # <<>>
     /\ stream' = [stream EXCEPT ![w] = Tail(@)]
     /\ IF matches
          THEN /\ Deliver(w, IF event.kind = "insert" THEN <<event.intent, 0>> ELSE Key(event.intent))
               /\ checkpoint' = [checkpoint EXCEPT ![w] = TRUE]
          ELSE UNCHANGED <<seen, jobs, checkpoint>>
     /\ UNCHANGED <<outbox, feed, backlog, resynced, expired, faults, timedOut>>

-----------------------------------------------------------------------------
(* activeClaimFilter: the claim of job j is the document's, and still live. *)
Active(j) ==
  LET d == outbox[j.intent] IN
  d.state = "CLAIMED" /\ d.holder = j.worker /\ d.epoch = j.epoch /\ d.live

Replace(j, next) == jobs' = (jobs \ {j}) \cup {next}
Finish(j) == jobs' = jobs \ {j}

(* AcquireIntent: one winner, a new claim epoch; ErrStaleClaim ends the job.*)
Claimable(i) ==
  outbox[i].state = "PENDING" \/ (outbox[i].state = "CLAIMED" /\ ~outbox[i].live)
Claimed(j) ==
  [outbox EXCEPT ![j.intent] =
     [state |-> "CLAIMED", holder |-> j.worker, epoch |-> @.epoch + 1, live |-> TRUE]]
Acquire(j) ==
  /\ j.step = "acquire"
  /\ IF Claimable(j.intent)
       THEN /\ outbox' = Claimed(j)
            /\ Replace(j, [j EXCEPT !.step = "process", !.epoch = outbox'[j.intent].epoch])
       ELSE Finish(j) /\ UNCHANGED outbox
  /\ UNCHANGED <<feedVars, expired, faults, timedOut>>

(* LeaseOperationTimeout ends a call to the outbox: before it took effect   *)
(* (the job is gone, its claim if any is left to its lease), or after it.   *)
(* runProcessResult passes over the deadline error and Run goes on.         *)
TimesOut(j) ==
  /\ j.step \in {"acquire", "extend", "resolve", "yield"}
  /\ Fault
  /\ Finish(j)
  /\ \/ /\ timedOut' = IF j.step = "acquire" THEN timedOut \cup {j.intent} ELSE timedOut
        /\ UNCHANGED outbox
     \/ /\ j.step = "acquire" /\ Claimable(j.intent)
        /\ outbox' = Claimed(j)
        /\ UNCHANGED timedOut
  /\ UNCHANGED <<feedVars, expired>>

(* One result of Process: terminal or stale authority, an error (one that   *)
(* Run survives, or one that stops it), or an outcome not known yet.        *)
Process(j) ==
  /\ j.step = "process"
  /\ \/ Replace(j, [j EXCEPT !.step = "resolve"]) /\ UNCHANGED faults
     \/ /\ j.epoch <= MaxFailures
        /\ \/ Replace(j, [j EXCEPT !.step = "yield"]) /\ UNCHANGED faults
           \/ Replace(j, [j EXCEPT !.step = "abort"]) /\ Fault
           \/ Replace(j, [j EXCEPT !.step = "extend", !.tries = @ + 1]) /\ UNCHANGED faults
  /\ UNCHANGED <<outbox, feedVars, expired, timedOut>>

(* ExtendIntent renews a live claim only; then the next attempt, if any.    *)
Extend(j) ==
  /\ j.step = "extend"
  /\ IF Active(j)
       THEN Replace(j, [j EXCEPT !.step = IF j.tries < MaxReconciliations THEN "process" ELSE "yield"])
       ELSE Finish(j)
  /\ UNCHANGED <<outbox, feedVars, expired, faults, timedOut>>

(* Mutated: the update names the intent and not the claim.                  *)
ResolveUnpinned(j) ==
  /\ j.step = "resolve"
  /\ outbox' = [outbox EXCEPT ![j.intent] =
       [@ EXCEPT !.state = "RESOLVED", !.holder = NoWorker, !.live = FALSE]]
  /\ Finish(j)
  /\ UNCHANGED <<feedVars, expired, faults, timedOut>>

(* ResolveIntent, only under an active claim.                               *)
Resolve(j) ==
  /\ j.step = "resolve"
  /\ outbox' = IF Active(j)
                 THEN [outbox EXCEPT ![j.intent] =
                         [@ EXCEPT !.state = "RESOLVED", !.holder = NoWorker, !.live = FALSE]]
                 ELSE outbox
  /\ Finish(j)
  /\ UNCHANGED <<feedVars, expired, faults, timedOut>>

(* Mutated: the yield leaves the holder set.                                *)
ReleaseKeepsHolder(i) == [outbox EXCEPT ![i] = [@ EXCEPT !.state = "PENDING", !.live = FALSE]]

(* YieldIntent (and ReaddressIntent, which no caller uses): back to         *)
(* PENDING under the same epoch.                                            *)
Release(i) == [outbox EXCEPT ![i] = [@ EXCEPT !.state = "PENDING", !.holder = NoWorker, !.live = FALSE]]

YieldEffect(j) ==
  IF Active(j) THEN outbox' = Release(j.intent) /\ Emit(j.intent, "update")
  ELSE UNCHANGED <<outbox, stream>>

Yield(j) ==
  /\ j.step = "yield"
  /\ YieldEffect(j)
  /\ Finish(j)
  /\ UNCHANGED <<feed, backlog, seen, checkpoint, resynced, expired, faults, timedOut>>

(* The worker of w ends; its feed and what it has seen are gone.            *)
Stopped(w) ==
  /\ feed' = [feed EXCEPT ![w] = "closed"]
  /\ backlog' = [backlog EXCEPT ![w] = {}]
  /\ seen' = [seen EXCEPT ![w] = {}]

(* An error Run does not survive: the claim is yielded, Run cancels and     *)
(* drains the other jobs and returns.  A cancelled Acquire or Extend ends   *)
(* its job; a cancelled Process ends in a yield; Resolve and Yield run on.  *)
Drained(j) == IF j.step \in {"process", "abort"} THEN [j EXCEPT !.step = "yield"] ELSE j
Abort(j) ==
  LET mine == {k \in jobs \ {j} : k.worker = j.worker}
      going == {k \in mine : k.step \notin {"acquire", "extend"}}
  IN /\ j.step = "abort"
     /\ YieldEffect(j)
     /\ Stopped(j.worker)
     /\ jobs' = (jobs \ (mine \cup {j})) \cup {Drained(k) : k \in going}
     /\ UNCHANGED <<checkpoint, resynced, expired, faults, timedOut>>

(* The process dies, wherever its jobs are.                                 *)
Crash(w) ==
  /\ feed[w] # "closed"
  /\ Fault
  /\ Stopped(w)
  /\ jobs' = {j \in jobs : j.worker # w}
  /\ stream' = IF checkpoint[w] THEN stream ELSE [stream EXCEPT ![w] = <<>>]
  /\ UNCHANGED <<outbox, checkpoint, resynced, expired, timedOut>>

-----------------------------------------------------------------------------
LeaseExpires(i) ==
  /\ outbox[i].state = "CLAIMED" /\ outbox[i].live
  /\ outbox' = [outbox EXCEPT ![i].live = FALSE]
  /\ UNCHANGED <<feedVars, jobs, expired, faults, timedOut>>

(* SweepExpiredIntents: find the expired claims, then update each one that  *)
(* still has the holder and the epoch that were read.                       *)
SweepFind ==
  /\ expired = {}
  /\ expired' = {[intent |-> i, holder |-> outbox[i].holder, epoch |-> outbox[i].epoch] :
                   i \in {k \in Intents : outbox[k].state = "CLAIMED" /\ ~outbox[k].live}}
  /\ expired' # {}
  /\ UNCHANGED <<outbox, feedVars, jobs, faults, timedOut>>

SweepUpdate(x) ==
  LET d == outbox[x.intent] IN
  /\ expired' = expired \ {x}
  /\ IF d.state = "CLAIMED" /\ d.holder = x.holder /\ d.epoch = x.epoch /\ ~d.live
       THEN IF x.epoch >= MaxAttempts
              THEN /\ outbox' = [outbox EXCEPT ![x.intent] =
                        [@ EXCEPT !.state = "DEAD_LETTER", !.holder = NoWorker]]
                   /\ UNCHANGED stream
              ELSE outbox' = Release(x.intent) /\ Emit(x.intent, "update")
       ELSE UNCHANGED <<outbox, stream>>
  /\ UNCHANGED <<feed, backlog, seen, checkpoint, resynced, jobs, faults, timedOut>>

JobStep(j) == Acquire(j) \/ Process(j) \/ Extend(j) \/ Resolve(j) \/ Yield(j) \/ Abort(j)

Next ==
  \/ \E i \in Intents : Commit(i) \/ LeaseExpires(i)
  \/ \E w \in Workers :
       \/ \E resumed \in BOOLEAN : OpenStream(w, resumed)
       \/ OpenBacklog(w) \/ Resynchronize(w) \/ PollBacklog(w) \/ PollStream(w) \/ Crash(w)
  \/ \E j \in jobs : JobStep(j) \/ TimesOut(j)
  \/ SweepFind \/ \E x \in expired : SweepUpdate(x)

(***************************************************************************)
(* Fairness: a started worker opens its feed, polls and runs its jobs, a    *)
(* stopped one is started again, leases expire and the sweeper keeps        *)
(* running.  Nothing is assumed about commits, crashes, lost histories and  *)
(* timeouts.                                                                *)
(***************************************************************************)
Fairness ==
  /\ \A w \in Workers :
       WF_vars((\E r \in BOOLEAN : OpenStream(w, r)) \/ OpenBacklog(w) \/ PollBacklog(w) \/ PollStream(w))
  /\ WF_vars(\E j \in jobs : JobStep(j))
  /\ \A i \in Intents : WF_vars(LeaseExpires(i))
  /\ WF_vars(SweepFind \/ \E x \in expired : SweepUpdate(x))

Spec == Init /\ [][Next]_vars /\ Fairness

-----------------------------------------------------------------------------
JobType ==
  [worker : Workers, intent : Intents, epoch : Nat, tries : 0 .. MaxReconciliations,
   step : {"acquire", "process", "extend", "resolve", "yield", "abort"}]

(* Types, and what the collection keeps: only a claimed intent has a holder *)
(* and a live lease.                                                        *)
TypeOK ==
  /\ outbox \in [Intents -> [state : States, holder : Workers \cup {NoWorker}, epoch : Nat,
                             live : BOOLEAN]]
  /\ \A i \in Intents : (outbox[i].holder = NoWorker) <=> (outbox[i].state # "CLAIMED")
  /\ \A i \in Intents : outbox[i].live => outbox[i].state = "CLAIMED"
  /\ feed \in [Workers -> {"closed", "streaming", "open"}]
  /\ \A w \in Workers : \A key \in backlog[w] \cup seen[w] : key \in Intents \X Nat
  /\ \A w \in Workers : \A k \in DOMAIN stream[w] :
       stream[w][k] \in [intent : Intents, kind : {"insert", "update"}]
  /\ checkpoint \in [Workers -> BOOLEAN] /\ resynced \in [Workers -> BOOLEAN]
  /\ jobs \subseteq JobType /\ timedOut \subseteq Intents
  /\ expired \subseteq [intent : Intents, holder : Workers, epoch : Nat]

(* Does an open feed still hold intent i for worker w: an unread document   *)
(* or event whose key the feed has not returned.                            *)
Announced(w, i) ==
  /\ Key(i) \notin seen[w]
  /\ \/ Key(i) \in backlog[w]
     \/ \E k \in DOMAIN stream[w] :
          stream[w][k].intent = i /\ (stream[w][k].kind = "update" \/ outbox[i].epoch = 0)

(* No feed loses a pending intent (OpenIntentFeed opens the stream before   *)
(* the backlog, the keys carry the claim epoch, the backlog leaves out      *)
(* claims): an open worker will still be told of it, or is about to acquire *)
(* it, unless its Acquire timed out.                                        *)
NoIntentForgotten ==
  \A i \in Pending \ timedOut, w \in Workers :
    feed[w] = "open" =>
      Announced(w, i) \/ \E j \in jobs : j.worker = w /\ j.intent = i /\ j.step = "acquire"

(* A worker whose claim has been superseded, or whose lease ran out, leaves *)
(* the document alone, whatever call it still makes (activeClaimFilter): a  *)
(* live claim ends, and an intent is resolved, by the job that holds the    *)
(* claim, unless the lease expires.                                         *)
LateHoldersInert ==
  [][\A i \in Intents :
       (outbox'[i] # outbox[i] /\ (outbox[i].live \/ outbox'[i].state = "RESOLVED")) =>
         \/ outbox'[i] = [outbox[i] EXCEPT !.live = FALSE]
         \/ \E j \in jobs : j.intent = i /\ Active(j) /\ j \notin jobs']_vars

(* Every committed intent is resolved or dead-lettered in the end, unless   *)
(* an Acquire for it timed out: restarts, lost stream histories, yields and *)
(* expired leases all lead to another delivery.                             *)
EventuallySettled ==
  \A i \in Intents : outbox[i].state = "PENDING" ~> (Settled(i) \/ i \in timedOut)

(* Delivery is at least once (the outbox contract): every committed intent  *)
(* is settled in the end, whatever single call timed out.                   *)
AtLeastOnce == \A i \in Intents : outbox[i].state = "PENDING" ~> Settled(i)
=============================================================================
