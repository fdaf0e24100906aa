------------------------ MODULE IntentDeliveryProofs ------------------------
(***************************************************************************)
(* Proofs about IntentDelivery, for any number of intents, workers, jobs    *)
(* and faults: types, that no feed forgets a pending intent, and that a     *)
(* superseded holder leaves the document alone.                             *)
(***************************************************************************)
EXTENDS IntentDelivery, TLAPS

Event == [intent : Intents, kind : {"insert", "update"}]
KeySet == Intents \X Nat
Document ==
  [state : States, holder : Workers \cup {NoWorker}, epoch : Nat, live : BOOLEAN]

(* TypeOK with the cursors and streams as functions; a job that is about to *)
(* process has a try left, which is why tries never passes its limit.       *)
TypeInv ==
  /\ outbox \in [Intents -> Document]
  /\ \A i \in Intents : (outbox[i].holder = NoWorker) <=> (outbox[i].state # "CLAIMED")
  /\ \A i \in Intents : outbox[i].live => outbox[i].state = "CLAIMED"
  /\ feed \in [Workers -> {"closed", "streaming", "open"}]
  /\ backlog \in [Workers -> SUBSET KeySet] /\ seen \in [Workers -> SUBSET KeySet]
  /\ stream \in [Workers -> Seq(Event)]
  /\ checkpoint \in [Workers -> BOOLEAN] /\ resynced \in [Workers -> BOOLEAN]
  /\ jobs \subseteq JobType /\ timedOut \subseteq Intents
  /\ expired \subseteq [intent : Intents, holder : Workers, epoch : Nat]
  /\ \A j \in jobs : j.step \in {"acquire", "process"} => j.tries < MaxReconciliations

LEMMA InitTypes == Init => TypeInv
BY BoundsAssumption DEF Init, TypeInv, Document, States, Event, KeySet

(* What Emit adds to the streams.                                           *)
LEMMA Emitted ==
  ASSUME TypeInv, NEW i \in Intents, NEW kind \in {"insert", "update"}, Emit(i, kind)
  PROVE  /\ stream' \in [Workers -> Seq(Event)]
         /\ \A w \in Workers :
              /\ stream'[w] \in {stream[w], Append(stream[w], [intent |-> i, kind |-> kind])}
              /\ feed[w] # "closed" => stream'[w] = Append(stream[w], [intent |-> i, kind |-> kind])
<1> DEFINE e == [intent |-> i, kind |-> kind]
<1>1. e \in Event
  BY DEF Event
<1>2. \A w \in Workers : stream[w] \in Seq(Event)
  BY DEF TypeInv
<1>3. stream' = [w \in Workers |->
         IF feed[w] # "closed" \/ checkpoint[w] THEN Append(stream[w], e) ELSE stream[w]]
  BY DEF Emit
<1> HIDE DEF e
<1>4. \A w \in Workers : Append(stream[w], e) \in Seq(Event)
  BY <1>1, <1>2
<1>5. stream' \in [Workers -> Seq(Event)]
  BY <1>2, <1>3, <1>4
<1>6. \A w \in Workers : stream'[w] \in {stream[w], Append(stream[w], e)}
  BY <1>3
<1>7. \A w \in Workers : feed[w] # "closed" => stream'[w] = Append(stream[w], e)
  BY <1>3
<1> QED BY <1>5, <1>6, <1>7 DEF e

(* One document is replaced.                                                *)
LEMMA Put ==
  ASSUME TypeInv, NEW i \in Intents, NEW d \in Document, outbox' = [outbox EXCEPT ![i] = d]
  PROVE  /\ outbox' \in [Intents -> Document]
         /\ outbox'[i] = d /\ \A k \in Intents \ {i} : outbox'[k] = outbox[k]
BY DEF TypeInv

LEMMA JobFields ==
  ASSUME TypeInv, NEW j \in jobs
  PROVE  /\ j \in JobType /\ j.worker \in Workers /\ j.intent \in Intents
         /\ j.epoch \in Nat /\ j.tries \in 0 .. MaxReconciliations
BY DEF TypeInv, JobType

LEMMA ReleaseType ==
  ASSUME TypeInv, NEW i \in Intents, outbox' = Release(i)
  PROVE  /\ outbox' \in [Intents -> Document]
         /\ outbox'[i] = [state |-> "PENDING", holder |-> NoWorker, epoch |-> outbox[i].epoch, live |-> FALSE]
         /\ \A k \in Intents \ {i} : outbox'[k] = outbox[k]
BY DEF TypeInv, Release, Document, States

LEMMA ClaimedType ==
  ASSUME TypeInv, NEW j \in jobs, outbox' = Claimed(j)
  PROVE  /\ outbox' \in [Intents -> Document]
         /\ outbox'[j.intent] = [state |-> "CLAIMED", holder |-> j.worker,
                                 epoch |-> outbox[j.intent].epoch + 1, live |-> TRUE]
         /\ \A k \in Intents \ {j.intent} : outbox'[k] = outbox[k]
<1> DEFINE d == [state |-> "CLAIMED", holder |-> j.worker,
                 epoch |-> outbox[j.intent].epoch + 1, live |-> TRUE]
<1>1. outbox[j.intent].epoch \in Nat
  BY JobFields DEF TypeInv, Document
<1>2. d \in Document
  BY <1>1, JobFields DEF Document, States
<1>3. outbox' = [outbox EXCEPT ![j.intent] = d]
  BY DEF Claimed
<1> HIDE DEF d
<1>4. outbox' \in [Intents -> Document]
      /\ outbox'[j.intent] = d /\ \A k \in Intents \ {j.intent} : outbox'[k] = outbox[k]
  BY <1>2, <1>3, JobFields, Put
<1> QED BY <1>4 DEF d

(* What a step makes of the document of intent i.                           *)
DocumentSteps(i) ==
  \/ outbox'[i] = outbox[i]
  \/ /\ outbox[i].state = "ABSENT" /\ outbox'[i] = [outbox[i] EXCEPT !.state = "PENDING"]
  \/ /\ outbox[i].state = "CLAIMED" /\ outbox'[i] = [outbox[i] EXCEPT !.live = FALSE]
  \/ /\ Claimable(i)
     /\ \E w \in Workers : outbox'[i] = [state |-> "CLAIMED", holder |-> w,
                                         epoch |-> outbox[i].epoch + 1, live |-> TRUE]
  \/ /\ outbox[i].state = "CLAIMED"
     /\ outbox'[i].state \in {"PENDING", "RESOLVED", "DEAD_LETTER"}
     /\ outbox'[i].holder = NoWorker /\ outbox'[i].epoch = outbox[i].epoch /\ ~outbox'[i].live

LEMMA Documents ==
  ASSUME TypeInv, Next
  PROVE  /\ outbox' \in [Intents -> Document]
         /\ \A i \in Intents : DocumentSteps(i)
<1>0. \A k \in Intents : outbox'[k] = outbox[k] => DocumentSteps(k)
  BY DEF DocumentSteps
<1>1. ASSUME NEW i \in Intents, Commit(i) \/ LeaseExpires(i)
      PROVE  /\ outbox' \in [Intents -> Document] /\ \A k \in Intents : DocumentSteps(k)
  <2> DEFINE d == IF Commit(i) THEN [outbox[i] EXCEPT !.state = "PENDING"] ELSE [outbox[i] EXCEPT !.live = FALSE]
  <2>1. outbox[i] \in Document
    BY DEF TypeInv
  <2>2. d \in Document
    BY <2>1 DEF Document, States
  <2>3. outbox' = [outbox EXCEPT ![i] = d]
    BY <1>1 DEF Commit, LeaseExpires
  <2>4. \/ outbox[i].state = "ABSENT" /\ d = [outbox[i] EXCEPT !.state = "PENDING"]
        \/ outbox[i].state = "CLAIMED" /\ d = [outbox[i] EXCEPT !.live = FALSE]
    BY <1>1 DEF Commit, LeaseExpires
  <2> HIDE DEF d
  <2>5. outbox' \in [Intents -> Document]
        /\ outbox'[i] = d /\ \A k \in Intents \ {i} : outbox'[k] = outbox[k]
    BY <2>2, <2>3, Put
  <2>6. DocumentSteps(i)
    BY <2>4, <2>5 DEF DocumentSteps
  <2> QED BY <2>5, <2>6, <1>0
<1>2. CASE UNCHANGED outbox
  BY <1>0, <1>2 DEF TypeInv
<1>3. ASSUME NEW j \in jobs, outbox' = Claimed(j), Claimable(j.intent)
      PROVE  /\ outbox' \in [Intents -> Document] /\ \A k \in Intents : DocumentSteps(k)
  <2>1. DocumentSteps(j.intent)
    BY <1>3, ClaimedType, JobFields DEF DocumentSteps
  <2> QED BY <1>0, <1>3, <2>1, ClaimedType
<1>4. ASSUME NEW i \in Intents, outbox[i].state = "CLAIMED", outbox' = Release(i)
      PROVE  /\ outbox' \in [Intents -> Document] /\ \A k \in Intents : DocumentSteps(k)
  <2>1. outbox'[i].state = "PENDING" /\ outbox'[i].holder = NoWorker
        /\ outbox'[i].epoch = outbox[i].epoch /\ ~outbox'[i].live
    <3>1. outbox'[i] = [state |-> "PENDING", holder |-> NoWorker, epoch |-> outbox[i].epoch, live |-> FALSE]
      BY <1>4, ReleaseType, Zenon
    <3> QED BY <3>1
  <2>2. DocumentSteps(i)
    BY <1>4, <2>1 DEF DocumentSteps
  <2> QED BY <1>0, <1>4, <2>2, ReleaseType
<1>5. ASSUME NEW j \in jobs, JobStep(j) \/ TimesOut(j)
      PROVE  /\ outbox' \in [Intents -> Document] /\ \A k \in Intents : DocumentSteps(k)
  <2>1. CASE Acquire(j) \/ TimesOut(j)
    BY <2>1, <1>2, <1>3 DEF Acquire, TimesOut
  <2>2. CASE Process(j) \/ Extend(j)
    BY <2>2, <1>2 DEF Process, Extend
  <2>3. CASE Resolve(j)
    <3> DEFINE d == [outbox[j.intent] EXCEPT !.state = "RESOLVED", !.holder = NoWorker, !.live = FALSE]
    <3>1. outbox[j.intent] \in Document
      BY JobFields DEF TypeInv
    <3>2. /\ d \in Document /\ d.state = "RESOLVED" /\ d.holder = NoWorker
          /\ d.epoch = outbox[j.intent].epoch /\ ~d.live
      BY <3>1 DEF Document, States
    <3>3. CASE outbox' = [outbox EXCEPT ![j.intent] = d] /\ Active(j)
      <4> HIDE DEF d
      <4>1. outbox' \in [Intents -> Document]
            /\ outbox'[j.intent] = d /\ \A k \in Intents \ {j.intent} : outbox'[k] = outbox[k]
        BY <3>2, <3>3, JobFields, Put
      <4>2. DocumentSteps(j.intent)
        BY <3>2, <3>3, <4>1 DEF DocumentSteps, Active
      <4> QED BY <1>0, <4>1, <4>2
    <3> QED BY <1>2, <2>3, <3>3 DEF Resolve
  <2>4. CASE Yield(j) \/ Abort(j)
    BY <2>4, <1>2, <1>4, JobFields DEF Yield, Abort, YieldEffect, Active
  <2> QED BY <1>5, <2>1, <2>2, <2>3, <2>4 DEF JobStep
<1>6. ASSUME NEW x \in expired, SweepUpdate(x)
      PROVE  /\ outbox' \in [Intents -> Document] /\ \A k \in Intents : DocumentSteps(k)
  <2>1. x.intent \in Intents
    BY DEF TypeInv
  <2>2. CASE outbox' = [outbox EXCEPT ![x.intent] = [@ EXCEPT !.state = "DEAD_LETTER", !.holder = NoWorker]]
             /\ outbox[x.intent].state = "CLAIMED" /\ ~outbox[x.intent].live
    <3> DEFINE d == [outbox[x.intent] EXCEPT !.state = "DEAD_LETTER", !.holder = NoWorker]
    <3>1. outbox[x.intent] \in Document
      BY <2>1 DEF TypeInv
    <3>2. /\ d \in Document /\ d.state = "DEAD_LETTER" /\ d.holder = NoWorker
          /\ d.epoch = outbox[x.intent].epoch /\ d.live = outbox[x.intent].live
      BY <3>1 DEF Document, States
    <3>4. outbox' = [outbox EXCEPT ![x.intent] = d]
      BY <2>2
    <3> HIDE DEF d
    <3>5. outbox' \in [Intents -> Document]
          /\ outbox'[x.intent] = d /\ \A k \in Intents \ {x.intent} : outbox'[k] = outbox[k]
      BY <2>1, <3>2, <3>4, Put
    <3>6. DocumentSteps(x.intent)
      BY <2>2, <3>2, <3>5 DEF DocumentSteps
    <3> QED BY <1>0, <3>5, <3>6
  <2> QED BY <1>2, <1>4, <1>6, <2>1, <2>2 DEF SweepUpdate
<1>7. ASSUME NEW w \in Workers,
             \/ \E resumed \in BOOLEAN : OpenStream(w, resumed)
             \/ OpenBacklog(w) \/ Resynchronize(w) \/ PollBacklog(w) \/ PollStream(w) \/ Crash(w)
      PROVE  UNCHANGED outbox
  BY <1>7 DEF OpenStream, OpenBacklog, Resynchronize, PollBacklog, PollStream, Crash
<1> QED BY <1>1, <1>2, <1>5, <1>6, <1>7 DEF Next, SweepFind

(* The feeds' variables keep their types.                                   *)
FeedType ==
  /\ feed \in [Workers -> {"closed", "streaming", "open"}]
  /\ backlog \in [Workers -> SUBSET KeySet] /\ seen \in [Workers -> SUBSET KeySet]
  /\ stream \in [Workers -> Seq(Event)]
  /\ checkpoint \in [Workers -> BOOLEAN] /\ resynced \in [Workers -> BOOLEAN]
JobsType ==
  /\ jobs \subseteq JobType
  /\ \A j \in jobs : j.step \in {"acquire", "process"} => j.tries < MaxReconciliations

LEMMA KeyType == TypeInv => \A i \in Intents : Key(i) \in KeySet
BY DEF TypeInv, Key, KeySet, Document

LEMMA DeliverTypes ==
  ASSUME TypeInv, NEW w \in Workers, NEW key \in KeySet, Deliver(w, key)
  PROVE  JobsType' /\ seen' \in [Workers -> SUBSET KeySet]
<1> DEFINE new == [worker |-> w, intent |-> key[1], epoch |-> 0, step |-> "acquire", tries |-> 0]
<1>1. new \in JobType /\ new.tries = 0 /\ 0 < MaxReconciliations
  BY BoundsAssumption DEF JobType, KeySet
<1>2. jobs' \subseteq jobs \cup {new}
  BY DEF Deliver
<1> HIDE DEF new
<1>3. JobsType'
  BY <1>1, <1>2 DEF TypeInv, JobsType
<1>4. seen' \in [Workers -> SUBSET KeySet]
  BY DEF TypeInv, Deliver
<1> QED BY <1>3, <1>4

LEMMA FeedTypes ==
  ASSUME TypeInv, NEW w \in Workers,
         \/ \E resumed \in BOOLEAN : OpenStream(w, resumed)
         \/ OpenBacklog(w) \/ Resynchronize(w) \/ PollBacklog(w) \/ PollStream(w) \/ Crash(w)
  PROVE  FeedType' /\ JobsType'
<1>1. ASSUME NEW resumed \in BOOLEAN, OpenStream(w, resumed) PROVE FeedType' /\ JobsType'
  BY <1>1 DEF OpenStream, TypeInv, FeedType, JobsType
<1>2. CASE OpenBacklog(w)
  <2>1. {Key(i) : i \in Pending} \subseteq KeySet
    BY KeyType DEF Pending
  <2> QED BY <1>2, <2>1 DEF OpenBacklog, TypeInv, FeedType, JobsType
<1>3. CASE Resynchronize(w)
  BY <1>3 DEF Resynchronize, TypeInv, FeedType, JobsType
<1>4. CASE PollBacklog(w)
  <2>1. PICK key \in backlog[w] : backlog' = [backlog EXCEPT ![w] = @ \ {key}] /\ Deliver(w, key)
    BY <1>4 DEF PollBacklog
  <2>2. key \in KeySet
    BY DEF TypeInv
  <2>3. JobsType' /\ seen' \in [Workers -> SUBSET KeySet]
    BY <2>1, <2>2, DeliverTypes
  <2> QED BY <1>4, <2>1, <2>3 DEF PollBacklog, TypeInv, FeedType
<1>5. CASE PollStream(w)
  <2> DEFINE event == Head(stream[w])
             key == IF event.kind = "insert" THEN <<event.intent, 0>> ELSE Key(event.intent)
  <2>1. stream[w] \in Seq(Event) /\ stream[w] # <<>>
    BY <1>5 DEF TypeInv, PollStream
  <2>2. event \in Event /\ Tail(stream[w]) \in Seq(Event)
    BY <2>1
  <2>3. event.intent \in Intents
    BY <2>2 DEF Event
  <2>4. key \in KeySet
    BY <2>3, KeyType DEF KeySet
  <2>5. stream' \in [Workers -> Seq(Event)]
    BY <1>5, <2>2 DEF PollStream, TypeInv
  <2>6. \/ Deliver(w, key) /\ checkpoint' = [checkpoint EXCEPT ![w] = TRUE]
        \/ UNCHANGED <<seen, jobs, checkpoint>>
    BY <1>5 DEF PollStream
  <2> HIDE DEF key
  <2>7. JobsType' /\ seen' \in [Workers -> SUBSET KeySet]
    BY <2>4, <2>6, DeliverTypes DEF TypeInv, JobsType
  <2>8. checkpoint' \in [Workers -> BOOLEAN]
    BY <2>6 DEF TypeInv
  <2>9. UNCHANGED <<feed, backlog, resynced>>
    BY <1>5 DEF PollStream
  <2> QED BY <2>5, <2>7, <2>8, <2>9 DEF FeedType, TypeInv
<1>6. CASE Crash(w)
  BY <1>6 DEF Crash, Stopped, TypeInv, FeedType, JobsType
<1> QED BY <1>1, <1>2, <1>3, <1>4, <1>5, <1>6

LEMMA JobTypes ==
  ASSUME TypeInv, NEW j \in jobs, JobStep(j) \/ TimesOut(j), outbox' \in [Intents -> Document]
  PROVE  JobsType' /\ stream' \in [Workers -> Seq(Event)]
<1>1. j \in JobType /\ j.intent \in Intents /\ (j.step = "process" => j.tries < MaxReconciliations)
  BY DEF TypeInv, JobType
<1>2. ASSUME NEW k \in JobType, Replace(j, k),
             k.step \in {"acquire", "process"} => k.tries < MaxReconciliations
      PROVE  JobsType'
  BY <1>2 DEF TypeInv, JobsType, Replace
<1>3. jobs' \subseteq jobs => JobsType'
  BY DEF TypeInv, JobsType
<1>4. CASE Acquire(j)
  <2>1. outbox'[j.intent].epoch \in Nat
    BY <1>1 DEF Document
  <2>2. [j EXCEPT !.step = "process", !.epoch = outbox'[j.intent].epoch] \in JobType
        /\ [j EXCEPT !.step = "process", !.epoch = outbox'[j.intent].epoch].tries = j.tries
    BY <1>1, <2>1 DEF JobType
  <2>3. j.tries < MaxReconciliations
    BY <1>4 DEF Acquire, TypeInv
  <2> QED BY <1>2, <1>3, <1>4, <2>2, <2>3 DEF Acquire, Finish, feedVars, TypeInv
<1>5. CASE Process(j)
  <2>1. \A s \in {"resolve", "yield", "abort"} :
          [j EXCEPT !.step = s] \in JobType /\ [j EXCEPT !.step = s].step = s
    BY <1>1 DEF JobType
  <2>2. j.tries + 1 \in 0 .. MaxReconciliations
    BY <1>1, <1>5, BoundsAssumption DEF Process, JobType
  <2>3. [j EXCEPT !.step = "extend", !.tries = @ + 1] \in JobType
        /\ [j EXCEPT !.step = "extend", !.tries = @ + 1].step = "extend"
    BY <1>1, <2>2 DEF JobType
  <2>4. \/ \E s \in {"resolve", "yield", "abort"} : Replace(j, [j EXCEPT !.step = s])
        \/ Replace(j, [j EXCEPT !.step = "extend", !.tries = @ + 1])
    BY <1>5 DEF Process
  <2>5. UNCHANGED stream
    BY <1>5 DEF Process, feedVars
  <2> QED BY <1>2, <2>1, <2>3, <2>4, <2>5 DEF TypeInv
<1>6. CASE Extend(j)
  <2> DEFINE k == [j EXCEPT !.step = IF j.tries < MaxReconciliations THEN "process" ELSE "yield"]
  <2>1. k \in JobType /\ (k.step \in {"acquire", "process"} => k.tries < MaxReconciliations)
    BY <1>1 DEF JobType
  <2>2. (Replace(j, k) \/ jobs' \subseteq jobs) /\ UNCHANGED stream
    BY <1>6 DEF Extend, Finish, feedVars
  <2> HIDE DEF k
  <2> QED BY <1>2, <1>3, <2>1, <2>2 DEF TypeInv
<1>7. CASE Resolve(j) \/ TimesOut(j)
  BY <1>3, <1>7 DEF Resolve, TimesOut, Finish, feedVars, TypeInv
<1>8. CASE Yield(j) \/ Abort(j)
  <2>1. stream' \in [Workers -> Seq(Event)]
    BY <1>1, <1>8, Emitted DEF Yield, Abort, YieldEffect, TypeInv
  <2>2. ASSUME NEW k \in jobs PROVE Drained(k) \in JobType /\ Drained(k).step # "process"
                                    /\ (Drained(k).step = "acquire" => k.step = "acquire" /\ Drained(k) = k)
    BY DEF TypeInv, JobType, Drained
  <2>3. \A k \in jobs' : k \in jobs \/ \E m \in jobs : k = Drained(m)
    BY <1>8 DEF Yield, Abort, Finish
  <2> QED BY <2>1, <2>2, <2>3 DEF TypeInv, JobsType
<1> QED BY <1>4, <1>5, <1>6, <1>7, <1>8 DEF JobStep

LEMMA NextTypes == TypeInv /\ [Next]_vars => TypeInv'
<1> SUFFICES ASSUME TypeInv, [Next]_vars PROVE TypeInv'
  OBVIOUS
<1>1. CASE UNCHANGED vars
  BY <1>1 DEF TypeInv, vars
<1>2. CASE Next
  <2>1. outbox' \in [Intents -> Document] /\ \A i \in Intents : DocumentSteps(i)
    BY <1>2, Documents
  <2>2. \A i \in Intents : /\ (outbox'[i].holder = NoWorker) <=> (outbox'[i].state # "CLAIMED")
                           /\ outbox'[i].live => outbox'[i].state = "CLAIMED"
    <3> SUFFICES ASSUME NEW i \in Intents
                 PROVE  /\ (outbox'[i].holder = NoWorker) <=> (outbox'[i].state # "CLAIMED")
                        /\ outbox'[i].live => outbox'[i].state = "CLAIMED"
      OBVIOUS
    <3>1. outbox[i] \in Document /\ ((outbox[i].holder = NoWorker) <=> (outbox[i].state # "CLAIMED"))
          /\ (outbox[i].live => outbox[i].state = "CLAIMED")
      BY DEF TypeInv
    <3>2. CASE outbox'[i] = outbox[i]
      BY <3>1, <3>2
    <3>3. CASE outbox[i].state = "ABSENT" /\ outbox'[i] = [outbox[i] EXCEPT !.state = "PENDING"]
      BY <3>1, <3>3 DEF Document
    <3>4. CASE outbox[i].state = "CLAIMED" /\ outbox'[i] = [outbox[i] EXCEPT !.live = FALSE]
      BY <3>1, <3>4 DEF Document
    <3>5. CASE \E w \in Workers : outbox'[i] = [state |-> "CLAIMED", holder |-> w,
                                                epoch |-> outbox[i].epoch + 1, live |-> TRUE]
      BY <3>5, BoundsAssumption
    <3> QED BY <2>1, <3>2, <3>3, <3>4, <3>5 DEF DocumentSteps
  <2>3. FeedType' /\ JobsType'
    <3>1. CASE UNCHANGED <<feed, backlog, stream, seen, checkpoint, resynced, jobs>>
      BY <3>1 DEF FeedType, JobsType, TypeInv
    <3>2. ASSUME NEW i \in Intents, Commit(i) \/ LeaseExpires(i) PROVE FeedType' /\ JobsType'
      BY <3>1, <3>2, Emitted DEF Commit, LeaseExpires, feedVars, FeedType, JobsType, TypeInv
    <3>3. ASSUME NEW j \in jobs, JobStep(j) \/ TimesOut(j) PROVE FeedType' /\ JobsType'
      <4>1. JobsType' /\ stream' \in [Workers -> Seq(Event)]
        BY <2>1, <3>3, JobTypes
      <4>2. \/ UNCHANGED <<feed, backlog, seen, checkpoint, resynced>>
            \/ Stopped(j.worker) /\ UNCHANGED <<checkpoint, resynced>>
        BY <3>3 DEF JobStep, Acquire, TimesOut, Process, Extend, Resolve, Yield, Abort, feedVars
      <4> QED BY <4>1, <4>2 DEF FeedType, TypeInv, Stopped
    <3>4. ASSUME NEW x \in expired, SweepUpdate(x) PROVE FeedType' /\ JobsType'
      <4>1. x.intent \in Intents
        BY DEF TypeInv
      <4> QED BY <3>4, <4>1, Emitted DEF SweepUpdate, FeedType, JobsType, TypeInv
    <3> QED BY <1>2, <3>1, <3>2, <3>3, <3>4, FeedTypes DEF Next, SweepFind, feedVars
  <2>4. timedOut' \subseteq Intents
    <3>1. timedOut' \subseteq timedOut \cup {j.intent : j \in jobs}
      BY <1>2 DEF Next, Commit, LeaseExpires, OpenStream, OpenBacklog, Resynchronize, PollBacklog, PollStream,
         Crash, JobStep, Acquire, TimesOut, Process, Extend, Resolve, Yield, Abort, SweepFind, SweepUpdate
    <3>2. \A j \in jobs : j.intent \in Intents
      BY JobFields
    <3> QED BY <3>1, <3>2 DEF TypeInv
  <2>5. expired' \subseteq [intent : Intents, holder : Workers, epoch : Nat]
    <3>1. CASE SweepFind
      <4>1. \A i \in Intents : outbox[i].state = "CLAIMED" => outbox[i].holder \in Workers
        BY DEF TypeInv, Document
      <4> QED BY <3>1, <4>1 DEF SweepFind, TypeInv, Document
    <3>2. expired' \subseteq expired \/ SweepFind
      BY <1>2 DEF Next, Commit, LeaseExpires, OpenStream, OpenBacklog, Resynchronize, PollBacklog, PollStream,
         Crash, JobStep, Acquire, TimesOut, Process, Extend, Resolve, Yield, Abort, SweepUpdate
    <3> QED BY <3>1, <3>2 DEF TypeInv
  <2> QED BY <2>1, <2>2, <2>3, <2>4, <2>5 DEF TypeInv, FeedType, JobsType
<1> QED BY <1>1, <1>2

LEMMA InvTypes == TypeInv => TypeOK
<1> SUFFICES ASSUME TypeInv PROVE TypeOK
  OBVIOUS
<1>1. \A w \in Workers : \A k \in DOMAIN stream[w] : stream[w][k] \in Event
  BY DEF TypeInv
<1>2. \A w \in Workers : \A key \in backlog[w] \cup seen[w] : key \in KeySet
  BY DEF TypeInv
<1> QED BY <1>1, <1>2 DEF TypeInv, TypeOK, Document, KeySet, Event

(* The collection, the feeds and the jobs stay within their types, and only *)
(* a claimed document has a holder and a live lease.                        *)
THEOREM TypeCorrect == Spec => []TypeOK
BY InitTypes, NextTypes, InvTypes, PTL DEF Spec

-----------------------------------------------------------------------------
(***************************************************************************)
(* No feed forgets a pending intent.  The argument is about keys: a key a   *)
(* feed has returned or will return is of an epoch that is past, or of the  *)
(* current one of an intent that is not claimed.  So the key under which an *)
(* intent becomes PENDING again is new to every feed, and the event of that *)
(* update is news; and a feed that has returned the current key of a        *)
(* pending intent has a job that is about to acquire it.                    *)
(***************************************************************************)
Acquiring(w, i) == \E j \in jobs : j.worker = w /\ j.intent = i /\ j.step = "acquire"

Past(key) ==
  /\ key[2] <= outbox[key[1]].epoch
  /\ key[2] = outbox[key[1]].epoch => outbox[key[1]].state \notin {"ABSENT", "CLAIMED"}

KeysPast == \A w \in Workers : \A key \in seen[w] \cup backlog[w] : Past(key)

EpochFits ==
  \A i \in Intents : /\ outbox[i].state = "ABSENT" => outbox[i].epoch = 0
                     /\ outbox[i].state = "CLAIMED" => outbox[i].epoch > 0

EventsCommitted ==
  \A w \in Workers : \A k \in DOMAIN stream[w] : outbox[stream[w][k].intent].state # "ABSENT"

ClosedForgets == \A w \in Workers : feed[w] = "closed" => seen[w] = {} /\ backlog[w] = {}

(* Worker w will acquire i, or its feed will return it.                     *)
Reached(w, i) ==
  /\ feed[w] # "closed" /\ Key(i) \in seen[w] => Acquiring(w, i)
  /\ feed[w] = "open" => Announced(w, i) \/ Acquiring(w, i)

AllReached == \A w \in Workers, i \in Intents : i \in Pending \ timedOut => Reached(w, i)

DeliveryInv == KeysPast /\ EpochFits /\ EventsCommitted /\ ClosedForgets /\ AllReached

LEMMA EpochStep ==
  ASSUME TypeInv, EpochFits, NEW i \in Intents, DocumentSteps(i), outbox' \in [Intents -> Document]
  PROVE  /\ outbox'[i].state = "ABSENT" => outbox'[i].epoch = 0
         /\ outbox'[i].state = "CLAIMED" => outbox'[i].epoch > 0
         /\ outbox[i].state # "ABSENT" => outbox'[i].state # "ABSENT"
         /\ outbox'[i].epoch >= outbox[i].epoch
         /\ outbox'[i].epoch = outbox[i].epoch /\ outbox[i].state \notin {"ABSENT", "CLAIMED"} =>
              outbox'[i].state \notin {"ABSENT", "CLAIMED"}
<1>1. outbox[i] \in Document /\ outbox[i].epoch \in Nat
  BY DEF TypeInv, Document
<1>2. CASE outbox'[i] = outbox[i]
  BY <1>1, <1>2 DEF EpochFits
<1>3. CASE outbox[i].state = "ABSENT" /\ outbox'[i] = [outbox[i] EXCEPT !.state = "PENDING"]
  <2>1. outbox'[i].state = "PENDING" /\ outbox'[i].epoch = outbox[i].epoch
    BY <1>1, <1>3 DEF Document
  <2> QED BY <1>1, <1>3, <2>1
<1>4. CASE outbox[i].state = "CLAIMED" /\ outbox'[i] = [outbox[i] EXCEPT !.live = FALSE]
  <2>1. outbox'[i].state = "CLAIMED" /\ outbox'[i].epoch = outbox[i].epoch
    BY <1>1, <1>4 DEF Document
  <2> QED BY <1>1, <1>4, <2>1 DEF EpochFits
<1>5. CASE \E w \in Workers : outbox'[i] = [state |-> "CLAIMED", holder |-> w,
                                            epoch |-> outbox[i].epoch + 1, live |-> TRUE]
  <2>1. outbox'[i].state = "CLAIMED" /\ outbox'[i].epoch = outbox[i].epoch + 1
    BY <1>5
  <2> QED BY <1>1, <2>1
<1>6. CASE /\ outbox[i].state = "CLAIMED"
           /\ outbox'[i].state \in {"PENDING", "RESOLVED", "DEAD_LETTER"}
           /\ outbox'[i].epoch = outbox[i].epoch
  BY <1>1, <1>6
<1> QED BY <1>2, <1>3, <1>4, <1>5, <1>6 DEF DocumentSteps

LEMMA PastStep ==
  ASSUME TypeInv, EpochFits, outbox' \in [Intents -> Document], \A i \in Intents : DocumentSteps(i),
         NEW key \in KeySet, Past(key)
  PROVE  Past(key)'
<1>1. key[1] \in Intents /\ key[2] \in Nat
  BY DEF KeySet
<1>2. DocumentSteps(key[1])
  BY <1>1
<1>3. /\ outbox'[key[1]].epoch >= outbox[key[1]].epoch
      /\ outbox'[key[1]].epoch = outbox[key[1]].epoch /\ outbox[key[1]].state \notin {"ABSENT", "CLAIMED"} =>
           outbox'[key[1]].state \notin {"ABSENT", "CLAIMED"}
  BY <1>1, <1>2, EpochStep
<1>4. outbox[key[1]].epoch \in Nat /\ outbox'[key[1]].epoch \in Nat
  BY <1>1 DEF TypeInv, Document
<1> QED BY <1>1, <1>3, <1>4 DEF Past

(* A key or an event the feeds gain: of an intent's current state.          *)
LEMMA DeliveredKeys ==
  ASSUME TypeInv, NEW w \in Workers, NEW key \in KeySet, Deliver(w, key)
  PROVE  /\ seen'[w] = seen[w] \cup {key} /\ \A x \in Workers \ {w} : seen'[x] = seen[x]
         /\ \A x \in Workers, i \in Intents : Acquiring(x, i) => Acquiring(x, i)'
         /\ key \notin seen[w] => Acquiring(w, key[1])'
<1>1. seen' = [seen EXCEPT ![w] = @ \cup {key}]
  BY DEF Deliver
<1> DEFINE new == [worker |-> w, intent |-> key[1], epoch |-> 0, step |-> "acquire", tries |-> 0]
<1>2. new.worker = w /\ new.intent = key[1] /\ new.step = "acquire"
  OBVIOUS
<1>3. jobs \subseteq jobs' /\ (key \notin seen[w] => new \in jobs')
  BY DEF Deliver
<1> HIDE DEF new
<1>4. \A x \in Workers, i \in Intents : Acquiring(x, i) => Acquiring(x, i)'
  BY <1>3 DEF Acquiring
<1>5. key \notin seen[w] => Acquiring(w, key[1])'
  BY <1>2, <1>3 DEF Acquiring
<1> QED BY <1>1, <1>4, <1>5 DEF TypeInv

(* The event PollStream reads, and what it makes of it.                     *)
LEMMA Polled ==
  ASSUME TypeInv, NEW w \in Workers, PollStream(w)
  PROVE  /\ stream[w] \in Seq(Event) /\ stream[w] # <<>> /\ Head(stream[w]) \in Event
         /\ Head(stream[w]).intent \in Intents
         /\ stream'[w] = Tail(stream[w]) /\ \A x \in Workers \ {w} : stream'[x] = stream[x]
         /\ UNCHANGED <<outbox, feed, backlog, timedOut>>
<1>1. stream[w] \in Seq(Event) /\ stream[w] # <<>>
  BY DEF TypeInv, PollStream
<1>2. Head(stream[w]) \in Event
  BY <1>1
<1>3. Head(stream[w]).intent \in Intents
  BY <1>2 DEF Event
<1>4. stream' = [stream EXCEPT ![w] = Tail(@)] /\ UNCHANGED <<outbox, feed, backlog, timedOut>>
  BY DEF PollStream
<1>5. stream'[w] = Tail(stream[w]) /\ \A x \in Workers \ {w} : stream'[x] = stream[x]
  BY <1>4 DEF TypeInv
<1> QED BY <1>1, <1>2, <1>3, <1>4, <1>5

LEMMA EventKey ==
  ASSUME TypeInv, EpochFits, EventsCommitted, NEW w \in Workers, stream[w] \in Seq(Event), stream[w] # <<>>,
         NEW event, event = Head(stream[w]), event.intent \in Intents,
         event.kind = "insert" \/ outbox[event.intent].state = "PENDING",
         NEW key, key = IF event.kind = "insert" THEN <<event.intent, 0>> ELSE Key(event.intent)
  PROVE  key \in KeySet /\ key[1] = event.intent /\ Past(key)
<1>1. 1 \in DOMAIN stream[w] /\ stream[w][1] = event
  OBVIOUS
<1>2. outbox[event.intent].state # "ABSENT"
  BY <1>1 DEF EventsCommitted
<1>3. outbox[event.intent].epoch \in Nat /\ (outbox[event.intent].state = "CLAIMED" => outbox[event.intent].epoch > 0)
  BY DEF TypeInv, Document, EpochFits
<1>4. CASE event.kind = "insert"
  <2>1. key = <<event.intent, 0>>
    BY <1>4
  <2> QED BY <2>1, <1>2, <1>3 DEF KeySet, Past
<1>5. CASE event.kind # "insert"
  <2>1. key = <<event.intent, outbox[event.intent].epoch>> /\ outbox[event.intent].state = "PENDING"
    BY <1>5 DEF Key
  <2> QED BY <2>1, <1>3 DEF KeySet, Past
<1> QED BY <1>4, <1>5

(* A job's step leaves what the feeds hold alone, or ends its worker; it    *)
(* may emit one event, of an intent it releases.                            *)
LEMMA JobFrame ==
  ASSUME TypeInv, NEW j \in jobs, JobStep(j) \/ TimesOut(j)
  PROVE  /\ \/ UNCHANGED <<feed, backlog, seen>>
            \/ Stopped(j.worker)
         /\ timedOut \subseteq timedOut'
         /\ \/ UNCHANGED stream
            \/ /\ outbox[j.intent].state = "CLAIMED" /\ outbox' = Release(j.intent)
               /\ Emit(j.intent, "update")
<1>1. CASE TimesOut(j)
  BY <1>1 DEF TimesOut, feedVars
<1>2. CASE Acquire(j) \/ Process(j) \/ Extend(j) \/ Resolve(j)
  BY <1>2 DEF Acquire, Process, Extend, Resolve, feedVars
<1>3. CASE Yield(j)
  BY <1>3 DEF Yield, YieldEffect, Active
<1>4. CASE Abort(j)
  BY <1>4 DEF Abort, YieldEffect, Active
<1> QED BY <1>1, <1>2, <1>3, <1>4 DEF JobStep

LEMMA SweepFrame ==
  ASSUME TypeInv, NEW x \in expired, SweepUpdate(x)
  PROVE  /\ UNCHANGED <<feed, backlog, seen, jobs, timedOut>> /\ x.intent \in Intents
         /\ \/ UNCHANGED stream
            \/ /\ outbox[x.intent].state = "CLAIMED" /\ outbox' = Release(x.intent)
               /\ Emit(x.intent, "update")
<1>1. x.intent \in Intents
  BY DEF TypeInv
<1> QED BY <1>1 DEF SweepUpdate

(* The keys after a step: those there were, and some of the current state.  *)
LEMMA KeysStep ==
  ASSUME TypeInv, DeliveryInv, Next, NEW w \in Workers, NEW key \in seen'[w] \cup backlog'[w]
  PROVE  \/ key \in seen[w] \cup backlog[w]
         \/ key \in KeySet /\ Past(key) /\ UNCHANGED outbox
<1>1. CASE UNCHANGED <<seen, backlog>>
  BY <1>1
<1>2. ASSUME NEW j \in jobs, JobStep(j) \/ TimesOut(j)
      PROVE  key \in seen[w] \cup backlog[w]
  BY <1>2, JobFrame, JobFields DEF Stopped, TypeInv
<1>3. ASSUME NEW v \in Workers, OpenBacklog(v)
      PROVE  \/ key \in seen[w] \cup backlog[w]
             \/ key \in KeySet /\ Past(key) /\ UNCHANGED outbox
  <2>1. \A i \in Pending : Key(i) \in KeySet /\ Past(Key(i))
    BY DEF Pending, Key, KeySet, Past, TypeInv, Document
  <2>2. UNCHANGED <<outbox, seen>> /\ backlog' = [backlog EXCEPT ![v] = {Key(i) : i \in Pending}]
    BY <1>3 DEF OpenBacklog
  <2>3. key \in seen[w] \cup backlog[w] \/ \E i \in Pending : key = Key(i)
    BY <2>2 DEF TypeInv
  <2> QED BY <2>1, <2>2, <2>3
<1>4. ASSUME NEW v \in Workers, PollBacklog(v)
      PROVE  key \in seen[w] \cup backlog[w]
  BY <1>4 DEF PollBacklog, Deliver, TypeInv
<1>5. ASSUME NEW v \in Workers, PollStream(v)
      PROVE  \/ key \in seen[w] \cup backlog[w]
             \/ key \in KeySet /\ Past(key) /\ UNCHANGED outbox
  <2> DEFINE event == Head(stream[v])
             new == IF event.kind = "insert" THEN <<event.intent, 0>> ELSE Key(event.intent)
  <2>1. CASE UNCHANGED seen
    BY <2>1, <1>5, Polled
  <2>2. CASE (event.kind = "insert" \/ outbox[event.intent].state = "PENDING") /\ Deliver(v, new)
    <3>1. new \in KeySet /\ Past(new)
      BY <1>5, <2>2, Polled, EventKey DEF DeliveryInv
    <3>2. seen' = [seen EXCEPT ![v] = @ \cup {new}]
      BY <2>2 DEF Deliver
    <3> HIDE DEF new
    <3>3. key \in seen[w] \cup backlog[w] \/ key = new
      BY <1>5, <3>2, Polled DEF TypeInv
    <3> QED BY <1>5, <3>1, <3>3, Polled
  <2> QED BY <1>5, <2>1, <2>2 DEF PollStream
<1>6. ASSUME NEW v \in Workers, Resynchronize(v) \/ Crash(v)
      PROVE  key \in seen[w] \cup backlog[w]
  BY <1>6 DEF Resynchronize, Crash, Stopped, TypeInv
<1>7. ASSUME NEW x \in expired, SweepUpdate(x)
      PROVE  key \in seen[w] \cup backlog[w]
  BY <1>1, <1>7 DEF SweepUpdate
<1> QED BY <1>1, <1>2, <1>3, <1>4, <1>5, <1>6, <1>7
        DEF Next, Commit, LeaseExpires, SweepFind, OpenStream, feedVars

LEMMA KeysPastStep ==
  ASSUME TypeInv, DeliveryInv, Next
  PROVE  KeysPast' /\ EpochFits'
<1>1. outbox' \in [Intents -> Document] /\ \A i \in Intents : DocumentSteps(i)
  BY Documents
<1>2. EpochFits'
  BY <1>1, EpochStep DEF EpochFits, DeliveryInv
<1>3. ASSUME NEW w \in Workers, NEW key \in seen'[w] \cup backlog'[w]
      PROVE  Past(key)'
  <2>1. CASE key \in seen[w] \cup backlog[w]
    <3>1. key \in KeySet /\ Past(key)
      BY <2>1 DEF TypeInv, DeliveryInv, KeysPast
    <3> QED BY <1>1, <3>1, PastStep DEF DeliveryInv
  <2>2. CASE key \in KeySet /\ Past(key) /\ UNCHANGED outbox
    BY <2>2 DEF Past
  <2> QED BY <2>1, <2>2, KeysStep
<1> QED BY <1>2, <1>3 DEF KeysPast

(* Where the events of a stream come from.                                  *)
LEMMA EmittedEvents ==
  ASSUME TypeInv, NEW i \in Intents, NEW kind \in {"insert", "update"}, Emit(i, kind), NEW w \in Workers
  PROVE  /\ \A k \in DOMAIN stream'[w] :
              \/ k \in DOMAIN stream[w] /\ stream'[w][k] = stream[w][k]
              \/ stream'[w][k] = [intent |-> i, kind |-> kind]
         /\ \A k \in DOMAIN stream[w] : k \in DOMAIN stream'[w] /\ stream'[w][k] = stream[w][k]
         /\ feed[w] # "closed" => \E k \in DOMAIN stream'[w] : stream'[w][k] = [intent |-> i, kind |-> kind]
<1> DEFINE e == [intent |-> i, kind |-> kind]
<1>1. stream'[w] \in {stream[w], Append(stream[w], e)} /\ (feed[w] # "closed" => stream'[w] = Append(stream[w], e))
  BY Emitted
<1>2. stream[w] \in Seq(Event) /\ e \in Event
  BY DEF TypeInv, Event
<1> HIDE DEF e
<1>3. /\ \A k \in DOMAIN Append(stream[w], e) :
           \/ k \in DOMAIN stream[w] /\ Append(stream[w], e)[k] = stream[w][k]
           \/ Append(stream[w], e)[k] = e
      /\ \A k \in DOMAIN stream[w] :
           k \in DOMAIN Append(stream[w], e) /\ Append(stream[w], e)[k] = stream[w][k]
      /\ \E k \in DOMAIN Append(stream[w], e) : Append(stream[w], e)[k] = e
  <2>1. Len(stream[w]) + 1 \in DOMAIN Append(stream[w], e) /\ Append(stream[w], e)[Len(stream[w]) + 1] = e
    BY <1>2
  <2> QED BY <1>2, <2>1
<1>4. \A k \in DOMAIN stream'[w] : \/ k \in DOMAIN stream[w] /\ stream'[w][k] = stream[w][k]
                                   \/ stream'[w][k] = e
  BY <1>1, <1>3
<1>5. \A k \in DOMAIN stream[w] : k \in DOMAIN stream'[w] /\ stream'[w][k] = stream[w][k]
  BY <1>1, <1>3
<1>6. feed[w] # "closed" => \E k \in DOMAIN stream'[w] : stream'[w][k] = e
  BY <1>1, <1>3
<1> QED BY <1>4, <1>5, <1>6 DEF e

LEMMA TailEvents ==
  ASSUME NEW s \in Seq(Event), s # <<>>
  PROVE  /\ \A k \in DOMAIN Tail(s) : k + 1 \in DOMAIN s /\ Tail(s)[k] = s[k + 1]
         /\ \A k \in DOMAIN s : s[k] = Head(s) \/ (k - 1 \in DOMAIN Tail(s) /\ Tail(s)[k - 1] = s[k])
<1>1. Len(Tail(s)) = Len(s) - 1 /\ Tail(s) \in Seq(Event) /\ Len(s) > 0
  OBVIOUS
<1>2. \A k \in 1 .. Len(Tail(s)) : Tail(s)[k] = s[k + 1]
  BY <1>1
<1>3. Head(s) = s[1]
  OBVIOUS
<1> QED BY <1>1, <1>2, <1>3

LEMMA EventsStep ==
  ASSUME TypeInv, DeliveryInv, Next
  PROVE  EventsCommitted'
<1>1. outbox' \in [Intents -> Document] /\ \A i \in Intents : DocumentSteps(i)
  BY Documents
<1>2. \A i \in Intents : outbox[i].state # "ABSENT" => outbox'[i].state # "ABSENT"
  BY <1>1, EpochStep DEF DeliveryInv
<1> SUFFICES ASSUME NEW w \in Workers, NEW k \in DOMAIN stream'[w]
             PROVE  outbox'[stream'[w][k].intent].state # "ABSENT"
  BY DEF EventsCommitted
<1>3. \A m \in DOMAIN stream[w] : stream[w][m].intent \in Intents /\ outbox[stream[w][m].intent].state # "ABSENT"
  <2>1. \A m \in DOMAIN stream[w] : stream[w][m] \in Event
    BY DEF TypeInv
  <2> QED BY <2>1 DEF Event, DeliveryInv, EventsCommitted
<1>4. (\E m \in DOMAIN stream[w] : stream'[w][k] = stream[w][m]) => outbox'[stream'[w][k].intent].state # "ABSENT"
  BY <1>2, <1>3
<1>5. CASE UNCHANGED stream
  BY <1>4, <1>5
<1>6. ASSUME NEW i \in Intents, NEW kind \in {"insert", "update"}, Emit(i, kind), outbox'[i].state # "ABSENT"
      PROVE  outbox'[stream'[w][k].intent].state # "ABSENT"
  <2>1. \/ k \in DOMAIN stream[w] /\ stream'[w][k] = stream[w][k]
        \/ stream'[w][k] = [intent |-> i, kind |-> kind]
    BY <1>6, EmittedEvents
  <2> QED BY <1>4, <1>6, <2>1
<1>7. ASSUME NEW i \in Intents, Emit(i, "update"), outbox' = Release(i)
      PROVE  outbox'[stream'[w][k].intent].state # "ABSENT"
  <2>1. outbox'[i] = [state |-> "PENDING", holder |-> NoWorker, epoch |-> outbox[i].epoch, live |-> FALSE]
    BY <1>7, ReleaseType, Zenon
  <2>2. outbox'[i].state = "PENDING"
    BY <2>1
  <2> QED BY <1>6, <1>7, <2>2
<1>8. ASSUME NEW i \in Intents, Commit(i)
      PROVE  outbox'[stream'[w][k].intent].state # "ABSENT"
  <2>1. outbox'[i].state = "PENDING"
    BY <1>8 DEF Commit, TypeInv, Document
  <2> QED BY <1>6, <1>8, <2>1 DEF Commit
<1>9. ASSUME NEW v \in Workers, stream' = [stream EXCEPT ![v] = <<>>]
      PROVE  outbox'[stream'[w][k].intent].state # "ABSENT"
  BY <1>4, <1>9 DEF TypeInv
<1>10. ASSUME NEW v \in Workers, PollStream(v)
       PROVE  outbox'[stream'[w][k].intent].state # "ABSENT"
  <2>1. CASE v = w
    <3>1. stream'[w] = Tail(stream[w]) /\ stream[w] \in Seq(Event) /\ stream[w] # <<>>
      BY <1>10, <2>1, Polled
    <3> QED BY <1>4, <3>1, TailEvents
  <2>2. CASE v # w
    BY <1>4, <1>10, <2>2, Polled
  <2> QED BY <2>1, <2>2
<1>11. ASSUME NEW v \in Workers,
             \/ \E resumed \in BOOLEAN : OpenStream(v, resumed)
             \/ OpenBacklog(v) \/ Resynchronize(v) \/ PollBacklog(v) \/ Crash(v)
      PROVE  UNCHANGED stream \/ stream' = [stream EXCEPT ![v] = <<>>]
  BY <1>11 DEF OpenStream, OpenBacklog, Resynchronize, PollBacklog, Crash
<1>12. ASSUME NEW j \in jobs, JobStep(j) \/ TimesOut(j)
       PROVE  outbox'[stream'[w][k].intent].state # "ABSENT"
  BY <1>5, <1>7, <1>12, JobFrame, JobFields
<1>13. ASSUME NEW x \in expired, SweepUpdate(x)
       PROVE  outbox'[stream'[w][k].intent].state # "ABSENT"
  BY <1>5, <1>7, <1>13, SweepFrame
<1>14. CASE SweepFind \/ \E i \in Intents : LeaseExpires(i)
  BY <1>5, <1>14 DEF SweepFind, LeaseExpires, feedVars
<1> QED BY <1>5, <1>8, <1>9, <1>10, <1>11, <1>12, <1>13, <1>14 DEF Next

LEMMA ClosedStep ==
  ASSUME TypeInv, DeliveryInv, Next
  PROVE  ClosedForgets'
<1> USE DEF ClosedForgets, DeliveryInv, TypeInv
<1>1. CASE UNCHANGED <<feed, seen, backlog>>
  BY <1>1
<1>2. ASSUME NEW j \in jobs, JobStep(j) \/ TimesOut(j) PROVE ClosedForgets'
  BY <1>2, JobFrame, JobFields DEF Stopped
<1>3. ASSUME NEW v \in Workers,
             \/ \E resumed \in BOOLEAN : OpenStream(v, resumed)
             \/ OpenBacklog(v) \/ Resynchronize(v)
      PROVE  ClosedForgets'
  BY <1>3 DEF OpenStream, OpenBacklog, Resynchronize
<1>4. ASSUME NEW v \in Workers, PollBacklog(v) \/ PollStream(v) PROVE ClosedForgets'
  BY <1>4 DEF PollBacklog, PollStream, CanPoll, Deliver
<1>5. ASSUME NEW v \in Workers, Crash(v) PROVE ClosedForgets'
  BY <1>5 DEF Crash, Stopped
<1> QED BY <1>1, <1>2, <1>3, <1>4, <1>5 DEF Next, Commit, LeaseExpires, SweepFind, SweepUpdate, feedVars

-----------------------------------------------------------------------------
(* What worker w has of intent i survives a step that leaves the intent and *)
(* the feed of w alone and loses neither an event nor an acquisition.       *)
LEMMA Untouched ==
  ASSUME NEW w \in Workers, NEW i \in Intents, Reached(w, i),
         outbox'[i] = outbox[i], feed'[w] = feed[w], seen'[w] = seen[w], backlog'[w] = backlog[w],
         \A k \in DOMAIN stream[w] :
           \E m \in DOMAIN stream'[w] : stream'[w][m] = stream[w][k],
         Acquiring(w, i) => Acquiring(w, i)'
  PROVE  Reached(w, i)'
<1>1. Key(i)' = Key(i)
  BY DEF Key
<1>2. Announced(w, i) => Announced(w, i)'
  BY <1>1 DEF Announced
<1> QED BY <1>1, <1>2 DEF Reached

(* An intent that has just become PENDING: its key is new to the feed, and  *)
(* its event is in the stream.                                              *)
LEMMA News ==
  ASSUME NEW w \in Workers, NEW i \in Intents, TypeInv, KeysPast, NEW kind \in {"insert", "update"},
         outbox[i].state \in {"ABSENT", "CLAIMED"}, outbox'[i].epoch = outbox[i].epoch,
         kind = "insert" => outbox[i].epoch = 0,
         Emit(i, kind), feed'[w] = feed[w], seen'[w] = seen[w]
  PROVE  Reached(w, i)'
<1>1. Key(i)' = Key(i) /\ Key(i) = <<i, outbox[i].epoch>>
  BY DEF Key
<1>2. ~Past(Key(i))
  BY <1>1 DEF Past
<1>3. Key(i) \notin seen[w]
  BY <1>2 DEF KeysPast
<1>4. feed[w] # "closed" => \E k \in DOMAIN stream'[w] : stream'[w][k] = [intent |-> i, kind |-> kind]
  BY EmittedEvents
<1>5. feed[w] # "closed" => Announced(w, i)'
  BY <1>1, <1>3, <1>4 DEF Announced
<1> QED BY <1>1, <1>3, <1>5 DEF Reached

LEMMA ReachedByFeed ==
  ASSUME TypeInv, DeliveryInv, NEW v \in Workers, NEW w \in Workers, NEW i \in Pending \ timedOut,
         \/ \E resumed \in BOOLEAN : OpenStream(v, resumed)
         \/ OpenBacklog(v) \/ Resynchronize(v) \/ Crash(v)
  PROVE  Reached(w, i)'
<1>1. Reached(w, i) /\ i \in Intents
  BY DEF DeliveryInv, AllReached, Pending
<1>2. UNCHANGED outbox
  BY DEF OpenStream, OpenBacklog, Resynchronize, Crash
<1>3. Key(i)' = Key(i)
  BY <1>2 DEF Key
<1>4. CASE w # v
  <2>1. feed'[w] = feed[w] /\ seen'[w] = seen[w] /\ backlog'[w] = backlog[w] /\ stream'[w] = stream[w]
    BY <1>4 DEF OpenStream, OpenBacklog, Resynchronize, Crash, Stopped, TypeInv
  <2>2. Acquiring(w, i) => Acquiring(w, i)'
    BY <1>4 DEF OpenStream, OpenBacklog, Resynchronize, Crash, Acquiring
  <2> QED BY <1>1, <1>2, <2>1, <2>2, Untouched
<1>5. CASE w = v /\ \E resumed \in BOOLEAN : OpenStream(v, resumed)
  <2>1. feed'[w] = "streaming" /\ seen'[w] = {}
    BY <1>5 DEF OpenStream, TypeInv, DeliveryInv, ClosedForgets
  <2> QED BY <2>1 DEF Reached
<1>6. CASE w = v /\ OpenBacklog(v)
  <2>1. feed[w] = "streaming" /\ seen'[w] = seen[w] /\ Key(i) \in backlog'[w] /\ jobs' = jobs
    BY <1>6 DEF OpenBacklog, TypeInv
  <2>2. Acquiring(w, i) => Acquiring(w, i)'
    BY <2>1 DEF Acquiring
  <2> QED BY <1>1, <1>3, <2>1, <2>2 DEF Reached, Announced
<1>7. CASE w = v /\ Resynchronize(v)
  <2>1. feed[w] = "open" /\ feed'[w] = "streaming" /\ seen'[w] = seen[w] /\ jobs' = jobs
    BY <1>7 DEF Resynchronize, TypeInv
  <2> QED BY <1>1, <1>3, <2>1 DEF Reached, Acquiring
<1>8. CASE w = v /\ Crash(v)
  <2>1. feed'[w] = "closed"
    BY <1>8 DEF Crash, Stopped, TypeInv
  <2> QED BY <2>1 DEF Reached
<1> QED BY <1>4, <1>5, <1>6, <1>7, <1>8

LEMMA ReachedByBacklog ==
  ASSUME TypeInv, DeliveryInv, NEW v \in Workers, NEW w \in Workers, NEW i \in Pending \ timedOut,
         PollBacklog(v)
  PROVE  Reached(w, i)'
<1>1. Reached(w, i) /\ i \in Intents
  BY DEF DeliveryInv, AllReached, Pending
<1>2. UNCHANGED <<outbox, feed, stream>>
  BY DEF PollBacklog
<1>3. Key(i)' = Key(i) /\ Key(i) = <<i, outbox[i].epoch>>
  BY <1>2 DEF Key
<1>4. PICK key \in backlog[v] : backlog' = [backlog EXCEPT ![v] = @ \ {key}] /\ Deliver(v, key)
  BY DEF PollBacklog
<1>5. key \in KeySet
  BY DEF TypeInv
<1>6. /\ seen'[v] = seen[v] \cup {key} /\ \A x \in Workers \ {v} : seen'[x] = seen[x]
      /\ \A x \in Workers, k \in Intents : Acquiring(x, k) => Acquiring(x, k)'
      /\ key \notin seen[v] => Acquiring(v, key[1])'
  BY <1>4, <1>5, DeliveredKeys
<1>7. CASE w # v
  <2>1. backlog'[w] = backlog[w]
    BY <1>4, <1>7 DEF TypeInv
  <2> QED BY <1>1, <1>2, <1>6, <1>7, <2>1, Untouched
<1>8. CASE w = v /\ key = Key(i)
  <2>1. Acquiring(w, i)'
    BY <1>1, <1>3, <1>6, <1>8 DEF Reached, DeliveryInv, ClosedForgets
  <2> QED BY <2>1 DEF Reached
<1>9. CASE w = v /\ key # Key(i)
  <2>1. Key(i) \in backlog[w] => Key(i) \in backlog'[w]
    BY <1>4, <1>9 DEF TypeInv
  <2>2. Key(i) \in seen'[w] <=> Key(i) \in seen[w]
    BY <1>6, <1>9
  <2>3. Announced(w, i) => Announced(w, i)'
    BY <1>2, <1>3, <2>1, <2>2 DEF Announced
  <2> QED BY <1>1, <1>2, <1>3, <1>6, <2>2, <2>3 DEF Reached
<1> QED BY <1>7, <1>8, <1>9

LEMMA ReachedByStream ==
  ASSUME TypeInv, DeliveryInv, NEW v \in Workers, NEW w \in Workers, NEW i \in Pending \ timedOut,
         PollStream(v)
  PROVE  Reached(w, i)'
<1>1. Reached(w, i) /\ i \in Intents /\ outbox[i].state = "PENDING"
  BY DEF DeliveryInv, AllReached, Pending
<1>2. /\ stream[v] \in Seq(Event) /\ stream[v] # <<>> /\ Head(stream[v]) \in Event
      /\ Head(stream[v]).intent \in Intents
      /\ stream'[v] = Tail(stream[v]) /\ \A x \in Workers \ {v} : stream'[x] = stream[x]
      /\ UNCHANGED <<outbox, feed, backlog, timedOut>>
  BY Polled
<1>3. Key(i)' = Key(i) /\ Key(i) = <<i, outbox[i].epoch>>
  BY <1>2 DEF Key
<1>4. feed[v] = "open"
  BY DEF PollStream, CanPoll
<1> DEFINE event == Head(stream[v])
           new == IF event.kind = "insert" THEN <<event.intent, 0>> ELSE Key(event.intent)
<1>5. ASSUME NEW k \in DOMAIN stream[v]
      PROVE  stream[v][k] = event \/ \E m \in DOMAIN stream'[v] : stream'[v][m] = stream[v][k]
  <2>1. stream[v][k] = Head(stream[v])
        \/ (k - 1 \in DOMAIN Tail(stream[v]) /\ Tail(stream[v])[k - 1] = stream[v][k])
    BY <1>2, TailEvents
  <2> QED BY <1>2, <2>1
<1>6. CASE /\ event.kind # "insert" /\ outbox[event.intent].state # "PENDING"
           /\ UNCHANGED <<seen, jobs>>
  <2>1. Acquiring(w, i) => Acquiring(w, i)'
    BY <1>6 DEF Acquiring
  <2>2. Announced(w, i) => Announced(w, i)'
    <3>1. CASE w # v
      BY <1>2, <1>3, <1>6, <3>1 DEF Announced
    <3>2. CASE w = v
      <4>1. \A k \in DOMAIN stream[w] :
              stream[w][k].intent = i => \E m \in DOMAIN stream'[w] : stream'[w][m] = stream[w][k]
        BY <1>1, <1>5, <1>6, <3>2
      <4> QED BY <1>2, <1>3, <1>6, <4>1 DEF Announced
    <3> QED BY <3>1, <3>2
  <2> QED BY <1>1, <1>2, <1>3, <1>6, <2>1, <2>2 DEF Reached
<1>7. CASE (event.kind = "insert" \/ outbox[event.intent].state = "PENDING") /\ Deliver(v, new)
  <2>0. PICK key : key = new
    OBVIOUS
  <2>1. key \in KeySet /\ key[1] = event.intent
    BY <1>2, <1>7, <2>0, EventKey DEF DeliveryInv
  <2>2. event.intent = i /\ (event.kind = "update" \/ outbox[i].epoch = 0) => key = Key(i)
    BY <1>3, <2>0
  <2>2a. Deliver(v, key)
    BY <1>7, <2>0
  <2>3. /\ seen'[v] = seen[v] \cup {key} /\ \A x \in Workers \ {v} : seen'[x] = seen[x]
        /\ \A x \in Workers, k \in Intents : Acquiring(x, k) => Acquiring(x, k)'
        /\ key \notin seen[v] => Acquiring(v, key[1])'
    BY <2>1, <2>2a, DeliveredKeys
  <2>4. CASE w # v
    BY <1>1, <1>2, <2>3, <2>4, Untouched
  <2>5. CASE w = v /\ key = Key(i)
    <3>1. key[1] = i
      BY <1>3, <2>5
    <3>2. Acquiring(w, i)'
      BY <1>1, <1>4, <2>3, <2>5, <3>1 DEF Reached
    <3> QED BY <3>2 DEF Reached
  <2>6. CASE w = v /\ key # Key(i)
    <3>1. \A k \in DOMAIN stream[w] :
            stream[w][k].intent = i /\ (stream[w][k].kind = "update" \/ outbox[i].epoch = 0) =>
              \E m \in DOMAIN stream'[w] : stream'[w][m] = stream[w][k]
      BY <1>5, <2>2, <2>6
    <3>2. Key(i) \in seen'[w] <=> Key(i) \in seen[w]
      BY <2>3, <2>6
    <3>3. Announced(w, i) => Announced(w, i)'
      BY <1>2, <1>3, <3>1, <3>2 DEF Announced
    <3> QED BY <1>1, <1>2, <1>3, <2>3, <3>2, <3>3 DEF Reached
  <2> QED BY <2>4, <2>5, <2>6
<1> QED BY <1>6, <1>7 DEF PollStream

(* A job about to acquire a pending intent goes on waiting for it, whatever *)
(* other job steps.                                                         *)
LEMMA AcquiringKept ==
  ASSUME TypeInv, NEW j \in jobs, JobStep(j) \/ TimesOut(j), NEW w \in Workers, NEW i \in Intents,
         outbox[i].state = "PENDING", outbox'[i] = outbox[i], i \notin timedOut',
         Abort(j) => w # j.worker, Acquiring(w, i)
  PROVE  Acquiring(w, i)'
<1>1. PICK k \in jobs : k.worker = w /\ k.intent = i /\ k.step = "acquire"
  BY DEF Acquiring
<1>2. CASE k \in jobs'
  BY <1>1, <1>2 DEF Acquiring
<1>3. ASSUME k = j PROVE FALSE
  <2>1. Claimable(j.intent)
    BY <1>1, <1>3 DEF Claimable
  <2>2. outbox' # Claimed(j)
    <3>1. outbox' = Claimed(j) => outbox'[j.intent].state = "CLAIMED"
      BY JobFields DEF Claimed, TypeInv, Document
    <3> QED BY <1>1, <1>3, <3>1
  <2>3. ~Acquire(j)
    BY <2>1, <2>2 DEF Acquire
  <2>4. ~TimesOut(j)
    BY <1>1, <1>3, <2>1, <2>2 DEF TimesOut
  <2>5. ~JobStep(j)
    BY <1>1, <1>3, <2>3 DEF JobStep, Process, Extend, Resolve, Yield, Abort
  <2> QED BY <2>4, <2>5
<1>4. CASE k # j
  <2>1. k \in jobs'
    BY <1>1, <1>4 DEF JobStep, Acquire, TimesOut, Process, Extend, Resolve, Yield, Abort, Replace, Finish
  <2> QED BY <1>2, <2>1
<1> QED BY <1>3, <1>4

(* The step by which an intent becomes PENDING, or stays so.                *)
LEMMA PendingStep ==
  ASSUME TypeInv, NEW i \in Intents, DocumentSteps(i), outbox'[i].state = "PENDING"
  PROVE  \/ outbox[i].state = "PENDING" /\ outbox'[i] = outbox[i]
         \/ outbox[i].state \in {"ABSENT", "CLAIMED"} /\ outbox'[i].epoch = outbox[i].epoch /\ outbox'[i] # outbox[i]
<1>1. outbox[i] \in Document
  BY DEF TypeInv
<1>2. CASE outbox[i].state = "ABSENT" /\ outbox'[i] = [outbox[i] EXCEPT !.state = "PENDING"]
  BY <1>1, <1>2 DEF Document
<1>3. CASE outbox[i].state = "CLAIMED" /\ outbox'[i] = [outbox[i] EXCEPT !.live = FALSE]
  BY <1>1, <1>3 DEF Document
<1>4. CASE \E w \in Workers : outbox'[i] = [state |-> "CLAIMED", holder |-> w,
                                            epoch |-> outbox[i].epoch + 1, live |-> TRUE]
  BY <1>4
<1> QED BY <1>2, <1>3, <1>4 DEF DocumentSteps

LEMMA OldEvents ==
  ASSUME TypeInv, NEW i \in Intents, NEW w \in Workers, NEW kind \in {"insert", "update"},
         UNCHANGED stream \/ Emit(i, kind)
  PROVE  \A k \in DOMAIN stream[w] : \E m \in DOMAIN stream'[w] : stream'[w][m] = stream[w][k]
BY EmittedEvents

LEMMA ReachedByJob ==
  ASSUME TypeInv, DeliveryInv, NEW j \in jobs, JobStep(j) \/ TimesOut(j),
         \A i \in Intents : DocumentSteps(i),
         NEW w \in Workers, NEW i \in Intents, outbox'[i].state = "PENDING", i \notin timedOut'
  PROVE  Reached(w, i)'
<1>1. /\ UNCHANGED <<feed, backlog, seen>> \/ Stopped(j.worker)
      /\ timedOut \subseteq timedOut'
      /\ UNCHANGED stream \/ (/\ outbox[j.intent].state = "CLAIMED" /\ outbox' = Release(j.intent)
                              /\ Emit(j.intent, "update"))
  BY JobFrame
<1>2. j.intent \in Intents /\ j.worker \in Workers
  BY JobFields
<1>3. CASE feed'[w] = "closed"
  BY <1>3 DEF Reached
<1>4. CASE feed'[w] # "closed"
  <2>1. feed'[w] = feed[w] /\ seen'[w] = seen[w] /\ backlog'[w] = backlog[w] /\ (Abort(j) => w # j.worker)
    BY <1>1, <1>2, <1>4 DEF Stopped, TypeInv, Abort
  <2>2. CASE outbox[i].state = "PENDING" /\ outbox'[i] = outbox[i]
    <3>1. Reached(w, i)
      BY <1>1, <2>2 DEF DeliveryInv, AllReached, Pending
    <3>2. Acquiring(w, i) => Acquiring(w, i)'
      BY <2>1, <2>2, AcquiringKept
    <3>3. \A k \in DOMAIN stream[w] : \E m \in DOMAIN stream'[w] : stream'[w][m] = stream[w][k]
      BY <1>1, <1>2, OldEvents
    <3> QED BY <2>1, <2>2, <3>1, <3>2, <3>3, Untouched
  <2>3. CASE outbox[i].state \in {"ABSENT", "CLAIMED"} /\ outbox'[i].epoch = outbox[i].epoch /\ outbox'[i] # outbox[i]
    <3>1. j.intent = i /\ Emit(i, "update")
      <4>1. CASE outbox' = Release(j.intent) /\ Emit(j.intent, "update")
        <5>1. i # j.intent => outbox'[i] = outbox[i]
          BY <4>1, <1>2, ReleaseType
        <5> QED BY <2>3, <4>1, <5>1
      <4>2. ASSUME UNCHANGED stream, outbox' = Release(j.intent) => ~Emit(j.intent, "update") PROVE FALSE
        <5>1. CASE Acquire(j) \/ TimesOut(j)
          <6>1. outbox' = Claimed(j)
            BY <2>3, <5>1 DEF Acquire, TimesOut
          <6>2. outbox'[j.intent] = [state |-> "CLAIMED", holder |-> j.worker,
                                     epoch |-> outbox[j.intent].epoch + 1, live |-> TRUE]
                /\ \A k \in Intents \ {j.intent} : outbox'[k] = outbox[k]
            BY <6>1, ClaimedType
          <6>3. i = j.intent
            BY <2>3, <6>2
          <6> QED BY <6>2, <6>3
        <5>2. CASE Process(j) \/ Extend(j)
          BY <2>3, <5>2 DEF Process, Extend
        <5>3. CASE Resolve(j)
          BY <1>2, <2>3, <5>3 DEF Resolve, TypeInv, Document
        <5>4. CASE Yield(j) \/ Abort(j)
          BY <2>3, <4>2, <5>4 DEF Yield, Abort, YieldEffect
        <5> QED BY <5>1, <5>2, <5>3, <5>4 DEF JobStep
      <4> QED BY <1>1, <4>1, <4>2
    <3> QED BY <2>1, <2>3, <3>1, News DEF DeliveryInv
  <2> QED BY <2>2, <2>3, PendingStep
<1> QED BY <1>3, <1>4

LEMMA ReachedBySweep ==
  ASSUME TypeInv, DeliveryInv, NEW x \in expired, SweepUpdate(x),
         \A i \in Intents : DocumentSteps(i),
         NEW w \in Workers, NEW i \in Intents, outbox'[i].state = "PENDING", i \notin timedOut'
  PROVE  Reached(w, i)'
<1>1. /\ UNCHANGED <<feed, backlog, seen, jobs, timedOut>> /\ x.intent \in Intents
      /\ UNCHANGED stream \/ (/\ outbox[x.intent].state = "CLAIMED" /\ outbox' = Release(x.intent)
                              /\ Emit(x.intent, "update"))
  BY SweepFrame
<1>2. CASE outbox[i].state = "PENDING" /\ outbox'[i] = outbox[i]
  <2>1. Reached(w, i)
    BY <1>1, <1>2 DEF DeliveryInv, AllReached, Pending
  <2>2. Acquiring(w, i) => Acquiring(w, i)'
    BY <1>1 DEF Acquiring
  <2>3. \A k \in DOMAIN stream[w] : \E m \in DOMAIN stream'[w] : stream'[w][m] = stream[w][k]
    BY <1>1, OldEvents
  <2> QED BY <1>1, <1>2, <2>1, <2>2, <2>3, Untouched
<1>3. CASE outbox[i].state \in {"ABSENT", "CLAIMED"} /\ outbox'[i].epoch = outbox[i].epoch /\ outbox'[i] # outbox[i]
  <2>1. x.intent = i /\ Emit(i, "update")
    <3>1. CASE outbox' = Release(x.intent) /\ Emit(x.intent, "update")
      <4>1. i # x.intent => outbox'[i] = outbox[i]
        BY <3>1, <1>1, ReleaseType
      <4> QED BY <1>3, <3>1, <4>1
    <3>2. ASSUME outbox' = [outbox EXCEPT ![x.intent] = [@ EXCEPT !.state = "DEAD_LETTER", !.holder = NoWorker]]
          PROVE  FALSE
      BY <1>1, <1>3, <3>2 DEF TypeInv, Document
    <3> QED BY <1>3, <3>1, <3>2 DEF SweepUpdate
  <2> QED BY <1>1, <1>3, <2>1, News DEF DeliveryInv
<1> QED BY <1>2, <1>3, PendingStep

LEMMA ReachedByCommit ==
  ASSUME TypeInv, DeliveryInv, NEW c \in Intents, Commit(c) \/ LeaseExpires(c),
         \A i \in Intents : DocumentSteps(i),
         NEW w \in Workers, NEW i \in Intents, outbox'[i].state = "PENDING", i \notin timedOut'
  PROVE  Reached(w, i)'
<1>1. UNCHANGED <<feed, backlog, seen, jobs, timedOut>> /\ (UNCHANGED stream \/ Emit(c, "insert"))
  BY DEF Commit, LeaseExpires, feedVars
<1>2. CASE outbox[i].state = "PENDING" /\ outbox'[i] = outbox[i]
  <2>1. Reached(w, i)
    BY <1>1, <1>2 DEF DeliveryInv, AllReached, Pending
  <2>2. Acquiring(w, i) => Acquiring(w, i)'
    BY <1>1 DEF Acquiring
  <2>3. \A k \in DOMAIN stream[w] : \E m \in DOMAIN stream'[w] : stream'[w][m] = stream[w][k]
    BY <1>1, OldEvents
  <2> QED BY <1>1, <1>2, <2>1, <2>2, <2>3, Untouched
<1>3. CASE outbox[i].state \in {"ABSENT", "CLAIMED"} /\ outbox'[i].epoch = outbox[i].epoch /\ outbox'[i] # outbox[i]
  <2>1. c = i /\ Commit(c)
    BY <1>3 DEF Commit, LeaseExpires, TypeInv, Document
  <2>2. outbox[i].epoch = 0 /\ Emit(i, "insert")
    BY <2>1 DEF Commit, DeliveryInv, EpochFits
  <2> QED BY <1>1, <1>3, <2>2, News DEF DeliveryInv
<1> QED BY <1>2, <1>3, PendingStep

LEMMA ReachedStep ==
  ASSUME TypeInv, DeliveryInv, Next
  PROVE  AllReached'
<1>1. \A i \in Intents : DocumentSteps(i)
  BY Documents
<1> SUFFICES ASSUME NEW w \in Workers, NEW i \in Intents, outbox'[i].state = "PENDING", i \notin timedOut'
             PROVE  Reached(w, i)'
  BY DEF AllReached, Pending
<1>2. ASSUME NEW v \in Workers,
             \/ \E resumed \in BOOLEAN : OpenStream(v, resumed)
             \/ OpenBacklog(v) \/ Resynchronize(v) \/ PollBacklog(v) \/ PollStream(v) \/ Crash(v)
      PROVE  Reached(w, i)'
  <2>1. UNCHANGED <<outbox, timedOut>>
    BY <1>2 DEF OpenStream, OpenBacklog, Resynchronize, PollBacklog, PollStream, Crash
  <2>2. i \in Pending \ timedOut
    BY <2>1 DEF Pending
  <2>3. CASE \/ \E resumed \in BOOLEAN : OpenStream(v, resumed)
             \/ OpenBacklog(v) \/ Resynchronize(v) \/ Crash(v)
    BY <2>2, <2>3, ReachedByFeed
  <2>4. CASE PollBacklog(v)
    BY <2>2, <2>4, ReachedByBacklog
  <2>5. CASE PollStream(v)
    BY <2>2, <2>5, ReachedByStream
  <2> QED BY <1>2, <2>3, <2>4, <2>5
<1>3. CASE SweepFind
  <2>1. UNCHANGED <<outbox, feed, backlog, stream, seen, jobs, timedOut>>
    BY <1>3 DEF SweepFind, feedVars
  <2>2. Reached(w, i)
    BY <2>1 DEF DeliveryInv, AllReached, Pending
  <2> QED BY <2>1, <2>2, Untouched DEF Acquiring
<1> QED BY <1>1, <1>2, <1>3, ReachedByCommit, ReachedByJob, ReachedBySweep DEF Next

LEMMA NextDelivery == TypeInv /\ DeliveryInv /\ [Next]_vars => DeliveryInv'
<1> SUFFICES ASSUME TypeInv, DeliveryInv, [Next]_vars PROVE DeliveryInv'
  OBVIOUS
<1>1. CASE UNCHANGED vars
  BY <1>1 DEF vars, DeliveryInv, KeysPast, Past, EpochFits, EventsCommitted, ClosedForgets, AllReached,
              Reached, Pending, Key, Announced, Acquiring
<1>2. CASE Next
  BY <1>2, KeysPastStep, EventsStep, ClosedStep, ReachedStep DEF DeliveryInv
<1> QED BY <1>1, <1>2

(* No feed loses a pending intent: an open worker will still be told of it  *)
(* or is about to acquire it, through crashes, restarts with and without a  *)
(* checkpoint, lost stream histories, yields and expired leases, unless its *)
(* Acquire timed out.                                                       *)
THEOREM NothingForgotten == Spec => []NoIntentForgotten
<1>1. Init => DeliveryInv
  BY DEF Init, DeliveryInv, KeysPast, EpochFits, EventsCommitted, ClosedForgets, AllReached, Pending
<1>2. DeliveryInv => NoIntentForgotten
  BY DEF DeliveryInv, AllReached, Reached, NoIntentForgotten, Pending, Acquiring
<1> QED BY <1>1, <1>2, InitTypes, NextTypes, NextDelivery, PTL DEF Spec

-----------------------------------------------------------------------------
(* The claim of a job that ends by resolving or yielding.                   *)
LEMMA HolderActs ==
  ASSUME TypeInv, NEW j \in jobs, JobStep(j) \/ TimesOut(j), NEW i \in Intents,
         outbox'[i] # outbox[i], outbox[i].live \/ outbox'[i].state = "RESOLVED"
  PROVE  j.intent = i /\ Active(j) /\ j \notin jobs'
<1>1. j.intent \in Intents
  BY JobFields
<1>2. ASSUME outbox' = Claimed(j), Claimable(j.intent) PROVE FALSE
  <2>1. outbox'[j.intent] = [state |-> "CLAIMED", holder |-> j.worker,
                             epoch |-> outbox[j.intent].epoch + 1, live |-> TRUE]
        /\ \A k \in Intents \ {j.intent} : outbox'[k] = outbox[k]
    BY <1>2, ClaimedType
  <2>2. i = j.intent /\ outbox'[i].state = "CLAIMED"
    BY <2>1
  <2>3. ~outbox[i].live
    BY <1>2, <2>2 DEF Claimable, TypeInv
  <2> QED BY <2>2, <2>3
<1>3. ~Acquire(j) /\ ~TimesOut(j)
  BY <1>2 DEF Acquire, TimesOut
<1>4. ~Process(j) /\ ~Extend(j)
  BY DEF Process, Extend
<1>5. CASE Resolve(j)
  BY <1>1, <1>5 DEF Resolve, Finish, TypeInv
<1>6. CASE Yield(j)
  BY <1>1, <1>6 DEF Yield, YieldEffect, Release, Finish, TypeInv
<1>7. CASE Abort(j)
  <2>1. Active(j) /\ outbox' = Release(j.intent)
    BY <1>7 DEF Abort, YieldEffect
  <2>2. j.intent = i
    BY <1>1, <2>1 DEF Release, TypeInv
  <2>3. \A k \in jobs : Drained(k) # j
    <3>1. j.step = "abort"
      BY <1>7 DEF Abort
    <3>2. \A k \in jobs : Drained(k).step # "abort"
      BY DEF Drained, TypeInv, JobType
    <3> QED BY <3>1, <3>2
  <2>4. j \notin jobs'
    BY <1>7, <2>3 DEF Abort
  <2> QED BY <2>1, <2>2, <2>4
<1> QED BY <1>3, <1>4, <1>5, <1>6, <1>7 DEF JobStep

(* A live claim ends, and an intent is resolved, by the job that holds the  *)
(* claim and ends with it, unless the lease expires: a superseded or late   *)
(* holder leaves the document alone, however many claims, sweeps and        *)
(* workers raced it.                                                        *)
THEOREM SupersededAreInert == Spec => LateHoldersInert
<1>1. ASSUME TypeInv, Next, NEW i \in Intents,
             outbox'[i] # outbox[i], outbox[i].live \/ outbox'[i].state = "RESOLVED"
      PROVE  \/ outbox'[i] = [outbox[i] EXCEPT !.live = FALSE]
             \/ \E j \in jobs : j.intent = i /\ Active(j) /\ j \notin jobs'
  <2>1. outbox[i] \in Document /\ (outbox[i].live => outbox[i].state = "CLAIMED")
    BY <1>1 DEF TypeInv
  <2>2. ASSUME NEW c \in Intents, Commit(c) PROVE FALSE
    <3>1. c = i
      BY <1>1, <2>2 DEF Commit, TypeInv
    <3>2. outbox'[i].state = "PENDING"
      BY <1>1, <2>1, <2>2, <3>1 DEF Commit, TypeInv, Document
    <3> QED BY <1>1, <2>1, <2>2, <3>1, <3>2 DEF Commit
  <2>3. ASSUME NEW c \in Intents, LeaseExpires(c) PROVE outbox'[i] = [outbox[i] EXCEPT !.live = FALSE]
    BY <1>1, <2>3 DEF LeaseExpires, TypeInv
  <2>4. ASSUME NEW j \in jobs, JobStep(j) \/ TimesOut(j) PROVE j.intent = i /\ Active(j) /\ j \notin jobs'
    BY <1>1, <2>4, HolderActs
  <2>5. ASSUME NEW x \in expired, SweepUpdate(x) PROVE FALSE
    <3>1. x.intent \in Intents
      BY <1>1 DEF TypeInv
    <3>2. outbox \in [Intents -> Document] /\ ~outbox[x.intent].live
      BY <1>1, <2>5 DEF SweepUpdate, TypeInv
    <3>3. \/ outbox' = [outbox EXCEPT ![x.intent] = [@ EXCEPT !.state = "DEAD_LETTER", !.holder = NoWorker]]
          \/ outbox' = [outbox EXCEPT ![x.intent] =
                          [@ EXCEPT !.state = "PENDING", !.holder = NoWorker, !.live = FALSE]]
      BY <1>1, <2>5 DEF SweepUpdate, Release
    <3>4. x.intent = i
      BY <1>1, <3>1, <3>2, <3>3
    <3>5. outbox'[i].state # "RESOLVED"
      <4>1. /\ [outbox[i] EXCEPT !.state = "DEAD_LETTER", !.holder = NoWorker].state = "DEAD_LETTER"
            /\ [outbox[i] EXCEPT !.state = "PENDING", !.holder = NoWorker, !.live = FALSE].state = "PENDING"
        BY <2>1 DEF Document
      <4> QED BY <3>2, <3>3, <3>4, <4>1
    <3> QED BY <1>1, <3>2, <3>4, <3>5
  <2>6. ASSUME NEW v \in Workers,
               \/ \E resumed \in BOOLEAN : OpenStream(v, resumed)
               \/ OpenBacklog(v) \/ Resynchronize(v) \/ PollBacklog(v) \/ PollStream(v) \/ Crash(v)
        PROVE  FALSE
    BY <1>1, <2>6 DEF OpenStream, OpenBacklog, Resynchronize, PollBacklog, PollStream, Crash
  <2>7. ~SweepFind
    BY <1>1 DEF SweepFind
  <2> QED BY <1>1, <2>2, <2>3, <2>4, <2>5, <2>6, <2>7 DEF Next
<1>2. TypeInv /\ [Next]_vars =>
        [\A i \in Intents :
           (outbox'[i] # outbox[i] /\ (outbox[i].live \/ outbox'[i].state = "RESOLVED")) =>
             \/ outbox'[i] = [outbox[i] EXCEPT !.live = FALSE]
             \/ \E j \in jobs : j.intent = i /\ Active(j) /\ j \notin jobs']_vars
  BY <1>1 DEF vars
<1> QED BY <1>2, InitTypes, NextTypes, PTL DEF Spec, LateHoldersInert
=============================================================================
