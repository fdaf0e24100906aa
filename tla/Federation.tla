----------------------------- MODULE Federation -----------------------------
(***************************************************************************)
(* Messages between two deployments (organization/federation*.go,           *)
(* adapters/mongo/federation_store.go, adapters/federationhttp).  A sender  *)
(* resolves an alias to a configured route, records the signed envelope and *)
(* the message in its own thread, and posts it, a second time when the      *)
(* first answer is lost.  The receiver verifies the envelope against its    *)
(* own configuration and clock, looks for a receipt of it and else takes    *)
(* the message into its thread.                                             *)
(*                                                                          *)
(* Each deployment has its own threads; requests are lost, late or doubled, *)
(* and a deployment stops and comes back with another configuration.        *)
(* Signatures, digests and route traces are whether the receiver's          *)
(* configuration authorizes the sender.  The delivery and replay identities *)
(* of an envelope are the number of the call that made it.  A thread is     *)
(* opened by one deployment, since its identifier is unique.                *)
(***************************************************************************)
EXTENDS Integers, Sequences, FiniteSets

CONSTANTS Sites, Actors,
          Home,        \* the deployment of each actor
          Opener,      \* per thread: the actor that opens it
          MaximumHops,
          TTL, Skew,   \* life of an envelope; how far ahead its date may be
          Offset,      \* per deployment: how far ahead its clock is
          Bounded,     \* whether a request's context has a deadline
          None,
          MaxCalls, MaxStops, MaxTime

VARIABLES threads,   \* per deployment and thread: its messages
          receipts,  \* per deployment: the envelopes accepted
          calls,     \* calls of SendByAlias, by number
          requests,  \* posts of the calls and their answers
          routes,    \* per deployment: is the route between the two configured
          stops,
          now

vars == <<threads, receipts, calls, requests, routes, stops, now>>

Threads == DOMAIN Opener
Peer(s) == CHOOSE o \in Sites : o /= s
Clock(s) == now + Offset[s]

(* What a role writes next into a thread as its deployment knows it.        *)
Message(s, t, from, to, id) ==
  LET log == threads[s][t] IN
  [thread |-> t, hop |-> Len(log) + 1, sender |-> from, recipient |-> to, id |-> id,
   cause |-> IF log = <<>> THEN None ELSE log[Len(log)].id]

(* Mutated: whoever is first continues the thread.                          *)
advanceUnlessTaken(s, m) == m.hop = Len(threads[s][m.thread]) + 1 /\ m.hop <= MaximumHops

(* The thread takes the message that follows its last one.                  *)
advanceMessageThread(s, m) ==
  LET log == threads[s][m.thread] IN
  /\ m.hop = Len(log) + 1 /\ m.hop <= MaximumHops
  /\ log /= <<>> => m.sender = log[Len(log)].recipient /\ m.cause = log[Len(log)].id

Advance(s, m) == threads' = [threads EXCEPT ![s][m.thread] = Append(@, m)]

-----------------------------------------------------------------------------
(* The sender.                                                              *)

NewFederatedEnvelope(s, m) == [site |-> s, message |-> m, issued |-> Clock(s), step |-> "record", posts |-> 0]

(* The alias resolves to an active route, the sender's role is idle and the *)
(* envelope is signed.  The caller writes a new message or sends one again. *)
SendByAlias(s, m) ==
  /\ Len(calls) < MaxCalls
  /\ routes[s]
  /\ Home[m.sender] = s /\ Home[m.recipient] = Peer(s)
  /\ calls' = Append(calls, NewFederatedEnvelope(s, m))
  /\ UNCHANGED <<threads, receipts, requests, routes, stops, now>>

Writes(s) == {Message(s, t, a, b, <<s, Len(calls) + 1>>) : t \in {u \in Threads : threads[s][u] /= <<>> \/ Home[Opener[u]] = s}, a \in Actors, b \in Actors}
Repeats(s) == {calls[n].message : n \in {n \in DOMAIN calls : calls[n].site = s}}

Call(n, step) == calls' = [calls EXCEPT ![n].step = step]

(* The message enters the sender's thread before anything is posted, or the *)
(* call fails.                                                              *)
RecordFederatedOutbound(n) ==
  LET s == calls[n].site  m == calls[n].message IN
  /\ calls[n].step = "record"
  /\ \/ advanceMessageThread(s, m) /\ Advance(s, m) /\ Call(n, "post")
     \/ ~advanceMessageThread(s, m) /\ Call(n, "failed") /\ UNCHANGED threads
  /\ UNCHANGED <<receipts, requests, routes, stops, now>>

sendOnce(n) ==
  /\ calls[n].step = "post"
  /\ calls' = [calls EXCEPT ![n].step = "wait", ![n].posts = @ + 1]
  /\ requests' = requests \cup {[call |-> n, post |-> calls[n].posts + 1, state |-> "sent", due |-> FALSE]}
  /\ UNCHANGED <<threads, receipts, routes, stops, now>>

(* The post that is answered, if the call waits for one.                    *)
Answer(n) == {r \in requests : r.call = n /\ r.state \in {"accepted", "refused"}}

(* The answer to the post: a receipt, or a refusal, which ends the call.    *)
Answered(n) ==
  /\ calls[n].step = "wait"
  /\ \E r \in Answer(n) : Call(n, IF r.state = "accepted" THEN "accepted" ELSE "failed")
  /\ requests' = requests \ Answer(n)
  /\ UNCHANGED <<threads, receipts, routes, stops, now>>

(* No answer: the same envelope is posted once more, unless the caller's    *)
(* time is up.                                                              *)
Send(n) ==
  /\ calls[n].step = "wait"
  /\ \/ calls[n].posts < 2 /\ Call(n, "post")
     \/ Call(n, "failed")
  /\ requests' = requests \ Answer(n)
  /\ UNCHANGED <<threads, receipts, routes, stops, now>>

-----------------------------------------------------------------------------
(* The receiver.                                                            *)

At(r) == Peer(calls[r.call].site)

DecodeAndVerify(r) ==
  LET s == At(r)  issued == calls[r.call].issued IN
  /\ routes[s]
  /\ Clock(s) + Skew >= issued /\ Clock(s) < issued + TTL

readFederationReceipt(r) == r.call \in receipts[At(r)]

(* The envelope is good, and known already or next in its thread.           *)
Deliverable(r) ==
  /\ DecodeAndVerify(r)
  /\ readFederationReceipt(r) \/ advanceMessageThread(At(r), calls[r.call].message)

(* An answer nobody waits for any more is not kept; due is whether the      *)
(* envelope was good when it was refused.                                   *)
Becomes(r, state) ==
  LET c == calls[r.call]
      kept == state = "transact" \/ (c.step = "wait" /\ c.posts = r.post) IN
  requests' = (requests \ {r}) \cup
    IF kept THEN {[r EXCEPT !.state = state, !.due = state = "refused" /\ Deliverable(r)]} ELSE {}

(* The envelope is verified, the context is checked for its deadline and    *)
(* the receipts are read.                                                   *)
Accept(r) ==
  /\ r.state = "sent"
  /\ \/ ~(DecodeAndVerify(r) /\ Bounded) /\ Becomes(r, "refused")
     \/ DecodeAndVerify(r) /\ Bounded /\ readFederationReceipt(r) /\ Becomes(r, "accepted")
     \/ DecodeAndVerify(r) /\ Bounded /\ ~readFederationReceipt(r) /\ Becomes(r, "transact")
  /\ UNCHANGED <<threads, receipts, calls, routes, stops, now>>

(* One transaction: the thread takes the message and the receipt is kept.   *)
AcceptFederatedMessage(r) ==
  LET s == At(r)  m == calls[r.call].message IN
  /\ r.state = "transact"
  /\ \/ /\ advanceMessageThread(s, m) /\ Advance(s, m)
        /\ receipts' = [receipts EXCEPT ![s] = @ \cup {r.call}]
        /\ Becomes(r, "accepted")
     \/ ~advanceMessageThread(s, m) /\ Becomes(r, "refused") /\ UNCHANGED <<threads, receipts>>
  /\ UNCHANGED <<calls, routes, stops, now>>

-----------------------------------------------------------------------------
(* A message between two roles of one deployment: see MessageBus.           *)
AppendMessage(s, m) ==
  /\ Home[m.sender] = s /\ Home[m.recipient] = s /\ m.sender /= m.recipient
  /\ advanceMessageThread(s, m) /\ Advance(s, m)
  /\ UNCHANGED <<receipts, calls, requests, routes, stops, now>>

(* The daemon stops: its calls and the requests it works on end, and it     *)
(* comes back with or without the route.                                    *)
Stop(s, configured) ==
  /\ stops < MaxStops
  /\ stops' = stops + 1
  /\ calls' = [n \in DOMAIN calls |->
       IF calls[n].site = s /\ calls[n].step \notin {"accepted", "failed"} THEN [calls[n] EXCEPT !.step = "gone"] ELSE calls[n]]
  /\ requests' = {r \in requests : ~(At(r) = s /\ r.state = "transact") /\ ~(calls[r.call].site = s /\ r \in Answer(r.call))}
  /\ routes' = [routes EXCEPT ![s] = configured]
  /\ UNCHANGED <<threads, receipts, now>>

Tick == now < MaxTime /\ now' = now + 1 /\ UNCHANGED <<threads, receipts, calls, requests, routes, stops>>

Init ==
  /\ threads = [s \in Sites |-> [t \in Threads |-> <<>>]]
  /\ receipts = [s \in Sites |-> {}]
  /\ calls = <<>>
  /\ requests = {}
  /\ routes = [s \in Sites |-> TRUE]
  /\ stops = 0
  /\ now = 0

Next ==
  \/ \E s \in Sites : \E m \in Writes(s) \cup Repeats(s) : SendByAlias(s, m)
  \/ \E s \in Sites : \E m \in Writes(s) : AppendMessage(s, [m EXCEPT !.id = <<s, 0>>])
  \/ \E n \in DOMAIN calls : RecordFederatedOutbound(n) \/ sendOnce(n) \/ Answered(n) \/ Send(n)
  \/ \E r \in requests : Accept(r) \/ AcceptFederatedMessage(r)
  \/ \E s \in Sites, configured \in BOOLEAN : Stop(s, configured)
  \/ Tick

Spec == Init /\ [][Next]_vars

-----------------------------------------------------------------------------
(* The two deployments never disagree on a thread: as far as both have it,  *)
(* it is the same; what one took from the other the other had recorded,     *)
(* once; and a caller that holds a receipt has its message at the other end.*)
ThreadsAgree ==
  /\ \A s \in Sites, t \in Threads : \A h \in DOMAIN threads[s][t] :
       LET m == threads[s][t][h] IN
       /\ h \in DOMAIN threads[Peer(s)][t] => threads[Peer(s)][t][h] = m
       /\ Home[m.sender] /= s => h \in DOMAIN threads[Peer(s)][t] /\ Cardinality({n \in receipts[s] : calls[n].message = m}) = 1
  /\ \A n \in DOMAIN calls : calls[n].step = "accepted" => calls[n].message \in {threads[Peer(calls[n].site)][calls[n].message.thread][h] :
       h \in DOMAIN threads[Peer(calls[n].site)][calls[n].message.thread]}

(* An envelope that is authorized, in time and known or next in its thread  *)
(* is not refused: the two deployments can exchange messages.               *)
GoodIsAccepted == \A r \in requests : ~r.due
=============================================================================
