----------------------------- MODULE MessageBus -----------------------------
(***************************************************************************)
(* The messages roles send each other (organization/message.go and          *)
(* adapters/mongo/message_store.go).  A message waits for its recipient,    *)
(* which claims it under a lease, renews, yields or resolves it; an         *)
(* operator's admission resolves it unclaimed; a sweep releases or buries   *)
(* what was claimed and abandoned.  The messages of one thread hand the     *)
(* work from role to role, and the last may be readdressed.                 *)
(*                                                                          *)
(* A role restarts under a new execution while calls of the old one are in  *)
(* flight: the role is loaded and checked before the messages are written,  *)
(* and no write checks it again.  The position of a message in the          *)
(* collection stands for its creation time and identifier.                  *)
(***************************************************************************)
EXTENDS Integers, Sequences, FiniteSets, Functions

CONSTANTS Actors, Threads,
          Progress,          \* digests of the progress a message reports
          MaximumHops, MaximumAttempts, MaximumReaddresses,
          Leases, Life,      \* how long a claim and a message last
          None,
          MaxMessages, MaxRestarts, MaxTime, MaxLoaded

VARIABLES messages,  \* the collection, oldest first
          threads,   \* per thread: its last message, recipient and the progress seen
          roles,     \* per actor: its execution
          loaded,    \* <<actor, execution>> of the calls past their role check
          claims,    \* the claims returned to processes that still work on them
          now

vars == <<messages, threads, roles, loaded, claims, now>>

Message(t, hop, from, to, p) ==
  [thread |-> t, hop |-> hop, sender |-> from, recipient |-> to, progress |-> p, expires |-> now + Life,
   execution |-> roles[from], state |-> "PENDING", holder |-> None, epoch |-> 0, until |-> 0, attempts |-> 0, readdressed |-> 0]
NoThread == [last |-> 0, hop |-> 0, recipient |-> None, progress |-> {}]

(* The role is read, and found idle under the caller's execution.           *)
LoadRole(a) ==
  /\ Cardinality(loaded) < MaxLoaded
  /\ loaded' = loaded \cup {<<a, roles[a]>>}
  /\ UNCHANGED <<messages, threads, roles, claims, now>>

Checked(a, e) == <<a, e>> \in loaded /\ loaded' = loaded \ {<<a, e>>}

(* The first message of a thread opens it; the next follows the last one,   *)
(* comes from its recipient and reports progress not reported before.       *)
advanceMessageThread(m) ==
  LET t == threads[m.thread] IN
  /\ m.hop = t.hop + 1
  /\ m.hop <= MaximumHops
  /\ t.hop > 0 => m.sender = t.recipient
  /\ m.progress \notin t.progress

Advanced(m, position) ==
  [last |-> position, hop |-> m.hop, recipient |-> m.recipient, progress |-> threads[m.thread].progress \cup {m.progress}]

Stored(m, e) == [m EXCEPT !.execution = e]

Send(t, from, e, to, p) ==
  LET m == Message(t, threads[t].hop + 1, from, to, p) IN
  /\ Len(messages) < MaxMessages /\ from /= to
  /\ Checked(from, e)
  /\ advanceMessageThread(m)
  /\ messages' = Append(messages, Stored(m, e))
  /\ threads' = [threads EXCEPT ![t] = Advanced(m, Len(messages) + 1)]
  /\ UNCHANGED <<roles, claims, now>>

(* One sender, several recipients, a thread for each: all or none.          *)
SendFanout(ts, from, e, tos, p) ==
  LET m(i) == Message(ts[i], threads[ts[i]].hop + 1, from, tos[i], p) IN
  /\ Len(messages) + 2 <= MaxMessages
  /\ ts[1] /= ts[2] /\ tos[1] /= tos[2] /\ from \notin {tos[1], tos[2]}
  /\ Checked(from, e)
  /\ \A i \in 1..2 : advanceMessageThread(m(i))
  /\ messages' = messages \o <<Stored(m(1), e), Stored(m(2), e)>>
  /\ threads' = [threads EXCEPT ![ts[1]] = Advanced(m(1), Len(messages) + 1), ![ts[2]] = Advanced(m(2), Len(messages) + 2)]
  /\ UNCHANGED <<roles, claims, now>>

(* A successor of a dead letter: the letter itself stays buried.            *)
RepairDeadLetter(i, from, e, to, p) ==
  /\ messages[i].state = "DEAD_LETTER" /\ from = messages[i].recipient
  /\ threads[messages[i].thread].last = i
  /\ Send(messages[i].thread, from, e, to, p)

LeaseIgnored(i, a) == messages[i].recipient = a /\ messages[i].state \in {"PENDING", "CLAIMED"} /\ messages[i].attempts < MaximumAttempts

Claimable(i, a) ==
  LET m == messages[i] IN
  /\ m.recipient = a /\ now < m.expires /\ m.attempts < MaximumAttempts
  /\ m.state = "PENDING" \/ (m.state = "CLAIMED" /\ m.until <= now)

(* The oldest message that may be claimed.                                  *)
Claim(a, e, lease) ==
  \E i \in DOMAIN messages :
    /\ Checked(a, e)
    /\ Claimable(i, a) /\ \A j \in 1..(i - 1) : ~Claimable(j, a)
    /\ messages' = [messages EXCEPT ![i].state = "CLAIMED", ![i].holder = <<a, e>>, ![i].until = now + lease,
                                    ![i].epoch = @ + 1, ![i].attempts = @ + 1]
    /\ claims' = claims \cup {[id |-> i, holder |-> <<a, e>>, epoch |-> messages[i].epoch + 1, until |-> now + lease]}
    /\ UNCHANGED <<threads, roles, now>>

(* The store that is kept in memory buries a message whose attempts are     *)
(* used up when its recipient asks for work; the other leaves it pending.   *)
BuryExhausted(i, a, e) ==
  LET m == messages[i] IN
  /\ <<a, e>> \in loaded /\ m.recipient = a /\ now < m.expires /\ m.attempts >= MaximumAttempts
  /\ m.state = "PENDING" \/ (m.state = "CLAIMED" /\ m.until <= now)
  /\ messages' = [messages EXCEPT ![i].state = "DEAD_LETTER"]
  /\ UNCHANGED <<threads, roles, loaded, claims, now>>

updateOrganizationalClaim(c) ==
  LET m == messages[c.id] IN
  m.state = "CLAIMED" /\ m.holder = c.holder /\ m.epoch = c.epoch /\ now < m.until

Released(i, state) == [messages EXCEPT ![i].state = state, ![i].holder = None, ![i].until = 0]

Renew(c, lease) ==
  /\ updateOrganizationalClaim(c)
  /\ messages' = [messages EXCEPT ![c.id].until = now + lease]
  /\ claims' = (claims \ {c}) \cup {[c EXCEPT !.until = now + lease]}
  /\ UNCHANGED <<threads, roles, loaded, now>>

Resolve(c) ==
  /\ updateOrganizationalClaim(c)
  /\ messages' = Released(c.id, "RESOLVED")
  /\ claims' = claims \ {c}
  /\ UNCHANGED <<threads, roles, loaded, now>>

Yield(c) ==
  /\ updateOrganizationalClaim(c)
  /\ messages' = Released(c.id, "PENDING")
  /\ claims' = claims \ {c}
  /\ UNCHANGED <<threads, roles, loaded, now>>

(* A holder that comes too late is told so and gives up.                    *)
StaleOrganizationalClaim(c) ==
  /\ ~updateOrganizationalClaim(c)
  /\ claims' = claims \ {c}
  /\ UNCHANGED <<messages, threads, roles, loaded, now>>

(* The host turns a message into work, without a claim.                     *)
Admit(i, a, e) ==
  /\ Checked(a, e)
  /\ messages[i].recipient = a /\ messages[i].state = "PENDING"
  /\ messages' = [messages EXCEPT ![i].state = "RESOLVED"]
  /\ UNCHANGED <<threads, roles, claims, now>>

FollowedToo(i) == TRUE

(* Only what nobody has taken and nobody has followed may go elsewhere.     *)
Unfollowed(i) == threads[messages[i].thread].last = i
Readdress(i, a, e, to) ==
  LET m == messages[i] IN
  /\ Checked(a, e)
  /\ m.state = "PENDING" /\ m.sender = a /\ m.execution = e
  /\ to \notin {m.recipient, a} /\ m.readdressed < MaximumReaddresses
  /\ Unfollowed(i)
  /\ messages' = [messages EXCEPT ![i].recipient = to, ![i].readdressed = @ + 1]
  /\ threads' = [threads EXCEPT ![m.thread].recipient = to]
  /\ UNCHANGED <<roles, claims, now>>

Expired(m) == m.state = "CLAIMED" /\ m.until <= now
SweepMessages ==
  /\ \E i \in DOMAIN messages : Expired(messages[i])
  /\ messages' = [i \in DOMAIN messages |->
       IF ~Expired(messages[i]) THEN messages[i]
       ELSE [messages[i] EXCEPT !.state = IF @ = "CLAIMED" /\ messages[i].attempts >= MaximumAttempts THEN "DEAD_LETTER" ELSE "PENDING",
                                !.holder = None, !.until = 0]]
  /\ UNCHANGED <<threads, roles, loaded, claims, now>>

Restart(a) ==
  /\ FoldFunction(+, 0, roles) < Cardinality(Actors) + MaxRestarts
  /\ roles' = [roles EXCEPT ![a] = @ + 1]
  /\ UNCHANGED <<messages, threads, loaded, claims, now>>

Tick == now < MaxTime /\ now' = now + 1 /\ UNCHANGED <<messages, threads, roles, loaded, claims>>

Init ==
  /\ messages = <<>> /\ threads = [t \in Threads |-> NoThread]
  /\ roles = [a \in Actors |-> 1] /\ loaded = {} /\ claims = {} /\ now = 1

Next ==
  \/ \E a \in Actors : LoadRole(a) \/ Restart(a)
  \/ \E t \in Threads, r \in loaded, to \in Actors, p \in Progress : Send(t, r[1], r[2], to, p)
  \/ \E t, u \in Threads, r \in loaded, to, too \in Actors, p \in Progress : SendFanout(<<t, u>>, r[1], r[2], <<to, too>>, p)
  \/ \E i \in DOMAIN messages, r \in loaded, to \in Actors, p \in Progress : RepairDeadLetter(i, r[1], r[2], to, p)
  \/ \E r \in loaded, lease \in Leases : Claim(r[1], r[2], lease)
  \/ \E c \in claims, lease \in Leases : Renew(c, lease)
  \/ \E c \in claims : Resolve(c) \/ Yield(c) \/ StaleOrganizationalClaim(c)
  \/ \E i \in DOMAIN messages, r \in loaded : Admit(i, r[1], r[2]) \/ BuryExhausted(i, r[1], r[2])
  \/ \E i \in DOMAIN messages, r \in loaded, to \in Actors : Readdress(i, r[1], r[2], to)
  \/ SweepMessages \/ Tick

Spec == Init /\ [][Next]_vars

(* A message has one live holder: whatever restarts, sweeps, yields and     *)
(* renewals went before, no two processes hold unexpired claims of it       *)
(* (AcquireMessage, updateOrganizationalClaim, SweepMessages).              *)
OneLiveHolder ==
  \A c, d \in claims : c.id = d.id /\ c.until > now /\ d.until > now => c = d

(* The messages of a thread hand the work over: each comes from the role    *)
(* the one before it went to, readdressed or not (advanceMessageThread,     *)
(* ReaddressMessage).                                                       *)
HandedOver ==
  \A i, j \in DOMAIN messages :
    messages[i].thread = messages[j].thread /\ messages[j].hop = messages[i].hop + 1
      => messages[j].sender = messages[i].recipient
=============================================================================
