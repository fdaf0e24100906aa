------------------------ MODULE OperationalExecution ------------------------
(***************************************************************************)
(* One authorized work invocation, from its outbox intent to its terminal   *)
(* record: Process of application/operational_execution_coordinator.go, the *)
(* loop of ProcessOne (adapters/executionruntime/worker.go) around it, the  *)
(* invocation's transitions (kernel/work_invocation.go) and the OpenHands   *)
(* boundary (adapters/openhands/client.go) to a conversation server.        *)
(*                                                                          *)
(* A caller is a ProcessOne call; two overlap when a call outlives its      *)
(* lease.  A kernel command is one step on the invocation and its revision  *)
(* (DecisionKernel), the outbox one intent with its holder (IntentDelivery).*)
(* The server runs the conversation, and pauses it before it answers an     *)
(* interrupt.  Whether the authority is current, the two deadlines and the  *)
(* brief are the environment's; a brief is a number, its digest.            *)
(***************************************************************************)
EXTENDS Integers, FiniteSets

CONSTANTS MaxCallers,  \* bound on the ProcessOne calls at work at a time
          MaxFaults    \* bound on failed or delayed calls, crashes and overrun leases

ASSUME BoundsAssumption == MaxCallers \in Nat \ {0} /\ MaxFaults \in Nat

Callers == 1..MaxCallers
NoCaller == 0

VARIABLES inv,      \* the invocation: state, revision, cancellation requested, request digest
          intent,   \* its outbox intent: state and holder
          conv,     \* the conversation: status, the brief it is tagged with, what its events show
          prompts,  \* how often the brief was submitted to the conversation
          posts,    \* submissions the client gave up on and the server may still get
          env,      \* authority current; deadline, effective deadline passed; brief to be built
          evidence, \* per observed outcome: the revision its evidence is registered under, or 0
          call,     \* per caller: where ProcessOne is, and what it has read
          faults,   \* how many faults there were
          past      \* history, for the properties: overrun leases, delayed posts, broken contexts

vars == <<inv, intent, conv, prompts, posts, env, evidence, call, faults, past>>

Ended == {"START_FAILED", "SUCCEEDED", "FAILED", "TIMED_OUT", "CANCELLED", "EXPIRED"}
Terminal == inv.state \in Ended
NoBrief == 0
Briefs == {1, 2}
Verdicts == {"none", "accepted", "violation", "correctable"}

Idle == [pc |-> "idle", rev |-> 0, brief |-> NoBrief, over |-> FALSE, ending |-> FALSE,
         fresh |-> FALSE, final |-> FALSE, obs |-> "none", kept |-> FALSE]

Init ==
  /\ inv = [state |-> "AUTHORIZED", rev |-> 1, cancel |-> FALSE, brief |-> NoBrief]
  /\ intent = [state |-> "PENDING", holder |-> NoCaller]
  /\ conv = [status |-> "none", brief |-> NoBrief, verdict |-> "none"]
  /\ prompts = 0 /\ posts = 0
  /\ env = [valid |-> TRUE, late |-> FALSE, overdue |-> FALSE, brief |-> 1]
  /\ evidence = [o \in Ended |-> 0]
  /\ call = [c \in Callers |-> Idle]
  /\ faults = 0 /\ past = {}

(* The next fault; the kinds that the properties except are remembered.     *)
Marked(kinds) == faults < MaxFaults /\ faults' = faults + 1 /\ past' = past \cup kinds
Fault == Marked({})
NoFault == UNCHANGED <<faults, past>>

(* A lease is overrun: the only fault of its behaviour.                     *)
Overrun == faults = 0 /\ MaxFaults > 0 /\ faults' = MaxFaults /\ past' = {"overrun"}

At(c, pc) == call[c].pc = pc
Goto(c, pc) == call' = [call EXCEPT ![c].pc = pc]

(* Process returns: the worker goes on at pc.                               *)
Return(c, pc) == call' = [call EXCEPT ![c] = [Idle EXCEPT !.pc = pc]]

-----------------------------------------------------------------------------
(* The worker.                                                              *)

(* A new ProcessOne, in the first free place, acquires the intent's lease.  *)
Acquire(c) ==
  /\ At(c, "idle") /\ \A d \in 1..(c - 1) : ~At(d, "idle")
  /\ intent.state = "PENDING"
  /\ intent' = [state |-> "CLAIMED", holder |-> c]
  /\ Return(c, "load") /\ NoFault
  /\ UNCHANGED <<inv, conv, prompts, posts, env, evidence>>

Holds(c) == intent = [state |-> "CLAIMED", holder |-> c]

(* The outcome is unknown or the conversation still runs: extend the lease, *)
(* wait, and process again, or yield after MaximumReconciliations.  A lost  *)
(* lease ends the call.                                                     *)
Wait(c) ==
  /\ At(c, "wait")
  /\ IF Holds(c) THEN \E pc \in {"load", "yield"} : Return(c, pc) ELSE Return(c, "idle")
  /\ NoFault /\ UNCHANGED <<inv, intent, conv, prompts, posts, env, evidence>>

(* Mutated: a released intent keeps its holder.                             *)
ReleaseKeepsHolder(c, pc, state) ==
  /\ At(c, pc) /\ Return(c, "idle") /\ NoFault
  /\ intent' = IF Holds(c) THEN [intent EXCEPT !.state = state] ELSE intent
  /\ UNCHANGED <<inv, conv, prompts, posts, env, evidence>>

(* resolve, or yield, by the holder; the call may fail.                     *)
Release(c, pc, state) ==
  /\ At(c, pc) /\ Return(c, "idle")
  /\ \/ NoFault /\ intent' = IF Holds(c) THEN [state |-> state, holder |-> NoCaller] ELSE intent
     \/ Fault /\ UNCHANGED intent
  /\ UNCHANGED <<inv, conv, prompts, posts, env, evidence>>
Resolve(c) == Release(c, "resolve", "RESOLVED")
Yield(c) == Release(c, "yield", "PENDING")

(* The worker process stops.                                                *)
Crash(c) ==
  /\ ~At(c, "idle") /\ Fault /\ Return(c, "idle")
  /\ UNCHANGED <<inv, intent, conv, prompts, posts, env, evidence>>

(* The sweeper returns an intent whose lease ran out: nobody works on it,   *)
(* or its holder is late (Process is given a whole lease after the wait     *)
(* that follows Extend, and the host may sleep).                            *)
Sweep ==
  /\ intent.state = "CLAIMED"
  /\ IF At(intent.holder, "idle") THEN NoFault ELSE Overrun
  /\ intent' = [state |-> "PENDING", holder |-> NoCaller]
  /\ UNCHANGED <<inv, conv, prompts, posts, env, evidence, call>>

-----------------------------------------------------------------------------
(* Commands on the invocation.                                              *)

(* ApplyWorkInvocationEvent.                                                *)
Claimable == inv.state = "AUTHORIZED" /\ ~env.late /\ env.valid
Expirable == inv.state = "AUTHORIZED" /\ env.late
Startable == inv.state = "CLAIMED" /\ ~env.late
Recordable(outcome) == inv.state = "STARTED" \/ (inv.state = "CLAIMED" /\ outcome = "START_FAILED")

(* The invocation is still as the caller has loaded it.                     *)
Current(c) == inv.rev = call[c].rev

(* Mutated: an error of the command service is taken for a rejection.       *)
ApplyErrorResolves(c, allowed, next, applied) ==
  \/ /\ Current(c) /\ allowed
     /\ inv' = [next EXCEPT !.rev = @ + 1] /\ call' = [call EXCEPT ![c] = applied] /\ NoFault
  \/ ~(Current(c) /\ allowed) /\ Return(c, "resolve") /\ UNCHANGED inv /\ NoFault
  \/ Fault /\ Return(c, "resolve") /\ UNCHANGED inv

(***************************************************************************)
(* apply: the command is decided on the revision the caller loaded.  A      *)
(* rejection receipt is ErrStaleWorkInvocation and resolves the intent;     *)
(* losing the race in the store, or a stale precondition of the claim, is   *)
(* ErrConflict and yields it, like an error with or without effect.         *)
(***************************************************************************)
Apply(c, allowed, next, applied) ==
  \/ /\ Current(c) /\ allowed
     /\ inv' = [next EXCEPT !.rev = @ + 1] /\ call' = [call EXCEPT ![c] = applied] /\ NoFault
  \/ /\ ~(Current(c) /\ allowed)
     /\ \/ Return(c, "resolve")
        \/ (~Current(c) \/ At(c, "claim")) /\ Return(c, "yield")
     /\ UNCHANGED inv /\ NoFault
  \/ /\ Fault /\ Return(c, "yield")
     /\ \/ UNCHANGED inv
        \/ Current(c) /\ allowed /\ inv' = [next EXCEPT !.rev = @ + 1]

Expire(c) ==
  /\ At(c, "expire")
  /\ Apply(c, Expirable, [inv EXCEPT !.state = "EXPIRED"], [Idle EXCEPT !.pc = "load"])
  /\ UNCHANGED <<intent, conv, prompts, posts, env, evidence>>

Claim(c) ==
  /\ At(c, "claim")
  /\ Apply(c, Claimable, [inv EXCEPT !.state = "CLAIMED"], [Idle EXCEPT !.pc = "load", !.fresh = TRUE])
  /\ UNCHANGED <<intent, conv, prompts, posts, env, evidence>>

(* recordStarted, then the invocation is loaded again: a conversation that  *)
(* had ended is recorded at once.                                           *)
RecordStarted(c) ==
  /\ At(c, "record started")
  /\ Apply(c, Startable, [inv EXCEPT !.state = "STARTED", !.brief = call[c].brief],
           [Idle EXCEPT !.pc = "load", !.obs = IF call[c].obs = "RUNNING" THEN "none" ELSE call[c].obs])
  /\ UNCHANGED <<intent, conv, prompts, posts, env, evidence>>

(***************************************************************************)
(* recordTerminalObservation first registers the evidence.  Its command's   *)
(* identity is made of the invocation, its request and the observed state,  *)
(* its causation of the invocation's last event: repeated at the revision   *)
(* it was registered under it is answered as before, at another revision it *)
(* is a COMMAND_ID_REUSE, an error on which the worker yields.  A passed    *)
(* deadline makes a timeout of what was observed as a cancellation.         *)
(***************************************************************************)
Seen(outcome) == IF outcome = "TIMED_OUT" THEN "CANCELLED" ELSE outcome
Registered(c) == [evidence EXCEPT ![Seen(call[c].obs)] = call[c].rev]
Reused(c) == evidence[Seen(call[c].obs)] \notin {0, call[c].rev}
RecordEvidence(c) ==
  /\ At(c, "record terminal") /\ ~call[c].kept
  /\ \/ ~Reused(c) /\ evidence' = Registered(c) /\ NoFault
        /\ call' = [call EXCEPT ![c].kept = TRUE]
     \/ Reused(c) /\ Return(c, "yield") /\ NoFault /\ UNCHANGED evidence
     \/ /\ Fault /\ Return(c, "yield")
        /\ \/ UNCHANGED evidence
           \/ ~Reused(c) /\ evidence' = Registered(c)
  /\ UNCHANGED <<inv, intent, conv, prompts, posts, env>>

(* Then it sends the command.                                               *)
RecordTerminal(c) ==
  /\ At(c, "record terminal") /\ call[c].kept
  /\ Apply(c, Recordable(call[c].obs), [inv EXCEPT !.state = call[c].obs], [Idle EXCEPT !.pc = "resolve"])
  /\ UNCHANGED <<intent, conv, prompts, posts, env, evidence>>

(* RequestInvocationCancellation of the operator.                           *)
RequestCancellation ==
  /\ inv.state = "STARTED" /\ ~inv.cancel
  /\ inv' = [inv EXCEPT !.cancel = TRUE, !.rev = @ + 1]
  /\ NoFault /\ UNCHANGED <<intent, conv, prompts, posts, env, evidence, call>>

-----------------------------------------------------------------------------
(* Process, between its calls.                                              *)

(* OperationalExecutionContext.Validate.                                    *)
Valid == env.valid /\ ~env.late

(* Mutated: a deadline that has passed does not cancel the conversation.    *)
BranchIgnoresDeadline(c) ==
  IF call[c].obs # "none" THEN "record terminal"
  ELSE CASE Terminal -> "resolve"
         [] inv.state = "AUTHORIZED" ->
              IF env.late THEN "expire" ELSE IF Valid THEN "claim" ELSE "resolve"
         [] inv.state = "CLAIMED" ->
              IF ~Valid THEN "fail start" ELSE IF call[c].fresh THEN "start" ELSE "reconcile"
         [] inv.state = "STARTED" ->
              IF inv.brief # env.brief THEN "supersede" ELSE IF inv.cancel THEN "cancel" ELSE "inspect"

(* The branch Process takes on the invocation it has loaded.                *)
Branch(c) ==
  IF call[c].obs # "none" THEN "record terminal"
  ELSE CASE Terminal -> "resolve"
         [] inv.state = "AUTHORIZED" ->
              IF env.late THEN "expire" ELSE IF Valid THEN "claim" ELSE "resolve"
         [] inv.state = "CLAIMED" ->
              IF ~Valid THEN "fail start" ELSE IF call[c].fresh THEN "start" ELSE "reconcile"
         [] inv.state = "STARTED" ->
              IF inv.brief # env.brief THEN "supersede"
              ELSE IF inv.cancel \/ env.overdue THEN "cancel" ELSE "inspect"

(* What an error leaves to do: the invocation cannot be read; its context   *)
(* is not a valid one; or the brief cannot be built, which is a known start *)
(* failure before the start and an invalid execution after it.              *)
BrokenBranch ==
  {"yield", "resolve"} \cup (IF inv.state = "CLAIMED" THEN {"fail start"} ELSE {})

(* What the call keeps of the invocation, the brief and the clock.          *)
Loaded(c, pc) ==
  [pc |-> IF pc = "fail start" THEN "record terminal" ELSE pc,
   rev |-> inv.rev,
   brief |-> IF inv.state = "CLAIMED" THEN env.brief ELSE NoBrief,
   over |-> inv.state = "STARTED" /\ env.overdue,
   ending |-> inv.state = "STARTED" /\ (inv.cancel \/ env.overdue),
   fresh |-> FALSE,
   final |-> pc = "reconcile",
   obs |-> IF pc = "fail start" THEN "START_FAILED" ELSE call[c].obs,
   kept |-> FALSE]

(* LoadOperationalExecution, buildBrief and the reading of the clock.       *)
Load(c) ==
  /\ At(c, "load")
  /\ \/ call' = [call EXCEPT ![c] = Loaded(c, Branch(c))] /\ NoFault
     \/ /\ Marked({"context"}) /\ ~Terminal
        /\ \E pc \in BrokenBranch : call' = [call EXCEPT ![c] = Loaded(c, pc)]
  /\ UNCHANGED <<inv, intent, conv, prompts, posts, env, evidence>>

-----------------------------------------------------------------------------
(* The boundary to the conversation.                                        *)

Active(cv) == cv.status \in {"idle", "running"}
Interrupted(cv) == IF Active(cv) \/ cv.status = "condensed" THEN [cv EXCEPT !.status = "paused"] ELSE cv

(* observationAt: only an interrupted call takes a pause for the end.       *)
ObservationAt(cv, interrupted) ==
  CASE cv.status = "finished" -> "SUCCEEDED"
    [] cv.status = "error" -> "FAILED"
    [] cv.status = "paused" /\ interrupted -> "CANCELLED"
    [] OTHER -> "RUNNING"

(***************************************************************************)
(* Inspect, as the conversation it leaves and what it observes: a second    *)
(* violation of policy stops the conversation, a first one or an incomplete *)
(* result is answered with a correction, a pause for compaction with a      *)
(* checkpoint, an accepted result stops the conversation as a success.      *)
(***************************************************************************)
Stopped(cv) == IF Active(cv) THEN [cv EXCEPT !.status = "paused"] ELSE cv
Inspected(cv) ==
  CASE cv.verdict = "violation" -> <<Stopped(cv), "FAILED">>
    [] cv.verdict = "correctable" -> <<[cv EXCEPT !.status = "running", !.verdict = "none"], "RUNNING">>
    [] cv.verdict \in {"none", "accepted"} /\ cv.status = "condensed" ->
         <<[cv EXCEPT !.status = "running"], "RUNNING">>
    [] cv.verdict = "accepted" /\ cv.status # "condensed" -> <<Stopped(cv), "SUCCEEDED">>
    [] cv.verdict = "none" /\ cv.status # "condensed" -> <<cv, ObservationAt(cv, FALSE)>>

(* validateHandlerObservation: the coordinator's own check of the result.   *)
ValidatedHandler(obs) ==
  IF obs = "SUCCEEDED" /\ conv.verdict \in {"violation", "correctable"} THEN {"SUCCEEDED", "FAILED"}
  ELSE {obs}

(* conversationMatches.                                                     *)
Matches(c) == conv.brief = call[c].brief

(* Mutated: a conversation that does not run was not given the brief.       *)
PromptedIfRunning(c) == conv.status = "running" /\ Matches(c)

(* executionPromptIndex: the brief is among the conversation's events.      *)
Prompted(c) == prompts > 0 /\ Matches(c)

(* A start ends in an observation to record.                                *)
Observed(c) ==
  /\ conv' = Inspected(conv)[1]
  /\ \E obs \in ValidatedHandler(Inspected(conv)[2]) :
       call' = [call EXCEPT ![c].pc = "record started", ![c].obs = obs]
  /\ UNCHANGED prompts
Rejected(c) == call' = [call EXCEPT ![c].pc = "record terminal", ![c].obs = "START_FAILED"]

(* startOrReconcile: the first Start's error is reconciled, any later error *)
(* leaves the outcome unknown.                                              *)
StartError(c) == IF call[c].final THEN Return(c, "wait")
                 ELSE call' = [call EXCEPT ![c].pc = "reconcile", ![c].final = TRUE]

(* Start, up to its decision to submit: the conversation is created unless  *)
(* it exists, and its events are read.                                      *)
Start(c) ==
  /\ At(c, "start")
  /\ \/ /\ conv.status = "none" /\ NoFault
        /\ conv' = [status |-> "idle", brief |-> call[c].brief, verdict |-> "none"]
        /\ Goto(c, "submit") /\ UNCHANGED prompts
     \/ conv.status = "none" /\ Fault /\ Rejected(c) /\ UNCHANGED <<conv, prompts>>
     \/ Prompted(c) /\ Observed(c) /\ NoFault
     \/ Matches(c) /\ ~Prompted(c) /\ Goto(c, "submit") /\ NoFault /\ UNCHANGED <<conv, prompts>>
     \/ conv.status # "none" /\ ~Matches(c) /\ StartError(c) /\ NoFault /\ UNCHANGED <<conv, prompts>>
     \/ Fault /\ StartError(c) /\ UNCHANGED <<conv, prompts>>
  /\ UNCHANGED <<inv, intent, posts, env, evidence>>

(* The brief is posted, run: true.                                          *)
Accept == conv' = [conv EXCEPT !.status = "running"] /\ prompts' = prompts + 1

Submit(c) ==
  /\ At(c, "submit")
  /\ \/ Accept /\ Goto(c, "poll") /\ NoFault /\ UNCHANGED posts
     \/ /\ Marked({"delay"}) /\ posts' \in {posts, posts + 1} /\ Goto(c, "poll")
        /\ UNCHANGED <<conv, prompts>>
     \/ /\ Fault /\ (IF Prompted(c) THEN Goto(c, "poll") ELSE Rejected(c))
        /\ UNCHANGED <<conv, prompts, posts>>
  /\ UNCHANGED <<inv, intent, env, evidence>>

(* The rest of Start: wait for the prompt among the events, or look for it  *)
(* after an error.                                                          *)
Poll(c) ==
  /\ At(c, "poll")
  /\ \/ Prompted(c) /\ Observed(c) /\ NoFault
     \/ ~Prompted(c) /\ StartError(c) /\ NoFault /\ UNCHANGED <<conv, prompts>>
     \/ Fault /\ StartError(c) /\ UNCHANGED <<conv, prompts>>
  /\ UNCHANGED <<inv, intent, posts, env, evidence>>

(* A delayed submission arrives.                                            *)
Arrive ==
  /\ posts > 0 /\ posts' = posts - 1 /\ Accept /\ NoFault
  /\ UNCHANGED <<inv, intent, env, evidence, call>>

(* ReconcileStart: nothing there, or no prompt, means start.                *)
Reconcile(c) ==
  /\ At(c, "reconcile")
  /\ \/ Prompted(c) /\ Observed(c) /\ NoFault
     \/ /\ conv.status = "none" \/ (Matches(c) /\ ~Prompted(c))
        /\ Goto(c, "start") /\ NoFault /\ UNCHANGED <<conv, prompts>>
     \/ conv.status # "none" /\ ~Matches(c) /\ Return(c, "wait") /\ NoFault /\ UNCHANGED <<conv, prompts>>
     \/ Fault /\ Return(c, "wait") /\ UNCHANGED <<conv, prompts>>
  /\ UNCHANGED <<inv, intent, posts, env, evidence>>

(* Mutated: whatever ends after the deadline has timed out.                 *)
ConcludeTimedOut(c, obs) ==
  IF obs = "RUNNING" THEN Return(c, "wait")
  ELSE \E o \in ValidatedHandler(obs) :
         call' = [call EXCEPT ![c].pc = "record terminal",
                              ![c].obs = IF call[c].over THEN "TIMED_OUT" ELSE o]

(* Process on what it observed of a started conversation: still running, or *)
(* the outcome to record.                                                   *)
Conclude(c, obs) ==
  IF obs = "RUNNING" THEN Return(c, "wait")
  ELSE \E o \in ValidatedHandler(obs) :
         call' = [call EXCEPT ![c].pc = "record terminal",
                              ![c].obs = IF call[c].over /\ o = "CANCELLED" THEN "TIMED_OUT" ELSE o]

(* A boundary call on a started conversation that fails, perhaps after it   *)
(* has interrupted the conversation.                                        *)
BoundaryError(c, interrupted) ==
  Fault /\ conv' \in {conv, interrupted} /\ Return(c, "wait")

Inspect(c) ==
  /\ At(c, "inspect")
  /\ \/ conv' = Inspected(conv)[1] /\ Conclude(c, Inspected(conv)[2]) /\ NoFault
     \/ BoundaryError(c, IF conv.verdict = "none" THEN conv ELSE Stopped(conv))
  /\ UNCHANGED <<inv, intent, prompts, posts, env, evidence>>

Cancel(c) ==
  /\ At(c, "cancel")
  /\ \/ /\ conv' = Interrupted(conv) /\ NoFault
        /\ Conclude(c, ObservationAt(Interrupted(conv), TRUE))
     \/ BoundaryError(c, Interrupted(conv))
  /\ UNCHANGED <<inv, intent, prompts, posts, env, evidence>>

(* ReconcileSuperseded interrupts what is active; what it observes is a     *)
(* failure unless it succeeded or the invocation is ending anyway.          *)
Superseded(c) ==
  LET obs == ObservationAt(Stopped(conv), Active(conv))
  IN IF obs # "SUCCEEDED" /\ ~call[c].ending THEN "FAILED" ELSE obs
Supersede(c) ==
  /\ At(c, "supersede")
  /\ \/ conv' = Stopped(conv) /\ Conclude(c, Superseded(c)) /\ NoFault
     \/ BoundaryError(c, Stopped(conv))
  /\ UNCHANGED <<inv, intent, prompts, posts, env, evidence>>

-----------------------------------------------------------------------------
(* The environment.                                                         *)

(* The agent works: the run ends or pauses to compact its context, or its   *)
(* events come to show an accepted result or something to object to.        *)
Converse ==
  /\ conv.status = "running"
  /\ \/ \E s \in {"finished", "error", "condensed"} : conv' = [conv EXCEPT !.status = s]
     \/ conv.verdict = "none" /\ \E v \in Verdicts \ {"none"} : conv' = [conv EXCEPT !.verdict = v]
  /\ NoFault /\ UNCHANGED <<inv, intent, prompts, posts, env, evidence, call>>

(* The rest changes once, while the invocation is in a state in which       *)
(* Process reads it.                                                        *)
Changed(field, value, states) ==
  /\ env[field] # value /\ inv.state \in states /\ env' = [env EXCEPT ![field] = value]
  /\ NoFault /\ UNCHANGED <<inv, intent, conv, prompts, posts, evidence, call>>

(* The task, its budget or the actor's execution moves on.                  *)
AuthorityLost == Changed("valid", FALSE, {"AUTHORIZED", "CLAIMED"})

(* The invocation's deadline; later, extended by suspensions, the effective *)
(* one.                                                                     *)
DeadlinePasses == Changed("late", TRUE, {"AUTHORIZED", "CLAIMED", "STARTED"})
EffectiveDeadlinePasses == env.late /\ Changed("overdue", TRUE, {"STARTED"})

(* An upgrade changes what the brief is built from.                         *)
BriefChanges == Changed("brief", 2, {"CLAIMED", "STARTED"})

Work(c) ==
  \/ Wait(c) \/ Resolve(c) \/ Yield(c) \/ Load(c)
  \/ Expire(c) \/ Claim(c) \/ RecordStarted(c) \/ RecordEvidence(c) \/ RecordTerminal(c)
  \/ Start(c) \/ Submit(c) \/ Poll(c) \/ Reconcile(c)
  \/ Inspect(c) \/ Cancel(c) \/ Supersede(c)

Next ==
  \/ \E c \in Callers : Acquire(c) \/ Work(c) \/ Crash(c)
  \/ Sweep \/ RequestCancellation \/ Arrive \/ Converse
  \/ AuthorityLost \/ DeadlinePasses \/ EffectiveDeadlinePasses \/ BriefChanges

(* Calls go on, the feed and the sweeper run, and time passes.              *)
Fairness ==
  /\ \A c \in Callers : WF_vars(Work(c))
  /\ WF_vars(\E c \in Callers : Acquire(c))
  /\ WF_vars(Sweep) /\ WF_vars(DeadlinePasses) /\ WF_vars(EffectiveDeadlinePasses)

Spec == Init /\ [][Next]_vars /\ Fairness

-----------------------------------------------------------------------------
(* Properties.                                                              *)

(* Every variable keeps its shape; a conversation is tagged with a brief    *)
(* from its creation, and an intent has a holder just while it is claimed.  *)
TypeOK ==
  /\ inv \in [state : {"AUTHORIZED", "CLAIMED", "STARTED"} \cup Ended, rev : 1..5,
              cancel : BOOLEAN, brief : Briefs \cup {NoBrief}]
  /\ intent \in [state : {"PENDING", "CLAIMED", "RESOLVED"}, holder : Callers \cup {NoCaller}]
  /\ conv \in [status : {"none", "idle", "running", "condensed", "paused", "finished", "error"},
               brief : Briefs \cup {NoBrief}, verdict : Verdicts]
  /\ prompts \in Nat /\ posts \in 0..MaxFaults /\ faults \in 0..MaxFaults
  /\ env \in [valid : BOOLEAN, late : BOOLEAN, overdue : BOOLEAN, brief : Briefs]
  /\ evidence \in [Ended -> Nat]
  /\ (conv.status = "none") = (conv.brief = NoBrief)
  /\ (intent.state = "CLAIMED") = (intent.holder # NoCaller)

(* Process resubmits nothing it can know of: the brief reaches the          *)
(* conversation a second time only after a lease was overrun, or after the  *)
(* client gave up on a submission that was still under way.                 *)
SubmittedOnce == prompts > 1 => past \cap {"overrun", "delay"} # {}

(* The started checkpoint names a conversation that has been given the very *)
(* brief the checkpoint records (steps 6 to 8 of the execution sequence in  *)
(* docs/architecture/112).                                                  *)
StartedIsSubmitted ==
  inv.state \in {"STARTED", "SUCCEEDED", "FAILED", "TIMED_OUT", "CANCELLED"} =>
    prompts > 0 /\ conv.brief = inv.brief

(* With one caller at a time and no submission adrift, what is recorded of  *)
(* an invocation is how its conversation ended, and nothing runs on behind  *)
(* a recorded end; a start is recorded as failed after the submission only  *)
(* if the authority or the deadline was lost or the brief could not be      *)
(* built.                                                                   *)
OutcomeMatchesConversation ==
  past \cap {"overrun", "delay"} = {} =>
    /\ inv.state = "SUCCEEDED" => conv.status = "finished" \/ conv.verdict = "accepted"
    /\ inv.state \in {"CANCELLED", "TIMED_OUT"} => conv.status = "paused"
    /\ inv.state = "FAILED" => ~Active(conv)
    /\ inv.state = "START_FAILED" /\ prompts > 0 => ~Valid \/ "context" \in past
    /\ inv.state = "EXPIRED" => conv.status = "none"

(* The worker gives up an invocation that has not ended only if its         *)
(* authority or its deadline was lost before the claim, its deadline passed *)
(* before the start was recorded, a cancellation request overtook it, its  *)
(* context was found invalid, or two callers overlapped.                    *)
AbandonedOnlyIf ==
  intent.state = "RESOLVED" /\ past \cap {"overrun", "context"} = {} =>
    /\ inv.state = "AUTHORIZED" => ~Valid
    /\ inv.state = "CLAIMED" => env.late
    /\ inv.state = "STARTED" => inv.cancel

(***************************************************************************)
(* Every intent is resolved in the end, whatever fails on the way, except   *)
(* for a started invocation that can never be recorded.  Its brief changed, *)
(* it is cancelled or overdue, and its conversation is paused, which        *)
(* ReconcileSuperseded takes for running; or what is observed of the        *)
(* conversation was registered as evidence before the cancellation request  *)
(* and not recorded, and every retry is a COMMAND_ID_REUSE                  *)
(* (execution_evidence_recorder.go:94-113).  docs/architecture/112:59 says  *)
(* otherwise: "a later pass inspects the same conversation and completes".  *)
(***************************************************************************)
Observable ==
  IF inv.brief # env.brief THEN ObservationAt(Stopped(conv), Active(conv))
  ELSE ObservationAt(Interrupted(conv), TRUE)
Wedged ==
  /\ inv.state = "STARTED"
  /\ \/ inv.brief # env.brief /\ (inv.cancel \/ env.overdue) /\ Observable = "RUNNING"
     \/ inv.cancel /\ \E o \in ValidatedHandler(Observable) \cap Ended : evidence[o] \notin {0, inv.rev}
EventuallySettled == <>(intent.state = "RESOLVED") \/ <>[]Wedged

(* docs/architecture/112: "Unknown external state is never reported as      *)
(* success or failure."  A start is reported as failed only when no agent   *)
(* works on the brief.                                                      *)
StartFailureIsKnown == inv.state = "START_FAILED" => ~(prompts > 0 /\ Active(conv))

(* ReconcileSuperseded "closes an invocation whose canonical brief changed  *)
(* while it was in flight" (adapters/openhands/client.go:1058).             *)
SupersededIsClosed ==
  (inv.state = "STARTED" /\ inv.brief # env.brief) ~> (Terminal \/ intent.state = "RESOLVED")
=============================================================================
