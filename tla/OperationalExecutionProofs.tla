--------------------- MODULE OperationalExecutionProofs ---------------------
(***************************************************************************)
(* For any number of callers and faults: OperationalExecution keeps its     *)
(* types; a started checkpoint always names a conversation that was given   *)
(* the brief it records; the brief is submitted once, what is recorded is   *)
(* how the conversation ended, and an invocation is abandoned for a reason, *)
(* as long as no lease is overrun (and no submission left adrift).          *)
(***************************************************************************)
EXTENDS OperationalExecution, TLAPS

Statuses == {"none", "idle", "running", "condensed", "paused", "finished", "error"}
Outcomes == Ended \cup {"none", "RUNNING"}
InvType == [state : {"AUTHORIZED", "CLAIMED", "STARTED"} \cup Ended, rev : 1..5,
            cancel : BOOLEAN, brief : Briefs \cup {NoBrief}]
ConvType == [status : Statuses, brief : Briefs \cup {NoBrief}, verdict : Verdicts]
CallType ==
  [pc : {"idle", "load", "wait", "yield", "resolve", "expire", "claim", "start", "reconcile",
         "submit", "poll", "record started", "record terminal", "inspect", "cancel", "supersede"},
   rev : Nat, brief : Briefs \cup {NoBrief}, over : BOOLEAN, ending : BOOLEAN,
   fresh : BOOLEAN, final : BOOLEAN, obs : Outcomes, kept : BOOLEAN]

(* A conversation is tagged from its creation, and shows nothing before it. *)
Tagged(cv) ==
  /\ (cv.status = "none") = (cv.brief = NoBrief)
  /\ cv.status = "none" => cv.verdict = "none"

(* What a caller knows, of the conversation cv with p submissions, where it *)
(* stands: the brief while it starts, the conversation's existence once it  *)
(* may submit, the submission once it may record the start.                 *)
Knows(r, cv, p) ==
  /\ r.pc \in {"start", "submit", "poll", "reconcile"} => r.brief # NoBrief
  /\ r.pc \in {"submit", "poll"} => cv.status # "none"
  /\ r.pc = "record started" => p > 0 /\ cv.brief = r.brief /\ r.obs # "none"
  /\ r.pc = "record terminal" => r.obs \in Ended
  /\ r.pc = "load" => r.obs # "RUNNING"

(* Each transition of the invocation counts in its revision.                *)
RevisionFitsState(i) ==
  /\ i.state = "AUTHORIZED" => i.rev = 1 /\ i.cancel = FALSE
  /\ i.state = "CLAIMED" => i.rev = 2 /\ i.cancel = FALSE
  /\ i.state = "STARTED" => i.rev <= 4 /\ (i.cancel = FALSE => i.rev = 3)

(* What was submitted, or still may be, was submitted to a conversation.    *)
SubmittedToIt ==
  /\ prompts > 0 => conv.status # "none"
  /\ posts > 0 => conv.status # "none"

(* The parts of the invariant.                                              *)
ConvInv == conv \in ConvType /\ Tagged(conv)
CallInv == call \in [Callers -> CallType] /\ \A c \in Callers : Knows(call[c], conv, prompts)
InvInv == inv \in InvType /\ RevisionFitsState(inv)
CountInv ==
  /\ prompts \in Nat /\ posts \in Nat /\ posts <= faults /\ faults \in 0..MaxFaults
  /\ env \in [valid : BOOLEAN, late : BOOLEAN, overdue : BOOLEAN, brief : Briefs]
IntentInv ==
  /\ intent \in [state : {"PENDING", "CLAIMED", "RESOLVED"}, holder : Callers \cup {NoCaller}]
  /\ (intent.state = "CLAIMED") = (intent.holder # NoCaller)

IInv == ConvInv /\ CallInv /\ InvInv /\ CountInv /\ IntentInv /\ SubmittedToIt /\ StartedIsSubmitted

(* The conversation, once created, keeps its tag; submissions only grow.    *)
Grows ==
  /\ conv.status # "none" => conv'.status # "none" /\ conv'.brief = conv.brief
  /\ prompts' \in Nat /\ prompts' >= prompts

(* One caller moves to a place where it knows what it must.                 *)
Moves(c, r) == call' = [call EXCEPT ![c] = r] /\ r \in CallType /\ Knows(r, conv', prompts')

-----------------------------------------------------------------------------
(* No type tells the sweeper's "nobody" from a caller but its number.       *)
LEMMA NobodyIsNoCaller == NoCaller \notin Callers
  BY BoundsAssumption DEF Callers, NoCaller

(* The boundary's operations on a conversation keep its type and its tag.   *)
LEMMA ConversationKeepsTag ==
  ASSUME NEW cv \in ConvType, Tagged(cv), NEW w \in {Stopped(cv), Interrupted(cv), Inspected(cv)[1]}
  PROVE  /\ w \in ConvType /\ Tagged(w) /\ w.brief = cv.brief
         /\ cv.status # "none" => w.status # "none"
<1>1. /\ Stopped(cv) \in ConvType /\ Tagged(Stopped(cv)) /\ Stopped(cv).brief = cv.brief
      /\ cv.status # "none" => Stopped(cv).status # "none"
  BY DEF Stopped, Active, ConvType, Tagged, Statuses
<1>2. /\ Interrupted(cv) \in ConvType /\ Tagged(Interrupted(cv)) /\ Interrupted(cv).brief = cv.brief
      /\ cv.status # "none" => Interrupted(cv).status # "none"
  BY DEF Interrupted, Active, ConvType, Tagged, Statuses
<1>3. /\ Inspected(cv)[1] \in ConvType /\ Tagged(Inspected(cv)[1]) /\ Inspected(cv)[1].brief = cv.brief
      /\ cv.status # "none" => Inspected(cv)[1].status # "none"
  <2>1. cv.verdict \in Verdicts
    BY DEF ConvType
  <2>2. CASE cv.verdict = "violation"
    BY <2>2, <1>1 DEF Inspected
  <2>3. CASE cv.verdict = "correctable"
    <3>1. Inspected(cv)[1] = [cv EXCEPT !.status = "running", !.verdict = "none"]
      BY <2>3 DEF Inspected
    <3>2. QED
      BY <2>3, <3>1 DEF ConvType, Tagged, Statuses, Verdicts
  <2>4. CASE cv.verdict \in {"none", "accepted"} /\ cv.status = "condensed"
    <3>1. Inspected(cv)[1] = [cv EXCEPT !.status = "running"]
      BY <2>4 DEF Inspected
    <3>2. QED
      BY <2>4, <3>1 DEF ConvType, Tagged, Statuses
  <2>5. CASE cv.verdict = "accepted" /\ cv.status # "condensed"
    BY <2>5, <1>1 DEF Inspected
  <2>6. CASE cv.verdict = "none" /\ cv.status # "condensed"
    BY <2>6 DEF Inspected
  <2>7. QED
    BY <2>1, <2>2, <2>3, <2>4, <2>5, <2>6 DEF Verdicts
<1>4. QED
  BY <1>1, <1>2, <1>3

(* What the boundary observes is running or an end.                         *)
LEMMA ObservationType ==
  ASSUME NEW cv \in ConvType
  PROVE  /\ \A i \in BOOLEAN : ObservationAt(cv, i) \in {"RUNNING", "SUCCEEDED", "FAILED", "CANCELLED"}
         /\ Inspected(cv)[2] \in {"RUNNING", "SUCCEEDED", "FAILED", "CANCELLED"}
<1>1. \A i \in BOOLEAN : ObservationAt(cv, i) \in {"RUNNING", "SUCCEEDED", "FAILED", "CANCELLED"}
  BY DEF ObservationAt
<1>2. cv.verdict \in Verdicts
  BY DEF ConvType
<1>3. QED
  BY <1>1, <1>2 DEF Inspected, Verdicts

(* What a caller knows stays true of a conversation that keeps its tag.     *)
LEMMA KnowledgeLasts ==
  ASSUME NEW r, NEW cv, NEW cw, NEW p \in Nat, NEW q \in Nat, q >= p,
         cv.status # "none" => cw.status # "none" /\ cw.brief = cv.brief,
         p > 0 => cv.status # "none",
         Knows(r, cv, p)
  PROVE  Knows(r, cw, q)
<1>1. p > 0 => q > 0
  OBVIOUS
<1>2. QED
  BY <1>1, Zenon DEF Knows

(* The other callers know what they knew, so a move keeps every call sound. *)
LEMMA MoveKeepsCalls ==
  ASSUME IInv, Grows, NEW c \in Callers, NEW r, Moves(c, r)
  PROVE  CallInv'
<1>1. call' \in [Callers -> CallType]
  BY DEF IInv, CallInv, Moves
<1>2. ASSUME NEW d \in Callers PROVE Knows(call'[d], conv', prompts')
  <2>1. CASE d = c
    BY <2>1 DEF Moves, IInv, CallInv
  <2>2. CASE d # c
    <3>1. call'[d] = call[d]
      BY <2>2 DEF Moves, IInv, CallInv
    <3>2. Knows(call[d], conv, prompts) /\ prompts \in Nat /\ (prompts > 0 => conv.status # "none")
      BY DEF IInv, CallInv, CountInv, SubmittedToIt
    <3>3. Knows(call[d], conv', prompts')
      BY <3>2, KnowledgeLasts DEF Grows
    <3>4. QED
      BY <3>1, <3>3
  <2>3. QED
    BY <2>1, <2>2
<1>3. QED
  BY <1>1, <1>2 DEF CallInv

(* The same when no caller moves.                                           *)
LEMMA GrowthKeepsCalls ==
  ASSUME IInv, Grows, UNCHANGED call
  PROVE  CallInv'
<1>1. ASSUME NEW d \in Callers PROVE Knows(call[d], conv', prompts')
  BY KnowledgeLasts DEF IInv, CallInv, CountInv, SubmittedToIt, Grows
<1>2. QED
  BY <1>1 DEF IInv, CallInv

(* Faults are counted, and bounded.                                         *)
LEMMA FaultsCounted ==
  ASSUME CountInv, NoFault \/ Overrun \/ \E kinds : Marked(kinds)
  PROVE  faults' \in 0..MaxFaults /\ faults' >= faults
  BY BoundsAssumption DEF CountInv, NoFault, Overrun, Marked

(* A call that returns to the worker has nothing to know.                   *)
LEMMA ReturnKeepsCalls ==
  ASSUME IInv, Grows, NEW c \in Callers, NEW pc \in {"idle", "load", "wait", "yield", "resolve"},
         Return(c, pc)
  PROVE  CallInv'
<1>1. [Idle EXCEPT !.pc = pc] \in CallType /\ Knows([Idle EXCEPT !.pc = pc], conv', prompts')
  BY DEF Idle, CallType, Knows, NoBrief, Outcomes
<1>2. Moves(c, [Idle EXCEPT !.pc = pc])
  BY <1>1 DEF Return, Moves
<1>3. QED
  BY <1>2, MoveKeepsCalls

(* What a step leaves to show when it touches neither the invocation nor    *)
(* the conversation.                                                        *)
LEMMA OutsideUntouched ==
  ASSUME IInv, UNCHANGED <<inv, conv, prompts, posts, env>>,
         NoFault \/ Overrun \/ \E kinds : Marked(kinds), CallInv', IntentInv'
  PROVE  IInv'
<1>1. faults' \in 0..MaxFaults /\ faults' >= faults
  BY FaultsCounted DEF IInv
<1>2. CountInv'
  BY <1>1 DEF IInv, CountInv
<1>3. ConvInv' /\ InvInv' /\ SubmittedToIt' /\ StartedIsSubmitted'
  BY DEF IInv, ConvInv, InvInv, RevisionFitsState, SubmittedToIt, StartedIsSubmitted
<1>4. QED
  BY <1>2, <1>3 DEF IInv

(* Nothing happens to the conversation: it keeps its tag.                   *)
LEMMA StillGrows ==
  ASSUME IInv, UNCHANGED <<conv, prompts>>
  PROVE  Grows
  BY DEF IInv, CountInv, Grows

-----------------------------------------------------------------------------
(* The steps of the worker and the sweeper.                                 *)

LEMMA WorkerSteps ==
  ASSUME IInv, NEW c \in Callers,
         Acquire(c) \/ Wait(c) \/ Resolve(c) \/ Yield(c) \/ Crash(c)
  PROVE  IInv'
<1>1. UNCHANGED <<inv, conv, prompts, posts, env>>
  BY DEF Acquire, Wait, Resolve, Yield, Release, Crash
<1>2. Grows
  BY <1>1, StillGrows
<1>3. \E pc \in {"idle", "load", "wait", "yield", "resolve"} : Return(c, pc)
  BY DEF Acquire, Wait, Resolve, Yield, Release, Crash
<1>4. CallInv'
  BY <1>2, <1>3, ReturnKeepsCalls
<1>5. NoFault \/ \E kinds : Marked(kinds)
  BY Zenon DEF Acquire, Wait, Resolve, Yield, Release, Crash, Fault
<1>6. IntentInv'
  <2>1. CASE Acquire(c)
    BY <2>1, NobodyIsNoCaller DEF Acquire, IntentInv
  <2>2. CASE Wait(c) \/ Crash(c)
    BY <2>2 DEF Wait, Crash, IInv, IntentInv
  <2>3. ASSUME NEW pc, NEW state \in {"PENDING", "RESOLVED"}, Release(c, pc, state) PROVE IntentInv'
    <3>1. UNCHANGED intent \/ intent' = [state |-> state, holder |-> NoCaller]
      BY <2>3 DEF Release
    <3>2. QED
      BY <3>1 DEF IInv, IntentInv
  <2>4. QED
    BY <2>1, <2>2, <2>3 DEF Resolve, Yield
<1>7. QED
  BY <1>1, <1>4, <1>5, <1>6, OutsideUntouched

LEMMA SweepStep ==
  ASSUME IInv, Sweep
  PROVE  IInv'
<1>1. CallInv'
  BY StillGrows, GrowthKeepsCalls DEF Sweep
<1>2. IntentInv'
  BY DEF Sweep, IntentInv
<1>3. QED
  BY <1>1, <1>2, OutsideUntouched DEF Sweep

-----------------------------------------------------------------------------
(* The commands on the invocation.                                          *)

(* apply changes the invocation only by an allowed transition.              *)
LEMMA ApplyMoves ==
  ASSUME IInv, UNCHANGED <<conv, prompts>>, NEW c \in Callers, NEW allowed, NEW next,
         NEW applied \in CallType, Knows(applied, conv, prompts), Apply(c, allowed, next, applied)
  PROVE  /\ CallInv'
         /\ NoFault \/ \E kinds : Marked(kinds)
         /\ UNCHANGED inv \/ (allowed /\ inv' = [next EXCEPT !.rev = @ + 1])
<1>1. Grows
  BY StillGrows
<1>2. call' = [call EXCEPT ![c] = applied] \/ \E pc \in {"resolve", "yield"} : Return(c, pc)
  BY DEF Apply
<1>3. CASE call' = [call EXCEPT ![c] = applied]
  <2>1. Moves(c, applied)
    BY <1>3 DEF Moves
  <2>2. CallInv'
    BY <1>1, <2>1, MoveKeepsCalls
  <2>3. QED
    BY <2>2, Zenon DEF Apply, Fault
<1>4. CASE \E pc \in {"resolve", "yield"} : Return(c, pc)
  <2>1. CallInv'
    BY <1>1, <1>4, ReturnKeepsCalls
  <2>2. QED
    BY <2>1, Zenon DEF Apply, Fault
<1>5. QED
  BY <1>2, <1>3, <1>4

(* What a command leaves to show.                                           *)
LEMMA CommandSteps ==
  ASSUME IInv, UNCHANGED <<intent, conv, prompts, posts, env>>,
         NoFault \/ \E kinds : Marked(kinds), CallInv', InvInv', StartedIsSubmitted'
  PROVE  IInv'
<1>1. faults' \in 0..MaxFaults /\ faults' >= faults
  BY FaultsCounted DEF IInv
<1>2. CountInv'
  BY <1>1 DEF IInv, CountInv
<1>3. ConvInv' /\ IntentInv' /\ SubmittedToIt'
  BY DEF IInv, ConvInv, IntentInv, SubmittedToIt
<1>4. QED
  BY <1>2, <1>3 DEF IInv

(* An invocation that is not changed keeps its part of the invariant.       *)
LEMMA InvocationKept ==
  ASSUME IInv, UNCHANGED <<inv, conv, prompts>>
  PROVE  InvInv' /\ StartedIsSubmitted'
  BY DEF IInv, InvInv, RevisionFitsState, StartedIsSubmitted

(* The transitions of an invocation keep its type and its count.            *)
LEMMA TransitionsCounted ==
  ASSUME NEW i \in InvType, RevisionFitsState(i), i.state \notin Ended,
         NEW state \in {"CLAIMED", "STARTED"} \cup Ended, NEW cancel \in BOOLEAN,
         NEW brief \in Briefs \cup {NoBrief},
         \/ i.state = "AUTHORIZED" /\ state = "CLAIMED" /\ cancel = i.cancel
         \/ i.state = "CLAIMED" /\ state = "STARTED" /\ cancel = i.cancel
         \/ i.state = "STARTED" /\ state = "STARTED" /\ i.cancel = FALSE /\ cancel = TRUE
         \/ state \in Ended
  PROVE  LET j == [state |-> state, rev |-> i.rev + 1, cancel |-> cancel, brief |-> brief]
         IN j \in InvType /\ RevisionFitsState(j)
<1> DEFINE n == i.rev + 1
           j == [state |-> state, rev |-> n, cancel |-> cancel, brief |-> brief]
<1>1. i.rev \in 1..5 /\ i.state \in {"AUTHORIZED", "CLAIMED", "STARTED"}
  BY DEF InvType
<1>2. i.rev <= 4
  BY <1>1 DEF RevisionFitsState
<1>3. n \in 1..5
  BY <1>1, <1>2
<1>4. /\ state = "CLAIMED" => n = 2 /\ cancel = FALSE
      /\ state = "STARTED" => n <= 4 /\ (cancel = FALSE => n = 3)
  BY <1>1 DEF RevisionFitsState, Ended
<1> HIDE DEF n
<1>5. j \in InvType
  BY <1>3 DEF InvType
<1>6. RevisionFitsState(j)
  BY <1>4 DEF RevisionFitsState, Ended
<1>7. QED
  BY <1>5, <1>6 DEF n

LEMMA ExpireStep ==
  ASSUME IInv, NEW c \in Callers, Expire(c)
  PROVE  IInv'
<1> DEFINE next == [inv EXCEPT !.state = "EXPIRED"]
           applied == [Idle EXCEPT !.pc = "load"]
<1>1. applied \in CallType /\ Knows(applied, conv, prompts)
  BY DEF Idle, CallType, Knows, NoBrief, Outcomes
<1>2. UNCHANGED <<intent, conv, prompts, posts, env>> /\ Apply(c, Expirable, next, applied)
  BY DEF Expire
<1> HIDE DEF next, applied
<1>3. /\ CallInv' /\ (NoFault \/ \E kinds : Marked(kinds))
      /\ UNCHANGED inv \/ (Expirable /\ inv' = [next EXCEPT !.rev = @ + 1])
  BY <1>1, <1>2, ApplyMoves
<1>4. InvInv' /\ StartedIsSubmitted'
  <2>1. CASE UNCHANGED inv
    BY <1>2, <2>1, InvocationKept
  <2>2. CASE Expirable /\ inv' = [next EXCEPT !.rev = @ + 1]
    <3>1. inv \in InvType /\ RevisionFitsState(inv)
      BY DEF IInv, InvInv
    <3>2. inv' = [state |-> "EXPIRED", rev |-> inv.rev + 1, cancel |-> inv.cancel, brief |-> inv.brief]
      BY <2>2, <3>1 DEF next, InvType
    <3>3. InvInv'
      <4>1. /\ inv.state = "AUTHORIZED" /\ "EXPIRED" \in Ended
            /\ inv.state \notin Ended /\ inv.cancel \in BOOLEAN /\ inv.brief \in Briefs \cup {NoBrief}
        BY <1>2, <2>2, <3>1 DEF InvType, Expirable, Ended
      <4>2. QED
        BY <1>2, <3>1, <3>2, <4>1, TransitionsCounted DEF InvInv
    <3>4. StartedIsSubmitted'
      BY <1>2, <2>2, <3>2 DEF IInv, StartedIsSubmitted, Expirable, Ended
    <3>5. QED
      BY <3>3, <3>4
  <2>3. QED
    BY <1>3, <2>1, <2>2
<1>5. QED
  BY <1>2, <1>3, <1>4, CommandSteps

LEMMA ClaimStep ==
  ASSUME IInv, NEW c \in Callers, Claim(c)
  PROVE  IInv'
<1> DEFINE next == [inv EXCEPT !.state = "CLAIMED"]
           applied == [Idle EXCEPT !.pc = "load", !.fresh = TRUE]
<1>1. applied \in CallType /\ Knows(applied, conv, prompts)
  BY DEF Idle, CallType, Knows, NoBrief, Outcomes
<1>2. UNCHANGED <<intent, conv, prompts, posts, env>> /\ Apply(c, Claimable, next, applied)
  BY DEF Claim
<1> HIDE DEF next, applied
<1>3. /\ CallInv' /\ (NoFault \/ \E kinds : Marked(kinds))
      /\ UNCHANGED inv \/ (Claimable /\ inv' = [next EXCEPT !.rev = @ + 1])
  BY <1>1, <1>2, ApplyMoves
<1>4. InvInv' /\ StartedIsSubmitted'
  <2>1. CASE UNCHANGED inv
    BY <1>2, <2>1, InvocationKept
  <2>2. CASE Claimable /\ inv' = [next EXCEPT !.rev = @ + 1]
    <3>1. inv \in InvType /\ RevisionFitsState(inv)
      BY DEF IInv, InvInv
    <3>2. inv' = [state |-> "CLAIMED", rev |-> inv.rev + 1, cancel |-> inv.cancel, brief |-> inv.brief]
      BY <2>2, <3>1 DEF next, InvType
    <3>3. InvInv'
      <4>1. /\ inv.state = "AUTHORIZED" /\ "CLAIMED" \notin Ended
            /\ inv.state \notin Ended /\ inv.cancel \in BOOLEAN /\ inv.brief \in Briefs \cup {NoBrief}
        BY <1>2, <2>2, <3>1 DEF InvType, Claimable, Ended
      <4>2. QED
        BY <1>2, <3>1, <3>2, <4>1, TransitionsCounted DEF InvInv
    <3>4. StartedIsSubmitted'
      BY <1>2, <2>2, <3>2 DEF IInv, StartedIsSubmitted, Claimable, Ended
    <3>5. QED
      BY <3>3, <3>4
  <2>3. QED
    BY <1>3, <2>1, <2>2
<1>5. QED
  BY <1>2, <1>3, <1>4, CommandSteps

(* The caller that records the start knows of the submission.               *)
LEMMA RecordStartedStep ==
  ASSUME IInv, NEW c \in Callers, RecordStarted(c)
  PROVE  IInv'
<1> DEFINE next == [inv EXCEPT !.state = "STARTED", !.brief = call[c].brief]
           seen == IF call[c].obs = "RUNNING" THEN "none" ELSE call[c].obs
           applied == [Idle EXCEPT !.pc = "load", !.obs = seen]
<1>1. call[c] \in CallType /\ prompts > 0 /\ conv.brief = call[c].brief
  BY DEF RecordStarted, At, IInv, CallInv, Knows
<1>2. seen \in Outcomes \ {"RUNNING"}
  BY <1>1 DEF CallType, Outcomes, Ended
<1>3. applied \in CallType /\ Knows(applied, conv, prompts)
  <2> HIDE DEF seen
  <2>1. QED
    BY <1>2 DEF Idle, CallType, Knows, NoBrief, Outcomes
<1>4. UNCHANGED <<intent, conv, prompts, posts, env>> /\ Apply(c, Startable, next, applied)
  BY DEF RecordStarted
<1> HIDE DEF next, applied
<1>5. /\ CallInv' /\ (NoFault \/ \E kinds : Marked(kinds))
      /\ UNCHANGED inv \/ (Startable /\ inv' = [next EXCEPT !.rev = @ + 1])
  BY <1>3, <1>4, ApplyMoves
<1>6. InvInv' /\ StartedIsSubmitted'
  <2>1. CASE UNCHANGED inv
    BY <1>4, <2>1, InvocationKept
  <2>2. CASE Startable /\ inv' = [next EXCEPT !.rev = @ + 1]
    <3>1. inv \in InvType /\ RevisionFitsState(inv)
      BY DEF IInv, InvInv
    <3>2. inv' = [state |-> "STARTED", rev |-> inv.rev + 1, cancel |-> inv.cancel, brief |-> call[c].brief]
      BY <2>2, <3>1 DEF next, InvType
    <3>3. InvInv'
      <4>1. /\ inv.state = "CLAIMED" /\ call[c].brief \in Briefs \cup {NoBrief}
            /\ inv.state \notin Ended /\ inv.cancel \in BOOLEAN /\ inv.brief \in Briefs \cup {NoBrief}
        BY <1>1, <1>4, <2>2, <3>1 DEF InvType, Startable, Ended, CallType
      <4>2. QED
        BY <1>1, <1>4, <3>1, <3>2, <4>1, TransitionsCounted DEF InvInv
    <3>4. StartedIsSubmitted'
      BY <1>1, <1>4, <3>2 DEF StartedIsSubmitted
    <3>5. QED
      BY <3>3, <3>4
  <2>3. QED
    BY <1>5, <2>1, <2>2
<1>7. QED
  BY <1>4, <1>5, <1>6, CommandSteps

LEMMA RecordTerminalStep ==
  ASSUME IInv, NEW c \in Callers, RecordTerminal(c)
  PROVE  IInv'
<1> DEFINE next == [inv EXCEPT !.state = call[c].obs]
           applied == [Idle EXCEPT !.pc = "resolve"]
<1>1. call[c].obs \in Ended
  BY DEF RecordTerminal, At, IInv, CallInv, Knows
<1>2. applied \in CallType /\ Knows(applied, conv, prompts)
  BY DEF Idle, CallType, Knows, NoBrief, Outcomes
<1>3. UNCHANGED <<intent, conv, prompts, posts, env>> /\ Apply(c, Recordable(call[c].obs), next, applied)
  BY DEF RecordTerminal
<1> HIDE DEF next, applied
<1>4. /\ CallInv' /\ (NoFault \/ \E kinds : Marked(kinds))
      /\ UNCHANGED inv \/ (Recordable(call[c].obs) /\ inv' = [next EXCEPT !.rev = @ + 1])
  BY <1>2, <1>3, ApplyMoves
<1>5. InvInv' /\ StartedIsSubmitted'
  <2>1. CASE UNCHANGED inv
    BY <1>3, <2>1, InvocationKept
  <2>2. CASE Recordable(call[c].obs) /\ inv' = [next EXCEPT !.rev = @ + 1]
    <3>1. inv \in InvType /\ RevisionFitsState(inv)
      BY DEF IInv, InvInv
    <3>2. inv' = [state |-> call[c].obs, rev |-> inv.rev + 1, cancel |-> inv.cancel, brief |-> inv.brief]
      BY <2>2, <3>1 DEF next, InvType
    <3>3. InvInv'
      <4>1. /\ inv.state \in {"CLAIMED", "STARTED"}
            /\ inv.state \notin Ended /\ inv.cancel \in BOOLEAN /\ inv.brief \in Briefs \cup {NoBrief}
        BY <1>1, <1>3, <2>2, <3>1 DEF InvType, Recordable, Ended
      <4>2. QED
        BY <1>1, <1>3, <3>1, <3>2, <4>1, TransitionsCounted DEF InvInv
    <3>4. StartedIsSubmitted'
      BY <1>1, <1>3, <2>2, <3>2 DEF IInv, StartedIsSubmitted, Recordable, Ended
    <3>5. QED
      BY <3>3, <3>4
  <2>3. QED
    BY <1>4, <2>1, <2>2
<1>6. QED
  BY <1>3, <1>4, <1>5, CommandSteps

(* The evidence of an observation is registered, or the call yields.        *)
LEMMA EvidenceMoves ==
  ASSUME IInv, NEW c \in Callers, RecordEvidence(c)
  PROVE  /\ UNCHANGED <<inv, intent, conv, prompts, posts, env>> /\ At(c, "record terminal") /\ ~At(c, "idle")
         /\ NoFault \/ \E kinds : Marked(kinds)
         /\ \/ Return(c, "yield")
            \/ \E r \in CallType : /\ call' = [call EXCEPT ![c] = r] /\ r.pc = "record terminal"
                                  /\ r.obs = call[c].obs /\ r.rev = call[c].rev
<1>1. /\ UNCHANGED <<inv, intent, conv, prompts, posts, env>> /\ At(c, "record terminal") /\ ~At(c, "idle")
      /\ Return(c, "yield") \/ call' = [call EXCEPT ![c].kept = TRUE]
  BY DEF RecordEvidence, At
<1>2. NoFault \/ \E kinds : Marked(kinds)
  BY Zenon DEF RecordEvidence, Fault
<1>3. CASE call' = [call EXCEPT ![c].kept = TRUE]
  <2> DEFINE r == [call[c] EXCEPT !.kept = TRUE]
  <2>1. call[c] \in CallType /\ call[c].pc = "record terminal"
    BY <1>1 DEF IInv, CallInv, At
  <2>2. r \in CallType /\ r.pc = "record terminal" /\ r.obs = call[c].obs /\ r.rev = call[c].rev
    BY <2>1 DEF CallType
  <2>3. call' = [call EXCEPT ![c] = r]
    BY <1>3
  <2> HIDE DEF r
  <2> QED BY <1>1, <1>2, <2>2, <2>3
<1> QED BY <1>1, <1>2, <1>3

LEMMA RecordEvidenceStep ==
  ASSUME IInv, NEW c \in Callers, RecordEvidence(c)
  PROVE  IInv'
<1>1. /\ UNCHANGED <<inv, intent, conv, prompts, posts, env>> /\ At(c, "record terminal")
      /\ NoFault \/ \E kinds : Marked(kinds)
  BY EvidenceMoves
<1>2. Grows
  BY <1>1, StillGrows
<1>3. CASE Return(c, "yield")
  BY <1>1, <1>2, <1>3, ReturnKeepsCalls, OutsideUntouched DEF IInv, IntentInv
<1>4. ASSUME NEW r \in CallType, call' = [call EXCEPT ![c] = r], r.pc = "record terminal",
             r.obs = call[c].obs
      PROVE  IInv'
  <2>1. r.obs \in Ended
    BY <1>1, <1>4 DEF IInv, CallInv, Knows, At
  <2>2. Knows(r, conv', prompts')
    BY <1>4, <2>1 DEF Knows
  <2>3. Moves(c, r)
    BY <1>4, <2>2 DEF Moves
  <2> QED BY <1>1, <1>2, <2>3, MoveKeepsCalls, OutsideUntouched DEF IInv, IntentInv
<1> QED BY <1>3, <1>4, EvidenceMoves

LEMMA RequestCancellationStep ==
  ASSUME IInv, RequestCancellation
  PROVE  IInv'
<1>1. UNCHANGED <<intent, conv, prompts, posts, env, call>> /\ NoFault
  BY DEF RequestCancellation
<1>2. CallInv'
  BY <1>1, StillGrows, GrowthKeepsCalls
<1>3. InvInv' /\ StartedIsSubmitted'
  <2>1. inv \in InvType /\ RevisionFitsState(inv) /\ inv.state = "STARTED" /\ inv.cancel = FALSE
    BY DEF RequestCancellation, IInv, InvInv, InvType
  <2>2. inv' = [state |-> inv.state, rev |-> inv.rev + 1, cancel |-> TRUE, brief |-> inv.brief]
    BY <2>1 DEF RequestCancellation, InvType
  <2>3. InvInv'
    BY <2>1, <2>2, TransitionsCounted DEF InvInv, InvType, Ended
  <2>4. StartedIsSubmitted'
    BY <1>1, <2>1, <2>2 DEF IInv, StartedIsSubmitted
  <2>5. QED
    BY <2>3, <2>4
<1>4. QED
  BY <1>1, <1>2, <1>3, CommandSteps

-----------------------------------------------------------------------------
(* Process between its calls.                                               *)

(* What Process has loaded is what it needs on the branch it takes.         *)
LEMMA LoadStep ==
  ASSUME IInv, NEW c \in Callers, Load(c)
  PROVE  IInv'
<1>1. UNCHANGED <<inv, intent, conv, prompts, posts, env>>
  BY DEF Load
<1>2. call[c] \in CallType /\ call[c].obs # "RUNNING"
  BY DEF Load, At, IInv, CallInv, Knows
<1>3. PICK pc \in BrokenBranch \cup {Branch(c)} : call' = [call EXCEPT ![c] = Loaded(c, pc)]
  BY Zenon DEF Load
<1>4. /\ pc \in {"yield", "resolve", "fail start", "record terminal", "expire", "claim", "start",
                 "reconcile", "supersede", "cancel", "inspect"}
      /\ pc \in {"start", "reconcile"} => inv.state = "CLAIMED"
      /\ pc = "record terminal" => call[c].obs # "none"
  <2>1. CASE pc \in BrokenBranch
    BY <2>1 DEF BrokenBranch
  <2>2. CASE pc = Branch(c)
    <3>1. inv.state \in {"AUTHORIZED", "CLAIMED", "STARTED"} \cup Ended
      BY DEF IInv, InvInv, InvType
    <3>2. QED
      BY <2>2, <3>1 DEF Branch, Terminal, Ended
  <2>3. QED
    BY <1>3, <2>1, <2>2
<1>5. Loaded(c, pc) \in CallType /\ Knows(Loaded(c, pc), conv', prompts')
  <2> DEFINE at == IF pc = "fail start" THEN "record terminal" ELSE pc
             obs == IF pc = "fail start" THEN "START_FAILED" ELSE call[c].obs
             brief == IF inv.state = "CLAIMED" THEN env.brief ELSE NoBrief
             final == (pc = "reconcile")
             over == (inv.state = "STARTED" /\ env.overdue)
             ending == (inv.state = "STARTED" /\ (inv.cancel \/ env.overdue))
             r == [pc |-> at, rev |-> inv.rev, brief |-> brief, over |-> over, ending |-> ending,
                   fresh |-> FALSE, final |-> final, obs |-> obs, kept |-> FALSE]
  <2>1. Loaded(c, pc) = r
    BY Zenon DEF Loaded
  <2>2. obs \in Outcomes \ {"RUNNING"} /\ (at = "record terminal" => obs \in Ended)
    <3>1. call[c].obs \in Outcomes \ {"RUNNING"}
      BY <1>2 DEF CallType
    <3>2. QED
      BY <1>4, <3>1 DEF Outcomes, Ended
  <2>3. brief \in Briefs \cup {NoBrief} /\ (at \in {"start", "reconcile"} => brief # NoBrief)
    <3>1. env.brief \in Briefs
      BY DEF IInv, CountInv
    <3>2. CASE inv.state = "CLAIMED"
      <4>1. env.brief \in Briefs \cup {NoBrief} /\ env.brief # NoBrief
        BY <3>1 DEF Briefs, NoBrief
      <4>2. QED
        BY <3>2, <4>1
    <3>3. CASE inv.state # "CLAIMED"
      BY <1>4, <3>3
    <3>4. QED
      BY <3>2, <3>3
  <2>4. final \in BOOLEAN /\ over \in BOOLEAN /\ ending \in BOOLEAN
    OBVIOUS
  <2>5. inv.rev \in Nat
    BY DEF IInv, InvInv, InvType
  <2>6. at \in {"yield", "resolve", "record terminal", "expire", "claim", "start", "reconcile",
                "supersede", "cancel", "inspect"}
    BY <1>4
  <2> HIDE DEF at, obs, brief, final, over, ending
  <2>7. r \in CallType
    BY <2>2, <2>3, <2>4, <2>5, <2>6 DEF CallType
  <2>8. Knows(r, conv', prompts')
    BY <2>2, <2>3, <2>6 DEF Knows
  <2>9. QED
    BY <2>1, <2>7, <2>8
<1>6. CallInv'
  BY <1>1, <1>3, <1>5, StillGrows, MoveKeepsCalls DEF Moves
<1>7. NoFault \/ \E kinds : Marked(kinds)
  BY Zenon DEF Load
<1>8. IntentInv'
  BY <1>1 DEF IInv, IntentInv
<1>9. QED
  BY <1>1, <1>6, <1>7, <1>8, OutsideUntouched

-----------------------------------------------------------------------------
(* The boundary to the conversation.                                        *)

(* A call that goes on keeps what it has read.                              *)
LEMMA GotoKeepsCalls ==
  ASSUME IInv, Grows, NEW c \in Callers, NEW pc \in {"start", "submit", "poll"}, Goto(c, pc),
         Knows([call[c] EXCEPT !.pc = pc], conv', prompts')
  PROVE  CallInv'
<1>1. call[c] \in CallType
  BY DEF IInv, CallInv
<1>2. [call[c] EXCEPT !.pc = pc] \in CallType
  BY <1>1 DEF CallType
<1>3. call' = [call EXCEPT ![c] = [call[c] EXCEPT !.pc = pc]]
  BY DEF Goto
<1>4. QED
  BY <1>2, <1>3, MoveKeepsCalls DEF Moves

(* A call that has an observation goes on to record it.                     *)
LEMMA RecordKeepsCalls ==
  ASSUME IInv, Grows, NEW c \in Callers, NEW pc \in {"record started", "record terminal"},
         NEW obs \in Outcomes, call' = [call EXCEPT ![c].pc = pc, ![c].obs = obs],
         pc = "record terminal" => obs \in Ended,
         pc = "record started" => prompts' > 0 /\ conv'.brief = call[c].brief /\ obs # "none"
  PROVE  CallInv'
<1> DEFINE r == [call[c] EXCEPT !.pc = pc, !.obs = obs]
<1>1. call[c] \in CallType
  BY DEF IInv, CallInv
<1>2. r \in CallType
  BY <1>1 DEF CallType
<1>3. r.pc = pc /\ r.obs = obs /\ r.brief = call[c].brief
  BY <1>1 DEF CallType
<1>4. call' = [call EXCEPT ![c] = r]
  OBVIOUS
<1> HIDE DEF r
<1>5. Knows(r, conv', prompts')
  BY <1>3 DEF Knows
<1>6. QED
  BY <1>2, <1>4, <1>5, MoveKeepsCalls DEF Moves

(* A call whose start failed reconciles it, or waits.                       *)
LEMMA StartErrorKeepsCalls ==
  ASSUME IInv, Grows, NEW c \in Callers, StartError(c), call[c].brief # NoBrief
  PROVE  CallInv'
<1>1. CASE Return(c, "wait")
  BY <1>1, ReturnKeepsCalls
<1>2. CASE call' = [call EXCEPT ![c].pc = "reconcile", ![c].final = TRUE]
  <2> DEFINE r == [call[c] EXCEPT !.pc = "reconcile", !.final = TRUE]
  <2>1. call[c] \in CallType
    BY DEF IInv, CallInv
  <2>2. r \in CallType
    BY <2>1 DEF CallType
  <2>3. r.pc = "reconcile" /\ r.brief = call[c].brief
    BY <2>1 DEF CallType
  <2>4. call' = [call EXCEPT ![c] = r]
    BY <1>2
  <2> HIDE DEF r
  <2>5. Knows(r, conv', prompts')
    BY <2>3 DEF Knows
  <2>6. QED
    BY <2>2, <2>4, <2>5, MoveKeepsCalls DEF Moves
<1>3. QED
  BY <1>1, <1>2 DEF StartError

(* What a boundary call leaves to show.                                     *)
LEMMA BoundarySteps ==
  ASSUME IInv, UNCHANGED <<inv, intent, env>>, ConvInv', Grows, CallInv', SubmittedToIt',
         NoFault \/ \E kinds : Marked(kinds),
         posts' \in Nat, posts' <= posts \/ (posts' <= posts + 1 /\ \E kinds : Marked(kinds))
  PROVE  IInv'
<1>1. faults' \in 0..MaxFaults /\ faults' >= faults
  BY FaultsCounted DEF IInv
<1>2. posts' <= faults'
  <2>1. posts <= faults /\ posts \in Nat /\ faults \in Nat
    BY DEF IInv, CountInv
  <2>2. CASE posts' <= posts
    BY <1>1, <2>1, <2>2
  <2>3. CASE posts' <= posts + 1 /\ \E kinds : Marked(kinds)
    BY <1>1, <2>1, <2>3 DEF Marked
  <2>4. QED
    BY <2>2, <2>3
<1>3. CountInv'
  BY <1>1, <1>2 DEF IInv, CountInv, Grows
<1>4. InvInv' /\ IntentInv'
  BY DEF IInv, InvInv, IntentInv
<1>5. StartedIsSubmitted'
  <2>1. ASSUME inv.state \in {"STARTED", "SUCCEEDED", "FAILED", "TIMED_OUT", "CANCELLED"}
        PROVE  prompts' > 0 /\ conv'.brief = inv.brief
    <3>1. prompts > 0 /\ conv.brief = inv.brief /\ prompts \in Nat /\ conv.status # "none"
      BY <2>1 DEF IInv, StartedIsSubmitted, CountInv, SubmittedToIt
    <3>2. QED
      BY <3>1 DEF Grows
  <2>2. QED
    BY <2>1 DEF StartedIsSubmitted
<1>6. QED
  BY <1>3, <1>4, <1>5 DEF IInv

(* A boundary call that leaves the conversation as it is, or as one of its  *)
(* operations leaves it, keeps the conversation's part.                     *)
LEMMA ConversationKept ==
  ASSUME IInv, UNCHANGED <<prompts, posts>>,
         conv' \in {conv, Stopped(conv), Interrupted(conv), Inspected(conv)[1]}
  PROVE  ConvInv' /\ Grows /\ SubmittedToIt'
<1>1. conv \in ConvType /\ Tagged(conv)
  BY DEF IInv, ConvInv
<1>2. /\ conv' \in ConvType /\ Tagged(conv') /\ conv'.brief = conv.brief
      /\ conv.status # "none" => conv'.status # "none"
  <2>1. CASE conv' = conv
    BY <1>1, <2>1
  <2>2. CASE conv' \in {Stopped(conv), Interrupted(conv), Inspected(conv)[1]}
    BY <1>1, <2>2, ConversationKeepsTag
  <2>3. QED
    BY <2>1, <2>2
<1>3. QED
  BY <1>2 DEF IInv, ConvInv, Grows, SubmittedToIt, CountInv

(* The observation of a submitted brief is recorded as its start.           *)
LEMMA ObservedKeepsCalls ==
  ASSUME IInv, NEW c \in Callers, Prompted(c), Observed(c), UNCHANGED posts
  PROVE  ConvInv' /\ Grows /\ SubmittedToIt' /\ CallInv'
<1>1. conv' = Inspected(conv)[1] /\ UNCHANGED prompts
  BY DEF Observed
<1>2. ConvInv' /\ Grows /\ SubmittedToIt'
  BY <1>1, ConversationKept
<1>3. conv \in ConvType /\ Tagged(conv)
  BY DEF IInv, ConvInv
<1>4. conv'.brief = conv.brief
  BY <1>1, <1>3, ConversationKeepsTag
<1>5. PICK obs \in ValidatedHandler(Inspected(conv)[2]) :
        call' = [call EXCEPT ![c].pc = "record started", ![c].obs = obs]
  BY DEF Observed
<1>6. obs \in Outcomes /\ obs # "none"
  <2>1. Inspected(conv)[2] \in {"RUNNING", "SUCCEEDED", "FAILED", "CANCELLED"}
    BY <1>3, ObservationType
  <2>2. QED
    BY <2>1 DEF ValidatedHandler, Outcomes, Ended
<1>7. prompts' > 0 /\ conv'.brief = call[c].brief
  BY <1>1, <1>4 DEF Prompted, Matches
<1>8. CallInv'
  BY <1>2, <1>5, <1>6, <1>7, RecordKeepsCalls
<1>9. QED
  BY <1>2, <1>8

(* Where the start may submit, the conversation exists and is the brief's.  *)
LEMMA StartStep ==
  ASSUME IInv, NEW c \in Callers, Start(c)
  PROVE  IInv'
<1>1. UNCHANGED <<inv, intent, posts, env>>
  BY DEF Start
<1>2. call[c] \in CallType /\ call[c].brief # NoBrief /\ conv \in ConvType /\ Tagged(conv) /\ posts \in Nat
  BY DEF Start, At, IInv, CallInv, Knows, ConvInv, CountInv
<1>3. NoFault \/ \E kinds : Marked(kinds)
  BY Zenon DEF Start, Fault
<1>4. ConvInv' /\ Grows /\ SubmittedToIt' /\ CallInv'
  <2>1. CASE /\ conv.status = "none"
             /\ conv' = [status |-> "idle", brief |-> call[c].brief, verdict |-> "none"]
             /\ Goto(c, "submit") /\ UNCHANGED prompts
    <3>1. ConvInv' /\ SubmittedToIt'
      BY <1>2, <2>1 DEF ConvInv, ConvType, Tagged, SubmittedToIt, CallType, Statuses, Verdicts
    <3>2. Grows
      BY <2>1 DEF Grows, IInv, CountInv
    <3>3. Knows([call[c] EXCEPT !.pc = "submit"], conv', prompts')
      BY <1>2, <2>1 DEF Knows, CallType
    <3>4. QED
      BY <2>1, <3>1, <3>2, <3>3, GotoKeepsCalls
  <2>2. CASE Prompted(c) /\ Observed(c)
    BY <1>1, <2>2, ObservedKeepsCalls
  <2>3. CASE /\ Rejected(c) \/ (Matches(c) /\ Goto(c, "submit")) \/ StartError(c)
             /\ UNCHANGED <<conv, prompts>>
    <3>1. ConvInv' /\ Grows /\ SubmittedToIt'
      BY <1>1, <2>3, ConversationKept
    <3>2. CASE Rejected(c)
      <4>1. "START_FAILED" \in Outcomes /\ "START_FAILED" \in Ended
        BY DEF Outcomes, Ended
      <4>2. QED
        BY <3>1, <3>2, <4>1, RecordKeepsCalls DEF Rejected
    <3>3. CASE Matches(c) /\ Goto(c, "submit")
      <4>1. conv.status # "none"
        BY <1>2, <3>3 DEF Matches, Tagged
      <4>2. Knows([call[c] EXCEPT !.pc = "submit"], conv', prompts')
        BY <1>2, <2>3, <4>1 DEF Knows, CallType
      <4>3. QED
        BY <3>1, <3>3, <4>2, GotoKeepsCalls
    <3>4. CASE StartError(c)
      BY <1>2, <3>1, <3>4, StartErrorKeepsCalls
    <3>5. QED
      BY <2>3, <3>1, <3>2, <3>3, <3>4
  <2>4. QED
    BY <2>1, <2>2, <2>3, Zenon DEF Start
<1>5. QED
  BY <1>1, <1>2, <1>3, <1>4, BoundarySteps

(* A submission that the conversation accepts.                              *)
LEMMA AcceptKeepsTag ==
  ASSUME IInv, Accept, conv.status # "none", posts' \in Nat
  PROVE  ConvInv' /\ Grows /\ SubmittedToIt'
<1>1. conv \in ConvType /\ Tagged(conv) /\ prompts \in Nat
  BY DEF IInv, ConvInv, CountInv
<1>2. conv' = [conv EXCEPT !.status = "running"] /\ prompts' = prompts + 1
  BY DEF Accept
<1>3. conv' \in ConvType /\ Tagged(conv') /\ conv'.brief = conv.brief /\ conv'.status # "none"
  BY <1>1, <1>2 DEF ConvType, Tagged, Statuses
<1>4. QED
  BY <1>1, <1>2, <1>3 DEF ConvInv, Grows, SubmittedToIt

LEMMA SubmitStep ==
  ASSUME IInv, NEW c \in Callers, Submit(c)
  PROVE  IInv'
<1>1. UNCHANGED <<inv, intent, env>>
  BY DEF Submit
<1>2. call[c] \in CallType /\ call[c].brief # NoBrief /\ conv.status # "none" /\ posts \in Nat
  BY DEF Submit, At, IInv, CallInv, Knows, CountInv
<1>3. NoFault \/ \E kinds : Marked(kinds)
  BY Zenon DEF Submit, Fault
<1>4. /\ ConvInv' /\ Grows /\ SubmittedToIt' /\ CallInv' /\ posts' \in Nat
      /\ posts' <= posts \/ (posts' <= posts + 1 /\ \E kinds : Marked(kinds))
  <2>1. CASE Goto(c, "poll") /\ Accept /\ UNCHANGED posts
    <3>1. ConvInv' /\ Grows /\ SubmittedToIt'
      BY <1>2, <2>1, AcceptKeepsTag
    <3>2. Knows([call[c] EXCEPT !.pc = "poll"], conv', prompts')
      BY <1>2, <3>1 DEF Knows, CallType, Grows
    <3>3. CallInv'
      BY <2>1, <3>1, <3>2, GotoKeepsCalls
    <3>4. posts' \in Nat /\ posts' <= posts
      BY <1>2, <2>1
    <3>5. QED
      BY <3>1, <3>3, <3>4
  <2>2. CASE /\ Marked({"delay"}) /\ posts' \in {posts, posts + 1} /\ Goto(c, "poll")
             /\ UNCHANGED <<conv, prompts>>
    <3>1. Grows
      BY <2>2, StillGrows
    <3>2. ConvInv' /\ SubmittedToIt'
      BY <1>2, <2>2 DEF IInv, ConvInv, SubmittedToIt
    <3>3. Knows([call[c] EXCEPT !.pc = "poll"], conv', prompts')
      BY <1>2, <2>2 DEF Knows, CallType
    <3>4. CallInv'
      BY <2>2, <3>1, <3>3, GotoKeepsCalls
    <3>5. posts' \in Nat /\ posts' <= posts + 1
      BY <1>2, <2>2
    <3>6. \E kinds : Marked(kinds)
      BY <2>2
    <3>7. QED
      BY <3>1, <3>2, <3>4, <3>5, <3>6
  <2>3. CASE Goto(c, "poll") /\ UNCHANGED <<conv, prompts, posts>>
    <3>1. ConvInv' /\ Grows /\ SubmittedToIt'
      BY <2>3, ConversationKept
    <3>2. Knows([call[c] EXCEPT !.pc = "poll"], conv', prompts')
      BY <1>2, <2>3 DEF Knows, CallType
    <3>3. CallInv'
      BY <2>3, <3>1, <3>2, GotoKeepsCalls
    <3>4. posts' \in Nat /\ posts' <= posts
      BY <1>2, <2>3
    <3>5. QED
      BY <3>1, <3>3, <3>4
  <2>4. CASE Rejected(c) /\ UNCHANGED <<conv, prompts, posts>>
    <3>1. ConvInv' /\ Grows /\ SubmittedToIt'
      BY <2>4, ConversationKept
    <3>2. "START_FAILED" \in Outcomes /\ "START_FAILED" \in Ended
      BY DEF Outcomes, Ended
    <3>3. CallInv'
      BY <2>4, <3>1, <3>2, RecordKeepsCalls DEF Rejected
    <3>4. posts' \in Nat /\ posts' <= posts
      BY <1>2, <2>4
    <3>5. QED
      BY <3>1, <3>3, <3>4
  <2>5. QED
    BY <2>1, <2>2, <2>3, <2>4, Zenon DEF Submit
<1>5. QED
  BY <1>1, <1>3, <1>4, BoundarySteps

LEMMA PollStep ==
  ASSUME IInv, NEW c \in Callers, Poll(c)
  PROVE  IInv'
<1>1. UNCHANGED <<inv, intent, posts, env>>
  BY DEF Poll
<1>2. call[c].brief # NoBrief /\ posts \in Nat
  BY DEF Poll, At, IInv, CallInv, Knows, CountInv
<1>3. NoFault \/ \E kinds : Marked(kinds)
  BY Zenon DEF Poll, Fault
<1>4. ConvInv' /\ Grows /\ SubmittedToIt' /\ CallInv'
  <2>1. CASE Prompted(c) /\ Observed(c)
    BY <1>1, <2>1, ObservedKeepsCalls
  <2>2. CASE StartError(c) /\ UNCHANGED <<conv, prompts>>
    BY <1>1, <1>2, <2>2, ConversationKept, StartErrorKeepsCalls
  <2>3. QED
    BY <2>1, <2>2, Zenon DEF Poll
<1>5. QED
  BY <1>1, <1>2, <1>3, <1>4, BoundarySteps

LEMMA ReconcileStep ==
  ASSUME IInv, NEW c \in Callers, Reconcile(c)
  PROVE  IInv'
<1>1. UNCHANGED <<inv, intent, posts, env>>
  BY DEF Reconcile
<1>2. call[c] \in CallType /\ call[c].brief # NoBrief /\ posts \in Nat
  BY DEF Reconcile, At, IInv, CallInv, Knows, CountInv
<1>3. NoFault \/ \E kinds : Marked(kinds)
  BY Zenon DEF Reconcile, Fault
<1>4. ConvInv' /\ Grows /\ SubmittedToIt' /\ CallInv'
  <2>1. CASE Prompted(c) /\ Observed(c)
    BY <1>1, <2>1, ObservedKeepsCalls
  <2>2. CASE Goto(c, "start") /\ UNCHANGED <<conv, prompts>>
    <3>1. ConvInv' /\ Grows /\ SubmittedToIt'
      BY <1>1, <2>2, ConversationKept
    <3>2. Knows([call[c] EXCEPT !.pc = "start"], conv', prompts')
      BY <1>2 DEF Knows, CallType
    <3>3. QED
      BY <2>2, <3>1, <3>2, GotoKeepsCalls
  <2>3. CASE Return(c, "wait") /\ UNCHANGED <<conv, prompts>>
    BY <1>1, <2>3, ConversationKept, ReturnKeepsCalls
  <2>4. QED
    BY <2>1, <2>2, <2>3, Zenon DEF Reconcile
<1>5. QED
  BY <1>1, <1>2, <1>3, <1>4, BoundarySteps

(* A delayed submission arrives at the conversation it was sent to.         *)
LEMMA ArriveStep ==
  ASSUME IInv, Arrive
  PROVE  IInv'
<1>1. UNCHANGED <<inv, intent, env, call>> /\ NoFault /\ Accept
  BY DEF Arrive
<1>2. conv.status # "none" /\ posts' \in Nat /\ posts' <= posts
  BY DEF Arrive, IInv, CountInv, SubmittedToIt
<1>3. ConvInv' /\ Grows /\ SubmittedToIt'
  BY <1>1, <1>2, AcceptKeepsTag
<1>4. CallInv'
  BY <1>1, <1>3, GrowthKeepsCalls
<1>5. QED
  BY <1>1, <1>2, <1>3, <1>4, BoundarySteps

(* Process concludes on what it has observed.                               *)
LEMMA ConcludeKeepsCalls ==
  ASSUME IInv, Grows, NEW c \in Callers, NEW obs \in {"RUNNING", "SUCCEEDED", "FAILED", "CANCELLED"},
         Conclude(c, obs)
  PROVE  CallInv'
<1>1. CASE obs = "RUNNING"
  <2>1. Return(c, "wait")
    BY <1>1 DEF Conclude
  <2>2. QED
    BY <2>1, ReturnKeepsCalls
<1>2. CASE obs # "RUNNING"
  <2>1. PICK o \in ValidatedHandler(obs) :
          call' = [call EXCEPT ![c].pc = "record terminal",
                               ![c].obs = IF call[c].over /\ o = "CANCELLED" THEN "TIMED_OUT" ELSE o]
    BY <1>2, Zenon DEF Conclude
  <2> DEFINE ended == IF call[c].over /\ o = "CANCELLED" THEN "TIMED_OUT" ELSE o
  <2>2. o \in {"SUCCEEDED", "FAILED", "CANCELLED"}
    BY <1>2, <2>1 DEF ValidatedHandler
  <2>3. ended \in Ended /\ ended \in Outcomes
    BY <2>2 DEF Ended, Outcomes
  <2>4. call' = [call EXCEPT ![c].pc = "record terminal", ![c].obs = ended]
    BY <2>1, Zenon
  <2> HIDE DEF ended
  <2>5. QED
    BY <2>3, <2>4, RecordKeepsCalls
<1>3. QED
  BY <1>1, <1>2

(* Inspect, Cancel and ReconcileSuperseded of a started conversation.       *)
LEMMA StartedSteps ==
  ASSUME IInv, NEW c \in Callers, Inspect(c) \/ Cancel(c) \/ Supersede(c)
  PROVE  IInv'
<1>1. UNCHANGED <<inv, intent, prompts, posts, env>> /\ posts \in Nat
  BY DEF Inspect, Cancel, Supersede, IInv, CountInv
<1>2. conv' \in {conv, Stopped(conv), Interrupted(conv), Inspected(conv)[1]}
  BY DEF Inspect, Cancel, Supersede, BoundaryError
<1>3. NoFault \/ \E kinds : Marked(kinds)
  BY Zenon DEF Inspect, Cancel, Supersede, BoundaryError, Fault
<1>4. ConvInv' /\ Grows /\ SubmittedToIt'
  BY <1>1, <1>2, ConversationKept
<1>5. CallInv'
  <2>1. conv \in ConvType /\ Tagged(conv)
    BY DEF IInv, ConvInv
  <2>2. CASE Return(c, "wait")
    BY <1>4, <2>2, ReturnKeepsCalls
  <2>3. CASE Conclude(c, Inspected(conv)[2])
    BY <1>4, <2>1, <2>3, ObservationType, ConcludeKeepsCalls
  <2>4. CASE Conclude(c, ObservationAt(Interrupted(conv), TRUE))
    <3>1. Interrupted(conv) \in ConvType
      BY <2>1, ConversationKeepsTag
    <3>2. ObservationAt(Interrupted(conv), TRUE) \in {"RUNNING", "SUCCEEDED", "FAILED", "CANCELLED"}
      BY <3>1, ObservationType
    <3>3. QED
      BY <1>4, <2>4, <3>2, ConcludeKeepsCalls
  <2>5. CASE Conclude(c, Superseded(c))
    <3>1. ObservationAt(Stopped(conv), Active(conv)) \in {"RUNNING", "SUCCEEDED", "FAILED", "CANCELLED"}
      BY DEF ObservationAt
    <3>2. Superseded(c) \in {"RUNNING", "SUCCEEDED", "FAILED", "CANCELLED"}
      BY <3>1 DEF Superseded
    <3>3. QED
      BY <1>4, <2>5, <3>2, ConcludeKeepsCalls
  <2>6. QED
    BY <2>2, <2>3, <2>4, <2>5, Zenon DEF Inspect, Cancel, Supersede, BoundaryError
<1>6. QED
  BY <1>1, <1>3, <1>4, <1>5, BoundarySteps

-----------------------------------------------------------------------------
(* The environment.                                                         *)

LEMMA ConverseStep ==
  ASSUME IInv, Converse
  PROVE  IInv'
<1>1. UNCHANGED <<inv, intent, prompts, posts, env, call>> /\ NoFault /\ posts \in Nat /\ prompts \in Nat
  BY DEF Converse, IInv, CountInv
<1>2. conv \in ConvType /\ Tagged(conv) /\ conv.status = "running"
  BY DEF Converse, IInv, ConvInv
<1>3. conv' \in ConvType /\ Tagged(conv') /\ conv'.brief = conv.brief /\ conv'.status # "none"
  <2>1. CASE \E s \in {"finished", "error", "condensed"} : conv' = [conv EXCEPT !.status = s]
    BY <1>2, <2>1 DEF ConvType, Tagged, Statuses
  <2>2. CASE \E v \in Verdicts \ {"none"} : conv' = [conv EXCEPT !.verdict = v]
    BY <1>2, <2>2 DEF ConvType, Tagged
  <2>3. QED
    BY <2>1, <2>2 DEF Converse
<1>4. ConvInv' /\ Grows /\ SubmittedToIt'
  BY <1>1, <1>3 DEF ConvInv, Grows, SubmittedToIt
<1>5. CallInv'
  BY <1>1, <1>4, GrowthKeepsCalls
<1>6. QED
  BY <1>1, <1>4, <1>5, BoundarySteps

LEMMA ChangedStep ==
  ASSUME IInv, AuthorityLost \/ DeadlinePasses \/ EffectiveDeadlinePasses \/ BriefChanges
  PROVE  IInv'
<1>1. UNCHANGED <<inv, intent, conv, prompts, posts, call>> /\ NoFault
  BY DEF AuthorityLost, DeadlinePasses, EffectiveDeadlinePasses, BriefChanges, Changed
<1>2. env' \in [valid : BOOLEAN, late : BOOLEAN, overdue : BOOLEAN, brief : Briefs]
  <2>1. env \in [valid : BOOLEAN, late : BOOLEAN, overdue : BOOLEAN, brief : Briefs] /\ 2 \in Briefs
    BY DEF IInv, CountInv, Briefs
  <2>2. QED
    BY <2>1 DEF AuthorityLost, DeadlinePasses, EffectiveDeadlinePasses, BriefChanges, Changed
<1>3. CountInv'
  BY <1>1, <1>2 DEF IInv, CountInv, NoFault
<1>4. CallInv'
  BY <1>1, StillGrows, GrowthKeepsCalls
<1>5. ConvInv' /\ InvInv' /\ IntentInv' /\ SubmittedToIt' /\ StartedIsSubmitted'
  BY <1>1 DEF IInv, ConvInv, InvInv, IntentInv, SubmittedToIt, StartedIsSubmitted
<1>6. QED
  BY <1>3, <1>4, <1>5 DEF IInv

-----------------------------------------------------------------------------
(* Every behaviour has the invariant.                                       *)
LEMMA InitIInv == Init => IInv
<1> SUFFICES ASSUME Init PROVE IInv
  OBVIOUS
<1>1. ConvInv /\ SubmittedToIt /\ StartedIsSubmitted
  BY DEF Init, ConvInv, ConvType, Tagged, SubmittedToIt, StartedIsSubmitted, Statuses, Verdicts
<1>2. InvInv
  <2>1. 1 \in 1..5
    OBVIOUS
  <2>2. QED
    BY <2>1 DEF Init, InvInv, InvType, RevisionFitsState
<1>3. CountInv
  <2>1. 1 \in Briefs
    BY DEF Briefs
  <2>2. QED
    BY <2>1, BoundsAssumption DEF Init, CountInv
<1>4. IntentInv
  BY DEF Init, IntentInv
<1>5. CallInv
  BY DEF Init, CallInv, CallType, Idle, Knows, Outcomes
<1>6. QED
  BY <1>1, <1>2, <1>3, <1>4, <1>5 DEF IInv

LEMMA NextIInv == IInv /\ [Next]_vars => IInv'
<1> SUFFICES ASSUME IInv, [Next]_vars PROVE IInv'
  OBVIOUS
<1>1. CASE UNCHANGED vars
  BY <1>1, StillGrows, GrowthKeepsCalls, OutsideUntouched DEF vars, NoFault, IInv, IntentInv
<1>2. ASSUME NEW c \in Callers, Work(c) PROVE IInv'
  BY <1>2, WorkerSteps, LoadStep, ExpireStep, ClaimStep, RecordStartedStep, RecordEvidenceStep,
     RecordTerminalStep,      StartStep, SubmitStep, PollStep, ReconcileStep, StartedSteps, Zenon DEF Work
<1>3. ASSUME NEW c \in Callers, Acquire(c) \/ Crash(c) PROVE IInv'
  BY <1>3, WorkerSteps
<1>4. QED
  BY <1>1, <1>2, <1>3, SweepStep, RequestCancellationStep, ArriveStep, ConverseStep, ChangedStep, Zenon
     DEF Next

(* Evidence is registered under a revision that a call has loaded.          *)
EvidenceInv == evidence \in [Ended -> Nat]

LEMMA NextEvidence == IInv /\ EvidenceInv /\ [Next]_vars => EvidenceInv'
<1> SUFFICES ASSUME IInv, EvidenceInv, [Next]_vars PROVE EvidenceInv'
  OBVIOUS
<1>1. ASSUME NEW c \in Callers, RecordEvidence(c) PROVE EvidenceInv'
  <2>1. call[c].rev \in Nat
    BY DEF IInv, CallInv, CallType
  <2>2. UNCHANGED evidence \/ evidence' = Registered(c)
    BY <1>1 DEF RecordEvidence
  <2> QED BY <2>1, <2>2 DEF EvidenceInv, Registered
<1>2. ASSUME NEW c \in Callers, Work(c), ~RecordEvidence(c) PROVE UNCHANGED evidence
  BY <1>2, Zenon DEF Work, Wait, Resolve, Yield, Release, Load, Expire, Claim, RecordStarted, RecordTerminal,
     Start, Submit, Poll, Reconcile, Inspect, Cancel, Supersede
<1>3. ASSUME NEW c \in Callers, Acquire(c) \/ Crash(c) PROVE UNCHANGED evidence
  BY <1>3 DEF Acquire, Crash
<1>4. Sweep \/ RequestCancellation \/ Arrive \/ Converse \/ AuthorityLost \/ DeadlinePasses
        \/ EffectiveDeadlinePasses \/ BriefChanges => UNCHANGED evidence
  BY DEF Sweep, RequestCancellation, Arrive, Converse, AuthorityLost, DeadlinePasses,
     EffectiveDeadlinePasses, BriefChanges, Changed
<1>5. UNCHANGED evidence => EvidenceInv'
  BY DEF EvidenceInv
<1>6. CASE UNCHANGED vars
  BY <1>5, <1>6 DEF vars
<1>7. CASE Next
  BY <1>1, <1>2, <1>3, <1>4, <1>5, <1>7, Zenon DEF Next
<1> QED BY <1>6, <1>7

(* Type correctness for any number of callers and faults: in particular an  *)
(* invocation has at most five revisions, a conversation is tagged from its *)
(* creation (client.go, Start) and an intent has a holder just while it is  *)
(* claimed.                                                                 *)
THEOREM TypeCorrect == Spec => []TypeOK
<1>1. IInv /\ EvidenceInv => TypeOK
  <2> SUFFICES ASSUME IInv, EvidenceInv PROVE TypeOK
    OBVIOUS
  <2>1. posts \in 0..MaxFaults
    BY BoundsAssumption DEF IInv, CountInv
  <2>2. QED
    BY <2>1 DEF IInv, EvidenceInv, ConvInv, ConvType, Statuses, Tagged, InvInv, InvType, CountInv, IntentInv,
       TypeOK
<1>2. Init => EvidenceInv
  BY DEF Init, EvidenceInv
<1>3. QED
  BY <1>1, <1>2, InitIInv, NextIInv, NextEvidence, PTL DEF Spec

(* The started checkpoint names a conversation that was given the brief it  *)
(* records, however many callers overlap and whatever fails between the     *)
(* submission and the record (Process, steps 6 to 8 of architecture 112).   *)
THEOREM StartsAreSubmitted == Spec => []StartedIsSubmitted
<1>1. IInv => StartedIsSubmitted
  BY DEF IInv
<1>2. QED
  BY <1>1, InitIInv, NextIInv, PTL DEF Spec

-----------------------------------------------------------------------------
(* A single submission.  As long as no lease is overrun and no submission   *)
(* is adrift, a call at work holds the intent, so there is one at most; and *)
(* it decides to submit only while the conversation shows no submission.    *)
Quiet == past \cap {"overrun", "delay"} = {}
OneAtWork == \A c \in Callers : ~At(c, "idle") => Holds(c)
SubmitsFirst == \A c \in Callers : At(c, "submit") => prompts = 0
Serial == Quiet => OneAtWork /\ SubmitsFirst /\ posts = 0 /\ prompts <= 1

(* The past only grows.                                                     *)
LEMMA QuietBefore ==
  ASSUME Quiet', NoFault \/ Overrun \/ \E kinds : Marked(kinds)
  PROVE  Quiet /\ ~Overrun
  BY Zenon DEF Quiet, NoFault, Overrun, Marked

(* The only call at work moves: the others stay idle.                       *)
LEMMA SerialMove ==
  ASSUME IInv, Serial, NEW c \in Callers, NEW r, call' = [call EXCEPT ![c] = r],
         ~At(c, "idle"), r.pc # "idle" => UNCHANGED intent,
         NoFault \/ \E kinds : Marked(kinds),
         Quiet /\ Quiet' => posts' = 0 /\ prompts' <= 1 /\ (r.pc = "submit" => prompts' = 0)
  PROVE  Serial'
<1> SUFFICES ASSUME Quiet' PROVE (OneAtWork /\ SubmitsFirst /\ posts = 0 /\ prompts <= 1)'
  BY DEF Serial
<1>1. Quiet
  BY QuietBefore
<1>2. OneAtWork /\ SubmitsFirst
  BY <1>1 DEF Serial
<1>3. Holds(c)
  BY <1>2 DEF OneAtWork
<1>4. ASSUME NEW d \in Callers, d # c PROVE call'[d] = call[d] /\ At(d, "idle")
  <2>1. ~Holds(d)
    BY <1>3, <1>4 DEF Holds
  <2>2. QED
    BY <1>2, <1>4, <2>1 DEF OneAtWork, IInv, CallInv
<1>5. call'[c] = r
  BY DEF IInv, CallInv
<1>6. OneAtWork'
  BY <1>3, <1>4, <1>5 DEF OneAtWork, At, Holds
<1>7. SubmitsFirst'
  BY <1>1, <1>4, <1>5 DEF SubmitsFirst, At
<1>8. QED
  BY <1>1, <1>6, <1>7

(* The same for a step that submits nothing and does not decide to.         *)
LEMMA SerialOther ==
  ASSUME IInv, Serial, NEW c \in Callers, NEW r, call' = [call EXCEPT ![c] = r],
         ~At(c, "idle"), r.pc # "idle" => UNCHANGED intent, r.pc # "submit",
         NoFault \/ \E kinds : Marked(kinds), UNCHANGED <<prompts, posts>>
  PROVE  Serial'
<1>1. Quiet => posts = 0 /\ prompts <= 1
  BY DEF Serial
<1>2. QED
  BY <1>1, SerialMove

(* The same when no call moves and the intent stays claimed.                *)
LEMMA SerialStays ==
  ASSUME IInv, Serial, UNCHANGED <<intent, call, prompts, posts>>, NoFault
  PROVE  Serial'
  BY DEF Serial, Quiet, NoFault, OneAtWork, SubmitsFirst, At, Holds

LEMMA SerialWorker ==
  ASSUME IInv, Serial, NEW c \in Callers,
         Acquire(c) \/ Wait(c) \/ Resolve(c) \/ Yield(c) \/ Crash(c)
  PROVE  Serial'
<1>1. UNCHANGED <<prompts, posts>>
  BY DEF Acquire, Wait, Resolve, Yield, Release, Crash
<1>2. CASE Acquire(c)
  <2> SUFFICES ASSUME Quiet' PROVE (OneAtWork /\ SubmitsFirst /\ posts = 0 /\ prompts <= 1)'
    BY DEF Serial
  <2>1. Quiet
    BY <1>2 DEF Acquire, NoFault, Quiet
  <2>2. OneAtWork /\ posts = 0 /\ prompts <= 1
    BY <2>1 DEF Serial
  <2>3. \A d \in Callers : At(d, "idle")
    BY <1>2, <2>2 DEF Acquire, OneAtWork, Holds
  <2>4. call' = [call EXCEPT ![c] = [Idle EXCEPT !.pc = "load"]] /\ Holds(c)'
    BY <1>2 DEF Acquire, Return, Holds
  <2>5. ASSUME NEW d \in Callers PROVE (~At(d, "idle") => Holds(d))' /\ ~At(d, "submit")'
    <3>1. CASE d = c
      BY <2>4, <3>1 DEF At, Idle, IInv, CallInv
    <3>2. CASE d # c
      BY <2>3, <2>4, <3>2 DEF At, IInv, CallInv
    <3>3. QED
      BY <3>1, <3>2
  <2>6. QED
    BY <1>1, <2>2, <2>5 DEF OneAtWork, SubmitsFirst
<1>3. CASE Wait(c)
  <2>1. PICK pc \in {"load", "yield", "idle"} : Return(c, pc)
    BY <1>3 DEF Wait
  <2>2. ~At(c, "idle") /\ NoFault /\ UNCHANGED intent
    BY <1>3 DEF Wait, At
  <2>3. [Idle EXCEPT !.pc = pc].pc = pc
    BY DEF Idle
  <2>4. QED
    BY <1>1, <2>1, <2>2, <2>3, SerialOther DEF Return
<1>4. CASE Resolve(c) \/ Yield(c) \/ Crash(c)
  <2>1. Return(c, "idle") /\ ~At(c, "idle")
    BY <1>4 DEF Resolve, Yield, Release, Crash, At
  <2>2. NoFault \/ \E kinds : Marked(kinds)
    BY <1>4, Zenon DEF Resolve, Yield, Release, Crash, Fault
  <2>3. [Idle EXCEPT !.pc = "idle"].pc = "idle"
    BY DEF Idle
  <2>4. QED
    BY <1>1, <2>1, <2>2, <2>3, SerialOther DEF Return
<1>5. QED
  BY <1>2, <1>3, <1>4

(* An intent is swept from a caller that is idle, or its lease is overrun.  *)
LEMMA SerialSweep ==
  ASSUME IInv, Serial, Sweep
  PROVE  Serial'
<1> SUFFICES ASSUME Quiet' PROVE (OneAtWork /\ SubmitsFirst /\ posts = 0 /\ prompts <= 1)'
  BY DEF Serial
<1>1. Quiet /\ ~Overrun
  BY QuietBefore DEF Sweep
<1>2. OneAtWork /\ SubmitsFirst /\ posts = 0 /\ prompts <= 1 /\ At(intent.holder, "idle")
  BY <1>1 DEF Serial, Sweep
<1>3. \A d \in Callers : At(d, "idle")
  BY <1>2 DEF OneAtWork, Holds
<1>4. UNCHANGED <<call, prompts, posts>>
  BY DEF Sweep
<1>5. QED
  BY <1>2, <1>3, <1>4 DEF OneAtWork, SubmitsFirst, At

(* A command submits nothing.                                               *)
LEMMA SerialCommands ==
  ASSUME IInv, Serial, NEW c \in Callers,
         Expire(c) \/ Claim(c) \/ RecordStarted(c) \/ RecordTerminal(c)
  PROVE  Serial'
<1>1. UNCHANGED <<intent, prompts, posts>> /\ ~At(c, "idle")
  BY DEF Expire, Claim, RecordStarted, RecordTerminal, At
<1>2. PICK allowed, next, applied :
        Apply(c, allowed, next, applied) /\ applied.pc \in {"load", "resolve"}
  <2>1. CASE Expire(c)
    <3>1. [Idle EXCEPT !.pc = "load"].pc = "load"
      BY DEF Idle
    <3>2. QED
      BY <2>1, <3>1 DEF Expire
  <2>2. CASE Claim(c)
    <3>1. [Idle EXCEPT !.pc = "load", !.fresh = TRUE].pc = "load"
      BY DEF Idle
    <3>2. QED
      BY <2>2, <3>1 DEF Claim
  <2>3. CASE RecordStarted(c)
    <3>1. \A obs : [Idle EXCEPT !.pc = "load", !.obs = obs].pc = "load"
      BY DEF Idle
    <3>2. QED
      BY <2>3, <3>1 DEF RecordStarted
  <2>4. CASE RecordTerminal(c)
    <3>1. [Idle EXCEPT !.pc = "resolve"].pc = "resolve"
      BY DEF Idle
    <3>2. QED
      BY <2>4, <3>1 DEF RecordTerminal
  <2>5. QED
    BY <2>1, <2>2, <2>3, <2>4
<1>3. NoFault \/ \E kinds : Marked(kinds)
  BY <1>2, Zenon DEF Apply, Fault
<1>4. PICK r : call' = [call EXCEPT ![c] = r] /\ r.pc \in {"load", "resolve", "yield"}
  <2>1. CASE call' = [call EXCEPT ![c] = applied]
    BY <1>2, <2>1
  <2>2. CASE \E pc \in {"resolve", "yield"} : Return(c, pc)
    <3>1. \A pc : [Idle EXCEPT !.pc = pc].pc = pc
      BY DEF Idle
    <3>2. QED
      BY <2>2, <3>1 DEF Return
  <2>3. QED
    BY <1>2, <2>1, <2>2, Zenon DEF Apply
<1>5. QED
  BY <1>1, <1>3, <1>4, SerialOther

LEMMA SerialEvidence ==
  ASSUME IInv, Serial, NEW c \in Callers, RecordEvidence(c)
  PROVE  Serial'
<1>1. /\ UNCHANGED <<intent, prompts, posts>> /\ ~At(c, "idle")
      /\ NoFault \/ \E kinds : Marked(kinds)
  BY EvidenceMoves
<1>2. \E r : call' = [call EXCEPT ![c] = r] /\ r.pc \in {"record terminal", "yield"}
  <2>1. [Idle EXCEPT !.pc = "yield"].pc = "yield"
    BY DEF Idle
  <2> QED BY <2>1, EvidenceMoves DEF Return
<1> QED BY <1>1, <1>2, SerialOther

LEMMA SerialLoad ==
  ASSUME IInv, Serial, NEW c \in Callers, Load(c)
  PROVE  Serial'
<1>1. UNCHANGED <<intent, prompts, posts>> /\ ~At(c, "idle")
  BY DEF Load, At
<1>2. PICK pc \in BrokenBranch \cup {Branch(c)} : call' = [call EXCEPT ![c] = Loaded(c, pc)]
  BY Zenon DEF Load
<1>3. pc # "submit" /\ pc # "idle"
  <2>1. inv.state \in {"AUTHORIZED", "CLAIMED", "STARTED"} \cup Ended
    BY DEF IInv, InvInv, InvType
  <2>2. CASE pc \in BrokenBranch
    BY <2>2 DEF BrokenBranch
  <2>3. CASE pc = Branch(c)
    BY <2>1, <2>3 DEF Branch, Terminal, Ended
  <2>4. QED
    BY <1>2, <2>2, <2>3
<1>4. Loaded(c, pc).pc = IF pc = "fail start" THEN "record terminal" ELSE pc
  BY DEF Loaded
<1>5. NoFault \/ \E kinds : Marked(kinds)
  BY Zenon DEF Load
<1>6. QED
  BY <1>1, <1>2, <1>3, <1>4, <1>5, SerialOther

(* How the steps of a start leave the call's record.                        *)
LEMMA StartMoves ==
  ASSUME IInv, NEW c \in Callers
  PROVE  /\ \A pc : Goto(c, pc) => \E r : call' = [call EXCEPT ![c] = r] /\ r.pc = pc
         /\ Rejected(c) => \E r : call' = [call EXCEPT ![c] = r] /\ r.pc = "record terminal"
         /\ Observed(c) => \E r : call' = [call EXCEPT ![c] = r] /\ r.pc = "record started"
         /\ StartError(c) => \E r : call' = [call EXCEPT ![c] = r] /\ r.pc \in {"wait", "reconcile"}
         /\ \A pc : Return(c, pc) => \E r : call' = [call EXCEPT ![c] = r] /\ r.pc = pc
<1>1. call[c] \in CallType
  BY DEF IInv, CallInv
<1>2. ASSUME NEW pc, Goto(c, pc) PROVE \E r : call' = [call EXCEPT ![c] = r] /\ r.pc = pc
  <2>1. call' = [call EXCEPT ![c] = [call[c] EXCEPT !.pc = pc]]
    BY <1>2 DEF Goto
  <2>2. [call[c] EXCEPT !.pc = pc].pc = pc
    BY <1>1 DEF CallType
  <2>3. QED
    BY <2>1, <2>2
<1>3. ASSUME NEW pc, NEW obs, call' = [call EXCEPT ![c].pc = pc, ![c].obs = obs]
      PROVE  \E r : call' = [call EXCEPT ![c] = r] /\ r.pc = pc
  <2>1. call' = [call EXCEPT ![c] = [call[c] EXCEPT !.pc = pc, !.obs = obs]]
    BY <1>3
  <2>2. [call[c] EXCEPT !.pc = pc, !.obs = obs].pc = pc
    BY <1>1 DEF CallType
  <2>3. QED
    BY <2>1, <2>2
<1>4. ASSUME NEW pc, Return(c, pc) PROVE \E r : call' = [call EXCEPT ![c] = r] /\ r.pc = pc
  <2>1. call' = [call EXCEPT ![c] = [Idle EXCEPT !.pc = pc]]
    BY <1>4 DEF Return
  <2>2. [Idle EXCEPT !.pc = pc].pc = pc
    BY DEF Idle
  <2>3. QED
    BY <2>1, <2>2
<1>5. ASSUME StartError(c)
      PROVE  \E r : call' = [call EXCEPT ![c] = r] /\ r.pc \in {"wait", "reconcile"}
  <2>1. CASE Return(c, "wait")
    BY <1>4, <2>1
  <2>2. CASE call' = [call EXCEPT ![c].pc = "reconcile", ![c].final = TRUE]
    <3>1. call' = [call EXCEPT ![c] = [call[c] EXCEPT !.pc = "reconcile", !.final = TRUE]]
      BY <2>2
    <3>2. [call[c] EXCEPT !.pc = "reconcile", !.final = TRUE].pc = "reconcile"
      BY <1>1 DEF CallType
    <3>3. QED
      BY <3>1, <3>2
  <2>3. QED
    BY <1>5, <2>1, <2>2 DEF StartError
<1>6. Rejected(c) => \E r : call' = [call EXCEPT ![c] = r] /\ r.pc = "record terminal"
  BY <1>3 DEF Rejected
<1>7. Observed(c) => \E r : call' = [call EXCEPT ![c] = r] /\ r.pc = "record started"
  BY <1>3 DEF Observed
<1>8. QED
  BY <1>2, <1>4, <1>5, <1>6, <1>7

(* A start decides to submit only if the conversation shows no submission.  *)
LEMMA SerialStart ==
  ASSUME IInv, Serial, NEW c \in Callers, Start(c)
  PROVE  Serial'
<1>1. UNCHANGED <<intent, posts>> /\ ~At(c, "idle")
  BY DEF Start, At
<1>2. UNCHANGED prompts
  BY DEF Start, Observed
<1>3. NoFault \/ \E kinds : Marked(kinds)
  BY Zenon DEF Start, Fault
<1>4. prompts \in Nat /\ (conv.status = "none" => prompts = 0)
  BY DEF IInv, CountInv, SubmittedToIt
<1>5. CASE Goto(c, "submit") /\ (conv.status = "none" \/ (Matches(c) /\ ~Prompted(c)))
  <2>1. prompts = 0
    BY <1>4, <1>5 DEF Prompted
  <2>2. PICK r : call' = [call EXCEPT ![c] = r] /\ r.pc = "submit"
    BY <1>5, StartMoves
  <2>3. Quiet => posts' = 0 /\ prompts' <= 1 /\ prompts' = 0
    BY <1>1, <1>2, <2>1 DEF Serial
  <2>4. QED
    BY <1>1, <1>3, <2>2, <2>3, SerialMove
<1>6. CASE Rejected(c) \/ Observed(c) \/ StartError(c)
  <2>1. PICK r : /\ call' = [call EXCEPT ![c] = r]
                 /\ r.pc \in {"record terminal", "record started", "wait", "reconcile"}
    BY <1>6, StartMoves
  <2>2. QED
    BY <1>1, <1>2, <1>3, <2>1, SerialOther
<1>7. QED
  BY <1>5, <1>6, Zenon DEF Start

LEMMA SerialSubmit ==
  ASSUME IInv, Serial, NEW c \in Callers, Submit(c)
  PROVE  Serial'
<1>1. UNCHANGED intent /\ ~At(c, "idle") /\ At(c, "submit")
  BY DEF Submit, At
<1>2. NoFault \/ \E kinds : Marked(kinds)
  BY Zenon DEF Submit, Fault
<1>3. PICK r : call' = [call EXCEPT ![c] = r] /\ r.pc \in {"poll", "record terminal"}
  <2>1. Goto(c, "poll") \/ Rejected(c)
    BY DEF Submit
  <2>2. QED
    BY <2>1, StartMoves
<1>4. Quiet => prompts = 0 /\ posts = 0
  BY <1>1 DEF Serial, SubmitsFirst
<1>5. Quiet /\ Quiet' => posts' = 0 /\ prompts' <= 1
  <2>1. CASE Accept /\ UNCHANGED posts
    <3>1. prompts' = prompts + 1 /\ posts' = posts
      BY <2>1 DEF Accept
    <3>2. QED
      BY <1>4, <3>1
  <2>2. CASE Marked({"delay"})
    BY <2>2, Zenon DEF Marked, Quiet
  <2>3. CASE UNCHANGED <<conv, prompts, posts>>
    BY <1>4, <2>3
  <2>4. QED
    BY <2>1, <2>2, <2>3, Zenon DEF Submit
<1>6. QED
  BY <1>1, <1>2, <1>3, <1>5, SerialMove

LEMMA SerialBoundary ==
  ASSUME IInv, Serial, NEW c \in Callers,
         Poll(c) \/ Reconcile(c) \/ Inspect(c) \/ Cancel(c) \/ Supersede(c)
  PROVE  Serial'
<1>1. UNCHANGED <<intent, posts>> /\ ~At(c, "idle")
  BY DEF Poll, Reconcile, Inspect, Cancel, Supersede, At
<1>2. UNCHANGED prompts
  BY DEF Poll, Reconcile, Inspect, Cancel, Supersede, Observed
<1>3. NoFault \/ \E kinds : Marked(kinds)
  BY Zenon DEF Poll, Reconcile, Inspect, Cancel, Supersede, BoundaryError, Fault
<1>4. PICK r : /\ call' = [call EXCEPT ![c] = r]
               /\ r.pc \in {"record terminal", "record started", "wait", "reconcile", "start"}
  <2>1. CASE Observed(c) \/ StartError(c) \/ Goto(c, "start") \/ Return(c, "wait")
    BY <2>1, StartMoves
  <2>2. CASE \E obs : Conclude(c, obs)
    <3>1. PICK obs : Conclude(c, obs)
      BY <2>2
    <3>2. CASE Return(c, "wait")
      BY <3>2, StartMoves
    <3>3. CASE \E o : call' = [call EXCEPT ![c].pc = "record terminal", ![c].obs = o]
      <4>1. PICK o : call' = [call EXCEPT ![c].pc = "record terminal", ![c].obs = o]
        BY <3>3
      <4>2. call' = [call EXCEPT ![c] = [call[c] EXCEPT !.pc = "record terminal", !.obs = o]]
        BY <4>1
      <4>3. [call[c] EXCEPT !.pc = "record terminal", !.obs = o].pc = "record terminal"
        BY DEF IInv, CallInv, CallType
      <4>4. QED
        BY <4>2, <4>3
    <3>4. QED
      BY <3>1, <3>2, <3>3, Zenon DEF Conclude
  <2>3. QED
    BY <2>1, <2>2, Zenon DEF Poll, Reconcile, Inspect, Cancel, Supersede, BoundaryError
<1>5. QED
  BY <1>1, <1>2, <1>3, <1>4, SerialOther

LEMMA SerialEnvironment ==
  ASSUME IInv, Serial,
         \/ RequestCancellation \/ Arrive \/ Converse
         \/ AuthorityLost \/ DeadlinePasses \/ EffectiveDeadlinePasses \/ BriefChanges
  PROVE  Serial'
<1>1. CASE Arrive
  <2>1. posts > 0 /\ NoFault
    BY <1>1 DEF Arrive
  <2>2. ~Quiet
    BY <2>1 DEF Serial
  <2>3. QED
    BY <2>1, <2>2 DEF Serial, Quiet, NoFault
<1>2. CASE ~Arrive
  <2>1. UNCHANGED <<intent, call, prompts, posts>> /\ NoFault
    BY <1>2 DEF RequestCancellation, Converse, AuthorityLost, DeadlinePasses,
                EffectiveDeadlinePasses, BriefChanges, Changed
  <2>2. QED
    BY <2>1, SerialStays
<1>3. QED
  BY <1>1, <1>2

LEMMA InitSerial == Init => Serial
  BY DEF Init, Serial, OneAtWork, SubmitsFirst, At, Idle

LEMMA NextSerial == IInv /\ Serial /\ [Next]_vars => Serial'
<1> SUFFICES ASSUME IInv, Serial, [Next]_vars PROVE Serial'
  OBVIOUS
<1>1. CASE UNCHANGED vars
  BY <1>1, SerialStays DEF vars, NoFault
<1>2. ASSUME NEW c \in Callers, Work(c) PROVE Serial'
  BY <1>2, SerialWorker, SerialLoad, SerialCommands, SerialEvidence, SerialStart, SerialSubmit, SerialBoundary, Zenon
     DEF Work
<1>3. ASSUME NEW c \in Callers, Acquire(c) \/ Crash(c) PROVE Serial'
  BY <1>3, SerialWorker
<1>4. QED
  BY <1>1, <1>2, <1>3, SerialSweep, SerialEnvironment, Zenon DEF Next

(* The brief is submitted a second time only after a lease was overrun or a *)
(* submission was left adrift, for any number of callers, crashes, failed   *)
(* calls and reconciliations (startOrReconcile, Client.Start).              *)
THEOREM AtMostOneSubmission == Spec => []SubmittedOnce
<1>1. IInv /\ Serial => SubmittedOnce
  <2> SUFFICES ASSUME IInv, Serial, prompts > 1 PROVE past \cap {"overrun", "delay"} # {}
    BY DEF SubmittedOnce
  <2>1. prompts \in Nat
    BY DEF IInv, CountInv
  <2>2. QED
    BY <2>1 DEF Serial, Quiet
<1>2. QED
  BY <1>1, InitIInv, NextIInv, InitSerial, NextSerial, PTL DEF Spec

-----------------------------------------------------------------------------
(***************************************************************************)
(* What a call that is alone knows.  Until a lease is overrun the only call *)
(* at work holds the intent, and the invocation is where its place in       *)
(* Process says: only the operator's cancellation request moves it.         *)
(***************************************************************************)
Alone == "overrun" \notin past

Fits(r, i) ==
  /\ r.pc \in {"claim", "expire"} => i.state = "AUTHORIZED" /\ i.rev = r.rev
  /\ r.pc \in {"start", "submit", "poll", "reconcile", "record started"} =>
       i.state = "CLAIMED" /\ i.rev = r.rev
  /\ r.pc \in {"inspect", "cancel", "supersede"} => i.state = "STARTED" /\ (i.rev = r.rev \/ i.cancel)
  /\ r.pc = "record terminal" =>
       \/ i.state = "STARTED" /\ (i.rev = r.rev \/ i.cancel)
       \/ i.state = "CLAIMED" /\ i.rev = r.rev /\ r.obs = "START_FAILED"
  /\ r.pc = "load" /\ r.obs # "none" => i.state = "STARTED"

InPlace == \A c \in Callers : Fits(call[c], inv) /\ (At(c, "expire") => env.late)
Positions == Alone => OneAtWork /\ InPlace

(* An overrun lease is not forgotten.                                       *)
LEMMA AloneBefore ==
  ASSUME Alone', NoFault \/ Overrun \/ \E kinds : Marked(kinds)
  PROVE  Alone /\ ~Overrun
  BY Zenon DEF Alone, NoFault, Overrun, Marked

(* The other calls are idle.                                                *)
LEMMA OthersIdle ==
  ASSUME IInv, OneAtWork, NEW c \in Callers, ~At(c, "idle")
  PROVE  Holds(c) /\ \A d \in Callers \ {c} : At(d, "idle")
<1>1. Holds(c)
  BY DEF OneAtWork
<1>2. ASSUME NEW d \in Callers \ {c} PROVE At(d, "idle")
  <2>1. ~Holds(d)
    BY <1>1 DEF Holds
  <2> QED BY <2>1 DEF OneAtWork
<1> QED BY <1>1, <1>2

(* The only call at work moves to a place that fits the invocation.         *)
LEMMA PositionMove ==
  ASSUME IInv, Positions, NEW c \in Callers, NEW r, call' = [call EXCEPT ![c] = r],
         ~At(c, "idle"), r.pc # "idle" => UNCHANGED intent,
         NoFault \/ \E kinds : Marked(kinds),
         Alone => Fits(r, inv') /\ (r.pc = "expire" => env.late'), env.late => env.late'
  PROVE  Positions'
<1> SUFFICES ASSUME Alone' PROVE (OneAtWork /\ InPlace)'
  BY DEF Positions
<1>1. Alone
  BY AloneBefore
<1>2. Holds(c) /\ \A d \in Callers \ {c} : At(d, "idle")
  BY <1>1, OthersIdle DEF Positions
<1>3. call'[c] = r /\ \A d \in Callers \ {c} : call'[d] = call[d]
  BY DEF IInv, CallInv
<1>4. OneAtWork'
  BY <1>2, <1>3 DEF OneAtWork, At, Holds
<1>5. ASSUME NEW d \in Callers PROVE Fits(call'[d], inv') /\ (call'[d].pc = "expire" => env.late')
  <2>1. CASE d = c
    BY <1>1, <1>3, <2>1
  <2>2. CASE d # c
    <3>1. call'[d].pc = "idle"
      BY <1>2, <1>3, <2>2 DEF At
    <3> QED BY <3>1 DEF Fits
  <2> QED BY <2>1, <2>2
<1> QED BY <1>4, <1>5 DEF InPlace, At

(* Where Return takes a call, nothing is asked of the invocation.           *)
LEMMA ReturnFits ==
  ASSUME NEW pc \in {"idle", "load", "wait", "yield", "resolve"}, NEW i
  PROVE  LET r == [Idle EXCEPT !.pc = pc] IN r.pc = pc /\ Fits(r, i)
  BY DEF Idle, Fits

LEMMA PositionReturn ==
  ASSUME IInv, Positions, NEW c \in Callers, NEW pc \in {"idle", "load", "wait", "yield", "resolve"},
         Return(c, pc), ~At(c, "idle"), pc # "idle" => UNCHANGED intent,
         NoFault \/ \E kinds : Marked(kinds), UNCHANGED env
  PROVE  Positions'
<1> DEFINE r == [Idle EXCEPT !.pc = pc]
<1>1. r.pc = pc /\ Fits(r, inv')
  BY ReturnFits
<1>2. call' = [call EXCEPT ![c] = r]
  BY DEF Return
<1> HIDE DEF r
<1> QED BY <1>1, <1>2, PositionMove

LEMMA PositionWorker ==
  ASSUME IInv, Positions, NEW c \in Callers,
         Wait(c) \/ Resolve(c) \/ Yield(c) \/ Crash(c)
  PROVE  Positions'
<1>1. UNCHANGED env /\ ~At(c, "idle")
  BY DEF Wait, Resolve, Yield, Release, Crash, At
<1>2. CASE Wait(c)
  <2>1. PICK pc \in {"load", "yield", "idle"} : Return(c, pc)
    BY <1>2 DEF Wait
  <2>2. UNCHANGED intent /\ NoFault
    BY <1>2 DEF Wait
  <2> QED BY <1>1, <2>1, <2>2, PositionReturn
<1>3. CASE Resolve(c) \/ Yield(c) \/ Crash(c)
  <2>1. Return(c, "idle")
    BY <1>3 DEF Resolve, Yield, Release, Crash
  <2>2. NoFault \/ \E kinds : Marked(kinds)
    BY <1>3, Zenon DEF Resolve, Yield, Release, Crash, Fault
  <2> QED BY <1>1, <2>1, <2>2, PositionReturn
<1> QED BY <1>2, <1>3

(* A new call finds all others idle.                                        *)
LEMMA PositionAcquire ==
  ASSUME IInv, Positions, NEW c \in Callers, Acquire(c)
  PROVE  Positions'
<1> SUFFICES ASSUME Alone' PROVE (OneAtWork /\ InPlace)'
  BY DEF Positions
<1>1. Alone
  BY AloneBefore DEF Acquire
<1>2. \A d \in Callers : At(d, "idle")
  BY <1>1 DEF Positions, OneAtWork, Holds, Acquire
<1> DEFINE r == [Idle EXCEPT !.pc = "load"]
<1>3. r.pc = "load" /\ Fits(r, inv')
  BY ReturnFits
<1>4. call' = [call EXCEPT ![c] = r] /\ Holds(c)'
  BY DEF Acquire, Return, Holds
<1> HIDE DEF r
<1>5. call'[c] = r /\ \A d \in Callers \ {c} : call'[d] = call[d]
  BY <1>4 DEF IInv, CallInv
<1>6. ASSUME NEW d \in Callers
      PROVE  (call'[d].pc # "idle" => d = c) /\ Fits(call'[d], inv') /\ call'[d].pc # "expire"
  <2>1. CASE d = c
    BY <1>3, <1>5, <2>1
  <2>2. CASE d # c
    <3>1. call'[d].pc = "idle"
      BY <1>2, <1>5, <2>2 DEF At
    <3> QED BY <3>1 DEF Fits
  <2> QED BY <2>1, <2>2
<1> QED BY <1>4, <1>6 DEF OneAtWork, InPlace, At

(* A sweep that overruns no lease finds all calls idle.                     *)
LEMMA PositionSweep ==
  ASSUME IInv, Positions, Sweep
  PROVE  Positions'
<1> SUFFICES ASSUME Alone' PROVE (OneAtWork /\ InPlace)'
  BY DEF Positions
<1>1. Alone /\ ~Overrun
  BY AloneBefore DEF Sweep
<1>2. OneAtWork /\ InPlace /\ At(intent.holder, "idle")
  BY <1>1 DEF Positions, Sweep
<1>3. \A d \in Callers : At(d, "idle")
  BY <1>2 DEF OneAtWork, Holds
<1>4. UNCHANGED <<call, inv, env>>
  BY DEF Sweep
<1> QED BY <1>2, <1>3, <1>4 DEF OneAtWork, InPlace, At

(* A command moves its call on, to resolve or to yield.                     *)
LEMMA PositionApply ==
  ASSUME IInv, Positions, NEW c \in Callers, ~At(c, "idle"), UNCHANGED <<intent, env>>,
         NEW allowed, NEW next, NEW applied, Apply(c, allowed, next, applied),
         applied.pc \in {"load", "resolve"},
         inv' = [next EXCEPT !.rev = @ + 1] => Fits(applied, inv')
  PROVE  Positions'
<1>1. NoFault \/ \E kinds : Marked(kinds)
  BY Zenon DEF Apply, Fault
<1>2. CASE Return(c, "resolve") \/ Return(c, "yield")
  BY <1>1, <1>2, PositionReturn
<1>3. CASE inv' = [next EXCEPT !.rev = @ + 1] /\ call' = [call EXCEPT ![c] = applied]
  BY <1>1, <1>3, PositionMove
<1> QED BY <1>2, <1>3, Zenon DEF Apply

LEMMA PositionCommands ==
  ASSUME IInv, Positions, NEW c \in Callers,
         Expire(c) \/ Claim(c) \/ RecordStarted(c) \/ RecordTerminal(c)
  PROVE  Positions'
<1>1. UNCHANGED <<intent, env>> /\ ~At(c, "idle")
  BY DEF Expire, Claim, RecordStarted, RecordTerminal, At
<1>2. CASE Expire(c)
  <2> DEFINE r == [Idle EXCEPT !.pc = "load"]
  <2>1. r.pc = "load" /\ Fits(r, inv')
    BY ReturnFits
  <2>2. Apply(c, Expirable, [inv EXCEPT !.state = "EXPIRED"], r)
    BY <1>2 DEF Expire
  <2> HIDE DEF r
  <2> QED BY <1>1, <2>1, <2>2, PositionApply
<1>3. CASE Claim(c)
  <2> DEFINE r == [Idle EXCEPT !.pc = "load", !.fresh = TRUE]
  <2>1. r.pc = "load" /\ Fits(r, inv')
    BY DEF Idle, Fits
  <2>2. Apply(c, Claimable, [inv EXCEPT !.state = "CLAIMED"], r)
    BY <1>3 DEF Claim
  <2> HIDE DEF r
  <2> QED BY <1>1, <2>1, <2>2, PositionApply
<1>4. CASE RecordStarted(c)
  <2> DEFINE next == [inv EXCEPT !.state = "STARTED", !.brief = call[c].brief]
             r == [Idle EXCEPT !.pc = "load", !.obs = IF call[c].obs = "RUNNING" THEN "none" ELSE call[c].obs]
  <2>1. r.pc = "load"
    BY DEF Idle
  <2>2. ASSUME inv' = [next EXCEPT !.rev = @ + 1] PROVE Fits(r, inv')
    <3>1. inv'.state = "STARTED"
      BY <2>2 DEF IInv, InvInv, InvType
    <3> QED BY <2>1, <3>1 DEF Fits
  <2>3. Apply(c, Startable, next, r)
    BY <1>4 DEF RecordStarted
  <2> HIDE DEF r, next
  <2> QED BY <1>1, <2>1, <2>2, <2>3, PositionApply
<1>5. CASE RecordTerminal(c)
  <2> DEFINE r == [Idle EXCEPT !.pc = "resolve"]
  <2>1. r.pc = "resolve" /\ Fits(r, inv')
    BY ReturnFits
  <2>2. Apply(c, Recordable(call[c].obs), [inv EXCEPT !.state = call[c].obs], r)
    BY <1>5 DEF RecordTerminal
  <2> HIDE DEF r
  <2> QED BY <1>1, <2>1, <2>2, PositionApply
<1> QED BY <1>2, <1>3, <1>4, <1>5

LEMMA PositionEvidence ==
  ASSUME IInv, Positions, NEW c \in Callers, RecordEvidence(c)
  PROVE  Positions'
<1>1. /\ UNCHANGED <<inv, intent, env>> /\ At(c, "record terminal") /\ ~At(c, "idle")
      /\ NoFault \/ \E kinds : Marked(kinds)
  BY EvidenceMoves
<1>2. CASE Return(c, "yield")
  BY <1>1, <1>2, PositionReturn
<1>3. ASSUME NEW r \in CallType, call' = [call EXCEPT ![c] = r], r.pc = "record terminal",
             r.obs = call[c].obs, r.rev = call[c].rev
      PROVE  Positions'
  <2>1. Alone => Fits(call[c], inv)
    BY DEF Positions, InPlace
  <2>2. Alone => Fits(r, inv')
    BY <1>1, <1>3, <2>1 DEF Fits, At
  <2> QED BY <1>1, <1>3, <2>2, PositionMove
<1> QED BY <1>2, <1>3, EvidenceMoves

(* Process loads the invocation and takes the branch of its state.          *)
LEMMA PositionLoad ==
  ASSUME IInv, Positions, NEW c \in Callers, Load(c)
  PROVE  Positions'
<1>1. UNCHANGED <<inv, intent, env>> /\ ~At(c, "idle") /\ At(c, "load")
  BY DEF Load, At
<1>2. PICK pc \in BrokenBranch \cup {Branch(c)} : call' = [call EXCEPT ![c] = Loaded(c, pc)]
  BY Zenon DEF Load
<1>3. NoFault \/ \E kinds : Marked(kinds)
  BY Zenon DEF Load
<1> DEFINE r == Loaded(c, pc)
<1>4. /\ r.pc = IF pc = "fail start" THEN "record terminal" ELSE pc
      /\ r.rev = inv.rev /\ r.obs = IF pc = "fail start" THEN "START_FAILED" ELSE call[c].obs
  BY DEF Loaded
<1> HIDE DEF r
<1>5. inv.state \in {"AUTHORIZED", "CLAIMED", "STARTED"} \cup Ended
  BY DEF IInv, InvInv, InvType
<1>6. ASSUME Alone PROVE Fits(r, inv) /\ (r.pc = "expire" => env.late)
  <2>1. call[c].obs # "none" => inv.state = "STARTED"
    BY <1>1, <1>6 DEF Positions, InPlace, Fits, At
  <2>2. CASE pc \in BrokenBranch
    <3>1. pc \in {"yield", "resolve"} \/ (pc = "fail start" /\ inv.state = "CLAIMED")
      BY <2>2 DEF BrokenBranch
    <3> QED BY <1>4, <3>1 DEF Fits
  <2>3. CASE pc = Branch(c) /\ call[c].obs # "none"
    <3>1. pc = "record terminal"
      BY <2>3 DEF Branch
    <3> QED BY <1>4, <2>1, <2>3, <3>1 DEF Fits
  <2>4. CASE pc = Branch(c) /\ call[c].obs = "none"
    <3>1. CASE inv.state \in Ended
      <4>1. pc = "resolve"
        BY <2>4, <3>1 DEF Branch, Terminal, Ended
      <4> QED BY <1>4, <4>1 DEF Fits
    <3>2. CASE inv.state = "AUTHORIZED"
      <4>1. pc \in {"expire", "claim", "resolve"} /\ (pc = "expire" => env.late)
        BY <2>4, <3>2 DEF Branch, Terminal, Ended
      <4> QED BY <1>4, <3>2, <4>1 DEF Fits
    <3>3. CASE inv.state = "CLAIMED"
      <4>1. pc \in {"fail start", "start", "reconcile"}
        BY <2>4, <3>3 DEF Branch, Terminal, Ended
      <4> QED BY <1>4, <3>3, <4>1 DEF Fits
    <3>4. CASE inv.state = "STARTED"
      <4>1. pc \in {"supersede", "cancel", "inspect"}
        BY <2>4, <3>4 DEF Branch, Terminal, Ended
      <4> QED BY <1>4, <3>4, <4>1 DEF Fits
    <3> QED BY <1>5, <3>1, <3>2, <3>3, <3>4
  <2> QED BY <1>2, <2>2, <2>3, <2>4
<1>7. r.pc # "idle"
  <2>1. CASE pc \in BrokenBranch
    BY <1>4, <2>1 DEF BrokenBranch
  <2>2. CASE pc = Branch(c)
    BY <1>4, <1>5, <2>2 DEF Branch, Terminal, Ended
  <2> QED BY <1>2, <2>1, <2>2
<1> QED BY <1>1, <1>2, <1>3, <1>6, PositionMove DEF r

(* A start, and whatever reconciles it, stays with the claimed invocation.  *)
LEMMA PositionStarting ==
  ASSUME IInv, Positions, NEW c \in Callers,
         Start(c) \/ Submit(c) \/ Poll(c) \/ Reconcile(c)
  PROVE  Positions'
<1>1. UNCHANGED <<inv, intent, env>> /\ ~At(c, "idle")
  BY DEF Start, Submit, Poll, Reconcile, At
<1>2. NoFault \/ \E kinds : Marked(kinds)
  BY Zenon DEF Start, Submit, Poll, Reconcile, Fault
<1>3. Alone => inv.state = "CLAIMED" /\ inv.rev = call[c].rev
  BY DEF Positions, InPlace, Fits, At, Start, Submit, Poll, Reconcile
<1>4. call[c] \in CallType
  BY DEF IInv, CallInv
<1>5. CASE Return(c, "wait")
  BY <1>1, <1>2, <1>5, PositionReturn
<1>6. ASSUME NEW r, call' = [call EXCEPT ![c] = r], r.rev = call[c].rev,
             \/ r.pc \in {"start", "submit", "poll", "reconcile", "record started"}
             \/ r.pc = "record terminal" /\ r.obs = "START_FAILED"
      PROVE  Positions'
  <2>1. Alone => Fits(r, inv') /\ r.pc # "expire"
    BY <1>1, <1>3, <1>6 DEF Fits
  <2> QED BY <1>1, <1>2, <1>6, <2>1, PositionMove
<1>7. CASE \E pc \in {"start", "submit", "poll"} : Goto(c, pc)
  <2>1. PICK pc \in {"start", "submit", "poll"} : call' = [call EXCEPT ![c] = [call[c] EXCEPT !.pc = pc]]
    BY <1>7 DEF Goto
  <2>2. [call[c] EXCEPT !.pc = pc].pc = pc /\ [call[c] EXCEPT !.pc = pc].rev = call[c].rev
    BY <1>4 DEF CallType
  <2> QED BY <1>6, <2>1, <2>2
<1>8. CASE Rejected(c)
  <2> DEFINE r == [call[c] EXCEPT !.pc = "record terminal", !.obs = "START_FAILED"]
  <2>1. call' = [call EXCEPT ![c] = r]
    BY <1>8 DEF Rejected
  <2>2. r.pc = "record terminal" /\ r.obs = "START_FAILED" /\ r.rev = call[c].rev
    BY <1>4 DEF CallType
  <2> QED BY <1>6, <2>1, <2>2
<1>9. CASE Observed(c)
  <2>1. PICK obs : call' = [call EXCEPT ![c] = [call[c] EXCEPT !.pc = "record started", !.obs = obs]]
    BY <1>9 DEF Observed
  <2> DEFINE r == [call[c] EXCEPT !.pc = "record started", !.obs = obs]
  <2>2. r.pc = "record started" /\ r.rev = call[c].rev
    BY <1>4 DEF CallType
  <2> QED BY <1>6, <2>1, <2>2
<1>10. CASE StartError(c)
  <2>1. CASE call' = [call EXCEPT ![c].pc = "reconcile", ![c].final = TRUE]
    <3> DEFINE r == [call[c] EXCEPT !.pc = "reconcile", !.final = TRUE]
    <3>1. call' = [call EXCEPT ![c] = r]
      BY <2>1
    <3>2. r.pc = "reconcile" /\ r.rev = call[c].rev
      BY <1>4 DEF CallType
    <3> QED BY <1>6, <3>1, <3>2
  <2> QED BY <1>5, <1>10, <2>1 DEF StartError
<1> QED BY <1>5, <1>7, <1>8, <1>9, <1>10, Zenon DEF Start, Submit, Poll, Reconcile

(* What is done to a started conversation leaves the invocation started.    *)
LEMMA PositionStarted ==
  ASSUME IInv, Positions, NEW c \in Callers, Inspect(c) \/ Cancel(c) \/ Supersede(c)
  PROVE  Positions'
<1>1. UNCHANGED <<inv, intent, env>> /\ ~At(c, "idle")
  BY DEF Inspect, Cancel, Supersede, At
<1>2. NoFault \/ \E kinds : Marked(kinds)
  BY Zenon DEF Inspect, Cancel, Supersede, BoundaryError, Fault
<1>3. Alone => inv.state = "STARTED" /\ (inv.rev = call[c].rev \/ inv.cancel)
  BY DEF Positions, InPlace, Fits, At, Inspect, Cancel, Supersede
<1>4. call[c] \in CallType
  BY DEF IInv, CallInv
<1>5. CASE Return(c, "wait")
  BY <1>1, <1>2, <1>5, PositionReturn
<1>6. CASE \E o : call' = [call EXCEPT ![c].pc = "record terminal", ![c].obs = o]
  <2>1. PICK o : call' = [call EXCEPT ![c] = [call[c] EXCEPT !.pc = "record terminal", !.obs = o]]
    BY <1>6
  <2> DEFINE r == [call[c] EXCEPT !.pc = "record terminal", !.obs = o]
  <2>2. r.pc = "record terminal" /\ r.rev = call[c].rev
    BY <1>4 DEF CallType
  <2> HIDE DEF r
  <2>3. Alone => Fits(r, inv') /\ r.pc # "expire"
    BY <1>1, <1>3, <2>2 DEF Fits
  <2> QED BY <1>1, <1>2, <2>1, <2>2, <2>3, PositionMove DEF r
<1> QED BY <1>5, <1>6, Zenon DEF Inspect, Cancel, Supersede, BoundaryError, Conclude

(* The environment moves no call.                                           *)
LEMMA PositionEnvironment ==
  ASSUME IInv, Positions,
         \/ RequestCancellation \/ Arrive \/ Converse
         \/ AuthorityLost \/ DeadlinePasses \/ EffectiveDeadlinePasses \/ BriefChanges
  PROVE  Positions'
<1>1. UNCHANGED <<intent, call>> /\ NoFault
  BY DEF RequestCancellation, Arrive, Converse, AuthorityLost, DeadlinePasses,
         EffectiveDeadlinePasses, BriefChanges, Changed
<1>2. env.late => env'.late
  BY DEF RequestCancellation, Arrive, Converse, AuthorityLost, DeadlinePasses,
         EffectiveDeadlinePasses, BriefChanges, Changed, IInv, CountInv
<1>3. \A r : Fits(r, inv) => Fits(r, inv')
  <2>1. CASE RequestCancellation
    <3>1. inv.state = "STARTED" /\ inv'.state = "STARTED" /\ inv'.cancel
      BY <2>1 DEF RequestCancellation, IInv, InvInv, InvType
    <3> QED BY <3>1 DEF Fits
  <2>2. CASE ~RequestCancellation
    <3>1. inv' = inv
      BY <2>2 DEF Arrive, Converse, AuthorityLost, DeadlinePasses,
                  EffectiveDeadlinePasses, BriefChanges, Changed
    <3> QED BY <3>1
  <2> QED BY <2>1, <2>2
<1> QED BY <1>1, <1>2, <1>3 DEF Positions, Alone, NoFault, OneAtWork, InPlace, At, Holds

LEMMA InitPositions == Init => Positions
<1> SUFFICES ASSUME Init PROVE Positions
  OBVIOUS
<1>1. \A c \in Callers : call[c].pc = "idle"
  BY DEF Init, Idle
<1> QED BY <1>1 DEF Positions, OneAtWork, InPlace, Fits, At

LEMMA NextPositions == IInv /\ Positions /\ [Next]_vars => Positions'
<1> SUFFICES ASSUME IInv, Positions, [Next]_vars PROVE Positions'
  OBVIOUS
<1>1. CASE UNCHANGED vars
  BY <1>1 DEF vars, Positions, Alone, OneAtWork, InPlace, At, Holds
<1>2. ASSUME NEW c \in Callers, Acquire(c) \/ Work(c) \/ Crash(c) PROVE Positions'
  BY <1>2, PositionWorker, PositionAcquire, PositionLoad, PositionCommands, PositionEvidence, PositionStarting,
     PositionStarted, Zenon DEF Work
<1> QED BY <1>1, <1>2, PositionSweep, PositionEnvironment, Zenon DEF Next

-----------------------------------------------------------------------------
(***************************************************************************)
(* Abandoned invocations.  A call resolves the intent of an invocation that *)
(* has not ended only for a reason that lasts.                              *)
(***************************************************************************)
Excuse ==
  /\ inv.state = "AUTHORIZED" => ~Valid
  /\ inv.state = "CLAIMED" => env.late
  /\ inv.state = "STARTED" => inv.cancel

Excused ==
  Alone /\ "context" \notin past =>
    /\ intent.state = "RESOLVED" => Excuse
    /\ \A c \in Callers : At(c, "resolve") => Excuse

(* A step from an excused state is not excused again where the only call at *)
(* work comes to resolve, or resolves.                                      *)
LEMMA ExcusedMove ==
  ASSUME IInv, Positions, Excused, NEW c \in Callers, NEW r, call' = [call EXCEPT ![c] = r],
         ~At(c, "idle"), NoFault \/ \E kinds : Marked(kinds),
         intent' = intent \/ (UNCHANGED <<inv, env>> /\ At(c, "resolve")) \/ intent'.state # "RESOLVED",
         Alone /\ "context" \notin past' /\ r.pc = "resolve" => Excuse'
  PROVE  Excused'
<1> SUFFICES ASSUME Alone', "context" \notin past'
             PROVE  /\ intent'.state = "RESOLVED" => Excuse'
                    /\ \A d \in Callers : At(d, "resolve")' => Excuse'
  BY DEF Excused
<1>1. Alone /\ "context" \notin past
  <2>1. past \subseteq past'
    BY Zenon DEF NoFault, Marked
  <2> QED BY <2>1, AloneBefore
<1>2. Holds(c) /\ \A d \in Callers \ {c} : At(d, "idle")
  BY <1>1, OthersIdle DEF Positions
<1>3. call'[c] = r /\ \A d \in Callers \ {c} : call'[d] = call[d]
  BY DEF IInv, CallInv
<1>4. \A d \in Callers : At(d, "resolve")' => Excuse'
  BY <1>1, <1>2, <1>3 DEF At
<1>5. intent'.state = "RESOLVED" => Excuse'
  <2>1. intent.state # "RESOLVED"
    BY <1>2 DEF Holds
  <2>2. At(c, "resolve") => Excuse
    BY <1>1 DEF Excused
  <2> QED BY <2>1, <2>2 DEF Excuse, Valid
<1> QED BY <1>4, <1>5

(* A call that moves elsewhere.                                             *)
LEMMA ExcusedOther ==
  ASSUME IInv, Positions, Excused, NEW c \in Callers, NEW r, call' = [call EXCEPT ![c] = r],
         ~At(c, "idle"), r.pc # "resolve", UNCHANGED intent,
         NoFault \/ \E kinds : Marked(kinds)
  PROVE  Excused'
  BY ExcusedMove

LEMMA ExcusedWorker ==
  ASSUME IInv, Positions, Excused, NEW c \in Callers,
         Acquire(c) \/ Wait(c) \/ Resolve(c) \/ Yield(c) \/ Crash(c)
  PROVE  Excused'
<1>0. \A pc : [Idle EXCEPT !.pc = pc].pc = pc
  BY DEF Idle
<1>1. UNCHANGED <<inv, env>>
  BY DEF Acquire, Wait, Resolve, Yield, Release, Crash
<1>2. CASE Acquire(c)
  <2> SUFFICES ASSUME Alone', "context" \notin past'
               PROVE  /\ intent'.state = "RESOLVED" => Excuse'
                      /\ \A d \in Callers : At(d, "resolve")' => Excuse'
    BY DEF Excused
  <2>1. Alone /\ "context" \notin past /\ intent'.state = "CLAIMED"
    BY <1>2 DEF Acquire, NoFault, Alone
  <2>2. call' = [call EXCEPT ![c] = [Idle EXCEPT !.pc = "load"]]
    BY <1>2 DEF Acquire, Return
  <2>3. call'[c].pc = "load" /\ \A d \in Callers \ {c} : call'[d] = call[d]
    BY <1>0, <2>2 DEF IInv, CallInv
  <2>4. ASSUME NEW d \in Callers, At(d, "resolve")' PROVE Excuse'
    <3>1. At(d, "resolve")
      BY <2>3, <2>4 DEF At
    <3> QED BY <1>1, <2>1, <3>1 DEF Excused, Excuse, Valid
  <2> QED BY <2>1, <2>4
<1>3. CASE Wait(c)
  <2>1. PICK pc \in {"load", "yield", "idle"} : call' = [call EXCEPT ![c] = [Idle EXCEPT !.pc = pc]]
    BY <1>3 DEF Wait, Return
  <2>2. UNCHANGED intent /\ NoFault /\ ~At(c, "idle")
    BY <1>3 DEF Wait, At
  <2> QED BY <1>0, <2>1, <2>2, ExcusedOther
<1>4. CASE Resolve(c) \/ Yield(c) \/ Crash(c)
  <2>1. call' = [call EXCEPT ![c] = [Idle EXCEPT !.pc = "idle"]] /\ ~At(c, "idle")
    BY <1>4 DEF Resolve, Yield, Release, Crash, At, Return
  <2>2. NoFault \/ \E kinds : Marked(kinds)
    BY <1>4, Zenon DEF Resolve, Yield, Release, Crash, Fault
  <2>3. intent' = intent \/ (UNCHANGED <<inv, env>> /\ At(c, "resolve")) \/ intent'.state # "RESOLVED"
    BY <1>1, <1>4 DEF Resolve, Yield, Release, Crash
  <2> HIDE DEF Idle
  <2>4. [Idle EXCEPT !.pc = "idle"].pc # "resolve"
    BY <1>0
  <2> QED BY <2>1, <2>2, <2>3, <2>4, ExcusedMove
<1> QED BY <1>2, <1>3, <1>4

(* A command is refused for a lasting reason, or the invocation has ended.  *)
LEMMA ExcusedCommands ==
  ASSUME IInv, Positions, Excused, NEW c \in Callers,
         Expire(c) \/ Claim(c) \/ RecordStarted(c) \/ RecordTerminal(c)
  PROVE  Excused'
<1>0. \A pc : [Idle EXCEPT !.pc = pc].pc = pc
  BY DEF Idle
<1>1. UNCHANGED <<intent, env>> /\ ~At(c, "idle")
  BY DEF Expire, Claim, RecordStarted, RecordTerminal, At
<1>2. ASSUME NEW allowed, NEW next, NEW applied, Apply(c, allowed, next, applied),
             Alone => (Current(c) /\ allowed) \/ Excuse,
             applied.pc # "resolve" \/ next.state \in Ended, next \in InvType
      PROVE  Excused'
  <2>1. NoFault \/ \E kinds : Marked(kinds)
    BY <1>2, Zenon DEF Apply, Fault
  <2>2. CASE Return(c, "yield")
    <3> DEFINE r == [Idle EXCEPT !.pc = "yield"]
    <3>1. call' = [call EXCEPT ![c] = r] /\ r.pc = "yield"
      BY <1>0, <2>2 DEF Return
    <3> HIDE DEF r
    <3> QED BY <1>1, <2>1, <3>1, ExcusedOther
  <2>3. CASE Return(c, "resolve") /\ ~(Current(c) /\ allowed) /\ UNCHANGED inv
    <3> DEFINE r == [Idle EXCEPT !.pc = "resolve"]
    <3>1. call' = [call EXCEPT ![c] = r]
      BY <2>3 DEF Return
    <3>2. Alone => Excuse'
      BY <1>1, <1>2, <2>3 DEF Excuse, Valid
    <3> HIDE DEF r
    <3> QED BY <1>1, <2>1, <3>1, <3>2, ExcusedMove
  <2>4. CASE inv' = [next EXCEPT !.rev = @ + 1] /\ call' = [call EXCEPT ![c] = applied]
    <3>1. inv'.state = next.state
      BY <1>2, <2>4 DEF InvType
    <3>2. applied.pc = "resolve" => Excuse'
      BY <1>2, <3>1 DEF Excuse, Ended
    <3> QED BY <1>1, <2>1, <2>4, <3>2, ExcusedMove
  <2> QED BY <1>2, <2>2, <2>3, <2>4, Zenon DEF Apply
<1>3. Alone => Fits(call[c], inv) /\ (At(c, "expire") => env.late)
  BY DEF Positions, InPlace
<1>4. inv \in InvType /\ call[c] \in CallType
  BY DEF IInv, InvInv, CallInv
<1>5. CASE Expire(c)
  <2>1. Alone => Current(c) /\ Expirable
    BY <1>3, <1>5 DEF Expire, At, Fits, Current, Expirable
  <2>2. Apply(c, Expirable, [inv EXCEPT !.state = "EXPIRED"], [Idle EXCEPT !.pc = "load"])
    BY <1>5 DEF Expire
  <2>3. [Idle EXCEPT !.pc = "load"].pc # "resolve" /\ [inv EXCEPT !.state = "EXPIRED"] \in InvType
    BY <1>0, <1>4 DEF InvType, Ended
  <2> QED BY <1>2, <2>1, <2>2, <2>3
<1>6. CASE Claim(c)
  <2>1. Alone => (Current(c) /\ Claimable) \/ Excuse
    BY <1>3, <1>6 DEF Claim, At, Fits, Current, Claimable, Excuse, Valid
  <2>2. Apply(c, Claimable, [inv EXCEPT !.state = "CLAIMED"], [Idle EXCEPT !.pc = "load", !.fresh = TRUE])
    BY <1>6 DEF Claim
  <2>3. [Idle EXCEPT !.pc = "load", !.fresh = TRUE].pc # "resolve" /\ [inv EXCEPT !.state = "CLAIMED"] \in InvType
    BY <1>4 DEF InvType, Idle
  <2> QED BY <1>2, <2>1, <2>2, <2>3
<1>7. CASE RecordStarted(c)
  <2> DEFINE next == [inv EXCEPT !.state = "STARTED", !.brief = call[c].brief]
             r == [Idle EXCEPT !.pc = "load", !.obs = IF call[c].obs = "RUNNING" THEN "none" ELSE call[c].obs]
  <2>1. Alone => (Current(c) /\ Startable) \/ Excuse
    BY <1>3, <1>7 DEF RecordStarted, At, Fits, Current, Startable, Excuse
  <2>2. Apply(c, Startable, next, r)
    BY <1>7 DEF RecordStarted
  <2>3. r.pc # "resolve" /\ next \in InvType
    BY <1>4 DEF InvType, CallType, Idle
  <2> HIDE DEF next, r
  <2> QED BY <1>2, <2>1, <2>2, <2>3
<1>8. CASE RecordTerminal(c)
  <2> DEFINE next == [inv EXCEPT !.state = call[c].obs]
  <2>1. Alone => (Current(c) /\ Recordable(call[c].obs)) \/ Excuse
    BY <1>3, <1>8 DEF RecordTerminal, At, Fits, Current, Recordable, Excuse
  <2>2. Apply(c, Recordable(call[c].obs), next, [Idle EXCEPT !.pc = "resolve"])
    BY <1>8 DEF RecordTerminal
  <2>3. call[c].obs \in Ended
    BY <1>8 DEF RecordTerminal, At, IInv, CallInv, Knows
  <2>4. next \in InvType /\ next.state \in Ended
    BY <1>4, <2>3 DEF InvType
  <2> HIDE DEF next
  <2> QED BY <1>2, <2>1, <2>2, <2>4
<1> QED BY <1>5, <1>6, <1>7, <1>8

LEMMA ExcusedEvidence ==
  ASSUME IInv, Positions, Excused, NEW c \in Callers, RecordEvidence(c)
  PROVE  Excused'
<1>1. UNCHANGED intent /\ ~At(c, "idle") /\ (NoFault \/ \E kinds : Marked(kinds))
  BY EvidenceMoves
<1>2. \E r : call' = [call EXCEPT ![c] = r] /\ r.pc # "resolve"
  <2>1. [Idle EXCEPT !.pc = "yield"].pc = "yield"
    BY DEF Idle
  <2> QED BY <2>1, EvidenceMoves DEF Return
<1> QED BY <1>1, <1>2, ExcusedOther

(* Process resolves what has ended, or may not be claimed any more.         *)
LEMMA ExcusedLoad ==
  ASSUME IInv, Positions, Excused, NEW c \in Callers, Load(c)
  PROVE  Excused'
<1>1. UNCHANGED <<inv, intent, env>> /\ ~At(c, "idle") /\ At(c, "load")
  BY DEF Load, At
<1>2. NoFault \/ \E kinds : Marked(kinds)
  BY Zenon DEF Load
<1>3. CASE Marked({"context"})
  <2>1. "context" \in past'
    BY <1>3, Zenon DEF Marked
  <2> QED BY <2>1 DEF Excused
<1>4. CASE call' = [call EXCEPT ![c] = Loaded(c, Branch(c))]
  <2>1. inv.state \in {"AUTHORIZED", "CLAIMED", "STARTED"} \cup Ended
    BY DEF IInv, InvInv, InvType
  <2>2. Loaded(c, Branch(c)).pc = "resolve" => Branch(c) = "resolve"
    BY DEF Loaded
  <2>3. Branch(c) = "resolve" => inv.state \in Ended \/ (inv.state = "AUTHORIZED" /\ ~Valid)
    BY <2>1 DEF Branch, Terminal, Ended
  <2>4. Loaded(c, Branch(c)).pc = "resolve" => Excuse'
    BY <1>1, <2>2, <2>3 DEF Excuse, Valid, Ended
  <2> DEFINE r == Loaded(c, Branch(c))
  <2> HIDE DEF r
  <2> QED BY <1>1, <1>2, <1>4, <2>4, ExcusedMove DEF r
<1> QED BY <1>3, <1>4, Zenon DEF Load

LEMMA ExcusedBoundary ==
  ASSUME IInv, Positions, Excused, NEW c \in Callers,
         \/ Start(c) \/ Submit(c) \/ Poll(c) \/ Reconcile(c)
         \/ Inspect(c) \/ Cancel(c) \/ Supersede(c)
  PROVE  Excused'
<1>1. UNCHANGED intent /\ ~At(c, "idle")
  BY DEF Start, Submit, Poll, Reconcile, Inspect, Cancel, Supersede, At
<1>2. NoFault \/ \E kinds : Marked(kinds)
  BY Zenon DEF Start, Submit, Poll, Reconcile, Inspect, Cancel, Supersede, BoundaryError, Fault
<1>3. \E r : /\ call' = [call EXCEPT ![c] = r]
             /\ r.pc \in {"record terminal", "record started", "wait", "reconcile", "start", "submit", "poll"}
  <2>1. CASE \E pc \in {"start", "submit", "poll"} : Goto(c, pc)
    <3>1. PICK pc \in {"start", "submit", "poll"} : Goto(c, pc)
      BY <2>1
    <3>2. \E r : call' = [call EXCEPT ![c] = r] /\ r.pc = pc
      BY <3>1, StartMoves
    <3> QED BY <3>2
  <2>3. CASE Observed(c) \/ StartError(c) \/ Rejected(c) \/ Return(c, "wait")
    <3>1. \E r : call' = [call EXCEPT ![c] = r] /\ r.pc \in {"record terminal", "record started", "wait", "reconcile"}
      BY <2>3, StartMoves
    <3> QED BY <3>1
  <2>2. CASE \E o : call' = [call EXCEPT ![c].pc = "record terminal", ![c].obs = o]
    <3>1. PICK o : call' = [call EXCEPT ![c] = [call[c] EXCEPT !.pc = "record terminal", !.obs = o]]
      BY <2>2
    <3>2. [call[c] EXCEPT !.pc = "record terminal", !.obs = o].pc = "record terminal"
      BY DEF IInv, CallInv, CallType
    <3> QED BY <3>1, <3>2
  <2> QED BY <2>1, <2>2, <2>3, Zenon
          DEF Start, Submit, Poll, Reconcile, Inspect, Cancel, Supersede, BoundaryError, Conclude
<1> QED BY <1>1, <1>2, <1>3, ExcusedOther

(* What excuses lasts.                                                      *)
LEMMA ExcusedEnvironment ==
  ASSUME IInv, Excused,
         \/ RequestCancellation \/ Arrive \/ Converse
         \/ AuthorityLost \/ DeadlinePasses \/ EffectiveDeadlinePasses \/ BriefChanges
  PROVE  Excused'
<1>1. UNCHANGED <<intent, call>> /\ NoFault
  BY DEF RequestCancellation, Arrive, Converse, AuthorityLost, DeadlinePasses,
         EffectiveDeadlinePasses, BriefChanges, Changed
<1>2. Excuse => Excuse'
  <2>1. CASE RequestCancellation
    BY <2>1 DEF RequestCancellation, Excuse, IInv, InvInv, InvType
  <2>2. CASE Arrive \/ Converse
    BY <2>2 DEF Arrive, Converse, Excuse, Valid
  <2>3. CASE AuthorityLost \/ DeadlinePasses \/ EffectiveDeadlinePasses \/ BriefChanges
    BY <2>3 DEF AuthorityLost, DeadlinePasses, EffectiveDeadlinePasses, BriefChanges, Changed,
                Excuse, Valid, IInv, CountInv
  <2> QED BY <2>1, <2>2, <2>3
<1> QED BY <1>1, <1>2 DEF Excused, Alone, NoFault, At

LEMMA ExcusedSweep ==
  ASSUME IInv, Excused, Sweep
  PROVE  Excused'
<1>1. UNCHANGED <<inv, env, call>> /\ intent'.state # "RESOLVED"
  BY DEF Sweep
<1>2. past \subseteq past' \/ Overrun
  BY DEF Sweep, NoFault
<1> QED BY <1>1, <1>2, Zenon DEF Excused, Alone, Overrun, At, Excuse, Valid

LEMMA NextExcused == IInv /\ Positions /\ Excused /\ [Next]_vars => Excused'
<1> SUFFICES ASSUME IInv, Positions, Excused, [Next]_vars PROVE Excused'
  OBVIOUS
<1>1. CASE UNCHANGED vars
  BY <1>1 DEF vars, Excused, Alone, At, Excuse, Valid
<1>2. ASSUME NEW c \in Callers, Acquire(c) \/ Work(c) \/ Crash(c) PROVE Excused'
  BY <1>2, ExcusedWorker, ExcusedLoad, ExcusedCommands, ExcusedEvidence, ExcusedBoundary, Zenon DEF Work
<1> QED BY <1>1, <1>2, ExcusedSweep, ExcusedEnvironment, Zenon DEF Next

(* An intent is resolved under an invocation that has not ended only for a  *)
(* reason that lasts, unless a lease was overrun or the context was found   *)
(* invalid, for any number of callers and faults (the returns of Process    *)
(* that ProcessOne resolves on).                                            *)
THEOREM AbandonedForAReason == Spec => []AbandonedOnlyIf
<1>1. Init => Excused
  BY DEF Init, Excused, At, Idle
<1>2. Excused => AbandonedOnlyIf
  BY DEF Excused, Alone, Excuse, AbandonedOnlyIf
<1> QED BY <1>1, <1>2, InitIInv, NextIInv, InitPositions, NextPositions, NextExcused, PTL DEF Spec

-----------------------------------------------------------------------------
(***************************************************************************)
(* Outcomes.  What a call has observed, and then records, is how the        *)
(* conversation ended: an ended conversation is not active, so it stays as  *)
(* it was observed.                                                         *)
(***************************************************************************)
EndShown(o, cv) ==
  /\ o = "SUCCEEDED" => cv.status = "finished" \/ (cv.verdict = "accepted" /\ ~Active(cv))
  /\ o \in {"CANCELLED", "TIMED_OUT"} => cv.status = "paused"
  /\ o = "FAILED" => ~Active(cv)

StartExcused == prompts = 0 \/ ~Valid \/ "context" \in past
StartFailedFor(o, excused) == o = "START_FAILED" => excused
Observes(r) == r.pc \in {"load", "record started", "record terminal"}

InvocationShown ==
  /\ EndShown(inv.state, conv) /\ StartFailedFor(inv.state, StartExcused)
  /\ inv.state \in {"AUTHORIZED", "EXPIRED"} => conv.status = "none"
CallsShown ==
  \A c \in Callers : Observes(call[c]) =>
    /\ EndShown(call[c].obs, conv) /\ StartFailedFor(call[c].obs, StartExcused)
    /\ call[c].obs # "EXPIRED"
Recorded == Quiet => InvocationShown /\ CallsShown

(* Nothing is asked of a conversation that has not been seen to end.        *)
LEMMA NothingShown ==
  ASSUME NEW o, NEW cv, o \in {"none", "RUNNING", "START_FAILED", "EXPIRED", "AUTHORIZED", "CLAIMED", "STARTED"}
  PROVE  EndShown(o, cv)
  BY DEF EndShown

(* The coordinator's check of a handler's result keeps what was shown.      *)
LEMMA ValidatedShows ==
  ASSUME NEW obs \in {"RUNNING", "SUCCEEDED", "FAILED", "CANCELLED"}, NEW cw, EndShown(obs, cw),
         NEW o \in ValidatedHandler(obs)
  PROVE  o \in {"RUNNING", "SUCCEEDED", "FAILED", "CANCELLED"} /\ EndShown(o, cw)
         /\ (o = "RUNNING" => obs = "RUNNING")
<1>1. o = obs \/ (obs = "SUCCEEDED" /\ o = "FAILED")
  BY DEF ValidatedHandler
<1>2. cw.status = "finished" => ~Active(cw)
  BY DEF Active
<1> QED BY <1>1, <1>2 DEF EndShown

(* What each boundary call observes is what it leaves.                      *)
LEMMA InspectedShows ==
  ASSUME NEW cv \in ConvType
  PROVE  /\ Inspected(cv)[2] \in {"RUNNING", "SUCCEEDED", "FAILED", "CANCELLED"}
         /\ EndShown(Inspected(cv)[2], Inspected(cv)[1])
<1>1. cv.verdict \in Verdicts /\ cv.status \in Statuses
  BY DEF ConvType
<1>2. ~Active(Stopped(cv)) /\ Stopped(cv).verdict = cv.verdict
  BY DEF Stopped, Active, ConvType
<1>3. CASE cv.verdict = "violation"
  <2>1. Inspected(cv)[1] = Stopped(cv) /\ Inspected(cv)[2] = "FAILED"
    BY <1>3 DEF Inspected
  <2> QED BY <1>2, <2>1 DEF EndShown
<1>4. CASE cv.verdict = "correctable" \/ (cv.verdict \in {"none", "accepted"} /\ cv.status = "condensed")
  <2>1. Inspected(cv)[2] = "RUNNING"
    BY <1>4 DEF Inspected
  <2> QED BY <2>1 DEF EndShown
<1>5. CASE cv.verdict = "accepted" /\ cv.status # "condensed"
  <2>1. Inspected(cv)[1] = Stopped(cv) /\ Inspected(cv)[2] = "SUCCEEDED"
    BY <1>5 DEF Inspected
  <2> QED BY <1>2, <1>5, <2>1 DEF EndShown
<1>6. CASE cv.verdict = "none" /\ cv.status # "condensed"
  <2>1. Inspected(cv)[1] = cv /\ Inspected(cv)[2] = ObservationAt(cv, FALSE)
    BY <1>6 DEF Inspected
  <2> QED BY <2>1 DEF ObservationAt, EndShown, Active
<1> QED BY <1>1, <1>3, <1>4, <1>5, <1>6 DEF Verdicts

LEMMA ObservationShows ==
  ASSUME NEW cv, NEW i \in BOOLEAN
  PROVE  /\ ObservationAt(cv, i) \in {"RUNNING", "SUCCEEDED", "FAILED", "CANCELLED"}
         /\ EndShown(ObservationAt(cv, i), cv)
  BY DEF ObservationAt, EndShown, Active

(* The only call at work moves: the invocation and the call must be shown.  *)
LEMMA RecordedMove ==
  ASSUME IInv, Serial, Recorded, NEW c \in Callers, NEW r, call' = [call EXCEPT ![c] = r],
         ~At(c, "idle"), NoFault \/ \E kinds : Marked(kinds),
         Quiet /\ Quiet' => InvocationShown',
         Quiet /\ Quiet' /\ Observes(r) =>
           EndShown(r.obs, conv') /\ StartFailedFor(r.obs, StartExcused') /\ r.obs # "EXPIRED"
  PROVE  Recorded'
<1> SUFFICES ASSUME Quiet' PROVE (InvocationShown /\ CallsShown)'
  BY DEF Recorded
<1>1. Quiet
  BY QuietBefore
<1>2. \A d \in Callers \ {c} : At(d, "idle")
  BY <1>1, OthersIdle DEF Serial
<1>3. call'[c] = r /\ \A d \in Callers \ {c} : call'[d] = call[d]
  BY DEF IInv, CallInv
<1>4. ASSUME NEW d \in Callers, Observes(call'[d])
      PROVE  /\ EndShown(call'[d].obs, conv') /\ StartFailedFor(call'[d].obs, StartExcused')
             /\ call'[d].obs # "EXPIRED"
  <2>1. CASE d = c
    BY <1>1, <1>3, <1>4, <2>1
  <2>2. CASE d # c
    BY <1>2, <1>3, <1>4, <2>2 DEF At, Observes
  <2> QED BY <2>1, <2>2
<1> QED BY <1>1, <1>4 DEF CallsShown

(* The reason of a failed start lasts while nothing is submitted.           *)
LEMMA ExcuseLasts ==
  ASSUME UNCHANGED <<prompts, env>>, NoFault \/ \E kinds : Marked(kinds)
  PROVE  StartExcused => StartExcused'
<1>1. past \subseteq past'
  BY Zenon DEF NoFault, Marked
<1> QED BY <1>1 DEF StartExcused, Valid

LEMMA InvocationStaysShown ==
  ASSUME InvocationShown, UNCHANGED <<inv, conv, prompts, env>>, NoFault \/ \E kinds : Marked(kinds)
  PROVE  InvocationShown'
  BY ExcuseLasts DEF InvocationShown, StartFailedFor

(* A call that has observed nothing.                                        *)
LEMMA RecordedReturn ==
  ASSUME IInv, Serial, Recorded, NEW c \in Callers, NEW pc, Return(c, pc), ~At(c, "idle"),
         NoFault \/ \E kinds : Marked(kinds), Quiet /\ Quiet' => InvocationShown'
  PROVE  Recorded'
<1> DEFINE r == [Idle EXCEPT !.pc = pc]
<1>1. call' = [call EXCEPT ![c] = r] /\ r.obs = "none"
  BY DEF Return, Idle
<1>2. EndShown(r.obs, conv') /\ StartFailedFor(r.obs, StartExcused') /\ r.obs # "EXPIRED"
  BY <1>1, NothingShown DEF StartFailedFor
<1> HIDE DEF r
<1> QED BY <1>1, <1>2, RecordedMove

LEMMA RecordedWorker ==
  ASSUME IInv, Serial, Recorded, NEW c \in Callers,
         Acquire(c) \/ Wait(c) \/ Resolve(c) \/ Yield(c) \/ Crash(c)
  PROVE  Recorded'
<1>1. UNCHANGED <<inv, conv, prompts, env>>
  BY DEF Acquire, Wait, Resolve, Yield, Release, Crash
<1>2. NoFault \/ \E kinds : Marked(kinds)
  BY Zenon DEF Acquire, Wait, Resolve, Yield, Release, Crash, Fault
<1>3. Quiet => InvocationShown'
  BY <1>1, <1>2, InvocationStaysShown DEF Recorded
<1>4. CASE Wait(c) \/ Resolve(c) \/ Yield(c) \/ Crash(c)
  <2>1. \E pc : Return(c, pc)
    BY <1>4 DEF Wait, Resolve, Yield, Release, Crash
  <2>2. ~At(c, "idle")
    BY <1>4 DEF Wait, Resolve, Yield, Release, Crash, At
  <2> QED BY <1>2, <1>3, <2>1, <2>2, RecordedReturn
<1>5. CASE Acquire(c)
  <2> SUFFICES ASSUME Quiet' PROVE (InvocationShown /\ CallsShown)'
    BY DEF Recorded
  <2>1. Quiet
    BY <1>2, QuietBefore
  <2>2. \A d \in Callers : At(d, "idle")
    BY <1>5, <2>1 DEF Acquire, Serial, OneAtWork, Holds
  <2>3. call' = [call EXCEPT ![c] = [Idle EXCEPT !.pc = "load"]] /\ [Idle EXCEPT !.pc = "load"].obs = "none"
    BY <1>5 DEF Acquire, Return, Idle
  <2>4. call'[c].obs = "none" /\ \A d \in Callers \ {c} : call'[d] = call[d]
    BY <2>3 DEF IInv, CallInv
  <2>5. ASSUME NEW d \in Callers, Observes(call'[d]) PROVE call'[d].obs = "none"
    BY <2>2, <2>4, <2>5 DEF At, Observes
  <2>6. CallsShown'
    BY <2>5, NothingShown DEF CallsShown, StartFailedFor
  <2> QED BY <1>3, <2>1, <2>6
<1> QED BY <1>4, <1>5

(* A command records what its call has observed.                            *)
LEMMA RecordedCommands ==
  ASSUME IInv, Serial, Positions, Recorded, NEW c \in Callers,
         Expire(c) \/ Claim(c) \/ RecordStarted(c) \/ RecordTerminal(c)
  PROVE  Recorded'
<1>1. UNCHANGED <<conv, prompts, env>> /\ ~At(c, "idle")
  BY DEF Expire, Claim, RecordStarted, RecordTerminal, At
<1>2. Quiet => Alone
  BY DEF Quiet, Alone
<1>3. inv \in InvType /\ call[c] \in CallType
  BY DEF IInv, InvInv, CallInv
<1>4. Quiet => InvocationShown /\ (Observes(call[c]) =>
        EndShown(call[c].obs, conv) /\ StartFailedFor(call[c].obs, StartExcused) /\ call[c].obs # "EXPIRED")
  BY DEF Recorded, CallsShown
<1>5. ASSUME NEW allowed, NEW next \in InvType, NEW applied, Apply(c, allowed, next, applied),
             Quiet => /\ EndShown(next.state, conv) /\ StartFailedFor(next.state, StartExcused)
                      /\ next.state \in {"AUTHORIZED", "EXPIRED"} => conv.status = "none",
             Quiet /\ Observes(applied) =>
               EndShown(applied.obs, conv) /\ StartFailedFor(applied.obs, StartExcused) /\ applied.obs # "EXPIRED"
      PROVE  Recorded'
  <2>1. NoFault \/ \E kinds : Marked(kinds)
    BY <1>5, Zenon DEF Apply, Fault
  <2>2. StartExcused => StartExcused'
    BY <1>1, <2>1, ExcuseLasts
  <2>3. Quiet => InvocationShown'
    <3>1. CASE UNCHANGED inv
      BY <1>1, <1>4, <2>1, <3>1, InvocationStaysShown
    <3>2. CASE inv' = [next EXCEPT !.rev = @ + 1]
      <4>1. inv'.state = next.state
        BY <1>5, <3>2 DEF InvType
      <4> QED BY <1>1, <1>5, <2>2, <4>1 DEF InvocationShown, StartFailedFor
    <3> QED BY <1>5, <3>1, <3>2, Zenon DEF Apply
  <2>4. CASE \E pc : Return(c, pc)
    BY <1>1, <2>1, <2>3, <2>4, RecordedReturn
  <2>5. CASE call' = [call EXCEPT ![c] = applied]
    <3>1. Quiet /\ Observes(applied) =>
            EndShown(applied.obs, conv') /\ StartFailedFor(applied.obs, StartExcused') /\ applied.obs # "EXPIRED"
      BY <1>1, <1>5, <2>2 DEF StartFailedFor
    <3> QED BY <1>1, <2>1, <2>3, <2>5, <3>1, RecordedMove
  <2> QED BY <1>5, <2>4, <2>5, Zenon DEF Apply
<1>6. ASSUME NEW r, r.obs = "none"
      PROVE  EndShown(r.obs, conv) /\ StartFailedFor(r.obs, StartExcused) /\ r.obs # "EXPIRED"
  BY <1>6, NothingShown DEF StartFailedFor
<1>7. CASE Expire(c)
  <2> DEFINE next == [inv EXCEPT !.state = "EXPIRED"]  r == [Idle EXCEPT !.pc = "load"]
  <2>1. next \in InvType /\ next.state = "EXPIRED" /\ r.obs = "none"
    BY <1>3 DEF InvType, Ended, Idle
  <2>2. Quiet => conv.status = "none"
    BY <1>2, <1>4, <1>7 DEF Positions, InPlace, Fits, At, Expire, InvocationShown
  <2>3. Apply(c, Expirable, next, r)
    BY <1>7 DEF Expire
  <2> HIDE DEF next, r
  <2> QED BY <1>5, <1>6, <2>1, <2>2, <2>3, NothingShown DEF StartFailedFor
<1>8. CASE Claim(c)
  <2> DEFINE next == [inv EXCEPT !.state = "CLAIMED"]  r == [Idle EXCEPT !.pc = "load", !.fresh = TRUE]
  <2>1. next \in InvType /\ next.state = "CLAIMED" /\ r.obs = "none"
    BY <1>3 DEF InvType, Idle
  <2>3. Apply(c, Claimable, next, r)
    BY <1>8 DEF Claim
  <2> HIDE DEF next, r
  <2> QED BY <1>5, <1>6, <2>1, <2>3, NothingShown DEF StartFailedFor
<1>9. CASE RecordStarted(c)
  <2> DEFINE next == [inv EXCEPT !.state = "STARTED", !.brief = call[c].brief]
             o == IF call[c].obs = "RUNNING" THEN "none" ELSE call[c].obs
             r == [Idle EXCEPT !.pc = "load", !.obs = o]
  <2>1. next \in InvType /\ next.state = "STARTED" /\ r.obs = o
    BY <1>3 DEF InvType, CallType, Idle
  <2>2. Apply(c, Startable, next, r)
    BY <1>9 DEF RecordStarted
  <2>3. Quiet => EndShown(o, conv) /\ StartFailedFor(o, StartExcused) /\ o # "EXPIRED"
    <3>1. CASE o = "none"
      BY <3>1, NothingShown DEF StartFailedFor
    <3>2. CASE o = call[c].obs
      BY <1>4, <1>9, <3>2 DEF RecordStarted, At, Observes
    <3> QED BY <3>1, <3>2
  <2> HIDE DEF next, r, o
  <2> QED BY <1>5, <2>1, <2>2, <2>3, NothingShown DEF StartFailedFor
<1>10. CASE RecordTerminal(c)
  <2> DEFINE next == [inv EXCEPT !.state = call[c].obs]  r == [Idle EXCEPT !.pc = "resolve"]
  <2>1. call[c].obs \in Ended
    BY <1>10 DEF RecordTerminal, At, IInv, CallInv, Knows
  <2>2. next \in InvType /\ next.state = call[c].obs /\ r.obs = "none"
    BY <1>3, <2>1 DEF InvType, Idle
  <2>3. Apply(c, Recordable(call[c].obs), next, r)
    BY <1>10 DEF RecordTerminal
  <2>4. Quiet => /\ EndShown(call[c].obs, conv) /\ StartFailedFor(call[c].obs, StartExcused)
                 /\ call[c].obs \notin {"AUTHORIZED", "EXPIRED"}
    BY <1>4, <1>10, <2>1 DEF RecordTerminal, At, Observes, Ended
  <2> HIDE DEF next, r
  <2> QED BY <1>5, <1>6, <2>2, <2>3, <2>4
<1> QED BY <1>7, <1>8, <1>9, <1>10

LEMMA RecordedEvidence ==
  ASSUME IInv, Serial, Recorded, NEW c \in Callers, RecordEvidence(c)
  PROVE  Recorded'
<1>1. /\ UNCHANGED <<inv, conv, prompts, env>> /\ At(c, "record terminal") /\ ~At(c, "idle")
      /\ NoFault \/ \E kinds : Marked(kinds)
  BY EvidenceMoves
<1>2. Quiet => InvocationShown'
  BY <1>1, InvocationStaysShown DEF Recorded
<1>3. CASE Return(c, "yield")
  BY <1>1, <1>2, <1>3, RecordedReturn
<1>4. ASSUME NEW r \in CallType, call' = [call EXCEPT ![c] = r], r.pc = "record terminal",
             r.obs = call[c].obs
      PROVE  Recorded'
  <2>1. Quiet => /\ EndShown(call[c].obs, conv) /\ StartFailedFor(call[c].obs, StartExcused)
                 /\ call[c].obs # "EXPIRED"
    BY <1>1 DEF Recorded, CallsShown, Observes, At
  <2>2. StartExcused => StartExcused'
    BY <1>1, ExcuseLasts
  <2>3. Quiet => EndShown(r.obs, conv') /\ StartFailedFor(r.obs, StartExcused') /\ r.obs # "EXPIRED"
    BY <1>1, <1>4, <2>1, <2>2 DEF StartFailedFor
  <2> QED BY <1>1, <1>2, <1>4, <2>3, RecordedMove
<1> QED BY <1>3, <1>4, EvidenceMoves

(* A start is failed without a submission, a valid authority or a context.  *)
LEMMA RecordedLoad ==
  ASSUME IInv, Serial, Recorded, NEW c \in Callers, Load(c)
  PROVE  Recorded'
<1>1. UNCHANGED <<inv, conv, prompts, env>> /\ ~At(c, "idle") /\ At(c, "load")
  BY DEF Load, At
<1>2. NoFault \/ \E kinds : Marked(kinds)
  BY Zenon DEF Load
<1>3. /\ Quiet => InvocationShown'
      /\ StartExcused => StartExcused'
  BY <1>1, <1>2, InvocationStaysShown, ExcuseLasts DEF Recorded
<1>4. PICK pc : /\ call' = [call EXCEPT ![c] = Loaded(c, pc)]
                /\ pc = "fail start" => StartExcused'
  <2>1. CASE call' = [call EXCEPT ![c] = Loaded(c, Branch(c))]
    <3>1. inv.state \in {"AUTHORIZED", "CLAIMED", "STARTED"} \cup Ended
      BY DEF IInv, InvInv, InvType
    <3>2. Branch(c) = "fail start" => ~Valid
      BY <3>1 DEF Branch, Terminal, Ended
    <3>3. Branch(c) = "fail start" => StartExcused'
      BY <1>3, <3>2 DEF StartExcused
    <3> QED BY <2>1, <3>3
  <2>2. CASE Marked({"context"}) /\ \E pc \in BrokenBranch : call' = [call EXCEPT ![c] = Loaded(c, pc)]
    <3>1. "context" \in past'
      BY <2>2, Zenon DEF Marked
    <3>2. StartExcused'
      BY <3>1 DEF StartExcused
    <3> QED BY <2>2, <3>2
  <2> QED BY <2>1, <2>2, Zenon DEF Load
<1> DEFINE r == Loaded(c, pc)
<1>5. r.obs = IF pc = "fail start" THEN "START_FAILED" ELSE call[c].obs
  BY DEF Loaded
<1>6. Quiet => EndShown(call[c].obs, conv) /\ StartFailedFor(call[c].obs, StartExcused) /\ call[c].obs # "EXPIRED"
  BY <1>1 DEF Recorded, CallsShown, Observes, At
<1> HIDE DEF r
<1>7. Quiet => EndShown(r.obs, conv') /\ StartFailedFor(r.obs, StartExcused') /\ r.obs # "EXPIRED"
  <2>1. CASE pc = "fail start"
    <3>1. r.obs = "START_FAILED" /\ StartExcused'
      BY <1>4, <1>5, <2>1
    <3> QED BY <3>1, NothingShown DEF StartFailedFor
  <2>2. CASE pc # "fail start"
    <3>1. r.obs = call[c].obs /\ conv' = conv
      BY <1>1, <1>5, <2>2
    <3> QED BY <1>3, <1>6, <3>1, Zenon DEF StartFailedFor
  <2> QED BY <2>1, <2>2
<1> QED BY <1>1, <1>2, <1>3, <1>4, <1>7, RecordedMove DEF r

(* While a start is under way nothing is recorded of a conversation.        *)
LEMMA RecordedStarting ==
  ASSUME IInv, Serial, Positions, Recorded, NEW c \in Callers,
         Start(c) \/ Submit(c) \/ Poll(c) \/ Reconcile(c)
  PROVE  Recorded'
<1>1. UNCHANGED <<inv, env>> /\ ~At(c, "idle")
  BY DEF Start, Submit, Poll, Reconcile, At
<1>2. NoFault \/ \E kinds : Marked(kinds)
  BY Zenon DEF Start, Submit, Poll, Reconcile, Fault
<1>3. Quiet => inv.state = "CLAIMED"
  BY DEF Quiet, Alone, Positions, InPlace, Fits, At, Start, Submit, Poll, Reconcile
<1>4. Quiet => InvocationShown'
  BY <1>1, <1>3, NothingShown DEF InvocationShown, StartFailedFor
<1>5. call[c] \in CallType /\ conv \in ConvType
  BY DEF IInv, CallInv, ConvInv
<1>6. CASE \E pc : Return(c, pc)
  BY <1>1, <1>2, <1>4, <1>6, RecordedReturn
<1>7. ASSUME NEW r, call' = [call EXCEPT ![c] = r], ~Observes(r) PROVE Recorded'
  BY <1>1, <1>2, <1>4, <1>7, RecordedMove
<1>8. CASE \E pc \in {"start", "submit", "poll"} : Goto(c, pc)
  <2>1. PICK pc \in {"start", "submit", "poll"} : call' = [call EXCEPT ![c] = [call[c] EXCEPT !.pc = pc]]
    BY <1>8 DEF Goto
  <2> DEFINE r == [call[c] EXCEPT !.pc = pc]
  <2>2. r.pc = pc
    BY <1>5 DEF CallType
  <2>3. ~Observes(r)
    BY <2>2 DEF Observes
  <2> HIDE DEF r
  <2> QED BY <1>7, <2>1, <2>3 DEF r
<1>9. CASE StartError(c)
  <2>1. CASE call' = [call EXCEPT ![c].pc = "reconcile", ![c].final = TRUE]
    <3> DEFINE r == [call[c] EXCEPT !.pc = "reconcile", !.final = TRUE]
    <3>1. call' = [call EXCEPT ![c] = r]
      BY <2>1
    <3>2. r.pc = "reconcile"
      BY <1>5 DEF CallType
    <3> HIDE DEF r
    <3> QED BY <1>7, <3>1, <3>2 DEF Observes
  <2> QED BY <1>6, <1>9, <2>1 DEF StartError
<1>10. CASE Rejected(c) /\ (Quiet => prompts = 0) /\ UNCHANGED prompts
  <2> DEFINE r == [call[c] EXCEPT !.pc = "record terminal", !.obs = "START_FAILED"]
  <2>1. call' = [call EXCEPT ![c] = r] /\ r.obs = "START_FAILED"
    BY <1>5, <1>10 DEF Rejected, CallType
  <2>2. Quiet => StartExcused'
    BY <1>10 DEF StartExcused
  <2> HIDE DEF r
  <2>3. Quiet => EndShown(r.obs, conv') /\ StartFailedFor(r.obs, StartExcused') /\ r.obs # "EXPIRED"
    BY <2>1, <2>2, NothingShown DEF StartFailedFor
  <2> QED BY <1>1, <1>2, <1>4, <2>1, <2>3, RecordedMove
<1>11. CASE Observed(c)
  <2>1. PICK o \in ValidatedHandler(Inspected(conv)[2]) :
          call' = [call EXCEPT ![c] = [call[c] EXCEPT !.pc = "record started", !.obs = o]]
    BY <1>11 DEF Observed
  <2>2. conv' = Inspected(conv)[1]
    BY <1>11 DEF Observed
  <2>3. o \in {"RUNNING", "SUCCEEDED", "FAILED", "CANCELLED"} /\ EndShown(o, conv')
    BY <1>5, <2>1, <2>2, InspectedShows, ValidatedShows
  <2> DEFINE r == [call[c] EXCEPT !.pc = "record started", !.obs = o]
  <2>4. r.obs = o
    BY <1>5 DEF CallType
  <2> HIDE DEF r
  <2>5. EndShown(r.obs, conv') /\ StartFailedFor(r.obs, StartExcused') /\ r.obs # "EXPIRED"
    BY <2>3, <2>4 DEF StartFailedFor
  <2> QED BY <1>1, <1>2, <1>4, <2>1, <2>5, RecordedMove DEF r
<1>12. CASE Start(c)
  <2>1. conv.status = "none" => prompts = 0
    BY DEF IInv, CountInv, SubmittedToIt
  <2>2. \/ Goto(c, "submit") \/ Observed(c) \/ StartError(c)
        \/ Rejected(c) /\ conv.status = "none" /\ UNCHANGED prompts
    BY <1>12, Zenon DEF Start
  <2> QED BY <1>8, <1>9, <1>10, <1>11, <2>1, <2>2
<1>13. CASE Submit(c)
  <2>1. Quiet => prompts = 0
    BY <1>13 DEF Submit, Serial, SubmitsFirst
  <2>2. Goto(c, "poll") \/ (Rejected(c) /\ UNCHANGED prompts)
    BY <1>13, Zenon DEF Submit
  <2> QED BY <1>8, <1>10, <2>1, <2>2
<1>14. CASE Poll(c) \/ Reconcile(c)
  <2>1. Observed(c) \/ StartError(c) \/ Goto(c, "start") \/ Return(c, "wait")
    BY <1>14, Zenon DEF Poll, Reconcile
  <2> QED BY <1>6, <1>8, <1>9, <1>11, <2>1
<1> QED BY <1>12, <1>13, <1>14

(* What ends a started conversation is what the call takes it for.          *)
LEMMA RecordedStarted ==
  ASSUME IInv, Serial, Positions, Recorded, NEW c \in Callers, Inspect(c) \/ Cancel(c) \/ Supersede(c)
  PROVE  Recorded'
<1>1. UNCHANGED <<inv, env>> /\ ~At(c, "idle")
  BY DEF Inspect, Cancel, Supersede, At
<1>2. NoFault \/ \E kinds : Marked(kinds)
  BY Zenon DEF Inspect, Cancel, Supersede, BoundaryError, Fault
<1>3. Quiet => inv.state = "STARTED"
  BY DEF Quiet, Alone, Positions, InPlace, Fits, At, Inspect, Cancel, Supersede
<1>4. Quiet => InvocationShown'
  BY <1>1, <1>3, NothingShown DEF InvocationShown, StartFailedFor
<1>5. call[c] \in CallType /\ conv \in ConvType
  BY DEF IInv, CallInv, ConvInv
<1>6. CASE Return(c, "wait")
  BY <1>1, <1>2, <1>4, <1>6, RecordedReturn
<1>7. ASSUME NEW obs \in {"RUNNING", "SUCCEEDED", "FAILED", "CANCELLED"}, EndShown(obs, conv'), Conclude(c, obs)
      PROVE  Recorded'
  <2>1. CASE obs = "RUNNING"
    BY <1>6, <1>7, <2>1 DEF Conclude
  <2>2. CASE obs # "RUNNING"
    <3>1. PICK o \in ValidatedHandler(obs) :
            call' = [call EXCEPT ![c].pc = "record terminal",
                                 ![c].obs = IF call[c].over /\ o = "CANCELLED" THEN "TIMED_OUT" ELSE o]
      BY <1>7, <2>2 DEF Conclude
    <3>2. o \in {"RUNNING", "SUCCEEDED", "FAILED", "CANCELLED"} /\ EndShown(o, conv')
      BY <1>7, <3>1, ValidatedShows
    <3> DEFINE p == IF call[c].over /\ o = "CANCELLED" THEN "TIMED_OUT" ELSE o
               r == [call[c] EXCEPT !.pc = "record terminal", !.obs = p]
    <3>3. call' = [call EXCEPT ![c] = r]
      BY <3>1
    <3>4. r.obs = p
      BY <1>5 DEF CallType
    <3>5. EndShown(p, conv') /\ p # "START_FAILED" /\ p # "EXPIRED"
      BY <3>2 DEF EndShown
    <3> HIDE DEF p, r
    <3>6. EndShown(r.obs, conv') /\ StartFailedFor(r.obs, StartExcused') /\ r.obs # "EXPIRED"
      BY <3>4, <3>5 DEF StartFailedFor
    <3> QED BY <1>1, <1>2, <1>4, <3>3, <3>6, RecordedMove
  <2> QED BY <2>1, <2>2
<1>8. CASE Inspect(c) /\ conv' = Inspected(conv)[1] /\ Conclude(c, Inspected(conv)[2])
  <2>1. Inspected(conv)[2] \in {"RUNNING", "SUCCEEDED", "FAILED", "CANCELLED"}
        /\ EndShown(Inspected(conv)[2], conv')
    BY <1>5, <1>8, InspectedShows
  <2> QED BY <1>7, <1>8, <2>1
<1>9. CASE Cancel(c) /\ conv' = Interrupted(conv) /\ Conclude(c, ObservationAt(Interrupted(conv), TRUE))
  <2> DEFINE obs == ObservationAt(Interrupted(conv), TRUE)
  <2>1. obs \in {"RUNNING", "SUCCEEDED", "FAILED", "CANCELLED"} /\ EndShown(obs, conv')
    BY <1>9, ObservationShows
  <2> HIDE DEF obs
  <2> QED BY <1>7, <1>9, <2>1 DEF obs
<1>10. CASE Supersede(c) /\ conv' = Stopped(conv) /\ Conclude(c, Superseded(c))
  <2> DEFINE obs == ObservationAt(Stopped(conv), Active(conv))
  <2>0. Active(conv) \in BOOLEAN /\ ~Active(Stopped(conv))
    BY <1>5 DEF Active, Stopped, ConvType
  <2>1. obs \in {"RUNNING", "SUCCEEDED", "FAILED", "CANCELLED"} /\ EndShown(obs, conv')
    BY <1>10, <2>0, ObservationShows
  <2>2. Superseded(c) \in {"FAILED", obs}
    BY DEF Superseded
  <2> HIDE DEF obs
  <2>3. Superseded(c) \in {"RUNNING", "SUCCEEDED", "FAILED", "CANCELLED"} /\ EndShown(Superseded(c), conv')
    BY <1>10, <2>0, <2>1, <2>2 DEF EndShown
  <2> QED BY <1>7, <1>10, <2>3
<1> QED BY <1>6, <1>8, <1>9, <1>10, Zenon DEF Inspect, Cancel, Supersede, BoundaryError

(* An ended conversation stays ended; authority does not come back.         *)
LEMMA RecordedEnvironment ==
  ASSUME IInv, Serial, Recorded,
         \/ RequestCancellation \/ Arrive \/ Converse
         \/ AuthorityLost \/ DeadlinePasses \/ EffectiveDeadlinePasses \/ BriefChanges
  PROVE  Recorded'
<1> SUFFICES ASSUME Quiet' PROVE (InvocationShown /\ CallsShown)'
  BY DEF Recorded
<1>1. NoFault /\ UNCHANGED call
  BY DEF RequestCancellation, Arrive, Converse, AuthorityLost, DeadlinePasses,
         EffectiveDeadlinePasses, BriefChanges, Changed
<1>2. Quiet
  BY <1>1, QuietBefore
<1>3. InvocationShown /\ CallsShown /\ ~Arrive
  BY <1>2 DEF Recorded, Serial, Arrive
<1>4. inv'.state = inv.state /\ UNCHANGED prompts
  BY <1>3 DEF RequestCancellation, Converse, AuthorityLost, DeadlinePasses,
         EffectiveDeadlinePasses, BriefChanges, Changed, IInv, InvInv, InvType
<1>5. StartExcused => StartExcused'
  <2>1. past' = past
    BY <1>1 DEF NoFault
  <2>2. Valid' => Valid
    BY <1>3 DEF Valid, RequestCancellation, Converse, AuthorityLost, DeadlinePasses,
           EffectiveDeadlinePasses, BriefChanges, Changed, IInv, CountInv
  <2> QED BY <1>4, <2>1, <2>2 DEF StartExcused
<1>6. CASE UNCHANGED conv
  BY <1>1, <1>3, <1>4, <1>5, <1>6 DEF InvocationShown, CallsShown, StartFailedFor
<1>7. CASE Converse
  <2>1. conv.status = "running" /\ Active(conv)
    BY <1>7 DEF Converse, Active
  <2>2. \A o : EndShown(o, conv) => o \notin {"SUCCEEDED", "CANCELLED", "TIMED_OUT", "FAILED"}
    BY <2>1 DEF EndShown
  <2>3. \A o : EndShown(o, conv) => EndShown(o, conv')
    BY <2>2 DEF EndShown
  <2> QED BY <1>1, <1>3, <1>4, <1>5, <2>1, <2>3 DEF InvocationShown, CallsShown, StartFailedFor
<1> QED BY <1>3, <1>6, <1>7
        DEF RequestCancellation, AuthorityLost, DeadlinePasses, EffectiveDeadlinePasses, BriefChanges, Changed

LEMMA RecordedSweep ==
  ASSUME IInv, Serial, Recorded, Sweep
  PROVE  Recorded'
<1>1. UNCHANGED <<inv, conv, prompts, env, call>>
  BY DEF Sweep
<1> SUFFICES ASSUME Quiet' PROVE (InvocationShown /\ CallsShown)'
  BY DEF Recorded
<1>2. Quiet /\ NoFault
  BY QuietBefore DEF Sweep
<1> QED BY <1>1, <1>2 DEF Recorded, InvocationShown, CallsShown, StartExcused, Valid, NoFault

LEMMA NextRecorded == IInv /\ Serial /\ Positions /\ Recorded /\ [Next]_vars => Recorded'
<1> SUFFICES ASSUME IInv, Serial, Positions, Recorded, [Next]_vars PROVE Recorded'
  OBVIOUS
<1>1. CASE UNCHANGED vars
  BY <1>1 DEF vars, Recorded, Quiet, InvocationShown, CallsShown, StartExcused, Valid
<1>2. ASSUME NEW c \in Callers, Acquire(c) \/ Work(c) \/ Crash(c) PROVE Recorded'
  BY <1>2, RecordedWorker, RecordedLoad, RecordedCommands, RecordedEvidence, RecordedStarting, RecordedStarted, Zenon
     DEF Work
<1> QED BY <1>1, <1>2, RecordedSweep, RecordedEnvironment, Zenon DEF Next

(* What Process records of an invocation is how its conversation ended, and *)
(* nothing runs on behind it, whatever fails and is retried, as long as no  *)
(* lease is overrun and no submission is left adrift.                       *)
THEOREM OutcomesAreShown == Spec => []OutcomeMatchesConversation
<1>1. Init => Recorded
  <2> SUFFICES ASSUME Init PROVE InvocationShown /\ CallsShown
    BY DEF Recorded
  <2>1. inv.state = "AUTHORIZED" /\ conv.status = "none" /\ \A c \in Callers : ~Observes(call[c])
    BY DEF Init, Idle, Observes
  <2> QED BY <2>1, NothingShown DEF InvocationShown, CallsShown, StartFailedFor
<1>2. IInv /\ Recorded => OutcomeMatchesConversation
  <2> SUFFICES ASSUME IInv, Recorded, past \cap {"overrun", "delay"} = {}
               PROVE  /\ inv.state = "SUCCEEDED" => conv.status = "finished" \/ conv.verdict = "accepted"
                      /\ inv.state \in {"CANCELLED", "TIMED_OUT"} => conv.status = "paused"
                      /\ inv.state = "FAILED" => ~Active(conv)
                      /\ inv.state = "START_FAILED" /\ prompts > 0 => ~Valid \/ "context" \in past
                      /\ inv.state = "EXPIRED" => conv.status = "none"
    BY DEF OutcomeMatchesConversation
  <2>1. InvocationShown
    BY DEF Recorded, Quiet
  <2> QED BY <2>1 DEF InvocationShown, EndShown, StartFailedFor, StartExcused
<1> QED BY <1>1, <1>2, InitIInv, NextIInv, InitSerial, NextSerial, InitPositions, NextPositions,
           NextRecorded, PTL DEF Spec
=============================================================================
