---------------------------- MODULE Projections ----------------------------
(***************************************************************************)
(* The read model of stories and tasks (adapters/mongo/projection_store.go, *)
(* projection_materialize.go, projection_rebuild.go): the projector of the  *)
(* daemon applies the events of every source aggregate in order, one        *)
(* transaction an event, and writes each document the event is routed to    *)
(* from the state as it is by then; a rebuild makes all documents again,    *)
(* compares them with the live ones and puts them in their place.           *)
(*                                                                          *)
(* The state of an aggregate is its revision.  An authorized invocation     *)
(* debits the account of its task's budget without an event of the account. *)
(* A task has a document once its profile and its budget are bound.         *)
(***************************************************************************)
EXTENDS Integers, FiniteSets, Sequences

CONSTANTS Orders,     \* what source aggregates there may be, in the order of their keys
          Kind,       \* what each of them is
          Subject,    \* the story of a task, what another aggregate is about
          None,
          MaxEvents,  \* bound on the events after the first
          Rebuilds    \* bound: the orders with a rebuild

VARIABLES order,      \* the source aggregates
          authority,  \* revisions, the bound tasks, the debits of the account, events so far
          checkpoint, \* per source aggregate, the revision that is projected
          documents,  \* per story and task, its document
          pass,       \* the projector's pass: the events it has read, how far it is
          rebuild,    \* the rebuild: where it is, what it has read
          lost        \* history: a rebuild has put an older document in place of a newer one

vars == <<order, authority, checkpoint, documents, pass, rebuild, lost>>

Aggregates == {order[i] : i \in 1..Len(order)}
OfKind(k) == {a \in Aggregates : Kind[a] = k}
Tasks == OfKind("task")
Projected == OfKind("story") \cup Tasks

(* The kinds whose latest event a document summarizes.                      *)
Summarized(x) ==
  IF Kind[x] = "story" THEN {"escalation", "release-plan"}
  ELSE {"completion-review", "escalation", "variant-group"}

(* What there is to summarize: with several of a kind, which of them comes  *)
(* out last of a map is anyone's guess.                                     *)
Summaries(x, k) ==
  LET found == {a \in OfKind(k) : Subject[a] = x /\ authority.rev[a] > 0}
  IN IF found = {} THEN {<<None, 0>>} ELSE {<<a, authority.rev[a]>> : a \in found}

(* What a document may summarize, one of each kind.                         *)
Choices(x) ==
  {f \in [Summarized(x) -> UNION {Summaries(x, k) : k \in Summarized(x)}] :
     \A k \in Summarized(x) : f[k] \in Summaries(x, k)}
Revisions(S, x) == [a \in {p \in S : Subject[p] = x} |-> authority.rev[a]]

(* materializeTaskProjection, materializeStoryProjection: the document of x *)
(* in the state as it is, but for its revision and its last event.          *)
TaskContents(x) ==
  [own : {authority.rev[x]}, parts : {Revisions(OfKind("work-invocation"), x)},
   account : {[a \in OfKind("work-budget") |-> authority.rev[a]]}, used : {authority.used}, summary : Choices(x)]
StoryContents(x) ==
  [own : {authority.rev[x]}, parts : {Revisions(Tasks, x)}, account : {<<>>}, used : {0}, summary : Choices(x)]
Contents(x) == IF Kind[x] = "task" THEN TaskContents(x) ELSE StoryContents(x)

Materializable(x) == authority.rev[x] > 0 /\ (Kind[x] = "task" => x \in authority.bound)

(* Mutated: an event of a budget is routed to no task.                      *)
TargetsWithoutBudget(a) ==
  CASE Kind[a] = "story" -> {a}
    [] Kind[a] = "task" -> {a, Subject[a]}
    [] Kind[a] = "work-budget" -> {}
    [] Kind[a] = "work-invocation" -> {Subject[a], Subject[Subject[a]]}
    [] OTHER -> {Subject[a]}

(* projectionTargets: the documents an event of a is routed to.             *)
projectionTargets(a) ==
  CASE Kind[a] = "story" -> {a}
    [] Kind[a] = "task" -> {a, Subject[a]}
    [] Kind[a] = "work-budget" -> authority.bound \cup {Subject[t] : t \in authority.bound}
    [] Kind[a] = "work-invocation" -> {Subject[a], Subject[Subject[a]]}
    [] OTHER -> {Subject[a]}

Idle == [at |-> 0, upto |-> <<>>]
Resting == [pc |-> "idle", upto |-> <<>>, meta |-> <<>>, made |-> <<>>, seen |-> <<>>, overtaken |-> FALSE]
Finished == [Resting EXCEPT !.pc = "done"]
Empty == [x \in Projected |-> None]

(* The story, its tasks and their budget exist, and nothing is projected.   *)
Init ==
  /\ order \in Orders
  /\ \E b \in SUBSET Tasks :
       authority = [rev |-> [a \in Aggregates |-> IF Kind[a] \in {"story", "work-budget"} THEN 1
                                                  ELSE IF Kind[a] = "task" THEN (IF a \in b THEN 2 ELSE 1) ELSE 0],
                    bound |-> b, used |-> 0, events |-> 0]
  /\ checkpoint = [a \in Aggregates |-> 0] /\ documents = Empty
  /\ pass = Idle /\ rebuild = (IF order \in Rebuilds THEN Resting ELSE Finished) /\ lost = FALSE

-----------------------------------------------------------------------------
(* The authority.                                                           *)

(* A decision appends an event to an aggregate.  The first one of an        *)
(* invocation needs the budget of its task, and debits the account; one of  *)
(* a task may be the one that binds it.                                     *)
Decide(a) ==
  /\ authority.events < MaxEvents
  /\ Kind[a] = "work-invocation" => Subject[a] \in authority.bound
  /\ \E b \in {authority.bound} \cup (IF a \in Tasks THEN {authority.bound \cup {a}} ELSE {}) :
       authority' = [rev |-> [authority.rev EXCEPT ![a] = @ + 1], bound |-> b,
                     used |-> authority.used + (IF Kind[a] = "work-invocation" /\ authority.rev[a] = 0 THEN 1 ELSE 0),
                     events |-> authority.events + 1]
  /\ UNCHANGED <<order, checkpoint, documents, pass, rebuild, lost>>

-----------------------------------------------------------------------------
(* The projector.                                                           *)

(* Where a pass goes on that has come to aggregate i with the checkpoints   *)
(* as they are: aggregates without pending events are passed over, and      *)
(* behind the last one the pass ends.                                       *)
From(i, upto, projected) ==
  LET left == {j \in i..Len(order) : projected[order[j]] < upto[order[j]]}
  IN IF left = {} THEN Idle ELSE [at |-> CHOOSE j \in left : \A k \in left : j <= k, upto |-> upto]

(* ProjectPendingOperationalEvents reads all events, and goes through them  *)
(* aggregate by aggregate.                                                  *)
Begin ==
  /\ pass = Idle /\ checkpoint /= authority.rev
  /\ pass' = From(1, authority.rev, checkpoint)
  /\ UNCHANGED <<order, authority, checkpoint, documents, rebuild, lost>>

(* AssessProjectionAdvance: the event that follows the checkpoint.          *)
NextEvent(a) == <<a, checkpoint[a] + 1>>

(* The document with the next revision.                                     *)
Document(x, content, event) ==
  [content |-> content, revision |-> IF documents[x] = None THEN 1 ELSE documents[x].revision + 1, last |-> event]

(* ApplyOperationalProjectionEvent: the next event of its source, with the  *)
(* state of the moment.                                                     *)
Apply ==
  /\ pass.at > 0
  /\ LET a == order[pass.at]
         event == NextEvent(a)
         targets == {x \in projectionTargets(a) : Materializable(x)}
     IN /\ \E content \in [targets -> UNION {Contents(x) : x \in targets}] :
             /\ \A x \in targets : content[x] \in Contents(x)
             /\ documents' = [x \in Projected |-> IF x \in targets THEN Document(x, content[x], event) ELSE documents[x]]
        /\ checkpoint' = [checkpoint EXCEPT ![a] = event[2]]
        /\ pass' = From(pass.at, pass.upto, checkpoint')
        /\ rebuild' = [rebuild EXCEPT !.overtaken = @ \/ (rebuild.pc = "replace" /\ targets /= {})]
  /\ UNCHANGED <<order, authority, lost>>

(* runProjector: a pass that fails or runs out of time, or ends with the    *)
(* daemon, is begun anew.                                                   *)
Fail ==
  /\ pass.at > 0 /\ pass' = Idle
  /\ UNCHANGED <<order, authority, checkpoint, documents, rebuild, lost>>

-----------------------------------------------------------------------------
(* RebuildOperationalProjections.                                           *)

(* The events that are routed to x, by the state of the moment, and the     *)
(* last of them.                                                            *)
Routed(x) == {a \in Aggregates : rebuild.upto[a] > 0 /\ x \in projectionTargets(a)}
Total(S) == LET Sum[i \in 0..Len(order)] ==
                  IF i = 0 THEN 0 ELSE Sum[i - 1] + (IF order[i] \in S THEN rebuild.upto[order[i]] ELSE 0)
            IN Sum[Len(order)]
LastOf(S) == LET i == CHOOSE j \in 1..Len(order) : order[j] \in S /\ \A k \in (j + 1)..Len(order) : order[k] \notin S
             IN <<order[i], rebuild.upto[order[i]]>>

ReadEvents ==
  /\ rebuild.pc = "idle"
  /\ rebuild' = [Resting EXCEPT !.pc = "metadata", !.upto = authority.rev]
  /\ UNCHANGED <<order, authority, checkpoint, documents, pass, lost>>

Metadata ==
  /\ rebuild.pc = "metadata"
  /\ rebuild' = [rebuild EXCEPT !.pc = "materialize",
                   !.meta = [x \in {y \in Projected : Routed(y) /= {}} |->
                               [revision |-> Total(Routed(x)), last |-> LastOf(Routed(x))]]]
  /\ UNCHANGED <<order, authority, checkpoint, documents, pass, lost>>

(* The documents are made, in a collection of their own.                    *)
Materialize ==
  /\ rebuild.pc = "materialize"
  /\ LET made == {x \in DOMAIN rebuild.meta : Materializable(x)}
     IN \E content \in [made -> UNION {Contents(x) : x \in made}] :
          /\ \A x \in made : content[x] \in Contents(x)
          /\ rebuild' = [rebuild EXCEPT !.pc = "compare",
               !.made = [x \in Projected |->
                 IF x \in made
                 THEN [content |-> content[x], revision |-> rebuild.meta[x].revision, last |-> rebuild.meta[x].last]
                 ELSE None]]
  /\ UNCHANGED <<order, authority, checkpoint, documents, pass, lost>>

ReadLive ==
  /\ rebuild.pc = "compare"
  /\ rebuild' = [rebuild EXCEPT !.pc = "checkpoints", !.seen = documents]
  /\ UNCHANGED <<order, authority, checkpoint, documents, pass, lost>>

(* projectionCheckpointsCover, and the comparison: a mismatch is recorded   *)
(* as a fault and ends the rebuild.                                         *)
Compare ==
  /\ rebuild.pc = "checkpoints"
  /\ rebuild' = IF checkpoint = rebuild.upto /\ rebuild.made = rebuild.seen
                THEN [rebuild EXCEPT !.pc = "replace", !.overtaken = documents /= rebuild.seen]
                ELSE Finished
  /\ UNCHANGED <<order, authority, checkpoint, documents, pass, lost>>

(* replaceOperationalProjectionCollections.                                 *)
Replace ==
  /\ rebuild.pc = "replace"
  /\ documents' = rebuild.made /\ lost' = (lost \/ rebuild.overtaken) /\ rebuild' = Finished
  /\ UNCHANGED <<order, authority, checkpoint, pass>>

Next ==
  \/ \E a \in Aggregates : Decide(a)
  \/ Begin \/ Apply \/ Fail
  \/ ReadEvents \/ Metadata \/ Materialize \/ ReadLive \/ Compare \/ Replace

Spec == Init /\ [][Next]_vars

-----------------------------------------------------------------------------
(* Once every event is projected, every document is what would be made of   *)
(* the state as it is, although each was made of whatever state its last    *)
(* event was applied in, and although the routes change as tasks are bound; *)
(* the account's debits may be those of an earlier state, for no event of   *)
(* the account tells of them, and a rebuild that an event overtakes between *)
(* its reading of the documents and its replacement loses what that wrote.  *)
DocumentsCurrent ==
  checkpoint = authority.rev /\ ~lost =>
    \A x \in Projected :
      IF Materializable(x)
      THEN /\ documents[x] /= None
           /\ [documents[x].content EXCEPT !.used = 0] \in {[c EXCEPT !.used = 0] : c \in Contents(x)}
           /\ documents[x].content.used <= authority.used
      ELSE documents[x] = None
=============================================================================
