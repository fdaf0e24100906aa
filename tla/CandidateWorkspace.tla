------------------------- MODULE CandidateWorkspace -------------------------
(***************************************************************************)
(* The workspaces candidates are inspected in (operationalruntime/          *)
(* task_workspace.go and candidate_workspace.go).  A validator gets a       *)
(* read-only view of the commits its targets have put out, assembled if     *)
(* there are several, after the deterministic gates have passed; the        *)
(* promotion gets a view of the validator's candidate.  A view is a         *)
(* directory that is built aside, moved in place, made read-only and then   *)
(* receipted; the daemon may stop anywhere and finds its views again by     *)
(* their receipts.                                                          *)
(*                                                                          *)
(* A candidate is the function from targets to commits.  Its identity names *)
(* the directory.  An agent whose repair was authorized meanwhile may edit  *)
(* its own worktree at any time; it does not take an edit back.             *)
(***************************************************************************)
EXTENDS Integers, FiniteSets

CONSTANTS Plans,      \* sets of implementation tasks, each with a worktree
          Assembly,   \* the consumer of an assembled source
          Validator, Promotion, None, MaxCommit

VARIABLES tree,        \* per target: its head and whether it is clean
          view,        \* per candidate and consumer: directory and receipt
          gated,       \* candidates the gates passed on
          prep,        \* the preparation under way, or None
          registered,  \* views the workspace resolver knows; lost with the daemon
          scope,       \* per consumer: the candidate its task is bound to
          up

vars == <<tree, view, gated, prep, registered, scope, up>>

Targets == DOMAIN tree
Candidates == [Targets -> 1..MaxCommit]
Consumers == {Assembly, Validator, Promotion}
Heads == [t \in Targets |-> tree[t].head]
Clean == \A t \in Targets : tree[t].clean
Multiple == Cardinality(Targets) > 1
Goto(pc, k, c) == prep' = [pc |-> pc, cand |-> k, for |-> c]
Stop == prep' = None
At(pc) == up /\ prep /= None /\ prep.pc = pc
Here == <<prep.cand, prep.for>>

(* verifyMaterialized, and verify for an assembly: the directory is there   *)
(* and holds the commit it names.                                           *)
Materialized(v) == view[v].dir /= "none"
verify(v) == Materialized(v)
Moved(v) == view' = [view EXCEPT ![v].dir = "writable"]

(* Prepare: the source must be clean.  Several worktrees are first          *)
(* assembled (PrepareAssembly); the view may already be there (existing).   *)
existing(k, c) == view[<<k, c>>].receipt = "whole"
PrepareAssembly(k) == Goto(IF existing(k, Assembly) THEN "register" ELSE "assemble", k, Assembly)
Prepare(k) == Goto(IF existing(k, Validator) THEN "register" ELSE "gates", k, Validator)
Source(k) == IF Multiple THEN PrepareAssembly(k) ELSE Prepare(k)
inspectSource ==
  /\ up /\ prep = None /\ scope[Validator] = None /\ Clean
  /\ Source(Heads)
  /\ UNCHANGED <<tree, view, gated, registered, scope, up>>

(* The gates run in the source directory: an assembly, which nobody edits,  *)
(* or the worktree of the only target.                                      *)
runGates ==
  /\ At("gates")
  /\ \/ /\ gated' = IF Multiple THEN gated \cup {prep.cand} ELSE IF Clean THEN gated \cup {Heads} ELSE gated
        /\ Goto("recheck", prep.cand, prep.for)
     \/ Stop /\ UNCHANGED gated
  /\ UNCHANGED <<tree, view, registered, scope, up>>

(* Mutated: the source is not inspected again.                              *)
Unrechecked == TRUE
Unmoved == Multiple \/ (Clean /\ Heads = prep.cand)
Recheck ==
  /\ At("recheck")
  /\ IF Unmoved THEN Goto("build", prep.cand, prep.for) ELSE Stop
  /\ UNCHANGED <<tree, view, gated, registered, scope, up>>

(* prepareObserved: the targets' commits are integrated in a worktree.  A   *)
(* directory that is already there is verified and receipted as it is.      *)
prepareObserved ==
  /\ At("assemble")
  /\ IF verify(Here) THEN UNCHANGED view ELSE Moved(Here)
  /\ Goto("receipt", prep.cand, prep.for)
  /\ UNCHANGED <<tree, gated, registered, scope, up>>

(* materialize: so is a view; otherwise one is moved in place.              *)
materialize ==
  /\ At("build")
  /\ IF Materialized(Here)
     THEN Goto("receipt", prep.cand, prep.for) /\ UNCHANGED view
     ELSE Moved(Here) /\ Goto("readonly", prep.cand, prep.for)
  /\ UNCHANGED <<tree, gated, registered, scope, up>>
makeTreeReadOnly ==
  /\ At("readonly")
  /\ view' = [view EXCEPT ![Here].dir = "readonly"] /\ Goto("receipt", prep.cand, prep.for)
  /\ UNCHANGED <<tree, gated, registered, scope, up>>

(* writeExclusiveSynced creates the file, then writes it; a file that is    *)
(* already there is an error.                                               *)
writeExclusiveSynced ==
  /\ At("receipt")
  /\ CASE view[Here].receipt = "none" -> view' = [view EXCEPT ![Here].receipt = "cut"] /\ UNCHANGED prep
       [] view[Here].receipt = "cut" -> view' = [view EXCEPT ![Here].receipt = "whole"] /\ Goto("register", prep.cand, prep.for)
       [] OTHER -> Stop /\ UNCHANGED view
  /\ UNCHANGED <<tree, gated, registered, scope, up>>

(* RegisterWorkspace; then the task is bound to the view                    *)
(* (rebindTaskCandidateWorkspace), or the assembly becomes the source.      *)
register ==
  /\ At("register")
  /\ registered' = registered \cup {Here}
  /\ IF prep.for = Assembly THEN Prepare(prep.cand) ELSE Goto("bind", prep.cand, prep.for)
  /\ UNCHANGED <<tree, view, gated, scope, up>>
rebindTaskCandidateWorkspace ==
  /\ At("bind")
  /\ scope' = [scope EXCEPT ![prep.for] = prep.cand] /\ Stop
  /\ UNCHANGED <<tree, view, gated, registered, up>>

(* reuseFeatureValidationCandidateWorkspace: the validator's own candidate, *)
(* resolved through its scope and its retained receipt.                     *)
Reusable == scope[Validator] /= None /\ <<scope[Validator], Validator>> \in registered
Reuse ==
  /\ up /\ prep = None /\ scope[Promotion] = None /\ Reusable
  /\ Goto(IF existing(scope[Validator], Promotion) THEN "register" ELSE "build", scope[Validator], Promotion)
  /\ UNCHANGED <<tree, view, gated, registered, scope, up>>

(* A preparation fails: git, the store or the deadline.                     *)
Abandon == prep /= None /\ prep.pc /= "receipt" /\ Stop /\ UNCHANGED <<tree, view, gated, registered, scope, up>>
Crash ==
  /\ up /\ up' = FALSE /\ Stop /\ registered' = {}
  /\ UNCHANGED <<tree, view, gated, scope>>

(* rehydrate: every receipt is read and its view verified; one that cannot  *)
(* be read keeps the daemon from starting.                                  *)
Receipted == {v \in DOMAIN view : view[v].receipt /= "none"}
Found(v) == existing(v[1], v[2]) /\ IF v[2] = Assembly THEN verify(v) ELSE Materialized(v)
rehydrate ==
  /\ ~up
  /\ \A v \in Receipted : Found(v)
  /\ up' = TRUE /\ registered' = Receipted
  /\ UNCHANGED <<tree, view, gated, prep, scope>>

(* A repair edits the worktree, then commits.                               *)
Edit(t) ==
  /\ IF tree[t].clean THEN tree[t].head < MaxCommit /\ tree' = [tree EXCEPT ![t].clean = FALSE]
     ELSE tree' = [tree EXCEPT ![t] = [head |-> @.head + 1, clean |-> TRUE]]
  /\ UNCHANGED <<view, gated, prep, registered, scope, up>>

(* reconcileValidationRounds: the validator is bound again once its targets *)
(* have put out something else.                                             *)
Unbind ==
  /\ scope[Validator] /= None /\ scope[Validator] /= Heads /\ prep = None
  /\ scope' = [scope EXCEPT ![Validator] = None]
  /\ UNCHANGED <<tree, view, gated, prep, registered, up>>

Init ==
  /\ \E S \in Plans : tree = [t \in S |-> [head |-> 1, clean |-> TRUE]]
  /\ view = [v \in Candidates \X Consumers |-> [dir |-> "none", receipt |-> "none"]]
  /\ gated = {} /\ prep = None /\ registered = {} /\ scope = [c \in Consumers |-> None] /\ up = TRUE

Next ==
  \/ inspectSource \/ runGates \/ Recheck \/ prepareObserved \/ materialize \/ makeTreeReadOnly \/ writeExclusiveSynced
  \/ register \/ rebindTaskCandidateWorkspace \/ Reuse \/ Abandon \/ Crash \/ rehydrate \/ Unbind
  \/ \E t \in Targets : Edit(t)
Spec == Init /\ [][Next]_vars

-----------------------------------------------------------------------------
(* Whatever a consumer is bound to passed the gates as it is, and its view  *)
(* survives any crash: a receipt never precedes its directory, so that what *)
(* is bound is found again by every restart.                                *)
BoundIsGated ==
  /\ \A c \in Consumers : scope[c] /= None =>
       scope[c] \in gated /\ view[<<scope[c], c>>].receipt = "whole" /\ (up => <<scope[c], c>> \in registered)
  /\ \A v \in Receipted : Materialized(v)

(* A candidate is inspected in a read-only directory.                       *)
ViewsAreReadOnly == \A c \in Consumers : scope[c] /= None => view[<<scope[c], c>>].dir = "readonly"
=============================================================================
