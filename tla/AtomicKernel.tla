---------------------------- MODULE AtomicKernel ----------------------------
(***************************************************************************)
(* The promise of the decision path, without handlers: a command is decided *)
(* at most once per command id and per idempotency scope; an applied        *)
(* decision is the one Evaluate reaches on the store at that very moment,   *)
(* and takes all its effects in that step; a rejection has no effect but    *)
(* its receipt.                                                             *)
(***************************************************************************)
EXTENDS KernelDecision

VARIABLE store

Init == store = InitStore

Apply(c) ==
  /\ Undecided(c, store)
  /\ Outcome(c, store) = "APPLIED"
  /\ store' = CommitApplied(store, c)

Reject(c, outcome) ==
  /\ Undecided(c, store)
  /\ store' = CommitRejected(store, c, outcome)

InstallPolicy ==
  /\ store.policy < MaxPolicy
  /\ store' = [store EXCEPT !.policy = @ + 1]

Next ==
  \/ \E c \in Commands : Apply(c) \/ \E o \in Rejections : Reject(c, o)
  \/ InstallPolicy

Spec == Init /\ [][Next]_store
=============================================================================
