-------------------------- MODULE MCWorkLifecycle --------------------------
(* Small instances of WorkLifecycle: two actors, enough events for a task   *)
(* to be acquired, activated, completed, reopened and handed off, and for   *)
(* work to be reopened twice.                                               *)
EXTENDS WorkLifecycle, TLC

CONSTANTS a1, a2, none
MCActors == {a1, a2}
MCSymmetry == Permutations(MCActors)

(* No action reads the log, and the properties read of it only epochs,      *)
(* reopenings and ownership events: states that differ elsewhere in their   *)
(* logs behave alike.                                                       *)
LogView ==
  <<stored, folded,
    [i \in DOMAIN log |-> IF log[i].cmd.type \in OwnershipCommands \cup {"reopen"}
                            THEN log[i] ELSE [epoch |-> log[i].epoch]]>>
=============================================================================
