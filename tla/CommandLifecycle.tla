-------------------------- MODULE CommandLifecycle --------------------------
(***************************************************************************)
(* What the outbox promises of each command, whatever executors, leases    *)
(* and attempts do underneath: a planned command stays pending until it is *)
(* settled or blocked, once; it is settled only after its effect has been  *)
(* on the remote; and neither a settled nor a blocked command comes back.  *)
(***************************************************************************)
CONSTANT Commands

VARIABLES phase,  \* phase[c]: where command c is in its life
          shown   \* shown[c]: the effect of c has been on the remote

lifecycleVars == <<phase, shown>>

Phases == {"absent", "pending", "blocked", "settled"}

LifecycleInit ==
  /\ phase = [c \in Commands |-> "absent"]
  /\ shown = [c \in Commands |-> FALSE]

Become(c, from, to) ==
  /\ phase[c] = from
  /\ phase' = [phase EXCEPT ![c] = to]
  /\ UNCHANGED shown

Accept(c) == Become(c, "absent", "pending")
Block(c) == Become(c, "pending", "blocked")
Settle(c) == shown[c] /\ Become(c, "pending", "settled")

Show(c) ==
  /\ phase[c] # "absent"
  /\ shown' = [shown EXCEPT ![c] = TRUE]
  /\ UNCHANGED phase

LifecycleNext == \E c \in Commands : Accept(c) \/ Block(c) \/ Settle(c) \/ Show(c)

LifecycleSpec == LifecycleInit /\ [][LifecycleNext]_lifecycleVars
=============================================================================
