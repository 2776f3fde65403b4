-------------------------- MODULE TransferContract --------------------------
(***************************************************************************)
(* What an SG DMA engine promises to those who queue transfers on it: they *)
(* are served in the order they were queued, each is settled once, only    *)
(* the oldest is ever settled, and it is reported as completed only after  *)
(* the hardware has moved all of it.  SgdmaEngine implements this; AsyncIo *)
(* is built on it.                                                         *)
(***************************************************************************)
EXTENDS Sequences

CONSTANT Xfers

VARIABLES list,      \* the transfers queued, oldest first
          state,     \* the verdict on each transfer
          finished   \* the hardware has moved all of the oldest

contractVars == <<list, state, finished>>

ContractInit ==
  /\ list = <<>>
  /\ state = [x \in Xfers |-> "NEW"]
  /\ finished = FALSE

\* A transfer that is not queued is prepared for another use.
Renew(x) ==
  /\ state[x] # "SUBMITTED"
  /\ state' = [state EXCEPT ![x] = "NEW"]
  /\ UNCHANGED <<list, finished>>

Submit(x) ==
  /\ state[x] = "NEW"
  /\ state' = [state EXCEPT ![x] = "SUBMITTED"]
  /\ list' = Append(list, x)
  /\ UNCHANGED finished

\* The hardware has moved the oldest transfer.
Finish ==
  /\ list # <<>>
  /\ finished' = TRUE
  /\ UNCHANGED <<list, state>>

\* The engine is stopped or reset: the oldest transfer has to be run again.
Lose ==
  /\ finished' = FALSE
  /\ UNCHANGED <<list, state>>

\* The oldest transfer gets its verdict and leaves.
Settle(verdict) ==
  /\ list # <<>>
  /\ verdict = "COMPLETED" => finished
  /\ state' = [state EXCEPT ![Head(list)] = verdict]
  /\ list' = Tail(list)
  /\ finished' = FALSE

ContractNext ==
  \/ \E x \in Xfers : Renew(x) \/ Submit(x)
  \/ Finish
  \/ Lose
  \/ \E v \in {"COMPLETED", "FAILED", "ABORTED"} : Settle(v)

ContractSpec == ContractInit /\ [][ContractNext]_contractVars
=============================================================================
