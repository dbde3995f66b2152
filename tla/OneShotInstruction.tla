------------------------- MODULE OneShotInstruction -------------------------
(***************************************************************************)
(* What an instruction of this plugin promises to the procedure that       *)
(* executes it: an execution ends, by itself, with SUCCESS or FAILURE; it  *)
(* has its one effect (the value that it writes to a variable, or hands to *)
(* the network) in the step that ends it; and SUCCESS means that it had    *)
(* that effect.  Only a Reset begins another execution.                    *)
(***************************************************************************)
CONSTANTS Instruction,
          FailsWithEffect  \* BOOLEAN: may an execution that had its effect fail?

VARIABLES status,  \* [Instruction -> ExecutionStatus]
          effect   \* [Instruction -> BOOLEAN]: the execution had its effect

oneShotVars == <<status, effect>>

ExecutionStatus == {"NOT_STARTED", "RUNNING", "SUCCESS", "FAILURE"}

OneShotInit ==
  /\ status = [i \in Instruction |-> "NOT_STARTED"]
  /\ effect = [i \in Instruction |-> FALSE]

Start(i) ==
  /\ status[i] = "NOT_STARTED"
  /\ status' = [status EXCEPT ![i] = "RUNNING"]
  /\ UNCHANGED effect

Succeed(i) ==
  /\ status[i] = "RUNNING"
  /\ status' = [status EXCEPT ![i] = "SUCCESS"]
  /\ effect' = [effect EXCEPT ![i] = TRUE]

Fail(i) ==
  /\ status[i] \in {"NOT_STARTED", "RUNNING"}
  /\ status' = [status EXCEPT ![i] = "FAILURE"]
  /\ \/ UNCHANGED effect
     \/ FailsWithEffect /\ effect' = [effect EXCEPT ![i] = TRUE]

Reset(i) ==
  /\ status' = [status EXCEPT ![i] = "NOT_STARTED"]
  /\ effect' = [effect EXCEPT ![i] = FALSE]

Finish(i) == status[i] = "RUNNING" /\ (Succeed(i) \/ Fail(i))

OneShotNext == \E i \in Instruction : Start(i) \/ Succeed(i) \/ Fail(i) \/ Reset(i)

OneShotSafety == OneShotInit /\ [][OneShotNext]_oneShotVars

OneShotLiveness == \A i \in Instruction : WF_oneShotVars(Finish(i))

OneShotSpec == OneShotSafety /\ OneShotLiveness
=============================================================================
