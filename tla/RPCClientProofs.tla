-------------------------- MODULE RPCClientProofs --------------------------
(***************************************************************************)
(* For any number of instructions and of calls in flight: an execution     *)
(* waits for its own call only, and the server executes it once.           *)
(***************************************************************************)
EXTENDS RPCClient, TLAPS

Inv == TypeOK /\ CallInv

-----------------------------------------------------------------------------
(* Helpers                                                                 *)

\* What an instruction may be waiting for.
LEMMA FutureFacts ==
  ASSUME Inv, NEW i \in Instruction, future[i] # NoCall
  PROVE  /\ future[i] \in CallId
         /\ calls[future[i]] \in Call
         /\ IsCurrentCall(i, future[i])
  BY DEF Inv, TypeOK, CallInv, HoldsFuture, IsCurrentCall

LEMMA NewCallType ==
  ASSUME Inv, NEW i \in Instruction, request[i] # NoValue
  PROVE  /\ NewCall(i) \in Call /\ NewCall(i) # NoCall
         /\ NewCall(i).owner = i /\ NewCall(i).current /\ ~NewCall(i).served
         /\ NewCall(i).reply = NoReply
<1>1. NewCall(i) \in Call
  BY DEF NewCall, GetRequest, Call, Inv, TypeOK, Value
<1>2. QED
  BY <1>1, RPCAssumption DEF NewCall

\* Calls go as far as nobody waits for their reply; the others stay.
LEMMA DropFutureEffect ==
  ASSUME Inv, NEW i \in Instruction, DropFuture(i)
  PROVE  /\ future' \in [Instruction -> CallId \cup {NoCall}]
         /\ calls' \in [CallId -> Call \cup {NoCall}]
         /\ future'[i] = NoCall
         /\ \A j \in Instruction : j # i => future'[j] = future[j]
         /\ \A k \in CallId : calls'[k] \in {calls[k], NoCall}
         /\ \A k \in CallId : k # future[i] => calls'[k] = calls[k]
  BY DEF DropFuture, Inv, TypeOK

LEMMA ReturnEffect ==
  ASSUME TypeOK, NEW i \in Instruction, NEW s \in ExecutionStatus, Return(i, s)
  PROVE  /\ status' \in [Instruction -> ExecutionStatus]
         /\ pc' \in [Instruction -> PC]
         /\ status'[i] = s /\ pc'[i] = "idle"
         /\ \A j \in Instruction : j # i => status'[j] = status[j] /\ pc'[j] = pc[j]
  BY DEF Return, TypeOK, PC

\* What has to be shown for an instruction that a step of another one leaves
\* alone, when its calls stay what they are.
LEMMA UntouchedInv ==
  ASSUME Inv, NEW i \in Instruction,
         status'[i] = status[i], halted'[i] = halted[i], pc'[i] = pc[i],
         future'[i] = future[i], served'[i] = served[i],
         \A k \in CallId : IsCurrentCall(i, k)' =>
                             IsCurrentCall(i, k) /\ calls'[k].served = calls[k].served,
         \A k \in CallId : k = future[i] => IsCurrentCall(i, k)'
  PROVE  HoldsFuture(i)' /\ CallsOnce(i)'
<1>1. future[i] # NoCall => IsCurrentCall(i, future[i])'
  BY FutureFacts DEF IsCurrentCall
<1>2. QED
  BY <1>1 DEF Inv, CallInv, HoldsFuture, CallsOnce, InProgress

-----------------------------------------------------------------------------
LEMMA InitInv == Init => Inv
  BY RPCAssumption
  DEF Init, Inv, TypeOK, CallInv, HoldsFuture, CallsOnce, RepliesAreServed, InProgress,
      IsCurrentCall, InvalidFutureOnlyByHalt, ExecutionStatus, PC

LEMMA InitHookInv ==
  ASSUME Inv, fault = NoFault, NEW i \in Instruction, InitHook(i)
  PROVE  Inv'
<1>1. CASE Return(i, "FAILURE") /\ UNCHANGED <<calls, future>>
  <2>1. /\ UNCHANGED <<halted, future, calls, served, request, output, fault>>
        /\ status' \in [Instruction -> ExecutionStatus] /\ pc' \in [Instruction -> PC]
        /\ status'[i] = "FAILURE" /\ pc'[i] = "idle"
        /\ \A j \in Instruction : j # i => status'[j] = status[j] /\ pc'[j] = pc[j]
    BY <1>1, ReturnEffect DEF InitHook, Inv, ExecutionStatus
  <2>2. TypeOK'
    BY <2>1 DEF Inv, TypeOK
  <2>3. ASSUME NEW j \in Instruction
        PROVE  HoldsFuture(j)' /\ CallsOnce(j)'
    BY <2>1 DEF Inv, CallInv, HoldsFuture, CallsOnce, InProgress, IsCurrentCall
  <2>4. QED
    BY <2>1, <2>2, <2>3 DEF Inv, CallInv, RepliesAreServed, InvalidFutureOnlyByHalt
<1>2. ASSUME NEW k \in CallId, StartCall(i, k), request[i] # NoValue,
             pc' = [pc EXCEPT ![i] = "initialised"], UNCHANGED status
      PROVE  Inv'
  <2>1. /\ UNCHANGED <<status, halted, served, request, output, fault>>
        /\ pc[i] = "idle" /\ status[i] = "NOT_STARTED"
        /\ calls[k] = NoCall
        /\ calls' = [calls EXCEPT ![k] = NewCall(i)]
        /\ future' = [future EXCEPT ![i] = k]
    BY <1>2 DEF InitHook, StartCall
  <2>2. TypeOK'
    BY <1>2, <2>1, NewCallType DEF Inv, TypeOK, PC
  <2>3. /\ pc'[i] = "initialised" /\ future'[i] = k
        /\ \A j \in Instruction : j # i => pc'[j] = pc[j] /\ future'[j] = future[j]
        /\ calls'[k] = NewCall(i)
        /\ \A l \in CallId : l # k => calls'[l] = calls[l]
    BY <1>2, <2>1 DEF Inv, TypeOK
  <2>4. ASSUME NEW j \in Instruction
        PROVE  HoldsFuture(j)' /\ CallsOnce(j)'
    <3>1. CASE j # i
      <4>1. \A l \in CallId : IsCurrentCall(j, l)' =>
                                IsCurrentCall(j, l) /\ calls'[l].served = calls[l].served
        BY <1>2, <2>3, <3>1, NewCallType DEF IsCurrentCall
      <4>2. \A l \in CallId : l = future[j] => IsCurrentCall(j, l)'
        BY <2>1, <2>3, FutureFacts, RPCAssumption DEF IsCurrentCall
      <4>3. QED
        BY <2>1, <2>3, <3>1, <4>1, <4>2, UntouchedInv
    <3>2. CASE j = i
      <4>1. /\ served[i] = 0
            /\ \A l \in CallId : ~IsCurrentCall(i, l)
        BY <2>1 DEF Inv, CallInv, CallsOnce, InProgress
      <4>2. \A l \in CallId : IsCurrentCall(i, l)' <=> l = k
        BY <1>2, <2>3, <4>1, NewCallType DEF IsCurrentCall
      <4>3. ~calls'[k].served
        BY <1>2, <2>3, NewCallType
      <4>4. k # NoCall
        BY RPCAssumption
      <4>5. HoldsFuture(i)'
        BY <2>3, <4>2, <4>4 DEF HoldsFuture
      <4>6. CallsOnce(i)'
        BY <2>1, <2>3, <4>1, <4>2, <4>3 DEF CallsOnce, InProgress
      <4>7. QED
        BY <3>2, <4>5, <4>6
    <3>3. QED
      BY <3>1, <3>2
  <2>5. ASSUME NEW l \in CallId
        PROVE  RepliesAreServed(l)'
    BY <1>2, <2>3, NewCallType DEF Inv, CallInv, RepliesAreServed
  <2>6. QED
    BY <2>1, <2>2, <2>4, <2>5 DEF Inv, CallInv, InvalidFutureOnlyByHalt
<1>3. QED
  BY <1>1, <1>2 DEF InitHook, GetRequest

LEMMA BeginExecuteInv ==
  ASSUME Inv, fault = NoFault, NEW i \in Instruction, BeginExecute(i)
  PROVE  Inv'
<1>1. /\ UNCHANGED <<halted, future, calls, served, request, output, fault>>
      /\ InProgress(i)
      /\ \A j \in Instruction : j # i => status'[j] = status[j] /\ pc'[j] = pc[j]
      /\ \/ halted[i] /\ status'[i] = "FAILURE" /\ pc'[i] = "idle"
         \/ ~halted[i] /\ status'[i] = status[i] /\ pc'[i] = "checked"
      /\ status' \in [Instruction -> ExecutionStatus] /\ pc' \in [Instruction -> PC]
  BY ReturnEffect DEF BeginExecute, Inv, TypeOK, InProgress, ExecutionStatus, PC
<1>2. TypeOK'
  BY <1>1 DEF Inv, TypeOK
<1>3. ASSUME NEW j \in Instruction
      PROVE  HoldsFuture(j)' /\ CallsOnce(j)'
  BY <1>1 DEF Inv, CallInv, HoldsFuture, CallsOnce, InProgress, IsCurrentCall
<1>4. QED
  BY <1>1, <1>2, <1>3 DEF Inv, CallInv, RepliesAreServed, InvalidFutureOnlyByHalt

\* A reply that counts as a success belongs to a call that was executed.
LEMMA TakeReplyEffect ==
  ASSUME Inv, NEW i \in Instruction, NEW reply \in Reply, TakeReply(i, reply)
  PROVE  /\ output' \in [Instruction -> Reply \cup {NoReply}]
         /\ \E s \in {"SUCCESS", "FAILURE"} :
              Return(i, s) /\ (s = "SUCCESS" => IsSuccessfulReply(reply))
  BY DEF TakeReply, Inv, TypeOK

LEMMA FinishExecuteInv ==
  ASSUME Inv, fault = NoFault, NEW i \in Instruction, FinishExecute(i)
  PROVE  Inv'
<1> DEFINE k == future[i]
<1>1. UNCHANGED <<halted, served, request>> /\ pc[i] \in {"checked", "interrupted"}
  BY DEF FinishExecute
<1>2. CASE k = NoCall
  <2>1. UNCHANGED <<status, pc, future, calls, output>> /\ fault' = i
    BY <1>2 DEF FinishExecute
  <2>2. pc[i] = "interrupted"
    BY <1>1, <1>2 DEF Inv, CallInv, HoldsFuture, InProgress
  <2>3. QED
    BY <1>1, <2>1, <2>2
    DEF Inv, TypeOK, CallInv, HoldsFuture, CallsOnce, RepliesAreServed, InProgress,
        IsCurrentCall, InvalidFutureOnlyByHalt
<1>3. CASE k # NoCall /\ calls[k].reply = NoReply
  <2>1. UNCHANGED <<future, calls, output, fault>> /\ Return(i, "RUNNING")
    BY <1>3 DEF FinishExecute
  <2>2. /\ status' \in [Instruction -> ExecutionStatus] /\ pc' \in [Instruction -> PC]
        /\ status'[i] = "RUNNING" /\ pc'[i] = "idle"
        /\ \A j \in Instruction : j # i => status'[j] = status[j] /\ pc'[j] = pc[j]
    BY <2>1, ReturnEffect DEF Inv, ExecutionStatus
  <2>3. TypeOK'
    BY <1>1, <2>1, <2>2 DEF Inv, TypeOK
  <2>4. ASSUME NEW j \in Instruction
        PROVE  HoldsFuture(j)' /\ CallsOnce(j)'
    BY <1>1, <1>3, <2>1, <2>2
    DEF Inv, CallInv, HoldsFuture, CallsOnce, InProgress, IsCurrentCall
  <2>5. QED
    BY <2>1, <2>3, <2>4 DEF Inv, CallInv, RepliesAreServed, InvalidFutureOnlyByHalt,
      FinishExecute
<1>4. CASE k # NoCall /\ calls[k].reply # NoReply
  <2>1. TakeReply(i, calls[k].reply) /\ DropFuture(i) /\ UNCHANGED fault
    BY <1>4 DEF FinishExecute
  <2>2. k \in CallId /\ calls[k] \in Call /\ IsCurrentCall(i, k) /\ calls[k].reply \in Reply
    BY <1>4, FutureFacts DEF Call
  <2>3. IsSuccessfulReply(calls[k].reply) => calls[k].served
    BY <1>4, <2>2, RPCAssumption DEF Inv, CallInv, RepliesAreServed
  <2>4. /\ status' \in [Instruction -> ExecutionStatus] /\ pc' \in [Instruction -> PC]
        /\ output' \in [Instruction -> Reply \cup {NoReply}]
        /\ status'[i] \in {"SUCCESS", "FAILURE"} /\ pc'[i] = "idle"
        /\ status'[i] = "SUCCESS" => calls[k].served
        /\ \A j \in Instruction : j # i => status'[j] = status[j] /\ pc'[j] = pc[j]
    <3>1. PICK s \in {"SUCCESS", "FAILURE"} :
            Return(i, s) /\ (s = "SUCCESS" => IsSuccessfulReply(calls[k].reply))
      BY <2>1, <2>2, TakeReplyEffect
    <3>2. s \in ExecutionStatus /\ TypeOK
      BY DEF ExecutionStatus, Inv
    <3>3. QED
      BY <2>1, <2>2, <2>3, <3>1, <3>2, ReturnEffect, TakeReplyEffect
  <2>5. /\ future' \in [Instruction -> CallId \cup {NoCall}]
        /\ calls' \in [CallId -> Call \cup {NoCall}]
        /\ future'[i] = NoCall
        /\ \A j \in Instruction : j # i => future'[j] = future[j]
        /\ \A l \in CallId : calls'[l] \in {calls[l], NoCall}
        /\ \A l \in CallId : l # k => calls'[l] = calls[l]
    BY <2>1, DropFutureEffect
  <2>6. TypeOK'
    BY <1>1, <2>1, <2>4, <2>5 DEF Inv, TypeOK
  <2>7. ASSUME NEW j \in Instruction
        PROVE  HoldsFuture(j)' /\ CallsOnce(j)'
    <3>1. CASE j # i
      <4>1. \A l \in CallId : IsCurrentCall(j, l)' =>
                                IsCurrentCall(j, l) /\ calls'[l].served = calls[l].served
        BY <2>5 DEF IsCurrentCall
      <4>2. \A l \in CallId : l = future[j] => IsCurrentCall(j, l)'
        BY <2>2, <2>5, <3>1, FutureFacts, RPCAssumption DEF IsCurrentCall
      <4>3. QED
        BY <1>1, <2>4, <2>5, <3>1, <4>1, <4>2, UntouchedInv
    <3>2. CASE j = i
      <4>1. served[i] = IF calls[k].served THEN 1 ELSE 0
        BY <2>2 DEF Inv, CallInv, CallsOnce
      <4>2. \A l \in CallId : IsCurrentCall(i, l)' => IsCurrentCall(i, l) /\ calls'[l] = calls[l]
        BY <2>5 DEF IsCurrentCall
      <4>3. HoldsFuture(i)'
        BY <2>4, <2>5 DEF HoldsFuture, InProgress
      <4>4. CallsOnce(i)'
        BY <1>1, <2>4, <4>1, <4>2 DEF Inv, CallInv, CallsOnce
      <4>5. QED
        BY <3>2, <4>3, <4>4
    <3>3. QED
      BY <3>1, <3>2
  <2>8. QED
    BY <2>1, <2>5, <2>6, <2>7 DEF Inv, CallInv, RepliesAreServed, InvalidFutureOnlyByHalt
<1>5. QED
  BY <1>2, <1>3, <1>4

LEMMA HaltInv ==
  ASSUME Inv, fault = NoFault, NEW i \in Instruction, Halt(i)
  PROVE  Inv'
<1>1. /\ UNCHANGED <<status, served, request, output, fault>>
      /\ halted' = [halted EXCEPT ![i] = TRUE]
      /\ pc' = [pc EXCEPT ![i] = IF @ = "checked" THEN "interrupted" ELSE @]
  BY DEF Halt
<1>2. /\ future' \in [Instruction -> CallId \cup {NoCall}]
      /\ calls' \in [CallId -> Call \cup {NoCall}]
      /\ future'[i] = NoCall
      /\ \A j \in Instruction : j # i => future'[j] = future[j]
      /\ \A k \in CallId : calls'[k] \in {calls[k], NoCall}
      /\ \A k \in CallId : k # future[i] => calls'[k] = calls[k]
  BY DropFutureEffect DEF Halt, HaltImpl
<1>3. TypeOK'
  BY <1>1, <1>2 DEF Inv, TypeOK, PC
<1>4. /\ halted'[i] /\ pc'[i] # "checked" /\ (pc'[i] = "idle" <=> pc[i] = "idle")
      /\ \A j \in Instruction : j # i => halted'[j] = halted[j] /\ pc'[j] = pc[j]
  BY <1>1 DEF Inv, TypeOK
<1>5. ASSUME NEW j \in Instruction
      PROVE  HoldsFuture(j)' /\ CallsOnce(j)'
  <2>1. CASE j # i
    <3>1. \A k \in CallId : IsCurrentCall(j, k)' <=> IsCurrentCall(j, k)
      <4>1. \A k \in CallId : k = future[i] => ~IsCurrentCall(j, k)
        BY <2>1, FutureFacts, RPCAssumption DEF IsCurrentCall
      <4>2. QED
        BY <1>2, <4>1 DEF IsCurrentCall
    <3>2. \A k \in CallId : IsCurrentCall(j, k)' => calls'[k].served = calls[k].served
      BY <1>2 DEF IsCurrentCall
    <3>3. \A k \in CallId : k = future[j] => IsCurrentCall(j, k)'
      BY <3>1, FutureFacts, RPCAssumption
    <3>4. QED
      BY <1>1, <1>2, <1>4, <2>1, <3>1, <3>2, <3>3, UntouchedInv
  <2>2. CASE j = i
    <3>1. \A k \in CallId : IsCurrentCall(i, k)' => IsCurrentCall(i, k) /\ calls'[k] = calls[k]
      BY <1>2 DEF IsCurrentCall
    <3>2. HoldsFuture(i)'
      BY <1>2, <1>4 DEF HoldsFuture
    <3>3. CallsOnce(i)'
      BY <1>1, <1>4, <3>1 DEF Inv, CallInv, CallsOnce, InProgress
    <3>4. QED
      BY <2>2, <3>2, <3>3
  <2>3. QED
    BY <2>1, <2>2
<1>6. QED
  BY <1>1, <1>2, <1>3, <1>5 DEF Inv, CallInv, RepliesAreServed, InvalidFutureOnlyByHalt

LEMMA ResetInv ==
  ASSUME Inv, fault = NoFault, NEW i \in Instruction, Reset(i)
  PROVE  Inv'
<1>1. /\ UNCHANGED <<pc, request, fault>> /\ pc[i] = "idle"
      /\ status' = [status EXCEPT ![i] = "NOT_STARTED"]
      /\ halted' = [halted EXCEPT ![i] = FALSE]
      /\ served' = [served EXCEPT ![i] = 0]
      /\ output' = [output EXCEPT ![i] = NoReply]
      /\ future' = [future EXCEPT ![i] = NoCall]
  BY DEF Reset, ResetHook
<1>2. /\ calls' \in [CallId -> Call \cup {NoCall}]
      /\ \A k \in CallId : calls[k] = NoCall \/ calls[k].owner # i => calls'[k] = calls[k]
      /\ \A k \in CallId : ~IsCurrentCall(i, k)'
      /\ \A k \in CallId :
           calls'[k] # NoCall => /\ calls[k] # NoCall
                                 /\ calls'[k].owner = calls[k].owner
                                 /\ calls'[k].reply = calls[k].reply
                                 /\ calls'[k].served = calls[k].served
  <2>1. ASSUME NEW k \in CallId, calls[k] # NoCall
        PROVE  /\ calls[k] \in Call
               /\ [calls[k] EXCEPT !.current = FALSE] \in Call
    BY <2>1 DEF Inv, TypeOK, Call
  <2>2. calls' = [k \in CallId |->
                    IF calls[k] = NoCall \/ calls[k].owner # i THEN calls[k]
                    ELSE IF k = future[i] /\ calls[k].reply # NoReply THEN NoCall
                    ELSE [calls[k] EXCEPT !.current = FALSE]]
    BY DEF Reset, ResetHook
  <2>3. QED
    BY <2>1, <2>2 DEF IsCurrentCall, Call
<1>3. TypeOK'
  BY <1>1, <1>2 DEF Inv, TypeOK, ExecutionStatus
<1>4. ASSUME NEW j \in Instruction
      PROVE  HoldsFuture(j)' /\ CallsOnce(j)'
  <2>1. CASE j # i
    <3>1. /\ status'[j] = status[j] /\ halted'[j] = halted[j] /\ pc'[j] = pc[j]
          /\ future'[j] = future[j] /\ served'[j] = served[j]
      BY <1>1, <2>1 DEF Inv, TypeOK
    <3>2. \A k \in CallId : IsCurrentCall(j, k)' <=> IsCurrentCall(j, k) /\ calls'[k] = calls[k]
      BY <1>2, <2>1 DEF IsCurrentCall
    <3>3. \A k \in CallId : k = future[j] => IsCurrentCall(j, k)'
      BY <1>2, <2>1, FutureFacts, RPCAssumption DEF IsCurrentCall
    <3>4. QED
      BY <3>1, <3>2, <3>3, UntouchedInv
  <2>2. CASE j = i
    <3>1. /\ status'[i] = "NOT_STARTED" /\ pc'[i] = "idle"
          /\ future'[i] = NoCall /\ served'[i] = 0
      BY <1>1 DEF Inv, TypeOK
    <3>2. QED
      BY <1>2, <2>2, <3>1 DEF HoldsFuture, CallsOnce, InProgress
  <2>3. QED
    BY <2>1, <2>2
<1>5. QED
  BY <1>1, <1>2, <1>3, <1>4 DEF Inv, CallInv, RepliesAreServed, InvalidFutureOnlyByHalt

LEMMA ServeInv ==
  ASSUME Inv, fault = NoFault, NEW k \in CallId, Serve(k)
  PROVE  Inv'
<1> DEFINE o == calls[k].owner
<1>1. /\ UNCHANGED <<status, halted, pc, future, request, output, fault>>
      /\ calls[k] # NoCall /\ ~calls[k].served
      /\ calls' = [calls EXCEPT ![k].served = TRUE]
      /\ served' = IF calls[k].current THEN [served EXCEPT ![o] = @ + 1] ELSE served
  BY DEF Serve
<1>2. /\ calls[k] \in Call /\ o \in Instruction
      /\ calls'[k] \in Call /\ calls'[k] # NoCall
      /\ calls'[k].owner = o /\ calls'[k].current = calls[k].current
      /\ calls'[k].reply = calls[k].reply /\ calls'[k].served
      /\ \A l \in CallId : l # k => calls'[l] = calls[l]
      /\ calls' \in [CallId -> Call \cup {NoCall}]
  <2>1. calls[k] \in Call
    BY <1>1 DEF Inv, TypeOK
  <2>2. [calls[k] EXCEPT !.served = TRUE] \in Call
    BY <2>1 DEF Call
  <2>3. calls'[k] = [calls[k] EXCEPT !.served = TRUE]
    BY <1>1 DEF Inv, TypeOK
  <2>4. QED
    BY <1>1, <2>1, <2>2, <2>3, RPCAssumption DEF Inv, TypeOK, Call
<1>3. \A j \in Instruction, l \in CallId : IsCurrentCall(j, l)' <=> IsCurrentCall(j, l)
  BY <1>1, <1>2 DEF IsCurrentCall
<1>4. TypeOK'
  BY <1>1, <1>2 DEF Inv, TypeOK
<1>5. ASSUME NEW j \in Instruction
      PROVE  HoldsFuture(j)' /\ CallsOnce(j)'
  <2>1. CASE ~IsCurrentCall(j, k)
    <3>1. served'[j] = served[j]
      BY <1>1, <1>2, <2>1 DEF IsCurrentCall, Inv, TypeOK
    <3>2. \A l \in CallId : l = future[j] => IsCurrentCall(j, l)'
      BY <1>3, FutureFacts, RPCAssumption
    <3>3. \A l \in CallId : IsCurrentCall(j, l)' =>
                              IsCurrentCall(j, l) /\ calls'[l].served = calls[l].served
      BY <1>2, <1>3, <2>1
    <3>4. QED
      BY <1>1, <3>1, <3>2, <3>3, UntouchedInv
  <2>2. CASE IsCurrentCall(j, k)
    <3>1. /\ served[j] = 0 /\ status[j] # "SUCCESS"
          /\ ~(status[j] = "NOT_STARTED" /\ ~InProgress(j))
          /\ \A l \in CallId : IsCurrentCall(j, l) => l = k
      BY <1>1, <2>2 DEF Inv, CallInv, CallsOnce
    <3>2. served'[j] = 1
      BY <1>1, <1>2, <2>2, <3>1 DEF IsCurrentCall, Inv, TypeOK
    <3>3. CallsOnce(j)'
      BY <1>1, <1>2, <1>3, <3>1, <3>2 DEF CallsOnce, InProgress
    <3>4. HoldsFuture(j)'
      BY <1>1, <1>3, FutureFacts DEF Inv, CallInv, HoldsFuture, InProgress
    <3>5. QED
      BY <3>3, <3>4
  <2>3. QED
    BY <2>1, <2>2
<1>6. QED
  BY <1>1, <1>2, <1>4, <1>5 DEF Inv, CallInv, RepliesAreServed, InvalidFutureOnlyByHalt

LEMMA CompleteInv ==
  ASSUME Inv, fault = NoFault, NEW k \in CallId, Complete(k)
  PROVE  Inv'
<1>1. PICK r \in Replies(calls[k]) :
        calls' = [calls EXCEPT ![k] = IF k \in {future[i] : i \in Instruction}
                                      THEN [@ EXCEPT !.reply = r] ELSE NoCall]
  BY DEF Complete
<1>2. /\ UNCHANGED <<status, halted, pc, future, served, request, output, fault>>
      /\ calls[k] # NoCall /\ calls[k] \in Call
  BY DEF Complete, Pending, Inv, TypeOK
<1>3. r \in Reply /\ (IsSuccessfulReply(r) => calls[k].served)
  BY <1>2 DEF Replies, Reply, ReplyResult, Value, Call, IsSuccessfulReply
<1>4. /\ \A l \in CallId : l # k => calls'[l] = calls[l]
      /\ calls'[k] \in {[calls[k] EXCEPT !.reply = r], NoCall}
      /\ (\E i \in Instruction : future[i] = k) => calls'[k] # NoCall
      /\ [calls[k] EXCEPT !.reply = r] \in Call
      /\ calls' \in [CallId -> Call \cup {NoCall}]
  <2>1. [calls[k] EXCEPT !.reply = r] \in Call
    BY <1>2, <1>3 DEF Call
  <2>2. QED
    BY <1>1, <2>1, RPCAssumption DEF Inv, TypeOK
<1>5. calls'[k] # NoCall => /\ calls'[k].owner = calls[k].owner
                            /\ calls'[k].current = calls[k].current
                            /\ calls'[k].served = calls[k].served
                            /\ calls'[k].reply = r
  BY <1>2, <1>4 DEF Call
<1>6. TypeOK'
  BY <1>2, <1>4 DEF Inv, TypeOK
<1>7. ASSUME NEW j \in Instruction
      PROVE  HoldsFuture(j)' /\ CallsOnce(j)'
  <2>1. \A l \in CallId : IsCurrentCall(j, l)' =>
                            IsCurrentCall(j, l) /\ calls'[l].served = calls[l].served
    BY <1>2, <1>4, <1>5 DEF IsCurrentCall
  <2>2. \A l \in CallId : l = future[j] => IsCurrentCall(j, l)'
    BY <1>2, <1>4, <1>5, FutureFacts, RPCAssumption DEF IsCurrentCall
  <2>3. QED
    BY <1>2, <2>1, <2>2, UntouchedInv
<1>8. ASSUME NEW l \in CallId
      PROVE  RepliesAreServed(l)'
  BY <1>3, <1>4, <1>5 DEF Inv, CallInv, RepliesAreServed
<1>9. QED
  BY <1>2, <1>6, <1>7, <1>8 DEF Inv, CallInv, InvalidFutureOnlyByHalt

LEMMA RequestChangesInv ==
  ASSUME Inv, NEW i \in Instruction, NEW x \in Value, RequestChanges(i, x)
  PROVE  Inv'
  BY DEF RequestChanges, Inv, TypeOK, CallInv, HoldsFuture, CallsOnce, RepliesAreServed,
    InProgress, IsCurrentCall, InvalidFutureOnlyByHalt

-----------------------------------------------------------------------------
LEMMA NextInv == Inv /\ [Next]_vars => Inv'
<1>1. ASSUME Inv, Next
      PROVE  Inv'
  BY <1>1, InitHookInv, BeginExecuteInv, FinishExecuteInv, HaltInv, ResetInv, ServeInv,
     CompleteInv, RequestChangesInv
  DEF Next, InstructionStep
<1>2. ASSUME Inv, UNCHANGED vars
      PROVE  Inv'
  BY <1>2
  DEF vars, Inv, TypeOK, CallInv, HoldsFuture, CallsOnce, RepliesAreServed, InProgress,
      IsCurrentCall, InvalidFutureOnlyByHalt
<1>3. QED
  BY <1>1, <1>2

LEMMA Invariance == Spec => []Inv
  BY InitInv, NextInv, PTL DEF Spec

-----------------------------------------------------------------------------
(* The properties                                                          *)

\* The variables of the model keep their types.
THEOREM TypeCorrect == Spec => []TypeOK
<1>1. Inv => TypeOK
  BY DEF Inv
<1>2. QED
  BY <1>1, Invariance, PTL

\* The conjunction that the safety properties follow from.
THEOREM CallInvariant == Spec => []CallInv
<1>1. Inv => CallInv
  BY DEF Inv
<1>2. QED
  BY <1>1, Invariance, PTL

\* A late reply to an earlier execution is never taken for that of a later one.
THEOREM OwnCalls == Spec => []WaitsForItsOwnCall
<1>1. Inv => WaitsForItsOwnCall
  BY DEF Inv, CallInv, HoldsFuture, IsCurrentCall, WaitsForItsOwnCall
<1>2. QED
  BY <1>1, Invariance, PTL

\* The server executes the request of an execution at most once, and once if
\* the instruction reports SUCCESS.
THEOREM OncePerExecution == Spec => []ServedOncePerExecution
<1>1. Inv => ServedOncePerExecution
  BY DEF Inv, CallInv, CallsOnce, ServedOncePerExecution
<1>2. QED
  BY <1>1, Invariance, PTL

\* Only a Halt from another thread, in the middle of ExecuteSingle, leaves it
\* with an invalid future.
THEOREM HaltIsNeeded == Spec => []InvalidFutureOnlyByHalt
<1>1. Inv => InvalidFutureOnlyByHalt
  BY DEF Inv, CallInv
<1>2. QED
  BY <1>1, Invariance, PTL

-----------------------------------------------------------------------------
(* The one-shot call                                                       *)

\* An execution that is inside ExecuteSingle has not ended.
StatusInv ==
  \A i \in Instruction : pc[i] # "idle" => status[i] \in {"NOT_STARTED", "RUNNING"}

LEMMA StatusInvariance == Spec => []StatusInv
<1>1. Init => StatusInv
  BY DEF Init, StatusInv
<1>2. TypeOK /\ StatusInv /\ [Next]_vars => StatusInv'
  <2>1. SUFFICES ASSUME TypeOK, StatusInv, [Next]_vars
                 PROVE  StatusInv'
    OBVIOUS
  <2>2. CASE UNCHANGED <<status, pc>>
    BY <2>1, <2>2 DEF StatusInv
  <2>3. ASSUME NEW i \in Instruction, InitHook(i) \/ BeginExecute(i) \/ FinishExecute(i)
        PROVE  StatusInv'
    BY <2>1, <2>3
    DEF StatusInv, TypeOK, InitHook, BeginExecute, FinishExecute, TakeReply, Return
  <2>4. ASSUME NEW i \in Instruction, Halt(i) \/ Reset(i)
        PROVE  StatusInv'
    BY <2>1, <2>4 DEF StatusInv, TypeOK, Halt, Reset
  <2>5. QED
    BY <2>1, <2>2, <2>3, <2>4
    DEF Next, InstructionStep, RequestChanges, Serve, Complete, vars
<1>3. QED
  BY <1>1, <1>2, TypeCorrect, PTL DEF Spec

\* What a step of one instruction may do to what its execution shows.
LEMMA ShownStep ==
  ASSUME NEW i \in Instruction,
         \A j \in Instruction \ {i} : /\ ShownStatus(j)' = ShownStatus(j)
                                      /\ HasEffect(j)' = HasEffect(j),
         \/ ShownStatus(i)' = ShownStatus(i) /\ HasEffect(i)' = HasEffect(i)
         \/ /\ ShownStatus(i) = "NOT_STARTED" /\ ShownStatus(i)' = "RUNNING"
            /\ HasEffect(i)' = HasEffect(i)
         \/ /\ ShownStatus(i) = "RUNNING" /\ ShownStatus(i)' = "SUCCESS"
            /\ HasEffect(i)' = TRUE
         \/ /\ ShownStatus(i) \in {"NOT_STARTED", "RUNNING"}
            /\ ShownStatus(i)' = "FAILURE"
            /\ HasEffect(i)' \in {TRUE, HasEffect(i)}
         \/ ShownStatus(i)' = "NOT_STARTED" /\ HasEffect(i)' = FALSE
  PROVE  [OneShotCall!OneShotNext]_(OneShotCall!oneShotVars)
  BY DEF OneShotCall!OneShotNext, OneShotCall!oneShotVars, OneShotCall!Start,
    OneShotCall!Succeed, OneShotCall!Fail, OneShotCall!Reset

\* Each execution of the instruction is a one-shot call.
THEOREM OneShotCalls == Spec => OneShotCall!OneShotSafety
<1>1. Init => OneShotCall!OneShotInit
  BY DEF Init, OneShotCall!OneShotInit, ShownStatus, HasEffect, InProgress
<1>2. TypeOK /\ StatusInv /\ [Next]_vars =>
        [OneShotCall!OneShotNext]_(OneShotCall!oneShotVars)
  <2>1. SUFFICES ASSUME TypeOK, StatusInv, [Next]_vars
                 PROVE  [OneShotCall!OneShotNext]_(OneShotCall!oneShotVars)
    OBVIOUS
  <2>2. CASE UNCHANGED <<status, pc, output>>
    BY <2>2 DEF OneShotCall!oneShotVars, ShownStatus, HasEffect, InProgress
  <2>3. ASSUME NEW i \in Instruction, InstructionStep(i)
        PROVE  [OneShotCall!OneShotNext]_(OneShotCall!oneShotVars)
    <3>1. \A j \in Instruction \ {i} : /\ ShownStatus(j)' = ShownStatus(j)
                                        /\ HasEffect(j)' = HasEffect(j)
      BY <2>1, <2>3
      DEF InstructionStep, InitHook, BeginExecute, FinishExecute, TakeReply, Return, Halt,
          Reset, TypeOK, ShownStatus, HasEffect, InProgress
    <3>2. CASE InitHook(i)
      <4>1. HasEffect(i)' = HasEffect(i)
        BY <2>1, <3>2 DEF InitHook, Return, HasEffect, TypeOK
      <4>2. /\ ShownStatus(i) = "NOT_STARTED"
            /\ ShownStatus(i)' \in {"RUNNING", "FAILURE"}
        BY <2>1, <3>2 DEF InitHook, Return, ShownStatus, InProgress, TypeOK
      <4>3. QED
        BY <3>1, <4>1, <4>2, ShownStep
    <3>3. CASE BeginExecute(i)
      <4>1. HasEffect(i)' = HasEffect(i)
        BY <2>1, <3>3 DEF BeginExecute, Return, HasEffect, TypeOK, StatusInv
      <4>2. ShownStatus(i) = "RUNNING" /\ ShownStatus(i)' \in {"RUNNING", "FAILURE"}
        BY <2>1, <3>3
        DEF BeginExecute, Return, ShownStatus, InProgress, TypeOK, StatusInv
      <4>3. QED
        BY <3>1, <4>1, <4>2, ShownStep
    <3>4. CASE FinishExecute(i)
      <4>1. ShownStatus(i) = "RUNNING"
        BY <2>1, <3>4 DEF FinishExecute, ShownStatus, InProgress, StatusInv
      <4>2. CASE UNCHANGED <<status, pc, output>>
        BY <2>2, <4>2
      <4>3. CASE Return(i, "RUNNING") /\ UNCHANGED output
        <5>1. ShownStatus(i)' = "RUNNING"
          BY <2>1, <4>3 DEF Return, ShownStatus, TypeOK
        <5>2. HasEffect(i)' = HasEffect(i)
          BY <2>1, <3>4, <4>3 DEF FinishExecute, Return, HasEffect, TypeOK, StatusInv
        <5>3. QED
          BY <3>1, <4>1, <5>1, <5>2, ShownStep
      <4>4. CASE TakeReply(i, calls[future[i]].reply) /\ future[i] # NoCall
                 /\ calls[future[i]].reply # NoReply
        <5>1. /\ ShownStatus(i)' \in {"SUCCESS", "FAILURE"}
              /\ ShownStatus(i)' = status'[i]
          BY <2>1, <4>4 DEF TakeReply, Return, ShownStatus, TypeOK
        <5>2. ShownStatus(i)' = "SUCCESS" => HasEffect(i)' = TRUE
          BY <2>1, <4>4, <5>1 DEF TakeReply, Return, HasEffect, TypeOK
        <5>3. HasEffect(i)' \in {TRUE, HasEffect(i)}
          BY <2>1, <3>4, <4>4
          DEF FinishExecute, TakeReply, Return, HasEffect, TypeOK, StatusInv
        <5>4. QED
          BY <3>1, <4>1, <5>1, <5>2, <5>3, ShownStep
      <4>5. QED
        BY <3>4, <4>2, <4>3, <4>4 DEF FinishExecute
    <3>5. CASE Halt(i)
      <4>1. /\ UNCHANGED <<status, output>>
            /\ pc'[i] = "idle" <=> pc[i] = "idle"
        BY <2>1, <3>5 DEF Halt, TypeOK
      <4>2. ShownStatus(i)' = ShownStatus(i) /\ HasEffect(i)' = HasEffect(i)
        BY <4>1 DEF ShownStatus, HasEffect, InProgress
      <4>3. QED
        BY <3>1, <4>2, ShownStep
    <3>6. CASE Reset(i)
      <4>1. ShownStatus(i)' = "NOT_STARTED" /\ HasEffect(i)' = FALSE
        BY <2>1, <3>6 DEF Reset, ShownStatus, HasEffect, InProgress, TypeOK
      <4>2. QED
        BY <3>1, <4>1, ShownStep
    <3>7. QED
      BY <2>3, <3>2, <3>3, <3>4, <3>5, <3>6 DEF InstructionStep
  <2>4. QED
    BY <2>1, <2>2, <2>3 DEF Next, RequestChanges, Serve, Complete, vars
<1>3. QED
  BY <1>1, <1>2, TypeCorrect, StatusInvariance, PTL DEF Spec, OneShotCall!OneShotSafety
=============================================================================
