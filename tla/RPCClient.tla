----------------------------- MODULE RPCClient -----------------------------
(***************************************************************************)
(* The RPCClient instruction.  Its InitHook hands a remote procedure call  *)
(* to a detached thread and keeps the future of the reply.  A Halt drops   *)
(* that future but not the thread: the calls of earlier executions go on   *)
(* while a later execution waits for its own.                              *)
(***************************************************************************)
EXTENDS Naturals, FiniteSets

CONSTANTS Instruction,
          CallId,       \* bound: the detached threads that exist at a time
          HasOutput,    \* [Instruction -> BOOLEAN], attribute "outputVar"
          Payload,      \* requests; the value in a server's reply echoes it
          NoValue,      \* the empty value
          NoCall,       \* no call, an invalid future
          NoReply,      \* the future is not ready
          NoFault       \* the program has not failed

CONSTANT HaltsDuringTick \* can Halt come from another thread, while
                         \* ExecuteSingle runs, or only between its calls?

\* What a reply says of the call: its result is Success, or an error of the
\* server or of the client (time-out, no server), or it is not a reply at all.
ReplyResult == {"success", "error", "malformed"}

Value == Payload \cup {NoValue}
Reply == [result : ReplyResult, value : Value]

Call == [owner   : Instruction,
         request : Payload,
         current : BOOLEAN,  \* the execution that made it has not been reset
         served  : BOOLEAN,  \* the server has executed the request
         reply   : Reply \cup {NoReply}]

ASSUME RPCAssumption ==
  /\ HasOutput \in [Instruction -> BOOLEAN]
  /\ NoValue \notin Payload
  /\ NoCall \notin CallId /\ NoCall \notin Call
  /\ NoReply \notin Reply
  /\ NoFault \notin Instruction
  /\ HaltsDuringTick \in BOOLEAN

VARIABLES
  status,   \* [Instruction -> ExecutionStatus], as Instruction::GetStatus()
  halted,   \* [Instruction -> BOOLEAN], IsHaltRequested()
  pc,       \* [Instruction -> PC], where the running ExecuteSingle is
  future,   \* [Instruction -> CallId or NoCall], m_future
  calls,    \* [CallId -> Call or NoCall], the threads and their shared states
  served,   \* [Instruction -> Nat], how often the server has executed the
            \* request of this execution
  request,  \* [Instruction -> Value], the input of the instruction
  output,   \* [Instruction -> Reply or NoReply], the output variable as this
            \* execution wrote it
  fault     \* the instruction that used an invalid future, or NoFault

vars == <<status, halted, pc, future, calls, served, request, output, fault>>

ExecutionStatus == {"NOT_STARTED", "RUNNING", "SUCCESS", "FAILURE"}
\* initialised: InitHook returned true; checked: no halt request was found;
\* interrupted: but one has come since.
PC == {"idle", "initialised", "checked", "interrupted"}

TypeOK ==
  /\ status \in [Instruction -> ExecutionStatus]
  /\ halted \in [Instruction -> BOOLEAN]
  /\ pc \in [Instruction -> PC]
  /\ future \in [Instruction -> CallId \cup {NoCall}]
  /\ calls \in [CallId -> Call \cup {NoCall}]
  /\ served \in [Instruction -> Nat]
  /\ request \in [Instruction -> Value]
  /\ output \in [Instruction -> Reply \cup {NoReply}]
  /\ fault \in Instruction \cup {NoFault}

Init ==
  /\ status = [i \in Instruction |-> "NOT_STARTED"]
  /\ halted = [i \in Instruction |-> FALSE]
  /\ pc = [i \in Instruction |-> "idle"]
  /\ future = [i \in Instruction |-> NoCall]
  /\ calls = [k \in CallId |-> NoCall]
  /\ served = [i \in Instruction |-> 0]
  /\ request \in [Instruction -> Value]
  /\ output = [i \in Instruction |-> NoReply]
  /\ fault = NoFault

InProgress(i) == status[i] = "RUNNING" \/ pc[i] # "idle"

-----------------------------------------------------------------------------
(* ExecuteSingle                                                           *)

Return(i, s) ==
  /\ status' = [status EXCEPT ![i] = s]
  /\ pc' = [pc EXCEPT ![i] = "idle"]

\* The value of the "request" variable at this time, or the one that "type" and
\* "value" give; one that cannot be read is the empty value.
GetRequest(i) == request[i]

NewCall(i) == [owner |-> i, request |-> GetRequest(i), current |-> TRUE,
               served |-> FALSE, reply |-> NoReply]

\* The thread starts; m_future is the future of its packaged task.
StartCall(i, k) ==
  /\ calls[k] = NoCall
  /\ calls' = [calls EXCEPT ![k] = NewCall(i)]
  /\ future' = [future EXCEPT ![i] = k]

\* An empty request, a "service" or "timeout" that cannot be read (they may
\* refer to variables) and a negative timeout each make it fail: whatever the
\* request, that can happen.
InitHook(i) ==
  /\ pc[i] = "idle" /\ status[i] = "NOT_STARTED"
  /\ \/ /\ GetRequest(i) # NoValue
        /\ \E k \in CallId : StartCall(i, k)
        /\ pc' = [pc EXCEPT ![i] = "initialised"]
        /\ UNCHANGED status
     \/ /\ Return(i, "FAILURE")
        /\ UNCHANGED <<calls, future>>
  /\ UNCHANGED <<halted, served, request, output, fault>>

\* Mutant: a halt request is not looked for.
BeginExecuteMutant(i) ==
  /\ pc[i] = "initialised" \/ (pc[i] = "idle" /\ status[i] = "RUNNING")
  /\ pc' = [pc EXCEPT ![i] = "checked"]
  /\ UNCHANGED <<status, halted, future, calls, served, request, output, fault>>

BeginExecute(i) ==
  /\ \/ pc[i] = "initialised"
     \/ pc[i] = "idle" /\ status[i] = "RUNNING"
  /\ IF halted[i]
     THEN Return(i, "FAILURE")
     ELSE /\ pc' = [pc EXCEPT ![i] = "checked"]
          /\ UNCHANGED status
  /\ UNCHANGED <<halted, future, calls, served, request, output, fault>>

\* Mutant: every well-formed reply is a success.
IsSuccessfulReplyMutant(reply) == reply.result # "malformed"

IsSuccessfulReply(reply) == reply.result = "success"

\* m_future becomes invalid; the state that it shared with the thread goes
\* when the thread has ended too.
DropFuture(i) ==
  /\ future' = [future EXCEPT ![i] = NoCall]
  /\ calls' = [k \in CallId |->
                 IF k = future[i] /\ calls[k].reply # NoReply THEN NoCall ELSE calls[k]]

\* Mutants: only the value of the reply is written; the instruction waits for
\* a better reply.
TakeReplyValueOnly(i, reply) ==
  /\ Return(i, IF IsSuccessfulReply(reply) THEN "SUCCESS" ELSE "FAILURE")
  /\ output' = [output EXCEPT ![i] = reply.value]

TakeReplyWaits(i, reply) ==
  /\ Return(i, IF IsSuccessfulReply(reply) THEN "SUCCESS" ELSE "RUNNING")
  /\ output' = [output EXCEPT ![i] = reply]

\* The reply is written to the output variable before it is looked at.
TakeReply(i, reply) ==
  \/ /\ HasOutput[i]
     /\ output' = [output EXCEPT ![i] = reply]
     /\ Return(i, IF IsSuccessfulReply(reply) THEN "SUCCESS" ELSE "FAILURE")
  \/ /\ HasOutput[i]              \* SetValueFromAttributeName failed
     /\ Return(i, "FAILURE")
     /\ UNCHANGED output
  \/ /\ ~HasOutput[i]
     /\ Return(i, IF IsSuccessfulReply(reply) THEN "SUCCESS" ELSE "FAILURE")
     /\ UNCHANGED output

FinishExecute(i) ==
  /\ pc[i] \in {"checked", "interrupted"}
  /\ LET k == future[i] IN
     IF k = NoCall
     THEN /\ fault' = i
          /\ UNCHANGED <<status, pc, future, calls, output>>
     ELSE /\ IF calls[k].reply = NoReply
             THEN /\ Return(i, "RUNNING")
                  /\ UNCHANGED <<future, calls, output>>
             ELSE /\ TakeReply(i, calls[k].reply)
                  /\ DropFuture(i)
          /\ UNCHANGED fault
  /\ UNCHANGED <<halted, served, request>>

-----------------------------------------------------------------------------
(* Halt and Reset                                                          *)

HaltImpl(i) == DropFuture(i)

Halt(i) ==
  /\ ~halted[i]
  /\ pc[i] = "idle" \/ HaltsDuringTick
  /\ halted' = [halted EXCEPT ![i] = TRUE]
  /\ pc' = [pc EXCEPT ![i] = IF @ = "checked" THEN "interrupted" ELSE @]
  /\ HaltImpl(i)
  /\ UNCHANGED <<status, served, request, output, fault>>

\* Mutant: the future is kept.
ResetHookMutant(i) ==
  /\ calls' = [k \in CallId |->
                 IF calls[k] = NoCall \/ calls[k].owner # i THEN calls[k]
                 ELSE [calls[k] EXCEPT !.current = FALSE]]
  /\ UNCHANGED future

ResetHook(i) ==
  /\ future' = [future EXCEPT ![i] = NoCall]
  /\ calls' = [k \in CallId |->
                 IF calls[k] = NoCall \/ calls[k].owner # i THEN calls[k]
                 ELSE IF k = future[i] /\ calls[k].reply # NoReply THEN NoCall
                 ELSE [calls[k] EXCEPT !.current = FALSE]]

\* Instruction::Reset(), which the procedure calls between two executions.
Reset(i) ==
  /\ pc[i] = "idle"
  /\ status[i] # "NOT_STARTED" \/ halted[i]
  /\ ResetHook(i)
  /\ status' = [status EXCEPT ![i] = "NOT_STARTED"]
  /\ halted' = [halted EXCEPT ![i] = FALSE]
  /\ served' = [served EXCEPT ![i] = 0]
  /\ output' = [output EXCEPT ![i] = NoReply]
  /\ UNCHANGED <<pc, request, fault>>

-----------------------------------------------------------------------------
(* The detached threads, the server, and the rest of the procedure         *)

Pending(k) == calls[k] # NoCall /\ calls[k].reply = NoReply

\* The server executes the request, also of a call that nobody waits for, and
\* also after the client has timed out and the reply is an error already.
Serve(k) ==
  /\ calls[k] # NoCall /\ ~calls[k].served
  /\ calls' = [calls EXCEPT ![k].served = TRUE]
  /\ served' = IF calls[k].current
               THEN [served EXCEPT ![calls[k].owner] = @ + 1] ELSE served
  /\ UNCHANGED <<status, halted, pc, future, request, output, fault>>

\* What rpc_client(request) can return: the client's own error after the
\* time-out, whether or not the request was executed, or the server's answer.
Replies(call) ==
  {[result |-> "error", value |-> NoValue]} \cup
    IF call.served
    THEN {[result |-> "success", value |-> call.request],
          [result |-> "malformed", value |-> NoValue]}
    ELSE {}

Complete(k) ==
  /\ Pending(k)
  /\ \E r \in Replies(calls[k]) :
       calls' = [calls EXCEPT ![k] =
                   IF k \in {future[i] : i \in Instruction}
                   THEN [@ EXCEPT !.reply = r] ELSE NoCall]
  /\ UNCHANGED <<status, halted, pc, future, served, request, output, fault>>

RequestChanges(i, x) ==
  /\ request[i] # x
  /\ request' = [request EXCEPT ![i] = x]
  /\ UNCHANGED <<status, halted, pc, future, calls, served, output, fault>>

-----------------------------------------------------------------------------
InstructionStep(i) ==
  InitHook(i) \/ BeginExecute(i) \/ FinishExecute(i) \/ Halt(i) \/ Reset(i)

Next ==
  /\ fault = NoFault
  /\ \/ \E i \in Instruction :
          InstructionStep(i) \/ \E x \in Value : RequestChanges(i, x)
     \/ \E k \in CallId : Serve(k) \/ Complete(k)

\* A procedure keeps executing an instruction that is RUNNING, and a call of
\* ExecuteSingle returns; a thread ends, at the latest after its time-out.
Fairness ==
  /\ \A i \in Instruction :
       WF_vars(fault = NoFault /\ (BeginExecute(i) \/ FinishExecute(i)))
  /\ \A k \in CallId : WF_vars(fault = NoFault /\ Complete(k))

Spec == Init /\ [][Next]_vars /\ Fairness

-----------------------------------------------------------------------------
(* Properties                                                              *)

\* The future that an instruction holds is that of a call which its current
\* execution made: a reply that arrives late, for an execution that was halted
\* and reset, is never taken for the reply of the next one.
WaitsForItsOwnCall ==
  \A i \in Instruction :
    future[i] # NoCall => /\ calls[future[i]] # NoCall
                          /\ calls[future[i]].owner = i
                          /\ calls[future[i]].current

\* The server executes the request of an execution at most once, and exactly
\* once if the instruction reports SUCCESS: neither a time-out nor a reply that
\* is not one counts as success, and nothing is sent twice.
ServedOncePerExecution ==
  \A i \in Instruction :
    /\ served[i] <= 1
    /\ status[i] = "SUCCESS" => served[i] = 1

\* An invalid future is used only if Halt came from another thread after
\* ExecuteSingleImpl had looked for it: never twice after one call, and never
\* after a Reset, a failed InitHook or a Halt between two calls.
InvalidFutureOnlyByHalt == fault # NoFault => pc[fault] = "interrupted"

\* doc/instructions.rst: "The reply of the RPC call, if successful, is written
\* to a workspace variable."
OnlySuccessIsWritten ==
  \A i \in Instruction : output[i] # NoReply => IsSuccessfulReply(output[i])

\* What a one-shot call shows of an execution: that it runs, before the status
\* says so, and that it had its effect.
ShownStatus(i) ==
  IF status[i] = "NOT_STARTED" /\ InProgress(i) THEN "RUNNING" ELSE status[i]

HasEffect(i) == IF HasOutput[i] THEN output[i] # NoReply ELSE status[i] = "SUCCESS"

\* Each execution is a one-shot call, which may write its reply and still fail;
\* it ends, unless a Halt in the middle of a call ends the program before.
OneShotCall == INSTANCE OneShotInstruction WITH
  FailsWithEffect <- TRUE,
  status <- [i \in Instruction |-> ShownStatus(i)],
  effect <- [i \in Instruction |-> HasEffect(i)]

OneShot ==
  /\ OneShotCall!OneShotSafety
  /\ [](fault = NoFault) => OneShotCall!OneShotLiveness

-----------------------------------------------------------------------------
(* The inductive invariant behind the safety properties                    *)

IsCurrentCall(i, k) == calls[k] # NoCall /\ calls[k].owner = i /\ calls[k].current

\* A call that found no halt request has none until one interrupts it, and
\* whoever executes without one waits for a call that it made.
HoldsFuture(i) ==
  /\ pc[i] = "checked" => ~halted[i]
  /\ InProgress(i) /\ ~halted[i] => future[i] # NoCall
  /\ future[i] # NoCall => IsCurrentCall(i, future[i])

\* An execution makes one call, and served[i] says whether it was executed.
CallsOnce(i) ==
  /\ \A k, l \in CallId : IsCurrentCall(i, k) /\ IsCurrentCall(i, l) => k = l
  /\ \A k \in CallId :
       IsCurrentCall(i, k) => served[i] = IF calls[k].served THEN 1 ELSE 0
  /\ served[i] \in {0, 1}
  /\ status[i] = "SUCCESS" => served[i] = 1
  /\ status[i] = "NOT_STARTED" /\ ~InProgress(i) =>
       served[i] = 0 /\ \A k \in CallId : ~IsCurrentCall(i, k)

\* Only a call that the server has executed has a successful reply.
RepliesAreServed(k) ==
  calls[k] # NoCall /\ calls[k].reply # NoReply =>
    (IsSuccessfulReply(calls[k].reply) => calls[k].served)

\* The conjunction that every step preserves.
CallInv ==
  /\ \A i \in Instruction : HoldsFuture(i) /\ CallsOnce(i)
  /\ \A k \in CallId : RepliesAreServed(k)
  /\ InvalidFutureOnlyByHalt
=============================================================================
