------------------------ MODULE ChannelInstructions ------------------------
(***************************************************************************)
(* The instructions ChannelAccessRead, ChannelAccessWrite, PvAccessRead    *)
(* and PvAccessWrite, on process variables that appear, change and vanish  *)
(* on the network, over connections that EPICS' own threads maintain, and  *)
(* next to other instructions that change the workspace.                   *)
(*                                                                         *)
(* The threads meet between the steps of one ExecuteSingle: the InitHook   *)
(* of its first call, the start of ExecuteSingleImpl (the halt request and *)
(* the clock are read), and its accesses to m_pv and the workspace.        *)
(*                                                                         *)
(* The clock is a countdown for each instruction: left[i] = 0 stands for   *)
(* m_finish <= now.                                                        *)
(***************************************************************************)
EXTENDS Naturals

CONSTANTS Instruction,
          Kind,       \* [Instruction -> InstructionKind]
          Channel,    \* the process variables
          ChannelOf,  \* attribute "channel"
          Name,       \* the variables of the workspace
          NameOf,     \* attribute "outputVar" or "varName"
          Payload,    \* values
          HasVarName, \* is a value to write that of a variable, or does it come
                      \* from the attributes "type" and "value"?
          Literal,    \* what these parse to: NoValue if they do not
          NoValue,    \* the empty value
          NullPV,     \* m_pv is null
          NoFault,    \* the program has not failed
          Timeout     \* the attribute "timeout", in steps of the clock

CONSTANT HaltsDuringTick \* can Halt come from another thread, while
                         \* ExecuteSingle runs, or only between its calls?

InstructionKind == {"ca read", "ca write", "pva read", "pva write"}

ASSUME InstructionAssumption ==
  /\ Kind \in [Instruction -> InstructionKind]
  /\ ChannelOf \in [Instruction -> Channel]
  /\ NameOf \in [Instruction -> Name]
  /\ HasVarName \in [Instruction -> BOOLEAN]
  /\ Literal \in [Instruction -> Payload \cup {NoValue}]
  /\ NoValue \notin Payload
  /\ NullPV \notin [connected : BOOLEAN, value : Payload \cup {NoValue}]
  /\ NoFault \notin Instruction
  /\ Timeout \in Nat
  /\ HaltsDuringTick \in BOOLEAN

VARIABLES
  status,    \* [Instruction -> ExecutionStatus], as Instruction::GetStatus()
  halted,    \* [Instruction -> BOOLEAN], IsHaltRequested()
  pc,        \* [Instruction -> PC], where the running ExecuteSingle is
  pv,        \* [Instruction -> PV or NullPV], m_pv and what it has received
  left,      \* [Instruction -> 0..Timeout], m_finish minus the clock
  value,     \* [Instruction -> Value], m_value, or the local of that name
  late,      \* [Instruction -> BOOLEAN], m_finish <= now for the local "now"
  channel,   \* [Channel -> [up, value]], the process variables themselves
  variable,  \* [Name -> Value], the workspace
  moved,     \* [Instruction -> Value], what this execution wrote or put
  since,     \* [Instruction -> SUBSET Payload], what the source of the
             \* instruction has held since this execution began
  fault      \* the instruction that dereferenced a null m_pv, or NoFault

vars == <<status, halted, pc, pv, left, value, late, channel, variable,
          moved, since, fault>>
own == <<status, halted, pc, pv, left, value, late, moved, fault>>
world == <<channel, variable, since>>

Value == Payload \cup {NoValue}
PV == [connected : BOOLEAN, value : Value]
ExecutionStatus == {"NOT_STARTED", "RUNNING", "SUCCESS", "FAILURE"}
\* initialised: InitHook returned true; checked: no halt request was found;
\* interrupted: but one has come since.
PC == {"idle", "initialised", "checked", "interrupted"}

TypeOK ==
  /\ status \in [Instruction -> ExecutionStatus]
  /\ halted \in [Instruction -> BOOLEAN]
  /\ pc \in [Instruction -> PC]
  /\ pv \in [Instruction -> PV \cup {NullPV}]
  /\ left \in [Instruction -> 0..Timeout]
  /\ value \in [Instruction -> Value]
  /\ late \in [Instruction -> BOOLEAN]
  /\ channel \in [Channel -> [up : BOOLEAN, value : Payload]]
  /\ variable \in [Name -> Value]
  /\ moved \in [Instruction -> Value]
  /\ since \in [Instruction -> SUBSET Payload]
  /\ fault \in Instruction \cup {NoFault}

Init ==
  /\ status = [i \in Instruction |-> "NOT_STARTED"]
  /\ halted = [i \in Instruction |-> FALSE]
  /\ pc = [i \in Instruction |-> "idle"]
  /\ pv = [i \in Instruction |-> NullPV]
  /\ left = [i \in Instruction |-> 0]
  /\ value = [i \in Instruction |-> NoValue]
  /\ late = [i \in Instruction |-> FALSE]
  /\ channel \in [Channel -> [up : {FALSE}, value : Payload]]
  /\ variable \in [Name -> Value]
  /\ moved = [i \in Instruction |-> NoValue]
  /\ since = [i \in Instruction |-> {}]
  /\ fault = NoFault

IsRead(i) == Kind[i] \in {"ca read", "pva read"}
InProgress(i) == status[i] = "RUNNING" \/ pc[i] # "idle"

\* What an instruction reads from: a process variable while it is on the
\* network, a variable of the workspace, or its own attributes.
SourceValues(i, chan, var) ==
  IF IsRead(i)
  THEN {chan[c].value : c \in {c \in {ChannelOf[i]} : chan[c].up}}
  ELSE {IF HasVarName[i] THEN var[NameOf[i]] ELSE Literal[i]} \ {NoValue}

-----------------------------------------------------------------------------
(* ExecuteSingle                                                           *)

\* Mutant: a new PV starts with a default-constructed value.
NewPVMutant == [connected |-> FALSE, value |-> CHOOSE x \in Payload : TRUE]

NewPV == [connected |-> FALSE, value |-> NoValue]

\* ExecuteSingle returns with result s.
Return(i, s) ==
  /\ status' = [status EXCEPT ![i] = s]
  /\ pc' = [pc EXCEPT ![i] = "idle"]
  /\ late' = [late EXCEPT ![i] = FALSE]

\* The value to write; a variable that is not there counts as empty.
GetNewValue(i) == IF HasVarName[i] THEN variable[NameOf[i]] ELSE Literal[i]

\* The two instructions on ChannelAccess ask in their InitHook for a type:
\* that of the output variable, or that of the value to write.
KnowsChannelType(i) ==
  /\ Kind[i] = "ca read" => variable[NameOf[i]] # NoValue
  /\ Kind[i] = "ca write" => GetNewValue(i) # NoValue

\* The attributes "channel" and "timeout" may refer to variables, so that they
\* may not be readable.
Attributes == {"channel", "timeout"}

CanOpen(i, readable) == readable = Attributes /\ KnowsChannelType(i)

\* Mutant: the default timeout is added to the one of the attribute.
InitHookMutant(i, readable) ==
  /\ pc[i] = "idle" /\ status[i] = "NOT_STARTED"
  /\ CanOpen(i, readable)
  /\ pv' = [pv EXCEPT ![i] = NewPV]
  /\ left' = [left EXCEPT ![i] = Timeout + Timeout]
  /\ pc' = [pc EXCEPT ![i] = "initialised"]
  /\ UNCHANGED <<status, halted, value, late, channel, variable, moved, since, fault>>

\* ChannelAccessWrite takes its value here, if it gets that far.
FixedValue(i, readable) ==
  IF Kind[i] = "ca write" /\ "channel" \in readable THEN GetNewValue(i) ELSE value[i]

\* The deadline is set and the connection is opened.
OpenChannel(i) ==
  /\ left' = [left EXCEPT ![i] = Timeout]
  /\ pv' = [pv EXCEPT ![i] = NewPV]

InitHook(i, readable) ==
  /\ pc[i] = "idle" /\ status[i] = "NOT_STARTED"
  /\ value' = [value EXCEPT ![i] = FixedValue(i, readable)]
  /\ IF CanOpen(i, readable)
     THEN /\ OpenChannel(i)
          /\ pc' = [pc EXCEPT ![i] = "initialised"]
          /\ since' = [since EXCEPT ![i] = SourceValues(i, channel, variable)]
          /\ UNCHANGED <<status, late>>
     ELSE /\ Return(i, "FAILURE")
          /\ UNCHANGED <<pv, left, since>>
  /\ UNCHANGED <<halted, channel, variable, moved, fault>>

\* PvAccessWrite reads its value anew in every call, before it looks for a
\* halt request.
CurrentValue(i) == IF Kind[i] = "pva write" THEN GetNewValue(i) ELSE value[i]

\* The local value of PvAccessWrite ends with the call.
Kept(i) == IF Kind[i] = "pva write" THEN NoValue ELSE value[i]

\* Mutant: a halt request is not looked for.
BeginExecuteMutant(i) ==
  /\ pc[i] = "initialised" \/ (pc[i] = "idle" /\ status[i] = "RUNNING")
  /\ pc' = [pc EXCEPT ![i] = "checked"]
  /\ late' = [late EXCEPT ![i] = left[i] = 0]
  /\ value' = [value EXCEPT ![i] = CurrentValue(i)]
  /\ UNCHANGED <<status, halted, pv, left, channel, variable, moved, since, fault>>

BeginExecute(i) ==
  /\ \/ pc[i] = "initialised"
     \/ pc[i] = "idle" /\ status[i] = "RUNNING"
  /\ IF halted[i] \/ (Kind[i] = "pva write" /\ CurrentValue(i) = NoValue)
     THEN /\ Return(i, "FAILURE")
          /\ UNCHANGED value
     ELSE /\ pc' = [pc EXCEPT ![i] = "checked"]
          /\ late' = [late EXCEPT ![i] = left[i] = 0]
          /\ value' = [value EXCEPT ![i] = CurrentValue(i)]
          /\ UNCHANGED status
  /\ UNCHANGED <<halted, pv, left, channel, variable, moved, since, fault>>

\* A read needs a value, a write needs the connection.
Available(i) == pv[i].connected /\ (IsRead(i) => pv[i].value # NoValue)

\* Mutant: the deadline is not looked at.
WaitOrTimeOutMutant(i) ==
  /\ ~Available(i)
  /\ Return(i, "RUNNING")
  /\ UNCHANGED <<variable, moved>>

WaitOrTimeOut(i) ==
  /\ ~Available(i)
  /\ Return(i, IF late[i] THEN "FAILURE" ELSE "RUNNING")
  /\ UNCHANGED <<variable, moved>>

\* The conversion to the type of the variable, and SetValueFromAttributeName,
\* can each fail and then leave the variable as it was.
ReadChannel(i) ==
  /\ IsRead(i) /\ Available(i)
  /\ \/ /\ variable' = [variable EXCEPT ![NameOf[i]] = pv[i].value]
        /\ moved' = [moved EXCEPT ![i] = pv[i].value]
        /\ Return(i, "SUCCESS")
     \/ /\ Return(i, "FAILURE")
        /\ UNCHANGED <<variable, moved>>

\* m_pv->SetValue() can refuse: the type does not fit, or the connection has
\* been lost since it was tested.
WriteChannel(i) ==
  /\ ~IsRead(i) /\ Available(i)
  /\ \/ /\ moved' = [moved EXCEPT ![i] = value[i]]
        /\ Return(i, "SUCCESS")
     \/ /\ Return(i, "FAILURE")
        /\ UNCHANGED moved
  /\ UNCHANGED variable

\* The variable that one instruction writes may be another one's source.
Observe(chan, var) ==
  since' = [i \in Instruction |->
              IF InProgress(i) THEN since[i] \cup SourceValues(i, chan, var) ELSE since[i]]

FinishExecute(i) ==
  /\ pc[i] \in {"checked", "interrupted"}
  /\ IF pv[i] = NullPV
     THEN /\ fault' = i
          /\ UNCHANGED <<status, pc, late, value, variable, moved, since>>
     ELSE /\ WaitOrTimeOut(i) \/ ReadChannel(i) \/ WriteChannel(i)
          /\ value' = [value EXCEPT ![i] = Kept(i)]
          /\ Observe(channel, variable')
          /\ UNCHANGED fault
  /\ UNCHANGED <<halted, pv, left, channel>>

-----------------------------------------------------------------------------
(* Halt and Reset                                                          *)

\* Mutant: the connection is kept.
CloseChannelMutant(i) ==
  /\ left' = [left EXCEPT ![i] = 0]
  /\ UNCHANGED pv

CloseChannel(i) ==
  /\ pv' = [pv EXCEPT ![i] = NullPV]
  /\ left' = [left EXCEPT ![i] = 0]

HaltImpl(i) ==
  /\ CloseChannel(i)
  /\ value' = [value EXCEPT ![i] = IF Kind[i] = "ca write" THEN NoValue ELSE @]

Halt(i) ==
  /\ ~halted[i]
  /\ pc[i] = "idle" \/ HaltsDuringTick
  /\ halted' = [halted EXCEPT ![i] = TRUE]
  /\ pc' = [pc EXCEPT ![i] = IF @ = "checked" THEN "interrupted" ELSE @]
  /\ HaltImpl(i)
  /\ UNCHANGED <<status, late, channel, variable, moved, since, fault>>

ResetHook(i) == HaltImpl(i)

\* Instruction::Reset(), which the procedure calls between two executions.
Reset(i) ==
  /\ pc[i] = "idle"
  /\ status[i] # "NOT_STARTED" \/ halted[i]
  /\ ResetHook(i)
  /\ status' = [status EXCEPT ![i] = "NOT_STARTED"]
  /\ halted' = [halted EXCEPT ![i] = FALSE]
  /\ moved' = [moved EXCEPT ![i] = NoValue]
  /\ since' = [since EXCEPT ![i] = {}]
  /\ UNCHANGED <<pc, late, channel, variable, fault>>

-----------------------------------------------------------------------------
(* The network, the threads of EPICS, and the rest of the procedure        *)

ChannelAppears(c) ==
  /\ ~channel[c].up
  /\ channel' = [channel EXCEPT ![c].up = TRUE]
  /\ Observe(channel', variable)
  /\ UNCHANGED <<own, variable>>

ChannelVanishes(c) ==
  /\ channel[c].up
  /\ channel' = [channel EXCEPT ![c].up = FALSE]
  /\ UNCHANGED <<own, variable, since>>

ChannelChanges(c, x) ==
  /\ channel[c].value # x
  /\ channel' = [channel EXCEPT ![c].value = x]
  /\ Observe(channel', variable)
  /\ UNCHANGED <<own, variable>>

\* The value is received after the connection, and not with it; a lost
\* connection leaves the last value in place.
PVReceives(i, p) ==
  /\ pv[i] # NullPV
  /\ pv[i] # p
  /\ pv' = [pv EXCEPT ![i] = p]
  /\ UNCHANGED <<status, halted, pc, left, value, late, moved, fault, world>>

Connects(i) ==
  /\ channel[ChannelOf[i]].up
  /\ PVReceives(i, [pv[i] EXCEPT !.connected = TRUE])

Updates(i) ==
  /\ channel[ChannelOf[i]].up /\ pv[i].connected
  /\ PVReceives(i, [pv[i] EXCEPT !.value = channel[ChannelOf[i]].value])

Disconnects(i) ==
  /\ ~channel[ChannelOf[i]].up
  /\ PVReceives(i, [pv[i] EXCEPT !.connected = FALSE])

VariableChanges(n, x) ==
  /\ variable[n] # x
  /\ variable' = [variable EXCEPT ![n] = x]
  /\ Observe(channel, variable')
  /\ UNCHANGED <<own, channel>>

Clock ==
  /\ \E i \in Instruction : left[i] > 0
  /\ left' = [i \in Instruction |-> IF left[i] > 0 THEN left[i] - 1 ELSE 0]
  /\ UNCHANGED <<status, halted, pc, pv, value, late, moved, fault, world>>

-----------------------------------------------------------------------------
InstructionStep(i) ==
  \/ \E readable \in SUBSET Attributes : InitHook(i, readable)
  \/ BeginExecute(i) \/ FinishExecute(i)
  \/ Halt(i) \/ Reset(i)

PVStep(i) == pv[i] # NullPV /\ (Connects(i) \/ Updates(i) \/ Disconnects(i))

Environment ==
  \/ \E c \in Channel : \/ ChannelAppears(c) \/ ChannelVanishes(c)
                        \/ \E x \in Payload : ChannelChanges(c, x)
  \/ \E n \in Name, x \in Payload : VariableChanges(n, x)
  \/ Clock

Next ==
  /\ fault = NoFault
  /\ \/ \E i \in Instruction : InstructionStep(i) \/ PVStep(i)
     \/ Environment

\* A procedure keeps executing an instruction that is RUNNING, and a call of
\* ExecuteSingle returns; time passes.  Nothing is assumed of the network.
Fairness ==
  /\ \A i \in Instruction :
       WF_vars(fault = NoFault /\ (BeginExecute(i) \/ FinishExecute(i)))
  /\ WF_vars(fault = NoFault /\ Clock)

Spec == Init /\ [][Next]_vars /\ Fairness

-----------------------------------------------------------------------------
(* Properties                                                              *)

\* The value that an execution writes to its variable is one that the process
\* variable had since that execution began, and the value that it puts is one
\* that its own variable had: nothing survives from an earlier connection or
\* an earlier execution (m_pv and m_value across InitHook and HaltImpl).
MovesFreshValue ==
  [][\A i \in Instruction :
       moved'[i] # moved[i] /\ moved'[i] # NoValue => moved'[i] \in since[i]]_vars

\* An instruction that is not being executed holds no connection, no deadline
\* and no value, whatever ended its last execution.
IdleHoldsNothing ==
  \A i \in Instruction :
    status[i] = "NOT_STARTED" /\ ~InProgress(i) =>
      pv[i] = NullPV /\ left[i] = 0 /\ value[i] = NoValue

\* A null m_pv is dereferenced only if Halt came from another thread after
\* ExecuteSingleImpl had looked for it: never after a Reset, a failed InitHook
\* or a Halt between two calls.
NullPVOnlyByHalt == fault # NoFault => pc[fault] = "interrupted"

\* doc/overview.rst: the instructions "will close that connection immediately
\* afterwards".
ConnectionClosedAfterwards ==
  \A i \in Instruction : status[i] \in {"SUCCESS", "FAILURE"} => pv[i] = NullPV

\* What a one-shot call shows of an execution: that it runs, before the status
\* says so, and that it had its effect.
ShownStatus(i) ==
  IF status[i] = "NOT_STARTED" /\ InProgress(i) THEN "RUNNING" ELSE status[i]

HasEffect(i) == moved[i] # NoValue

\* Each execution is a one-shot call: it ends, at the latest after its
\* timeout, and writes or puts its value in the step that ends it with SUCCESS.
Call == INSTANCE OneShotInstruction WITH
  FailsWithEffect <- FALSE,
  status <- [i \in Instruction |-> ShownStatus(i)],
  effect <- [i \in Instruction |-> HasEffect(i)]

OneShot == Call!OneShotSpec

-----------------------------------------------------------------------------
(* The inductive invariant behind the safety properties                    *)

\* A call that found no halt request has none until one interrupts it, and
\* whoever executes without one has a connection.
HoldsConnection(i) ==
  /\ pc[i] = "checked" => ~halted[i]
  /\ InProgress(i) /\ ~halted[i] => pv[i] # NullPV

Released(i) ==
  status[i] = "NOT_STARTED" /\ ~InProgress(i) =>
    /\ pv[i] = NullPV
    /\ left[i] = 0
    /\ moved[i] = NoValue
    /\ Kind[i] = "ca write" => value[i] = NoValue

\* Only ChannelAccessWrite has a member for its value.
KeepsNoValue(i) ==
  /\ IsRead(i) => value[i] = NoValue
  /\ Kind[i] = "pva write" /\ pc[i] \in {"idle", "initialised"} => value[i] = NoValue

\* Nothing empty is put: a write has its value before it waits for the connection.
HasValueToPut(i) ==
  /\ ~IsRead(i) /\ pc[i] = "checked" => value[i] # NoValue
  /\ Kind[i] = "ca write" /\ InProgress(i) /\ ~halted[i] => value[i] # NoValue

\* Whatever the source holds, and whatever was taken from it, is in since[i].
HoldsFreshValue(i) ==
  InProgress(i) =>
    /\ SourceValues(i, channel, variable) \subseteq since[i]
    /\ IsRead(i) /\ pv[i] # NullPV => pv[i].value \in since[i] \cup {NoValue}
    /\ ~IsRead(i) => value[i] \in since[i] \cup {NoValue}
    /\ moved[i] = NoValue

InstructionInv(i) ==
  /\ HoldsConnection(i)
  /\ Released(i)
  /\ KeepsNoValue(i)
  /\ HasValueToPut(i)
  /\ HoldsFreshValue(i)

\* The conjunction that every step preserves.
ExecutionInv ==
  /\ \A i \in Instruction : InstructionInv(i)
  /\ NullPVOnlyByHalt
=============================================================================
