---------------------- MODULE ChannelInstructionsProofs ----------------------
(***************************************************************************)
(* Proofs about ChannelInstructions, for any instructions, channels,       *)
(* variables, values and time-out.                                         *)
(***************************************************************************)
EXTENDS ChannelInstructions, TLAPS

-----------------------------------------------------------------------------
(* Type correctness                                                        *)

LEMMA DeadlineRange == Timeout \in Nat /\ 0 \in 0..Timeout /\ Timeout \in 0..Timeout
BY InstructionAssumption

LEMMA InitTypeOK == Init => TypeOK
<1> SUFFICES ASSUME Init PROVE TypeOK
  OBVIOUS
<1>1. left \in [Instruction -> 0..Timeout]
  BY DeadlineRange DEF Init
<1>2. channel \in [Channel -> [up : BOOLEAN, value : Payload]]
  BY DEF Init
<1>3. /\ pv \in [Instruction -> PV \cup {NullPV}]
      /\ value \in [Instruction -> Value]
      /\ moved \in [Instruction -> Value]
      /\ variable \in [Name -> Value]
      /\ since \in [Instruction -> SUBSET Payload]
  BY DEF Init, Value
<1>4. /\ status \in [Instruction -> ExecutionStatus]
      /\ halted \in [Instruction -> BOOLEAN]
      /\ pc \in [Instruction -> PC]
      /\ late \in [Instruction -> BOOLEAN]
      /\ fault \in Instruction \cup {NoFault}
  BY DEF Init, ExecutionStatus, PC
<1> QED
  BY <1>1, <1>2, <1>3, <1>4 DEF TypeOK

LEMMA SourceValuesType ==
  ASSUME NEW i \in Instruction,
         NEW chan \in [Channel -> [up : BOOLEAN, value : Payload]],
         NEW var \in [Name -> Value]
  PROVE  SourceValues(i, chan, var) \in SUBSET Payload
BY InstructionAssumption DEF SourceValues, Value

\* What a step of the world leaves of since is a set of payloads.
LEMMA ObserveType ==
  ASSUME TypeOK,
         NEW chan \in [Channel -> [up : BOOLEAN, value : Payload]],
         NEW var \in [Name -> Value],
         Observe(chan, var)
  PROVE  since' \in [Instruction -> SUBSET Payload]
BY SourceValuesType DEF Observe, TypeOK

LEMMA InitHookType ==
  ASSUME TypeOK, NEW i \in Instruction,
         NEW readable \in SUBSET Attributes, InitHook(i, readable)
  PROVE  TypeOK'
<1>1. /\ value' = [value EXCEPT ![i] = FixedValue(i, readable)]
      /\ IF CanOpen(i, readable)
         THEN /\ OpenChannel(i)
              /\ pc' = [pc EXCEPT ![i] = "initialised"]
              /\ since' = [since EXCEPT ![i] = SourceValues(i, channel, variable)]
              /\ UNCHANGED <<status, late>>
         ELSE /\ Return(i, "FAILURE")
              /\ UNCHANGED <<pv, left, since>>
  BY DEF InitHook
<1>2. /\ FixedValue(i, readable) \in Value
      /\ SourceValues(i, channel, variable) \in SUBSET Payload
  <2>1. FixedValue(i, readable) \in Value
    BY InstructionAssumption DEF TypeOK, FixedValue, GetNewValue, Value
  <2>2. SourceValues(i, channel, variable) \in SUBSET Payload
    BY SourceValuesType DEF TypeOK
  <2> QED
    BY <2>1, <2>2
<1>3. UNCHANGED <<halted, channel, variable, moved, fault>>
  BY DEF InitHook
<1>4. value' \in [Instruction -> Value]
  BY <1>1, <1>2 DEF TypeOK
<1>5. CASE CanOpen(i, readable)
  <2>1. NewPV \in PV
    BY DEF NewPV, PV, Value
  <2>2. left' \in [Instruction -> 0..Timeout]
    BY <1>1, <1>5, DeadlineRange DEF TypeOK, OpenChannel
  <2>3. pv' \in [Instruction -> PV \cup {NullPV}]
    BY <1>1, <1>5, <2>1 DEF TypeOK, OpenChannel
  <2> QED
    BY <1>1, <1>2, <1>3, <1>4, <1>5, <2>2, <2>3 DEF TypeOK, PC
<1>6. CASE ~CanOpen(i, readable)
  BY <1>1, <1>3, <1>4, <1>6 DEF TypeOK, Return, PC, ExecutionStatus
<1> QED
  BY <1>5, <1>6

LEMMA BeginExecuteType ==
  ASSUME TypeOK, NEW i \in Instruction, BeginExecute(i)
  PROVE  TypeOK'
<1>1. CurrentValue(i) \in Value
  BY InstructionAssumption DEF TypeOK, CurrentValue, GetNewValue, Value
<1>2. CASE halted[i] \/ (Kind[i] = "pva write" /\ CurrentValue(i) = NoValue)
  BY <1>2 DEF BeginExecute, TypeOK, Return, PC, ExecutionStatus
<1>3. CASE ~(halted[i] \/ (Kind[i] = "pva write" /\ CurrentValue(i) = NoValue))
  <2>1. /\ pc' = [pc EXCEPT ![i] = "checked"]
        /\ late' = [late EXCEPT ![i] = left[i] = 0]
        /\ value' = [value EXCEPT ![i] = CurrentValue(i)]
        /\ UNCHANGED <<status, halted, pv, left, channel, variable, moved, since, fault>>
    BY <1>3 DEF BeginExecute
  <2>2. pc' \in [Instruction -> PC]
    BY <2>1 DEF TypeOK, PC
  <2>3. value' \in [Instruction -> Value] /\ late' \in [Instruction -> BOOLEAN]
    BY <1>1, <2>1 DEF TypeOK
  <2> QED
    BY <2>1, <2>2, <2>3 DEF TypeOK
<1> QED
  BY <1>2, <1>3

\* What the end of a call does to the variables that it may touch.
LEMMA OutcomeType ==
  ASSUME TypeOK, NEW i \in Instruction, pv[i] # NullPV,
         WaitOrTimeOut(i) \/ ReadChannel(i) \/ WriteChannel(i)
  PROVE  /\ status' \in [Instruction -> ExecutionStatus]
         /\ pc' \in [Instruction -> PC]
         /\ late' \in [Instruction -> BOOLEAN]
         /\ variable' \in [Name -> Value]
         /\ moved' \in [Instruction -> Value]
<1>1. pv[i].value \in Value /\ value[i] \in Value /\ NameOf[i] \in Name
  BY InstructionAssumption DEF TypeOK, PV
<1>2. CASE WaitOrTimeOut(i)
  BY <1>2 DEF TypeOK, WaitOrTimeOut, Return, PC, ExecutionStatus
<1>3. CASE ReadChannel(i)
  BY <1>1, <1>3 DEF TypeOK, ReadChannel, Return, PC, ExecutionStatus
<1>4. CASE WriteChannel(i)
  BY <1>1, <1>4 DEF TypeOK, WriteChannel, Return, PC, ExecutionStatus
<1> QED
  BY <1>2, <1>3, <1>4

LEMMA FinishExecuteType ==
  ASSUME TypeOK, NEW i \in Instruction, FinishExecute(i)
  PROVE  TypeOK'
<1>1. CASE pv[i] = NullPV
  BY <1>1 DEF FinishExecute, TypeOK
<1>2. CASE pv[i] # NullPV
  <2>1. /\ WaitOrTimeOut(i) \/ ReadChannel(i) \/ WriteChannel(i)
        /\ value' = [value EXCEPT ![i] = Kept(i)]
        /\ Observe(channel, variable')
        /\ UNCHANGED <<halted, pv, left, channel, fault>>
    BY <1>2 DEF FinishExecute
  <2>2. /\ status' \in [Instruction -> ExecutionStatus]
        /\ pc' \in [Instruction -> PC]
        /\ late' \in [Instruction -> BOOLEAN]
        /\ variable' \in [Name -> Value]
        /\ moved' \in [Instruction -> Value]
    BY <1>2, <2>1, OutcomeType
  <2>3. since' \in [Instruction -> SUBSET Payload]
    <3>1. channel \in [Channel -> [up : BOOLEAN, value : Payload]]
      BY DEF TypeOK
    <3> QED
      BY <2>1, <2>2, <3>1, ObserveType
  <2>4. value' \in [Instruction -> Value]
    BY <2>1 DEF TypeOK, Kept, Value
  <2> QED
    BY <2>1, <2>2, <2>3, <2>4 DEF TypeOK
<1> QED
  BY <1>1, <1>2

LEMMA HaltImplType ==
  ASSUME TypeOK, NEW i \in Instruction, HaltImpl(i)
  PROVE  /\ pv' \in [Instruction -> PV \cup {NullPV}]
         /\ left' \in [Instruction -> 0..Timeout]
         /\ value' \in [Instruction -> Value]
<1>1. left' \in [Instruction -> 0..Timeout]
  BY DeadlineRange DEF TypeOK, HaltImpl, CloseChannel
<1>2. pv' \in [Instruction -> PV \cup {NullPV}]
  BY DEF TypeOK, HaltImpl, CloseChannel
<1>3. value' \in [Instruction -> Value]
  BY DEF TypeOK, HaltImpl, CloseChannel, Value
<1> QED
  BY <1>1, <1>2, <1>3

LEMMA HaltType ==
  ASSUME TypeOK, NEW i \in Instruction, Halt(i)
  PROVE  TypeOK'
BY HaltImplType DEF Halt, TypeOK, PC

LEMMA ResetType ==
  ASSUME TypeOK, NEW i \in Instruction, Reset(i)
  PROVE  TypeOK'
BY HaltImplType DEF Reset, ResetHook, TypeOK, ExecutionStatus, Value

LEMMA PVStepType ==
  ASSUME TypeOK, NEW i \in Instruction, PVStep(i)
  PROVE  TypeOK'
<1>1. pv[i] \in PV /\ channel[ChannelOf[i]] \in [up : BOOLEAN, value : Payload]
  BY InstructionAssumption DEF TypeOK, PVStep
<1>2. \E p \in PV : PVReceives(i, p)
  BY <1>1 DEF PVStep, Connects, Updates, Disconnects, PV, Value
<1> QED
  BY <1>2 DEF PVReceives, TypeOK, world

LEMMA EnvironmentType ==
  ASSUME TypeOK, Environment
  PROVE  TypeOK'
<1>1. ASSUME NEW c \in Channel, ChannelAppears(c)
      PROVE  TypeOK'
  <2>1. channel' \in [Channel -> [up : BOOLEAN, value : Payload]]
    BY <1>1 DEF ChannelAppears, TypeOK
  <2>2. since' \in [Instruction -> SUBSET Payload]
    BY <1>1, <2>1, ObserveType DEF ChannelAppears, TypeOK
  <2> QED
    BY <1>1, <2>1, <2>2 DEF ChannelAppears, TypeOK, own
<1>2. ASSUME NEW c \in Channel, ChannelVanishes(c)
      PROVE  TypeOK'
  BY <1>2 DEF ChannelVanishes, TypeOK, own
<1>3. ASSUME NEW c \in Channel, NEW x \in Payload, ChannelChanges(c, x)
      PROVE  TypeOK'
  <2>1. channel' \in [Channel -> [up : BOOLEAN, value : Payload]]
    BY <1>3 DEF ChannelChanges, TypeOK
  <2>2. since' \in [Instruction -> SUBSET Payload]
    BY <1>3, <2>1, ObserveType DEF ChannelChanges, TypeOK
  <2> QED
    BY <1>3, <2>1, <2>2 DEF ChannelChanges, TypeOK, own
<1>4. ASSUME NEW n \in Name, NEW x \in Payload, VariableChanges(n, x)
      PROVE  TypeOK'
  <2>1. variable' \in [Name -> Value]
    BY <1>4 DEF VariableChanges, TypeOK, Value
  <2>2. since' \in [Instruction -> SUBSET Payload]
    BY <1>4, <2>1, ObserveType DEF VariableChanges, TypeOK
  <2> QED
    BY <1>4, <2>1, <2>2 DEF VariableChanges, TypeOK, own
<1>5. CASE Clock
  <2>1. left' \in [Instruction -> 0..Timeout]
    BY <1>5, InstructionAssumption DEF Clock, TypeOK
  <2> QED
    BY <1>5, <2>1 DEF Clock, TypeOK, world
<1> QED
  BY <1>1, <1>2, <1>3, <1>4, <1>5 DEF Environment

\* Every reachable state is well typed.
THEOREM TypeCorrect == Spec => []TypeOK
<1>1. TypeOK /\ [Next]_vars => TypeOK'
  <2> SUFFICES ASSUME TypeOK, [Next]_vars PROVE TypeOK'
    OBVIOUS
  <2>1. CASE UNCHANGED vars
    BY <2>1 DEF vars, TypeOK
  <2>2. ASSUME NEW i \in Instruction, InstructionStep(i) PROVE TypeOK'
    BY <2>2, InitHookType, BeginExecuteType, FinishExecuteType, HaltType, ResetType
       DEF InstructionStep
  <2> QED
    BY <2>1, <2>2, PVStepType, EnvironmentType DEF Next
<1> QED
  BY <1>1, InitTypeOK, PTL DEF Spec

-----------------------------------------------------------------------------
(* The inductive invariant                                                 *)

\* What an instruction holds stays right as long as nobody touches it and the
\* world is observed.
LEMMA UntouchedInv ==
  ASSUME NEW j \in Instruction, InstructionInv(j),
         status'[j] = status[j], halted'[j] = halted[j], pc'[j] = pc[j],
         pv'[j] = pv[j], value'[j] = value[j], moved'[j] = moved[j],
         left[j] = 0 => left'[j] = 0,
         InProgress(j) => /\ since[j] \subseteq since'[j]
                          /\ SourceValues(j, channel', variable') \subseteq since'[j]
  PROVE  InstructionInv(j)'
<1>1. SourceValues(j, channel, variable)' = SourceValues(j, channel', variable')
  BY DEF SourceValues, IsRead
<1>2. InProgress(j)' <=> InProgress(j)
  BY DEF InProgress
<1>3. HoldsConnection(j)'
  BY <1>2 DEF InstructionInv, HoldsConnection
<1>4. Released(j)'
  BY <1>2 DEF InstructionInv, Released
<1>5. KeepsNoValue(j)'
  BY DEF InstructionInv, KeepsNoValue, IsRead
<1>6. HoldsFreshValue(j)'
  BY <1>1, <1>2 DEF InstructionInv, HoldsFreshValue, IsRead
<1>7. HasValueToPut(j)'
  BY <1>2 DEF InstructionInv, HasValueToPut, IsRead
<1> QED
  BY <1>3, <1>4, <1>5, <1>6, <1>7 DEF InstructionInv

\* Observing a world that is about to be adds it to since.
LEMMA ObserveEffect ==
  ASSUME TypeOK, NEW chan, NEW var, Observe(chan, var),
         NEW j \in Instruction
  PROVE  InProgress(j) => /\ since[j] \subseteq since'[j]
                          /\ SourceValues(j, chan, var) \subseteq since'[j]
BY DEF Observe, TypeOK

LEMMA NewPVIsNotNull == NewPV # NullPV
<1>1. NewPV \in PV
  BY DEF NewPV, PV, Value
<1> QED
  BY <1>1, InstructionAssumption DEF PV, Value

LEMMA KindOfWrite ==
  ASSUME NEW i \in Instruction, ~IsRead(i)
  PROVE  Kind[i] \in {"ca write", "pva write"}
BY InstructionAssumption DEF IsRead, InstructionKind

LEMMA InitHookInv ==
  ASSUME TypeOK, ExecutionInv, fault = NoFault, NEW i \in Instruction,
         NEW readable \in SUBSET Attributes, InitHook(i, readable)
  PROVE  ExecutionInv'
<1>1. /\ value' = [value EXCEPT ![i] = FixedValue(i, readable)]
      /\ IF CanOpen(i, readable)
         THEN /\ OpenChannel(i)
              /\ pc' = [pc EXCEPT ![i] = "initialised"]
              /\ since' = [since EXCEPT ![i] = SourceValues(i, channel, variable)]
              /\ UNCHANGED <<status, late>>
         ELSE /\ Return(i, "FAILURE")
              /\ UNCHANGED <<pv, left, since>>
  BY DEF InitHook
<1>2. /\ pc[i] = "idle" /\ status[i] = "NOT_STARTED"
      /\ UNCHANGED <<halted, channel, variable, moved, fault>>
  BY DEF InitHook
<1> DEFINE Opens == CanOpen(i, readable)
<1>3. ASSUME NEW j \in Instruction \ {i}
      PROVE  InstructionInv(j)'
  <2>1. /\ status'[j] = status[j] /\ halted'[j] = halted[j] /\ pc'[j] = pc[j]
        /\ pv'[j] = pv[j] /\ value'[j] = value[j] /\ moved'[j] = moved[j]
        /\ left'[j] = left[j] /\ since'[j] = since[j]
    BY <1>1, <1>2 DEF TypeOK, OpenChannel, Return
  <2>2. InProgress(j) => SourceValues(j, channel', variable') \subseteq since'[j]
    BY <1>2, <2>1 DEF ExecutionInv, InstructionInv, HoldsFreshValue
  <2> QED
    BY <2>1, <2>2, UntouchedInv DEF ExecutionInv
<1>4. InstructionInv(i)'
  <2>1. InstructionInv(i) /\ ~InProgress(i)
    BY <1>2 DEF ExecutionInv, InProgress
  <2>2. value'[i] = FixedValue(i, readable)
    BY <1>1 DEF TypeOK
  <2>3. KeepsNoValue(i)'
    BY <1>2, <2>1, <2>2 DEF InstructionInv, KeepsNoValue, IsRead, FixedValue
  <2>4. CASE Opens
    <3>1. /\ pv'[i] = NewPV /\ pc'[i] = "initialised"
          /\ status'[i] = "NOT_STARTED" /\ moved'[i] = moved[i]
          /\ since'[i] = SourceValues(i, channel, variable)
      BY <1>1, <1>2, <2>4 DEF TypeOK, OpenChannel
    <3>2. NewPV # NullPV /\ NewPV.value = NoValue
      BY NewPVIsNotNull DEF NewPV
    <3>3. HoldsConnection(i)'
      BY <3>1, <3>2 DEF HoldsConnection
    <3>4. Released(i)'
      BY <3>1 DEF Released, InProgress
    <3>5. SourceValues(i, channel, variable)' = SourceValues(i, channel, variable)
      BY <1>2 DEF SourceValues, IsRead
    <3>6. ~IsRead(i) => value'[i] \in since'[i] \cup {NoValue}
      <4>1. CASE Kind[i] = "ca write"
        <5>1. value'[i] = GetNewValue(i)
          BY <2>2, <2>4, <4>1 DEF FixedValue, CanOpen, Attributes
        <5> QED
          BY <3>1, <4>1, <5>1 DEF SourceValues, GetNewValue, IsRead
      <4>2. CASE Kind[i] # "ca write" /\ ~IsRead(i)
        <5>1. value[i] = NoValue
          BY <1>2, <2>1, <4>2, KindOfWrite DEF InstructionInv, KeepsNoValue
        <5> QED
          BY <2>2, <4>2, <5>1 DEF FixedValue
      <4> QED
        BY <4>1, <4>2
    <3>7. HoldsFreshValue(i)'
      <4>1. moved'[i] = NoValue
        BY <1>2, <2>1, <3>1 DEF InstructionInv, Released
      <4> QED
        BY <3>1, <3>2, <3>5, <3>6, <4>1 DEF HoldsFreshValue, IsRead
    <3>8. HasValueToPut(i)'
      <4>1. Kind[i] = "ca write" => value'[i] # NoValue
        BY <2>2, <2>4 DEF FixedValue, CanOpen, KnowsChannelType, Attributes
      <4> QED
        BY <3>1, <4>1 DEF HasValueToPut
    <3> QED
      BY <2>3, <3>3, <3>4, <3>7, <3>8 DEF InstructionInv
  <2>5. CASE ~Opens
    <3>1. status'[i] = "FAILURE" /\ pc'[i] = "idle"
      BY <1>1, <2>5 DEF TypeOK, Return
    <3> QED
      BY <2>3, <3>1 DEF InstructionInv, HoldsConnection, Released, HasValueToPut,
                        HoldsFreshValue, InProgress
  <2> QED
    BY <2>4, <2>5
<1> QED
  BY <1>2, <1>3, <1>4 DEF ExecutionInv, NullPVOnlyByHalt

LEMMA BeginExecuteInv ==
  ASSUME TypeOK, ExecutionInv, fault = NoFault, NEW i \in Instruction, BeginExecute(i)
  PROVE  ExecutionInv'
<1> DEFINE Fails == halted[i] \/ (Kind[i] = "pva write" /\ CurrentValue(i) = NoValue)
<1>1. /\ pc[i] = "initialised" \/ (pc[i] = "idle" /\ status[i] = "RUNNING")
      /\ UNCHANGED <<halted, pv, left, channel, variable, moved, since, fault>>
  BY DEF BeginExecute
<1>3. ASSUME NEW j \in Instruction \ {i}
      PROVE  InstructionInv(j)'
  <2>1. status'[j] = status[j] /\ pc'[j] = pc[j] /\ value'[j] = value[j]
    <3>1. CASE Fails
      BY <3>1 DEF BeginExecute, TypeOK, Return
    <3>2. CASE ~Fails
      BY <3>2 DEF BeginExecute, TypeOK
    <3> QED
      BY <3>1, <3>2
  <2>2. InProgress(j) => SourceValues(j, channel', variable') \subseteq since'[j]
    BY <1>1 DEF ExecutionInv, InstructionInv, HoldsFreshValue
  <2> QED
    BY <1>1, <2>1, <2>2, UntouchedInv DEF ExecutionInv
<1>4. InstructionInv(i)'
  <2>1. InstructionInv(i) /\ InProgress(i)
    BY <1>1 DEF ExecutionInv, InProgress
  <2>2. CASE Fails
    <3>1. status'[i] = "FAILURE" /\ pc'[i] = "idle" /\ value'[i] = value[i]
      BY <2>2 DEF BeginExecute, TypeOK, Return
    <3> QED
      BY <1>1, <2>1, <3>1
         DEF InstructionInv, HoldsConnection, Released, KeepsNoValue, HasValueToPut,
             HoldsFreshValue, InProgress, IsRead
  <2>3. CASE ~Fails
    <3>1. /\ pc'[i] = "checked" /\ value'[i] = CurrentValue(i) /\ status'[i] = status[i]
          /\ ~halted[i]
      <4>1. /\ pc' = [pc EXCEPT ![i] = "checked"]
            /\ value' = [value EXCEPT ![i] = CurrentValue(i)]
            /\ UNCHANGED status
            /\ ~halted[i]
        BY <2>3 DEF BeginExecute
      <4> QED
        BY <4>1 DEF TypeOK
    <3>2. HoldsConnection(i)'
      BY <1>1, <2>1, <3>1 DEF InstructionInv, HoldsConnection
    <3>3. Released(i)'
      BY <3>1 DEF Released, InProgress
    <3>4. KeepsNoValue(i)'
      BY <2>1, <3>1 DEF InstructionInv, KeepsNoValue, CurrentValue, IsRead
    <3>5. SourceValues(i, channel, variable)' = SourceValues(i, channel, variable)
      BY <1>1 DEF SourceValues, IsRead
    <3>6. ~IsRead(i) => CurrentValue(i) \in since[i] \cup {NoValue}
      <4>1. CASE Kind[i] = "pva write"
        BY <2>1, <4>1 DEF InstructionInv, HoldsFreshValue, CurrentValue, GetNewValue,
                SourceValues, IsRead
      <4>2. CASE Kind[i] # "pva write"
        BY <2>1, <4>2 DEF InstructionInv, HoldsFreshValue, CurrentValue
      <4> QED
        BY <4>1, <4>2
    <3>7. HoldsFreshValue(i)'
      BY <1>1, <2>1, <3>1, <3>5, <3>6 DEF InstructionInv, HoldsFreshValue, IsRead
    <3>8. HasValueToPut(i)'
      <4>1. CASE Kind[i] = "pva write"
        BY <2>3, <3>1, <4>1 DEF HasValueToPut
      <4>2. CASE Kind[i] = "ca write"
        BY <2>1, <3>1, <4>2 DEF InstructionInv, HasValueToPut, CurrentValue
      <4>3. CASE IsRead(i)
        BY <4>3 DEF HasValueToPut, IsRead
      <4> QED
        BY <4>1, <4>2, <4>3, KindOfWrite
    <3> QED
      BY <3>2, <3>3, <3>4, <3>7, <3>8 DEF InstructionInv
  <2> QED
    BY <2>2, <2>3
<1> QED
  BY <1>1, <1>3, <1>4 DEF ExecutionInv, NullPVOnlyByHalt

\* The end of a call: what it returns, and that it moves nothing unless it
\* returns SUCCESS.
LEMMA OutcomeEffect ==
  ASSUME TypeOK, NEW i \in Instruction,
         WaitOrTimeOut(i) \/ ReadChannel(i) \/ WriteChannel(i)
  PROVE  /\ \E s \in {"RUNNING", "SUCCESS", "FAILURE"} : Return(i, s)
         /\ moved' # moved => Return(i, "SUCCESS")
         /\ \A j \in Instruction \ {i} : moved'[j] = moved[j]
         /\ moved'[i] # moved[i] =>
              /\ IsRead(i) => moved'[i] = pv[i].value
              /\ ~IsRead(i) => moved'[i] = value[i]
BY DEF WaitOrTimeOut, ReadChannel, WriteChannel, TypeOK

LEMMA FinishExecuteInv ==
  ASSUME TypeOK, ExecutionInv, fault = NoFault, NEW i \in Instruction, FinishExecute(i)
  PROVE  ExecutionInv'
<1>1. /\ pc[i] \in {"checked", "interrupted"}
      /\ UNCHANGED <<halted, pv, left, channel>>
  BY DEF FinishExecute
<1>2. InstructionInv(i) /\ InProgress(i)
  BY <1>1 DEF ExecutionInv, InProgress
<1>3. CASE pv[i] = NullPV
  <2>1. /\ fault' = i
        /\ UNCHANGED <<status, pc, late, value, variable, moved, since>>
    BY <1>3 DEF FinishExecute
  <2>2. pc[i] = "interrupted"
    BY <1>1, <1>2, <1>3 DEF InstructionInv, HoldsConnection
  <2>3. ASSUME NEW j \in Instruction
        PROVE  InstructionInv(j)'
    <3>1. InProgress(j) => SourceValues(j, channel', variable') \subseteq since'[j]
      BY <1>1, <2>1 DEF ExecutionInv, InstructionInv, HoldsFreshValue
    <3> QED
      BY <1>1, <2>1, <3>1, UntouchedInv DEF ExecutionInv
  <2> QED
    BY <2>1, <2>2, <2>3 DEF ExecutionInv, NullPVOnlyByHalt
<1>4. CASE pv[i] # NullPV
  <2>1. /\ WaitOrTimeOut(i) \/ ReadChannel(i) \/ WriteChannel(i)
        /\ value' = [value EXCEPT ![i] = Kept(i)]
        /\ Observe(channel, variable')
        /\ UNCHANGED fault
    BY <1>4 DEF FinishExecute
  <2>2. PICK s \in {"RUNNING", "SUCCESS", "FAILURE"} : Return(i, s)
    BY <2>1, OutcomeEffect
  <2>3. ASSUME NEW j \in Instruction
        PROVE  InProgress(j) =>
                 /\ since[j] \subseteq since'[j]
                 /\ SourceValues(j, channel', variable') \subseteq since'[j]
    BY <1>1, <2>1, ObserveEffect
  <2>4. ASSUME NEW j \in Instruction \ {i}
        PROVE  InstructionInv(j)'
    <3>1. /\ status'[j] = status[j] /\ pc'[j] = pc[j] /\ value'[j] = value[j]
          /\ moved'[j] = moved[j]
      BY <2>1, <2>2, OutcomeEffect DEF Return, TypeOK
    <3> QED
      BY <1>1, <2>3, <3>1, UntouchedInv DEF ExecutionInv
  <2>5. InstructionInv(i)'
    <3>1. status'[i] = s /\ pc'[i] = "idle" /\ value'[i] = Kept(i)
      BY <2>1, <2>2 DEF Return, TypeOK
    <3>2. HoldsConnection(i)'
      BY <1>1, <1>4, <3>1 DEF HoldsConnection
    <3>3. Released(i)'
      BY <3>1 DEF Released
    <3>4. KeepsNoValue(i)'
      BY <1>2, <3>1 DEF InstructionInv, KeepsNoValue, Kept, IsRead
    <3>5. HoldsFreshValue(i)'
      <4>1. CASE s # "RUNNING"
        BY <3>1, <4>1 DEF HoldsFreshValue, InProgress
      <4>2. CASE s = "RUNNING"
        <5>1. ~Return(i, "SUCCESS")
          BY <3>1, <4>2 DEF Return, TypeOK
        <5>2. moved'[i] = NoValue
          BY <1>2, <2>1, <5>1, OutcomeEffect DEF InstructionInv, HoldsFreshValue
        <5>3. SourceValues(i, channel, variable)' = SourceValues(i, channel', variable')
          BY DEF SourceValues, IsRead
        <5> QED
          BY <1>1, <1>2, <2>3, <3>1, <5>2, <5>3
             DEF InstructionInv, HoldsFreshValue, Kept, IsRead
      <4> QED
        BY <4>1, <4>2
    <3>6. HasValueToPut(i)'
      BY <1>1, <1>2, <3>1 DEF InstructionInv, HasValueToPut, Kept, InProgress
    <3> QED
      BY <3>2, <3>3, <3>4, <3>5, <3>6 DEF InstructionInv
  <2> QED
    BY <2>1, <2>4, <2>5 DEF ExecutionInv, NullPVOnlyByHalt
<1> QED
  BY <1>3, <1>4

LEMMA HaltInv ==
  ASSUME TypeOK, ExecutionInv, fault = NoFault, NEW i \in Instruction, Halt(i)
  PROVE  ExecutionInv'
<1>1. /\ UNCHANGED <<status, late, channel, variable, moved, since, fault>>
      /\ halted' = [halted EXCEPT ![i] = TRUE]
      /\ pc' = [pc EXCEPT ![i] = IF @ = "checked" THEN "interrupted" ELSE @]
      /\ HaltImpl(i)
  BY DEF Halt
<1>2. ASSUME NEW j \in Instruction
      PROVE  InProgress(j) => SourceValues(j, channel', variable') \subseteq since'[j]
  BY <1>1 DEF ExecutionInv, InstructionInv, HoldsFreshValue
<1>3. ASSUME NEW j \in Instruction \ {i}
      PROVE  InstructionInv(j)'
  <2>1. /\ halted'[j] = halted[j] /\ pc'[j] = pc[j] /\ pv'[j] = pv[j]
        /\ left'[j] = left[j] /\ value'[j] = value[j]
    BY <1>1 DEF HaltImpl, CloseChannel, TypeOK
  <2> QED
    BY <1>1, <1>2, <2>1, UntouchedInv DEF ExecutionInv
<1>4. InstructionInv(i)'
  <2>1. /\ halted'[i] = TRUE /\ pv'[i] = NullPV /\ left'[i] = 0
        /\ pc'[i] = IF pc[i] = "checked" THEN "interrupted" ELSE pc[i]
        /\ value'[i] = IF Kind[i] = "ca write" THEN NoValue ELSE value[i]
    BY <1>1 DEF HaltImpl, CloseChannel, TypeOK
  <2>2. InstructionInv(i) /\ (InProgress(i)' <=> InProgress(i))
    <3>1. status'[i] = status[i] /\ (pc'[i] = "idle" <=> pc[i] = "idle")
      <4>1. CASE pc[i] = "checked"
        <5>1. pc'[i] = "interrupted"
          BY <2>1, <4>1
        <5> QED
          BY <1>1, <4>1, <5>1
      <4>2. CASE pc[i] # "checked"
        BY <1>1, <2>1, <4>2
      <4> QED
        BY <4>1, <4>2
    <3> QED
      BY <3>1 DEF ExecutionInv, InProgress
  <2>3. HoldsConnection(i)'
    BY <2>1 DEF HoldsConnection
  <2>4. Released(i)'
    BY <1>1, <2>1, <2>2 DEF InstructionInv, Released
  <2>5. KeepsNoValue(i)'
    BY <2>1, <2>2 DEF InstructionInv, KeepsNoValue, IsRead
  <2>6. SourceValues(i, channel, variable)' = SourceValues(i, channel', variable')
    BY DEF SourceValues, IsRead
  <2>7. HoldsFreshValue(i)'
    BY <1>1, <1>2, <2>1, <2>2, <2>6 DEF InstructionInv, HoldsFreshValue, IsRead
  <2>8. HasValueToPut(i)'
    <3>1. pc'[i] # "checked"
      BY <2>1
    <3> QED
      BY <2>1, <3>1 DEF HasValueToPut
  <2> QED
    BY <2>3, <2>4, <2>5, <2>7, <2>8 DEF InstructionInv
<1> QED
  BY <1>1, <1>3, <1>4 DEF ExecutionInv, NullPVOnlyByHalt

LEMMA ResetInv ==
  ASSUME TypeOK, ExecutionInv, fault = NoFault, NEW i \in Instruction, Reset(i)
  PROVE  ExecutionInv'
<1>1. /\ pc[i] = "idle"
      /\ HaltImpl(i)
      /\ status' = [status EXCEPT ![i] = "NOT_STARTED"]
      /\ halted' = [halted EXCEPT ![i] = FALSE]
      /\ moved' = [moved EXCEPT ![i] = NoValue]
      /\ since' = [since EXCEPT ![i] = {}]
      /\ UNCHANGED <<pc, late, channel, variable, fault>>
  BY DEF Reset, ResetHook
<1>2. ASSUME NEW j \in Instruction \ {i}
      PROVE  InstructionInv(j)'
  <2>1. /\ status'[j] = status[j] /\ halted'[j] = halted[j] /\ pv'[j] = pv[j]
        /\ left'[j] = left[j] /\ value'[j] = value[j] /\ moved'[j] = moved[j]
        /\ since'[j] = since[j]
    BY <1>1 DEF HaltImpl, CloseChannel, TypeOK
  <2>2. InProgress(j) => SourceValues(j, channel', variable') \subseteq since'[j]
    BY <1>1, <2>1 DEF ExecutionInv, InstructionInv, HoldsFreshValue
  <2> QED
    BY <1>1, <2>1, <2>2, UntouchedInv DEF ExecutionInv
<1>3. InstructionInv(i)'
  <2>1. /\ status'[i] = "NOT_STARTED" /\ pc'[i] = "idle" /\ pv'[i] = NullPV
        /\ left'[i] = 0 /\ moved'[i] = NoValue
        /\ value'[i] = IF Kind[i] = "ca write" THEN NoValue ELSE value[i]
    BY <1>1 DEF HaltImpl, CloseChannel, TypeOK
  <2>2. KeepsNoValue(i) /\ ~InProgress(i)'
    BY <2>1 DEF ExecutionInv, InstructionInv, InProgress
  <2>3. HoldsConnection(i)'
    BY <2>1, <2>2 DEF HoldsConnection
  <2>4. Released(i)'
    BY <2>1 DEF Released
  <2>5. KeepsNoValue(i)'
    BY <1>1, <2>1, <2>2 DEF KeepsNoValue, IsRead
  <2>6. HoldsFreshValue(i)'
    BY <2>2 DEF HoldsFreshValue
  <2>7. HasValueToPut(i)'
    BY <2>1, <2>2 DEF HasValueToPut
  <2> QED
    BY <2>3, <2>4, <2>5, <2>6, <2>7 DEF InstructionInv
<1> QED
  BY <1>1, <1>2, <1>3 DEF ExecutionInv, NullPVOnlyByHalt

LEMMA PVStepInv ==
  ASSUME TypeOK, ExecutionInv, fault = NoFault, NEW i \in Instruction, PVStep(i)
  PROVE  ExecutionInv'
<1>1. /\ pv[i] # NullPV /\ pv[i] \in PV
      /\ channel[ChannelOf[i]] \in [up : BOOLEAN, value : Payload]
  BY InstructionAssumption DEF TypeOK, PVStep
<1>2. PICK p \in PV :
        /\ PVReceives(i, p)
        /\ \/ p.value = pv[i].value
           \/ channel[ChannelOf[i]].up /\ p.value = channel[ChannelOf[i]].value
  <2>1. CASE Connects(i)
    <3> DEFINE q == [pv[i] EXCEPT !.connected = TRUE]
    <3>1. q \in PV /\ q.value = pv[i].value
      BY <1>1 DEF PV
    <3>2. PVReceives(i, q)
      BY <2>1 DEF Connects
    <3> QED
      BY <3>1, <3>2
  <2>2. CASE Updates(i)
    <3> DEFINE q == [pv[i] EXCEPT !.value = channel[ChannelOf[i]].value]
    <3>1. q \in PV /\ q.value = channel[ChannelOf[i]].value
      BY <1>1 DEF PV, Value
    <3>2. PVReceives(i, q) /\ channel[ChannelOf[i]].up
      BY <2>2 DEF Updates
    <3> HIDE DEF q
    <3> QED
      BY <3>1, <3>2
  <2>3. CASE Disconnects(i)
    <3> DEFINE q == [pv[i] EXCEPT !.connected = FALSE]
    <3>1. q \in PV /\ q.value = pv[i].value
      BY <1>1 DEF PV
    <3>2. PVReceives(i, q)
      BY <2>3 DEF Disconnects
    <3> QED
      BY <3>1, <3>2
  <2> QED
    BY <2>1, <2>2, <2>3 DEF PVStep
<1>3. /\ pv' = [pv EXCEPT ![i] = p]
      /\ UNCHANGED <<status, halted, pc, left, value, moved, fault, channel, variable, since>>
  BY <1>2 DEF PVReceives, world
<1>4. ASSUME NEW j \in Instruction
      PROVE  /\ InProgress(j)' <=> InProgress(j)
             /\ SourceValues(j, channel, variable)' = SourceValues(j, channel, variable)
  BY <1>3 DEF InProgress, SourceValues, IsRead
<1>5. ASSUME NEW j \in Instruction \ {i}
      PROVE  InstructionInv(j)'
  <2>1. pv'[j] = pv[j]
    BY <1>3 DEF TypeOK
  <2>2. InProgress(j) => SourceValues(j, channel', variable') \subseteq since'[j]
    BY <1>3 DEF ExecutionInv, InstructionInv, HoldsFreshValue
  <2> QED
    BY <1>3, <2>1, <2>2, UntouchedInv DEF ExecutionInv
<1>6. InstructionInv(i)'
  <2>1. pv'[i] = p /\ p # NullPV /\ InstructionInv(i)
    BY <1>3, InstructionAssumption DEF TypeOK, PV, Value, ExecutionInv
  <2>2. HoldsConnection(i)'
    BY <1>3, <2>1 DEF InstructionInv, HoldsConnection
  <2>3. Released(i)'
    BY <1>1, <1>3, <1>4, <2>1 DEF InstructionInv, Released
  <2>4. KeepsNoValue(i)'
    BY <1>3, <2>1 DEF InstructionInv, KeepsNoValue, IsRead
  <2>5. HoldsFreshValue(i)'
    <3>1. channel[ChannelOf[i]].up /\ IsRead(i) =>
            channel[ChannelOf[i]].value \in SourceValues(i, channel, variable)
      BY DEF SourceValues
    <3>2. InProgress(i) /\ IsRead(i) => p.value \in since[i] \cup {NoValue}
      BY <1>1, <1>2, <2>1, <3>1 DEF InstructionInv, HoldsFreshValue
    <3>3. IsRead(i)' <=> IsRead(i)
      BY DEF IsRead
    <3> QED
      BY <1>3, <1>4, <2>1, <3>2, <3>3 DEF InstructionInv, HoldsFreshValue
  <2>6. HasValueToPut(i)'
    BY <1>3, <1>4, <2>1 DEF InstructionInv, HasValueToPut, IsRead
  <2> QED
    BY <2>2, <2>3, <2>4, <2>5, <2>6 DEF InstructionInv
<1> QED
  BY <1>3, <1>5, <1>6 DEF ExecutionInv, NullPVOnlyByHalt

\* A step of the world that is observed, by no matter what it changes.
LEMMA ObservedInv ==
  ASSUME TypeOK, ExecutionInv, Observe(channel', variable'), UNCHANGED own
  PROVE  ExecutionInv'
<1>1. ASSUME NEW j \in Instruction
      PROVE  InstructionInv(j)'
  <2>1. InProgress(j) => /\ since[j] \subseteq since'[j]
                         /\ SourceValues(j, channel', variable') \subseteq since'[j]
    BY ObserveEffect
  <2> QED
    BY <2>1, UntouchedInv DEF ExecutionInv, own
<1> QED
  BY <1>1 DEF ExecutionInv, NullPVOnlyByHalt, own

LEMMA EnvironmentInv ==
  ASSUME TypeOK, ExecutionInv, fault = NoFault, Environment
  PROVE  ExecutionInv'
<1>1. ASSUME NEW c \in Channel, ChannelAppears(c)
      PROVE  ExecutionInv'
  <2>1. Observe(channel', variable') /\ UNCHANGED own
    BY <1>1 DEF ChannelAppears
  <2> QED
    BY <2>1, ObservedInv
<1>2. ASSUME NEW c \in Channel, ChannelVanishes(c)
      PROVE  ExecutionInv'
  <2>1. ASSUME NEW j \in Instruction
        PROVE  SourceValues(j, channel', variable') \subseteq SourceValues(j, channel, variable)
    BY <1>2, InstructionAssumption DEF ChannelVanishes, SourceValues, TypeOK
  <2>2. ASSUME NEW j \in Instruction
        PROVE  InstructionInv(j)'
    <3>1. InProgress(j) => SourceValues(j, channel', variable') \subseteq since[j]
      BY <2>1 DEF ExecutionInv, InstructionInv, HoldsFreshValue
    <3> QED
      BY <1>2, <3>1, UntouchedInv DEF ChannelVanishes, own, ExecutionInv
  <2> QED
    BY <1>2, <2>2 DEF ExecutionInv, NullPVOnlyByHalt, ChannelVanishes, own
<1>3. ASSUME NEW c \in Channel, NEW x \in Payload, ChannelChanges(c, x)
      PROVE  ExecutionInv'
  <2>1. Observe(channel', variable') /\ UNCHANGED own
    BY <1>3 DEF ChannelChanges
  <2> QED
    BY <2>1, ObservedInv
<1>4. ASSUME NEW n \in Name, NEW x \in Payload, VariableChanges(n, x)
      PROVE  ExecutionInv'
  <2>1. Observe(channel', variable') /\ UNCHANGED own
    BY <1>4 DEF VariableChanges
  <2> QED
    BY <2>1, ObservedInv
<1>5. CASE Clock
  <2>1. /\ UNCHANGED <<status, halted, pc, pv, value, moved, fault, channel, variable, since>>
        /\ \A j \in Instruction : left[j] = 0 => left'[j] = 0
    BY <1>5 DEF Clock, world
  <2>2. ASSUME NEW j \in Instruction
        PROVE  InstructionInv(j)'
    <3>1. InProgress(j) => SourceValues(j, channel', variable') \subseteq since'[j]
      BY <2>1 DEF ExecutionInv, InstructionInv, HoldsFreshValue
    <3> QED
      BY <2>1, <3>1, UntouchedInv DEF ExecutionInv
  <2> QED
    BY <2>1, <2>2 DEF ExecutionInv, NullPVOnlyByHalt
<1> QED
  BY <1>1, <1>2, <1>3, <1>4, <1>5 DEF Environment

LEMMA InitInv == Init => ExecutionInv
<1> SUFFICES ASSUME Init PROVE ExecutionInv
  OBVIOUS
<1>1. ASSUME NEW i \in Instruction
      PROVE  /\ status[i] = "NOT_STARTED" /\ pc[i] = "idle" /\ pv[i] = NullPV
             /\ left[i] = 0 /\ value[i] = NoValue /\ moved[i] = NoValue
  BY DEF Init
<1>2. ASSUME NEW i \in Instruction
      PROVE  InstructionInv(i)
  BY <1>1 DEF InstructionInv, HoldsConnection, Released, KeepsNoValue, HasValueToPut,
              HoldsFreshValue, InProgress
<1> QED
  BY <1>2 DEF Init, ExecutionInv, NullPVOnlyByHalt

\* The conjunction that the safety properties follow from holds in every
\* reachable state.
THEOREM ExecutionInvariant == Spec => []ExecutionInv
<1>1. TypeOK /\ ExecutionInv /\ [Next]_vars => ExecutionInv'
  <2> SUFFICES ASSUME TypeOK, ExecutionInv, [Next]_vars PROVE ExecutionInv'
    OBVIOUS
  <2>1. CASE UNCHANGED vars
    <3>1. UNCHANGED own /\ UNCHANGED world
      BY <2>1 DEF vars, own, world
    <3>2. ASSUME NEW j \in Instruction
          PROVE  InstructionInv(j)'
      <4>1. InProgress(j) => SourceValues(j, channel', variable') \subseteq since'[j]
        BY <3>1 DEF ExecutionInv, InstructionInv, HoldsFreshValue, world
      <4> QED
        BY <3>1, <4>1, UntouchedInv DEF ExecutionInv, own, world
    <3> QED
      BY <3>1, <3>2 DEF ExecutionInv, NullPVOnlyByHalt, own
  <2>2. CASE Next
    <3>1. fault = NoFault
      BY <2>2 DEF Next
    <3>2. ASSUME NEW i \in Instruction, InstructionStep(i) PROVE ExecutionInv'
      BY <3>1, <3>2, InitHookInv, BeginExecuteInv, FinishExecuteInv, HaltInv, ResetInv
         DEF InstructionStep
    <3> QED
      BY <2>2, <3>1, <3>2, PVStepInv, EnvironmentInv DEF Next
  <2> QED
    BY <2>1, <2>2
<1> QED
  BY <1>1, InitInv, TypeCorrect, PTL DEF Spec

-----------------------------------------------------------------------------
(* What follows from it                                                    *)

\* Only an instruction that a Halt from another thread overtook, between its
\* test of the halt request and its use of m_pv, dereferences a null m_pv.
THEOREM NoNullPVOtherwise == Spec => []NullPVOnlyByHalt
<1>1. ExecutionInv => NullPVOnlyByHalt
  BY DEF ExecutionInv
<1> QED
  BY <1>1, ExecutionInvariant, PTL

\* Whatever ended its last execution, an instruction that has been reset, or
\* never run, holds no connection, no deadline and no value.
THEOREM NothingIsKept == Spec => []IdleHoldsNothing
<1>1. ExecutionInv => IdleHoldsNothing
  <2> SUFFICES ASSUME ExecutionInv, NEW i \in Instruction,
                      status[i] = "NOT_STARTED", ~InProgress(i)
               PROVE  pv[i] = NullPV /\ left[i] = 0 /\ value[i] = NoValue
    BY DEF IdleHoldsNothing
  <2>1. Released(i) /\ KeepsNoValue(i) /\ pc[i] = "idle"
    BY DEF ExecutionInv, InstructionInv, InProgress
  <2>2. value[i] = NoValue
    <3>1. CASE IsRead(i)
      BY <2>1, <3>1 DEF KeepsNoValue
    <3>2. CASE ~IsRead(i)
      BY <2>1, <3>2, KindOfWrite DEF KeepsNoValue, Released
    <3> QED
      BY <3>1, <3>2
  <2> QED
    BY <2>1, <2>2 DEF Released
<1> QED
  BY <1>1, ExecutionInvariant, PTL

\* What a read writes to its variable its process variable has held since the
\* read began, and what a write puts its variable has held since it began.
THEOREM NothingStaleIsMoved == Spec => MovesFreshValue
<1> DEFINE Fresh == \A i \in Instruction :
             moved'[i] # moved[i] /\ moved'[i] # NoValue => moved'[i] \in since[i]
<1>1. TypeOK /\ ExecutionInv /\ [Next]_vars => [Fresh]_vars
  <2> SUFFICES ASSUME TypeOK, ExecutionInv, Next,
                      NEW i \in Instruction, moved'[i] # moved[i], moved'[i] # NoValue
               PROVE  moved'[i] \in since[i]
    OBVIOUS
  <2>1. PICK j \in Instruction : FinishExecute(j)
    <3>1. CASE \E j \in Instruction : PVStep(j)
      BY <3>1 DEF PVStep, Connects, Updates, Disconnects, PVReceives
    <3>2. CASE Environment
      BY <3>2 DEF Environment, ChannelAppears, ChannelVanishes, ChannelChanges,
                  VariableChanges, Clock, own
    <3>3. ASSUME NEW j \in Instruction, Reset(j)
          PROVE  FALSE
      BY <3>3 DEF Reset, TypeOK
    <3>4. CASE \E j \in Instruction :
                 \/ \E readable \in SUBSET Attributes : InitHook(j, readable)
                 \/ BeginExecute(j) \/ Halt(j)
      BY <3>4 DEF InitHook, BeginExecute, Halt
    <3> QED
      BY <3>1, <3>2, <3>3, <3>4 DEF Next, InstructionStep
  <2>2. WaitOrTimeOut(j) \/ ReadChannel(j) \/ WriteChannel(j)
    BY <2>1 DEF FinishExecute
  <2>3. /\ i = j
        /\ IsRead(i) => moved'[i] = pv[i].value /\ pv[i] # NullPV
        /\ ~IsRead(i) => moved'[i] = value[i]
    BY <2>1, <2>2, OutcomeEffect DEF FinishExecute
  <2>4. HoldsFreshValue(i) /\ InProgress(i)
    BY <2>1, <2>3 DEF ExecutionInv, InstructionInv, FinishExecute, InProgress
  <2> QED
    BY <2>3, <2>4 DEF HoldsFreshValue
<1> QED
  BY <1>1, TypeCorrect, ExecutionInvariant, PTL DEF Spec, MovesFreshValue

-----------------------------------------------------------------------------
(* The one-shot call                                                       *)

\* An execution that is inside ExecuteSingle has not ended, and a write that
\* could be carried out has a value.
CallInv ==
  \A i \in Instruction :
    /\ pc[i] # "idle" => status[i] \in {"NOT_STARTED", "RUNNING"}
    /\ Kind[i] = "ca write" /\ pv[i] # NullPV => value[i] # NoValue
    /\ Kind[i] = "pva write" /\ pc[i] \in {"checked", "interrupted"} => value[i] # NoValue

LEMMA InitHookCallInv ==
  ASSUME TypeOK, ExecutionInv, CallInv, NEW i \in Instruction,
         NEW readable \in SUBSET Attributes, InitHook(i, readable)
  PROVE  CallInv'
<1>1. ASSUME NEW j \in Instruction, j # i
      PROVE  /\ status'[j] = status[j] /\ pc'[j] = pc[j]
             /\ pv'[j] = pv[j] /\ value'[j] = value[j]
  BY <1>1 DEF InitHook, OpenChannel, Return, TypeOK
<1>2. /\ pc'[i] = "initialised" => status'[i] = "NOT_STARTED"
      /\ pc'[i] \in {"idle", "initialised"}
  BY DEF InitHook, Return, TypeOK
<1>3. ASSUME Kind[i] = "ca write", pv'[i] # NullPV
      PROVE  value'[i] # NoValue
  <2>1. CASE CanOpen(i, readable)
    BY <1>3, <2>1 DEF InitHook, CanOpen, KnowsChannelType, FixedValue, Attributes, TypeOK
  <2>2. CASE ~CanOpen(i, readable)
    <3>1. pv[i] = NullPV
      BY DEF InitHook, ExecutionInv, InstructionInv, Released, InProgress
    <3>2. QED
      BY <1>3, <2>2, <3>1 DEF InitHook
  <2>3. QED
    BY <2>1, <2>2
<1>4. QED
  BY <1>1, <1>2, <1>3 DEF CallInv

LEMMA BeginExecuteCallInv ==
  ASSUME TypeOK, ExecutionInv, CallInv, NEW i \in Instruction, BeginExecute(i)
  PROVE  CallInv'
<1>1. ASSUME NEW j \in Instruction, j # i
      PROVE  /\ status'[j] = status[j] /\ pc'[j] = pc[j]
             /\ pv'[j] = pv[j] /\ value'[j] = value[j]
  <2>1. \/ /\ status' = [status EXCEPT ![i] = "FAILURE"]
           /\ pc' = [pc EXCEPT ![i] = "idle"]
           /\ UNCHANGED <<pv, value>>
        \/ /\ pc' = [pc EXCEPT ![i] = "checked"]
           /\ value' = [value EXCEPT ![i] = CurrentValue(i)]
           /\ UNCHANGED <<pv, status>>
    BY DEF BeginExecute, Return
  <2> QED
    BY <1>1, <2>1 DEF TypeOK
<1>2. pv'[i] = pv[i] /\ (Kind[i] # "pva write" => value'[i] = value[i])
  BY DEF BeginExecute, CurrentValue, TypeOK
<1>3. \/ pc'[i] = "idle"
      \/ /\ pc'[i] = "checked" /\ status'[i] = status[i]
         /\ status[i] \in {"NOT_STARTED", "RUNNING"}
         /\ Kind[i] = "pva write" => value'[i] # NoValue
  BY DEF BeginExecute, CurrentValue, Return, TypeOK, CallInv
<1>4. QED
  BY <1>1, <1>2, <1>3 DEF CallInv

LEMMA FinishExecuteCallInv ==
  ASSUME TypeOK, CallInv, NEW i \in Instruction, FinishExecute(i)
  PROVE  CallInv'
<1>1. CASE pv[i] = NullPV
  BY <1>1 DEF FinishExecute, CallInv
<1>2. CASE pv[i] # NullPV
  <2>1. PICK s \in {"RUNNING", "SUCCESS", "FAILURE"} : Return(i, s)
    BY <1>2, OutcomeEffect DEF FinishExecute
  <2>2. ASSUME NEW j \in Instruction, j # i
        PROVE  /\ status'[j] = status[j] /\ pc'[j] = pc[j]
               /\ pv'[j] = pv[j] /\ value'[j] = value[j]
    BY <1>2, <2>1, <2>2 DEF FinishExecute, Return, TypeOK
  <2>3. /\ pc'[i] = "idle" /\ pv'[i] = pv[i]
        /\ Kind[i] # "pva write" => value'[i] = value[i]
    BY <1>2, <2>1 DEF FinishExecute, Return, Kept, TypeOK
  <2>4. QED
    BY <2>2, <2>3 DEF CallInv
<1>3. QED
  BY <1>1, <1>2

LEMMA HaltAndResetCallInv ==
  ASSUME TypeOK, CallInv, NEW i \in Instruction, Halt(i) \/ Reset(i)
  PROVE  CallInv'
<1>1. ASSUME NEW j \in Instruction, j # i
      PROVE  /\ status'[j] = status[j] /\ pc'[j] = pc[j]
             /\ pv'[j] = pv[j] /\ value'[j] = value[j]
  BY <1>1 DEF Halt, Reset, ResetHook, HaltImpl, CloseChannel, TypeOK
<1>2. /\ pv'[i] = NullPV
      /\ Kind[i] # "ca write" => value'[i] = value[i]
      /\ pc'[i] # "idle" => pc[i] # "idle" /\ status'[i] = status[i]
      /\ pc'[i] \in {"checked", "interrupted"} => pc[i] \in {"checked", "interrupted"}
  BY DEF Halt, Reset, ResetHook, HaltImpl, CloseChannel, TypeOK
<1>3. QED
  BY <1>1, <1>2 DEF CallInv

LEMMA PVStepCallInv ==
  ASSUME TypeOK, CallInv, NEW i \in Instruction, PVStep(i)
  PROVE  CallInv'
<1>1. UNCHANGED <<status, pc, value>>
  BY DEF PVStep, Connects, Updates, Disconnects, PVReceives
<1>2. pv[i] # NullPV /\ \A j \in Instruction \ {i} : pv'[j] = pv[j]
  BY DEF PVStep, Connects, Updates, Disconnects, PVReceives, TypeOK
<1>3. QED
  BY <1>1, <1>2 DEF CallInv

LEMMA CallInvariance == Spec => []CallInv
<1>1. Init => CallInv
  BY DEF Init, CallInv
<1>2. TypeOK /\ ExecutionInv /\ CallInv /\ [Next]_vars => CallInv'
  <2>1. SUFFICES ASSUME TypeOK, ExecutionInv, CallInv, [Next]_vars
                 PROVE  CallInv'
    OBVIOUS
  <2>2. CASE UNCHANGED <<status, pc, pv, value>>
    BY <2>1, <2>2 DEF CallInv
  <2>3. Environment => UNCHANGED <<status, pc, pv, value>>
    BY DEF Environment, ChannelAppears, ChannelVanishes, ChannelChanges, VariableChanges,
      Clock, own
  <2>4. ASSUME NEW i \in Instruction, InstructionStep(i)
        PROVE  CallInv'
    BY <2>1, <2>4, InitHookCallInv, BeginExecuteCallInv, FinishExecuteCallInv,
       HaltAndResetCallInv
    DEF InstructionStep
  <2>5. QED
    BY <2>1, <2>2, <2>3, <2>4, PVStepCallInv DEF Next, vars
<1>3. QED
  BY <1>1, <1>2, TypeCorrect, ExecutionInvariant, PTL DEF Spec

\* What a step of one instruction may do to what its execution shows.
LEMMA ShownStep ==
  ASSUME NEW i \in Instruction,
         \A j \in Instruction \ {i} : /\ ShownStatus(j)' = ShownStatus(j)
                                      /\ HasEffect(j)' = HasEffect(j),
         \/ /\ ShownStatus(i)' = ShownStatus(i)
            /\ HasEffect(i)' = HasEffect(i)
         \/ /\ ShownStatus(i) = "NOT_STARTED" /\ ShownStatus(i)' = "RUNNING"
            /\ HasEffect(i)' = HasEffect(i)
         \/ /\ ShownStatus(i) = "RUNNING" /\ ShownStatus(i)' = "SUCCESS"
            /\ HasEffect(i)' = TRUE
         \/ /\ ShownStatus(i) \in {"NOT_STARTED", "RUNNING"}
            /\ ShownStatus(i)' = "FAILURE"
            /\ HasEffect(i)' = HasEffect(i)
         \/ ShownStatus(i)' = "NOT_STARTED" /\ HasEffect(i)' = FALSE
  PROVE  [Call!OneShotNext]_(Call!oneShotVars)
  BY DEF Call!OneShotNext, Call!oneShotVars, Call!Start, Call!Succeed, Call!Fail,
    Call!Reset

LEMMA FinishExecuteShown ==
  ASSUME TypeOK, CallInv, NEW i \in Instruction, FinishExecute(i),
         \A j \in Instruction \ {i} : /\ ShownStatus(j)' = ShownStatus(j)
                                      /\ HasEffect(j)' = HasEffect(j)
  PROVE  [Call!OneShotNext]_(Call!oneShotVars)
<1>1. ShownStatus(i) = "RUNNING"
  BY DEF FinishExecute, ShownStatus, InProgress, CallInv
<1>2. CASE pv[i] = NullPV
  <2>1. UNCHANGED <<status, pc, moved>>
    BY <1>2 DEF FinishExecute
  <2>2. QED
    BY <2>1, ShownStep DEF ShownStatus, HasEffect, InProgress
<1>3. CASE pv[i] # NullPV
  <2>1. PICK s \in {"RUNNING", "SUCCESS", "FAILURE"} :
          Return(i, s) /\ (moved' # moved => s = "SUCCESS")
    <3>1. WaitOrTimeOut(i) \/ ReadChannel(i) \/ WriteChannel(i)
      BY <1>3 DEF FinishExecute
    <3>2. /\ \E s \in {"RUNNING", "SUCCESS", "FAILURE"} : Return(i, s)
          /\ moved' # moved => Return(i, "SUCCESS")
      BY <3>1, OutcomeEffect
    <3>3. QED
      BY <3>2
  <2>2. ShownStatus(i)' = s
    BY <2>1 DEF Return, ShownStatus, InProgress, TypeOK
  <2>3. CASE moved' = moved /\ s # "SUCCESS"
    BY <1>1, <2>2, <2>3, ShownStep DEF HasEffect
  <2>4. CASE s = "SUCCESS"
    <3>1. ReadChannel(i) \/ WriteChannel(i)
      <4>1. status'[i] = "SUCCESS"
        BY <2>1, <2>4 DEF Return, TypeOK
      <4>2. WaitOrTimeOut(i) => status'[i] \in {"RUNNING", "FAILURE"}
        BY DEF WaitOrTimeOut, Return, TypeOK
      <4>3. QED
        BY <1>3, <4>1, <4>2 DEF FinishExecute
    <3>2. moved'[i] # NoValue
      <4>1. CASE ReadChannel(i) /\ moved' = [moved EXCEPT ![i] = pv[i].value]
        BY <4>1 DEF ReadChannel, Available, TypeOK
      <4>2. CASE WriteChannel(i) /\ moved' = [moved EXCEPT ![i] = value[i]]
        BY <1>3, <4>2, KindOfWrite DEF WriteChannel, FinishExecute, CallInv, TypeOK
      <4>3. ~Return(i, "FAILURE")
        BY <2>1, <2>4 DEF Return, TypeOK
      <4>4. QED
        BY <3>1, <4>1, <4>2, <4>3 DEF ReadChannel, WriteChannel
    <3>3. QED
      BY <1>1, <2>2, <2>4, <3>2, ShownStep DEF HasEffect
  <2>5. QED
    BY <2>1, <2>3, <2>4
<1>4. QED
  BY <1>2, <1>3

\* Each execution of a read or a write is a one-shot call, which moves its value
\* in the step that ends it with SUCCESS and in no other.
THEOREM OneShotCalls == Spec => Call!OneShotSafety
<1>1. Init => Call!OneShotInit
  BY DEF Init, Call!OneShotInit, ShownStatus, HasEffect, InProgress
<1>2. TypeOK /\ CallInv /\ [Next]_vars => [Call!OneShotNext]_(Call!oneShotVars)
  <2>1. SUFFICES ASSUME TypeOK, CallInv, [Next]_vars
                 PROVE  [Call!OneShotNext]_(Call!oneShotVars)
    OBVIOUS
  <2>2. CASE UNCHANGED <<status, pc, moved>>
    BY <2>2 DEF Call!oneShotVars, ShownStatus, HasEffect, InProgress
  <2>3. ASSUME NEW i \in Instruction, InstructionStep(i)
        PROVE  [Call!OneShotNext]_(Call!oneShotVars)
    <3>1. ASSUME NEW j \in Instruction \ {i}
          PROVE  /\ ShownStatus(j)' = ShownStatus(j)
                 /\ HasEffect(j)' = HasEffect(j)
      <4>1. status'[j] = status[j] /\ pc'[j] = pc[j] /\ moved'[j] = moved[j]
        <5>1. CASE FinishExecute(i) /\ pv[i] # NullPV
          BY <2>1, <5>1, OutcomeEffect DEF FinishExecute, Return, TypeOK
        <5>2. CASE FinishExecute(i) /\ pv[i] = NullPV
          BY <5>2 DEF FinishExecute
        <5>3. CASE \E readable \in SUBSET Attributes : InitHook(i, readable)
          BY <2>1, <5>3 DEF InitHook, Return, TypeOK
        <5>4. CASE BeginExecute(i) \/ Halt(i) \/ Reset(i)
          BY <2>1, <5>4 DEF BeginExecute, Return, Halt, Reset, TypeOK
        <5>5. QED
          BY <2>3, <5>1, <5>2, <5>3, <5>4 DEF InstructionStep
      <4>2. QED
        BY <4>1 DEF ShownStatus, HasEffect, InProgress
    <3>2. ASSUME NEW readable \in SUBSET Attributes, InitHook(i, readable)
          PROVE  [Call!OneShotNext]_(Call!oneShotVars)
      <4>1. HasEffect(i)' = HasEffect(i)
        BY <3>2 DEF InitHook, HasEffect
      <4>2. /\ ShownStatus(i) = "NOT_STARTED"
            /\ ShownStatus(i)' \in {"RUNNING", "FAILURE"}
        BY <2>1, <3>2 DEF InitHook, Return, ShownStatus, InProgress, TypeOK
      <4>3. QED
        BY <3>1, <4>1, <4>2, ShownStep
    <3>3. CASE BeginExecute(i)
      <4>1. HasEffect(i)' = HasEffect(i)
        BY <3>3 DEF BeginExecute, HasEffect
      <4>2. ShownStatus(i) = "RUNNING" /\ ShownStatus(i)' \in {"RUNNING", "FAILURE"}
        BY <2>1, <3>3
        DEF BeginExecute, Return, ShownStatus, InProgress, TypeOK, CallInv
      <4>3. QED
        BY <3>1, <4>1, <4>2, ShownStep
    <3>4. CASE FinishExecute(i)
      BY <2>1, <3>1, <3>4, FinishExecuteShown
    <3>5. CASE Halt(i)
      <4>1. UNCHANGED <<status, moved>> /\ (pc'[i] = "idle" <=> pc[i] = "idle")
        BY <2>1, <3>5 DEF Halt, TypeOK
      <4>2. ShownStatus(i)' = ShownStatus(i) /\ HasEffect(i)' = HasEffect(i)
        BY <4>1 DEF ShownStatus, HasEffect, InProgress
      <4>3. QED
        BY <3>1, <4>2, ShownStep
    <3>6. CASE Reset(i)
      <4>1. ShownStatus(i)' = "NOT_STARTED" /\ HasEffect(i)' = FALSE
        BY <2>1, <3>6 DEF Reset, ShownStatus, HasEffect, InProgress, TypeOK
      <4>2. QED
        BY <3>1, <4>1, ShownStep
    <3>7. QED
      BY <2>3, <3>2, <3>3, <3>4, <3>5, <3>6 DEF InstructionStep
  <2>4. \A i \in Instruction : PVStep(i) => UNCHANGED <<status, pc, moved>>
    BY DEF PVStep, Connects, Updates, Disconnects, PVReceives
  <2>5. Environment => UNCHANGED <<status, pc, moved>>
    BY DEF Environment, ChannelAppears, ChannelVanishes, ChannelChanges, VariableChanges,
      Clock, own
  <2>6. QED
    BY <2>1, <2>2, <2>3, <2>4, <2>5 DEF Next, vars
<1>3. QED
  BY <1>1, <1>2, TypeCorrect, CallInvariance, PTL DEF Spec, Call!OneShotSafety
=============================================================================
