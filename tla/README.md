# A TLA+ model of the oac-tree EPICS plugin

The plugin gives oac-tree procedures access to EPICS: *instructions* that read,
write or call something on the network once, and *workspace variables* that
keep a connection open or publish a value. This directory models the parts of
the plugin that keep state, checks them with TLC on small instances, and proves
their safety properties with TLAPS for every instance. File names below are
relative to `src/src/lib/oac-tree/`.

## 1. Inventory

| Component | State | Operations | Who calls them |
|---|---|---|---|
| `PvAccessServerVariable`, `PvAccessEncodedServerVariable` (`pvxs/`) | `m_anytype` / `m_initial_type`, `m_workspace` | `SetupImpl`, `GetValueImpl`, `SetValueImpl`, `IsAvailableImpl`, `ResetImpl`, `TeardownImpl`; a callback lambda | the workspace; the lambda from the PvAccess server's thread |
| `PvAccessSharedServer` | `m_server`, `m_var_callbacks` | `AddVariable`, `GetValue`, `SetValue`, `Setup`, `Teardown`, `DelegateCallbacks` | the server variables and the registry |
| `PvAccessSharedServerRegistry` (a process-wide singleton) | `m_servers`, keyed by `const Workspace*` | `GetServer`, `Setup`, `Teardown` | the server variables; the set-up and teardown actions that they return to their workspace |
| `ChannelAccessRead/Write`, `PvAccessRead/Write` instructions | `m_pv`, `m_finish`, `m_value`, names and types | `InitHook`, `ExecuteSingleImpl`, `HaltImpl`, `ResetHook` | the procedure; `Halt` possibly from another thread |
| `RPCClientInstruction` | `m_future`; a detached thread for each call | the same | the same |
| `ChannelAccessClientVariable`, `PvAccessClientVariable`, `PvAccessEncodedClientVariable` | `m_anytype`, `m_pv` | `SetupImpl`, `GetValueImpl`, `SetValueImpl`, `IsAvailableImpl`, `TeardownImpl`; a callback lambda | the workspace; the lambda from the client object's thread |
| `channel_access_helper`, `pv_access_helper` | none | conversions between the type of a variable and that of a process variable | all of the above |

Interactions. The server variables of one workspace share one server: each
`SetupImpl` finds (or creates) it in the registry and adds its process variable
and its callback; the workspace runs the set-up action, which starts the server,
once, since all variables register it under one key; teardown removes the
server and its entry. Client variables own a client object each, whose thread
calls them back. Instructions are independent of each other except through the
workspace and the network.

What is hard here: callbacks of other threads against set-up and teardown; the
life time of a registry entry against that of the workspace whose address is its
key; set-ups that fail half way, also after they have made a registry entry; a halt in the middle of a call; connections,
values and time-outs that arrive in any order; remote calls that outlive the
execution that made them. `PROJECT.json` lists each of these hazards with its line.

What makes each component correct:

- *server variables, shared server, registry*: a running variable is served and
  is the one called back; registry actions succeed; nothing is called after the
  workspace has gone, and nothing is left in the registry that serves a client or
  calls a variable; a failed set-up does no harm beyond its workspace; what the
  workspace is told agrees with the server;
- *read and write instructions*: an execution ends, has its effect exactly when
  it reports success, moves only a value that the source held meanwhile, and
  leaves nothing behind;
- *RPC client*: an execution takes the reply of its own call and of no other; the
  request is executed at most once; success means executed;
- *client variables*: notifications have the type of the variable, tell whether it
  is available, and catch up with the process variable; reads show what the
  process variable held; a usable process variable does become available;
- *both ends of a channel*: when nothing is on its way, the two workspaces know
  the same value, whoever wrote it;
- *helpers*: what is packed for the network can be unpacked again.

## 2. Modules

| Module | What it is |
|---|---|
| `PvaValues` | shapes of PvAccess values; `PackIntoStructIfScalar`, `ConvertToTypedAnyValue` (`pvxs/pv_access_helper.cpp`); the Base64 codec, external |
| `PvAccessSharedServer` | a shared server as a record, and operators for its operations |
| `PvAccessServerVariables` | the server variables, the registry, the owners of the workspaces and the server's thread |
| `PublishedVariables` | abstract specification of the server variables: independent registers |
| `SharedServerRegistry` | the registry once more, one map access at a time, called by several threads |
| `ClientPV` | a process variable on the network and the client object for it (external), shared by the two modules of client variables |
| `PvAccessClients` | the `PvAccessClient` and `PvAccessEncodedClient` variables |
| `ChannelAccessValues` | types and conversions of `ca/channel_access_helper.cpp` |
| `ChannelAccessClient` | the `ChannelAccessClient` variable |
| `PvAccessLink` | composition of `PvAccessServerVariables` and `PvAccessClients` on one channel |
| `OneShotInstruction` | abstract specification of an instruction's execution |
| `ChannelInstructions` | the four read and write instructions; implements `OneShotInstruction` |
| `RPCClient` | the RPC instruction and its detached calls; implements `OneShotInstruction` |
| `...Proofs` | theorems (section 4) |
| `MC...` | constants for TLC |

Definitions have the names of the functions they model. A definition called
`...Mutant`, or that a comment calls a mutant, is not part of the model: it is a
plausible bug, used to show that a property would notice it.

### Server variables

`registry` is `m_servers`. An entry is a record (`PvAccessSharedServer`):
`server` is the state of `m_server`, `pvs` and `events` belong to the external
server and die with it, `callbacks` is `m_var_callbacks`. `workspace[v]` tells
whether `m_workspace` is set, `anytype[v]` is the shape of `m_anytype` (plain) or
`m_initial_type` (encoded); `notified[v]` is what `Notify` was last called with.
`phase`, `todo` and `actions` are the workspace's side: where it is in its life,
which variables it has yet to set up or tear down, and the keys of the actions
that it collected. Each call into a handler is one action; calls of different
workspaces interleave, as do the puts of clients (`ClientPut`) and the thread
that reports changes (`Deliver`).

`SetupImpl` has its three ways to throw in `SetupThrows`: the type, the value, and
the `AddVariable` of the server, which may refuse a name that it already has
(left open, as that is the library's choice) and anything about a variable in
`Refusable`: a value or a type that PVXS does not support (`doc/variables.rst:129`) shows
up there. `m_workspace` is set before each of them, and before the third also the
registry entry and its server are made, as in the code. A set-up that throws returns no
actions. So if the *first* `AddVariable` of a workspace is refused, nobody tears down
the entry: it stays, with a server that has no process variables, calls nobody
back and was never started, until the next workspace at that address takes it over.
`LeftByRefusal` describes such an entry, and `RegistryReleased` says that it is
the only kind that outlives a workspace. `fault` records the three ways in which a program leaves its defined
behaviour: a null `m_server` is dereferenced, the registry throws in an action, a
lambda outlives its variable. Nothing is said about what follows.

The framework is not in this repository. Two points on which the plugin depends
are parameters: `TeardownOrders`, whether variables are torn down before or after
the actions run, and `RunsActionsAfterFailure`, whether a workspace whose set-up
failed runs the teardown actions it has collected. An instruction may use
variables of a workspace that is `new` or `failed`: the calls then throw or not
as the code does.

`PublishedVariables` says what the variables promise together, without servers,
registry, addresses or workspaces: each is a register of its own, which is published
with a value that its workspace knows at once, keeps the last value written, and
has each of its changes noticed by its workspace, once, in order, and in the type
of the variable (`View`). `SharingIsInvisible` is the refinement: a register is
published while its variable is `Wired`, and its unnoticed changes are those of its
channel in the event queue of its shared server (`ChannelValues`). It holds if
the teardown actions run before the variables are torn down (`TeardownOrders`):
in the other order the plain variable has lost its type when a late change
comes, which is what the run `server_variables_first` shows. That every change is
noticed is claimed of programs without a `fault`: after a failed set-up, a use of the
variable may dereference the null server, and then nothing runs any more.

### The registry, call by call

`PvAccessServerVariables` takes a call into the registry to be one step. The map has
no lock, so `SharedServerRegistry` asks when that is so. A call is in `find`,
`emplace`, `use` (of the reference or iterator) or `erase`; several threads may work
for one running workspace. Two threads race when one inserts or erases while the other
is in the map; `Next` stops there, since nothing can be said of a program after it.
The model then shows who can race, and that calls which do not race behave
as atomic ones. `GetServer` of a failed workspace is left out here; it
is in `PvAccessServerVariables`.

### Instructions

`ChannelInstructions` splits one `ExecuteSingle` into `InitHook`, `BeginExecute`
(the halt request and the clock are read) and `FinishExecute` (`m_pv` and the
workspace are used). In between, the network, other instructions and, with
`HaltsDuringTick`, a `Halt` can come; `pc = "interrupted"` marks a call that a
halt hit after its test. The four kinds differ where the code differs: the two
ChannelAccess instructions need a type in `InitHook`; `ChannelAccessWrite` fixes
its value there, `PvAccessWrite` reads it in each call; reads need a value,
writes only the connection. A value given by the attributes `type` and `value`
instead of a variable is one that no step changes. `left` is `m_finish - now` as a
countdown. `moved` and `since` are history: what this execution has written or
put, and what its source has held since it began.

`RPCClient` has a record for each detached thread in `calls`; `future` is
`m_future`. `current` and `served` are history. The server may execute a request
before or after the client gives up waiting for it (`Serve`), until the instruction
has taken the error reply; what it does with a request later than that concerns
no execution.

`OneShotInstruction` is what a procedure may rely on: an execution ends by itself;
it has its effect in the step that ends it; success means that it had it. Both
models are shown to implement it with the mappings `Call`
and `OneShotCall`, safety in any case and liveness as long as no null pointer or invalid
future has ended the program: an execution is `RUNNING` from the moment `InitHook` returns true.
An RPC may have its effect (the reply is written) and still fail, hence
`FailsWithEffect`.

### Client variables

`ClientPV` has the process variable (`channel`), what the client object has received
(`pv`), the report its thread is about to make (`report`) and what is on its way
to the network (`puts`). `TeardownImpl` and `TeardownType` are the two statements of
`TeardownImpl` in the code, since the other thread can run in between. Values of
ChannelAccess variables carry their types and fields (`ChannelAccessValues`);
those of PvAccess variables carry their form (`PvaValues`): a bare scalar, the
structure that a scalar is packed in, a structure, a structure with more members
than the type has (`"wide"`, which the conversion cuts down), and encoded text,
which may be garbage.

### Both ends of a channel

`PvAccessLink` puts the server variables of workspaces at one address and a client
variable of another workspace on one channel, as the functional ping-pong
procedures do. The client's `Network` is dropped: what the process variable does is
what the server does (`ServerEnd`, with `ChannelOn` reading the shared server's
record), and a put of the client variable is a `ClientPut` of the server
(`PutArrives`). `EndsAgree` is about the composition; `ClientEnvironment` says that
it implements `PvAccessClients` with its free `Network`, so that what is shown of
client variables alone holds of them when they face this server.

## 3. Runs

| Run | Instance | Shows |
|---|---|---|
| `server_variables` | 3 workspaces at 2 addresses, 5 variables of both classes, with and without type and value, scalar and structured, of which two cannot be set up and one may be refused; 2 payloads, 2 pending changes | running variables are served and stay wired, actions succeed, the registry is released, notifications catch up, the inductive invariant; implements `PublishedVariables` |
| `server_failure` | 5 variables that fail in each way (type, value, name that is taken, refusal), at one address, teardown actions dropped after a failure, both orders | null servers only after a failure, Reset of plain variables always safe |
| `server_variables_first` | as `server_variables`, both orders of teardown | **violation**: `NotifiesItsType` |
| `registry` | 3 workspaces, 4 threads, two of them in one workspace | only set-up and teardown race; references stay valid and no call throws |
| `link_ends` | a plain and then an encoded server variable at one address, the plain one possibly refused, repeated set-ups, and a client variable of either class, with and without type, on the channel of both; 2 payloads | both ends agree; no dangling callback; implements `PvAccessClients` |
| `channel_calls` | a `ChannelAccessRead` and a `PvAccessWrite` on one channel and one variable, 1 value, time-out 2 | nothing left behind; implements `OneShotInstruction` |
| `channel_halts` | a `PvAccessRead` and a `ChannelAccessWrite`, 2 values, time-out 1, halts at any time | null `m_pv` only by a concurrent halt; only fresh values move; the inductive invariant, with it that nothing empty is put |
| `channel_closed` | as `channel_calls`, time-out 1, a value from the attributes | **violation**: `ConnectionClosedAfterwards` |
| `rpc_calls` | 2 instructions, with and without output, 2 calls in flight, halts at any time | own replies only, served once, an invalid future only by a concurrent halt, the inductive invariant; implements `OneShotInstruction` |
| `rpc_replies` | the same, halts between calls only | **violation**: `OnlySuccessIsWritten` |
| `ca_client` | a variable of 7 types (scalar, structures with and without `value`, `connected`, convertible and inconvertible fields, empty) and an unparsable one; 2 values | notifications have the type and catch up (also as liveness); available reads are real |
| `pva_clients` | both classes, each type, process variables of 6 forms and contents | the same; notifications tell availability; writes are readable; usable process variables become available (liveness) |

Bounds. Three workspaces give every interaction through the registry: it happens
between two owners of one entry, one after the other, or between the owners of
two. The variables give a pair in one workspace (one key, one server), of which the
second to be set up, or the first, may be refused, a neighbour, and a successor at the
address of the pair whose set-up always fails, before or after them.
`MaxEvents` = 2 lets a change overtake an unreported one. In the
registry, the two threads of one workspace can look for and insert the same server,
and those of the two others meet a set-up with a set-up, a teardown and a plain
call. Instructions meet in pairs, through one variable, in both directions. A time-out of 2 has a tick before,
at and after the deadline; a time-out that is 0 when it is looked at is reached too.
Two calls in flight are the call of this execution and one left from an earlier
or another one. Two payloads suffice wherever a property compares two
values; payloads are never computed with. A client object has at most one put
on its way, which only bounds how far it can be behind.

The runs with `CHECK_DEADLOCK FALSE` stop where the program does: all workspaces
are destroyed, a fault has ended its defined behaviour, or two threads race.

### Fairness

- server variables: the server's thread reports what it has (`Deliver`). With it
  every change is noticed, unless a fault ends the program first, which is the
  fairness of `PublishedVariables`;
- instructions: a procedure calls an instruction that is RUNNING again, a call
  returns, time passes. Nothing is assumed of the network: `OneShot` holds with
  a channel that never appears, through the time-out;
- RPC: moreover a detached thread ends, since the client library has a time-out.
  Halts may come in the middle of a call; one that makes the call use an invalid future
  ends the program, and the execution with it;
- client variables: the client object's thread receives and reports. Connections
  are not assumed to last: the liveness properties are about a value that stays;
- both ends: none. `PvAccessLink` checks safety only; that a change at one end
  reaches the other follows from `ClientEnvironment`, with the fairness and the liveness
  properties of the client variables, and from `SharingIsInvisible` in the other
  direction;
- registry: none.

### What the violations show

1. `PvAccessServerVariable::TeardownImpl` empties `m_anytype` while its callback stays
   registered. The comment in `SetupImpl` says that dependence on the order of
   destruction is avoided; with variables torn down first, a change reported in between is
   notified as the packed structure instead of the variable's type.
2. The overview says that instructions close their connection immediately
   afterwards; it stays open until the instruction is reset or halted.
3. The manual says that a *successful* RPC reply is written; error replies are
   written too, before the instruction fails.

## 4. Proofs

Every theorem holds for all values of the constants that satisfy the named
assumptions of its modules. The pattern is always the same: `TypeOK` first; then
an inductive invariant, of which TLC was asked before it was proved; then the
properties from it. Each step of `Next` gets a lemma or a proof step, with one
step per conjunct that it can disturb. Fairness is not used anywhere: the
theorems follow from `Init /\ [][Next]_vars`.

### `PvAccessServerVariablesProofs`

From `PayloadAssumption`, `SharedServerAssumption`, `ConfigurationAssumption`,
`AttributeAssumption` and `ChannelAssumption`:

| Theorem | States |
|---|---|
| `TypeCorrect` | `Spec => []TypeOK` |
| `WiringInvariant` | `Spec => []WiringInv` |
| `RunningVariablesAreServed` | `Spec => []ServedWhileRunning` |
| `RegistryActionsSucceed` | `Spec => []ActionsFindTheirServer` |
| `NullServerNeedsFailure` | `Spec => []NullServerOnlyAfterFailure` |
| `PlainResetSucceeds` | `Spec => PlainResetIsSafe` |
| `WiringStaysPut` | `Spec => WiringIsStable` |

`ServedWhileRunning` is not inductive: whether a started server serves `v` depends
on what `v`'s set-up left in the registry and on nobody having removed it since. The
inductive invariant is `WiringInv`:

- `ExclusiveAddresses`: two live workspaces never share an address, so that an
  entry belongs to one of them;
- `ActionsAreBacked`: a workspace with actions has exactly the one key, and an
  entry. With two keys the second teardown would throw: this is where the
  shared key is used;
- `SetupProgress`: during a set-up, each variable that is done is wired;
- `VariablesServed`: in a running workspace, all are;
- `VariablesBound`: `m_workspace` and `m_anytype` are set at most between the set-up and the
  teardown of a variable, so that no call creates an entry for a dead workspace;
- `FailedPlainHasServer`: a plain variable of a failed set-up with a type and a
  value that parses got as far as `AddVariable`, or found the server there.

Each action preserves each part, in lemmas by groups of actions (the owner's, set-up,
calls of variables, the server's thread). `WiringStaysPut` shows of every action that
it keeps the callbacks and the set of process variables of a server whose
workspace runs before and after it.

### `PvAccessNotificationsProofs`

From the same, and `RunsActionsAfterFailure` as a hypothesis of each theorem;
`NotifiedTypes` and `VariablesAreRegisters` have also
`"variables first" \notin TeardownOrders`.

| Theorem | States |
|---|---|
| `NotificationsAgree` | `Spec => []NotificationsCatchUp` |
| `NothingStaysBehind` | `Spec => []RegistryReleased` |
| `NoDanglingCallback` | `Spec => []NoCallbackIntoDestroyedVariable` |
| `NotifiedTypes` | `Spec => []NotifiesItsType` |
| `VariablesAreRegisters` | `Spec => Registers!PubSafety` |

Both hypotheses are needed. A workspace that drops its actions after a failed set-up
leaves its entry to whatever is next at its address; and `NotifiesItsType` is the
property that the run `server_variables_first` violates. The inductive invariant
of the first three is `WiringInv` with `ReportInv`:

- `OwnedInv`: each entry belongs to a workspace that is alive and, as long as nothing
  has gone wrong, has collected the action that will remove it, or is what a refused
  first `AddVariable` left;
- `CallbackInv`: a server has the process variables of its own workspace only, each with
  the callback of the variable that added it;
- `QueueInv`: a change in the queue is the value of its process variable or has
  a later change of the same channel behind it;
- `CatchUpInv`: a variable with no change in the queue was last told what it reads.

`NotifiedTypes` adds `ServersAreTyped`: the process variable of a plain variable, and
each change of it in the queue, has the form that its type is published in, and
`m_anytype` is still there to undo it.

`VariablesAreRegisters` is the safety part of `SharingIsInvisible`: each step of the
shared servers is a `Publish`, `Write` or `Notice` of one register, a `Withdraw` of all
those of a workspace, or a stutter. It stands on all of the above and on
`EntriesHaveServers`: until a fault, the registry has no entry without
a server, so that no variable finds one that a failed set-up left null. The mapping reads
the changes of a channel off the queue of the shared server by a recursive function,
`ChannelValues`. That this function exists for every queue (`OwnExists`), and
what it gives when a change is put behind the queue or taken from its front
(`AppendChannelValues`, `TailChannelValues`), is an induction on the length of
the queue. The provers cannot instantiate the library's induction principle, so `UpTo` has
it in terms of sets: the numbers that have a property are a set, and if some number
up to `n` is not in it, then there is a least one. The step lemmas then say for each action
what it does to the register of one variable (`SetupPublishes`, `ValueStepWrites`,
`DeliverNotices`) and that it leaves all others as they were (`SameOwn`).

### `PvAccessLinkProofs`

From `LinkAssumption`, the assumptions of the server variables, and
`RunsActionsAfterFailure` as a hypothesis:

| Theorem | States |
|---|---|
| `ServersAreGoodNetwork` | `LinkSpec => ClientEnvironment` |
| `BothEndsAgree` | `LinkSpec => []EndsAgree` |
| `ClientKeepsItsPromises` | `LinkSpec => []` of `NotifiesItsType`, `NotificationCatchesUp` and `AvailabilityIsNotified` of the client variable |
| `ServersKeepTheirPromises` | `LinkSpec => [](NoCallbackIntoDestroyedVariable /\ RegistryReleased)` |

The last of them has the exception of `RegistryReleased`: an unstarted server without
process variables. `LinkInv` adds to `WiringInv`, `ReportInv` and `EntriesHaveServers`:

- `ServersHold`: a server that has a callback for a channel is not null, and its value is
  one that the variable behind the callback may have published (`Holds`). With
  `StartedAfterSetup` this gives what a client relies on: the process variable
  keeps its type while it is up, since a server is started only when it is complete, and
  whoever comes next on the channel comes with another server;
- `TypesAreOwn`, `SetUpTypesAccepted`: `m_anytype` is the type of the attribute, so that
  both ends convert with the type that the value was published in;
- `ChannelInv`: what the client sees of the channel is what the server has.

The argument is one of assumption and guarantee. `LinkInv` is about the servers
and the channel only, and each step from it is one of the client model
(`StepOfBothEnds`); this is `ServersAreGoodNetwork`. So the theorems about client
variables apply: `ClientTheory` instantiates `PvAccessClientsProofs`, whose
assumptions the values of a server meet (`ClientAssumptionsHold`), and
`SameObject` to `SamePromises` say that its definitions and those of `Client` agree.
`BothEndsAgree` then puts together `CatchUpInv` of the one end and `NotifiedInv` of the
other through the two conversions (`PlainConversions`).

### `SharedServerRegistryProofs`

From `HomeAssumption`, by `RegistryInv`, which says who can be where in the map:

| Theorem | States |
|---|---|
| `RegistryRaces` | `Spec => []RacesNeedSetupOrTeardown` |
| `RegistryReferences` | `Spec => []ReferencesStayValid` |
| `RegistryCalls` | `Spec => []CallsDoNotThrow` |

### `ChannelInstructionsProofs`

From `InstructionAssumption`:

| Theorem | States |
|---|---|
| `TypeCorrect` | `Spec => []TypeOK` |
| `ExecutionInvariant` | `Spec => []ExecutionInv` |
| `NoNullPVOtherwise` | `Spec => []NullPVOnlyByHalt` |
| `NothingIsKept` | `Spec => []IdleHoldsNothing` |
| `NothingStaleIsMoved` | `Spec => MovesFreshValue` |
| `OneShotCalls` | `Spec => Call!OneShotSafety` |

None of the three properties is inductive. `ExecutionInv` says of each instruction:

- `HoldsConnection`: whoever is being executed and has not been halted has a
  connection; a call past its test of the halt request was not halted then. So
  a null `m_pv` there means a `Halt` after the test;
- `Released`, `KeepsNoValue`: what is empty between two executions, and which
  instructions never keep a value;
- `HoldsFreshValue`: during an execution, what the source holds, what the connection
  has received and what was taken from the variable are all in `since`, the
  values that the source has held in this execution (`HasValueToPut`: and what a
  write is about to put is not the empty value). A step of another
  instruction may change a source, so each step has to keep it for all instructions:
  `UntouchedInv` does this for those that the step does not concern.

`OneShotCalls` is the safety part of the refinement: the initial states map to those
of `OneShotInstruction`, and each step maps to `Start`, `Succeed`, `Fail`, `Reset` or
nothing, for each instruction.

### `RPCClientProofs`

From `RPCAssumption`, for any number of instructions and calls in flight, with
and without halts from other threads:

| Theorem | States |
|---|---|
| `TypeCorrect` | `Spec => []TypeOK` |
| `CallInvariant` | `Spec => []CallInv` |
| `OwnCalls` | `Spec => []WaitsForItsOwnCall` |
| `OncePerExecution` | `Spec => []ServedOncePerExecution` |
| `HaltIsNeeded` | `Spec => []InvalidFutureOnlyByHalt` |
| `OneShotCalls` | `Spec => OneShotCall!OneShotSafety` |

`CallInv`: an execution that is not halted holds the future of the one call that it
made (`HoldsFuture`, `CallsOnce`), and only a call that was served has a
successful reply (`RepliesAreServed`).

### `PvAccessClientsProofs`, `ChannelAccessClientProofs`

From `ClientPVAssumption` and `ClientAssumption`, or `ScalarAssumption` and
`TypeAssumption`:

| Module | Theorem | States |
|---|---|---|
| both | `TypeCorrect` | `Spec => []TypeOK` |
| both | `NotifiedTypes` | `Spec => []NotifiesItsType` |
| both | `CatchesUp` | `Spec => []NotificationCatchesUp` |
| `PvAccessClientsProofs` | `Availability` | `Spec => []AvailabilityIsNotified` |
| `PvAccessClientsProofs` | `Writes` | `Spec => WritesAreReadable` |
| `ChannelAccessClientProofs` | `RealReads` | `Spec => []AvailableReadsAreReal` |

The invariant has `LifeInv` (the client object lives as long as the variable runs, and
`m_anytype` at least as long as the object), `ReportInv` (what is being reported is
what the object knows), `NotifiedInv` (the last notification is about the last
report) and, for ChannelAccess, `HeldInv` (what was received was held). That
`ConvertToTypedAnyValue` returns the empty value or one of the type that was
asked for is a lemma of its own.

### Only model-checked

All invariants and action properties of the runs are proved, and both refinements
as far as they are about safety. What remains is liveness under fairness, which is out
of the provers' reach: the liveness parts of the two `OneShot` and of
`SharingIsInvisible`, and `ChangesAreNotified` and `UsableBecomesAvailable`. In
`channel_calls` halts come between two calls only, since after a null pointer has been
used, nothing ends any more; `rpc_calls` has halts at any time and claims
liveness for the behaviours without a fault.

The hypotheses of the theorems are those under which the runs check the same
properties: `server_variables` and `link_ends` have `RunsActionsAfterFailure = TRUE`
and `TeardownOrders = {"actions first"}`.

## 5. What is not modelled

- What a race on the registry does: `SharedServerRegistry` finds the races, and
  which calls cannot race, but a race on a `std::map` has no outcomes to enumerate.
- Two server variables of one workspace with one channel (`ChannelAssumption`):
  what the EPICS server does with a name it has already cannot be seen here.
- The wrap-around of `m_finish`, a sum of unsigned 64-bit numbers: the clock is a
  countdown.
- A connection that is lost between `IsConnected()` and `GetValue()` of a client
  variable: `GetValueImpl` is one step; the value that is then read is one that a
  read just before would have given.
- The number of threads that halted RPCs leave behind: `CallId` bounds it.
- Contents of values beyond type, fields and identity; JSON parsing; whether
  a particular conversion between scalar types succeeds (`Convertible` for ChannelAccess
  variables, a free choice for instructions). `ChannelAccessRead` converts the value
  to the type of the output variable and then writes the unconverted one
  (`ca/channel_access_read_instruction.cpp:127`); whether that assignment succeeds is
  up to `sup::dto`, and free in the model. Its `InitHook` fails if the output variable
  has no type yet (`:80`), so the example of `doc/instructions.rst:38`, which reads
  into a `Local` without a type, depends on what an untyped `Local` returns.
- `RPCClient`: an exception thrown by the client library inside the detached
  thread, which `m_future.get()` would rethrow.
- Read and write instructions whose workspace variable is itself a network variable:
  in `ChannelInstructions` the workspace holds plain values.
- Registration of types at load time, logging, build files.

## 6. Plan

Done: server variables, their shared server and the registry, the latter also call by
call; read and write instructions; RPC client; client variables; the composition of
both ends of a channel; the abstract specifications of executions and of published
variables; proofs of all safety invariants and action properties, of the safety part of
each refinement, and of the composition.

Next: procedures of several instructions over one workspace, that is, a sequence that
writes and then reads a client variable, with the notifications of `PvAccessLink`.
