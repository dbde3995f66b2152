------------------------ MODULE PvAccessSharedServer ------------------------
(***************************************************************************)
(* class PvAccessSharedServer: the PvAccess server that all the server     *)
(* variables of one workspace share, with the callback of each variable.   *)
(*                                                                         *)
(* An object is a record:                                                  *)
(*   server     m_server: "null", or the state of the sup::epics server    *)
(*   pvs        the process variables of *m_server and their values        *)
(*   events     the changes of those values that *m_server has not yet     *)
(*              reported to its callback                                   *)
(*   callbacks  m_var_callbacks: the variable whose lambda is registered   *)
(* pvs and events belong to the external sup::epics::PvAccessServer and    *)
(* die with it; callbacks belongs to the object itself.                    *)
(***************************************************************************)
EXTENDS Sequences, PvaValues

CONSTANTS Channel,     \* channel names
          Variable,    \* server variables (objects, never reused)
          NoVariable,  \* no callback registered
          NoPV         \* no process variable with that name

ASSUME SharedServerAssumption == /\ NoVariable \notin Variable
                                 /\ NoPV \notin AnyValue

Event == [channel : Channel, value : AnyValue]

SharedServer == [server    : {"null", "stopped", "started"},
                 pvs       : [Channel -> AnyValue \cup {NoPV}],
                 events    : Seq(Event),
                 callbacks : [Channel -> Variable \cup {NoVariable}]]

\* PvAccessSharedServer::PvAccessSharedServer
NewSharedServer == [server    |-> "null",
                    pvs       |-> [c \in Channel |-> NoPV],
                    events    |-> << >>,
                    callbacks |-> [c \in Channel |-> NoVariable]]

Serves(s, c) == s.server # "null" /\ s.pvs[c] # NoPV

-----------------------------------------------------------------------------
EnsureServer(s) == IF s.server = "null" THEN [s EXCEPT !.server = "stopped"] ELSE s

AddVariable(s, c, start_val, v) ==
  [EnsureServer(s) EXCEPT !.pvs[c] = start_val, !.callbacks[c] = v]

\* Setup(): the sup::epics server publishes its process variables.
StartServer(s) == [EnsureServer(s) EXCEPT !.server = "started"]

\* Teardown(): destroys *m_server; the callbacks stay in the map.
ResetServer(s) == [s EXCEPT !.server = "null",
                            !.pvs    = [c \in Channel |-> NoPV],
                            !.events = << >>]

\* Mutant: the last change is reported first.
ChangeMutant(s, c, value) ==
  [s EXCEPT !.pvs[c] = value,
            !.events = <<[channel |-> c, value |-> value]>> \o @]

\* A change of a process variable, by SetValue or by a client, is stored and
\* then reported to the callback that EnsureServer handed to the server.
Change(s, c, value) ==
  [s EXCEPT !.pvs[c] = value,
            !.events = Append(@, [channel |-> c, value |-> value])]

\* SetValue(): a name that the server does not know is refused.
SetServerValue(s, c, value) == IF Serves(s, c) THEN Change(s, c, value) ELSE s

\* Mutant: the name of the channel is not looked at.
CallbackTargetMutant(s) ==
  LET known == {s.callbacks[c] : c \in Channel} \ {NoVariable}
  IN IF known = {} THEN NoVariable ELSE CHOOSE v \in known : TRUE

\* DelegateCallbacks(): who is called for the oldest unreported change.
CallbackTarget(s) == s.callbacks[Head(s.events).channel]

\* What a client can put into a process variable: its type is fixed, but the
\* strings of an encoded one are the client's.
ClientValues(value) ==
  IF value.form \in {"encoded", "garbage"}
  THEN [form : {"encoded"}, val : Payload \cup {NoPayload}]
         \cup {[form |-> "garbage", val |-> NoPayload]}
  ELSE [form : {value.form}, val : Payload]
==============================================================================
