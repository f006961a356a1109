------------------------------- MODULE Status -------------------------------
(***************************************************************************)
(* What the game server is told of the user: talking, microphone muted,    *)
(* speakers muted.  TeamSpeak knows the truth and reports each change as   *)
(* an event (teamspeakPlugin.cpp); the client keeps copies and sends them  *)
(* in status packets (client.cpp).                                         *)
(*                                                                         *)
(*   "plugin"  TeamSpeak's event thread, which stores a reported value and *)
(*             sends a packet;                                             *)
(*   "update"  the update thread, which mutes the speakers while it joins  *)
(*             the game channel, then asks TeamSpeak for the initial       *)
(*             status, stores it and sends a packet.                       *)
(*                                                                         *)
(* Nothing orders the two.  Only what they do to the copies is modelled:   *)
(* module Client has the life of the connection, Session the rest of what  *)
(* the handshake does.  Status packets use one reliable channel, so the    *)
(* server has at last what was sent last.                                  *)
(***************************************************************************)
EXTENDS Naturals

CONSTANTS
  NoDevice,   \* the sound devices that are disabled or deactivated
  MayFail,    \* what TeamSpeak may refuse
  MaxPending  \* bounds the events of one flag that wait for delivery

Mutes == {"microphone", "speakers"}
Flags == {"talking"} \cup Mutes

ASSUME StatusAssumption ==
  /\ NoDevice \subseteq Mutes
  /\ MayFail \subseteq {"server", "query", "move"}
  /\ MaxPending \in Nat \ {0}

VARIABLES
  real,      \* TeamSpeak: the flags as they are
  pending,   \* TeamSpeak: the number of changes not yet reported
  flags,     \* _talking, _microphoneMuted, _speakersMuted
  handle,    \* _serverConnectionHandler is set
  running,   \* isOpen()
  sent,      \* the last status packet
  pc,        \* where each thread is
  packet,    \* the packet each thread is filling
  temp,      \* tempMute
  answer,    \* what TeamSpeak answered the update thread
  event,     \* the event being handled: a flag and its new value
  vouched,   \* history: the flags this connection has told since an event or
             \* the initial status, with no report lost since
  met        \* history: both threads were storing or sending at a time

teamspeak == <<real, pending>>
link      == <<handle, running>>
locals    == <<packet, temp, answer, event>>
system    == <<teamspeak, flags, link, sent, pc, locals, vouched>>
vars      == <<system, met>>

ThreadIds == {"update", "plugin"}

\* sendStatus() reads the flags in this order.
AfterRead == [talking    |-> "microphone",
              microphone |-> "speakers",
              speakers   |-> "post"]

Sending == Flags \cup {"post"}
Labels  == Sending \cup {"closed", "idle", "search", "output", "hush", "move",
             "unhush", "ask.microphone", "store.microphone", "ask.speakers",
             "store.speakers", "set"}

Goto(t, label) == pc' = [pc EXCEPT ![t] = label]

\* TeamSpeak gives a flag a value: a change is reported later.
Give(f, value) ==
  /\ real' = [real EXCEPT ![f] = value]
  /\ pending' = IF real[f] = value THEN pending
                                   ELSE [pending EXCEPT ![f] = @ + 1]

\* ts3_isInputMuted() and ts3_isOutputMuted(): a device that is off counts as
\* muted, an error as not muted.
Answers(f) ==
  {real[f] \/ f \in NoDevice}
    \cup (IF "query" \in MayFail THEN {FALSE} ELSE {})

NoPacket == [f \in Flags |-> FALSE]
NoEvent  == [flag |-> "talking", value |-> FALSE]

Init ==
  /\ real \in [Flags -> BOOLEAN]
  /\ pending = [f \in Flags |-> 0]
  /\ flags = NoPacket /\ sent = NoPacket
  /\ handle = FALSE /\ running = FALSE
  /\ pc = [t \in ThreadIds |-> IF t = "update" THEN "closed" ELSE "idle"]
  /\ packet = [t \in ThreadIds |-> NoPacket]
  /\ temp = FALSE /\ answer = FALSE /\ event = NoEvent
  /\ vouched = {} /\ met = FALSE

-----------------------------------------------------------------------------
(* Faulty forms of some of the actions below.                              *)

\* The packet is filled before the new value is stored.
SetAfterSend ==
  /\ pc["plugin"] = "set"
  /\ flags' = [flags EXCEPT ![event.flag] = event.value]
  /\ packet' = [packet EXCEPT !["plugin"] = flags]
  /\ Goto("plugin", "post")
  /\ UNCHANGED <<teamspeak, link, sent, temp, answer, event, vouched>>

\* The answer is not stored: the status of the last connection is sent.
StoreNothing(f, here, next) ==
  /\ pc["update"] = here
  /\ answer' = FALSE
  /\ Goto("update", next)
  /\ UNCHANGED <<teamspeak, flags, link, sent, packet, temp, event, vouched>>

\* Any variable of the client is taken for one of the flags.
TakeUnfiltered(f) ==
  /\ pc["plugin"] = "idle"
  /\ pending[f] > 0
  /\ pending' = [pending EXCEPT ![f] = @ - 1]
  /\ IF handle /\ running
     THEN event' = [flag |-> "away", value |-> TRUE] /\ Goto("plugin", "set")
     ELSE UNCHANGED <<event, pc>>
  /\ UNCHANGED <<real, flags, link, sent, packet, temp, answer, vouched>>

-----------------------------------------------------------------------------
(* sendStatus(), which either thread runs.                                 *)

ReadFlag(t, f) ==
  /\ pc[t] = f
  /\ packet' = [packet EXCEPT ![t][f] = flags[f]]
  /\ Goto(t, AfterRead[f])
  /\ UNCHANGED <<teamspeak, flags, link, sent, temp, answer, event, vouched>>

\* The plugin's packet vouches for the flag that was reported, the initial one
\* for those TeamSpeak was asked about.
PostPacket(t) ==
  /\ pc[t] = "post"
  /\ sent' = packet[t]
  /\ packet' = [packet EXCEPT ![t] = NoPacket]
  /\ vouched' = IF handle /\ running
                THEN vouched \cup IF t = "update" THEN Mutes ELSE {event.flag}
                ELSE vouched
  /\ event' = IF t = "plugin" THEN NoEvent ELSE event
  /\ Goto(t, "idle")
  /\ UNCHANGED <<teamspeak, flags, link, temp, answer>>

SendStatus(t) == PostPacket(t) \/ \E f \in Flags : ReadFlag(t, f)

-----------------------------------------------------------------------------
(* The plugin thread: onTalkStatusChangeEvent(), onClientSelfVariable-     *)
(* UpdateEvent().                                                          *)

\* The changes of a flag alternate, and the last one made it what it is.
Reported(f) == IF pending[f] % 2 = 1 THEN real[f] ELSE ~real[f]

\* An event of another server than ours, or without a connection, is dropped.
TakeEvent(f) ==
  /\ pc["plugin"] = "idle"
  /\ pending[f] > 0
  /\ pending' = [pending EXCEPT ![f] = @ - 1]
  /\ IF handle /\ running
     THEN event' = [flag |-> f, value |-> Reported(f)] /\ Goto("plugin", "set")
     ELSE UNCHANGED <<event, pc>>
  /\ UNCHANGED <<real, flags, link, sent, packet, temp, answer, vouched>>

\* setTalking(), setMicrophoneMuted(), setSpeakersMuted().
SetFlag ==
  /\ pc["plugin"] = "set"
  /\ flags' = [flags EXCEPT ![event.flag] = event.value]
  /\ Goto("plugin", "talking")
  /\ UNCHANGED <<teamspeak, link, sent, locals, vouched>>

PluginStep ==
  (\E f \in Flags : TakeEvent(f)) \/ SetFlag \/ SendStatus("plugin")

-----------------------------------------------------------------------------
(* The update thread: handleHandshakeResponse().                           *)

\* ts3_verifyServer() forgets the server first: reports are dropped from here.
BeginHandshake ==
  /\ pc["update"] = "idle" /\ running
  /\ pending["speakers"] < MaxPending
  /\ handle' = FALSE
  /\ vouched' = {}
  /\ Goto("update", "search")
  /\ UNCHANGED <<teamspeak, flags, running, sent, locals>>

FindServer ==
  /\ pc["update"] = "search"
  /\ \/ handle' = TRUE /\ Goto("update", "output")
     \/ "server" \in MayFail /\ Goto("update", "idle") /\ UNCHANGED handle
  /\ UNCHANGED <<teamspeak, flags, running, sent, locals, vouched>>

CheckOutput ==
  /\ pc["update"] = "output"
  /\ \E muted \in Answers("speakers") :
       temp' = ~muted /\ Goto("update", IF muted THEN "move" ELSE "hush")
  /\ UNCHANGED <<teamspeak, flags, link, sent, packet, answer, event, vouched>>

\* ts3_setOutputMuted(): TeamSpeak reports this change as well.
Hush ==
  /\ pc["update"] = "hush"
  /\ Give("speakers", TRUE)
  /\ Goto("update", "move")
  /\ UNCHANGED <<flags, link, sent, locals, vouched>>

\* A refused move leaves the speakers as they are.
MoveToGame ==
  /\ pc["update"] = "move"
  /\ \/ Goto("update", IF temp THEN "unhush" ELSE "ask.microphone")
     \/ "move" \in MayFail /\ Goto("update", "idle")
  /\ temp' = FALSE
  /\ UNCHANGED <<teamspeak, flags, link, sent, packet, answer, event, vouched>>

Unhush ==
  /\ pc["update"] = "unhush"
  /\ Give("speakers", FALSE)
  /\ Goto("update", "ask.microphone")
  /\ UNCHANGED <<flags, link, sent, locals, vouched>>

\* _microphoneMuted = ts3_isInputMuted(), then the same of the speakers: each
\* is a question and a store.
Ask(f, here, next) ==
  /\ pc["update"] = here
  /\ answer' \in Answers(f)
  /\ Goto("update", next)
  /\ UNCHANGED <<teamspeak, flags, link, sent, packet, temp, event, vouched>>

Store(f, here, next) ==
  /\ pc["update"] = here
  /\ flags' = [flags EXCEPT ![f] = answer]
  /\ answer' = FALSE
  /\ Goto("update", next)
  /\ UNCHANGED <<teamspeak, link, sent, packet, temp, event, vouched>>

InitialStatus ==
  \/ Ask("microphone", "ask.microphone", "store.microphone")
  \/ Store("microphone", "store.microphone", "ask.speakers")
  \/ Ask("speakers", "ask.speakers", "store.speakers")
  \/ Store("speakers", "store.speakers", "talking")

UpdateStep ==
  \/ FindServer \/ CheckOutput \/ Hush \/ MoveToGame \/ Unhush
  \/ InitialStatus \/ SendStatus("update")

-----------------------------------------------------------------------------
(* The connection, and the user.                                           *)

\* A new connection: the copies, and the server found, are the old ones.
Connect ==
  /\ pc["update"] = "closed"
  /\ running' = TRUE
  /\ Goto("update", "idle")
  /\ UNCHANGED <<teamspeak, flags, handle, sent, locals, vouched>>

\* Another thread's abortThread(), at any time: reports are dropped from here.
Abort ==
  /\ running' = FALSE /\ running
  /\ vouched' = {}
  /\ UNCHANGED <<teamspeak, flags, handle, sent, pc, locals>>

\* The game server forgets who has left.
Lose ==
  /\ pc["update"] = "idle"
  /\ running' = FALSE
  /\ sent' = NoPacket /\ vouched' = {}
  /\ Goto("update", "closed")
  /\ UNCHANGED <<teamspeak, flags, handle, locals>>

UserChanges(f) ==
  /\ pending[f] < MaxPending
  /\ Give(f, ~real[f])
  /\ UNCHANGED <<flags, link, sent, pc, locals, vouched>>

\* Both threads are storing flags or sending them.
Overlap ==
  /\ pc["plugin"] \in Sending \cup {"set"}
  /\ pc["update"] \in Sending \cup {"store.microphone", "ask.speakers",
                                     "store.speakers"}

Next ==
  /\ \/ Connect \/ Abort \/ Lose \/ BeginHandshake
     \/ UpdateStep
     \/ PluginStep
     \/ \E f \in Flags : UserChanges(f)
  /\ met' = (met \/ Overlap')

Spec == Init /\ [][Next]_vars

-----------------------------------------------------------------------------
(* Properties.                                                             *)

TypeData ==
  /\ real \in [Flags -> BOOLEAN] /\ pending \in [Flags -> Nat]
  /\ flags \in [Flags -> BOOLEAN] /\ sent \in [Flags -> BOOLEAN]
  /\ handle \in BOOLEAN /\ running \in BOOLEAN
  /\ packet \in [ThreadIds -> [Flags -> BOOLEAN]]
  /\ temp \in BOOLEAN /\ answer \in BOOLEAN
  /\ event \in [flag : Flags, value : BOOLEAN]
  /\ vouched \subseteq Flags

TypePlaces ==
  /\ pc \in [ThreadIds -> Labels]
  /\ pc["plugin"] \in Sending \cup {"idle", "set"}
  /\ pc["update"] \in Labels \ {"set"}

\* Every variable has its type, and a thread is where it can be.
TypeOK == TypeData /\ TypePlaces /\ met \in BOOLEAN

Settled == pc["update"] = "idle" /\ pc["plugin"] = "idle"

\* Of a flag that this connection has told, the game server has the truth as
\* soon as TeamSpeak's reports of it are delivered and nothing is being done:
\* the initial status and the reports around it, those of the temporary mute
\* included, lose no change.  Only when the two threads stored or sent at the
\* same time may the server be left with an old value (client.cpp:462).
StatusIsTrue ==
  Settled /\ ~met =>
    \A f \in vouched \ NoDevice : pending[f] = 0 => sent[f] = real[f]
=============================================================================
