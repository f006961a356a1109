------------------------------ MODULE Session ------------------------------
(***************************************************************************)
(* What a voice session does to the user's TeamSpeak client: the packet     *)
(* handlers and the end of close() (client.cpp), the TeamSpeak wrapper     *)
(* (teamspeak.cpp) and the move event (teamspeakPlugin.cpp).               *)
(*                                                                         *)
(* Two threads call the wrapper with no lock between them:                 *)
(*   "update"  the update thread, or the one that runs close() after it:   *)
(*             module Client shows that there is one of them at a time;    *)
(*   "plugin"  TeamSpeak's event thread.  TeamSpeak changes its picture of *)
(*             the world in this thread, so not while a handler runs.      *)
(*                                                                         *)
(* The game server sends any packet at any time.  A call that TeamSpeak    *)
(* may refuse is named in MayFail.  A channel move is a request that       *)
(* TeamSpeak carries out later; a subscription is waited for.  The game    *)
(* server of this model assigns one channel; the user has one TeamSpeak    *)
(* server, the right one when it is found.                                 *)
(***************************************************************************)
EXTENDS FiniteSets, Naturals

CONSTANTS
  Others,     \* the other TeamSpeak clients
  Channels,   \* the TeamSpeak channels
  Home,       \* where the user is at first
  Game,       \* the channel the game server assigns
  Names,      \* the nicknames the game server orders
  Own,        \* the user's own nickname
  Null,       \* no channel, no nickname: 0 and ""
  MayFail     \* the calls that TeamSpeak may refuse

ASSUME SessionAssumption ==
  /\ {Home, Game} \subseteq Channels /\ Null \notin Channels
  /\ Null \notin Names \cup {Own}
  /\ MayFail \subseteq {"server", "query", "move", "list", "mute", "unmute",
                        "rename"}

VARIABLES
  \* TeamSpeak
  me,           \* the user's channel
  moving,       \* the channel the user is about to be moved to
  where,        \* the channel of each other client
  out,          \* the headphones are muted
  nick,         \* the user's nickname
  muted,        \* the clients that are muted for the user
  placed,       \* the clients whose 3D position is not the origin
  \* the plugin
  handle,       \* _serverConnectionHandler is set
  cache,        \* _mutedClients
  original,     \* _originalNickname
  lastChannel,  \* _lastChannelId
  known,        \* _teamspeakId is set
  running,      \* _running
  \* the threads
  pc,
  call,         \* the current ts3_muteClients() of each thread
  saved, temp,  \* lastChannelId and tempMute of handleHandshakeResponse()
  todo,         \* the clients a handler has still to deal with
  event,        \* the move being reported: who, from, to
  \* history, for the properties only
  wish,         \* the user's own choice for the headphones
  joined,       \* a handshake succeeded, and its close() is not over
  met           \* the threads have met in the list of muted clients

sound  == <<out, wish>>
names  == <<nick, original>>
mutes  == <<muted, cache>>
places == <<me, moving, where>>
room   == <<lastChannel, known, running, joined>>
locals == <<saved, temp, todo>>
system == <<sound, names, mutes, places, room, placed, handle, pc, call,
            locals, event>>
vars   == <<system, met>>

ThreadIds == {"update", "plugin"}

UpdateLabels == {"closed", "idle", "search", "save", "output", "hush", "move",
                 "subscribe", "list", "each", "unhush", "commit", "last",
                 "unmutes", "place", "restore", "moveback", "relist", "await",
                 "listback", "reset", "unmuteall", "clear", "rename"}
PluginLabels == {"idle", "event", "moved"}
CallLabels   == {"request", "record"}
Labels       == UpdateLabels \cup PluginLabels \cup CallLabels

\* A call of ts3_muteClients(): for whom, which way, and where it returns to.
Calls == [who : SUBSET Others, mute : BOOLEAN, ret : Labels]

Goto(t, label) == pc' = [pc EXCEPT ![t] = label]

\* A call of TeamSpeak's that may be refused, or has no server to go to.
Fails(what) == what \in MayFail \/ ~handle

\* isIngame(), of a client that has a game id.
IsIngame == running /\ known

\* Local variables die with the function: a dead one has a fixed value.
NoCall  == [who |-> {}, mute |-> TRUE, ret |-> "idle"]
NoEvent == [who |-> Null, from |-> Home, to |-> Home]
Forget  == saved' = Null /\ temp' = FALSE /\ UNCHANGED todo

Init ==
  /\ me = Home /\ moving = Null
  /\ where \in [Others -> Channels]
  /\ out \in BOOLEAN /\ wish = out
  /\ nick = Own /\ original = Null
  /\ muted = {} /\ cache = {} /\ placed = {}
  /\ handle = FALSE
  /\ lastChannel = Null /\ known = FALSE /\ running = FALSE /\ joined = FALSE
  /\ pc = [t \in ThreadIds |-> IF t = "update" THEN "closed" ELSE "idle"]
  /\ call = [t \in ThreadIds |-> NoCall]
  /\ saved = Null /\ temp = FALSE /\ todo = {}
  /\ event = NoEvent
  /\ met = FALSE

-----------------------------------------------------------------------------
(* Faulty forms of some of the actions below.                              *)

\* A set of clients is remembered as muted whatever was asked of TeamSpeak.
RecordNothing(t) ==
  /\ pc[t] = "record"
  /\ Goto(t, call[t].ret)
  /\ call' = [call EXCEPT ![t] = NoCall]
  /\ UNCHANGED <<sound, names, mutes, places, room, placed, handle, locals,
                 event>>

\* The nickname to return to is overwritten by every renaming.
RenameOverwrites(n) ==
  /\ pc["update"] = "idle" /\ running
  /\ handle /\ nick # n
  /\ original' = nick
  /\ nick' = n
  /\ UNCHANGED <<sound, mutes, places, room, placed, handle, pc, call, locals,
                 event>>

\* The loop that mutes everybody does not advance.
MuteEachAgain ==
  /\ pc["update"] = "each"
  /\ IF todo = {}
     THEN Goto("update", "unhush") /\ UNCHANGED call
     ELSE \E o \in todo :
            /\ call' = [call EXCEPT !["update"] =
                          [who |-> {o}, mute |-> TRUE, ret |-> "each"]]
            /\ Goto("update", "request")
  /\ UNCHANGED <<sound, names, mutes, places, room, placed, handle, locals,
                 event>>

\* The list of muted clients is emptied before it is used.
UnmuteNobody ==
  /\ pc["update"] = "unmuteall"
  /\ Goto("update", "clear")
  /\ UNCHANGED <<sound, names, mutes, places, room, placed, handle, call,
                 locals, event>>

\* close() waits to be back in the channel it has just forgotten.
RelistWhenBack ==
  /\ pc["update"] = "relist"
  /\ me = lastChannel
  /\ saved' = me
  /\ Goto("update", "await")
  /\ UNCHANGED <<sound, names, mutes, places, room, placed, handle, call,
                 temp, todo, event>>

\* A move event's arguments are gone before they are used.
CheckEventForgets ==
  /\ pc["plugin"] = "event"
  /\ Goto("plugin", IF handle /\ IsIngame THEN "moved" ELSE "idle")
  /\ event' = NoEvent
  /\ UNCHANGED <<sound, names, mutes, places, room, placed, handle, call,
                 locals>>

-----------------------------------------------------------------------------
(* ts3_muteClients(): ask TeamSpeak, then remember what was muted.         *)

MuteClients(t, who, mute, ret) ==
  IF who = {}
  THEN Goto(t, ret) /\ UNCHANGED call
  ELSE /\ Goto(t, "request")
       /\ call' = [call EXCEPT ![t] = [who |-> who, mute |-> mute, ret |-> ret]]

Return(t) ==
  /\ Goto(t, call[t].ret)
  /\ call' = [call EXCEPT ![t] = NoCall]

Request(t) ==
  /\ pc[t] = "request"
  /\ \/ /\ handle
        /\ muted' = IF call[t].mute THEN muted \cup call[t].who
                                    ELSE muted \ call[t].who
        /\ Goto(t, "record")
        /\ UNCHANGED call
     \/ /\ Fails(IF call[t].mute THEN "mute" ELSE "unmute")
        /\ Return(t)
        /\ UNCHANGED muted
  /\ UNCHANGED <<sound, names, cache, places, room, placed, handle, locals,
                 event>>

Record(t) ==
  /\ pc[t] = "record"
  /\ cache' = IF call[t].mute THEN cache \cup call[t].who
                              ELSE cache \ call[t].who
  /\ Return(t)
  /\ UNCHANGED <<sound, names, muted, places, room, placed, handle, locals,
                 event>>

Mute(t) == Request(t) \/ Record(t)

-----------------------------------------------------------------------------
(* handleHandshakeResponse().                                              *)

\* ts3_verifyServer() forgets the server before it looks for it.
BeginHandshake ==
  /\ pc["update"] = "idle" /\ running
  /\ handle' = FALSE
  /\ Goto("update", "search")
  /\ UNCHANGED <<sound, names, mutes, places, room, placed, call, locals,
                 event>>

FindServer ==
  /\ pc["update"] = "search"
  /\ \/ handle' = TRUE /\ Goto("update", "save")
     \/ "server" \in MayFail /\ Goto("update", "idle") /\ UNCHANGED handle
  /\ UNCHANGED <<sound, names, mutes, places, room, placed, call, locals,
                 event>>

SaveChannel ==
  /\ pc["update"] = "save"
  /\ saved' \in {me} \cup (IF Fails("query") THEN {Null} ELSE {})
  /\ Goto("update", "output")
  /\ UNCHANGED <<sound, names, mutes, places, room, placed, handle, call,
                 temp, todo, event>>

CheckOutput ==
  /\ pc["update"] = "output"
  /\ temp' \in {~out} \cup (IF Fails("query") THEN {TRUE} ELSE {})
  /\ Goto("update", IF temp' THEN "hush" ELSE "move")
  /\ UNCHANGED <<sound, names, mutes, places, room, placed, handle, call,
                 saved, todo, event>>

\* Mute the headphones, and sleep.
Hush ==
  /\ pc["update"] = "hush"
  /\ out' = TRUE
  /\ Goto("update", "move")
  /\ UNCHANGED <<wish, names, mutes, places, room, placed, handle, call,
                 locals, event>>

\* ts3_moveToChannel(): TeamSpeak takes the request, or refuses it.
RequestMove(channel, done, refused) ==
  \/ moving' = channel /\ Goto("update", done)
  \/ Fails("move") /\ UNCHANGED moving /\ Goto("update", refused)

MoveToGame ==
  /\ pc["update"] = "move"
  /\ RequestMove(Game, "subscribe", "idle")
  /\ IF pc'["update"] = "idle" THEN Forget ELSE UNCHANGED locals
  /\ UNCHANGED <<sound, names, mutes, me, where, room, placed, handle, call,
                 event>>

ListClients ==
  /\ pc["update"] = "list"
  /\ todo' \in {{o \in Others : where[o] = Game}}
                 \cup (IF Fails("list") THEN {{}} ELSE {})
  /\ Goto("update", "each")
  /\ UNCHANGED <<sound, names, mutes, places, room, placed, handle, call,
                 saved, temp, event>>

MuteEach ==
  /\ pc["update"] = "each"
  /\ IF todo = {}
     THEN Goto("update", "unhush") /\ UNCHANGED <<call, todo>>
     ELSE \E o \in todo :
            /\ MuteClients("update", {o}, TRUE, "each")
            /\ todo' = todo \ {o}
  /\ UNCHANGED <<sound, names, mutes, places, room, placed, handle,
                 saved, temp, event>>

\* Having slept, end the temporary mute.
Unhush ==
  /\ pc["update"] = "unhush"
  /\ out' = (out /\ ~temp)
  /\ Goto("update", "commit")
  /\ UNCHANGED <<wish, names, mutes, places, room, placed, handle, call,
                 locals, event>>

CommitId ==
  /\ pc["update"] = "commit"
  /\ known' \in {TRUE} \cup (IF Fails("query") THEN {FALSE} ELSE {})
  /\ joined' = TRUE
  /\ Goto("update", "last")
  /\ UNCHANGED <<sound, names, mutes, places, lastChannel, running, placed,
                 handle, call, locals, event>>

CommitChannel ==
  /\ pc["update"] = "last"
  /\ lastChannel' = saved
  /\ Forget
  /\ Goto("update", "idle")
  /\ UNCHANGED <<sound, names, mutes, places, known, running, joined, placed,
                 handle, call, event>>

Handshake ==
  \/ FindServer \/ SaveChannel \/ CheckOutput \/ Hush \/ MoveToGame
  \/ ListClients \/ MuteEach \/ Unhush \/ CommitId \/ CommitChannel

-----------------------------------------------------------------------------
(* The other packets.                                                      *)

HandleUpdate(mutedOnes, unmutedOnes) ==
  /\ pc["update"] = "idle" /\ running
  /\ MuteClients("update", mutedOnes, TRUE, "unmutes")
  /\ todo' = unmutedOnes
  /\ UNCHANGED <<sound, names, mutes, places, room, placed, handle,
                 saved, temp, event>>

HandleUnmutes ==
  /\ pc["update"] = "unmutes"
  /\ MuteClients("update", todo, FALSE, "place")
  /\ todo' = {}
  /\ UNCHANGED <<sound, names, mutes, places, room, placed, handle,
                 saved, temp, event>>

\* ts3_setClientPosition() for the clients of a packet; nothing without a
\* server.
SetPositions(away, origin) ==
  placed' = IF handle THEN (placed \cup away) \ origin ELSE placed

HandlePlaces(away) ==
  /\ pc["update"] = "place"
  /\ SetPositions(away, {})
  /\ Goto("update", "idle")
  /\ UNCHANGED <<sound, names, mutes, places, room, handle, call, locals,
                 event>>

HandlePosition(away) ==
  /\ pc["update"] = "idle" /\ running
  /\ SetPositions(away, {})
  /\ UNCHANGED <<sound, names, mutes, places, room, handle, pc, call, locals,
                 event>>

\* ts3_setNickname().
SetNickname(n) ==
  /\ pc["update"] = "idle" /\ running
  /\ handle
  /\ \/ /\ nick # n
        /\ original' = IF original = Null THEN nick ELSE original
        /\ nick' \in {n} \cup (IF Fails("rename") THEN {nick} ELSE {})
     \/ /\ Fails("query")
        /\ original' = Null
        /\ UNCHANGED nick
  /\ UNCHANGED <<sound, mutes, places, room, placed, handle, pc, call, locals,
                 event>>

\* handleControlMessage(): an order without a nickname is none.
HandleControl(n) == n # Null /\ SetNickname(n)

-----------------------------------------------------------------------------
(* close(), from "move back to old teamspeak channel" on.                  *)

\* A connection made; or one that failed, and closes.
Connect(label) ==
  /\ pc["update"] = "closed"
  /\ Goto("update", label)
  /\ running' = (label = "idle")
  /\ UNCHANGED <<sound, names, mutes, places, lastChannel, known, joined,
                 placed, handle, call, locals, event>>

\* Another thread's abortThread(), at any time: no more packet is handled.
Abort ==
  /\ running
  /\ running' = FALSE
  /\ UNCHANGED <<sound, names, mutes, places, lastChannel, known, joined,
                 placed, handle, pc, call, locals, event>>

\* The update loop ends, for that or for a reason of its own.
Lose ==
  /\ pc["update"] = "idle"
  /\ known' = FALSE /\ running' = FALSE
  /\ Goto("update", "restore")
  /\ UNCHANGED <<sound, names, mutes, places, lastChannel, joined, placed,
                 handle, call, locals, event>>

\* Nothing to restore, no server, or back already: lastChannel stays.
CheckRestore ==
  /\ pc["update"] = "restore"
  /\ \/ /\ lastChannel = Null \/ ~handle \/ me = lastChannel
        /\ Goto("update", "closed")
        /\ joined' = FALSE
     \/ /\ lastChannel # Null /\ handle
        /\ me # lastChannel \/ Fails("query")
        /\ Goto("update", "moveback")
        /\ UNCHANGED joined
  /\ UNCHANGED <<sound, names, mutes, places, lastChannel, known, running,
                 placed, handle, call, locals, event>>

MoveBack ==
  /\ pc["update"] = "moveback"
  /\ lastChannel' = Null
  /\ joined' = FALSE
  /\ RequestMove(lastChannel, "relist", "closed")
  /\ UNCHANGED <<sound, names, mutes, me, where, known, running, placed, handle,
                 call, locals, event>>

\* ts3_resetClients3DPositions(), of the channel the user is in by now.
Relist ==
  /\ pc["update"] = "relist"
  /\ saved' \in {me} \cup (IF Fails("query") THEN {Null} ELSE {})
  /\ Goto("update", IF saved' = Null THEN "unmuteall" ELSE "await")
  /\ UNCHANGED <<sound, names, mutes, places, room, placed, handle, call,
                 temp, todo, event>>

ListBack ==
  /\ pc["update"] = "listback"
  /\ todo' \in {{o \in Others : where[o] = saved}}
                 \cup (IF Fails("list") THEN {{}} ELSE {})
  /\ saved' = Null
  /\ Goto("update", "reset")
  /\ UNCHANGED <<sound, names, mutes, places, room, placed, handle, call,
                 temp, event>>

ResetPositions ==
  /\ pc["update"] = "reset"
  /\ SetPositions({}, todo)
  /\ todo' = {}
  /\ Goto("update", "unmuteall")
  /\ UNCHANGED <<sound, names, mutes, places, room, handle, call, saved, temp,
                 event>>

\* ts3_unmuteAllClients(): the list is emptied whether or not it worked.
UnmuteAll ==
  /\ pc["update"] = "unmuteall"
  /\ IF cache = {}
     THEN Goto("update", "rename") /\ UNCHANGED muted
     ELSE /\ Goto("update", "clear")
          /\ muted' \in {muted \ cache}
                          \cup (IF Fails("unmute") THEN {muted} ELSE {})
  /\ UNCHANGED <<sound, names, cache, places, room, placed, handle, call,
                 locals, event>>

ClearCache ==
  /\ pc["update"] = "clear"
  /\ cache' = {}
  /\ Goto("update", "rename")
  /\ UNCHANGED <<sound, names, muted, places, room, placed, handle, call,
                 locals, event>>

ResetNickname ==
  /\ pc["update"] = "rename"
  /\ IF original = Null
     THEN UNCHANGED names
     ELSE \/ nick' = original /\ original' = Null
          \/ Fails("rename") /\ UNCHANGED names
  /\ Goto("update", "closed")
  /\ UNCHANGED <<sound, mutes, places, room, placed, handle, call, locals,
                 event>>

Restore ==
  \/ CheckRestore \/ MoveBack \/ Relist \/ ListBack \/ ResetPositions
  \/ UnmuteAll \/ ClearCache \/ ResetNickname

-----------------------------------------------------------------------------
(* ts3plugin_onClientMoveEvent().                                          *)

CheckEvent ==
  /\ pc["plugin"] = "event"
  /\ IF handle /\ IsIngame
     THEN Goto("plugin", "moved") /\ UNCHANGED event
     ELSE Goto("plugin", "idle") /\ event' = NoEvent
  /\ UNCHANGED <<sound, names, mutes, places, room, placed, handle, call,
                 locals>>

MuteMoved ==
  /\ pc["plugin"] = "moved"
  /\ event' = NoEvent
  /\ \E own \in {me} \cup (IF "query" \in MayFail THEN {Null} ELSE {}) :
       IF own = event.to
       THEN MuteClients("plugin", {event.who}, TRUE, "idle") /\ UNCHANGED placed
       ELSE IF own = event.from
       THEN /\ SetPositions({}, {event.who})
            /\ MuteClients("plugin", {event.who}, FALSE, "idle")
       ELSE Goto("plugin", "idle") /\ UNCHANGED <<call, placed>>
  /\ UNCHANGED <<sound, names, mutes, places, room, handle, locals>>

-----------------------------------------------------------------------------
(* TeamSpeak and its users.                                                *)

OtherMoves(o, c) ==
  /\ pc["plugin"] = "idle"
  /\ where[o] # c
  /\ where' = [where EXCEPT ![o] = c]
  /\ event' = [who |-> o, from |-> where[o], to |-> c]
  /\ Goto("plugin", "event")
  /\ UNCHANGED <<sound, names, mutes, me, moving, room, placed, handle, call,
                 locals>>

\* The event of an own move is ignored.
UserMoves(c) ==
  /\ pc["plugin"] = "idle"
  /\ me' = c /\ me # c
  /\ UNCHANGED <<sound, names, mutes, moving, where, room, placed, handle, pc,
                 call, locals, event>>

MoveHappens ==
  /\ pc["plugin"] = "idle"
  /\ moving # Null
  /\ me' = moving /\ moving' = Null
  /\ UNCHANGED <<sound, names, mutes, where, room, placed, handle, pc, call,
                 locals, event>>

UserMutes ==
  /\ out' = ~out /\ wish' = ~out
  /\ UNCHANGED <<names, mutes, places, room, placed, handle, pc, call, locals,
                 event>>

\* The wait of ts3_clientsInChannel() ends.
Subscribed ==
  /\ pc["update"] \in {"subscribe", "await"}
  /\ Goto("update", IF pc["update"] = "await" THEN "listback" ELSE "list")
  /\ UNCHANGED <<sound, names, mutes, places, room, placed, handle, call,
                 locals, event>>

-----------------------------------------------------------------------------
(* The specification.                                                      *)

Packet ==
  \/ BeginHandshake
  \/ \E m \in SUBSET Others, u \in SUBSET Others : HandleUpdate(m, u)
  \/ \E s \in SUBSET Others : HandlePosition(s)
  \/ \E n \in Names \cup {Null} : HandleControl(n)

UpdateStep ==
  \/ Handshake \/ HandleUnmutes \/ Restore \/ Mute("update")
  \/ \E s \in SUBSET Others : HandlePlaces(s)

PluginStep == CheckEvent \/ MuteMoved \/ Mute("plugin")

World ==
  \/ \E o \in Others, c \in Channels : OtherMoves(o, c)
  \/ \E c \in Channels : UserMoves(c)
  \/ MoveHappens
  \/ UserMutes

\* The two threads are both inside the bookkeeping of muted clients.
Overlap ==
  /\ pc["plugin"] \in {"moved", "request", "record"}
  /\ pc["update"] \in {"request", "record", "unmuteall", "clear"}

Next ==
  /\ \/ \E label \in {"idle", "restore"} : Connect(label)
     \/ Abort \/ Lose
     \/ Packet
     \/ UpdateStep
     \/ Subscribed
     \/ PluginStep
     \/ World
  /\ met' = (met \/ Overlap')

Spec == Init /\ [][Next]_vars

\* Both threads are scheduled, and TeamSpeak answers a subscription.
Fairness ==
  WF_system(UpdateStep) /\ WF_system(PluginStep) /\ WF_system(Subscribed)

FairSpec == Spec /\ Fairness

-----------------------------------------------------------------------------
(* Properties.                                                             *)

TypeFlags ==
  /\ out \in BOOLEAN /\ wish \in BOOLEAN /\ temp \in BOOLEAN
  /\ handle \in BOOLEAN /\ known \in BOOLEAN /\ running \in BOOLEAN
  /\ joined \in BOOLEAN

TypeData ==
  /\ me \in Channels /\ moving \in Channels \cup {Null}
  /\ where \in [Others -> Channels]
  /\ nick \in Names \cup {Own} /\ original \in Names \cup {Own, Null}
  /\ muted \subseteq Others /\ cache \subseteq Others
  /\ placed \subseteq Others /\ todo \subseteq Others
  /\ lastChannel \in Channels \cup {Null} /\ saved \in Channels \cup {Null}
  /\ pc \in [ThreadIds -> Labels]
  /\ call \in [ThreadIds -> Calls]
  /\ event \in [who : Others \cup {Null}, from : Channels, to : Channels]
  /\ pc["plugin"] \in {"event", "moved"} => event.who \in Others
  /\ call["plugin"].ret = "idle"

\* Every variable has its type, and a move being reported is somebody's.
TypeOK == TypeFlags /\ TypeData /\ met \in BOOLEAN

\* However often the game server renames the user, over however many
\* sessions, the plugin knows the name to go back to.
NameIsRemembered == nick # Own => original = Own

\* Whoever is muted in TeamSpeak is on the list to be unmuted, or is being put
\* on it ...
MuteRemembered ==
  muted \subseteq cache \cup
    UNION {call[t].who : t \in {t \in ThreadIds :
                                 pc[t] = "record" /\ call[t].mute}}

\* ... at all times, until the two threads get in each other's way.
CacheIsComplete == MuteRemembered \/ met

\* A close() that moves the user out of the game unmutes everybody, on the
\* same condition.
MovedBackUnmuted == pc["update"] = "rename" => muted = {} \/ met

\* The handling of a handshake ends, whatever TeamSpeak refuses ...
HandshakeEnds == pc["update"] = "search" ~> pc["update"] = "idle"

\* ... and so does close().
CloseEnds == pc["update"] = "restore" ~> pc["update"] = "closed"

\* A disconnect resets the 3D audio: close() lists every client of the game
\* channel that has a position, to put it back to the origin.
PositionsAreReset ==
  [][ListBack => {o \in placed : where[o] = Game} \subseteq todo']_vars

\* When a handshake has succeeded all clients are muted by default.
MutedByDefault ==
  pc["update"] = "last" /\ pc["plugin"] = "idle" =>
    \A o \in Others : where[o] = Game => o \in muted

\* The headphones are muted while joining the game channel, and only then.
HushedWhileJoining == pc["update"] \in {"idle", "closed"} => out = wish

\* close() moves the user back to the old channel after a session, not out of
\* a channel of the user's own choice after a connection that never became one.
MovedBackFromSession ==
  [][CheckRestore /\ pc'["update"] = "moveback" /\ me # Game /\ moving = Null
       => joined]_vars
=============================================================================
