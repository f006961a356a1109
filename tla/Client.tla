------------------------------- MODULE Client -------------------------------
(***************************************************************************)
(* The life of a network connection in class Client (client.cpp), at the   *)
(* grain of single accesses to the fields its threads share.  Three kinds  *)
(* of thread run the class's methods with no lock around them:             *)
(*                                                                         *)
(*   Http    the request thread that holds the HTTP server's               *)
(*           _connectionMutex, the only caller of connect();               *)
(*   Plugin  TeamSpeak's plugin thread: status callbacks, and the final    *)
(*           JustAnotherVoiceChat_stop();                                  *)
(*   c       the update thread that the connect() of connection c starts.  *)
(*                                                                         *)
(* A connection c stands for the ENetHost and the one ENetPeer inside it.  *)
(* ENet's answers, and the packets the game server sends, are arbitrary.   *)
(* What close() and the handlers do to TeamSpeak is not modelled here, and *)
(* an ENet call is one step: its own internals are not thread-safe.        *)
(***************************************************************************)
EXTENDS Naturals

CONSTANTS
  Conns,      \* connections that can be made: bounds the number of hosts
  Http,       \* the request thread
  Plugin,     \* the plugin thread
  Null,       \* nullptr; for _teamspeakId, zero
  Servers,    \* the addresses (host, port) a request can name
  Blank,      \* those of them whose host is the empty string
  NoServer,   \* ("", 0), what a closed client remembers
  GameIds     \* the unique identifiers a request can carry

ASSUME ThreadsAssumption ==
  /\ Http # Plugin
  /\ Http \notin Conns
  /\ Plugin \notin Conns
  /\ Null \notin Conns

ASSUME RequestAssumption ==
  /\ Blank \subseteq Servers
  /\ NoServer \in Blank
  /\ GameIds \subseteq Nat

VARIABLES
  client,       \* _client: the ENet host in use
  peer,         \* _peer: the ENet peer in use
  thread,       \* _thread: the std::thread object, named by its connection
  running,      \* _running
  server,       \* _host and _port
  gameId,       \* _gameId
  teamspeakId,  \* _teamspeakId, abstracted to the connection that stored it
  heap,         \* whether the memory of a host, and of its peer, is allocated
  pc,           \* where each thread is
  abortRet,     \* where each thread's call of abortThread() returns to
  closeRet,     \* where each thread's call of close() returns to
  request,      \* the arguments of the current connect()
  mine,         \* the connection the current connect() created
  held,         \* the host its enet_host_service() is working on
  crashed       \* why the process died: "no" while it lives

fields  == <<client, peer, thread, running, server, gameId, teamspeakId>>
frames  == <<abortRet, closeRet>>
locals  == <<request, mine, held>>
vars    == <<fields, heap, pc, frames, locals, crashed>>

Threads == {Http, Plugin} \cup Conns

AbortReturns == {"disc.drain", "close.peer", "conn.commit"}
CloseReturns == {"idle", "loop", "delete", "conn.create", "done", "stopped"}
Labels == AbortReturns \cup CloseReturns \cup
  {"conn.same", "conn.open", "conn.peer", "conn.service", "conn.await",
   "conn.run", "conn.spawn", "conn.assign", "conn.hello",
   "disc.check", "disc.notify", "disc.reset",
   "abort", "join", "close.nullpeer", "close.host", "close.nullhost",
   "close.reset", "poll", "receive", "accept", "send", "cb.send", "stop",
   "unborn"}

-----------------------------------------------------------------------------
(* Memory, calls and returns.                                              *)

\* The fates of a process that passes pointer x to ENet: a null pointer
\* kills it, a freed one kills it or does nothing.
Fates(x) ==
  IF x = Null THEN {"lifetime"}
  ELSE IF heap[x] = "live" THEN {"no"}
  ELSE {"no", "lifetime"}

\* serializePacket() has no return statement and deserializePacket() returns
\* a reference to a local: each may also kill the process on the spot.
SendFates == Fates(peer) \cup {"codec"}

Goto(t, label) == pc' = [pc EXCEPT ![t] = label]

CallAbort(t, ret) ==
  /\ Goto(t, "abort")
  /\ abortRet' = [abortRet EXCEPT ![t] = ret]

\* Faulty, see below: close() without its abortThread().
CloseNoAbort(t, ret) ==
  /\ Goto(t, "close.peer")
  /\ closeRet' = [closeRet EXCEPT ![t] = ret]
  /\ UNCHANGED abortRet

CallClose(t, ret) ==
  /\ CallAbort(t, "close.peer")
  /\ closeRet' = [closeRet EXCEPT ![t] = ret]

\* disconnect() returns into connect(), into stop() or into the update loop.
DisconnectReturn(t) ==
  CASE t = Http -> "conn.create" [] t = Plugin -> "delete" [] OTHER -> "loop"

IsOpen   == client # Null /\ peer # Null /\ running
IsIngame == IsOpen /\ gameId # 0 /\ teamspeakId # Null

Init ==
  /\ client = Null /\ peer = Null /\ thread = Null
  /\ running = FALSE
  \* _port is not initialised: only a blank host makes a request compare it
  /\ server \in Blank
  /\ gameId = 0
  /\ teamspeakId = Null
  /\ heap = [c \in Conns |-> "unborn"]
  /\ pc = [t \in Threads |-> IF t \in Conns THEN "unborn" ELSE "idle"]
  /\ abortRet = [t \in Threads |-> "close.peer"]
  /\ closeRet = [t \in Threads |-> IF t \in Conns THEN "done" ELSE "idle"]
  /\ request = [server |-> NoServer, gameId |-> 0]
  /\ mine = Null /\ held = Null
  /\ crashed = "no"

-----------------------------------------------------------------------------
(* Faulty forms of some of the actions below: the properties must notice   *)
(* each of them.                                                           *)

\* The thread to join is not told to stop.
AbortWithoutFlag(t) ==
  /\ pc[t] = "abort"
  /\ thread \notin {Null, t}
  /\ Goto(t, "join")
  /\ UNCHANGED <<fields, heap, frames, locals, crashed>>

\* The pointer _peer dangles after close().
KeepPeer(t) ==
  /\ pc[t] = "close.nullpeer"
  /\ Goto(t, "close.host")
  /\ UNCHANGED <<fields, heap, frames, locals, crashed>>

\* What close() resets: _host to nonsense; all but _running; nothing of what
\* the client remembers of its server.
ResetBadServer(t) ==
  /\ pc[t] = "close.reset"
  /\ running' = FALSE
  /\ server' = Null
  /\ gameId' = 0
  /\ teamspeakId' = Null
  /\ Goto(t, closeRet[t])
  /\ UNCHANGED <<client, peer, thread, heap, frames, locals, crashed>>

ResetStillRunning(t) ==
  /\ pc[t] = "close.reset"
  /\ server' = NoServer
  /\ gameId' = 0
  /\ teamspeakId' = Null
  /\ Goto(t, closeRet[t])
  /\ UNCHANGED <<client, peer, thread, running, heap, frames, locals, crashed>>

ResetKeepsServer(t) ==
  /\ pc[t] = "close.reset"
  /\ running' = FALSE
  /\ teamspeakId' = Null
  /\ Goto(t, closeRet[t])
  /\ UNCHANGED <<client, peer, thread, server, gameId>>
  /\ UNCHANGED <<heap, frames, locals, crashed>>

\* A connect() that does not stop the old update thread.
EndServiceNoAbort ==
  /\ pc[Http] = "conn.await"
  /\ crashed' \in Fates(held)
  /\ \/ Goto(Http, "conn.commit") /\ UNCHANGED frames
     \/ CallClose(Http, "idle")
  /\ UNCHANGED <<fields, heap, locals>>

\* The loop ends without close(); it does not look at _running.
LoopNoClose(c) ==
  /\ pc[c] = "loop"
  /\ Goto(c, IF running /\ client # Null THEN "poll" ELSE "done")
  /\ UNCHANGED <<fields, heap, frames, locals, crashed>>

LoopForever(c) ==
  /\ pc[c] = "loop"
  /\ IF client # Null
     THEN Goto(c, "poll") /\ UNCHANGED frames
     ELSE CallClose(c, "done")
  /\ UNCHANGED <<fields, heap, locals, crashed>>

\* The destructor does not close.
DeleteNoClose ==
  /\ pc[Plugin] = "delete"
  /\ Goto(Plugin, "stopped")
  /\ UNCHANGED <<fields, heap, frames, locals, crashed>>

-----------------------------------------------------------------------------
(* abortThread(): stop the update thread unless it is the caller itself.   *)

AbortNothing(t) ==
  /\ pc[t] = "abort"
  /\ thread \in {Null, t}
  /\ Goto(t, abortRet[t])
  /\ UNCHANGED <<fields, heap, frames, locals, crashed>>

AbortOther(t) ==
  /\ pc[t] = "abort"
  /\ thread \notin {Null, t}
  /\ running' = FALSE
  /\ Goto(t, "join")
  /\ UNCHANGED <<client, peer, thread, server, gameId, teamspeakId>>
  /\ UNCHANGED <<heap, frames, locals, crashed>>

Join(t) ==
  /\ pc[t] = "join"
  /\ pc[thread] = "done"
  /\ thread' = Null
  /\ Goto(t, abortRet[t])
  /\ UNCHANGED <<client, peer, running, server, gameId, teamspeakId>>
  /\ UNCHANGED <<heap, frames, locals, crashed>>

AbortThread(t) == AbortNothing(t) \/ AbortOther(t) \/ Join(t)

-----------------------------------------------------------------------------
(* close(): release peer and host, forget the session.                     *)

ResetPeer(t) ==
  /\ pc[t] = "close.peer"
  /\ IF peer = Null
     THEN Goto(t, "close.host") /\ UNCHANGED crashed
     ELSE Goto(t, "close.nullpeer") /\ crashed' \in Fates(peer)
  /\ UNCHANGED <<fields, heap, frames, locals>>

NullPeer(t) ==
  /\ pc[t] = "close.nullpeer"
  /\ peer' = Null
  /\ Goto(t, "close.host")
  /\ UNCHANGED <<client, thread, running, server, gameId, teamspeakId>>
  /\ UNCHANGED <<heap, frames, locals, crashed>>

DestroyHost(t) ==
  /\ pc[t] = "close.host"
  /\ IF client = Null
     THEN Goto(t, "close.reset") /\ UNCHANGED <<heap, crashed>>
     ELSE /\ Goto(t, "close.nullhost")
          /\ crashed' \in Fates(client)
          /\ heap' = [heap EXCEPT ![client] = "freed"]
  /\ UNCHANGED <<fields, frames, locals>>

NullHost(t) ==
  /\ pc[t] = "close.nullhost"
  /\ client' = Null
  /\ Goto(t, "close.reset")
  /\ UNCHANGED <<peer, thread, running, server, gameId, teamspeakId>>
  /\ UNCHANGED <<heap, frames, locals, crashed>>

\* The last step resets the session's fields, puts TeamSpeak back (a call
\* that changes none of these variables) and returns.
ResetSession(t) ==
  /\ pc[t] = "close.reset"
  /\ running' = FALSE
  /\ server' = NoServer
  /\ gameId' = 0
  /\ teamspeakId' = Null
  /\ Goto(t, closeRet[t])
  /\ UNCHANGED <<client, peer, thread, heap, frames, locals, crashed>>

Close(t) ==
  \/ ResetPeer(t) \/ NullPeer(t) \/ DestroyHost(t) \/ NullHost(t)
  \/ ResetSession(t)

-----------------------------------------------------------------------------
(* disconnect(): say goodbye, stop the update thread, close.               *)

CheckPeer(t) ==
  /\ pc[t] = "disc.check"
  /\ Goto(t, IF peer = Null THEN DisconnectReturn(t) ELSE "disc.notify")
  /\ UNCHANGED <<fields, heap, frames, locals, crashed>>

Notify(t) ==
  /\ pc[t] = "disc.notify"
  /\ crashed' \in Fates(peer)
  /\ CallAbort(t, "disc.drain")
  /\ UNCHANGED <<fields, heap, closeRet, locals>>

\* The loop that waits for the server's acknowledgement, up to its exit: an
\* event it discards changes nothing.
Drain(t) ==
  /\ pc[t] = "disc.drain"
  /\ IF client = Null THEN UNCHANGED crashed ELSE crashed' \in Fates(client)
  /\ Goto(t, "disc.reset")
  /\ UNCHANGED <<fields, heap, frames, locals>>

ForgetServer(t) ==
  /\ pc[t] = "disc.reset"
  /\ server' = NoServer
  /\ gameId' = 0
  /\ teamspeakId' = Null
  /\ CallClose(t, DisconnectReturn(t))
  /\ UNCHANGED <<client, peer, thread, running, heap, locals, crashed>>

Disconnect(t) == CheckPeer(t) \/ Notify(t) \/ Drain(t) \/ ForgetServer(t)

-----------------------------------------------------------------------------
(* connect(), on the request thread.                                       *)

Connect(s, g) ==
  /\ pc[Http] = "idle"
  /\ pc[Plugin] \in {"idle", "cb.send"}
  /\ request' = [server |-> s, gameId |-> g]
  /\ mine' = Null /\ held' = Null
  /\ Goto(Http, "conn.same")
  /\ UNCHANGED <<fields, heap, frames, crashed>>

\* Already connected as requested: true, and nothing is done.
CheckSame ==
  /\ pc[Http] = "conn.same"
  /\ Goto(Http, IF server = request.server /\ gameId = request.gameId
                THEN "idle" ELSE "conn.open")
  /\ UNCHANGED <<fields, heap, frames, locals, crashed>>

CheckOpen ==
  /\ pc[Http] = "conn.open"
  /\ Goto(Http, IF IsOpen THEN "disc.check" ELSE "conn.create")
  /\ UNCHANGED <<fields, heap, frames, locals, crashed>>

CreateHost ==
  /\ pc[Http] = "conn.create"
  /\ \/ \E c \in Conns :
          /\ heap[c] = "unborn"
          /\ heap' = [heap EXCEPT ![c] = "live"]
          /\ client' = c
          /\ mine' = c
          /\ Goto(Http, "conn.peer")
     \/ /\ client' = Null
        /\ Goto(Http, "idle")
        /\ UNCHANGED <<heap, mine>>
  /\ UNCHANGED <<peer, thread, running, server, gameId, teamspeakId>>
  /\ UNCHANGED <<frames, request, held, crashed>>

\* enet_host_connect() takes the host's peer, or finds none to take.
ConnectPeer ==
  /\ pc[Http] = "conn.peer"
  /\ crashed' \in Fates(client)
  /\ \/ /\ peer' = client
        /\ Goto(Http, "conn.service")
        /\ UNCHANGED frames
     \/ /\ peer' = Null
        /\ CallClose(Http, "idle")
  /\ UNCHANGED <<client, thread, running, server, gameId, teamspeakId>>
  /\ UNCHANGED <<heap, locals>>

BeginService ==
  /\ pc[Http] = "conn.service"
  /\ crashed' \in Fates(client)
  /\ held' = client
  /\ Goto(Http, "conn.await")
  /\ UNCHANGED <<fields, heap, frames, request, mine>>

\* Up to five seconds later: connected, or another answer or none.
EndService ==
  /\ pc[Http] = "conn.await"
  /\ crashed' \in Fates(held)
  /\ \/ CallAbort(Http, "conn.commit") /\ UNCHANGED closeRet
     \/ CallClose(Http, "idle")
  /\ UNCHANGED <<fields, heap, locals>>

CommitSession ==
  /\ pc[Http] = "conn.commit"
  /\ gameId' = request.gameId
  /\ server' = request.server
  /\ teamspeakId' = Null
  /\ Goto(Http, "conn.run")
  /\ UNCHANGED <<client, peer, thread, running>>
  /\ UNCHANGED <<heap, frames, locals, crashed>>

SetRunning ==
  /\ pc[Http] = "conn.run"
  /\ running' = TRUE
  /\ Goto(Http, "conn.spawn")
  /\ UNCHANGED <<client, peer, thread, server, gameId, teamspeakId>>
  /\ UNCHANGED <<heap, frames, locals, crashed>>

\* The new thread runs before its std::thread object is in _thread.
SpawnUpdate ==
  /\ pc[Http] = "conn.spawn"
  /\ pc' = [t \in Threads |-> IF t = Http THEN "conn.assign"
                             ELSE IF t = mine THEN "loop"
                             ELSE pc[t]]
  /\ UNCHANGED <<fields, heap, frames, locals, crashed>>

AssignThread ==
  /\ pc[Http] = "conn.assign"
  /\ thread' = mine
  /\ Goto(Http, "conn.hello")
  /\ UNCHANGED <<client, peer, running, server, gameId, teamspeakId>>
  /\ UNCHANGED <<heap, frames, locals, crashed>>

SendProtocol ==
  /\ pc[Http] = "conn.hello"
  /\ crashed' \in SendFates
  /\ Goto(Http, "idle")
  /\ UNCHANGED <<fields, heap, frames, locals>>

ConnectStep ==
  \/ CheckSame \/ CheckOpen \/ CreateHost \/ ConnectPeer
  \/ BeginService \/ EndService \/ CommitSession \/ SetRunning
  \/ SpawnUpdate \/ AssignThread \/ SendProtocol

-----------------------------------------------------------------------------
(* update(): the loop of update thread c.                                  *)

CheckLoop(c) ==
  /\ pc[c] = "loop"
  /\ IF running /\ client # Null
     THEN Goto(c, "poll") /\ UNCHANGED frames
     ELSE CallClose(c, "done")
  /\ UNCHANGED <<fields, heap, locals, crashed>>

\* Nothing or a disconnect or an error; or a packet.
Poll(c) ==
  /\ pc[c] = "poll"
  /\ crashed' \in Fates(client)
  /\ \/ running' \in {running, FALSE} /\ Goto(c, "loop")
     \/ UNCHANGED running /\ Goto(c, "receive")
  /\ UNCHANGED <<client, peer, thread, server, gameId, teamspeakId>>
  /\ UNCHANGED <<heap, frames, locals>>

\* A packet received while running is handled: it is a server that fails the
\* version check, a handshake that succeeds, one that is answered with a
\* packet only, or a packet of no concern to the connection.
Receive(c) ==
  /\ pc[c] = "receive"
  /\ IF running
     THEN /\ crashed' \in {"no", "codec"}
          /\ \E label \in {"disc.check", "accept", "send", "loop"} :
               Goto(c, label)
     ELSE Goto(c, "loop") /\ UNCHANGED crashed
  /\ UNCHANGED <<fields, heap, frames, locals>>

\* ts3_clientId() may answer zero.
AcceptHandshake(c) ==
  /\ pc[c] = "accept"
  /\ teamspeakId' \in {c, Null}
  /\ Goto(c, "send")
  /\ UNCHANGED <<client, peer, thread, running, server, gameId>>
  /\ UNCHANGED <<heap, frames, locals, crashed>>

SendAnswer(c) ==
  /\ pc[c] = "send"
  /\ crashed' \in SendFates
  /\ Goto(c, "loop")
  /\ UNCHANGED <<fields, heap, frames, locals>>

Update(c) ==
  \/ CheckLoop(c) \/ Poll(c) \/ Receive(c)
  \/ AcceptHandshake(c) \/ SendAnswer(c)

-----------------------------------------------------------------------------
(* The plugin thread.                                                      *)

\* A talk or mute callback finds the client open and is about to tell the
\* server; with the client not open it does nothing.
Callback ==
  /\ pc[Plugin] = "idle"
  /\ IsOpen
  /\ Goto(Plugin, "cb.send")
  /\ UNCHANGED <<fields, heap, frames, locals, crashed>>

SendStatus ==
  /\ pc[Plugin] = "cb.send"
  /\ crashed' \in SendFates
  /\ Goto(Plugin, "idle")
  /\ UNCHANGED <<fields, heap, frames, locals>>

\* stop() closes the HTTP server first, which takes no new request ...
Stop ==
  /\ pc[Plugin] = "idle"
  /\ Goto(Plugin, "stop")
  /\ UNCHANGED <<fields, heap, frames, locals, crashed>>

\* ... and waits for the request being answered; then it disconnects.
HttpClosed ==
  /\ pc[Plugin] = "stop"
  /\ pc[Http] = "idle"
  /\ Goto(Plugin, "disc.check")
  /\ UNCHANGED <<fields, heap, frames, locals, crashed>>

\* delete client: the destructor closes once more.
Delete ==
  /\ pc[Plugin] = "delete"
  /\ CallClose(Plugin, "stopped")
  /\ UNCHANGED <<fields, heap, locals, crashed>>

StopStep == HttpClosed \/ Delete

-----------------------------------------------------------------------------
(* The specification.                                                      *)

Methods(t) == AbortThread(t) \/ Close(t) \/ Disconnect(t)

HttpStep   == ConnectStep \/ Methods(Http)
PluginStep == SendStatus \/ StopStep \/ Methods(Plugin)
UpdateStep(c) == Update(c) \/ Methods(c)

Alive == crashed = "no"

\* Nothing is left to do once the client is deleted or the process died.
Halted ==
  /\ pc[Plugin] = "stopped" \/ ~Alive
  /\ UNCHANGED vars

Next ==
  \/ /\ Alive
     /\ \/ \E s \in Servers, g \in GameIds : Connect(s, g)
        \/ Callback
        \/ Stop
        \/ HttpStep
        \/ PluginStep
        \/ \E c \in Conns : UpdateStep(c)
  \/ Halted

Spec == Init /\ [][Next]_vars

\* Every thread that can take a step is scheduled eventually.  Requests,
\* callbacks and the end of the plugin may never come.
Fairness ==
  /\ WF_vars(Alive /\ HttpStep)
  /\ WF_vars(Alive /\ PluginStep)
  /\ \A c \in Conns : WF_vars(Alive /\ UpdateStep(c))

FairSpec == Spec /\ Fairness

-----------------------------------------------------------------------------
(* Properties.                                                             *)

Pointers == Conns \cup {Null}

\* Every variable has its type.
TypeOK ==
  /\ client \in Pointers /\ peer \in Pointers /\ thread \in Pointers
  /\ running \in BOOLEAN
  /\ server \in Servers
  /\ gameId \in GameIds \cup {0}
  /\ teamspeakId \in Pointers
  /\ heap \in [Conns -> {"unborn", "live", "freed"}]
  /\ pc \in [Threads -> Labels]
  /\ abortRet \in [Threads -> AbortReturns]
  /\ closeRet \in [Threads -> CloseReturns]
  /\ request \in [server : Servers, gameId : GameIds \cup {0}]
  /\ mine \in Pointers /\ held \in Pointers
  /\ crashed \in {"no", "lifetime", "codec"}

Updating(c) == pc[c] \notin {"unborn", "done"}

\* connect() never lets a second update thread run beside the first, however
\* the end of the old connection and the new one interleave: abortThread()
\* joins the old thread before the new one is started.
SingleUpdater == \A c, d \in Conns : Updating(c) /\ Updating(d) => c = d

\* No host is destroyed twice: whichever thread is about to call
\* enet_host_destroy() holds a live host or none, because close() joins the
\* update thread before it looks at _client.
DestroyedOnce ==
  \A t \in Threads :
    pc[t] = "close.host" => client = Null \/ heap[client] = "live"

\* A client that says it is open is served by an update thread, or by one
\* that connect() is just starting: isOpen() cannot stay true after the
\* thread is gone.
OpenIsServed ==
  running => \/ pc[Http] = "conn.spawn"
             \/ \E c \in Conns : Updating(c)

\* isIngame(), which makes the HTTP server refuse requests and the plugin
\* mute newcomers, is never answered from a previous connection: the
\* TeamSpeak id it finds was stored by the update thread that is running, and
\* no other thread is the one a later abortThread() would join.
IngameIsCurrent ==
  IsIngame => Updating(teamspeakId) /\ thread \in {teamspeakId, Null}

\* stop() leaves nothing behind that could use the deleted client: no update
\* thread runs and every pointer is null.
StoppedIsQuiet ==
  pc[Plugin] = "stopped" =>
    /\ \A c \in Conns : ~Updating(c)
    /\ client = Null /\ peer = Null /\ thread = Null

\* Nobody waits for ever in abortThread(): the thread to be joined exists, is
\* not the waiting one and waits for no thread itself, has been told to stop,
\* and is joined by nobody else, which std::thread does not allow.
JoinedWillEnd ==
  \A t \in Threads : pc[t] = "join" =>
    /\ thread \in Conns \ {t} /\ pc[thread] \notin {"unborn", "join"}
    /\ ~running
    /\ \A u \in Threads : pc[u] = "join" => u = t

\* disconnect() on any thread but the update thread never gets to wait for
\* the server's acknowledgement: the update thread it joins has closed the
\* host first, so the goodbye queued by enet_peer_disconnect() is dropped.
GoodbyeIsDropped ==
  \A t \in {Http, Plugin} : pc[t] = "disc.drain" => client = Null

\* connect() answers true without doing anything when it finds the server it
\* is asked for in _host, _port and _gameId.  Such an answer is never given
\* for a connection of the past: what close() and disconnect() leave in these
\* fields, in whatever order they interleave with requests, is forgotten
\* before the update thread ends.  (A blank host is what a client without a
\* connection remembers; a request for it is answered true with none.)
AnswerIsServed ==
  [][CheckSame /\ pc'[Http] = "idle" /\ request.server \notin Blank
       => \E c \in Conns : Updating(c)]_vars

\* The connection being served, and those whose service has ended ...
Serving ==
  LET serving == {c \in Conns : Updating(c)}
  IN  IF serving = {} THEN Null ELSE CHOOSE c \in serving : TRUE

Ended == {c \in Conns : pc[c] = "done"}

Link == INSTANCE VoiceLink
  WITH serving <- Serving, past <- Ended, ingame <- IsIngame

\* ... follow one another as VoiceLink says, isIngame() included: no step of
\* any thread resumes a connection that has ended, serves two, or answers for
\* one that is not being served.
IsVoiceLink == Link!Spec

\* connect() logs "Connection established" and answers true after it has
\* checked that connecting is successful: the connection exists at that
\* point, unless its own update thread has already taken it down.
EstablishedExists ==
  pc[Http] = "conn.hello" => heap[mine] = "live" \/ pc[mine] # "loop"

\* The threads whose next step changes _client, _peer or their memory ...
Changing(t) == pc[t] \in {"close.nullpeer", "close.host", "close.nullhost",
                          "conn.create", "conn.peer"}

\* ... and those between their check of the connection and their last use.
Using(t) ==
  \/ pc[t] \in {"conn.peer", "conn.service", "conn.await",
                "conn.commit", "conn.run", "conn.spawn", "conn.assign",
                "conn.hello", "cb.send", "disc.notify"}
  \/ pc[t] \in {"abort", "join"} /\ abortRet[t] = "conn.commit"

Overlap ==
  \E t \in Threads, u \in {Http, Plugin} :
    t # u /\ Changing(t) /\ Using(u)

\* The only way to a null or freed pointer is a thread that changes the
\* connection while another is between its check and its use of it: without
\* such an overlap no ENet call gets a bad pointer.
SafeWithoutOverlap == []~Overlap => [](crashed # "lifetime")

\* stop() returns: it joins no thread that waits for it.
StopReturns == pc[Plugin] = "stop" ~> pc[Plugin] = "stopped" \/ ~Alive

\* Every connect() returns, the joins in it included.
ConnectReturns == pc[Http] # "idle" ~> pc[Http] = "idle" \/ ~Alive

\* After the server or an error ended a connection, its update thread closes
\* the client and ends.
LostIsClosed ==
  \A c \in Conns :
    pc[c] = "loop" /\ ~running ~> pc[c] = "done" \/ ~Alive
=============================================================================
