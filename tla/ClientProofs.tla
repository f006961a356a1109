---------------------------- MODULE ClientProofs ----------------------------
(***************************************************************************)
(* What holds of Client for any number of connections, servers and ids.    *)
(***************************************************************************)
EXTENDS Client, TLAPS

CloseLabels == {"close.peer", "close.nullpeer", "close.host",
                "close.nullhost", "close.reset"}

\* An update thread that has not ended is the one in _thread, or the one that
\* connect() has just started and not stored yet.
Known ==
  \A c \in Conns :
    Updating(c) => thread = c \/ (pc[Http] = "conn.assign" /\ mine = c)

\* From the join of the old update thread to the assignment of the new one,
\* _thread is null.
Joined ==
  pc[Http] \in {"conn.commit", "conn.run", "conn.spawn", "conn.assign"} =>
    thread = Null

\* connect() has created a connection before it starts an update thread.
Created ==
  \/ pc[Http] \in {"conn.peer", "conn.service", "conn.await", "conn.commit",
                   "conn.run", "conn.spawn"}
  \/ pc[Http] \in {"abort", "join"} /\ abortRet[Http] = "conn.commit"
  => mine \in Conns

\* A TeamSpeak id belongs to an update thread that has not ended.
Owned == teamspeakId # Null => Updating(teamspeakId)

\* Once stop() went past the HTTP server no request is being answered.
NoRequest ==
  pc[Plugin] \notin {"idle", "cb.send", "stop"} => pc[Http] = "idle"

\* No update thread is left when another thread is inside close().
Alone ==
  \A t \in {Http, Plugin} :
    pc[t] \in CloseLabels => \A c \in Conns : ~Updating(c)

\* A freed host in _client is one whose destroyer is about to null it.
Freed ==
  client # Null =>
    \/ heap[client] = "live"
    \/ heap[client] = "freed" /\ \E t \in Threads : pc[t] = "close.nullhost"

Inv == TypeOK /\ Known /\ Joined /\ Created /\ OpenIsServed /\ Owned
         /\ NoRequest /\ Alone /\ Freed

-----------------------------------------------------------------------------
(* Facts the steps of all proofs share.                                    *)

LEMMA ThreadFacts ==
  /\ Http \in Threads /\ Plugin \in Threads /\ Conns \subseteq Threads
  /\ Http \notin Conns /\ Plugin \notin Conns /\ Http # Plugin
  /\ Null \notin Conns
  /\ NoServer \in Servers
BY ThreadsAssumption, RequestAssumption DEF Threads

\* The steps of the three methods every thread can be in.
MethodStep(t) ==
  \/ AbortNothing(t) \/ AbortOther(t) \/ Join(t)
  \/ ResetPeer(t) \/ NullPeer(t) \/ DestroyHost(t) \/ NullHost(t)
  \/ ResetSession(t)
  \/ CheckPeer(t) \/ Notify(t) \/ Drain(t) \/ ForgetServer(t)

\* The steps of the plugin thread that are its own.
PluginOwn == Callback \/ SendStatus \/ Stop \/ HttpClosed \/ Delete

LEMMA Cases ==
  ASSUME [Next]_vars
  PROVE  \/ \E t \in Threads : MethodStep(t)
         \/ \E s \in Servers, g \in GameIds : Connect(s, g)
         \/ ConnectStep
         \/ \E c \in Conns : Update(c)
         \/ PluginOwn
         \/ UNCHANGED vars
<1>1. CASE UNCHANGED vars
  BY <1>1
<1>2. CASE Halted
  BY <1>2 DEF Halted
<1>3. CASE HttpStep
  BY <1>3, ThreadFacts
     DEF HttpStep, Methods, AbortThread, Close, Disconnect, MethodStep
<1>4. CASE PluginStep
  BY <1>4, ThreadFacts
     DEF PluginStep, StopStep, Methods, AbortThread, Close, Disconnect,
         MethodStep, PluginOwn
<1>5. CASE \E c \in Conns : UpdateStep(c)
  BY <1>5, ThreadFacts
     DEF UpdateStep, Methods, AbortThread, Close, Disconnect, MethodStep
<1>6. CASE Callback \/ Stop
  BY <1>6 DEF PluginOwn
<1> QED
  BY <1>1, <1>2, <1>3, <1>4, <1>5, <1>6 DEF Next

-----------------------------------------------------------------------------
(* Type correctness.                                                       *)

LEMMA TypeMethod ==
  ASSUME TypeOK, NEW t \in Threads, MethodStep(t)
  PROVE  TypeOK'
<1> USE ThreadFacts DEF TypeOK, fields, frames, locals, Pointers, Labels,
        AbortReturns, CloseReturns, Goto
<1>1. CASE AbortNothing(t) \/ AbortOther(t) \/ Join(t)
  BY <1>1 DEF AbortNothing, AbortOther, Join
<1>2. CASE ResetPeer(t) \/ NullPeer(t) \/ DestroyHost(t) \/ NullHost(t)
  BY <1>2 DEF ResetPeer, NullPeer, DestroyHost, NullHost, Fates
<1>3. CASE ResetSession(t)
  BY <1>3 DEF ResetSession
<1>4. CASE CheckPeer(t) \/ Drain(t)
  BY <1>4 DEF CheckPeer, Drain, DisconnectReturn, Fates
<1>5. CASE Notify(t) \/ ForgetServer(t)
  BY <1>5 DEF Notify, ForgetServer, CallAbort, CallClose, DisconnectReturn,
              Fates
<1> QED
  BY <1>1, <1>2, <1>3, <1>4, <1>5 DEF MethodStep

LEMMA TypeConnect ==
  ASSUME TypeOK, ConnectStep
  PROVE  TypeOK'
<1> USE ThreadFacts DEF TypeOK, fields, frames, locals, Pointers, Labels,
        AbortReturns, CloseReturns, Goto
<1>1. CASE CheckSame \/ CheckOpen
  BY <1>1 DEF CheckSame, CheckOpen
<1>2. CASE CreateHost
  BY <1>2 DEF CreateHost
<1>3. CASE ConnectPeer
  BY <1>3 DEF ConnectPeer, CallAbort, CallClose, Fates
<1>4. CASE BeginService \/ EndService
  BY <1>4 DEF BeginService, EndService, CallAbort, CallClose, Fates
<1>5. CASE CommitSession \/ SetRunning \/ AssignThread
  BY <1>5 DEF CommitSession, SetRunning, AssignThread
<1>6. CASE SpawnUpdate
  <2>1. pc' \in [Threads -> Labels]
    BY <1>6 DEF SpawnUpdate
  <2> QED
    BY <1>6, <2>1 DEF SpawnUpdate
<1>7. CASE SendProtocol
  BY <1>7 DEF SendProtocol, SendFates, Fates
<1> QED
  BY <1>1, <1>2, <1>3, <1>4, <1>5, <1>6, <1>7 DEF ConnectStep

LEMMA TypeUpdate ==
  ASSUME TypeOK, NEW c \in Conns, Update(c)
  PROVE  TypeOK'
<1> USE ThreadFacts DEF TypeOK, fields, frames, locals, Pointers, Labels,
        AbortReturns, CloseReturns, Goto
<1>1. CASE CheckLoop(c)
  BY <1>1 DEF CheckLoop, CallAbort, CallClose
<1>2. CASE Poll(c)
  <2>1. running' \in BOOLEAN
    BY <1>2, Zenon DEF Poll
  <2>2. pc' \in [Threads -> Labels]
    BY <1>2 DEF Poll
  <2> QED
    BY <1>2, <2>1, <2>2 DEF Poll, Fates
<1>4. CASE Receive(c)
  BY <1>4 DEF Receive
<1>3. CASE AcceptHandshake(c) \/ SendAnswer(c)
  BY <1>3 DEF AcceptHandshake, SendAnswer, SendFates, Fates
<1> QED
  BY <1>1, <1>2, <1>3, <1>4 DEF Update

LEMMA TypeStep ==
  ASSUME TypeOK, [Next]_vars
  PROVE  TypeOK'
<1> USE ThreadFacts DEF TypeOK, fields, frames, locals, Pointers, Labels,
        AbortReturns, CloseReturns, Goto
<1>1. ASSUME NEW s \in Servers, NEW g \in GameIds, Connect(s, g)
      PROVE  TypeOK'
  BY <1>1 DEF Connect
<1>2. CASE PluginOwn
  BY <1>2 DEF PluginOwn, Callback, SendStatus, Stop, HttpClosed, Delete,
              CallAbort, CallClose, SendFates, Fates
<1>3. CASE UNCHANGED vars
  BY <1>3 DEF vars
<1> QED
  BY <1>1, <1>2, <1>3, Cases, TypeMethod, TypeConnect, TypeUpdate

LEMMA TypeInit == Init => TypeOK
<1> SUFFICES ASSUME Init PROVE TypeOK
  OBVIOUS
<1>1. server \in Servers
  BY RequestAssumption DEF Init
<1>2. pc \in [Threads -> Labels]
  BY DEF Init, Labels, CloseReturns
<1>3. /\ abortRet \in [Threads -> AbortReturns]
      /\ closeRet \in [Threads -> CloseReturns]
  BY DEF Init, AbortReturns, CloseReturns
<1>4. request \in [server : Servers, gameId : GameIds \cup {0}]
  BY ThreadFacts DEF Init
<1> QED
  BY <1>1, <1>2, <1>3, <1>4 DEF Init, TypeOK, Pointers

\* Every variable has its type in every reachable state.
THEOREM TypeCorrect == Spec => []TypeOK
BY TypeInit, TypeStep, PTL DEF Spec

-----------------------------------------------------------------------------
(* The inductive invariant.  First, what the steps of a thread t inside the *)
(* shared methods can do to what the invariant speaks of.                  *)

MethodLabels == {"abort", "join", "disc.check", "disc.notify", "disc.drain",
                 "disc.reset"} \cup CloseLabels

LEMMA MethodEffect ==
  ASSUME TypeOK, NEW t \in Threads, MethodStep(t)
  PROVE  /\ pc[t] \in MethodLabels
         /\ \A u \in Threads \ {t} :
              pc'[u] = pc[u] /\ abortRet'[u] = abortRet[u]
         /\ mine' = mine
         /\ thread' = thread \/ (thread' = Null /\ pc[thread] = "done")
         /\ pc'[t] \in MethodLabels \cup {"conn.commit"} \cup CloseReturns
         /\ pc'[t] = "conn.commit" =>
              /\ thread' \in {Null, t}
              /\ pc[t] \in {"abort", "join"} /\ abortRet[t] = "conn.commit"
         /\ pc'[t] \in {"abort", "join"} /\ abortRet'[t] = "conn.commit" =>
              pc[t] \in {"abort", "join"} /\ abortRet[t] = "conn.commit"
         /\ pc'[t] \in CloseLabels =>
              pc[t] \in CloseLabels \/ thread' \in {Null, t}
<1> USE ThreadFacts DEF TypeOK, fields, frames, locals, MethodLabels,
        CloseLabels, AbortReturns, CloseReturns, Goto
<1>1. CASE AbortNothing(t) \/ AbortOther(t) \/ Join(t)
  BY <1>1 DEF AbortNothing, AbortOther, Join
<1>2. CASE ResetPeer(t) \/ NullPeer(t) \/ DestroyHost(t) \/ NullHost(t)
  BY <1>2 DEF ResetPeer, NullPeer, DestroyHost, NullHost
<1>3. CASE ResetSession(t)
  BY <1>3 DEF ResetSession
<1>4. CASE CheckPeer(t) \/ Drain(t)
  BY <1>4 DEF CheckPeer, Drain, DisconnectReturn
<1>5. CASE Notify(t) \/ ForgetServer(t)
  BY <1>5 DEF Notify, ForgetServer, CallAbort, CallClose
<1> QED
  BY <1>1, <1>2, <1>3, <1>4, <1>5 DEF MethodStep

\* Only the last step of close() ends a thread, and it forgets the session.
LEMMA MethodSession ==
  ASSUME TypeOK, NEW t \in Threads, MethodStep(t)
  PROVE  /\ running' => running /\ pc'[t] \notin {"done", "unborn"}
         /\ teamspeakId' # Null =>
              teamspeakId' = teamspeakId /\ pc'[t] \notin {"done", "unborn"}
<1> USE ThreadFacts DEF TypeOK, fields, frames, locals, AbortReturns, Goto
<1>1. CASE AbortNothing(t) \/ AbortOther(t) \/ Join(t)
  BY <1>1 DEF AbortNothing, AbortOther, Join
<1>2. CASE ResetPeer(t) \/ NullPeer(t) \/ DestroyHost(t) \/ NullHost(t)
  BY <1>2 DEF ResetPeer, NullPeer, DestroyHost, NullHost
<1>3. CASE ResetSession(t)
  BY <1>3 DEF ResetSession
<1>4. CASE CheckPeer(t) \/ Drain(t)
  BY <1>4 DEF CheckPeer, Drain, DisconnectReturn
<1>5. CASE Notify(t) \/ ForgetServer(t)
  BY <1>5 DEF Notify, ForgetServer, CallAbort, CallClose
<1> QED
  BY <1>1, <1>2, <1>3, <1>4, <1>5 DEF MethodStep

\* Among them, only two touch _client or the memory behind it.
LEMMA MethodHost ==
  ASSUME TypeOK, NEW t \in Threads, MethodStep(t)
  PROVE  \/ DestroyHost(t)
         \/ NullHost(t)
         \/ client' = client /\ heap' = heap /\ pc[t] # "close.nullhost"
<1> USE DEF fields, frames, locals
<1>1. CASE AbortNothing(t) \/ AbortOther(t) \/ Join(t)
  BY <1>1 DEF AbortNothing, AbortOther, Join
<1>2. CASE ResetPeer(t) \/ NullPeer(t) \/ ResetSession(t)
  BY <1>2 DEF ResetPeer, NullPeer, ResetSession
<1>3. CASE CheckPeer(t) \/ Notify(t) \/ Drain(t) \/ ForgetServer(t)
  BY <1>3 DEF CheckPeer, Notify, Drain, ForgetServer
<1> QED
  BY <1>1, <1>2, <1>3 DEF MethodStep

-----------------------------------------------------------------------------
(* Each kind of step preserves the invariant.                              *)

LEMMA InvMethod ==
  ASSUME Inv, TypeOK', NEW t \in Threads, MethodStep(t)
  PROVE  Inv'
<1> USE ThreadFacts DEF MethodLabels, CloseLabels
<1>0. TypeOK
  BY DEF Inv
<1>1. \A c \in Conns : Updating(c)' => Updating(c)
  BY <1>0, MethodEffect DEF Updating
<1>2. Known'
  <2> SUFFICES ASSUME NEW c \in Conns, Updating(c)'
               PROVE  thread' = c \/ (pc'[Http] = "conn.assign" /\ mine' = c)
    BY DEF Known
  <2>1. Updating(c) /\ pc[c] # "done"
    BY <1>1 DEF Updating
  <2>2. CASE thread = c
    BY <1>0, <2>1, <2>2, MethodEffect
  <2>3. CASE pc[Http] = "conn.assign" /\ mine = c
    BY <1>0, <2>3, MethodEffect
  <2> QED
    BY <2>1, <2>2, <2>3 DEF Inv, Known
<1>3. Joined'
  BY <1>0, MethodEffect DEF Inv, Joined, TypeOK, Pointers, CloseReturns
<1>4. Created'
  BY <1>0, MethodEffect DEF Inv, Created, TypeOK, Pointers, CloseReturns
<1>5. OpenIsServed'
  <2> SUFFICES ASSUME running'
               PROVE  pc'[Http] = "conn.spawn" \/ \E c \in Conns : Updating(c)'
    BY DEF OpenIsServed
  <2>1. running /\ pc'[t] \notin {"done", "unborn"}
    BY <1>0, MethodSession
  <2>2. CASE pc[Http] = "conn.spawn"
    BY <1>0, <2>2, MethodEffect
  <2>3. ASSUME NEW c \in Conns, Updating(c)
        PROVE  Updating(c)'
    BY <1>0, <2>1, <2>3, MethodEffect DEF Updating
  <2> QED
    BY <2>1, <2>2, <2>3 DEF Inv, OpenIsServed
<1>6. Owned'
  BY <1>0, MethodEffect, MethodSession
     DEF Inv, Owned, Updating, TypeOK, Pointers
<1>7. NoRequest'
  BY <1>0, MethodEffect DEF Inv, NoRequest
<1>8. Alone'
  <2> SUFFICES ASSUME NEW u \in {Http, Plugin}, pc'[u] \in CloseLabels,
                      NEW c \in Conns, Updating(c)'
               PROVE  FALSE
    BY DEF Alone
  <2>1. Updating(c)
    BY <1>1
  <2>2. pc[u] \notin CloseLabels
    BY <2>1 DEF Inv, Alone
  <2>3. u = t /\ thread' = Null /\ pc[u] \in MethodLabels
    BY <1>0, <2>2, MethodEffect DEF TypeOK, Pointers
  <2>4. pc'[Http] # "conn.assign"
    BY <1>0, <2>3, MethodEffect DEF Inv, NoRequest
  <2> QED
    BY <1>2, <2>3, <2>4 DEF Known
<1>9. Freed'
  <2>1. CASE DestroyHost(t)
    BY <1>0, <2>1 DEF DestroyHost, Goto, TypeOK, Pointers, Inv, Freed, fields
  <2>2. CASE NullHost(t)
    BY <2>2 DEF NullHost, Freed
  <2>3. CASE client' = client /\ heap' = heap /\ pc[t] # "close.nullhost"
    BY <1>0, <2>3, MethodEffect DEF Inv, Freed
  <2> QED
    BY <1>0, <2>1, <2>2, <2>3, MethodHost
<1> QED
  BY <1>2, <1>3, <1>4, <1>5, <1>6, <1>7, <1>8, <1>9 DEF Inv

LEMMA InvConnect ==
  ASSUME Inv, TypeOK', ConnectStep
  PROVE  Inv'
<1> USE ThreadFacts
    DEF Inv, TypeOK, Pointers, fields, frames, locals, Goto, CloseLabels,
        Known, Joined, Created, OpenIsServed, Owned, NoRequest, Alone, Freed,
        Updating
<1>1. CASE CheckSame
  BY <1>1 DEF CheckSame
<1>2. CASE CheckOpen
  BY <1>2 DEF CheckOpen
<1>3. CASE CreateHost
  BY <1>3 DEF CreateHost
<1>4. CASE ConnectPeer
  BY <1>4 DEF ConnectPeer, CallAbort, CallClose
<1>5. CASE BeginService
  BY <1>5 DEF BeginService
<1>6. CASE EndService
  BY <1>6 DEF EndService, CallAbort, CallClose
<1>7. CASE CommitSession
  BY <1>7 DEF CommitSession
<1>8. CASE SetRunning
  BY <1>8 DEF SetRunning
<1>9. CASE SpawnUpdate
  BY <1>9 DEF SpawnUpdate
<1>10. CASE AssignThread
  BY <1>10 DEF AssignThread
<1>11. CASE SendProtocol
  BY <1>11 DEF SendProtocol
<1> QED
  BY <1>1, <1>2, <1>3, <1>4, <1>5, <1>6, <1>7, <1>8, <1>9, <1>10, <1>11
     DEF ConnectStep

LEMMA InvUpdate ==
  ASSUME Inv, TypeOK', NEW c \in Conns, Update(c)
  PROVE  Inv'
<1> USE ThreadFacts
    DEF Inv, TypeOK, Pointers, fields, frames, locals, Goto, CloseLabels,
        Known, Joined, Created, OpenIsServed, Owned, NoRequest, Alone, Freed,
        Updating
<1>1. CASE CheckLoop(c)
  BY <1>1 DEF CheckLoop, CallAbort, CallClose
<1>2. CASE Poll(c)
  <2>1. running' => running
    BY <1>2, Zenon DEF Poll
  <2>2. /\ pc[c] = "poll"
        /\ \E label \in {"loop", "receive"} : pc' = [pc EXCEPT ![c] = label]
        /\ UNCHANGED <<client, peer, thread, teamspeakId, heap, frames, mine>>
    BY <1>2 DEF Poll
  <2> QED
    BY <2>1, <2>2
<1>3. CASE Receive(c)
  BY <1>3 DEF Receive
<1>4. CASE AcceptHandshake(c)
  BY <1>4 DEF AcceptHandshake
<1>5. CASE SendAnswer(c)
  BY <1>5 DEF SendAnswer
<1> QED
  BY <1>1, <1>2, <1>3, <1>4, <1>5 DEF Update

LEMMA InvOther ==
  ASSUME Inv, TypeOK',
         \/ \E s \in Servers, g \in GameIds : Connect(s, g)
         \/ PluginOwn
         \/ UNCHANGED vars
  PROVE  Inv'
<1> USE ThreadFacts
    DEF Inv, TypeOK, Pointers, fields, frames, locals, Goto, CloseLabels,
        Known, Joined, Created, OpenIsServed, Owned, NoRequest, Alone, Freed,
        Updating
<1>1. ASSUME NEW s \in Servers, NEW g \in GameIds, Connect(s, g)
      PROVE  Inv'
  BY <1>1 DEF Connect
<1>2. CASE Callback \/ SendStatus \/ Stop \/ HttpClosed
  BY <1>2 DEF Callback, SendStatus, Stop, HttpClosed
<1>3. CASE Delete
  BY <1>3 DEF Delete, CallAbort, CallClose
<1>4. CASE UNCHANGED vars
  BY <1>4 DEF vars
<1> QED
  BY <1>1, <1>2, <1>3, <1>4 DEF PluginOwn

-----------------------------------------------------------------------------
(* The theorems.                                                           *)

LEMMA InvInit == Init => Inv
<1> SUFFICES ASSUME Init PROVE Inv
  OBVIOUS
<1>1. pc = [t \in Threads |-> IF t \in Conns THEN "unborn" ELSE "idle"]
  BY DEF Init
<1>2. \A c \in Conns : ~Updating(c)
  BY <1>1, ThreadFacts DEF Updating
<1>3. pc[Http] = "idle" /\ pc[Plugin] = "idle"
  BY <1>1, ThreadFacts
<1> QED
  BY <1>2, <1>3, TypeInit
     DEF Init, Inv, Known, Joined, Created, OpenIsServed, Owned, NoRequest,
         Alone, Freed, CloseLabels

LEMMA InvStep ==
  ASSUME Inv, [Next]_vars
  PROVE  Inv'
<1>1. TypeOK'
  BY TypeStep DEF Inv
<1> QED
  BY <1>1, Cases, InvMethod, InvConnect, InvUpdate, InvOther

\* The inductive invariant holds in every reachable state.
THEOREM Invariance == Spec => []Inv
BY InvInit, InvStep, PTL DEF Spec

\* Two update threads never run at once.
THEOREM OneUpdater == Spec => []SingleUpdater
<1>1. Inv => SingleUpdater
  BY ThreadFacts DEF Inv, Known, Joined, SingleUpdater, TypeOK, Pointers
<1> QED
  BY <1>1, Invariance, PTL

\* isOpen() is only true while an update thread serves the connection.
THEOREM Served == Spec => []OpenIsServed
<1>1. Inv => OpenIsServed
  BY DEF Inv
<1> QED
  BY <1>1, Invariance, PTL

\* isIngame() never answers for a connection that has ended.
THEOREM Current == Spec => []IngameIsCurrent
<1>1. Inv => IngameIsCurrent
  BY DEF Inv, Owned, Known, Joined, IngameIsCurrent, IsIngame, TypeOK, Pointers
<1> QED
  BY <1>1, Invariance, PTL

\* enet_host_destroy() is never called on a host that was destroyed before.
THEOREM NoDoubleDestroy == Spec => []DestroyedOnce
<1>1. ASSUME Inv, NEW t \in Threads, NEW u \in Threads,
             pc[t] = "close.host", pc[u] = "close.nullhost"
      PROVE  FALSE
  <2> USE <1>1, ThreadFacts DEF Inv, CloseLabels
  <2>1. CASE t \in Conns /\ u \in Conns
    <3>1. Updating(t) /\ Updating(u)
      BY <2>1 DEF Updating
    <3> QED
      BY <2>1, <3>1 DEF Known, Joined, TypeOK, Pointers
  <2>2. CASE t \in Conns /\ u \notin Conns
    BY <2>2 DEF Alone, Updating, Threads
  <2>3. CASE t \notin Conns /\ u \in Conns
    BY <2>3 DEF Alone, Updating, Threads
  <2>4. CASE t \notin Conns /\ u \notin Conns
    BY <2>4 DEF NoRequest, Threads
  <2> QED
    BY <2>1, <2>2, <2>3, <2>4
<1>2. Inv => DestroyedOnce
  BY <1>1 DEF Inv, Freed, DestroyedOnce
<1> QED
  BY <1>2, Invariance, PTL

-----------------------------------------------------------------------------
(* The joins.                                                              *)

\* A thread object in _thread is one that connect() has started.
Born ==
  /\ thread # Null => pc[thread] # "unborn"
  /\ pc[Http] = "conn.assign" => mine \in Conns /\ pc[mine] # "unborn"

\* Nobody but Http and Plugin joins, and not before the flag is down.
JoinInv ==
  /\ Born
  /\ \A t \in Threads :
       pc[t] = "join" => t \notin Conns /\ ~running /\ thread # Null

\* An update thread finds itself in _thread, or nobody: it never joins.
LEMMA UpdaterJoinsNobody ==
  ASSUME Inv, NEW c \in Conns, Updating(c)
  PROVE  thread \in {Null, c}
BY ThreadFacts DEF Inv, Known, Joined

LEMMA JoinMethod ==
  ASSUME Inv, Inv', JoinInv, NEW t \in Threads, MethodStep(t)
  PROVE  JoinInv'
<1> USE ThreadFacts DEF Inv, TypeOK, Pointers, fields, frames, locals, Goto,
        JoinInv, Born, NoRequest, AbortReturns, CloseReturns, Threads
<1>1. CASE AbortNothing(t)
  BY <1>1 DEF AbortNothing
<1>2. CASE AbortOther(t)
  BY <1>2, UpdaterJoinsNobody DEF AbortOther, Updating
<1>3. CASE Join(t)
  BY <1>3 DEF Join
<1>4. CASE ResetPeer(t) \/ NullPeer(t) \/ DestroyHost(t) \/ NullHost(t)
  BY <1>4 DEF ResetPeer, NullPeer, DestroyHost, NullHost
<1>5. CASE ResetSession(t)
  BY <1>5 DEF ResetSession
<1>6. CASE CheckPeer(t) \/ Drain(t)
  BY <1>6 DEF CheckPeer, Drain, DisconnectReturn
<1>7. CASE Notify(t) \/ ForgetServer(t)
  BY <1>7 DEF Notify, ForgetServer, CallAbort, CallClose
<1> QED
  BY <1>1, <1>2, <1>3, <1>4, <1>5, <1>6, <1>7 DEF MethodStep

LEMMA JoinConnect ==
  ASSUME Inv, Inv', JoinInv, ConnectStep
  PROVE  JoinInv'
<1> USE ThreadFacts DEF Inv, TypeOK, Pointers, fields, frames, locals, Goto,
        JoinInv, Born, NoRequest, Created, Threads
<1>1. CASE CheckSame \/ CheckOpen \/ CreateHost
  BY <1>1 DEF CheckSame, CheckOpen, CreateHost
<1>2. CASE ConnectPeer \/ BeginService \/ EndService
  BY <1>2 DEF ConnectPeer, BeginService, EndService, CallAbort, CallClose
<1>3. CASE SetRunning
  <2>1. \A t \in Threads : pc[t] # "join"
    BY <1>3 DEF SetRunning, Joined
  <2> QED
    BY <1>3, <2>1 DEF SetRunning
<1>4. CASE CommitSession
  BY <1>4 DEF CommitSession
<1>5. CASE SpawnUpdate
  BY <1>5 DEF SpawnUpdate
<1>6. CASE AssignThread \/ SendProtocol
  BY <1>6 DEF AssignThread, SendProtocol
<1> QED
  BY <1>1, <1>2, <1>3, <1>4, <1>5, <1>6 DEF ConnectStep

LEMMA JoinUpdate ==
  ASSUME Inv, JoinInv, NEW c \in Conns, Update(c)
  PROVE  JoinInv'
<1> USE ThreadFacts DEF Inv, TypeOK, Pointers, fields, frames, locals, Goto,
        JoinInv, Born, Threads
<1>1. CASE CheckLoop(c)
  BY <1>1 DEF CheckLoop, CallAbort, CallClose
<1>2. CASE Poll(c)
  <2>1. running' => running
    BY <1>2, Zenon DEF Poll
  <2>2. /\ pc[c] = "poll"
        /\ \E label \in {"loop", "receive"} : pc' = [pc EXCEPT ![c] = label]
        /\ UNCHANGED <<thread, mine>>
    BY <1>2 DEF Poll
  <2> QED
    BY <2>1, <2>2
<1>3. CASE Receive(c)
  BY <1>3 DEF Receive
<1>4. CASE AcceptHandshake(c) \/ SendAnswer(c)
  BY <1>4 DEF AcceptHandshake, SendAnswer
<1> QED
  BY <1>1, <1>2, <1>3, <1>4 DEF Update

LEMMA JoinOther ==
  ASSUME Inv, JoinInv,
         \/ \E s \in Servers, g \in GameIds : Connect(s, g)
         \/ PluginOwn
         \/ UNCHANGED vars
  PROVE  JoinInv'
<1> USE ThreadFacts DEF Inv, TypeOK, Pointers, fields, frames, locals, Goto,
        JoinInv, Born, Threads
<1>1. ASSUME NEW s \in Servers, NEW g \in GameIds, Connect(s, g)
      PROVE  JoinInv'
  BY <1>1 DEF Connect
<1>2. CASE Callback \/ SendStatus \/ Stop \/ HttpClosed \/ Delete
  BY <1>2 DEF Callback, SendStatus, Stop, HttpClosed, Delete, CallAbort,
              CallClose
<1>3. CASE UNCHANGED vars
  BY <1>3 DEF vars
<1> QED
  BY <1>1, <1>2, <1>3 DEF PluginOwn

LEMMA JoinInit == Init => JoinInv
<1> SUFFICES ASSUME Init PROVE JoinInv
  OBVIOUS
<1>1. pc = [t \in Threads |-> IF t \in Conns THEN "unborn" ELSE "idle"]
  BY DEF Init
<1> QED
  BY <1>1, ThreadFacts DEF Init, JoinInv, Born

\* abortThread() never deadlocks, whichever of the threads calls it and
\* whatever the others do: the safety core of "stop() and connect() return".
THEOREM JoinsEnd == Spec => []JoinedWillEnd
<1>1. Inv /\ JoinInv => JoinedWillEnd
  <2> SUFFICES ASSUME Inv, JoinInv, NEW t \in Threads, pc[t] = "join"
               PROVE  /\ thread \in Conns \ {t}
                      /\ pc[thread] \notin {"unborn", "join"}
                      /\ ~running
                      /\ \A u \in Threads : pc[u] = "join" => u = t
    BY DEF JoinedWillEnd
  <2> USE ThreadFacts DEF Inv, JoinInv, Born
  <2>1. thread \in Conns /\ ~running /\ pc[thread] # "unborn"
    BY DEF TypeOK, Pointers
  <2>2. \A u \in Threads : pc[u] = "join" => u \in {Http, Plugin}
    BY DEF Threads
  <2> QED
    BY <2>1, <2>2 DEF NoRequest
<1>2. Inv /\ Inv' /\ JoinInv /\ [Next]_vars => JoinInv'
  BY Cases, JoinMethod, JoinConnect, JoinUpdate, JoinOther
<1> QED
  BY <1>1, <1>2, JoinInit, Invariance, PTL DEF Spec

-----------------------------------------------------------------------------
(* What stop() leaves behind, and what disconnect() finds: a second         *)
(* inductive invariant, relative to the first.                             *)

\* connect() has nothing in _client and _peer that is not being served.
Settled ==
  \/ pc[Http] \in {"idle", "conn.same", "conn.open", "conn.create",
                   "conn.assign", "conn.hello", "disc.check", "disc.notify",
                   "disc.drain", "disc.reset"}
  \/ pc[Http] \in {"abort", "join"} /\ abortRet[Http] = "disc.drain"

\* Then a connection nobody serves is closed ...
Closed ==
  Settled /\ (\A c \in Conns : ~Updating(c)) => client = Null /\ peer = Null

\* ... because close(), on any thread, has done its work where it stands.
Closing ==
  \A t \in Threads :
    Settled \/ pc[Http] \in CloseLabels =>
      /\ pc[t] \in {"close.host", "close.nullhost", "close.reset"} =>
           peer = Null
      /\ pc[t] = "close.reset" => client = Null

\* The plugin thread has joined the update thread before it closes.
PluginJoined ==
  pc[Plugin] \in CloseLabels \cup {"stopped"} => thread = Null

Inv2 == Closed /\ Closing /\ PluginJoined /\ GoodbyeIsDropped /\ StoppedIsQuiet

\* Methods only ever null the pointers, and do so before they go on.
LEMMA MethodPointers ==
  ASSUME TypeOK, NEW t \in Threads, MethodStep(t)
  PROVE  /\ client' \in {client, Null} /\ peer' \in {peer, Null}
         /\ pc'[t] \in {"close.host", "close.nullhost", "close.reset"} =>
              \/ peer' = Null
              \/ pc[t] \in {"close.host", "close.nullhost"}
         /\ pc'[t] = "close.reset" => client' = Null
         /\ pc'[t] = "disc.drain" =>
              \/ pc[t] \in {"abort", "join"} /\ abortRet[t] = "disc.drain"
                 /\ (thread \in {Null, t} \/ pc[thread] = "done")
         /\ pc'[t] \in {"abort", "join"} /\ abortRet'[t] = "disc.drain" =>
              \/ pc[t] = "disc.notify"
              \/ pc[t] \in {"abort", "join"} /\ abortRet[t] = "disc.drain"
         /\ pc[t] \in {"abort", "join"} => abortRet' = abortRet
         /\ pc'[t] \in CloseReturns =>
              \/ pc[t] = "close.reset"
              \/ pc[t] = "disc.check" /\ pc'[t] = DisconnectReturn(t)
         /\ pc'[t] = "disc.reset" => pc[t] = "disc.drain"
         /\ pc'[t] = "disc.notify" => pc[t] = "disc.check"
         /\ pc'[t] # "disc.check"
<1> USE ThreadFacts DEF TypeOK, fields, frames, locals,
        AbortReturns, CloseReturns, Goto
<1>1. CASE AbortNothing(t) \/ AbortOther(t) \/ Join(t)
  BY <1>1 DEF AbortNothing, AbortOther, Join
<1>2. CASE ResetPeer(t) \/ NullPeer(t) \/ DestroyHost(t) \/ NullHost(t)
  BY <1>2 DEF ResetPeer, NullPeer, DestroyHost, NullHost
<1>3. CASE ResetSession(t)
  BY <1>3 DEF ResetSession
<1>4. CASE CheckPeer(t) \/ Drain(t)
  BY <1>4 DEF CheckPeer, Drain, DisconnectReturn
<1>5. CASE Notify(t) \/ ForgetServer(t)
  BY <1>5 DEF Notify, ForgetServer, CallAbort, CallClose
<1> QED
  BY <1>1, <1>2, <1>3, <1>4, <1>5 DEF MethodStep

LEMMA Inv2Method ==
  ASSUME Inv, Inv', Inv2, NEW t \in Threads, MethodStep(t)
  PROVE  Inv2'
<1> USE ThreadFacts DEF MethodLabels, CloseLabels, CloseReturns
<1>0. TypeOK
  BY DEF Inv
<1>1. t \in Conns => Updating(t)
  BY <1>0, MethodEffect DEF Updating
<1>2. Settled' => Settled \/ (t = Http /\ pc[t] = "close.reset")
  BY <1>0, MethodEffect, MethodPointers DEF Settled
<1>3. Closed'
  <2> SUFFICES ASSUME Settled', \A c \in Conns : ~Updating(c)'
               PROVE  client' = Null /\ peer' = Null
    BY DEF Closed
  <2>1. CASE pc[t] = "close.reset"
    BY <1>0, <1>2, <2>1, MethodPointers DEF Inv2, Closing
  <2>2. CASE pc[t] # "close.reset"
    <3>1. \A c \in Conns : ~Updating(c)
      BY <1>0, <2>2, MethodEffect, MethodPointers
         DEF Updating, DisconnectReturn
    <3> QED
      BY <1>0, <1>2, <2>2, <3>1, MethodPointers DEF Inv2, Closed
  <2> QED
    BY <2>1, <2>2
<1>4. Closing'
  <2> SUFFICES ASSUME NEW u \in Threads,
                      Settled' \/ pc'[Http] \in CloseLabels
               PROVE  /\ pc'[u] \in {"close.host", "close.nullhost",
                                     "close.reset"} => peer' = Null
                      /\ pc'[u] = "close.reset" => client' = Null
    BY DEF Closing
  <2>1. CASE Settled \/ pc[Http] \in CloseLabels
    BY <1>0, <2>1, MethodEffect, MethodPointers DEF Inv2, Closing
  <2>2. CASE ~Settled /\ pc[Http] \notin CloseLabels
    <3>1. t = Http /\ pc'[Http] \in CloseLabels
      BY <1>0, <1>2, <2>2, MethodEffect
    <3>2. CASE u = Http
      BY <1>0, <2>2, <3>1, <3>2, MethodPointers
    <3>3. CASE u = Plugin
      BY <3>1, <3>3 DEF Inv, NoRequest
    <3>4. CASE u \in Conns
      BY <3>1, <3>4 DEF Inv, Alone, Updating
    <3> QED
      BY <3>2, <3>3, <3>4 DEF Threads
  <2> QED
    BY <2>1, <2>2
<1>5. PluginJoined'
  BY <1>0, MethodEffect, MethodPointers
     DEF Inv2, PluginJoined, DisconnectReturn, TypeOK, Pointers
<1>6. GoodbyeIsDropped'
  <2> SUFFICES ASSUME NEW u \in {Http, Plugin}, pc'[u] = "disc.drain"
               PROVE  client' = Null
    BY DEF GoodbyeIsDropped
  <2>1. CASE pc[u] = "disc.drain"
    BY <1>0, <2>1, MethodPointers DEF Inv2, GoodbyeIsDropped
  <2>2. CASE pc[u] # "disc.drain"
    <3>1. /\ u = t
          /\ pc[u] \in {"abort", "join"} /\ abortRet[u] = "disc.drain"
          /\ thread \in {Null, t} \/ pc[thread] = "done"
      BY <1>0, <2>2, MethodEffect, MethodPointers
    <3>2. pc[Http] # "conn.assign" /\ Settled
      BY <3>1 DEF Inv, NoRequest, Settled
    <3>3. \A c \in Conns : ~Updating(c)
      BY <3>1, <3>2 DEF Inv, Known, Updating
    <3> QED
      BY <1>0, <3>2, <3>3, MethodPointers DEF Inv2, Closed
  <2> QED
    BY <2>1, <2>2
<1>7. StoppedIsQuiet'
  <2> SUFFICES ASSUME pc'[Plugin] = "stopped"
               PROVE  /\ \A c \in Conns : ~Updating(c)'
                      /\ client' = Null /\ peer' = Null /\ thread' = Null
    BY DEF StoppedIsQuiet
  <2>1. t = Plugin
    <3>1. CASE t \in Conns
      BY <1>0, <1>1, <3>1, MethodEffect DEF Inv2, StoppedIsQuiet
    <3>2. CASE t = Http
      BY <1>0, <3>2, MethodEffect DEF Inv, NoRequest
    <3> QED
      BY <3>1, <3>2 DEF Threads
  <2>2. pc[Plugin] = "close.reset" /\ pc[Http] = "idle"
    BY <1>0, <2>1, MethodEffect, MethodPointers
       DEF Inv, NoRequest, DisconnectReturn
  <2>3. \A c \in Conns : ~Updating(c)'
    BY <1>0, <2>1, <2>2, MethodEffect DEF Inv, Alone, Updating
  <2>4. client' = Null /\ peer' = Null
    BY <1>0, <2>2, MethodPointers DEF Inv2, Closing, Settled
  <2> QED
    BY <1>5, <2>3, <2>4 DEF PluginJoined
<1> QED
  BY <1>3, <1>4, <1>5, <1>6, <1>7 DEF Inv2

LEMMA Inv2Connect ==
  ASSUME Inv, Inv2, ConnectStep
  PROVE  Inv2'
<1> USE ThreadFacts
    DEF Inv, TypeOK, Pointers, fields, frames, locals, Goto, CloseLabels,
        Known, Joined, Created, NoRequest, Updating, Threads,
        Inv2, Settled, Closed, Closing, PluginJoined, GoodbyeIsDropped,
        StoppedIsQuiet
<1>1. CASE CheckSame
  BY <1>1 DEF CheckSame
<1>2. CASE CheckOpen
  BY <1>2 DEF CheckOpen
<1>3. CASE CreateHost
  BY <1>3 DEF CreateHost
<1>4. CASE ConnectPeer
  BY <1>4 DEF ConnectPeer, CallAbort, CallClose
<1>5. CASE BeginService
  BY <1>5 DEF BeginService
<1>6. CASE EndService
  BY <1>6 DEF EndService, CallAbort, CallClose
<1>7. CASE CommitSession
  BY <1>7 DEF CommitSession
<1>8. CASE SetRunning
  BY <1>8 DEF SetRunning
<1>9. CASE SpawnUpdate
  BY <1>9 DEF SpawnUpdate
<1>10. CASE AssignThread
  BY <1>10 DEF AssignThread
<1>11. CASE SendProtocol
  BY <1>11 DEF SendProtocol
<1> QED
  BY <1>1, <1>2, <1>3, <1>4, <1>5, <1>6, <1>7, <1>8, <1>9, <1>10, <1>11
     DEF ConnectStep

LEMMA Inv2Update ==
  ASSUME Inv, Inv2, NEW c \in Conns, Update(c)
  PROVE  Inv2'
<1> USE ThreadFacts
    DEF Inv, TypeOK, fields, frames, locals, Goto, CloseLabels, Updating,
        Threads, Inv2, Settled, Closed, Closing, PluginJoined,
        GoodbyeIsDropped, StoppedIsQuiet
<1>1. CASE CheckLoop(c)
  BY <1>1 DEF CheckLoop, CallAbort, CallClose
<1>2. CASE Poll(c)
  <2>1. /\ pc[c] = "poll"
        /\ \E label \in {"loop", "receive"} : pc' = [pc EXCEPT ![c] = label]
        /\ UNCHANGED <<client, peer, thread, frames>>
    BY <1>2 DEF Poll
  <2> QED
    BY <2>1
<1>3. CASE Receive(c)
  BY <1>3 DEF Receive
<1>4. CASE AcceptHandshake(c)
  BY <1>4 DEF AcceptHandshake
<1>5. CASE SendAnswer(c)
  BY <1>5 DEF SendAnswer
<1> QED
  BY <1>1, <1>2, <1>3, <1>4, <1>5 DEF Update

LEMMA Inv2Other ==
  ASSUME Inv, Inv2,
         \/ \E s \in Servers, g \in GameIds : Connect(s, g)
         \/ PluginOwn
         \/ UNCHANGED vars
  PROVE  Inv2'
<1> USE ThreadFacts
    DEF Inv, TypeOK, fields, frames, locals, Goto, CloseLabels, NoRequest,
        Updating, Threads, Inv2, Settled, Closed, Closing, PluginJoined,
        GoodbyeIsDropped, StoppedIsQuiet
<1>1. ASSUME NEW s \in Servers, NEW g \in GameIds, Connect(s, g)
      PROVE  Inv2'
  BY <1>1 DEF Connect
<1>2. CASE Callback \/ SendStatus \/ Stop \/ HttpClosed
  BY <1>2 DEF Callback, SendStatus, Stop, HttpClosed
<1>3. CASE Delete
  BY <1>3 DEF Delete, CallAbort, CallClose
<1>4. CASE UNCHANGED vars
  BY <1>4 DEF vars
<1> QED
  BY <1>1, <1>2, <1>3, <1>4 DEF PluginOwn

LEMMA Inv2Init == Init => Inv2
<1> SUFFICES ASSUME Init PROVE Inv2
  OBVIOUS
<1>1. pc = [t \in Threads |-> IF t \in Conns THEN "unborn" ELSE "idle"]
  BY DEF Init
<1> QED
  BY <1>1, ThreadFacts
     DEF Init, Inv2, Closed, Closing, PluginJoined, GoodbyeIsDropped,
         StoppedIsQuiet, CloseLabels

THEOREM Invariance2 == Spec => []Inv2
<1>1. Inv /\ Inv' /\ Inv2 /\ [Next]_vars => Inv2'
  BY Cases, Inv2Method, Inv2Connect, Inv2Update, Inv2Other
<1> QED
  BY <1>1, Inv2Init, Invariance, PTL DEF Spec

\* After stop() nothing is left that could use the client.
THEOREM StopIsQuiet == Spec => []StoppedIsQuiet
<1>1. Inv2 => StoppedIsQuiet
  BY DEF Inv2
<1> QED
  BY <1>1, Invariance2, PTL

\* The goodbye of a disconnect() is never waited for: the host is gone.
THEOREM NoGoodbye == Spec => []GoodbyeIsDropped
<1>1. Inv2 => GoodbyeIsDropped
  BY DEF Inv2
<1> QED
  BY <1>1, Invariance2, PTL

-----------------------------------------------------------------------------
(* What the client remembers of its server, and the service of connections *)
(* one after the other.                                                    *)

\* A server is remembered from the commit of a session to the end of the
\* update thread that serves it.
Remembered ==
  server \notin Blank =>
    \/ pc[Http] \in {"conn.run", "conn.spawn"}
    \/ \E c \in Conns : Updating(c)

\* A connection has no update thread before connect() starts it.
Fresh ==
  /\ \A c \in Conns : heap[c] = "unborn" => pc[c] = "unborn"
  /\ \/ pc[Http] \in {"conn.peer", "conn.service", "conn.await",
                      "conn.commit", "conn.run", "conn.spawn"}
     \/ pc[Http] \in {"abort", "join"} /\ abortRet[Http] = "conn.commit"
     => pc[mine] = "unborn" /\ heap[mine] # "unborn"

Inv3 == Remembered /\ Fresh

\* The steps of the shared methods forget the server before a thread ends,
\* and free hosts only.
LEMMA MethodServer ==
  ASSUME TypeOK, NEW t \in Threads, MethodStep(t)
  PROVE  /\ server' = NoServer
            \/ (server' = server /\ pc'[t] \notin {"done", "unborn"})
         /\ \A c \in Conns : heap'[c] = "unborn" => heap[c] = "unborn"
<1> USE ThreadFacts DEF TypeOK, fields, frames, locals, AbortReturns, Goto
<1>1. CASE AbortNothing(t) \/ AbortOther(t) \/ Join(t)
  BY <1>1 DEF AbortNothing, AbortOther, Join
<1>2. CASE ResetPeer(t) \/ NullPeer(t) \/ DestroyHost(t) \/ NullHost(t)
  BY <1>2 DEF ResetPeer, NullPeer, DestroyHost, NullHost
<1>3. CASE ResetSession(t)
  BY <1>3 DEF ResetSession
<1>4. CASE CheckPeer(t) \/ Drain(t)
  BY <1>4 DEF CheckPeer, Drain, DisconnectReturn
<1>5. CASE Notify(t) \/ ForgetServer(t)
  BY <1>5 DEF Notify, ForgetServer, CallAbort, CallClose
<1> QED
  BY <1>1, <1>2, <1>3, <1>4, <1>5 DEF MethodStep

LEMMA Inv3Method ==
  ASSUME Inv, Inv3, NEW t \in Threads, MethodStep(t)
  PROVE  Inv3'
<1> USE ThreadFacts DEF MethodLabels, CloseLabels, CloseReturns
<1>0. TypeOK
  BY DEF Inv
<1>1. Remembered'
  <2> SUFFICES ASSUME server' \notin Blank
               PROVE  \/ pc'[Http] \in {"conn.run", "conn.spawn"}
                      \/ \E c \in Conns : Updating(c)'
    BY DEF Remembered
  <2>1. server' = server /\ pc'[t] \notin {"done", "unborn"}
    BY <1>0, MethodServer, RequestAssumption
  <2>2. CASE pc[Http] \in {"conn.run", "conn.spawn"}
    BY <1>0, <2>2, MethodEffect
  <2>3. ASSUME NEW c \in Conns, Updating(c)
        PROVE  Updating(c)'
    BY <1>0, <2>1, <2>3, MethodEffect DEF Updating
  <2> QED
    BY <2>1, <2>2, <2>3 DEF Inv3, Remembered
<1>2. Fresh'
  <2>1. \A c \in Conns : pc[c] = "unborn" => pc'[c] = "unborn"
    BY <1>0, MethodEffect
  <2>2. \A c \in Conns : heap'[c] = "unborn" => pc'[c] = "unborn"
    BY <1>0, <2>1, MethodServer DEF Inv3, Fresh
  <2>3. ASSUME \/ pc'[Http] \in {"conn.peer", "conn.service", "conn.await",
                                 "conn.commit", "conn.run", "conn.spawn"}
               \/ /\ pc'[Http] \in {"abort", "join"}
                  /\ abortRet'[Http] = "conn.commit"
        PROVE  pc'[mine'] = "unborn" /\ heap'[mine'] # "unborn"
    <3>1. \/ pc[Http] \in {"conn.peer", "conn.service", "conn.await",
                           "conn.commit", "conn.run", "conn.spawn"}
          \/ pc[Http] \in {"abort", "join"} /\ abortRet[Http] = "conn.commit"
      BY <1>0, <2>3, MethodEffect
    <3>2. /\ mine \in Conns /\ mine' = mine
          /\ pc[mine] = "unborn" /\ heap[mine] # "unborn"
      BY <1>0, <3>1, MethodEffect DEF Inv, Created, Inv3, Fresh
    <3> QED
      BY <1>0, <2>1, <3>2, MethodServer
  <2> QED
    BY <2>2, <2>3 DEF Fresh
<1> QED
  BY <1>1, <1>2 DEF Inv3

LEMMA Inv3Connect ==
  ASSUME Inv, Inv3, ConnectStep
  PROVE  Inv3'
<1> USE ThreadFacts
    DEF Inv, TypeOK, Pointers, fields, frames, locals, Goto, Created,
        Updating, Inv3, Remembered, Fresh
<1>1. CASE CheckSame
  BY <1>1 DEF CheckSame
<1>2. CASE CheckOpen
  BY <1>2 DEF CheckOpen
<1>3. CASE CreateHost
  BY <1>3 DEF CreateHost
<1>4. CASE ConnectPeer
  BY <1>4 DEF ConnectPeer, CallAbort, CallClose
<1>5. CASE BeginService
  BY <1>5 DEF BeginService
<1>6. CASE EndService
  BY <1>6 DEF EndService, CallAbort, CallClose
<1>7. CASE CommitSession
  BY <1>7 DEF CommitSession
<1>8. CASE SetRunning
  BY <1>8 DEF SetRunning
<1>9. CASE SpawnUpdate
  BY <1>9 DEF SpawnUpdate
<1>10. CASE AssignThread
  BY <1>10 DEF AssignThread
<1>11. CASE SendProtocol
  BY <1>11 DEF SendProtocol
<1> QED
  BY <1>1, <1>2, <1>3, <1>4, <1>5, <1>6, <1>7, <1>8, <1>9, <1>10, <1>11
     DEF ConnectStep

LEMMA Inv3Update ==
  ASSUME Inv, Inv3, NEW c \in Conns, Update(c)
  PROVE  Inv3'
<1> USE ThreadFacts
    DEF Inv, TypeOK, fields, frames, locals, Goto, Created, Updating,
        Inv3, Remembered, Fresh
<1>1. CASE CheckLoop(c)
  BY <1>1 DEF CheckLoop, CallAbort, CallClose
<1>2. CASE Poll(c)
  <2>1. /\ pc[c] = "poll"
        /\ \E label \in {"loop", "receive"} : pc' = [pc EXCEPT ![c] = label]
        /\ UNCHANGED <<server, heap, frames, locals>>
    BY <1>2 DEF Poll
  <2> QED
    BY <2>1
<1>3. CASE Receive(c)
  BY <1>3 DEF Receive
<1>4. CASE AcceptHandshake(c)
  BY <1>4 DEF AcceptHandshake
<1>5. CASE SendAnswer(c)
  BY <1>5 DEF SendAnswer
<1> QED
  BY <1>1, <1>2, <1>3, <1>4, <1>5 DEF Update

LEMMA Inv3Other ==
  ASSUME Inv, Inv3,
         \/ \E s \in Servers, g \in GameIds : Connect(s, g)
         \/ PluginOwn
         \/ UNCHANGED vars
  PROVE  Inv3'
<1> USE ThreadFacts
    DEF Inv, TypeOK, fields, frames, locals, Goto, Created, Updating,
        Inv3, Remembered, Fresh
<1>1. ASSUME NEW s \in Servers, NEW g \in GameIds, Connect(s, g)
      PROVE  Inv3'
  BY <1>1 DEF Connect
<1>2. CASE Callback \/ SendStatus \/ Stop \/ HttpClosed
  BY <1>2 DEF Callback, SendStatus, Stop, HttpClosed
<1>3. CASE Delete
  BY <1>3 DEF Delete, CallAbort, CallClose
<1>4. CASE UNCHANGED vars
  BY <1>4 DEF vars
<1> QED
  BY <1>1, <1>2, <1>3, <1>4 DEF PluginOwn

LEMMA Inv3Init == Init => Inv3
<1> SUFFICES ASSUME Init PROVE Inv3
  OBVIOUS
<1>1. pc = [t \in Threads |-> IF t \in Conns THEN "unborn" ELSE "idle"]
  BY DEF Init
<1> QED
  BY <1>1, ThreadFacts DEF Init, Inv3, Remembered, Fresh

THEOREM Invariance3 == Spec => []Inv3
<1>1. Inv /\ Inv3 /\ [Next]_vars => Inv3'
  BY Cases, Inv3Method, Inv3Connect, Inv3Update, Inv3Other
<1> QED
  BY <1>1, Inv3Init, Invariance, PTL DEF Spec

\* connect() never answers "already connected" for a connection of the past.
THEOREM AnswersAreServed == Spec => AnswerIsServed
<1>1. ASSUME Inv3, CheckSame, pc'[Http] = "idle", request.server \notin Blank
      PROVE  \E c \in Conns : Updating(c)
  <2>1. pc[Http] = "conn.same" /\ server = request.server
    BY <1>1 DEF CheckSame, Goto
  <2> QED
    BY <1>1, <2>1 DEF Inv3, Remembered
<1> QED
  BY <1>1, Invariance3, PTL DEF AnswerIsServed, Spec

\* The connection being served is the one with an update thread, if any.
LEMMA ServingFacts ==
  ASSUME TypeOK, SingleUpdater
  PROVE  /\ Serving \in Conns \cup {Null}
         /\ \A c \in Conns : Updating(c) <=> Serving = c
         /\ Serving = Null <=> \A c \in Conns : ~Updating(c)
<1> USE ThreadFacts
<1>1. CASE \E c \in Conns : Updating(c)
  <2>1. PICK c \in Conns : Updating(c)
    BY <1>1
  <2>2. {d \in Conns : Updating(d)} = {c}
    BY <2>1 DEF SingleUpdater
  <2>3. Serving = c
    BY <2>2 DEF Serving
  <2> QED
    BY <2>1, <2>2, <2>3
<1>2. CASE \A c \in Conns : ~Updating(c)
  <2>1. {c \in Conns : Updating(c)} = {}
    BY <1>2
  <2> QED
    BY <1>2, <2>1 DEF Serving
<1> QED
  BY <1>1, <1>2

\* What the invariants say of one state of the link.
LinkInv == TypeOK /\ SingleUpdater /\ IngameIsCurrent

LEMMA LinkInvHolds == Inv => LinkInv
<1>1. Inv => SingleUpdater
  BY ThreadFacts DEF Inv, Known, Joined, SingleUpdater, TypeOK, Pointers
<1>2. Inv => IngameIsCurrent
  BY DEF Inv, Owned, Known, Joined, IngameIsCurrent, IsIngame, TypeOK, Pointers
<1> QED
  BY <1>1, <1>2 DEF LinkInv, Inv

\* A step that neither starts nor ends an update thread can only change what
\* isIngame() answers, and only while a connection is served.
LEMMA LinkSame ==
  ASSUME LinkInv, LinkInv',
         \A c \in Conns : /\ Updating(c)' <=> Updating(c)
                          /\ pc'[c] = "done" <=> pc[c] = "done"
  PROVE  [Link!Next]_(Link!linkVars)
<1>1. Ended' = Ended
  BY DEF Ended
<1>2. Serving' = Serving
  <2>1. CASE \E c \in Conns : Updating(c)
    <3>1. PICK c \in Conns : Updating(c)
      BY <2>1
    <3>2. {d \in Conns : Updating(d)} = {c}
      BY <3>1 DEF LinkInv, SingleUpdater
    <3>3. {d \in Conns : Updating(d)'} = {c}
      BY <3>2
    <3> QED
      BY <3>2, <3>3 DEF Serving
  <2>2. CASE \A c \in Conns : ~Updating(c)
    <3>1. {c \in Conns : Updating(c)} = {}
      BY <2>2
    <3>2. {c \in Conns : Updating(c)'} = {}
      BY <2>2
    <3> QED
      BY <3>1, <3>2 DEF Serving
  <2> QED
    BY <2>1, <2>2
<1>3. IsIngame \in BOOLEAN /\ IsIngame' \in BOOLEAN
  BY DEF LinkInv, TypeOK, IsIngame, IsOpen
<1>4. IsIngame' => Serving # Null
  <2>1. IsIngame' => \E c \in Conns : Updating(c)
    BY DEF LinkInv, IngameIsCurrent, TypeOK, Pointers, IsIngame
  <2> QED
    BY <2>1, ServingFacts DEF LinkInv
<1> QED
  BY <1>1, <1>2, <1>3, <1>4
     DEF Link!Next, Link!Enter, Link!Leave, Link!linkVars

LEMMA LinkMethod ==
  ASSUME TypeOK, LinkInv, LinkInv', NEW t \in Threads, MethodStep(t)
  PROVE  [Link!Next]_(Link!linkVars)
<1> USE ThreadFacts
<1>1. CASE t \in Conns /\ pc'[t] = "done"
  <2>1. Updating(t) /\ ~Updating(t)'
    BY <1>1, MethodEffect DEF Updating, MethodLabels, CloseLabels
  <2>2. \A c \in Conns \ {t} : ~Updating(c) /\ pc'[c] = pc[c]
    BY <1>1, <2>1, MethodEffect DEF LinkInv, SingleUpdater
  <2>3. Serving = t /\ Serving # Null
    BY <1>1, <2>1, ServingFacts DEF LinkInv
  <2>4. Serving' = Null
    <3>1. \A c \in Conns : ~Updating(c)'
      BY <2>1, <2>2 DEF Updating
    <3>2. {c \in Conns : Updating(c)'} = {}
      BY <3>1
    <3> QED
      BY <3>2 DEF Serving
  <2>5. Ended' = Ended \cup {Serving}
    BY <1>1, <2>2, <2>3 DEF Ended
  <2>6. IsIngame' = FALSE
    BY <1>1, MethodSession DEF IsIngame, IsOpen
  <2> QED
    BY <2>3, <2>4, <2>5, <2>6 DEF Link!Next, Link!End
<1>2. CASE ~(t \in Conns /\ pc'[t] = "done")
  <2>1. ASSUME NEW c \in Conns
        PROVE  /\ Updating(c)' <=> Updating(c)
               /\ pc'[c] = "done" <=> pc[c] = "done"
    <3>1. CASE c # t
      BY <3>1, MethodEffect DEF Updating
    <3>2. CASE c = t
      BY <1>2, <3>2, MethodEffect
         DEF Updating, MethodLabels, CloseLabels, CloseReturns
    <3> QED
      BY <3>1, <3>2
  <2> QED
    BY <2>1, LinkSame
<1> QED
  BY <1>1, <1>2

LEMMA LinkSpawn ==
  ASSUME Inv, Inv3, LinkInv', SpawnUpdate
  PROVE  [Link!Next]_(Link!linkVars)
<1> USE ThreadFacts
<1>1. /\ mine \in Conns /\ pc[mine] = "unborn"
      /\ pc' = [t \in Threads |-> IF t = Http THEN "conn.assign"
                                 ELSE IF t = mine THEN "loop"
                                 ELSE pc[t]]
  BY DEF SpawnUpdate, Inv, Created, Inv3, Fresh
<1>2. \A c \in Conns : ~Updating(c)
  BY DEF SpawnUpdate, Inv, Known, Joined
<1>3. Serving = Null
  BY <1>2, LinkInvHolds, ServingFacts DEF LinkInv
<1>4. Serving' = mine
  <2>1. \A c \in Conns : Updating(c)' <=> c = mine
    BY <1>1, <1>2 DEF Updating, Inv, TypeOK
  <2>2. {c \in Conns : Updating(c)'} = {mine}
    BY <1>1, <2>1
  <2> QED
    BY <1>1, <2>2 DEF Serving
<1>5. mine \notin Ended /\ Ended' = Ended
  BY <1>1 DEF Ended, Inv, TypeOK
<1>6. IsIngame' = IsIngame
  BY DEF SpawnUpdate, fields, IsIngame, IsOpen
<1> QED
  BY <1>1, <1>3, <1>4, <1>5, <1>6 DEF Link!Next, Link!Serve

\* All other steps leave the update threads' beginnings and ends alone.
LEMMA LinkOther ==
  ASSUME TypeOK,
         \/ \E s \in Servers, g \in GameIds : Connect(s, g)
         \/ ConnectStep /\ ~SpawnUpdate
         \/ \E c \in Conns : Update(c)
         \/ PluginOwn
         \/ UNCHANGED vars
  PROVE  \A c \in Conns : /\ Updating(c)' <=> Updating(c)
                          /\ pc'[c] = "done" <=> pc[c] = "done"
<1> USE ThreadFacts DEF TypeOK, Goto, Updating
<1>1. CASE \E s \in Servers, g \in GameIds : Connect(s, g)
  BY <1>1 DEF Connect
<1>2. CASE CheckSame \/ CheckOpen \/ CreateHost \/ ConnectPeer
  BY <1>2 DEF CheckSame, CheckOpen, CreateHost, ConnectPeer, CallAbort,
              CallClose
<1>3. CASE BeginService \/ EndService
  BY <1>3 DEF BeginService, EndService, CallAbort, CallClose
<1>4. CASE CommitSession \/ SetRunning \/ AssignThread \/ SendProtocol
  BY <1>4 DEF CommitSession, SetRunning, AssignThread, SendProtocol
<1>5. ASSUME NEW c \in Conns, Update(c)
      PROVE  \A d \in Conns : /\ Updating(d)' <=> Updating(d)
                              /\ pc'[d] = "done" <=> pc[d] = "done"
  <2>1. CASE CheckLoop(c)
    BY <2>1 DEF CheckLoop, CallAbort, CallClose
  <2>2. CASE Poll(c)
    <3>1. /\ pc[c] = "poll"
          /\ \E label \in {"loop", "receive"} : pc' = [pc EXCEPT ![c] = label]
      BY <2>2 DEF Poll
    <3> QED
      BY <3>1
  <2>3. CASE Receive(c)
    BY <2>3 DEF Receive
  <2>4. CASE AcceptHandshake(c) \/ SendAnswer(c)
    BY <2>4 DEF AcceptHandshake, SendAnswer
  <2> QED
    BY <1>5, <2>1, <2>2, <2>3, <2>4 DEF Update
<1>6. CASE PluginOwn
  BY <1>6 DEF PluginOwn, Callback, SendStatus, Stop, HttpClosed, Delete,
              CallAbort, CallClose
<1>7. CASE UNCHANGED vars
  BY <1>7 DEF vars
<1> QED
  BY <1>1, <1>2, <1>3, <1>4, <1>5, <1>6, <1>7 DEF ConnectStep

LEMMA LinkInit == Init => Link!Init
<1> SUFFICES ASSUME Init PROVE Link!Init
  OBVIOUS
<1>1. pc = [t \in Threads |-> IF t \in Conns THEN "unborn" ELSE "idle"]
  BY DEF Init
<1>2. \A c \in Conns : ~Updating(c) /\ pc[c] # "done"
  BY <1>1, ThreadFacts DEF Updating
<1>3. {c \in Conns : Updating(c)} = {} /\ Ended = {}
  BY <1>2 DEF Ended
<1>4. ~IsIngame
  BY DEF Init, IsIngame, IsOpen
<1> QED
  BY <1>3, <1>4 DEF Serving, Link!Init

\* Client implements VoiceLink: whatever the threads do, connections are
\* served one after the other, and isIngame() belongs to the one being served.
THEOREM ImplementsVoiceLink == Spec => IsVoiceLink
<1>1. ASSUME Inv, Inv', Inv3, [Next]_vars
      PROVE  [Link!Next]_(Link!linkVars)
  <2>1. LinkInv /\ LinkInv' /\ TypeOK
    <3>1. Inv' => LinkInv'
      BY LinkInvHolds, PTL
    <3> QED
      BY <1>1, <3>1, LinkInvHolds DEF Inv
  <2>2. CASE SpawnUpdate
    BY <1>1, <2>1, <2>2, LinkSpawn
  <2>3. CASE \E t \in Threads : MethodStep(t)
    BY <2>1, <2>3, LinkMethod
  <2>4. CASE ~SpawnUpdate /\ ~\E t \in Threads : MethodStep(t)
    BY <1>1, <2>1, <2>4, Cases, LinkOther, LinkSame
  <2> QED
    BY <2>2, <2>3, <2>4
<1> QED
  BY <1>1, LinkInit, Invariance, Invariance3, PTL
     DEF IsVoiceLink, Link!Spec, Spec

-----------------------------------------------------------------------------
(* Without an overlap of a check-to-use span with a change, ENet gets no    *)
(* bad pointer.  The invariant is one of the steps that start without one.  *)

\* Update thread c is in a turn of its loop that began with an open client.
Working(c) ==
  \/ pc[c] \in {"poll", "receive", "accept", "send", "disc.check",
                "disc.notify"}
  \/ pc[c] = "loop" /\ running

\* Such a turn has both pointers ...
WorkingOpen == \A c \in Conns : Working(c) => client # Null /\ peer # Null

\* ... and _running, unless another thread has come to join it ...
WorkingRuns ==
  \A c \in Conns :
    Working(c) => running \/ pc[Http] = "join" \/ pc[Plugin] = "join"

\* ... so that connect() makes no new connection during one.
MakingAlone ==
  pc[Http] \in {"conn.create", "conn.peer"} => \A c \in Conns : ~Working(c)

\* The steps of connect() between the creation of the host and the thread's.
Making ==
  \/ pc[Http] \in {"conn.peer", "conn.service", "conn.await", "conn.commit",
                   "conn.run", "conn.spawn"}
  \/ pc[Http] \in {"abort", "join"} /\ abortRet[Http] = "conn.commit"

\* What a thread has checked, or made, is there until its last use of it.
ClientHeld == Making => client # Null
PeerHeld ==
  \A u \in {Http, Plugin} : Using(u) /\ pc[u] # "conn.peer" => peer # Null
HostHeld ==
  pc[Http] = "conn.await" => held # Null /\ heap[held] = "live"

\* A peer is live, and it is nulled before its host is destroyed.
PeerLive == peer # Null => heap[peer] = "live"
PeerGone == \A t \in Threads : pc[t] = "close.host" => peer = Null

Inv4 == WorkingOpen /\ WorkingRuns /\ MakingAlone /\ ClientHeld /\ PeerHeld
          /\ HostHeld /\ PeerLive /\ PeerGone /\ DestroyedOnce

\* A step starts with nobody else in the middle of what it changes.
Undisturbed ==
  \A t \in Threads, u \in {Http, Plugin} :
    t # u => ~(Changing(t) /\ Using(u))

\* What the other invariants say of the thread that takes a step.
LEMMA StepFacts ==
  ASSUME Inv
  PROVE  /\ \A c, d \in Conns : Updating(c) /\ Updating(d) => c = d
         /\ \A t \in {Http, Plugin} :
              pc[t] \in CloseLabels => \A c \in Conns : ~Updating(c)
         /\ \A t, u \in Threads :
              t # u /\ pc[t] \in CloseLabels => pc[u] \notin CloseLabels
<1>1. \A c, d \in Conns : Updating(c) /\ Updating(d) => c = d
  BY ThreadFacts DEF Inv, Known, Joined, TypeOK, Pointers
<1>2. \A t \in {Http, Plugin} :
        pc[t] \in CloseLabels => \A c \in Conns : ~Updating(c)
  BY DEF Inv, Alone
<1>3. \A c \in Conns : pc[c] \in CloseLabels => Updating(c)
  BY DEF CloseLabels, Updating
<1>4. ~(pc[Http] \in CloseLabels /\ pc[Plugin] \in CloseLabels)
  BY DEF Inv, NoRequest, CloseLabels
<1> QED
  BY <1>1, <1>2, <1>3, <1>4 DEF Threads

LEMMA Inv4Abort ==
  ASSUME Inv, Inv4, Undisturbed, NEW t \in Threads,
         AbortNothing(t) \/ AbortOther(t) \/ Join(t)
  PROVE  Inv4'
<1> USE ThreadFacts
    DEF Inv, TypeOK, Pointers, fields, frames, locals, Goto, Threads,
        AbortReturns, Known, Joined, NoRequest, Updating, Inv4, WorkingOpen,
        WorkingRuns, MakingAlone, ClientHeld, PeerHeld, HostHeld, PeerLive,
        PeerGone, DestroyedOnce, Making, Working, Using, Undisturbed, Changing
<1>1. CASE AbortNothing(t)
  BY <1>1 DEF AbortNothing
<1>2. CASE AbortOther(t)
  BY <1>2 DEF AbortOther
<1>3. CASE Join(t)
  BY <1>3 DEF Join
<1> QED
  BY <1>1, <1>2, <1>3

LEMMA Inv4Close ==
  ASSUME Inv, Inv4, Undisturbed, NEW t \in Threads,
         \/ ResetPeer(t) \/ NullPeer(t) \/ DestroyHost(t) \/ NullHost(t)
         \/ ResetSession(t)
  PROVE  Inv4'
<1> USE ThreadFacts, StepFacts
    DEF Inv, TypeOK, Pointers, fields, frames, locals, Goto, Threads,
        CloseLabels, NoRequest, Freed, Updating, Inv4, WorkingOpen,
        WorkingRuns, MakingAlone, ClientHeld, PeerHeld, HostHeld, PeerLive,
        PeerGone, DestroyedOnce, Making, Working, Using, Undisturbed, Changing
<1>1. CASE ResetPeer(t)
  BY <1>1 DEF ResetPeer
<1>2. CASE NullPeer(t)
  BY <1>2 DEF NullPeer
<1>3. CASE DestroyHost(t)
  BY <1>3 DEF DestroyHost
<1>4. CASE NullHost(t)
  BY <1>4 DEF NullHost
<1>5. CASE ResetSession(t)
  BY <1>5 DEF ResetSession, CloseReturns
<1> QED
  BY <1>1, <1>2, <1>3, <1>4, <1>5

LEMMA Inv4Disconnect ==
  ASSUME Inv, Inv4, Undisturbed, NEW t \in Threads,
         CheckPeer(t) \/ Notify(t) \/ Drain(t) \/ ForgetServer(t)
  PROVE  Inv4'
<1> USE ThreadFacts
    DEF Inv, TypeOK, Pointers, fields, frames, locals, Goto, Threads,
        Inv4, WorkingOpen, NoRequest, Updating,
        WorkingRuns, MakingAlone, ClientHeld, PeerHeld, HostHeld, PeerLive,
        PeerGone, DestroyedOnce, Making, Working, Using, Undisturbed, Changing
<1>1. CASE CheckPeer(t)
  BY <1>1 DEF CheckPeer, DisconnectReturn
<1>2. CASE Notify(t)
  BY <1>2 DEF Notify, CallAbort
<1>3. CASE Drain(t)
  BY <1>3 DEF Drain
<1>4. CASE ForgetServer(t)
  BY <1>4 DEF ForgetServer, CallAbort, CallClose
<1> QED
  BY <1>1, <1>2, <1>3, <1>4

LEMMA Inv4Connect ==
  ASSUME Inv, Inv4, Undisturbed, ConnectStep
  PROVE  Inv4'
<1> USE ThreadFacts
    DEF Inv, TypeOK, Pointers, fields, frames, locals, Goto, Threads,
        Known, Joined, Created, Freed, Updating, Inv4, WorkingOpen, NoRequest,
        WorkingRuns, MakingAlone, ClientHeld, PeerHeld, HostHeld, PeerLive,
        PeerGone, DestroyedOnce, Making, Working, Using, Undisturbed, Changing
<1>1. CASE CheckSame
  BY <1>1 DEF CheckSame
<1>2. CASE CheckOpen
  BY <1>2 DEF CheckOpen, IsOpen
<1>3. CASE CreateHost
  BY <1>3 DEF CreateHost
<1>4. CASE ConnectPeer
  BY <1>4 DEF ConnectPeer, CallAbort, CallClose
<1>5. CASE BeginService
  BY <1>5 DEF BeginService
<1>6. CASE EndService
  BY <1>6 DEF EndService, CallAbort, CallClose
<1>7. CASE CommitSession
  BY <1>7 DEF CommitSession
<1>8. CASE SetRunning
  BY <1>8 DEF SetRunning
<1>9. CASE SpawnUpdate
  BY <1>9 DEF SpawnUpdate
<1>10. CASE AssignThread
  BY <1>10 DEF AssignThread
<1>11. CASE SendProtocol
  BY <1>11 DEF SendProtocol
<1> QED
  BY <1>1, <1>2, <1>3, <1>4, <1>5, <1>6, <1>7, <1>8, <1>9, <1>10, <1>11
     DEF ConnectStep

LEMMA Inv4Update ==
  ASSUME Inv, Inv4, NEW c \in Conns, Update(c)
  PROVE  Inv4'
<1> USE ThreadFacts
    DEF Inv, TypeOK, Pointers, fields, frames, locals, Goto, Threads,
        Inv4, WorkingOpen,
        WorkingRuns, MakingAlone, ClientHeld, PeerHeld, HostHeld, PeerLive,
        PeerGone, DestroyedOnce, Making, Working, Using
<1>1. CASE CheckLoop(c)
  BY <1>1 DEF CheckLoop, CallAbort, CallClose
<1>2. CASE Poll(c)
  <2>1. running' => running
    BY <1>2, Zenon DEF Poll
  <2>2. running' = running \/ pc' = [pc EXCEPT ![c] = "loop"]
    BY <1>2, Zenon DEF Poll, Goto
  <2>3. /\ pc[c] = "poll"
        /\ \E label \in {"loop", "receive"} : pc' = [pc EXCEPT ![c] = label]
        /\ UNCHANGED <<client, peer, heap, frames, locals>>
    BY <1>2 DEF Poll
  <2> QED
    BY <2>1, <2>2, <2>3, StepFacts DEF Updating
<1>3. CASE Receive(c)
  BY <1>3 DEF Receive
<1>4. CASE AcceptHandshake(c)
  BY <1>4 DEF AcceptHandshake
<1>5. CASE SendAnswer(c)
  BY <1>5 DEF SendAnswer
<1> QED
  BY <1>1, <1>2, <1>3, <1>4, <1>5 DEF Update

LEMMA Inv4Other ==
  ASSUME Inv, Inv4,
         \/ \E s \in Servers, g \in GameIds : Connect(s, g)
         \/ PluginOwn
         \/ UNCHANGED vars
  PROVE  Inv4'
<1> USE ThreadFacts
    DEF Inv, TypeOK, Pointers, fields, frames, locals, Goto, Threads,
        Inv4, WorkingOpen,
        WorkingRuns, MakingAlone, ClientHeld, PeerHeld, HostHeld, PeerLive,
        PeerGone, DestroyedOnce, Making, Working, Using
<1>1. ASSUME NEW s \in Servers, NEW g \in GameIds, Connect(s, g)
      PROVE  Inv4'
  BY <1>1 DEF Connect
<1>2. CASE Callback \/ SendStatus \/ Stop \/ HttpClosed
  BY <1>2 DEF Callback, SendStatus, Stop, HttpClosed, IsOpen
<1>3. CASE Delete
  BY <1>3 DEF Delete, CallAbort, CallClose
<1>4. CASE UNCHANGED vars
  BY <1>4 DEF vars
<1> QED
  BY <1>1, <1>2, <1>3, <1>4 DEF PluginOwn

LEMMA Inv4Init == Init => Inv4
<1> SUFFICES ASSUME Init PROVE Inv4
  OBVIOUS
<1>1. pc = [t \in Threads |-> IF t \in Conns THEN "unborn" ELSE "idle"]
  BY DEF Init
<1> QED
  BY <1>1, ThreadFacts
     DEF Init, Inv4, WorkingOpen, WorkingRuns, MakingAlone, ClientHeld,
         PeerHeld, HostHeld, PeerLive, PeerGone, DestroyedOnce, Making,
         Working, Using

LEMMA Inv4Step ==
  ASSUME Inv, Inv4, Undisturbed, [Next]_vars
  PROVE  Inv4'
BY Cases, Inv4Abort, Inv4Close, Inv4Disconnect, Inv4Connect, Inv4Update,
   Inv4Other
   DEF MethodStep

\* A pointer to live memory kills nobody.
LEMMA LiveIsSafe ==
  ASSUME NEW x, x # Null, heap[x] = "live"
  PROVE  Fates(x) = {"no"}
BY DEF Fates

\* _client is live for a thread that is not itself destroying it, if nobody
\* else is: not beside an update thread, nor beside connect() at these steps.
LEMMA ClientLive ==
  ASSUME Inv, Undisturbed, client # Null,
         \/ pc[Http] \in {"conn.peer", "conn.service"}
         \/ \E c \in Conns : Updating(c) /\ pc[c] \notin CloseLabels
  PROVE  heap[client] = "live"
<1>1. \A t \in Threads : pc[t] # "close.nullhost"
  <2> SUFFICES ASSUME NEW t \in Threads, pc[t] = "close.nullhost"
               PROVE  FALSE
    OBVIOUS
  <2>1. CASE pc[Http] \in {"conn.peer", "conn.service"}
    BY <2>1, ThreadFacts DEF Undisturbed, Changing, Using
  <2>2. CASE \E c \in Conns : Updating(c) /\ pc[c] \notin CloseLabels
    <3>1. CASE t \in Conns
      BY <2>2, <3>1, StepFacts DEF Updating, CloseLabels
    <3>2. CASE t \in {Http, Plugin}
      BY <2>2, <3>2, StepFacts DEF CloseLabels
    <3> QED
      BY <3>1, <3>2 DEF Threads
  <2> QED
    BY <2>1, <2>2
<1> QED
  BY <1>1 DEF Inv, Freed

LEMMA SafeMethod ==
  ASSUME Inv, GoodbyeIsDropped, Inv4, Undisturbed, crashed = "no",
         NEW t \in Threads, MethodStep(t)
  PROVE  crashed' # "lifetime"
<1> USE ThreadFacts
<1>1. CASE AbortNothing(t) \/ AbortOther(t) \/ Join(t)
  BY <1>1 DEF AbortNothing, AbortOther, Join
<1>2. CASE ResetPeer(t)
  BY <1>2, LiveIsSafe DEF ResetPeer, Inv4, PeerLive
<1>3. CASE DestroyHost(t)
  BY <1>3, LiveIsSafe DEF DestroyHost, Inv4, DestroyedOnce
<1>4. CASE NullPeer(t) \/ NullHost(t) \/ ResetSession(t)
  BY <1>4 DEF NullPeer, NullHost, ResetSession
<1>5. CASE CheckPeer(t) \/ ForgetServer(t)
  BY <1>5 DEF CheckPeer, ForgetServer
<1>6. CASE Notify(t)
  <2>1. peer # Null
    <3>1. CASE t \in Conns
      BY <1>6, <3>1 DEF Notify, Inv4, WorkingOpen, Working
    <3>2. CASE t \in {Http, Plugin}
      BY <1>6, <3>2 DEF Notify, Inv4, PeerHeld, Using
    <3> QED
      BY <3>1, <3>2 DEF Threads
  <2> QED
    BY <1>6, <2>1, LiveIsSafe DEF Notify, Inv4, PeerLive
<1>7. CASE Drain(t)
  <2>1. CASE t \in Conns
    <3>1. Updating(t) /\ pc[t] \notin CloseLabels
      BY <1>7 DEF Drain, Updating, CloseLabels
    <3> QED
      BY <1>7, <2>1, <3>1, ClientLive, LiveIsSafe DEF Drain
  <2>2. CASE t \in {Http, Plugin}
    BY <1>7, <2>2 DEF Drain, GoodbyeIsDropped
  <2> QED
    BY <2>1, <2>2 DEF Threads
<1> QED
  BY <1>1, <1>2, <1>3, <1>4, <1>5, <1>6, <1>7 DEF MethodStep

LEMMA SafeConnect ==
  ASSUME Inv, Inv4, Undisturbed, crashed = "no", ConnectStep
  PROVE  crashed' # "lifetime"
<1>1. CASE CheckSame \/ CheckOpen \/ CreateHost \/ CommitSession
  BY <1>1 DEF CheckSame, CheckOpen, CreateHost, CommitSession
<1>2. CASE SetRunning \/ SpawnUpdate \/ AssignThread
  BY <1>2 DEF SetRunning, SpawnUpdate, AssignThread
<1>3. CASE ConnectPeer \/ BeginService
  <2>1. client # Null /\ pc[Http] \in {"conn.peer", "conn.service"}
    BY <1>3 DEF ConnectPeer, BeginService, Inv4, ClientHeld, Making
  <2> QED
    BY <1>3, <2>1, ClientLive, LiveIsSafe DEF ConnectPeer, BeginService
<1>4. CASE EndService
  BY <1>4, LiveIsSafe DEF EndService, Inv4, HostHeld
<1>5. CASE SendProtocol
  BY <1>5, LiveIsSafe
     DEF SendProtocol, SendFates, Inv4, PeerHeld, PeerLive, Using
<1> QED
  BY <1>1, <1>2, <1>3, <1>4, <1>5 DEF ConnectStep

LEMMA SafeUpdate ==
  ASSUME Inv, Inv4, Undisturbed, crashed = "no", NEW c \in Conns, Update(c)
  PROVE  crashed' # "lifetime"
<1>1. CASE CheckLoop(c) \/ AcceptHandshake(c)
  BY <1>1 DEF CheckLoop, AcceptHandshake
<1>2. CASE Poll(c)
  <2>1. client # Null /\ Updating(c) /\ pc[c] \notin CloseLabels
    BY <1>2 DEF Poll, Inv4, WorkingOpen, Working, Updating, CloseLabels
  <2>2. crashed' \in Fates(client)
    BY <1>2 DEF Poll
  <2> QED
    BY <2>1, <2>2, ClientLive, LiveIsSafe
<1>3. CASE Receive(c)
  BY <1>3 DEF Receive
<1>4. CASE SendAnswer(c)
  BY <1>4, LiveIsSafe
     DEF SendAnswer, SendFates, Inv4, WorkingOpen, Working, PeerLive
<1> QED
  BY <1>1, <1>2, <1>3, <1>4 DEF Update

LEMMA SafeOther ==
  ASSUME Inv, Inv4, crashed = "no",
         \/ \E s \in Servers, g \in GameIds : Connect(s, g)
         \/ PluginOwn
         \/ UNCHANGED vars
  PROVE  crashed' # "lifetime"
<1>1. CASE SendStatus
  BY <1>1, LiveIsSafe
     DEF SendStatus, SendFates, Inv4, PeerHeld, PeerLive, Using
<1>2. CASE Callback \/ Stop \/ HttpClosed \/ Delete
  BY <1>2 DEF Callback, Stop, HttpClosed, Delete
<1> QED
  BY <1>1, <1>2 DEF PluginOwn, Connect, vars

\* A process that died of something else takes no more steps.
LEMMA SafeStep ==
  ASSUME Inv, GoodbyeIsDropped, Inv4, Undisturbed, crashed # "lifetime",
         [Next]_vars
  PROVE  crashed' # "lifetime"
<1>1. CASE crashed = "no"
  BY <1>1, Cases, SafeMethod, SafeConnect, SafeUpdate, SafeOther
<1>2. CASE crashed # "no"
  BY <1>2 DEF Next, Alive, Halted, vars
<1> QED
  BY <1>1, <1>2

\* If no thread ever changes the connection between another thread's check
\* and use of it, no ENet call is given a null or a freed pointer.
THEOREM SafeIfUndisturbed == Spec => SafeWithoutOverlap
<1>1. ~Overlap => Undisturbed
  BY DEF Overlap, Undisturbed
<1>2. Init => crashed # "lifetime"
  BY DEF Init
<1>3. Inv /\ Inv4 /\ Undisturbed /\ [Next]_vars => Inv4'
  BY Inv4Step
<1>4. Inv /\ GoodbyeIsDropped /\ Inv4 /\ Undisturbed
        /\ crashed # "lifetime" /\ [Next]_vars
      => (crashed # "lifetime")'
  BY SafeStep
<1> QED
  BY <1>1, <1>2, <1>3, <1>4, Inv4Init, Invariance, NoGoodbye, PTL
     DEF Spec, SafeWithoutOverlap

\* From the creation of its host to the end of connect(), what _client and
\* _peer point to is the connection being made, or nothing.
Made ==
  /\ pc[Http] = "conn.peer" => client \in {mine, Null}
  /\ Making /\ pc[Http] # "conn.peer" => peer \in {mine, Null}
  /\ pc[Http] \in {"conn.assign", "conn.hello"} => peer \in {mine, Null}

LEMMA MadeStep ==
  ASSUME Inv, Made, [Next]_vars
  PROVE  Made'
<1> USE ThreadFacts DEF Inv, TypeOK, fields, frames, locals, Goto, Made, Making
<1>1. ASSUME NEW t \in Threads, MethodStep(t)
      PROVE  Made'
  <2>1. client' \in {client, Null} /\ peer' \in {peer, Null} /\ mine' = mine
    BY <1>1, MethodEffect, MethodPointers
  <2>2. CASE t = Http
    BY <1>1, <2>1, <2>2, MethodEffect DEF CloseReturns, MethodLabels, CloseLabels
  <2>3. CASE t # Http
    BY <1>1, <2>1, <2>3, MethodEffect
  <2> QED
    BY <2>2, <2>3
<1>2. CASE ConnectStep
  BY <1>2 DEF ConnectStep, CheckSame, CheckOpen, CreateHost, ConnectPeer,
       BeginService, EndService, CommitSession, SetRunning, SpawnUpdate,
       AssignThread, SendProtocol, CallAbort, CallClose
<1>3. ASSUME NEW c \in Conns, Update(c)
      PROVE  Made'
  BY <1>3 DEF Update, CheckLoop, Poll, Receive, AcceptHandshake, SendAnswer,
       CallAbort, CallClose
<1>4. ASSUME NEW s \in Servers, NEW g \in GameIds, Connect(s, g)
      PROVE  Made'
  BY <1>4 DEF Connect
<1>5. CASE PluginOwn
  BY <1>5 DEF PluginOwn, Callback, SendStatus, Stop, HttpClosed, Delete,
       CallAbort, CallClose
<1>6. CASE UNCHANGED vars
  BY <1>6 DEF vars
<1> QED
  BY <1>1, <1>2, <1>3, <1>4, <1>5, <1>6, Cases

\* What run client_established refutes is true but for such an overlap: if no
\* thread changes the connection while connect() is between its check and its
\* use of it, the connection that connect() reports as established exists.
THEOREM EstablishedIfUndisturbed == Spec => ([]~Overlap => []EstablishedExists)
<1>1. ~Overlap => Undisturbed
  BY DEF Overlap, Undisturbed
<1>2. Init => Made
  BY ThreadFacts DEF Init, Made, Making
<1>3. Inv /\ Inv4 /\ Undisturbed /\ [Next]_vars => Inv4'
  BY Inv4Step
<1>4. Inv /\ Made /\ [Next]_vars => Made'
  BY MadeStep
<1>5. Inv4 /\ Made => EstablishedExists
  BY DEF Inv4, PeerHeld, PeerLive, Using, Made, EstablishedExists
<1> QED
  BY <1>1, <1>2, <1>3, <1>4, <1>5, Inv4Init, Invariance, PTL DEF Spec
=============================================================================
