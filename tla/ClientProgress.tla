--------------------------- MODULE ClientProgress ---------------------------
(***************************************************************************)
(* How far each thread of Client is from the end of what it does: the part *)
(* of "connect() and stop() return, and a lost connection is closed" that  *)
(* is no matter of scheduling.                                             *)
(***************************************************************************)
EXTENDS ClientProofs

\* The steps left to a thread whose call of close() or of disconnect() has
\* just returned to a label: those of the destructor's close(), of an update
\* loop that finds it must stop, of the rest of connect(); or none.
Rest(label) ==
  CASE label \in {"delete", "loop"} -> 8
    [] label = "conn.create" -> 11
    [] OTHER -> 0

\* The longest way from a label to the end of the call that a thread is in.
Ahead(t, label) ==
  LET closed == Rest(closeRet[t])
      gone   == Rest(DisconnectReturn(t))
  IN  CASE label = "close.reset"    -> closed + 1
        [] label = "close.nullhost" -> closed + 2
        [] label = "close.host"     -> closed + 3
        [] label = "close.nullpeer" -> closed + 4
        [] label = "close.peer"     -> closed + 5
        [] label = "disc.reset"     -> gone + 8
        [] label = "disc.drain"     -> gone + 9
        [] label = "disc.notify"    -> gone + 12
        [] label = "disc.check"     -> gone + 13
        [] label = "conn.hello"     -> 1
        [] label = "conn.assign"    -> 2
        [] label = "conn.spawn"     -> 3
        [] label = "conn.run"       -> 4
        [] label = "conn.commit"    -> 5
        [] label = "conn.await"     -> 8
        [] label = "conn.service"   -> 9
        [] label = "conn.peer"      -> 10
        [] label = "conn.open"      -> 25
        [] label = "conn.same"      -> 26
        [] label \in {"send", "receive"} -> 9
        [] label \in {"accept", "poll"}  -> 10
        [] label = "cb.send"        -> 1
        [] label = "stop"           -> 22
        [] OTHER                    -> Rest(label)

\* abortThread() is two steps at most, and then the rest.
Left(t) ==
  CASE pc[t] = "abort" -> Ahead(t, abortRet[t]) + 2
    [] pc[t] = "join"  -> Ahead(t, abortRet[t]) + 1
    [] OTHER           -> Ahead(t, pc[t])

\* A thread begins: a request, a callback, stop(), a new update thread ...
Begins(t) == pc[t] \in {"idle", "unborn"}

\* ... and the update loop goes round for as long as it is to run.
GoesOn(t) == t \in Conns /\ running /\ pc[t] \in {"loop", "receive"}

\* Whichever thread moves gets nearer to the end of its call, and the others
\* do not get further from theirs.
GetsNearer ==
  \A t \in Threads :
    IF pc'[t] # pc[t] THEN Left(t)' < Left(t) \/ Begins(t) \/ GoesOn(t)
                      ELSE Left(t)' = Left(t)

\* An update thread that has been told to stop is not told otherwise.
StaysTold == \A c \in Conns : Updating(c) /\ ~running => ~running'

-----------------------------------------------------------------------------
(* The measure.                                                            *)

LEMMA RestFacts ==
  ASSUME NEW label
  PROVE  Rest(label) \in 0..11
BY DEF Rest

LEMMA AheadFacts ==
  ASSUME NEW t, NEW label
  PROVE  /\ Ahead(t, label) \in 0..26
         /\ label \in AbortReturns => Ahead(t, label) \in 0..20
         /\ label \in CloseReturns => Ahead(t, label) = Rest(label)
<1> DEFINE closed == Rest(closeRet[t])
           gone   == Rest(DisconnectReturn(t))
<1>1. closed \in 0..11 /\ gone \in 0..11 /\ Rest(label) \in 0..11
  BY RestFacts
<1> HIDE DEF closed, gone
<1> QED
  BY <1>1 DEF Ahead, closed, gone, AbortReturns, CloseReturns

\* No call of the class is longer than 26 steps of its thread, the waits for
\* ENet and for another thread counted as one step each.
THEOREM CallsAreBounded == Spec => [](\A t \in Threads : Left(t) \in 0..26)
<1>1. TypeOK => \A t \in Threads : Left(t) \in 0..26
  BY AheadFacts DEF Left, TypeOK
<1> QED
  BY <1>1, TypeCorrect, PTL

-----------------------------------------------------------------------------
(* Each kind of step.                                                      *)

LEMMA MethodNearer ==
  ASSUME TypeOK, NEW t \in Threads, MethodStep(t)
  PROVE  Left(t)' < Left(t)
<1> DEFINE closed == Rest(closeRet[t])
           gone   == Rest(DisconnectReturn(t))
<1> USE DEF TypeOK, fields, frames, locals, Goto
<1>1. closed \in 0..11 /\ gone \in 0..11
  BY RestFacts
<1>2. CASE AbortNothing(t) \/ Join(t)
  <2>1. /\ pc[t] \in {"abort", "join"} /\ pc'[t] = abortRet[t]
        /\ abortRet' = abortRet /\ closeRet' = closeRet
        /\ abortRet[t] \in AbortReturns
    BY <1>2 DEF AbortNothing, Join
  <2>2. Left(t)' = Ahead(t, abortRet[t])
    BY <2>1 DEF Left, Ahead, Rest, DisconnectReturn, AbortReturns
  <2> QED
    BY <2>1, <2>2, AheadFacts DEF Left
<1>3. CASE AbortOther(t)
  <2>1. /\ pc[t] = "abort" /\ pc'[t] = "join"
        /\ abortRet' = abortRet /\ closeRet' = closeRet
    BY <1>3 DEF AbortOther
  <2>2. Left(t)' = Ahead(t, abortRet[t]) + 1
    BY <2>1 DEF Left, Ahead, Rest, DisconnectReturn
  <2> QED
    BY <2>1, <2>2, AheadFacts DEF Left
<1>4. CASE ResetPeer(t) \/ NullPeer(t) \/ DestroyHost(t) \/ NullHost(t)
  BY <1>1, <1>4
     DEF ResetPeer, NullPeer, DestroyHost, NullHost, Left, Ahead
<1>5. CASE ResetSession(t)
  <2>1. pc[t] = "close.reset" /\ pc'[t] = closeRet[t] /\ closeRet' = closeRet
        /\ closeRet[t] \in CloseReturns
    BY <1>5 DEF ResetSession
  <2>2. Left(t)' = closed
    BY <2>1 DEF Left, Ahead, Rest, CloseReturns
  <2> QED
    BY <1>1, <2>1, <2>2 DEF Left, Ahead
<1>6. CASE CheckPeer(t) \/ Drain(t)
  <2>1. DisconnectReturn(t) \in CloseReturns
    BY DEF DisconnectReturn, CloseReturns
  <2> QED
    BY <1>1, <1>6, <2>1
       DEF CheckPeer, Drain, Left, Ahead, CloseReturns
<1>7. CASE Notify(t)
  BY <1>1, <1>7 DEF Notify, CallAbort, Left, Ahead
<1>8. CASE ForgetServer(t)
  <2>1. /\ pc[t] = "disc.reset" /\ pc'[t] = "abort"
        /\ abortRet'[t] = "close.peer"
        /\ closeRet'[t] = DisconnectReturn(t)
    BY <1>8 DEF ForgetServer, CallClose, CallAbort
  <2>2. Left(t)' = gone + 7
    BY <1>1, <2>1 DEF Left, Ahead
  <2> QED
    BY <1>1, <2>1, <2>2 DEF Left, Ahead
<1> QED
  BY <1>2, <1>3, <1>4, <1>5, <1>6, <1>7, <1>8 DEF MethodStep

LEMMA ConnectNearer ==
  ASSUME TypeOK, ConnectStep
  PROVE  Left(Http)' < Left(Http)
<1> USE ThreadFacts
    DEF TypeOK, fields, frames, locals, Goto, CallAbort, CallClose
<1>1. Rest("conn.create") = 11 /\ Rest("idle") = 0
      /\ Rest(DisconnectReturn(Http)) = 11
  BY DEF Rest, DisconnectReturn
<1>2. CASE CheckSame \/ CheckOpen
  BY <1>1, <1>2 DEF CheckSame, CheckOpen, Left, Ahead
<1>3. CASE CreateHost
  BY <1>1, <1>3 DEF CreateHost, Left, Ahead
<1>4. CASE ConnectPeer \/ BeginService \/ EndService
  BY <1>1, <1>4 DEF ConnectPeer, BeginService, EndService, Left, Ahead
<1>5. CASE CommitSession \/ SetRunning \/ AssignThread \/ SendProtocol
  BY <1>1, <1>5
     DEF CommitSession, SetRunning, AssignThread, SendProtocol, Left, Ahead
<1>6. CASE SpawnUpdate
  BY <1>6 DEF SpawnUpdate, Left, Ahead
<1> QED
  BY <1>2, <1>3, <1>4, <1>5, <1>6 DEF ConnectStep

LEMMA UpdateNearer ==
  ASSUME TypeOK, NEW c \in Conns, Update(c)
  PROVE  Left(c)' < Left(c) \/ GoesOn(c)
<1> USE ThreadFacts
    DEF TypeOK, fields, frames, locals, Goto, CallAbort, CallClose
<1>1. Rest("loop") = 8 /\ Rest("done") = 0
  BY DEF Rest
<1>2. CASE CheckLoop(c)
  BY <1>1, <1>2 DEF CheckLoop, Left, Ahead, GoesOn
<1>3. CASE Poll(c)
  <2>1. pc[c] = "poll" /\ pc'[c] \in {"loop", "receive"}
    BY <1>3 DEF Poll
  <2> QED
    BY <1>1, <2>1 DEF Left, Ahead
<1>4. CASE Receive(c)
  <2>1. \/ GoesOn(c)
        \/ pc[c] = "receive" /\ pc'[c] = "loop"
    BY <1>4 DEF Receive, GoesOn
  <2> QED
    BY <1>1, <2>1 DEF Left, Ahead
<1>5. CASE AcceptHandshake(c) \/ SendAnswer(c)
  BY <1>1, <1>5 DEF AcceptHandshake, SendAnswer, Left, Ahead
<1> QED
  BY <1>2, <1>3, <1>4, <1>5 DEF Update

LEMMA PluginNearer ==
  ASSUME TypeOK, PluginOwn
  PROVE  Left(Plugin)' < Left(Plugin) \/ Begins(Plugin)
<1> USE ThreadFacts
    DEF TypeOK, fields, frames, locals, Goto, CallAbort, CallClose
<1>1. Rest("idle") = 0 /\ Rest("stopped") = 0 /\ Rest("delete") = 8
      /\ Rest(DisconnectReturn(Plugin)) = 8
  BY DEF Rest, DisconnectReturn
<1>2. CASE Callback \/ Stop
  BY <1>2 DEF Callback, Stop, Begins
<1>3. CASE SendStatus \/ HttpClosed
  BY <1>1, <1>3 DEF SendStatus, HttpClosed, Left, Ahead
<1>4. CASE Delete
  BY <1>1, <1>4 DEF Delete, Left, Ahead
<1> QED
  BY <1>2, <1>3, <1>4 DEF PluginOwn

-----------------------------------------------------------------------------
(* The theorems.                                                           *)

\* Only the thread itself moves, unless it is just being started.
LEMMA Movers ==
  ASSUME Inv, Inv3, [Next]_vars, NEW u \in Threads, pc'[u] # pc[u]
  PROVE  Left(u)' < Left(u) \/ Begins(u) \/ GoesOn(u)
<1> USE ThreadFacts DEF Inv, TypeOK
<1>1. ASSUME NEW t \in Threads, MethodStep(t)
      PROVE  Left(u)' < Left(u)
  <2>1. u = t
    BY <1>1, MethodEffect
  <2> QED
    BY <1>1, <2>1, MethodNearer
<1>2. CASE \E s \in Servers, g \in GameIds : Connect(s, g)
  BY <1>2 DEF Connect, Goto, Begins
<1>3. CASE ConnectStep
  <2>1. u = Http \/ (u = mine /\ SpawnUpdate)
    BY <1>3 DEF ConnectStep, CheckSame, CheckOpen, CreateHost, ConnectPeer,
         BeginService, EndService, CommitSession, SetRunning, SpawnUpdate,
         AssignThread, SendProtocol, CallAbort, CallClose, Goto
  <2>2. CASE u = Http
    BY <1>3, <2>2, ConnectNearer
  <2>3. CASE u = mine /\ SpawnUpdate
    BY <2>3 DEF SpawnUpdate, Inv3, Fresh, Begins
  <2> QED
    BY <2>1, <2>2, <2>3
<1>4. ASSUME NEW c \in Conns, Update(c)
      PROVE  Left(u)' < Left(u) \/ GoesOn(u)
  <2>1. u = c
    BY <1>4 DEF Update, CheckLoop, Poll, Receive, AcceptHandshake, SendAnswer,
         CallAbort, CallClose, Goto
  <2> QED
    BY <1>4, <2>1, UpdateNearer
<1>5. CASE PluginOwn
  <2>1. u = Plugin
    BY <1>5 DEF PluginOwn, Callback, SendStatus, Stop, HttpClosed, Delete,
         CallAbort, CallClose, Goto
  <2> QED
    BY <1>5, <2>1, PluginNearer
<1>6. CASE UNCHANGED vars
  BY <1>6 DEF vars
<1> QED
  BY <1>1, <1>2, <1>3, <1>4, <1>5, <1>6, Cases

\* Who does not move returns to where it would have returned before.
LEMMA Resters ==
  ASSUME TypeOK, [Next]_vars, NEW u \in Threads, pc'[u] = pc[u]
  PROVE  Left(u)' = Left(u)
<1> DEFINE Same == abortRet'[u] = abortRet[u] /\ closeRet'[u] = closeRet[u]
<1> SUFFICES Same
  BY DEF Left, Ahead, Rest, DisconnectReturn
<1> USE ThreadFacts DEF TypeOK, frames, Goto, CallAbort, CallClose
<1>1. ASSUME NEW t \in Threads, MethodStep(t)
      PROVE  Same
  <2>1. CASE Notify(t) \/ ForgetServer(t)
    BY <2>1 DEF Notify, ForgetServer
  <2>2. CASE UNCHANGED frames
    BY <2>2
  <2> QED
    BY <1>1, <2>1, <2>2
       DEF MethodStep, AbortNothing, AbortOther, Join, ResetPeer, NullPeer,
           DestroyHost, NullHost, ResetSession, CheckPeer, Drain
<1>2. CASE \E s \in Servers, g \in GameIds : Connect(s, g)
  BY <1>2 DEF Connect
<1>3. CASE ConnectStep
  BY <1>3
     DEF ConnectStep, CheckSame, CheckOpen, CreateHost, ConnectPeer,
         BeginService, EndService, CommitSession, SetRunning, SpawnUpdate,
         AssignThread, SendProtocol
<1>4. ASSUME NEW c \in Conns, Update(c)
      PROVE  Same
  <2>1. CASE CheckLoop(c)
    BY <2>1 DEF CheckLoop
  <2>2. CASE Receive(c)
    BY <2>2 DEF Receive
  <2> QED
    BY <1>4, <2>1, <2>2 DEF Update, Poll, AcceptHandshake, SendAnswer
<1>5. CASE PluginOwn
  BY <1>5 DEF PluginOwn, Callback, SendStatus, Stop, HttpClosed, Delete
<1>6. CASE UNCHANGED vars
  BY <1>6 DEF vars
<1> QED
  BY <1>1, <1>2, <1>3, <1>4, <1>5, <1>6, Cases

\* No step of any thread prolongs a call: connect(), stop(), close() and the
\* end of an update thread that has been told to stop take the steps that
\* Left counts, at most, and no interleaving sends them back.
THEOREM CallsDraw == Spec => [][GetsNearer]_vars
<1>1. Inv /\ Inv3 /\ [Next]_vars => [GetsNearer]_vars
  BY Movers, Resters DEF GetsNearer, Inv
<1> QED
  BY <1>1, Invariance, Invariance3, PTL DEF Spec

\* Once the flag is down for an update thread it stays down until the thread
\* has ended, whatever requests come: no later connect() revives the loop of
\* the connection before.
THEOREM ToldForGood == Spec => [][StaysTold]_vars
<1>1. ASSUME Inv, [Next]_vars, NEW c \in Conns, Updating(c), ~running
      PROVE  ~running'
  <2> USE ThreadFacts DEF Inv
  <2>1. pc[Http] # "conn.run"
    BY <1>1 DEF Known, Joined
  <2>2. ASSUME NEW t \in Threads, MethodStep(t)
        PROVE  ~running'
    BY <1>1, <2>2, MethodSession
  <2>3. CASE \E s \in Servers, g \in GameIds : Connect(s, g)
    BY <1>1, <2>3 DEF Connect, fields
  <2>4. CASE ConnectStep
    BY <1>1, <2>1, <2>4
       DEF ConnectStep, CheckSame, CheckOpen, CreateHost, ConnectPeer,
           BeginService, EndService, CommitSession, SetRunning, SpawnUpdate,
           AssignThread, SendProtocol, fields
  <2>5. ASSUME NEW d \in Conns, Update(d)
        PROVE  ~running'
    <3>1. CASE Poll(d)
      BY <1>1, <3>1, Zenon DEF Poll
    <3> QED
      BY <1>1, <2>5, <3>1
         DEF Update, CheckLoop, Receive, AcceptHandshake, SendAnswer, fields
  <2>6. CASE PluginOwn
    BY <1>1, <2>6
       DEF PluginOwn, Callback, SendStatus, Stop, HttpClosed, Delete, fields
  <2>7. CASE UNCHANGED vars
    BY <1>1, <2>7 DEF vars, fields
  <2> QED
    BY <1>1, <2>2, <2>3, <2>4, <2>5, <2>6, <2>7, Cases
<1>2. Inv /\ [Next]_vars => [StaysTold]_vars
  BY <1>1 DEF StaysTold
<1> QED
  BY <1>2, Invariance, PTL DEF Spec
=============================================================================
