-------------------------- MODULE HttpServerProofs --------------------------
(***************************************************************************)
(* What holds of HttpServer for any number of connection threads, and for  *)
(* queries with any numbers in them.                                       *)
(***************************************************************************)
EXTENDS HttpServer, TLAPS

\* The narrowing of std::stoi()'s result ends in the range of uint16_t.
LEMMA Conversion == \A n \in Int : uint16(n) \in UInt16
BY DEF uint16, UInt16

-----------------------------------------------------------------------------
(* The inductive invariant.                                                *)

\* Past the check of its arguments a query has all three.
Checked ==
  \A r \in Requests :
    pc[r] = "convert" =>
      Null \notin {query[r].host, query[r].port, query[r].uid}

\* The threads between try_lock() and unlock() are the one that has the mutex.
Exclusive == \A r \in Requests : pc[r] \in Locked <=> mutex = r

\* connect() is called with arguments.
Ready == \A r \in Requests : pc[r] \in {"call", "connect"} => asked[r] \in Calls

\* There are no connection threads before open() and after close().
Quiet == daemon \in {"none", "closed"} => \A r \in Requests : pc[r] = "idle"

\* A thread past its question whether the session is in the game was told no:
\* if it is now, it got there since.
Fresh ==
  \A r \in Requests :
    pc[r] \in {"params", "convert", "call", "connect"} /\ ingame = TRUE
    => witness = r

Inv == TypeOK /\ Checked /\ Exclusive /\ Ready /\ Quiet /\ Fresh

LEMMA InvInit == Init => Inv
<1> SUFFICES ASSUME Init PROVE Inv
  OBVIOUS
<1>1. TypeOK
  <2>1. NoQuery \in Queries
    BY DEF NoQuery, Queries
  <2> QED
    BY <2>1 DEF Init, TypeOK, Labels, Pages
<1> QED
  BY <1>1, HttpAssumption
     DEF Init, Inv, Checked, Exclusive, Ready, Quiet, Fresh, Locked

-----------------------------------------------------------------------------
(* A request handler keeps it.                                             *)

LEMMA Converted ==
  ASSUME TypeOK, Checked, NEW r \in Requests, pc[r] = "convert",
         {query[r].port, query[r].uid} \subseteq Numbers
  PROVE  [host |-> query[r].host, port |-> uint16(query[r].port),
          uid |-> uint16(query[r].uid)] \in Calls
<1>1. query[r].host \in Hosts
  BY DEF TypeOK, Checked, Queries
<1>2. query[r].port \in Int /\ query[r].uid \in Int
  BY HttpAssumption
<1>3. uint16(query[r].port) \in UInt16 /\ uint16(query[r].uid) \in UInt16
  BY <1>2, Conversion, Zenon
<1>4. \A h \in Hosts, p, u \in UInt16 :
        [host |-> h, port |-> p, uid |-> u] \in Calls
  BY DEF Calls
<1> QED
  BY <1>1, <1>3, <1>4, Zenon

LEMMA TypeHandle ==
  ASSUME TypeOK, Checked, NEW r \in Requests, HandleRequest(r)
  PROVE  TypeOK'
<1> USE DEF TypeOK, Goto, Answer, threads, session, Labels, Locked, Pages
<1>1. CASE TryLock(r)
  BY <1>1 DEF TryLock
<1>2. CASE CheckIngame(r)
  BY <1>2 DEF CheckIngame
<1>3. CASE CheckParams(r)
  BY <1>3 DEF CheckParams
<1>4. CASE Convert(r)
  <2>1. CASE died' = TRUE /\ UNCHANGED <<pc, asked>>
    BY <1>4, <2>1 DEF Convert
  <2>2. CASE {query[r].port, query[r].uid} \subseteq Numbers
    <3> DEFINE new == [host |-> query[r].host, port |-> uint16(query[r].port),
                       uid |-> uint16(query[r].uid)]
    <3>1. new \in Calls
      BY <1>4, <2>2, Converted DEF Convert
    <3>2. asked' = [asked EXCEPT ![r] = new] /\ Goto(r, "call") /\ died' = died
      BY <1>4, <2>2 DEF Convert
    <3> HIDE DEF new
    <3> QED
      BY <1>4, <3>1, <3>2 DEF Convert
  <2> QED
    BY <1>4, <2>1, <2>2 DEF Convert
<1>5. CASE CallConnect(r)
  BY <1>5 DEF CallConnect
<1>6. CASE KeepLink(r)
  BY <1>6 DEF KeepLink
<1>7. CASE ReplaceLink(r)
  BY <1>7 DEF ReplaceLink
<1>8. CASE Unlock(r)
  BY <1>8 DEF Unlock
<1>9. CASE Respond(r)
  <2>1. NoQuery \in Queries
    BY DEF NoQuery, Queries
  <2> QED
    BY <1>9, <2>1 DEF Respond
<1> QED
  BY <1>1, <1>2, <1>3, <1>4, <1>5, <1>6, <1>7, <1>8, <1>9 DEF HandleRequest

LEMMA LockHandle ==
  ASSUME Inv, NEW r \in Requests, HandleRequest(r)
  PROVE  Exclusive' /\ Quiet'
<1> USE HttpAssumption DEF Inv, TypeOK, Exclusive, Quiet, Goto, Answer, Locked
<1>1. CASE TryLock(r)
  BY <1>1 DEF TryLock
<1>2. CASE CheckIngame(r)
  BY <1>2 DEF CheckIngame
<1>3. CASE CheckParams(r)
  BY <1>3 DEF CheckParams
<1>4. CASE Convert(r)
  BY <1>4 DEF Convert
<1>5. CASE CallConnect(r)
  BY <1>5 DEF CallConnect
<1>6. CASE KeepLink(r)
  BY <1>6 DEF KeepLink
<1>7. CASE ReplaceLink(r)
  BY <1>7 DEF ReplaceLink
<1>8. CASE Unlock(r)
  BY <1>8 DEF Unlock
<1>9. CASE Respond(r)
  BY <1>9 DEF Respond
<1> QED
  BY <1>1, <1>2, <1>3, <1>4, <1>5, <1>6, <1>7, <1>8, <1>9 DEF HandleRequest

LEMMA DataHandle ==
  ASSUME Inv, NEW r \in Requests, HandleRequest(r)
  PROVE  Checked' /\ Ready' /\ Fresh'
<1> USE DEF Inv, TypeOK, Checked, Ready, Fresh, Goto, Answer, session
<1>1. CASE TryLock(r)
  BY <1>1 DEF TryLock
<1>2. CASE CheckIngame(r)
  BY <1>2 DEF CheckIngame
<1>3. CASE CheckParams(r)
  BY <1>3 DEF CheckParams
<1>4. CASE Convert(r)
  <2>1. asked' \in [Requests -> Calls \cup {Null}]
    BY TypeHandle
  <2>2. CASE UNCHANGED <<pc, asked>>
    BY <1>4, <2>2 DEF Convert
  <2>3. CASE {query[r].port, query[r].uid} \subseteq Numbers
    <3> DEFINE new == [host |-> query[r].host, port |-> uint16(query[r].port),
                       uid |-> uint16(query[r].uid)]
    <3>1. new \in Calls
      BY <1>4, <2>3, Converted DEF Convert
    <3>2. asked' = [asked EXCEPT ![r] = new] /\ Goto(r, "call")
      BY <1>4, <2>3 DEF Convert
    <3> HIDE DEF new
    <3> QED
      BY <1>4, <3>1, <3>2 DEF Convert
  <2> QED
    BY <1>4, <2>2, <2>3 DEF Convert
<1>5. CASE CallConnect(r)
  BY <1>5 DEF CallConnect
<1>6. CASE KeepLink(r)
  BY <1>6 DEF KeepLink
<1>7. CASE ReplaceLink(r)
  BY <1>7 DEF ReplaceLink
<1>8. CASE Unlock(r)
  BY <1>8 DEF Unlock
<1>9. CASE Respond(r)
  BY <1>9 DEF Respond
<1> QED
  BY <1>1, <1>2, <1>3, <1>4, <1>5, <1>6, <1>7, <1>8, <1>9 DEF HandleRequest

-----------------------------------------------------------------------------
(* So does everything else; and what follows.                              *)

LEMMA Step == Inv /\ [Next]_vars => Inv'
<1> SUFFICES ASSUME Inv, [Next]_vars
             PROVE  Inv'
  OBVIOUS
<1> USE HttpAssumption
    DEF Inv, TypeOK, Checked, Exclusive, Ready, Quiet, Fresh, threads, session,
        Goto
<1>1. ASSUME NEW r \in Requests, HandleRequest(r)
      PROVE  Inv'
  BY <1>1, TypeHandle, LockHandle, DataHandle DEF Inv
<1>2. ASSUME NEW r \in Requests, Drop(r)
      PROVE  Inv'
  <2>1. NoQuery \in Queries
    BY DEF NoQuery, Queries
  <2> QED
    BY <1>2, <2>1 DEF Drop, Labels, Locked
<1>3. ASSUME NEW r \in Requests, NEW q \in Queries, Arrive(r, q)
      PROVE  Inv'
  BY <1>3 DEF Arrive, Labels, Locked
<1>4. CASE Open
  BY <1>4 DEF Open
<1>5. CASE Stop
  BY <1>5 DEF Stop
<1>6. CASE Stopped
  BY <1>6 DEF Stopped
<1>7. CASE Join
  <2>1. \A r \in Requests :
          pc[r] \in {"params", "convert", "call", "connect"} => mutex = r
    BY DEF Locked
  <2> QED
    BY <1>7, <2>1 DEF Join
<1>8. CASE Lose
  BY <1>8 DEF Lose
<1>9. CASE UNCHANGED vars
  BY <1>9 DEF vars
<1> QED
  BY <1>1, <1>2, <1>3, <1>4, <1>5, <1>6, <1>7, <1>8, <1>9 DEF Next, Halted

LEMMA Invariance == Spec => []Inv
BY InvInit, Step, PTL DEF Spec

\* Every variable keeps its type.
THEOREM TypeCorrect == Spec => []TypeOK
BY Invariance, PTL DEF Inv

\* _connectionMutex is never left locked.
THEOREM LockOwned == Spec => []LockIsOwned
<1>1. Inv => LockIsOwned
  BY HttpAssumption DEF Inv, TypeOK, Exclusive, LockIsOwned
<1> QED
  BY <1>1, Invariance, PTL

\* No request ends a game that was on when it asked.
THEOREM GameKept == Spec => GameIsKept
<1>1. Inv => \A r \in Requests : ReplaceLink(r) /\ ingame => witness = r
  BY DEF Inv, Fresh, ReplaceLink
<1> QED
  BY <1>1, Invariance, PTL DEF GameIsKept

-----------------------------------------------------------------------------
(* HttpServer implements OneCaller.                                        *)

\* Because of the mutex, calling is the call of whichever thread is in
\* connect().
LEMMA CallingIs ==
  ASSUME Inv
  PROVE  /\ \A r \in Requests : pc[r] = "connect" => calling = asked[r]
         /\ (\A r \in Requests : pc[r] # "connect") => calling = Null
<1>1. \A r, s \in Requests : pc[r] = "connect" /\ pc[s] = "connect" => r = s
  BY DEF Inv, Exclusive, Locked
<1> QED
  BY <1>1, Zenon DEF calling

\* The same of the next state.
LEMMA CallingNext ==
  ASSUME Inv'
  PROVE  /\ \A r \in Requests : pc'[r] = "connect" => calling' = asked'[r]
         /\ (\A r \in Requests : pc'[r] # "connect") => calling' = Null
<1>1. \A r, s \in Requests : pc'[r] = "connect" /\ pc'[s] = "connect" => r = s
  BY DEF Inv, Exclusive, Locked
<1> QED
  BY <1>1, Zenon DEF calling

\* A step that neither starts nor ends a call leaves calling as it is.
LEMMA CallingStays ==
  ASSUME Inv, Inv',
         \A r \in Requests : pc'[r] = "connect" <=> pc[r] = "connect",
         \A r \in Requests : pc[r] = "connect" => asked'[r] = asked[r]
  PROVE  calling' = calling
<1>1. CASE \E r \in Requests : pc[r] = "connect"
  BY <1>1, CallingIs, CallingNext
<1>2. CASE \A r \in Requests : pc[r] # "connect"
  BY <1>2, CallingIs, CallingNext
<1> QED
  BY <1>1, <1>2

LEMMA CallerInit == Init => Caller!Init
<1> SUFFICES ASSUME Init
             PROVE  Caller!Init
  OBVIOUS
<1>1. calling = Null
  BY InvInit, CallingIs DEF Init
<1>2. (daemon = "closed") = FALSE
  BY DEF Init
<1> QED
  BY <1>1, <1>2 DEF Caller!Init

LEMMA CallerStep ==
  ASSUME Inv, Inv', [Next]_vars
  PROVE  [Caller!Next]_Caller!callerVars
<1> USE DEF Goto, Answer, threads, session
<1>0. pc \in [Requests -> Labels] /\ asked \in [Requests -> Calls \cup {Null}]
  BY DEF Inv, TypeOK
<1>1. ASSUME UNCHANGED daemon,
             \A r \in Requests : pc'[r] = "connect" <=> pc[r] = "connect",
             \A r \in Requests : pc[r] = "connect" => asked'[r] = asked[r]
      PROVE  [Caller!Next]_Caller!callerVars
  BY <1>1, CallingStays DEF Caller!callerVars
<1>2. ASSUME NEW r \in Requests, NEW label \in Labels, UNCHANGED daemon,
             pc[r] # "connect", label # "connect",
             pc' = [pc EXCEPT ![r] = label],
             \A s \in Requests \ {r} : asked'[s] = asked[s]
      PROVE  [Caller!Next]_Caller!callerVars
  BY <1>0, <1>1, <1>2
<1>3. ASSUME NEW r \in Requests, CallConnect(r)
      PROVE  Caller!Begin
  <2>1. \A s \in Requests : pc[s] # "connect"
    BY <1>3 DEF CallConnect, Inv, Exclusive, Locked
  <2>2. calling = Null
    BY <2>1, CallingIs
  <2>3. calling' = asked[r] /\ asked[r] \in Calls
    BY <1>0, <1>3, CallingNext DEF CallConnect, Inv, Ready
  <2>4. daemon' = daemon /\ daemon # "closed"
    BY <1>3 DEF CallConnect, Inv, Quiet
  <2> QED
    BY <2>2, <2>3, <2>4 DEF Caller!Begin
<1>4. ASSUME NEW r \in Requests, KeepLink(r) \/ ReplaceLink(r)
      PROVE  Caller!End
  <2>1. calling = asked[r] /\ asked[r] \in Calls
    BY <1>4, CallingIs DEF KeepLink, ReplaceLink, Inv, Ready
  <2>2. pc[r] = "connect" /\ pc' = [pc EXCEPT ![r] = "unlock"]
    BY <1>4 DEF KeepLink, ReplaceLink
  <2>3. \A s \in Requests \ {r} : pc[s] # "connect"
    BY <2>2 DEF Inv, Exclusive, Locked
  <2>4. calling' = Null
    BY <1>0, <2>2, <2>3, CallingNext
  <2>5. daemon' = daemon
    BY <1>4 DEF KeepLink, ReplaceLink
  <2> QED
    BY <2>1, <2>4, <2>5, CallsAssumption DEF Caller!End
<1>5. ASSUME daemon # "closed", daemon' = "closed",
             \A r \in Requests : pc[r] = "idle", UNCHANGED pc
      PROVE  Caller!Shut
  <2>1. calling = Null /\ calling' = Null
    BY <1>5, CallingIs, CallingNext
  <2> QED
    BY <1>5, <2>1 DEF Caller!Shut
<1>6. ASSUME NEW r \in Requests, HandleRequest(r)
      PROVE  [Caller!Next]_Caller!callerVars
  <2>1. CASE TryLock(r)
    BY <1>2, <2>1 DEF TryLock, Labels, Locked
  <2>2. CASE CheckIngame(r)
    BY <1>2, <2>2 DEF CheckIngame, Labels, Locked
  <2>3. CASE CheckParams(r)
    BY <1>2, <2>3 DEF CheckParams, Labels, Locked
  <2>4. CASE Convert(r)
    <3>1. \A s \in Requests \ {r} : asked'[s] = asked[s]
      BY <1>0, <2>4 DEF Convert
    <3>2. CASE UNCHANGED pc
      BY <1>1, <2>4, <3>1, <3>2 DEF Convert
    <3>3. CASE Goto(r, "call")
      BY <1>2, <2>4, <3>1, <3>3 DEF Convert, Labels, Locked
    <3> QED
      BY <2>4, <3>2, <3>3 DEF Convert
  <2>5. CASE CallConnect(r)
    BY <1>3, <2>5 DEF Caller!Next
  <2>6. CASE KeepLink(r) \/ ReplaceLink(r)
    BY <1>4, <2>6 DEF Caller!Next
  <2>7. CASE Unlock(r)
    BY <1>2, <2>7 DEF Unlock, Labels
  <2>8. CASE Respond(r)
    <3>1. \A s \in Requests \ {r} : asked'[s] = asked[s]
      BY <1>0, <2>8 DEF Respond
    <3> QED
      BY <1>2, <2>8, <3>1 DEF Respond, Labels
  <2> QED
    BY <1>6, <2>1, <2>2, <2>3, <2>4, <2>5, <2>6, <2>7, <2>8
       DEF HandleRequest
<1>7. ASSUME NEW r \in Requests, Drop(r)
      PROVE  [Caller!Next]_Caller!callerVars
  BY <1>2, <1>7 DEF Drop, Labels
<1>8. ASSUME NEW r \in Requests, NEW q \in Queries, Arrive(r, q)
      PROVE  [Caller!Next]_Caller!callerVars
  BY <1>2, <1>8 DEF Arrive, Labels
<1>9. CASE Open
  <2>1. /\ daemon # "closed" /\ UNCHANGED <<pc, asked>>
        /\ \A r \in Requests : pc[r] = "idle"
    BY <1>9 DEF Open, Inv, Quiet
  <2>2. CASE daemon' = "closed"
    BY <1>5, <2>1, <2>2 DEF Caller!Next
  <2>3. CASE daemon' = "open"
    <3>1. calling' = calling
      BY <2>1, CallingStays
    <3>2. (daemon' = "closed") = (daemon = "closed")
      BY <2>1, <2>3
    <3> QED
      BY <3>1, <3>2 DEF Caller!callerVars
  <2> QED
    BY <1>9, <2>2, <2>3 DEF Open
<1>10. CASE Stop
  <2>1. calling' = calling
    BY <1>10, CallingStays DEF Stop
  <2>2. (daemon' = "closed") = (daemon = "closed")
    BY <1>10 DEF Stop
  <2> QED
    BY <2>1, <2>2 DEF Caller!callerVars
<1>11. CASE Stopped
  BY <1>5, <1>11 DEF Stopped, Caller!Next
<1>12. CASE Join \/ Lose \/ UNCHANGED vars
  BY <1>1, <1>12 DEF Join, Lose, vars
<1> QED
  BY <1>6, <1>7, <1>8, <1>9, <1>10, <1>11, <1>12 DEF Next, Halted

\* What module Client takes for granted of its caller: _connectionMutex and
\* the join in MHD_stop_daemon() provide it.
THEOREM ImplementsOneCaller == Spec => IsOneCaller
<1>1. Inv /\ Inv' /\ [Next]_vars => [Caller!Next]_Caller!callerVars
  BY CallerStep
<1> QED
  BY <1>1, CallerInit, Invariance, PTL DEF Spec, IsOneCaller, Caller!Spec

-----------------------------------------------------------------------------
(* How far each request is.                                                *)

\* The steps of handleRequest() from a label to the end of the thread.
StepsLeft(label) ==
  CASE label = "lock"    -> 8
    [] label = "check"   -> 7
    [] label = "params"  -> 6
    [] label = "convert" -> 5
    [] label = "call"    -> 4
    [] label = "connect" -> 3
    [] label = "unlock"  -> 2
    [] label = "respond" -> 1
    [] OTHER             -> 0

\* A request whose thread moves gets nearer to its end, or begins.
Draws ==
  \A r \in Requests :
    pc'[r] # pc[r] =>
      \/ StepsLeft(pc'[r]) < StepsLeft(pc[r])
      \/ pc[r] = "idle" /\ daemon = "open"

\* No step takes a request back, and none begins once stop() has been called:
\* handleRequest() ends after eight steps of its thread whatever other requests
\* do meanwhile, and what MHD_stop_daemon() waits for only gets less.
THEOREM RequestsDraw == Spec => [][Draws]_vars
<1>1. ASSUME TypeOK, [Next]_vars, NEW r \in Requests, pc'[r] # pc[r]
      PROVE  \/ StepsLeft(pc'[r]) < StepsLeft(pc[r])
             \/ pc[r] = "idle" /\ daemon = "open"
  <2> USE DEF TypeOK, Goto, Answer, threads, StepsLeft
  <2>1. ASSUME NEW s \in Requests, HandleRequest(s)
        PROVE  StepsLeft(pc'[r]) < StepsLeft(pc[r])
    <3>1. CASE TryLock(s) \/ CheckIngame(s) \/ CheckParams(s)
      BY <1>1, <3>1 DEF TryLock, CheckIngame, CheckParams
    <3>2. CASE Convert(s) \/ CallConnect(s) \/ KeepLink(s) \/ ReplaceLink(s)
      BY <1>1, <3>2 DEF Convert, CallConnect, KeepLink, ReplaceLink
    <3>3. CASE Unlock(s) \/ Respond(s)
      BY <1>1, <3>3 DEF Unlock, Respond
    <3> QED
      BY <2>1, <3>1, <3>2, <3>3 DEF HandleRequest
  <2>2. ASSUME NEW s \in Requests, Drop(s)
        PROVE  StepsLeft(pc'[r]) < StepsLeft(pc[r])
    BY <1>1, <2>2 DEF Drop
  <2>3. ASSUME NEW s \in Requests, NEW q \in Queries, Arrive(s, q)
        PROVE  pc[r] = "idle" /\ daemon = "open"
    BY <1>1, <2>3 DEF Arrive
  <2>4. CASE Open \/ Stop \/ Stopped \/ Join \/ Lose \/ UNCHANGED vars
    BY <1>1, <2>4 DEF Open, Stop, Stopped, Join, Lose, vars
  <2> QED
    BY <1>1, <2>1, <2>2, <2>3, <2>4 DEF Next, Halted
<1>2. TypeOK /\ [Next]_vars => [Draws]_vars
  BY <1>1 DEF Draws
<1> QED
  BY <1>2, TypeCorrect, PTL DEF Spec
=============================================================================
