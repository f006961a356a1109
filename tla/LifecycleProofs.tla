-------------------------- MODULE LifecycleProofs --------------------------
(***************************************************************************)
(* What holds of Lifecycle in TeamSpeak, for any number of starts, of      *)
(* requests, and whatever fails.                                           *)
(***************************************************************************)
EXTENDS Lifecycle, TLAPS

\* TeamSpeak shuts down what has started, and unloads what it is done with.
InTeamSpeak == ~IgnoresFailure /\ ~KeepsImage

\* Where a Client object is there, and where the HTTP server is.
WithClient == {"serve", "running", "stop", "disconnect", "delete"}
WithServer == {"running", "stop"}
WithENet   == WithClient \cup {"winsock", "renew", "deinit"}

\* The global points to the one object there is ...
ClientThere ==
  /\ host \in WithClient => client # Null /\ heap[client] = "live"
  /\ \A o \in Objects : heap[o] = "live" => host \in WithClient /\ o = client

\* ... and, in a plugin not started yet, to none.
ClientNotYet ==
  host \in {"unloaded", "loaded", "winsock", "renew", "failed"} =>
    client = Null

\* Threads use that object, requests only as long as the server is there.
ThreadsInside ==
  /\ updater # Null => host \in WithClient /\ updater = client
  /\ \A r \in Requests :
       using[r] # Null => host \in WithServer /\ using[r] = client

ServerThere ==
  /\ httpServer = "live" <=> host \in WithServer
  /\ daemon => host \in WithServer

\* A start takes a reference to ENet, which its stop() gives back.
ENetCounted == enet = IF host \in WithENet THEN leaked + 1 ELSE leaked

Inv == TypeOK /\ NoBadPointer /\ ClientThere /\ ClientNotYet /\ ThreadsInside
         /\ ServerThere /\ ENetCounted

LEMMA InvInit == Init => Inv
<1> SUFFICES ASSUME Init PROVE Inv
  OBVIOUS
<1>1. TypeOK
  BY DEF Init, TypeOK
<1>2. ClientThere /\ ClientNotYet /\ ThreadsInside
  BY DEF Init, ClientThere, ClientNotYet, ThreadsInside, WithClient
<1>3. NoBadPointer /\ ServerThere /\ ENetCounted
  BY DEF Init, NoBadPointer, ServerThere, ENetCounted, WithServer, WithENet,
         WithClient
<1> QED
  BY <1>1, <1>2, <1>3 DEF Inv

LEMMA InvHost ==
  ASSUME InTeamSpeak, Inv, Load \/ Shutdown \/ Unload
  PROVE  Inv'
<1> USE LifecycleAssumption
    DEF Inv, TypeOK, NoBadPointer, ClientThere, ClientNotYet, ThreadsInside,
        ServerThere, ENetCounted, WithClient, WithServer, WithENet,
        InTeamSpeak
<1>1. CASE Load
  BY <1>1 DEF Load
<1>2. CASE Shutdown
  BY <1>2 DEF Shutdown
<1>3. CASE Unload
  BY <1>3 DEF Unload
<1> QED
  BY <1>1, <1>2, <1>3

LEMMA InvStart ==
  ASSUME Inv, Start
  PROVE  Inv'
<1> USE LifecycleAssumption
    DEF Inv, TypeOK, NoBadPointer, ClientThere, ClientNotYet, ThreadsInside,
        ServerThere, ENetCounted, WithClient, WithServer, WithENet
<1>1. CASE InitENet
  BY <1>1 DEF InitENet
<1>2. CASE StartWinsock
  BY <1>2 DEF StartWinsock
<1>3. CASE NewClient
  BY <1>3 DEF NewClient
<1>4. CASE OpenServer
  <2>1. daemon' \in BOOLEAN
    BY <1>4 DEF OpenServer
  <2> QED
    BY <1>4, <2>1 DEF OpenServer
<1> QED
  BY <1>1, <1>2, <1>3, <1>4 DEF Start

LEMMA InvStop ==
  ASSUME Inv, Stop
  PROVE  Inv'
<1> USE LifecycleAssumption
    DEF Inv, TypeOK, NoBadPointer, ClientThere, ClientNotYet, ThreadsInside,
        ServerThere, ENetCounted, WithClient, WithServer, WithENet
<1>1. CASE CloseServer
  BY <1>1 DEF CloseServer
<1>2. CASE Disconnect
  BY <1>2 DEF Disconnect, IsLive
<1>3. CASE DeleteClient
  BY <1>3 DEF DeleteClient, IsLive
<1>4. CASE Deinit
  BY <1>4 DEF Deinit
<1> QED
  BY <1>1, <1>2, <1>3, <1>4 DEF Stop

LEMMA InvThreads ==
  ASSUME Inv,
         \/ \E r \in Requests : Arrive(r) \/ Connect(r) \/ Respond(r)
         \/ EndUpdate
         \/ UNCHANGED vars
  PROVE  Inv'
<1> USE LifecycleAssumption
    DEF Inv, TypeOK, NoBadPointer, ClientThere, ClientNotYet, ThreadsInside,
        ServerThere, ENetCounted, WithClient, WithServer, WithENet
<1>1. ASSUME NEW r \in Requests, Arrive(r)
      PROVE  Inv'
  BY <1>1 DEF Arrive
<1>2. ASSUME NEW r \in Requests, Connect(r)
      PROVE  Inv'
  BY <1>2 DEF Connect
<1>3. ASSUME NEW r \in Requests, Respond(r)
      PROVE  Inv'
  BY <1>3 DEF Respond
<1>4. CASE EndUpdate
  BY <1>4 DEF EndUpdate
<1>5. CASE UNCHANGED vars
  BY <1>5 DEF vars
<1> QED
  BY <1>1, <1>2, <1>3, <1>4, <1>5

\* The inductive invariant holds in every reachable state.
THEOREM Invariance == ASSUME InTeamSpeak PROVE Spec => []Inv
<1>1. Inv /\ [Next]_vars => Inv'
  BY InvHost, InvStart, InvStop, InvThreads DEF Next, Halted
<1> QED
  BY <1>1, InvInit, PTL DEF Spec

\* Every variable has its type: enet_deinitialize() is never called too often.
THEOREM TypeCorrect == ASSUME InTeamSpeak PROVE Spec => []TypeOK
<1>1. Inv => TypeOK
  BY DEF Inv
<1> QED
  BY <1>1, Invariance, PTL

\* No start and no stop uses or deletes an object that is not there.
THEOREM PointersAreGood == ASSUME InTeamSpeak PROVE Spec => []NoBadPointer
<1>1. Inv => NoBadPointer
  BY DEF Inv
<1> QED
  BY <1>1, Invariance, PTL

\* No thread is left with a deleted client, or without ENet.
THEOREM UsersSafe == ASSUME InTeamSpeak PROVE Spec => []UsersAreSafe
<1>1. Inv => UsersAreSafe
  BY DEF Inv, TypeOK, ClientThere, ThreadsInside, ENetCounted, WithClient,
         WithServer, WithENet, UsersAreSafe, Users
<1> QED
  BY <1>1, Invariance, PTL

\* The plugin is unloaded without a thread in it, or an object left behind.
THEOREM UnloadIsClean == ASSUME InTeamSpeak PROVE Spec => []UnloadsClean
<1>1. Inv => UnloadsClean
  BY DEF Inv, TypeOK, ClientThere, ThreadsInside, ServerThere, WithClient,
         WithServer, UnloadsClean, Users
<1> QED
  BY <1>1, Invariance, PTL

\* Only a failure of Winsock leaves a reference to ENet behind.
THEOREM ENetBalanced == ASSUME InTeamSpeak PROVE Spec => []ENetIsBalanced
<1>1. Inv => ENetIsBalanced
  BY DEF Inv, ENetCounted, WithENet, WithClient, ENetIsBalanced
<1> QED
  BY <1>1, Invariance, PTL
=============================================================================
