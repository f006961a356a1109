----------------------------- MODULE Lifecycle -----------------------------
(***************************************************************************)
(* The plugin in its host, from loading to unloading, as often as the user *)
(* enables it: JustAnotherVoiceChat_start() and _stop(), the two global    *)
(* pointers, the references to ENet, and the threads that use a Client     *)
(* object meanwhile.                                                       *)
(*                                                                         *)
(* A request thread and the update thread stand for what modules           *)
(* HttpServer and Client say of them.  The host is TeamSpeak, which        *)
(* unloads a plugin that fails to start, or the test program ts3mock.cpp,  *)
(* which never looks.                                                      *)
(***************************************************************************)
EXTENDS Naturals

CONSTANTS
  Objects,         \* the Client objects of successive starts: bounds these
  Requests,        \* the threads of the HTTP server
  MaxLeaked,       \* how often Winsock can fail: bounds the references
  Null,            \* nullptr
  MayFail,         \* what may fail: "enet", "winsock" (on Windows), "daemon"
  IgnoresFailure,  \* the host shuts down a plugin that failed to start
  KeepsImage       \* an unloaded plugin stays in memory, globals included

ASSUME LifecycleAssumption ==
  /\ Null \notin Objects
  /\ MaxLeaked \in Nat
  /\ IgnoresFailure \in BOOLEAN /\ KeepsImage \in BOOLEAN

VARIABLES
  host,        \* how far the host is with the plugin, and start() and stop()
  client,      \* the global client
  heap,        \* whether the memory of each Client object is allocated
  httpServer,  \* the object behind the global httpServer, "null" for none
  daemon,      \* whether its daemon accepts requests
  enet,        \* references to ENet: enet_initialize() was called so often
  using,       \* the object each request thread works with
  updater,     \* the object whose update thread runs
  bad,         \* a null or deleted object has been used: the process is gone
  leaked       \* history: starts that failed after enet_initialize()

vars == <<host, client, heap, httpServer, daemon, enet, using, updater, bad,
          leaked>>

Init ==
  /\ host = "unloaded"
  /\ client = Null /\ httpServer = "null"
  /\ heap = [o \in Objects |-> "unborn"]
  /\ daemon = FALSE
  /\ enet = 0
  /\ using = [r \in Requests |-> Null]
  /\ updater = Null
  /\ bad = FALSE
  /\ leaked = 0

IsLive(o) == o # Null /\ heap[o] = "live"

-----------------------------------------------------------------------------
(* Faulty forms of some of the actions below.                              *)

\* A start() that goes on without ENet.
InitENetAnyway ==
  /\ host = "loaded"
  /\ \/ enet' = enet + 1 /\ host' = "winsock"
     \/ "enet" \in MayFail /\ host' = "running" /\ UNCHANGED enet
  /\ UNCHANGED <<client, heap, httpServer, daemon, using, updater, bad,
                 leaked>>

\* A stop() that does not wait for the requests being answered.
CloseServerNoWait ==
  /\ host = "stop"
  /\ bad' = (httpServer # "live")
  /\ httpServer' = "deleted"
  /\ daemon' = FALSE
  /\ host' = "disconnect"
  /\ UNCHANGED <<client, heap, enet, using, updater, leaked>>

\* A destructor that does not close the client.
DeleteNoClose ==
  /\ host = "delete"
  /\ bad' = ~IsLive(client)
  /\ heap' = [heap EXCEPT ![client] = "deleted"]
  /\ host' = "deinit"
  /\ UNCHANGED <<client, httpServer, daemon, enet, using, updater, leaked>>

\* One enet_deinitialize() too few, and one too many.
DeinitNothing ==
  /\ host = "deinit"
  /\ host' = "stopped"
  /\ UNCHANGED <<client, heap, httpServer, daemon, enet, using, updater, bad,
                 leaked>>

DeinitTwice ==
  /\ host = "deinit"
  /\ enet' = enet - 2
  /\ host' = "stopped"
  /\ UNCHANGED <<client, heap, httpServer, daemon, using, updater, bad,
                 leaked>>

-----------------------------------------------------------------------------
(* The host.                                                               *)

\* The image is loaded and ts3plugin_init() called.
Load ==
  /\ host = "unloaded"
  /\ \E o \in Objects : heap[o] = "unborn"
  /\ host' = "loaded"
  /\ UNCHANGED <<client, heap, httpServer, daemon, enet, using, updater, bad,
                 leaked>>

Shutdown ==
  /\ host = "running" \/ (host = "failed" /\ IgnoresFailure)
  /\ host' = "stop"
  /\ UNCHANGED <<client, heap, httpServer, daemon, enet, using, updater, bad,
                 leaked>>

\* A later load starts with fresh globals, unless the image was kept.
Unload ==
  /\ host = "stopped" \/ (host = "failed" /\ ~IgnoresFailure)
  /\ client' = IF KeepsImage THEN client ELSE Null
  /\ httpServer' = IF KeepsImage THEN httpServer ELSE "null"
  /\ host' = "unloaded"
  /\ UNCHANGED <<heap, daemon, enet, using, updater, bad, leaked>>

-----------------------------------------------------------------------------
(* start().                                                                *)

InitENet ==
  /\ host = "loaded"
  /\ \/ enet' = enet + 1 /\ host' = "winsock"
     \/ "enet" \in MayFail /\ host' = "failed" /\ UNCHANGED enet
  /\ UNCHANGED <<client, heap, httpServer, daemon, using, updater, bad,
                 leaked>>

\* The reference to ENet is kept when Winsock fails.
StartWinsock ==
  /\ host = "winsock"
  /\ \/ host' = "renew" /\ UNCHANGED leaked
     \/ /\ "winsock" \in MayFail /\ leaked < MaxLeaked
        /\ host' = "failed"
        /\ leaked' = leaked + 1
  /\ UNCHANGED <<client, heap, httpServer, daemon, enet, using, updater, bad>>

\* A client that is there already is deleted; stop() leaves the pointer.
NewClient ==
  /\ host = "renew"
  /\ bad' = (client # Null /\ ~IsLive(client))
  /\ \E o \in Objects :
       /\ heap[o] = "unborn"
       /\ heap' = [p \in Objects |-> IF p = o THEN "live"
                                     ELSE IF p = client THEN "deleted"
                                     ELSE heap[p]]
       /\ client' = o
  /\ host' = "serve"
  /\ UNCHANGED <<httpServer, daemon, enet, using, updater, leaked>>

\* The result of open() is not looked at.
OpenServer ==
  /\ host = "serve"
  /\ httpServer' = "live"
  /\ daemon' \in IF "daemon" \in MayFail THEN BOOLEAN ELSE {TRUE}
  /\ host' = "running"
  /\ UNCHANGED <<client, heap, enet, using, updater, bad, leaked>>

Start == InitENet \/ StartWinsock \/ NewClient \/ OpenServer

-----------------------------------------------------------------------------
(* stop().                                                                 *)

\* close() waits for the requests being answered.
CloseServer ==
  /\ host = "stop"
  /\ \A r \in Requests : using[r] = Null
  /\ bad' = (httpServer # "live")
  /\ httpServer' = "deleted"
  /\ daemon' = FALSE
  /\ host' = "disconnect"
  /\ UNCHANGED <<client, heap, enet, using, updater, leaked>>

\* disconnect() joins the update thread if it finds a peer.
Disconnect ==
  /\ host = "disconnect"
  /\ bad' = ~IsLive(client)
  /\ updater' \in {updater, Null}
  /\ host' = "delete"
  /\ UNCHANGED <<client, heap, httpServer, daemon, enet, using, leaked>>

\* The destructor joins it in any case; the pointer is left as it is.
DeleteClient ==
  /\ host = "delete"
  /\ bad' = ~IsLive(client)
  /\ heap' = [heap EXCEPT ![client] = "deleted"]
  /\ updater' = Null
  /\ host' = "deinit"
  /\ UNCHANGED <<client, httpServer, daemon, enet, using, leaked>>

Deinit ==
  /\ host = "deinit"
  /\ enet' = enet - 1
  /\ host' = "stopped"
  /\ UNCHANGED <<client, heap, httpServer, daemon, using, updater, bad,
                 leaked>>

Stop == CloseServer \/ Disconnect \/ DeleteClient \/ Deinit

-----------------------------------------------------------------------------
(* The other threads.                                                      *)

\* A request reads the global pointer; without a client it is refused.
Arrive(r) ==
  /\ daemon
  /\ using[r] = Null /\ client # Null
  /\ using' = [using EXCEPT ![r] = client]
  /\ UNCHANGED <<host, client, heap, httpServer, daemon, enet, updater, bad,
                 leaked>>

\* Its connect() joins the update thread that runs and starts another, or
\* it fails.
Connect(r) ==
  /\ using[r] # Null
  /\ updater' \in {using[r], Null}
  /\ UNCHANGED <<host, client, heap, httpServer, daemon, enet, using, bad,
                 leaked>>

Respond(r) ==
  /\ using[r] # Null
  /\ using' = [using EXCEPT ![r] = Null]
  /\ UNCHANGED <<host, client, heap, httpServer, daemon, enet, updater, bad,
                 leaked>>

\* A connection is lost.
EndUpdate ==
  /\ updater # Null
  /\ updater' = Null
  /\ UNCHANGED <<host, client, heap, httpServer, daemon, enet, using, bad,
                 leaked>>

-----------------------------------------------------------------------------
(* The specification.                                                      *)

\* The plugin may never be loaded again; the bound on starts is reached.
Halted ==
  /\ bad \/ host = "unloaded"
  /\ UNCHANGED vars

Next ==
  \/ /\ ~bad
     /\ \/ Load \/ Shutdown \/ Unload \/ Start \/ Stop
        \/ \E r \in Requests : Arrive(r) \/ Connect(r) \/ Respond(r)
        \/ EndUpdate
  \/ Halted

Spec == Init /\ [][Next]_vars

-----------------------------------------------------------------------------
(* Properties.                                                             *)

\* Every variable has its type.
TypeOK ==
  /\ host \in {"unloaded", "loaded", "winsock", "renew", "serve", "running",
               "failed", "stop", "disconnect", "delete", "deinit", "stopped"}
  /\ client \in Objects \cup {Null}
  /\ heap \in [Objects -> {"unborn", "live", "deleted"}]
  /\ httpServer \in {"null", "live", "deleted"}
  /\ daemon \in BOOLEAN
  /\ enet \in Nat
  /\ using \in [Requests -> Objects \cup {Null}]
  /\ updater \in Objects \cup {Null}
  /\ bad \in BOOLEAN
  /\ leaked \in Nat

Users == {using[r] : r \in Requests} \cup {updater}

\* start() and stop() never use, or delete once more, an object that is not
\* there, however often the plugin is enabled and whatever failed before.
NoBadPointer == ~bad

\* Whoever works with a Client object, a request or its update thread, keeps
\* it and ENet: stop() deletes and deinitialises behind the last of them.
UsersAreSafe == \A o \in Users : o # Null => heap[o] = "live" /\ enet > 0

\* When the host unloads the code, no thread runs it and no object is left.
UnloadsClean ==
  host \in {"stopped", "unloaded"} =>
    /\ Users \subseteq {Null}
    /\ ~daemon
    /\ httpServer # "live"
    /\ \A o \in Objects : heap[o] # "live"

\* start() and stop() are balanced: of the references to ENet there remain
\* those of the starts that failed with Winsock, and no other.
ENetIsBalanced == host = "unloaded" => enet = leaked
=============================================================================
