----------------------------- MODULE HttpServer -----------------------------
(***************************************************************************)
(* The HTTP server (httpServer.cpp) through which the game asks for a      *)
(* connection, and its end in JustAnotherVoiceChat_stop().                 *)
(*                                                                         *)
(* libmicrohttpd runs handleRequest() in a thread per HTTP connection, so  *)
(* any number of them at once; only a try_lock() keeps them off class      *)
(* Client.  Of the client, module Client says more: here it is the call    *)
(* it is connected by and whether that session is in the game, both of     *)
(* which also change while no request is handled.                          *)
(***************************************************************************)
EXTENDS Integers

CONSTANTS
  Requests,   \* the connection threads
  Hosts,      \* the hosts a query can name
  Numbers,    \* the numbers std::stoi() can find in a query
  NoNumber,   \* a text in which it finds none, or one too large: it throws
  Null        \* a missing argument, no thread, no connection

ASSUME HttpAssumption ==
  /\ Numbers \subseteq Int
  /\ NoNumber \notin Int
  /\ Null \notin Requests \cup Hosts \cup Numbers \cup {NoNumber}

\* The conversion to uint16_t keeps the low 16 bits.
UInt16    == 0 .. 65535
uint16(n) == n % 65536

Texts   == Numbers \cup {NoNumber}
Queries == [host : Hosts \cup {Null}, port : Texts \cup {Null},
            uid : Texts \cup {Null}]
Calls   == [host : Hosts, port : UInt16, uid : UInt16]

ASSUME CallsAssumption == Null \notin Calls

VARIABLES
  daemon,   \* the MHD daemon: "none", "open", "stopping" or "closed"
  mutex,    \* who holds _connectionMutex
  pc,       \* where each connection thread is
  query,    \* its query
  asked,    \* the arguments of its connect()
  page,     \* the page it answers with
  link,     \* the call the client is connected by
  ingame,   \* isIngame()
  died,     \* an exception left the request handler, which ends the process
  witness   \* history: the request in hand when the session got in the game

threads == <<pc, query, asked, page>>
session == <<link, ingame, witness>>
vars    == <<daemon, mutex, threads, session, died>>

Pages  == {"none", "busy", "ingame", "missing", "failed", "ok"}
Locked == {"check", "params", "convert", "call", "connect", "unlock"}
Labels == {"idle", "lock", "respond"} \cup Locked

NoQuery == [host |-> Null, port |-> Null, uid |-> Null]

Goto(r, label) == pc' = [pc EXCEPT ![r] = label]

Answer(r, what, label) ==
  /\ page' = [page EXCEPT ![r] = what]
  /\ Goto(r, label)

Init ==
  /\ daemon = "none"
  /\ mutex = Null
  /\ pc = [r \in Requests |-> "idle"]
  /\ query = [r \in Requests |-> NoQuery]
  /\ asked = [r \in Requests |-> Null]
  /\ page = [r \in Requests |-> "none"]
  /\ link = Null /\ ingame = FALSE /\ witness = Null
  /\ died = FALSE

-----------------------------------------------------------------------------
(* Faulty forms of some of the actions below.                              *)

\* The mutex is locked only after it has been looked at.
TryLockLate(r) ==
  /\ pc[r] = "lock"
  /\ IF mutex = Null
     THEN Goto(r, "check") /\ UNCHANGED <<mutex, page>>
     ELSE Answer(r, "busy", "respond") /\ UNCHANGED mutex
  /\ UNCHANGED <<daemon, query, asked, session, died>>

\* The client is not asked whether it is in the game.
CheckNothing(r) ==
  /\ pc[r] = "check"
  /\ Goto(r, "params")
  /\ UNCHANGED <<daemon, mutex, query, asked, page, session, died>>

\* A page that is nobody's answer.
CheckWrongPage(r) ==
  /\ pc[r] = "check"
  /\ Answer(r, "", "unlock")
  /\ UNCHANGED <<daemon, mutex, query, asked, session, died>>

\* An early return without unlock().
MissingKeepsLock(r) ==
  /\ pc[r] = "params"
  /\ IF Null \in {query[r].host, query[r].port, query[r].uid}
     THEN Answer(r, "missing", "respond")
     ELSE Goto(r, "convert") /\ UNCHANGED page
  /\ UNCHANGED <<daemon, mutex, query, asked, session, died>>

\* A lock() in the place of unlock(): the thread waits for itself.
LockAgain(r) ==
  /\ pc[r] = "unlock"
  /\ mutex = Null
  /\ mutex' = r
  /\ Goto(r, "respond")
  /\ UNCHANGED <<daemon, query, asked, page, session, died>>

-----------------------------------------------------------------------------
(* handleRequest().                                                        *)

TryLock(r) ==
  /\ pc[r] = "lock"
  /\ IF mutex = Null
     THEN mutex' = r /\ Goto(r, "check") /\ UNCHANGED page
     ELSE Answer(r, "busy", "respond") /\ UNCHANGED mutex
  /\ UNCHANGED <<daemon, query, asked, session, died>>

CheckIngame(r) ==
  /\ pc[r] = "check"
  /\ IF ingame
     THEN Answer(r, "ingame", "unlock")
     ELSE Goto(r, "params") /\ UNCHANGED page
  /\ UNCHANGED <<daemon, mutex, query, asked, session, died>>

CheckParams(r) ==
  /\ pc[r] = "params"
  /\ IF Null \in {query[r].host, query[r].port, query[r].uid}
     THEN Answer(r, "missing", "unlock")
     ELSE Goto(r, "convert") /\ UNCHANGED page
  /\ UNCHANGED <<daemon, mutex, query, asked, session, died>>

\* std::stoi() on both numbers.
Convert(r) ==
  /\ pc[r] = "convert"
  /\ IF {query[r].port, query[r].uid} \subseteq Numbers
     THEN /\ asked' = [asked EXCEPT ![r] =
                         [host |-> query[r].host,
                          port |-> uint16(query[r].port),
                          uid  |-> uint16(query[r].uid)]]
          /\ Goto(r, "call")
          /\ UNCHANGED died
     ELSE died' = TRUE /\ UNCHANGED <<pc, asked>>
  /\ UNCHANGED <<daemon, mutex, query, page, session>>

CallConnect(r) ==
  /\ pc[r] = "call"
  /\ Goto(r, "connect")
  /\ UNCHANGED <<daemon, mutex, query, asked, page, session, died>>

\* connect() answers true for the connection that there is; it ends any other
\* and makes a new one, or fails to.
KeepLink(r) ==
  /\ pc[r] = "connect"
  /\ link = asked[r]
  /\ Answer(r, "ok", "unlock")
  /\ UNCHANGED <<daemon, mutex, query, asked, session, died>>

ReplaceLink(r) ==
  /\ pc[r] = "connect"
  /\ link # asked[r]
  /\ \/ link' = asked[r] /\ Answer(r, "ok", "unlock")
     \/ link' = Null /\ Answer(r, "failed", "unlock")
  /\ ingame' = FALSE /\ witness' = Null
  /\ UNCHANGED <<daemon, mutex, query, asked, died>>

Unlock(r) ==
  /\ pc[r] = "unlock"
  /\ mutex' = Null
  /\ Goto(r, "respond")
  /\ UNCHANGED <<daemon, query, asked, page, session, died>>

\* The page is sent; the thread ends, and its slot is free for another.
Respond(r) ==
  /\ pc[r] = "respond"
  /\ Answer(r, "none", "idle")
  /\ query' = [query EXCEPT ![r] = NoQuery]
  /\ asked' = [asked EXCEPT ![r] = Null]
  /\ UNCHANGED <<daemon, mutex, session, died>>

HandleRequest(r) ==
  \/ TryLock(r) \/ CheckIngame(r) \/ CheckParams(r) \/ Convert(r)
  \/ CallConnect(r) \/ KeepLink(r) \/ ReplaceLink(r) \/ Unlock(r)
  \/ Respond(r)

-----------------------------------------------------------------------------
(* open() and close(), from start() and stop().                            *)

\* start() does not look at the result of open().
Open ==
  /\ daemon = "none"
  /\ daemon' \in {"open", "closed"}
  /\ UNCHANGED <<mutex, threads, session, died>>

Stop ==
  /\ daemon = "open"
  /\ daemon' = "stopping"
  /\ UNCHANGED <<mutex, threads, session, died>>

\* MHD_stop_daemon() returns when it has joined the connection threads.
Stopped ==
  /\ daemon = "stopping"
  /\ \A r \in Requests : pc[r] = "idle"
  /\ daemon' = "closed"
  /\ UNCHANGED <<mutex, threads, session, died>>

-----------------------------------------------------------------------------
(* libmicrohttpd, and the life of a connection between requests.           *)

Arrive(r, q) ==
  /\ daemon = "open"
  /\ pc[r] = "idle"
  /\ query' = [query EXCEPT ![r] = q]
  /\ Goto(r, "lock")
  /\ UNCHANGED <<daemon, mutex, asked, page, session, died>>

\* A request accepted when the daemon stops need not be handled.
Drop(r) ==
  /\ daemon = "stopping"
  /\ pc[r] = "lock"
  /\ query' = [query EXCEPT ![r] = NoQuery]
  /\ Goto(r, "idle")
  /\ UNCHANGED <<daemon, mutex, asked, page, session, died>>

\* A handshake succeeds: in the game, unless the identifier is zero.
Join ==
  /\ link # Null /\ ~ingame
  /\ link.uid # 0
  /\ ingame' = TRUE
  /\ witness' = mutex
  /\ UNCHANGED <<daemon, mutex, threads, link, died>>

Lose ==
  /\ link # Null
  /\ link' = Null /\ ingame' = FALSE /\ witness' = Null
  /\ UNCHANGED <<daemon, mutex, threads, died>>

-----------------------------------------------------------------------------
(* The specification.                                                      *)

\* The daemon is closed for good, or the process is gone.
Halted ==
  /\ died \/ daemon = "closed"
  /\ UNCHANGED vars

Next ==
  \/ /\ ~died
     /\ \/ \E r \in Requests : HandleRequest(r) \/ Drop(r)
        \/ \E r \in Requests, q \in Queries : Arrive(r, q)
        \/ Open \/ Stop \/ Stopped
        \/ Join \/ Lose
  \/ Halted

Spec == Init /\ [][Next]_vars

\* Every connection thread is scheduled; a connect() returns (module Client);
\* MHD_stop_daemon() joins.  Nobody has to call stop().
Fairness ==
  /\ \A r \in Requests : WF_vars(~died /\ HandleRequest(r))
  /\ WF_vars(~died /\ Stopped)

FairSpec == Spec /\ Fairness

-----------------------------------------------------------------------------
(* Properties.                                                             *)

\* Every variable has its type.
TypeOK ==
  /\ daemon \in {"none", "open", "stopping", "closed"}
  /\ mutex \in Requests \cup {Null}
  /\ pc \in [Requests -> Labels]
  /\ query \in [Requests -> Queries]
  /\ asked \in [Requests -> Calls \cup {Null}]
  /\ page \in [Requests -> Pages]
  /\ link \in Calls \cup {Null}
  /\ ingame \in BOOLEAN
  /\ died \in BOOLEAN
  /\ witness \in Requests \cup {Null}

\* The call of connect() in progress, if there is one.
calling ==
  IF \E r \in Requests : pc[r] = "connect"
  THEN asked[CHOOSE r \in Requests : pc[r] = "connect"]
  ELSE Null

Caller == INSTANCE OneCaller WITH shut <- daemon = "closed"

\* However many requests come together, the client is called by one at a
\* time, and by none once stop() goes on to delete it.
IsOneCaller == Caller!Spec

\* A request takes down a session that is in the game only if the session
\* got there while that very request was being handled: after line 81 asked.
GameIsKept ==
  [][\A r \in Requests : ReplaceLink(r) /\ ingame => witness = r]_vars

\* _connectionMutex is held by a thread that will give it back, or by none: it
\* is never left locked for all later requests.
LockIsOwned == mutex # Null => pc[mutex] \in Locked

\* Every request is answered, or dropped by the stopping daemon, if the
\* process survives.
Answered ==
  \A r \in Requests : pc[r] = "lock" ~> pc[r] = "idle" \/ died

\* stop() gets past the HTTP server: no request being handled waits for
\* something that only stop() would do.
StopEnds == daemon = "stopping" ~> daemon = "closed" \/ died
=============================================================================
