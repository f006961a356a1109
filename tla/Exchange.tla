------------------------------ MODULE Exchange ------------------------------
(***************************************************************************)
(* The dialogue of the plugin and the game server: the version check, the  *)
(* handshake, and the server's orders to mute and unmute (protocol.h and   *)
(* the packet handlers of client.cpp).                                     *)
(*                                                                         *)
(* Every packet is reliable.  ENet keeps the order of the packets of one   *)
(* channel and promises nothing about two channels, so each channel is a   *)
(* queue of its own.  A connection can end at any time, with all that is   *)
(* under way.  Handlers are single steps here: modules Client, Session and *)
(* Status have what happens inside them.                                   *)
(*                                                                         *)
(* The game server is not in the repository.  It is modelled as the client *)
(* takes it to be: it answers a greeting, then a handshake, and invites    *)
(* again only who has answered the last invitation.  It may send mute      *)
(* orders at any time, even before it should.                              *)
(***************************************************************************)
EXTENDS Integers, Sequences

CONSTANTS
  Others,      \* the other TeamSpeak clients in question
  Version,     \* PROTOCOL_VERSION_MAJOR and _MINOR
  Minimum,     \* PROTOCOL_MIN_VERSION_MAJOR and _MINOR
  Versions,    \* the versions a server can have, or demand of the plugin
  MayFail,     \* what TeamSpeak may refuse
  MaxUpdates   \* bounds the mute orders under way

VersionNumber == Int \X Int

ASSUME ExchangeAssumption ==
  /\ Version \in VersionNumber /\ Minimum \in VersionNumber
  /\ Versions \subseteq VersionNumber
  /\ MayFail \subseteq {"server", "move", "id", "identity"}
  /\ MaxUpdates \in Nat

VARIABLES
  \* the network
  open,         \* the connection is there
  greetings,    \* under way to the server, in the protocol channel
  shakes,       \* ... and in the handshake channel
  responses,    \* under way to the plugin, in the protocol channel
  invitations,  \* ... in the handshake channel
  orders,       \* ... and in the update channel
  \* the plugin
  handle,    \* _serverConnectionHandler is set
  known,     \* _teamspeakId is set
  muted,     \* the clients muted for the user
  present,   \* the clients in the channel of the user
  \* the server
  server,    \* its version, and the least it demands
  stage,     \* what it has done for this client
  view,      \* the clients it wants muted
  spoken     \* the clients it has spoken of while this one was ready, and
             \* whose move has not been reported since

upward   == <<greetings, shakes>>
downward == <<responses, invitations, orders>>
network  == <<open, upward, downward>>
plugin   == <<handle, known, muted, present>>
remote   == <<server, stage, view, spoken>>
vars     == <<network, plugin, remote>>

Statuses == {"ok", "not connected", "not moved", "refused", "outdated"}

ProtocolPacket    == [version : VersionNumber, minimum : VersionNumber]
ProtocolResponse  == [status : Statuses, version : VersionNumber]
HandshakePacket   == [status : Statuses, id : BOOLEAN, identity : BOOLEAN]
HandshakeResponse == [status : Statuses]
AudioUpdate       == [who : Others, muted : BOOLEAN]

IsIngame == open /\ known

\* An answer of TeamSpeak's: yes, or no if it may refuse.
Answers(what) == {TRUE} \cup (IF what \in MayFail THEN {FALSE} ELSE {})

-----------------------------------------------------------------------------
(* verifyProtocolVersion().                                                *)

\* Faulty: the minor version is compared first.
VerifyMinorFirst(major, minor, minMajor, minMinor) ==
  IF minor # minMinor THEN minor > minMinor ELSE major >= minMajor

VerifyProtocolVersion(major, minor, minMajor, minMinor) ==
  IF major > minMajor THEN TRUE
  ELSE IF major < minMajor THEN FALSE
  ELSE IF minor > minMinor THEN TRUE
  ELSE IF minor < minMinor THEN FALSE
  ELSE TRUE

\* What it means: versions are ordered by the major, then the minor number.
AtLeast(v, w) == v[1] > w[1] \/ (v[1] = w[1] /\ v[2] >= w[2])

Accepts(v, min) == VerifyProtocolVersion(v[1], v[2], min[1], min[2])

-----------------------------------------------------------------------------
(* Packets.                                                                *)

\* Faulty: the game server is not told how it went.
AnswerOk(status, id, found) ==
  \E identity \in Answers("identity") :
    shakes' = Append(shakes, [status   |-> "ok",
                              id       |-> id,
                              identity |-> identity /\ found])

\* Faulty: the identity is left out of the packet.
AnswerWithoutIdentity(status, id, found) ==
  shakes' = Append(shakes, [status |-> status, id |-> id])

\* sendHandshake(): the identity is the empty string without a server.
SendHandshake(status, id, found) ==
  \E identity \in Answers("identity") :
    shakes' = Append(shakes, [status   |-> status,
                              id       |-> id,
                              identity |-> identity /\ found])

\* The connection is over; close() may or may not unmute everybody.
HangUp ==
  /\ open' = FALSE
  /\ greetings' = <<>> /\ shakes' = <<>>
  /\ responses' = <<>> /\ invitations' = <<>> /\ orders' = <<>>
  /\ known' = FALSE
  /\ muted' \in {muted, {}}
  /\ stage' = "new" /\ spoken' = {}
  /\ UNCHANGED <<handle, present, server, view>>

Init ==
  /\ open = FALSE
  /\ greetings = <<>> /\ shakes = <<>>
  /\ responses = <<>> /\ invitations = <<>> /\ orders = <<>>
  /\ handle = FALSE /\ known = FALSE
  /\ muted = {} /\ present \in SUBSET Others
  /\ server \in [version : Versions, minimum : Versions]
  /\ stage = "new" /\ view = {} /\ spoken = {}

-----------------------------------------------------------------------------
(* Faulty forms of some of the actions below.                              *)

\* The clients in the channel are muted when the server's orders come.
UpdateAfterMutingAll ==
  /\ orders # <<>>
  /\ orders' = Tail(orders)
  /\ muted' = IF Head(orders).muted THEN muted \cup {Head(orders).who}
              ELSE (muted \cup present) \ {Head(orders).who}
  /\ UNCHANGED <<open, upward, responses, invitations>>
  /\ UNCHANGED <<handle, known, present, remote>>

\* A good protocol response is not answered; nor is an invitation that fails.
AnswerAndHang ==
  /\ responses # <<>>
  /\ responses' = Tail(responses)
  /\ UNCHANGED <<open, upward, invitations, orders, plugin, remote>>

MoveRefusedSilently ==
  /\ invitations # <<>>
  /\ Head(invitations).status = "ok"
  /\ invitations' = Tail(invitations)
  /\ "move" \in MayFail
  /\ handle' = TRUE
  /\ UNCHANGED <<open, upward, responses, orders, known, muted, present>>
  /\ UNCHANGED remote

-----------------------------------------------------------------------------
(* The plugin: handleMessage() calls the handler of the channel.           *)

\* connect(), and sendProtocolMessage().
Connect ==
  /\ ~open
  /\ open' = TRUE
  /\ greetings' = Append(greetings, [version |-> Version, minimum |-> Minimum])
  /\ known' = FALSE
  /\ server' \in [version : Versions, minimum : Versions]
  /\ UNCHANGED <<shakes, downward, handle, muted, present>>
  /\ UNCHANGED <<stage, view, spoken>>

\* disconnect(), or the loss of the connection.
Disconnect == open /\ HangUp

HandleProtocolResponse ==
  /\ responses # <<>>
  /\ IF /\ Accepts(Head(responses).version, Minimum)
        /\ Head(responses).status = "ok"
     THEN /\ responses' = Tail(responses)
          /\ SendHandshake("ok", known, handle)
          /\ UNCHANGED <<open, greetings, invitations, orders, plugin, remote>>
     ELSE HangUp

\* handleHandshakeResponse(): a refusal is only logged ...
HandleRefusal ==
  /\ invitations # <<>>
  /\ Head(invitations).status # "ok"
  /\ invitations' = Tail(invitations)
  /\ UNCHANGED <<open, upward, responses, orders, plugin, remote>>

\* ... and after that every exit tells the server how it went.
Invited ==
  /\ invitations # <<>>
  /\ Head(invitations).status = "ok"
  /\ invitations' = Tail(invitations)
  /\ UNCHANGED <<open, greetings, responses, orders, present, remote>>

ServerNotFound ==
  /\ Invited
  /\ "server" \in MayFail
  /\ handle' = FALSE
  /\ SendHandshake("not connected", known, FALSE)
  /\ UNCHANGED <<known, muted>>

MoveRefused ==
  /\ Invited
  /\ "move" \in MayFail
  /\ handle' = TRUE
  /\ SendHandshake("not moved", known, TRUE)
  /\ UNCHANGED <<known, muted>>

\* ts3_clientId() may answer zero.
JoinGame ==
  /\ Invited
  /\ handle' = TRUE
  /\ muted' = muted \cup present
  /\ known' \in Answers("id")
  /\ SendHandshake("ok", known', TRUE)

HandleInvitation == ServerNotFound \/ MoveRefused \/ JoinGame

\* handleUpdateMessage(), for one of the audio updates of a packet.
HandleUpdate ==
  /\ orders # <<>>
  /\ orders' = Tail(orders)
  /\ muted' = IF ~handle THEN muted
              ELSE IF Head(orders).muted THEN muted \cup {Head(orders).who}
                                         ELSE muted \ {Head(orders).who}
  /\ UNCHANGED <<open, upward, responses, invitations>>
  /\ UNCHANGED <<handle, known, present, remote>>

HandleMessage ==
  \/ HandleProtocolResponse \/ HandleRefusal \/ HandleInvitation
  \/ HandleUpdate

\* ts3plugin_onClientMoveEvent(): who arrives is muted, who leaves is not.
OtherMoves(o) ==
  /\ present' = IF o \in present THEN present \ {o} ELSE present \cup {o}
  /\ muted' = IF ~(handle /\ IsIngame) THEN muted
              ELSE IF o \in present THEN muted \ {o} ELSE muted \cup {o}
  /\ spoken' = spoken \ {o}
  /\ UNCHANGED <<network, handle, known, server, stage, view>>

-----------------------------------------------------------------------------
(* The server.                                                             *)

ServerGreets ==
  /\ greetings # <<>>
  /\ greetings' = Tail(greetings)
  /\ LET fine == AtLeast(Head(greetings).version, server.minimum) IN
       responses' = Append(responses,
                           [status  |-> IF fine THEN "ok" ELSE "outdated",
                            version |-> server.version])
  /\ stage' = "greeted"
  /\ UNCHANGED <<open, shakes, invitations, orders, plugin>>
  /\ UNCHANGED <<server, view, spoken>>

Invite(status) == invitations' = Append(invitations, [status |-> status])

\* A handshake without an id, or with a problem, is answered by an invitation
\* or by a refusal; another one makes the client ready.
ServerAnswers ==
  /\ shakes # <<>>
  /\ shakes' = Tail(shakes)
  /\ IF Head(shakes).status = "ok" /\ Head(shakes).id
     THEN stage' = "ready" /\ UNCHANGED invitations
     ELSE \/ Invite("ok") /\ stage' = "invited"
          \/ Invite("refused") /\ stage' = "refused"
  /\ UNCHANGED <<open, greetings, responses, orders, plugin>>
  /\ UNCHANGED <<server, view, spoken>>

\* To another channel, say; what was said holds no more.
ServerInvitesAgain ==
  /\ stage = "ready"
  /\ Invite("ok")
  /\ stage' = "invited"
  /\ spoken' = {}
  /\ UNCHANGED <<open, upward, responses, orders, plugin, server, view>>

ServerSpeaks(o, mute) ==
  /\ open /\ stage # "new"
  /\ Len(orders) < MaxUpdates
  /\ orders' = Append(orders, [who |-> o, muted |-> mute])
  /\ view' = IF mute THEN view \cup {o} ELSE view \ {o}
  /\ spoken' = IF stage = "ready" THEN spoken \cup {o} ELSE spoken
  /\ UNCHANGED <<open, upward, responses, invitations, plugin, server, stage>>

-----------------------------------------------------------------------------
(* The specification.                                                      *)

ServerReads == ServerGreets \/ ServerAnswers

Next ==
  \/ Connect \/ Disconnect
  \/ HandleMessage
  \/ \E o \in Others : OtherMoves(o)
  \/ ServerReads \/ ServerInvitesAgain
  \/ \E o \in Others, mute \in BOOLEAN : ServerSpeaks(o, mute)

Spec == Init /\ [][Next]_vars

\* The update thread polls ENet, which delivers; the server reads.
Fairness ==
  /\ WF_vars(HandleProtocolResponse)
  /\ WF_vars(HandleRefusal \/ HandleInvitation)
  /\ WF_vars(ServerReads)

FairSpec == Spec /\ Fairness

-----------------------------------------------------------------------------
(* Properties.                                                             *)

TypeNetwork ==
  /\ open \in BOOLEAN
  /\ greetings \in Seq(ProtocolPacket)
  /\ shakes \in Seq(HandshakePacket)
  /\ responses \in Seq(ProtocolResponse)
  /\ invitations \in Seq(HandshakeResponse)
  /\ orders \in Seq(AudioUpdate)

TypeParties ==
  /\ handle \in BOOLEAN /\ known \in BOOLEAN
  /\ muted \subseteq Others /\ present \subseteq Others
  /\ server \in [version : VersionNumber, minimum : VersionNumber]
  /\ stage \in {"new", "greeted", "invited", "refused", "ready"}
  /\ view \subseteq Others /\ spoken \subseteq Others

\* Every variable has its type.
TypeOK == TypeNetwork /\ TypeParties

\* Each side has a version that the other takes.
Compatible == /\ AtLeast(server.version, Minimum)
              /\ AtLeast(Version, server.minimum)

\* Nobody gets into the game with a version that the other side cannot take,
\* whichever packets overtake each other: the plugin does not shake hands with
\* a server it has not checked, and the server checked the plugin.
VersionsAgree == IsIngame => Compatible

\* A client that the server counts in is in the game: connected, found on the
\* TeamSpeak server, with an id; none of the handler's failures looks like a
\* success to the server.
ReadyIsIngame == stage = "ready" => IsIngame /\ handle

Agreed == INSTANCE Agreement
  WITH fit <- Compatible, ingame <- IsIngame, counted <- stage = "ready"

\* With queues, failures and versions the two sides keep to Agreement: nobody
\* enters before the check has passed both ways, a repeated invitation that
\* fails takes nobody out of the game whom the server counts in, and neither
\* side learns of an earlier connection's end or success.
IsAgreement == Agreed!Spec

\* The server has the last word on who is muted: what it said of a client since
\* it counted this one in, and since TeamSpeak last reported a move of that
\* client, is what TeamSpeak has once every order has arrived.  Neither the
\* muting of the whole channel nor an early order that comes late undoes it.
LastWord ==
  \A o \in spoken :
    \/ \E i \in 1..Len(orders) :
         /\ orders[i] = [who |-> o, muted |-> o \in view]
         /\ \A j \in (i + 1)..Len(orders) : orders[j].who # o
    \/ /\ \A i \in 1..Len(orders) : orders[i].who # o
       /\ o \in muted <=> o \in view

\* Every invitation is answered, whatever TeamSpeak refuses on the way: the
\* server is not left waiting for a client that gave up.
InvitationIsAnswered ==
  stage = "invited" /\ invitations # <<>>
    ~> shakes # <<>> \/ ~open

\* What keeps a client out of the game for good: TeamSpeak refuses something.
Refuses == ServerNotFound \/ MoveRefused \/ (JoinGame /\ ~known')

\* When TeamSpeak refuses nothing any more the dialogue comes to an end: a
\* connection gets the client into the game, or the server refuses it, or it
\* ends.
DialogueEnds ==
  <>[][~Refuses]_vars => (open ~> stage \in {"ready", "refused"} \/ ~open)
=============================================================================
