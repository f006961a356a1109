--------------------------- MODULE ExchangeProofs ---------------------------
(***************************************************************************)
(* The version check, the handshake and the mute orders, for any versions, *)
(* any clients and any number of orders under way.  The heart of it is     *)
(* that the dialogue has one packet under way at most, so that no two of   *)
(* its packets can overtake each other; the orders are one queue.          *)
(***************************************************************************)
EXTENDS Exchange, SequenceTheorems, TLAPS

None(queue) == queue = <<>>
One(queue)  == Len(queue) = 1

\* Where the one packet of the dialogue is, at each stage.
Dialogue ==
  /\ stage = "new" =>
       /\ None(shakes) /\ None(responses) /\ None(invitations)
       /\ IF open THEN One(greetings) ELSE None(greetings)
  /\ stage = "greeted" =>
       /\ open /\ None(greetings) /\ None(invitations)
       /\ \/ One(responses) /\ None(shakes)
          \/ None(responses) /\ One(shakes)
  /\ stage = "invited" =>
       /\ open /\ None(greetings) /\ None(responses)
       /\ \/ One(invitations) /\ None(shakes)
          \/ None(invitations) /\ One(shakes)
  /\ stage = "refused" =>
       /\ open /\ None(greetings) /\ None(responses) /\ None(shakes)
       /\ One(invitations) \/ None(invitations)
  /\ stage = "ready" =>
       /\ open /\ None(greetings) /\ None(responses) /\ None(shakes)
       /\ None(invitations)

\* What the packets of the dialogue say.
Greeting ==
  One(greetings) =>
    greetings[1] = [version |-> Version, minimum |-> Minimum]

Response ==
  One(responses) =>
    /\ responses[1].version = server.version
    /\ responses[1].status = "ok" => AtLeast(Version, server.minimum)

Invitation ==
  One(invitations) =>
    (invitations[1].status = "ok" <=> stage = "invited")

Shake ==
  One(shakes) =>
    /\ Compatible
    /\ shakes[1].status = "ok" /\ shakes[1].id
         => known /\ handle

\* What the stage of the dialogue says of the two parties.
Parties ==
  /\ stage \in {"new", "greeted"} => ~known
  /\ stage \in {"invited", "refused", "ready"} => Compatible
  /\ stage = "ready" => known /\ handle
  /\ stage # "ready" => spoken = {}
  /\ ~open => stage = "new" /\ orders = <<>>

Core == Dialogue /\ Greeting /\ Response /\ Invitation /\ Shake /\ Parties

Inv == TypeOK /\ Core /\ LastWord

-----------------------------------------------------------------------------
(* The version check.                                                      *)

\* For all numbers, verifyProtocolVersion() is the lexicographic order.
THEOREM VersionOrder ==
  ASSUME NEW v \in VersionNumber, NEW min \in VersionNumber
  PROVE  Accepts(v, min) <=> AtLeast(v, min)
  BY DEF Accepts, VerifyProtocolVersion, AtLeast, VersionNumber

-----------------------------------------------------------------------------
(* Queues, and what sending and reading do to them.                        *)

LEMMA Read ==
  ASSUME NEW S, NEW q \in Seq(S), q # <<>>
  PROVE  /\ Tail(q) \in Seq(S) /\ Head(q) \in S /\ Head(q) = q[1]
         /\ One(q) => Tail(q) = <<>>
<1>1. Len(Tail(q)) = Len(q) - 1 /\ Tail(q) \in Seq(S) /\ Head(q) \in S
  BY HeadTailProperties
<1>2. One(q) => Tail(q) = <<>>
  <2> SUFFICES ASSUME One(q) PROVE Tail(q) = <<>>
    OBVIOUS
  <2> DEFINE t == Tail(q)
  <2>1. Len(t) = 0 /\ t \in Seq(S)
    BY <1>1 DEF One
  <2> HIDE DEF t
  <2>2. t = <<>>
    BY <2>1, EmptySeq
  <2> QED
    BY <2>2 DEF t
<1>3. Head(q) = q[1]
  OBVIOUS
<1> QED
  BY <1>1, <1>2, <1>3

LEMMA Sent ==
  ASSUME NEW S, NEW q \in Seq(S), NEW x \in S
  PROVE  /\ Append(q, x) \in Seq(S) /\ Append(q, x) # <<>>
         /\ None(q) => One(Append(q, x)) /\ Append(q, x)[1] = x
  BY DEF One, None

LEMMA NoneIsNotOne == ASSUME NEW q, None(q) PROVE ~One(q)
  BY DEF One, None

LEMMA Shaking ==
  ASSUME TypeOK, NEW status \in Statuses, NEW id \in BOOLEAN,
         NEW found \in BOOLEAN, SendHandshake(status, id, found)
  PROVE  /\ shakes' \in Seq(HandshakePacket)
         /\ None(shakes) =>
              /\ One(shakes')
              /\ shakes'[1].status = status
              /\ shakes'[1].id = id
<1>1. PICK identity \in BOOLEAN :
        shakes' = Append(shakes, [status   |-> status,
                                  id       |-> id,
                                  identity |-> identity /\ found])
  BY DEF SendHandshake, Answers
<1>2. [status |-> status, id |-> id, identity |-> identity /\ found]
        \in HandshakePacket
  BY DEF HandshakePacket
<1> QED
  BY <1>1, <1>2, Sent DEF TypeOK, TypeNetwork

-----------------------------------------------------------------------------
(* Types.                                                                  *)

LEMMA TypeStep == TypeOK /\ [Next]_vars => TypeOK'
<1> SUFFICES ASSUME TypeOK, [Next]_vars PROVE TypeOK'
  OBVIOUS
<1> USE DEF TypeOK, TypeNetwork, TypeParties, upward, downward, network, plugin,
            remote
<1>1. ASSUME HangUp PROVE TypeOK'
  BY <1>1, EmptySeq DEF HangUp
<1>2. ASSUME Connect PROVE TypeOK'
  <2>1. [version |-> Version, minimum |-> Minimum] \in ProtocolPacket
    BY ExchangeAssumption DEF ProtocolPacket
  <2>2. greetings' \in Seq(ProtocolPacket)
    BY <1>2, <2>1, Sent DEF Connect
  <2>3. server' \in [version : VersionNumber, minimum : VersionNumber]
    BY <1>2, ExchangeAssumption DEF Connect
  <2> QED
    BY <1>2, <2>2, <2>3 DEF Connect
<1>3. ASSUME HandleProtocolResponse, ~HangUp PROVE TypeOK'
  <2>1. shakes' \in Seq(HandshakePacket)
    BY <1>3, Shaking DEF HandleProtocolResponse, Statuses
  <2>2. responses' \in Seq(ProtocolResponse)
    <3>1. responses # <<>> /\ responses' = Tail(responses)
      BY <1>3 DEF HandleProtocolResponse
    <3> QED
      BY <3>1, Read
  <2> QED
    BY <1>3, <2>1, <2>2 DEF HandleProtocolResponse
<1>4. ASSUME HandleRefusal PROVE TypeOK'
  BY <1>4 DEF HandleRefusal
<1>5. ASSUME HandleInvitation PROVE TypeOK'
  <2>1. known' \in BOOLEAN /\ handle' \in BOOLEAN /\ muted' \subseteq Others
    BY <1>5 DEF HandleInvitation, ServerNotFound, MoveRefused, JoinGame, Answers
  <2>2. shakes' \in Seq(HandshakePacket)
    BY <1>5, <2>1, Shaking DEF HandleInvitation, ServerNotFound, MoveRefused,
                               JoinGame, Statuses
  <2>3. Invited
    BY <1>5 DEF HandleInvitation, ServerNotFound, MoveRefused, JoinGame
  <2> QED
    BY <2>1, <2>2, <2>3 DEF Invited
<1>6. ASSUME HandleUpdate PROVE TypeOK'
  <2>1. Head(orders) \in AudioUpdate
    BY <1>6 DEF HandleUpdate
  <2> QED
    BY <1>6, <2>1 DEF HandleUpdate, AudioUpdate
<1>7. ASSUME NEW o \in Others, OtherMoves(o) PROVE TypeOK'
  BY <1>7 DEF OtherMoves
<1>8. ASSUME ServerGreets PROVE TypeOK'
  <2>1. responses' \in Seq(ProtocolResponse)
    <3> DEFINE say(fine) == [status  |-> IF fine THEN "ok" ELSE "outdated",
                             version |-> server.version]
    <3>1. \A fine \in BOOLEAN : say(fine) \in ProtocolResponse
      BY DEF ProtocolResponse, Statuses
    <3>2. \E fine \in BOOLEAN : responses' = Append(responses, say(fine))
      BY <1>8 DEF ServerGreets
    <3> QED
      BY <3>1, <3>2, Sent
  <2> QED
    BY <1>8, <2>1 DEF ServerGreets
<1>9. ASSUME ServerAnswers PROVE TypeOK'
  <2>1. invitations' \in Seq(HandshakeResponse)
    <3>1. \A s \in Statuses : [status |-> s] \in HandshakeResponse
      BY DEF HandshakeResponse
    <3>2. \/ UNCHANGED invitations
          \/ \E s \in {"ok", "refused"} :
               invitations' = Append(invitations, [status |-> s])
      BY <1>9 DEF ServerAnswers, Invite
    <3>3. ASSUME NEW s \in {"ok", "refused"},
                 invitations' = Append(invitations, [status |-> s])
          PROVE  invitations' \in Seq(HandshakeResponse)
      <4>1. [status |-> s] \in HandshakeResponse
        BY <3>1 DEF Statuses
      <4> QED
        BY <3>3, <4>1, Sent
    <3> QED
      BY <3>2, <3>3
  <2> QED
    BY <1>9, <2>1 DEF ServerAnswers
<1>10. ASSUME ServerInvitesAgain PROVE TypeOK'
  <2>1. invitations' \in Seq(HandshakeResponse)
    <3>1. \A s \in Statuses : [status |-> s] \in HandshakeResponse
      BY DEF HandshakeResponse
    <3> QED
      BY <1>10, <3>1, Sent DEF ServerInvitesAgain, Invite, Statuses
  <2> QED
    BY <1>10, <2>1 DEF ServerInvitesAgain
<1>11. ASSUME NEW o \in Others, NEW mute \in BOOLEAN, ServerSpeaks(o, mute)
       PROVE  TypeOK'
  <2>1. [who |-> o, muted |-> mute] \in AudioUpdate
    BY DEF AudioUpdate
  <2> QED
    BY <1>11, <2>1 DEF ServerSpeaks
<1>12. CASE UNCHANGED vars
  BY <1>12 DEF vars
<1> QED
  BY <1>1, <1>2, <1>3, <1>4, <1>5, <1>6, <1>7, <1>8, <1>9, <1>10, <1>11, <1>12
     DEF Next, Disconnect, HandleMessage, ServerReads

-----------------------------------------------------------------------------
(* The dialogue.                                                           *)

\* A packet of the dialogue is the only one, and says at which stage it is.
LEMMA TheOnlyPacket ==
  ASSUME TypeOK, Core
  PROVE  /\ greetings # <<>> =>
              /\ stage = "new" /\ open /\ One(greetings)
              /\ None(shakes) /\ None(responses) /\ None(invitations)
         /\ responses # <<>> =>
              /\ stage = "greeted" /\ open /\ One(responses)
              /\ None(greetings) /\ None(shakes) /\ None(invitations)
         /\ shakes # <<>> =>
              /\ stage \in {"greeted", "invited"} /\ open /\ One(shakes)
              /\ None(greetings) /\ None(responses) /\ None(invitations)
         /\ invitations # <<>> =>
              /\ stage \in {"invited", "refused"} /\ open /\ One(invitations)
              /\ None(greetings) /\ None(shakes) /\ None(responses)
  BY DEF TypeOK, TypeParties, Core, Dialogue, None

LEMMA CoreStep == TypeOK /\ Core /\ [Next]_vars => Core'
<1> SUFFICES ASSUME TypeOK, Core, [Next]_vars PROVE Core'
  OBVIOUS
<1>0. TypeOK'
  BY TypeStep
<1> USE TheOnlyPacket, NoneIsNotOne
    DEF Core, Dialogue, Greeting, Response, Invitation, Shake, Parties,
        Compatible, upward, downward, network, plugin, remote
<1>1. ASSUME HangUp PROVE Core'
  BY <1>1 DEF HangUp, None
<1>2. ASSUME Connect PROVE Core'
  <2>1. [version |-> Version, minimum |-> Minimum] \in ProtocolPacket
    BY ExchangeAssumption DEF ProtocolPacket
  <2>2. /\ One(greetings')
        /\ greetings'[1] = [version |-> Version, minimum |-> Minimum]
    BY <1>2, <2>1, Sent DEF Connect, TypeOK, TypeNetwork
  <2> QED
    BY <1>2, <2>2 DEF Connect
<1>3. ASSUME HandleProtocolResponse, ~HangUp PROVE Core'
  <2>1. /\ responses # <<>> /\ responses' = Tail(responses)
        /\ Accepts(Head(responses).version, Minimum)
        /\ Head(responses).status = "ok"
        /\ SendHandshake("ok", known, handle)
    BY <1>3 DEF HandleProtocolResponse
  <2>2. Head(responses) = responses[1] /\ responses' = <<>>
    BY <2>1, Read DEF TypeOK, TypeNetwork
  <2>3. AtLeast(server.version, Minimum) /\ AtLeast(Version, server.minimum)
    <3>1. server.version \in VersionNumber /\ Minimum \in VersionNumber
      BY ExchangeAssumption DEF TypeOK, TypeParties
    <3> QED
      BY <2>1, <2>2, <3>1, VersionOrder
  <2>4. One(shakes') /\ shakes'[1].id = known
    BY <2>1, Shaking DEF Statuses, TypeOK, TypeParties
  <2> QED
    BY <1>3, <2>1, <2>2, <2>3, <2>4 DEF HandleProtocolResponse, None
<1>4. ASSUME HandleRefusal PROVE Core'
  <2>1. invitations' = <<>> /\ stage = "refused"
    BY <1>4, Read DEF HandleRefusal, TypeOK, TypeNetwork
  <2> QED
    BY <1>4, <2>1 DEF HandleRefusal, None
<1>5. ASSUME HandleInvitation PROVE Core'
  <2>1. Invited
    BY <1>5 DEF HandleInvitation, ServerNotFound, MoveRefused, JoinGame
  <2>2. invitations' = <<>> /\ stage = "invited"
    BY <2>1, Read DEF Invited, TypeOK, TypeNetwork
  <2>3. /\ One(shakes')
        /\ shakes'[1].status = "ok" /\ shakes'[1].id => known' /\ handle'
    BY <1>0, <1>5, <2>1, Shaking
       DEF HandleInvitation, ServerNotFound, MoveRefused, JoinGame, Invited,
           Statuses, TypeOK, TypeParties
  <2> QED
    BY <2>1, <2>2, <2>3 DEF Invited, None
<1>6. ASSUME HandleUpdate PROVE Core'
  BY <1>6 DEF HandleUpdate
<1>7. ASSUME NEW o \in Others, OtherMoves(o) PROVE Core'
  BY <1>7 DEF OtherMoves
<1>8. ASSUME ServerGreets PROVE Core'
  <2>1. greetings' = <<>> /\ Head(greetings) = greetings[1]
    BY <1>8, Read DEF ServerGreets, TypeOK, TypeNetwork
  <2> DEFINE fine == AtLeast(Head(greetings).version, server.minimum)
             answer == [status  |-> IF fine THEN "ok" ELSE "outdated",
                        version |-> server.version]
  <2>2. answer \in ProtocolResponse
    BY DEF ProtocolResponse, Statuses, TypeOK, TypeParties
  <2>3. One(responses') /\ responses'[1] = answer
    BY <1>8, <2>2, Sent DEF ServerGreets, TypeOK, TypeNetwork
  <2>4. answer.version = server.version /\ (answer.status = "ok" => fine)
    OBVIOUS
  <2>5. fine <=> AtLeast(Version, server.minimum)
    BY <1>8, <2>1 DEF ServerGreets
  <2> QED
    BY <1>8, <2>1, <2>3, <2>4, <2>5 DEF ServerGreets, None
<1>9. ASSUME ServerAnswers PROVE Core'
  <2>1. shakes' = <<>> /\ Head(shakes) = shakes[1]
    BY <1>9, Read DEF ServerAnswers, TypeOK, TypeNetwork
  <2>2. ASSUME NEW s \in {"ok", "refused"}, Invite(s)
        PROVE  One(invitations') /\ invitations'[1].status = s
    <3>1. [status |-> s] \in HandshakeResponse
      BY DEF HandshakeResponse, Statuses
    <3> QED
      BY <1>9, <2>2, <3>1, Sent DEF Invite, ServerAnswers, TypeOK, TypeNetwork
  <2> QED
    BY <1>9, <2>1, <2>2 DEF ServerAnswers, None
<1>10. ASSUME ServerInvitesAgain PROVE Core'
  <2>1. One(invitations') /\ invitations'[1].status = "ok"
    <3>1. [status |-> "ok"] \in HandshakeResponse
      BY DEF HandshakeResponse, Statuses
    <3> QED
      BY <1>10, <3>1, Sent DEF Invite, ServerInvitesAgain, TypeOK, TypeNetwork
  <2> QED
    BY <1>10, <2>1 DEF ServerInvitesAgain, None
<1>11. ASSUME NEW o \in Others, NEW mute \in BOOLEAN, ServerSpeaks(o, mute)
       PROVE  Core'
  BY <1>11 DEF ServerSpeaks
<1>12. CASE UNCHANGED vars
  BY <1>12 DEF vars
<1> QED
  BY <1>1, <1>2, <1>3, <1>4, <1>5, <1>6, <1>7, <1>8, <1>9, <1>10, <1>11, <1>12
     DEF Next, Disconnect, HandleMessage, ServerReads

-----------------------------------------------------------------------------
(* The mute orders.                                                        *)

\* The last of the orders about a client, or TeamSpeak where there is none.
SaidLast(o) ==
  \E i \in 1..Len(orders) :
    /\ orders[i] = [who |-> o, muted |-> o \in view]
    /\ \A j \in (i + 1)..Len(orders) : orders[j].who # o

SaidNothing(o) ==
  /\ \A i \in 1..Len(orders) : orders[i].who # o
  /\ o \in muted <=> o \in view

LEMMA WordsOf == LastWord <=> \A o \in spoken : SaidLast(o) \/ SaidNothing(o)
  BY DEF LastWord, SaidLast, SaidNothing

\* Carrying out an order leaves every word the last one.
LEMMA OrderCarriedOut ==
  ASSUME TypeOK, handle, HandleUpdate, NEW o \in Others,
         SaidLast(o) \/ SaidNothing(o)
  PROVE  (SaidLast(o) \/ SaidNothing(o))'
<1>1. /\ orders # <<>> /\ orders' = Tail(orders) /\ Head(orders) = orders[1]
      /\ view' = view
  BY Read DEF HandleUpdate, TypeOK, TypeNetwork, remote
<1>2. /\ Len(orders) \in Nat \ {0} /\ Len(orders') = Len(orders) - 1
      /\ \A i \in 1..Len(orders') : orders'[i] = orders[i + 1]
  BY <1>1, HeadTailProperties, EmptySeq, LenProperties DEF TypeOK, TypeNetwork
<1>3. CASE SaidNothing(o)
  <2>1. orders[1].who # o
    BY <1>2, <1>3 DEF SaidNothing
  <2>2. o \in muted' <=> o \in muted
    BY <1>1, <2>1 DEF HandleUpdate
  <2> QED
    BY <1>1, <1>2, <1>3, <2>2 DEF SaidNothing
<1>4. CASE SaidLast(o)
  <2>1. PICK i \in 1..Len(orders) :
          /\ orders[i] = [who |-> o, muted |-> o \in view]
          /\ \A j \in (i + 1)..Len(orders) : orders[j].who # o
    BY <1>4 DEF SaidLast
  <2>2. CASE i = 1
    <3>1. o \in muted' <=> o \in view
      <4>1. orders[1].who = o /\ orders[1].muted = (o \in view)
        BY <2>1, <2>2
      <4> DEFINE m == orders[1].muted
      <4>2. muted' = IF m THEN muted \cup {o} ELSE muted \ {o}
        BY <1>1, <4>1 DEF HandleUpdate
      <4>3. m = (o \in view)
        BY <4>1
      <4> HIDE DEF m
      <4> QED
        BY <4>2, <4>3
    <3>2. \A j \in 1..Len(orders') : orders'[j].who # o
      BY <1>2, <2>1, <2>2
    <3> QED
      BY <1>1, <3>1, <3>2 DEF SaidNothing
  <2>3. CASE i # 1
    <3>1. i - 1 \in 1..Len(orders')
      BY <1>2, <2>3
    <3>2. orders'[i - 1] = [who |-> o, muted |-> o \in view]
      BY <1>2, <2>1, <3>1
    <3>3. \A j \in i..Len(orders') : orders'[j].who # o
      BY <1>2, <2>1
    <3> QED
      BY <1>1, <3>1, <3>2, <3>3 DEF SaidLast
  <2> QED
    BY <2>2, <2>3
<1> QED
  BY <1>3, <1>4

\* A new order is the last word on its client, and no word on another.
LEMMA OrderGiven ==
  ASSUME TypeOK, NEW c \in Others, NEW mute \in BOOLEAN, ServerSpeaks(c, mute),
         NEW o \in Others, o = c \/ SaidLast(o) \/ SaidNothing(o)
  PROVE  (SaidLast(o) \/ SaidNothing(o))'
<1> DEFINE order == [who |-> c, muted |-> mute]
<1>1. /\ orders' = Append(orders, order) /\ muted' = muted
      /\ view' = IF mute THEN view \cup {c} ELSE view \ {c}
  BY DEF ServerSpeaks, plugin
<1>2. order \in AudioUpdate
  BY DEF AudioUpdate
<1>3. /\ Len(orders) \in Nat /\ Len(orders') = Len(orders) + 1
      /\ \A i \in 1..Len(orders) : orders'[i] = orders[i]
      /\ orders'[Len(orders) + 1] = order
  <2> HIDE DEF order
  <2> QED
    BY <1>1, <1>2, AppendProperties, LenProperties DEF TypeOK, TypeNetwork
<1>4. CASE o = c
  <2>1. o \in view' <=> mute
    BY <1>1, <1>4
  <2>2. orders'[Len(orders')] = [who |-> o, muted |-> o \in view']
    BY <1>3, <1>4, <2>1
  <2> QED
    BY <1>3, <2>2 DEF SaidLast
<1>5. CASE o # c
  <2>1. (o \in view' <=> o \in view) /\ order.who # o
    BY <1>1, <1>5
  <2>2. CASE SaidNothing(o)
    BY <1>1, <1>3, <2>1, <2>2 DEF SaidNothing
  <2>3. CASE SaidLast(o)
    <3>1. PICK i \in 1..Len(orders) :
            /\ orders[i] = [who |-> o, muted |-> o \in view]
            /\ \A j \in (i + 1)..Len(orders) : orders[j].who # o
      BY <2>3 DEF SaidLast
    <3>2. /\ i \in 1..Len(orders')
          /\ orders'[i] = [who |-> o, muted |-> o \in view']
      BY <1>3, <2>1, <3>1
    <3>3. \A j \in (i + 1)..Len(orders') : orders'[j].who # o
      BY <1>3, <2>1, <3>1
    <3> QED
      BY <3>2, <3>3 DEF SaidLast
  <2> QED
    BY <1>5, <2>2, <2>3
<1> QED
  BY <1>4, <1>5

LEMMA LastWordStep == Inv /\ [Next]_vars => LastWord'
<1> SUFFICES ASSUME Inv, [Next]_vars PROVE LastWord'
  OBVIOUS
<1> USE DEF Inv
<1>1. \A o \in spoken : o \in Others /\ (SaidLast(o) \/ SaidNothing(o))
  BY WordsOf DEF TypeOK, TypeParties
<1>2. ASSUME spoken' = {} PROVE LastWord'
  BY <1>2 DEF LastWord
<1>3. ASSUME UNCHANGED <<orders, muted, view>>, spoken' \subseteq spoken
      PROVE  LastWord'
  BY <1>3 DEF LastWord
<1>4. ASSUME HandleUpdate PROVE LastWord'
  <2>1. spoken' = spoken
    BY <1>4 DEF HandleUpdate, remote
  <2>2. CASE stage = "ready"
    <3>1. handle
      BY <2>2 DEF Core, Parties
    <3>2. \A o \in spoken : (SaidLast(o) \/ SaidNothing(o))'
      BY <1>1, <1>4, <3>1, OrderCarriedOut
    <3> QED
      BY <2>1, <3>2 DEF LastWord, SaidLast, SaidNothing
  <2>3. CASE stage # "ready"
    BY <1>2, <2>1, <2>3 DEF Core, Parties
  <2> QED
    BY <2>2, <2>3
<1>5. ASSUME NEW c \in Others, OtherMoves(c) PROVE LastWord'
  <2>1. /\ spoken' = spoken \ {c} /\ UNCHANGED <<orders, view>>
        /\ \A o \in spoken' : o \in muted' <=> o \in muted
    BY <1>5 DEF OtherMoves, network, downward
  <2> QED
    BY <2>1 DEF LastWord
<1>6. ASSUME NEW c \in Others, NEW mute \in BOOLEAN, ServerSpeaks(c, mute)
      PROVE  LastWord'
  <2>1. CASE stage = "ready"
    <3>1. spoken' = spoken \cup {c}
      BY <1>6, <2>1 DEF ServerSpeaks
    <3>2. \A o \in spoken \cup {c} : (SaidLast(o) \/ SaidNothing(o))'
      BY <1>1, <1>6, OrderGiven
    <3> QED
      BY <3>1, <3>2 DEF LastWord, SaidLast, SaidNothing
  <2>2. CASE stage # "ready"
    <3>1. spoken' = {}
      BY <1>6, <2>2 DEF ServerSpeaks, Core, Parties
    <3> QED
      BY <1>2, <3>1
  <2> QED
    BY <2>1, <2>2
<1>7. ASSUME HandleInvitation PROVE LastWord'
  <2>1. Invited
    BY <1>7 DEF HandleInvitation, ServerNotFound, MoveRefused, JoinGame
  <2>2. stage # "ready"
    BY <2>1, TheOnlyPacket DEF Invited
  <2>3. spoken' = {}
    BY <2>1, <2>2 DEF Invited, remote, Core, Parties
  <2> QED
    BY <1>2, <2>3
<1>8. ASSUME HangUp PROVE LastWord'
  BY <1>2, <1>8 DEF HangUp
<1>9. ASSUME ServerInvitesAgain PROVE LastWord'
  BY <1>2, <1>9 DEF ServerInvitesAgain
<1>10. ASSUME HandleProtocolResponse, ~HangUp PROVE LastWord'
  BY <1>3, <1>10 DEF HandleProtocolResponse, plugin, remote
<1>11. ASSUME Connect \/ HandleRefusal \/ ServerReads PROVE LastWord'
  BY <1>3, <1>11 DEF Connect, HandleRefusal, ServerReads, ServerGreets,
       ServerAnswers, downward, plugin, remote
<1>12. CASE UNCHANGED vars
  BY <1>3, <1>12 DEF vars, network, downward, plugin, remote
<1> QED
  BY <1>4, <1>5, <1>6, <1>7, <1>8, <1>9, <1>10, <1>11, <1>12
     DEF Next, Disconnect, HandleMessage

-----------------------------------------------------------------------------
(* The dialogue implements Agreement.                                      *)

\* What the versions make of the connection is settled until the next one.
LEMMA FitStays ==
  ASSUME server' = server PROVE Compatible' = Compatible
  BY DEF Compatible

LEMMA StartAgrees == Init => Agreed!Init
  BY DEF Init, Agreed!Init, Compatible, AtLeast, IsIngame

\* Every step is one of Agreement's, or none of its business.
LEMMA StepAgrees ==
  Inv /\ [Next]_vars => [Agreed!Next]_Agreed!agreementVars
<1> SUFFICES ASSUME Inv, [Next]_vars
             PROVE  Agreed!Next \/ UNCHANGED Agreed!agreementVars
  OBVIOUS
<1>1. TypeOK /\ Core
  BY DEF Inv
<1>2. /\ open \in BOOLEAN /\ known \in BOOLEAN
      /\ Compatible \in BOOLEAN /\ Compatible' \in BOOLEAN
  BY <1>1 DEF TypeOK, TypeParties, TypeNetwork, Compatible
<1>3. ASSUME open' = open, known' = known, server' = server, stage' = stage
      PROVE  UNCHANGED Agreed!agreementVars
  BY <1>3, FitStays DEF Agreed!agreementVars, IsIngame
<1>4. ASSUME Connect PROVE Agreed!Connect
  <2>1. stage = "new" /\ ~known
    BY <1>1, <1>2, <1>4 DEF Connect, Core, Parties
  <2> QED
    BY <1>2, <1>4, <2>1
       DEF Connect, remote, Agreed!Connect, IsIngame
<1>5. ASSUME open, HangUp PROVE Agreed!Disconnect
  BY <1>5, FitStays DEF HangUp, Agreed!Disconnect, IsIngame
<1>6. ASSUME HandleProtocolResponse
      PROVE  Agreed!Next \/ UNCHANGED Agreed!agreementVars
  <2>1. open
    BY <1>1, <1>6, TheOnlyPacket DEF HandleProtocolResponse
  <2>2. \/ HangUp
        \/ UNCHANGED <<open, known, server, stage>>
    BY <1>6 DEF HandleProtocolResponse, plugin, remote
  <2> QED
    BY <1>3, <1>5, <2>1, <2>2 DEF Agreed!Next
<1>7. ASSUME HandleInvitation
      PROVE  Agreed!Next \/ UNCHANGED Agreed!agreementVars
  <2>1. Invited
    BY <1>7 DEF HandleInvitation, ServerNotFound, MoveRefused, JoinGame
  <2>2. /\ UNCHANGED <<open, server, stage>> /\ open
        /\ stage = "invited" /\ Compatible
    BY <1>1, <2>1, TheOnlyPacket
       DEF Invited, remote, Core, Parties, Invitation
  <2>3. known' \in BOOLEAN
    BY <1>2, <1>7
       DEF HandleInvitation, ServerNotFound, MoveRefused, JoinGame, Answers
  <2>4. CASE known' = known
    BY <1>3, <2>2, <2>4
  <2>5. CASE known' /\ ~known
    <3>1. Agreed!Enter
      BY <2>2, <2>5, FitStays DEF Agreed!Enter, IsIngame
    <3> QED
      BY <3>1 DEF Agreed!Next
  <2>6. CASE known /\ ~known'
    <3>1. Agreed!Leave
      BY <2>2, <2>6, FitStays DEF Agreed!Leave, IsIngame
    <3> QED
      BY <3>1 DEF Agreed!Next
  <2> QED
    BY <1>2, <2>3, <2>4, <2>5, <2>6
<1>8. ASSUME HandleRefusal \/ HandleUpdate
      PROVE  UNCHANGED Agreed!agreementVars
  BY <1>3, <1>8 DEF HandleRefusal, HandleUpdate, plugin, remote
<1>9. ASSUME NEW o \in Others, OtherMoves(o)
      PROVE  UNCHANGED Agreed!agreementVars
  BY <1>3, <1>9 DEF OtherMoves, network
<1>10. ASSUME ServerGreets PROVE UNCHANGED Agreed!agreementVars
  <2>1. stage = "new" /\ stage' = "greeted"
    BY <1>1, <1>10, TheOnlyPacket DEF ServerGreets
  <2> QED
    BY <1>10, <2>1, FitStays
       DEF ServerGreets, plugin, Agreed!agreementVars, IsIngame
<1>11. ASSUME ServerAnswers
       PROVE  Agreed!Next \/ UNCHANGED Agreed!agreementVars
  <2>1. /\ shakes # <<>> /\ Head(shakes) = shakes[1] /\ open /\ One(shakes)
        /\ stage \in {"greeted", "invited"}
        /\ UNCHANGED <<open, server, plugin>>
    BY <1>1, <1>11, TheOnlyPacket, Read
       DEF ServerAnswers, TypeOK, TypeNetwork
  <2>2. UNCHANGED <<open, Compatible, IsIngame>>
    BY <2>1, FitStays DEF plugin, IsIngame
  <2>3. CASE stage' = "ready"
    <3>1. Head(shakes).status = "ok" /\ Head(shakes).id
      BY <1>11, <2>3 DEF ServerAnswers
    <3>2. IsIngame
      BY <1>1, <2>1, <3>1 DEF Core, Shake, IsIngame
    <3>3. Agreed!CountIn
      BY <2>1, <2>2, <2>3, <3>2 DEF Agreed!CountIn
    <3> QED
      BY <3>3 DEF Agreed!Next
  <2>4. CASE stage' # "ready"
    BY <2>1, <2>2, <2>4 DEF Agreed!agreementVars
  <2> QED
    BY <2>3, <2>4
<1>12. ASSUME ServerInvitesAgain PROVE Agreed!Recall
  BY <1>12, FitStays DEF ServerInvitesAgain, plugin, Agreed!Recall, IsIngame
<1>13. ASSUME NEW o \in Others, NEW mute \in BOOLEAN, ServerSpeaks(o, mute)
       PROVE  UNCHANGED Agreed!agreementVars
  BY <1>3, <1>13 DEF ServerSpeaks, plugin
<1>14. CASE UNCHANGED vars
  BY <1>3, <1>14 DEF vars, network, plugin, remote
<1> QED
  BY <1>4, <1>5, <1>6, <1>7, <1>8, <1>9, <1>10, <1>11, <1>12, <1>13, <1>14
     DEF Next, Disconnect, HandleMessage, ServerReads, Agreed!Next

-----------------------------------------------------------------------------
(* How far the dialogue is.                                                *)

\* The server has neither counted the client in nor refused it.
Talking == open /\ stage \notin {"ready", "refused"}

\* A handshake that the server answers by counting the client in.
Good == shakes[1].status = "ok" /\ shakes[1].id

\* The packets still to be read until it has, if nothing more goes wrong.
Remaining ==
  CASE greetings # <<>>           -> 5
    [] responses # <<>>           -> 4
    [] shakes # <<>> /\ ~Good     -> 3
    [] invitations # <<>> /\ stage = "invited" -> 2
    [] shakes # <<>> /\ Good      -> 1
    [] OTHER -> 0

dialogue == <<greetings, shakes, responses, invitations, stage>>

\* The dialogue advances or rests, unless TeamSpeak refuses something.
Advances ==
  \/ Remaining' < Remaining
  \/ UNCHANGED dialogue
  \/ Refuses
  \/ ~open'

\* An invitation is taken from its queue by an answer only.
Answering ==
  UNCHANGED <<stage, invitations>> \/ shakes' # <<>> \/ ~open'

LEMMA RemainingIs ==
  ASSUME TypeOK, Core
  PROVE  /\ greetings # <<>> => Remaining = 5
         /\ responses # <<>> => Remaining = 4
         /\ shakes # <<>> => Remaining = IF Good THEN 1 ELSE 3
         /\ invitations # <<>> => Remaining = IF stage = "invited" THEN 2 ELSE 0
         /\ greetings = <<>> /\ responses = <<>> /\ shakes = <<>>
              /\ invitations = <<>> => Remaining = 0
         /\ stage \in {"ready", "refused"} => Remaining = 0
  BY TheOnlyPacket DEF Remaining, None

LEMMA AdvancePlugin ==
  ASSUME TypeOK, Core, Talking,
         HandleProtocolResponse \/ HandleRefusal \/ HandleInvitation
  PROVE  Advances /\ (invitations # <<>> => Answering)
<1> USE TheOnlyPacket, RemainingIs DEF Talking, None
<1>1. CASE HangUp
  BY <1>1 DEF HangUp, Advances, Answering
<1>2. CASE HandleProtocolResponse /\ ~HangUp
  <2>1. /\ responses # <<>> /\ responses' = Tail(responses)
        /\ SendHandshake("ok", known, handle)
        /\ UNCHANGED <<greetings, invitations>>
    BY <1>2 DEF HandleProtocolResponse
  <2>2. responses' = <<>>
    BY <2>1, Read DEF TypeOK, TypeNetwork
  <2>3. shakes' # <<>>
    <3>1. One(shakes')
      BY <2>1, Shaking DEF TypeOK, TypeParties, Statuses
    <3> QED
      BY <3>1, NoneIsNotOne
  <2>4. Remaining = 4 /\ Remaining' \in {1, 3}
    BY <2>1, <2>2, <2>3 DEF Remaining
  <2> QED
    BY <2>1, <2>4 DEF Advances
<1>3. CASE HandleRefusal
  BY <1>3 DEF HandleRefusal, Core, Invitation
<1>4. CASE HandleInvitation
  <2>1. Invited
    BY <1>4 DEF HandleInvitation, ServerNotFound, MoveRefused, JoinGame
  <2>2. /\ invitations # <<>> /\ invitations' = <<>>
        /\ UNCHANGED <<greetings, responses>>
    BY <2>1, Read DEF Invited, TypeOK, TypeNetwork
  <2>3. handle' \in BOOLEAN /\ known' \in BOOLEAN
    BY <1>4
       DEF HandleInvitation, ServerNotFound, MoveRefused, JoinGame, Answers,
           TypeOK, TypeParties
  <2>4. shakes' # <<>>
    <3>1. One(shakes')
      BY <1>4, <2>2, <2>3, Shaking
         DEF HandleInvitation, ServerNotFound, MoveRefused, JoinGame, TypeOK,
             TypeParties, Statuses
    <3> QED
      BY <3>1, NoneIsNotOne
  <2>5. ASSUME JoinGame, known' PROVE Remaining' < Remaining
    <3>1. Good'
      BY <2>2, <2>3, <2>5, Shaking DEF JoinGame, Good, Statuses
    <3>2. Remaining = 2 /\ Remaining' = 1
      BY <2>2, <2>4, <3>1 DEF Remaining
    <3> QED
      BY <3>2
  <2> QED
    BY <1>4, <2>4, <2>5
       DEF HandleInvitation, Refuses, Advances, Answering
<1> QED
  BY <1>1, <1>2, <1>3, <1>4

LEMMA AdvanceServer ==
  ASSUME TypeOK, Core, Talking, ServerReads
  PROVE  Advances /\ invitations = <<>>
<1> USE TheOnlyPacket, RemainingIs DEF Talking, None
<1>1. CASE ServerGreets
  <2>1. /\ greetings # <<>> /\ greetings' = <<>> /\ responses' # <<>>
        /\ UNCHANGED <<shakes, invitations>>
    BY <1>1, Read DEF ServerGreets, TypeOK, TypeNetwork
  <2>2. Remaining = 5 /\ Remaining' = 4
    BY <2>1 DEF Remaining
  <2> QED
    BY <2>1, <2>2 DEF Advances
<1>2. CASE ServerAnswers
  <2>1. /\ shakes # <<>> /\ shakes' = <<>> /\ Head(shakes) = shakes[1]
        /\ UNCHANGED <<greetings, responses>>
    BY <1>2, Read DEF ServerAnswers, TypeOK, TypeNetwork
  <2>2. CASE Good
    <3>1. Remaining = 1 /\ Remaining' = 0
      BY <1>2, <2>1, <2>2 DEF ServerAnswers, Good, Remaining
    <3> QED
      BY <2>1, <3>1 DEF Advances
  <2>3. CASE ~Good
    <3>1. stage' \in {"invited", "refused"} /\ invitations' # <<>>
      BY <1>2, <2>1, <2>3, Sent DEF ServerAnswers, Good, Invite
    <3>2. Remaining = 3 /\ Remaining' \in {0, 2}
      BY <2>1, <2>3, <3>1 DEF Remaining
    <3> QED
      BY <2>1, <3>2 DEF Advances
  <2> QED
    BY <2>2, <2>3
<1> QED
  BY <1>1, <1>2 DEF ServerReads

LEMMA StepAdvances ==
  ASSUME Inv, [Next]_vars, Talking
  PROVE  Advances /\ (invitations # <<>> => Answering)
<1> USE DEF upward, downward, network, remote
<1>0. TypeOK /\ Core
  BY DEF Inv
<1>1. ASSUME UNCHANGED dialogue
      PROVE  Advances /\ Answering
  BY <1>1 DEF dialogue, Advances, Answering
<1>2. CASE Connect \/ ServerInvitesAgain
  BY <1>2 DEF Connect, ServerInvitesAgain, Talking
<1>3. CASE Disconnect
  BY <1>3 DEF Disconnect, HangUp, Advances, Answering
<1>4. CASE HandleUpdate
  BY <1>1, <1>4 DEF HandleUpdate, dialogue
<1>5. ASSUME NEW o \in Others, OtherMoves(o)
      PROVE  Advances /\ Answering
  BY <1>1, <1>5 DEF OtherMoves, dialogue
<1>6. ASSUME NEW o \in Others, NEW mute \in BOOLEAN, ServerSpeaks(o, mute)
      PROVE  Advances /\ Answering
  BY <1>1, <1>6 DEF ServerSpeaks, dialogue
<1>7. CASE UNCHANGED vars
  BY <1>1, <1>7 DEF vars, dialogue
<1> QED
  BY <1>0, <1>2, <1>3, <1>4, <1>5, <1>6, <1>7, AdvancePlugin, AdvanceServer
     DEF Next, HandleMessage

-----------------------------------------------------------------------------
(* The theorems.                                                           *)

LEMMA InitInv == Init => Inv
<1> SUFFICES ASSUME Init PROVE Inv
  OBVIOUS
<1>1. TypeOK
  BY EmptySeq, ExchangeAssumption DEF Init, TypeOK, TypeNetwork, TypeParties
<1>2. Core
  BY NoneIsNotOne
     DEF Init, Core, Dialogue, Greeting, Response, Invitation, Shake, Parties,
         None
<1> QED
  BY <1>1, <1>2 DEF Init, Inv, LastWord

LEMMA Invariance == Spec => []Inv
<1>1. Inv /\ [Next]_vars => Inv'
  BY TypeStep, CoreStep, LastWordStep DEF Inv
<1> QED
  BY InitInv, <1>1, PTL DEF Spec

\* Every variable of the dialogue has its type, however long the queues grow.
THEOREM ExchangeTypes == Spec => []TypeOK
<1>1. Inv => TypeOK
  BY DEF Inv
<1> QED
  BY <1>1, Invariance, PTL

\* Nobody gets into the game with versions that do not fit.
THEOREM VersionsFit == Spec => []VersionsAgree
<1>1. Inv => VersionsAgree
  BY DEF Inv, Core, Parties, Compatible, VersionsAgree, IsIngame, TypeOK,
         TypeParties
<1> QED
  BY <1>1, Invariance, PTL

\* A client that the server counts in is in the game.
THEOREM ReadyMeansIngame == Spec => []ReadyIsIngame
<1>1. Inv => ReadyIsIngame
  BY DEF Inv, Core, Parties, Dialogue, ReadyIsIngame, IsIngame
<1> QED
  BY <1>1, Invariance, PTL

\* The server has the last word on who is muted, with any number of clients and
\* of orders under way.
THEOREM ServerHasLastWord == Spec => []LastWord
<1>1. Inv => LastWord
  BY DEF Inv
<1> QED
  BY <1>1, Invariance, PTL

\* The dialogue keeps to Agreement, for any versions and whatever overtakes
\* what: the plugin enters only a game that fits, the server counts in only who
\* is in the game and loses him only by calling him again or by the end of the
\* connection, for both sides at once.
THEOREM ImplementsAgreement == Spec => IsAgreement
  BY StartAgrees, StepAgrees, Invariance, PTL
     DEF Spec, IsAgreement, Agreed!Spec

\* Until the server has counted the client in or refused it, there is always a
\* packet for one of the two to read: neither ever waits for the other while
\* the other waits, in any order of the channels.
THEOREM NobodyWaitsForEver == Spec => [](Talking => Remaining \in 1..5)
<1>1. Inv => (Talking => Remaining \in 1..5)
  BY RemainingIs DEF Inv, Core, Dialogue, One, None, Talking, TypeOK, TypeParties
<1> QED
  BY <1>1, Invariance, PTL

\* Every step of the dialogue advances it to one of its ends, five packets away
\* at most; what sends it back is a refusal of TeamSpeak's and nothing else.
\* Mute orders, moves and packets of other channels leave it where it is.
THEOREM DialogueAdvances == Spec => [][Talking => Advances]_vars
<1>1. Inv /\ [Next]_vars => [Talking => Advances]_vars
  BY StepAdvances
<1> QED
  BY <1>1, Invariance, PTL DEF Spec

\* Whatever TeamSpeak refuses, the handler that reads an invitation answers it
\* in the end: none is dropped by one of its early returns.
THEOREM InvitationsAreKept ==
  Spec => [][Talking /\ invitations # <<>> => Answering]_vars
<1>1. Inv /\ [Next]_vars
      => [Talking /\ invitations # <<>> => Answering]_vars
  BY StepAdvances
<1> QED
  BY <1>1, Invariance, PTL DEF Spec
=============================================================================
