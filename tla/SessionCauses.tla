--------------------------- MODULE SessionCauses ---------------------------
(***************************************************************************)
(* Four of Session's properties are refuted by a run.  Each theorem of     *)
(* this module says what it takes: as long as the steps it names do not    *)
(* happen, the property holds, for any clients, channels and nicknames.    *)
(***************************************************************************)
EXTENDS SessionProofs

\* The handshake is at the muting of the clients in the channel.
Each ==
  \/ pc["update"] = "each"
  \/ pc["update"] \in CallLabels /\ call["update"].ret = "each"

\* The handshake has found the server and not left the handler ...
Shaking ==
  \/ pc["update"] \in {"save", "output", "hush", "move", "subscribe", "list",
                       "unhush", "commit", "last"}
  \/ Each

\* ... has muted the headphones, if it does that, and not unmuted them; ...
Hushing == pc["update"] \in {"move", "subscribe", "list", "unhush"} \/ Each

\* ... or has listed the clients in the channel.
Listed == pc["update"] \in {"unhush", "commit", "last"} \/ Each

\* Throughout, the server is there, and so is what calls mute.
ShakeInv ==
  /\ Shaking => handle
  /\ Each /\ pc["update"] \in CallLabels => call["update"].mute

\* A step of the update thread outside of the handshake.
Away ==
  /\ ~Shaking /\ ~Shaking'
  /\ pc["update"] # "hush" /\ pc'["update"] # "hush"
  /\ UNCHANGED sound

LEMMA AwaySteps ==
  ASSUME TypeData, RestoreInv,
         \/ \E label \in {"idle", "restore"} : Connect(label)
         \/ Lose \/ BeginHandshake \/ HandleUnmutes \/ Restore
         \/ \E m \in SUBSET Others, u \in SUBSET Others : HandleUpdate(m, u)
         \/ \E s \in SUBSET Others : HandlePlaces(s)
         \/ Subscribed /\ pc["update"] = "await"
         \/ Mute("update") /\ ~Each
  PROVE  Away
<1> USE DEF TypeData, ThreadIds, Goto, sound, Shaking, Each, CallLabels, Away,
            Calls
<1>1. ASSUME NEW label \in {"idle", "restore"}, Connect(label)
      PROVE  Away
  BY <1>1 DEF Connect
<1>2. CASE Lose \/ BeginHandshake
  BY <1>2 DEF Lose, BeginHandshake
<1>3. CASE HandleUnmutes
  BY <1>3 DEF HandleUnmutes, MuteClients
<1>4. ASSUME NEW m \in SUBSET Others, NEW u \in SUBSET Others,
             HandleUpdate(m, u)
      PROVE  Away
  BY <1>4 DEF HandleUpdate, MuteClients
<1>5. ASSUME NEW s \in SUBSET Others, HandlePlaces(s)
      PROVE  Away
  BY <1>5 DEF HandlePlaces
<1>6. CASE Subscribed /\ pc["update"] = "await"
  BY <1>6 DEF Subscribed
<1>7. CASE Mute("update") /\ ~Each
  <2>1. pc["update"] \in CallLabels /\ call["update"].ret \in {"idle", "unmutes", "place"}
    BY <1>7 DEF Mute, Request, Record, RestoreInv
  <2>2. \/ pc' = [pc EXCEPT !["update"] = call["update"].ret]
        \/ pc' = [pc EXCEPT !["update"] = "record"] /\ UNCHANGED call
    BY <1>7 DEF Mute, Request, Record, Return
  <2>3. UNCHANGED sound
    BY <1>7 DEF Mute, Request, Record
  <2> QED
    BY <2>1, <2>2, <2>3
<1>8. CASE CheckRestore \/ MoveBack \/ Relist \/ ListBack
  BY <1>8 DEF CheckRestore, MoveBack, RequestMove, Relist, ListBack
<1>9. CASE ResetPositions \/ UnmuteAll \/ ClearCache \/ ResetNickname
  BY <1>9 DEF ResetPositions, UnmuteAll, ClearCache, ResetNickname
<1> QED
  BY <1>1, <1>2, <1>3, <1>4, <1>5, <1>6, <1>7, <1>8, <1>9 DEF Restore

\* The steps that are neither: those of the handshake.
LEMMA Kinds ==
  ASSUME TypeData, RestoreInv, [Next]_vars
  PROVE  \/ Beside
         \/ Away
         \/ Handshake
         \/ Subscribed /\ pc["update"] = "subscribe"
         \/ Mute("update") /\ Each
BY NextCases, BesideSteps, AwaySteps DEF ThreadIds, Subscribed

\* The muting of the clients, one by one, ends where it began.
LEMMA EachStays ==
  ASSUME TypeData, Each, Mute("update")
  PROVE  Each' /\ UNCHANGED <<handle, sound, locals>>
<1> USE DEF TypeData, ThreadIds, Goto, Each, CallLabels
<1>1. pc["update"] \in CallLabels /\ call["update"].ret = "each"
  BY DEF Mute, Request, Record
<1>2. \/ pc' = [pc EXCEPT !["update"] = call["update"].ret]
      \/ pc' = [pc EXCEPT !["update"] = "record"] /\ UNCHANGED call
  BY DEF Mute, Request, Record, Return
<1>3. UNCHANGED <<handle, sound, locals>>
  BY DEF Mute, Request, Record
<1> QED
  BY <1>1, <1>2, <1>3

LEMMA ShakeStep ==
  ASSUME TypeData, RestoreInv, ShakeInv, [Next]_vars
  PROVE  ShakeInv'
<1> USE DEF TypeData, ThreadIds, Goto, Shaking, Each, CallLabels, ShakeInv, Calls
<1>1. CASE Beside \/ Away
  BY <1>1 DEF Beside, Away
<1>2. CASE FindServer \/ SaveChannel \/ CheckOutput \/ Hush
  BY <1>2 DEF FindServer, SaveChannel, CheckOutput, Hush
<1>3. CASE MoveToGame
  BY <1>3 DEF MoveToGame, RequestMove
<1>4. CASE ListClients \/ Unhush \/ CommitId \/ CommitChannel
  BY <1>4 DEF ListClients, Unhush, CommitId, CommitChannel
<1>5. CASE MuteEach
  BY <1>5 DEF MuteEach, MuteClients
<1>6. CASE Subscribed /\ pc["update"] = "subscribe"
  BY <1>6 DEF Subscribed
<1>7. CASE Mute("update") /\ Each
  BY <1>7, EachStays DEF Mute, Request, Record, Return
<1> QED
  BY <1>1, <1>2, <1>3, <1>4, <1>5, <1>6, <1>7, Kinds DEF Handshake

-----------------------------------------------------------------------------
(* The headphones.                                                         *)

\* The user leaves alone the headphones that the plugin is about to unmute.
HandsOff == [][UserMutes => ~(temp /\ (pc["update"] = "hush" \/ Hushing))]_vars

HushInv ==
  /\ pc["update"] = "hush" \/ (Hushing /\ temp) => ~wish
  /\ Hushing /\ temp => out
  /\ ~(Hushing /\ temp) => out = wish
  /\ pc["update"] = "hush" => temp

LEMMA HushStep ==
  ASSUME {"move", "query"} \cap MayFail = {},
         TypeOK, RestoreInv, ShakeInv, HushInv, [Next]_vars,
         UserMutes => ~(temp /\ (pc["update"] = "hush" \/ Hushing))
  PROVE  HushInv'
<1> USE DEF TypeOK, TypeFlags, TypeData, ThreadIds, Goto, sound, locals, Each,
            CallLabels, Hushing, HushInv
<1>1. CASE Beside
  <2>1. CASE UNCHANGED sound
    BY <1>1, <2>1 DEF Beside
  <2>2. CASE UserMutes
    BY <1>1, <2>2 DEF Beside, UserMutes
  <2> QED
    BY <1>1, <2>1, <2>2 DEF Beside
<1>2. CASE Away
  BY <1>2 DEF Away, Shaking
<1>3. CASE FindServer \/ SaveChannel
  BY <1>3 DEF FindServer, SaveChannel
<1>4. CASE CheckOutput
  <2>1. temp' \in {~out}
    BY <1>4 DEF CheckOutput, Fails, ShakeInv, Shaking
  <2>2. temp' = ~out
    BY <2>1, Zenon
  <2>3. out = wish /\ UNCHANGED <<sound, call>>
    BY <1>4 DEF CheckOutput
  <2>4. CASE out
    <3>1. pc' = [pc EXCEPT !["update"] = "move"] /\ ~temp'
      BY <1>4, <2>2, <2>4 DEF CheckOutput
    <3> QED
      BY <2>3, <3>1
  <2>5. CASE ~out
    <3>1. pc' = [pc EXCEPT !["update"] = "hush"] /\ temp'
      BY <1>4, <2>2, <2>5 DEF CheckOutput
    <3>2. wish' = FALSE /\ out' = wish'
      BY <2>3, <2>5
    <3> QED
      BY <3>1, <3>2
  <2> QED
    BY <2>4, <2>5
<1>5. CASE Hush
  BY <1>5 DEF Hush
<1>6. CASE MoveToGame
  BY <1>6 DEF MoveToGame, RequestMove, Fails, ShakeInv, Shaking
<1>7. CASE ListClients
  BY <1>7 DEF ListClients
<1>8. CASE MuteEach
  BY <1>8 DEF MuteEach, MuteClients
<1>9. CASE Unhush
  BY <1>9 DEF Unhush
<1>10. CASE CommitId
  BY <1>10 DEF CommitId
<1>11. CASE CommitChannel
  BY <1>11 DEF CommitChannel
<1>12. CASE Subscribed /\ pc["update"] = "subscribe"
  BY <1>12 DEF Subscribed
<1>13. CASE Mute("update") /\ Each
  BY <1>13, EachStays
<1> QED
  BY <1>1, <1>2, <1>3, <1>4, <1>5, <1>6, <1>7, <1>8, <1>9, <1>10, <1>11,
     <1>12, <1>13, Kinds
     DEF Handshake

\* Run session_hush leaves the headphones muted after a refused move.  That,
\* a refused query, and the user's own hand on them during the handshake are
\* the only ways to it: else they are as the user wants them whenever the
\* plugin is not joining (handleHandshakeResponse).
THEOREM HushedUnlessRefused ==
  ASSUME {"move", "query"} \cap MayFail = {}
  PROVE  Spec /\ HandsOff => []HushedWhileJoining
<1>1. Init => ShakeInv /\ HushInv
  BY DEF Init, ShakeInv, Shaking, Each, CallLabels, HushInv, Hushing, ThreadIds
<1>2. TypeOK /\ RestoreInv /\ ShakeInv /\ [Next]_vars
      => TypeOK' /\ RestoreInv' /\ ShakeInv'
  BY TypeStep, RestoreStep, ShakeStep DEF TypeOK
<1>3. TypeOK /\ RestoreInv /\ ShakeInv /\ HushInv /\ [Next]_vars
        /\ [UserMutes => ~(temp /\ (pc["update"] = "hush" \/ Hushing))]_vars
      => HushInv'
  <2> SUFFICES ASSUME TypeOK, RestoreInv, ShakeInv, HushInv, [Next]_vars,
                      UNCHANGED vars
               PROVE  UserMutes => ~(temp /\ (pc["update"] = "hush" \/ Hushing))
    BY HushStep
  <2> QED
    BY DEF UserMutes, vars, system, sound, TypeOK, TypeFlags
<1>4. HushInv => HushedWhileJoining
  BY DEF HushInv, HushedWhileJoining, Hushing, Each, CallLabels
<1> QED
  BY <1>1, <1>2, <1>3, <1>4, TypeInit, MuteInit, PTL DEF Spec, HandsOff

-----------------------------------------------------------------------------
(* The clients in the channel.                                             *)

Dwellers == {o \in Others : where[o] = Game}

\* Nobody enters the channel, and no earlier move is still being reported,
\* once the handshake has listed who is there.
NobodyEnters ==
  [][ /\ ListClients => pc["plugin"] = "idle"
      /\ \A o \in Others : OtherMoves(o, Game) => ~Listed ]_vars

\* Who is listed has been muted or is on the way to be, and a move that is
\* being reported takes nobody off the channel's list.
ListedInv ==
  Listed =>
    /\ \A o \in Dwellers :
         \/ o \in muted
         \/ Each /\ o \in todo
         \/ Each /\ pc["update"] = "request" /\ o \in call["update"].who
    /\ pc["plugin"] \in {"event", "moved"} => where[event.who] # Game
    /\ pc["plugin"] \in CallLabels /\ ~call["plugin"].mute =>
         call["plugin"].who \cap Dwellers = {}

LEMMA ListedWorld ==
  ASSUME TypeData, ListedInv, Beside,
         \A o \in Others : OtherMoves(o, Game) => ~Listed,
         \/ Abort \/ MoveHappens \/ UserMutes \/ UNCHANGED vars
         \/ \E s \in SUBSET Others : HandlePosition(s)
         \/ \E n \in Names : SetNickname(n)
         \/ \E o \in Others, c \in Channels : OtherMoves(o, c)
         \/ \E c \in Channels : UserMoves(c)
  PROVE  ListedInv'
<1> USE DEF TypeData, ThreadIds, Goto, Each, CallLabels, Listed, Dwellers, Beside,
            ListedInv, mutes, places
<1>1. ASSUME UNCHANGED <<muted, where, pc, call, event>>
      PROVE  ListedInv'
  BY <1>1
<1>2. Abort \/ MoveHappens \/ UserMutes \/ UNCHANGED vars
        => UNCHANGED <<muted, where, pc, call, event>>
  BY DEF Abort, MoveHappens, UserMutes, vars, system
<1>3. \A s : HandlePosition(s) => UNCHANGED <<muted, where, pc, call, event>>
  BY DEF HandlePosition
<1>4. \A n : SetNickname(n) => UNCHANGED <<muted, where, pc, call, event>>
  BY DEF SetNickname
<1>5. \A c : UserMoves(c) => UNCHANGED <<muted, where, pc, call, event>>
  BY DEF UserMoves
<1>6. ASSUME NEW o \in Others, NEW c \in Channels, OtherMoves(o, c)
      PROVE  ListedInv'
  <2> SUFFICES ASSUME Listed PROVE ListedInv'
    OBVIOUS
  <2>1. c # Game
    BY <1>6
  <2>2. /\ where' = [where EXCEPT ![o] = c] /\ event'.who = o
        /\ pc' = [pc EXCEPT !["plugin"] = "event"]
        /\ UNCHANGED <<muted, call, todo>>
    BY <1>6 DEF OtherMoves, locals
  <2>3. Dwellers' \subseteq Dwellers
    BY <2>1, <2>2
  <2> QED
    BY <2>1, <2>2, <2>3
<1> QED
  BY <1>1, <1>2, <1>3, <1>4, <1>5, <1>6

LEMMA ListedPlugin ==
  ASSUME TypeData, ListedInv, Beside,
         CheckEvent \/ MuteMoved \/ Mute("plugin")
  PROVE  ListedInv'
<1> USE DEF TypeData, ThreadIds, Goto, Each, CallLabels, Listed, Dwellers, Beside,
            ListedInv, mutes, places
<1>1. CASE CheckEvent
  BY <1>1 DEF CheckEvent
<1>2. CASE MuteMoved
  <2>1. /\ pc["plugin"] = "moved" /\ UNCHANGED <<muted, where>>
    BY <1>2 DEF MuteMoved
  <2>2. ASSUME NEW b \in BOOLEAN, MuteClients("plugin", {event.who}, b, "idle")
        PROVE  ListedInv'
    <3>1. /\ pc' = [pc EXCEPT !["plugin"] = "request"]
          /\ call'["plugin"].who = {event.who}
      BY <2>2 DEF MuteClients
    <3> QED
      BY <2>1, <3>1
  <2>3. CASE Goto("plugin", "idle") /\ UNCHANGED call
    BY <2>1, <2>3
  <2> QED
    BY <1>2, <2>2, <2>3 DEF MuteMoved
<1>3. CASE Mute("plugin")
  <2>1. UNCHANGED where /\ pc["plugin"] \in CallLabels
    BY <1>3 DEF Mute, Request, Record
  <2>2. CASE Return("plugin") /\ UNCHANGED muted
    BY <2>1, <2>2 DEF Return
  <2>3. CASE Goto("plugin", "record") /\ UNCHANGED call
    BY <1>3, <2>1, <2>3 DEF Mute, Request, Record
  <2> QED
    BY <1>3, <2>2, <2>3 DEF Mute, Request, Record
<1> QED
  BY <1>1, <1>2, <1>3

LEMMA ListedHandshake ==
  ASSUME {"list", "mute"} \cap MayFail = {},
         TypeData, ShakeInv, ListedInv,
         ListClients => pc["plugin"] = "idle",
         \/ Handshake
         \/ Subscribed /\ pc["update"] = "subscribe"
         \/ Mute("update") /\ Each
  PROVE  ListedInv'
<1> USE DEF TypeData, ThreadIds, Goto, Each, CallLabels, Listed, Dwellers,
            ListedInv, mutes, places, locals
<1>1. CASE FindServer \/ SaveChannel \/ CheckOutput \/ Hush
  BY <1>1 DEF FindServer, SaveChannel, CheckOutput, Hush
<1>2. CASE MoveToGame
  BY <1>2 DEF MoveToGame, RequestMove
<1>3. CASE ListClients
  <2>1. todo' = Dwellers
    BY <1>3 DEF ListClients, Fails, ShakeInv, Shaking
  <2> QED
    BY <1>3, <2>1 DEF ListClients
<1>4. CASE MuteEach
  <2>1. CASE todo = {}
    BY <1>4, <2>1 DEF MuteEach
  <2>2. CASE todo # {}
    <3>1. PICK o \in todo : /\ MuteClients("update", {o}, TRUE, "each")
                            /\ todo' = todo \ {o}
      BY <1>4, <2>2 DEF MuteEach
    <3>2. /\ pc' = [pc EXCEPT !["update"] = "request"]
          /\ call' = [call EXCEPT !["update"] =
                        [who |-> {o}, mute |-> TRUE, ret |-> "each"]]
      BY <3>1 DEF MuteClients
    <3>3. call'["update"].who = {o} /\ call'["update"].ret = "each"
          /\ call'["plugin"] = call["plugin"] /\ pc'["plugin"] = pc["plugin"]
      BY <3>2
    <3>4. UNCHANGED <<muted, where, event>> /\ pc["update"] = "each"
      BY <1>4 DEF MuteEach
    <3> QED
      BY <3>1, <3>2, <3>3, <3>4
  <2> QED
    BY <2>1, <2>2
<1>5. CASE Unhush \/ CommitId
  BY <1>5 DEF Unhush, CommitId
<1>6. CASE CommitChannel
  BY <1>6 DEF CommitChannel
<1>7. CASE Subscribed /\ pc["update"] = "subscribe"
  BY <1>7 DEF Subscribed
<1>8. CASE Mute("update") /\ Each
  <2>1. handle /\ call["update"].mute
    BY <1>8 DEF ShakeInv, Shaking, Mute, Request, Record
  <2>2. Each' /\ UNCHANGED <<where, todo, event>>
    BY <1>8, EachStays DEF Mute, Request, Record
  <2>3. pc'["plugin"] = pc["plugin"] /\ call'["plugin"] = call["plugin"]
    BY <1>8 DEF Mute, Request, Record, Return
  <2>4. CASE Request("update")
    BY <2>1, <2>2, <2>3, <2>4 DEF Request, Fails
  <2>5. CASE Record("update")
    <3>1. muted' = muted /\ pc["update"] = "record"
      BY <2>5 DEF Record
    <3>2. \A o \in Dwellers : o \in muted \/ o \in todo
      BY <1>8, <3>1
    <3> QED
      BY <1>8, <2>2, <2>3, <3>1, <3>2
  <2> QED
    BY <1>8, <2>4, <2>5 DEF Mute
<1> QED
  BY <1>1, <1>2, <1>3, <1>4, <1>5, <1>6, <1>7, <1>8 DEF Handshake

LEMMA ListedStep ==
  ASSUME {"list", "mute"} \cap MayFail = {},
         TypeData, RestoreInv, ShakeInv, ListedInv, [Next]_vars,
         ListClients => pc["plugin"] = "idle",
         \A o \in Others : OtherMoves(o, Game) => ~Listed
  PROVE  ListedInv'
<1>1. CASE Away
  BY <1>1 DEF Away, Shaking, Listed, ListedInv
<1> QED
  BY <1>1, NextCases, BesideSteps, AwaySteps, ListedWorld, ListedPlugin,
     ListedHandshake DEF ThreadIds, Subscribed

\* Run session_default has a client in the channel that is not muted after the
\* handshake.  A refusal of TeamSpeak's apart, it is one that came in while the
\* handshake was muting the others, or whose earlier move was still being
\* reported: else everybody there is muted.
THEOREM DefaultUnlessEntered ==
  ASSUME {"list", "mute"} \cap MayFail = {}
  PROVE  Spec /\ NobodyEnters => []MutedByDefault
<1> DEFINE Nobody == /\ ListClients => pc["plugin"] = "idle"
                     /\ \A o \in Others : OtherMoves(o, Game) => ~Listed
<1>1. Init => ShakeInv /\ ListedInv
  BY DEF Init, ShakeInv, Shaking, ListedInv, Listed, Each, CallLabels, ThreadIds
<1>2. TypeOK /\ RestoreInv /\ ShakeInv /\ [Next]_vars
      => TypeOK' /\ RestoreInv' /\ ShakeInv'
  BY TypeStep, RestoreStep, ShakeStep DEF TypeOK
<1>3. TypeOK /\ RestoreInv /\ ShakeInv /\ ListedInv /\ [Next]_vars
        /\ [Nobody]_vars
      => ListedInv'
  <2> SUFFICES ASSUME TypeOK, ListedInv, UNCHANGED vars
               PROVE  ListedInv'
    BY ListedStep DEF TypeOK
  <2> QED
    BY DEF vars, system, mutes, places, locals, ListedInv, Listed, Each,
           Dwellers
<1>4. ListedInv => MutedByDefault
  BY DEF ListedInv, MutedByDefault, Listed, Each, CallLabels, Dwellers
<1> QED
  BY <1>1, <1>2, <1>3, <1>4, TypeInit, MuteInit, PTL DEF Spec, NobodyEnters

-----------------------------------------------------------------------------
(* The channel to move back to.                                            *)

\* close() does not give up a channel that it remembers.
NoneForgotten ==
  [][CheckRestore /\ pc'["update"] = "closed" => lastChannel = Null]_vars

\* Then a channel is only remembered during a session.
BackInv == lastChannel # Null \/ pc["update"] = "last" => joined

\* Four steps apart, no step touches what the invariant is about.
LEMMA BackKinds ==
  ASSUME TypeData, RestoreInv, [Next]_vars
  PROVE  \/ CheckRestore \/ MoveBack \/ CommitId \/ CommitChannel
         \/ /\ UNCHANGED <<lastChannel, joined>>
            /\ pc'["update"] = "last" => pc["update"] = "last"
<1> USE DEF TypeData, ThreadIds, Goto, room
<1>1. CASE Beside
  BY <1>1 DEF Beside
<1>2. ASSUME NEW label \in {"idle", "restore"}, Connect(label)
      PROVE  UNCHANGED <<lastChannel, joined>> /\ pc'["update"] # "last"
  BY <1>2 DEF Connect
<1>3. CASE Lose \/ BeginHandshake \/ Subscribed
  BY <1>3 DEF Lose, BeginHandshake, Subscribed
<1>4. CASE HandleUnmutes
  BY <1>4 DEF HandleUnmutes, MuteClients
<1>5. ASSUME NEW m \in SUBSET Others, NEW u \in SUBSET Others,
             HandleUpdate(m, u)
      PROVE  UNCHANGED <<lastChannel, joined>> /\ pc'["update"] # "last"
  BY <1>5 DEF HandleUpdate, MuteClients
<1>6. ASSUME NEW s \in SUBSET Others, HandlePlaces(s)
      PROVE  UNCHANGED <<lastChannel, joined>> /\ pc'["update"] # "last"
  BY <1>6 DEF HandlePlaces
<1>7. CASE Mute("update")
  <2>1. UNCHANGED <<lastChannel, joined>>
    BY <1>7 DEF Mute, Request, Record
  <2>2. pc'["update"] \in {"record", call["update"].ret}
    BY <1>7 DEF Mute, Request, Record, Return
  <2> QED
    BY <2>1, <2>2 DEF RestoreInv
<1>8. CASE Relist \/ ListBack \/ ResetPositions
  BY <1>8 DEF Relist, ListBack, ResetPositions
<1>9. CASE UnmuteAll \/ ClearCache \/ ResetNickname
  BY <1>9 DEF UnmuteAll, ClearCache, ResetNickname
<1>10. CASE FindServer \/ SaveChannel \/ CheckOutput \/ Hush
  BY <1>10 DEF FindServer, SaveChannel, CheckOutput, Hush
<1>11. CASE MoveToGame \/ ListClients \/ Unhush
  BY <1>11 DEF MoveToGame, RequestMove, ListClients, Unhush
<1>12. CASE MuteEach
  BY <1>12 DEF MuteEach, MuteClients
<1> QED
  BY <1>1, <1>2, <1>3, <1>4, <1>5, <1>6, <1>7, <1>8, <1>9, <1>10, <1>11,
     <1>12, NextCases, BesideSteps DEF ThreadIds, Handshake, Restore

LEMMA BackStep ==
  ASSUME TypeData, RestoreInv, BackInv, [Next]_vars,
         CheckRestore /\ pc'["update"] = "closed" => lastChannel = Null
  PROVE  BackInv'
<1> USE DEF TypeData, ThreadIds, Goto, BackInv
<1>1. CASE CheckRestore
  BY <1>1 DEF CheckRestore
<1>2. CASE MoveBack
  BY <1>2 DEF MoveBack, RequestMove
<1>3. CASE CommitId \/ CommitChannel
  BY <1>3 DEF CommitId, CommitChannel
<1> QED
  BY <1>1, <1>2, <1>3, BackKinds

\* Run session_moveback has close() move the user, after a connection that
\* never became a session, to a channel remembered from an earlier one.  The
\* only way to it is an earlier close() that remembered a channel and did not
\* move the user there.
THEOREM MovedBackUnlessForgotten ==
  Spec /\ NoneForgotten => MovedBackFromSession
<1>1. Init => BackInv
  BY DEF Init, BackInv, ThreadIds
<1>2. TypeOK /\ RestoreInv /\ [Next]_vars => TypeOK' /\ RestoreInv'
  BY TypeStep, RestoreStep DEF TypeOK
<1>3. TypeOK /\ RestoreInv /\ BackInv /\ [Next]_vars
        /\ [CheckRestore /\ pc'["update"] = "closed" => lastChannel = Null]_vars
      => BackInv'
  <2> SUFFICES ASSUME TypeOK, BackInv, UNCHANGED vars
               PROVE  BackInv'
    BY BackStep DEF TypeOK
  <2> QED
    BY DEF vars, system, room, BackInv
<1>4. ASSUME TypeOK, BackInv, CheckRestore, pc'["update"] = "moveback"
      PROVE  joined
  BY <1>4 DEF CheckRestore, Goto, BackInv, TypeOK, TypeData, ThreadIds
<1>5. TypeOK /\ BackInv
        => [CheckRestore /\ pc'["update"] = "moveback" /\ me # Game
              /\ moving = Null => joined]_vars
  BY <1>4
<1> QED
  BY <1>1, <1>2, <1>3, <1>5, TypeInit, MuteInit, PTL
     DEF Spec, NoneForgotten, MovedBackFromSession

-----------------------------------------------------------------------------
(* The 3D positions.                                                       *)

\* close() asks for the user's channel, and is told it, before the move back
\* that it has requested happens.
StillThere == [][Relist => me = Game /\ saved' = me]_vars

PlaceInv == pc["update"] \in {"await", "listback"} => saved = Game

LEMMA PlaceStep ==
  ASSUME TypeData, RestoreInv, PlaceInv, [Next]_vars,
         Relist => me = Game /\ saved' = me
  PROVE  PlaceInv'
<1> USE DEF TypeData, ThreadIds, Goto, locals, PlaceInv
<1>1. CASE Beside
  BY <1>1 DEF Beside
<1>2. ASSUME NEW label \in {"idle", "restore"}, Connect(label)
      PROVE  PlaceInv'
  BY <1>2 DEF Connect
<1>3. CASE Lose \/ BeginHandshake \/ Subscribed
  BY <1>3 DEF Lose, BeginHandshake, Subscribed
<1>4. CASE HandleUnmutes
  BY <1>4 DEF HandleUnmutes, MuteClients
<1>5. ASSUME NEW m \in SUBSET Others, NEW u \in SUBSET Others,
             HandleUpdate(m, u)
      PROVE  PlaceInv'
  BY <1>5 DEF HandleUpdate, MuteClients
<1>6. ASSUME NEW s \in SUBSET Others, HandlePlaces(s)
      PROVE  PlaceInv'
  BY <1>6 DEF HandlePlaces
<1>7. CASE Mute("update")
  <2>1. pc'["update"] \in {"record", call["update"].ret}
    BY <1>7 DEF Mute, Request, Record, Return
  <2> QED
    BY <2>1 DEF RestoreInv
<1>8. CASE Relist
  BY <1>8 DEF Relist
<1>9. CASE CheckRestore \/ MoveBack \/ ListBack \/ ResetPositions
  BY <1>9 DEF CheckRestore, MoveBack, RequestMove, ListBack, ResetPositions
<1>10. CASE UnmuteAll \/ ClearCache \/ ResetNickname
  BY <1>10 DEF UnmuteAll, ClearCache, ResetNickname
<1>11. CASE FindServer \/ SaveChannel \/ CheckOutput \/ Hush
  BY <1>11 DEF FindServer, SaveChannel, CheckOutput, Hush
<1>12. CASE MoveToGame \/ ListClients \/ Unhush \/ CommitId \/ CommitChannel
  BY <1>12 DEF MoveToGame, RequestMove, ListClients, Unhush, CommitId,
               CommitChannel
<1>13. CASE MuteEach
  BY <1>13 DEF MuteEach, MuteClients
<1> QED
  BY <1>1, <1>2, <1>3, <1>4, <1>5, <1>6, <1>7, <1>8, <1>9, <1>10, <1>11,
     <1>12, <1>13, NextCases, BesideSteps DEF ThreadIds, Handshake, Restore

\* Run session_positions has close() leave a client of the game channel where
\* the game server placed it.  The cause is that close() lists the channel the
\* user is in after it has asked for the move back: were the user still in the
\* game channel, every client there would be put back to the origin, unless
\* TeamSpeak refuses to list them.
THEOREM ResetUnlessMoved ==
  ASSUME "list" \notin MayFail
  PROVE  Spec /\ StillThere => PositionsAreReset
<1>1. Init => PlaceInv
  BY DEF Init, PlaceInv, ThreadIds
<1>2. TypeOK /\ RestoreInv /\ [Next]_vars => TypeOK' /\ RestoreInv'
  BY TypeStep, RestoreStep DEF TypeOK
<1>3. TypeOK /\ RestoreInv /\ PlaceInv /\ [Next]_vars
        /\ [Relist => me = Game /\ saved' = me]_vars
      => PlaceInv'
  <2> SUFFICES ASSUME TypeOK, PlaceInv, UNCHANGED vars
               PROVE  PlaceInv'
    BY PlaceStep DEF TypeOK
  <2> QED
    BY DEF vars, system, locals, PlaceInv
<1>4. ASSUME TypeOK, RestoreInv, PlaceInv, ListBack
      PROVE  {o \in placed : where[o] = Game} \subseteq todo'
  <2>1. saved = Game /\ todo' = {o \in Others : where[o] = saved}
    BY <1>4 DEF ListBack, PlaceInv, Fails, RestoreInv, RestoreLabels
  <2> QED
    BY <1>4, <2>1 DEF TypeOK, TypeData
<1>5. TypeOK /\ RestoreInv /\ PlaceInv
        => [ListBack => {o \in placed : where[o] = Game} \subseteq todo']_vars
  BY <1>4
<1> QED
  BY <1>1, <1>2, <1>3, <1>5, TypeInit, MuteInit, PTL
     DEF Spec, StillThere, PositionsAreReset
=============================================================================
