--------------------------- MODULE SessionProofs ---------------------------
(***************************************************************************)
(* What holds of Session for any clients, channels and nicknames.          *)
(***************************************************************************)
EXTENDS Session, TLAPS

\* The steps that deal with nobody's nickname, and those that do.
LEMMA NextCases ==
  ASSUME [Next]_vars
  PROVE  \/ \E label \in {"idle", "restore"} : Connect(label)
         \/ Abort \/ Lose \/ BeginHandshake \/ Subscribed
         \/ \E m \in SUBSET Others, u \in SUBSET Others : HandleUpdate(m, u)
         \/ \E s \in SUBSET Others : HandlePosition(s) \/ HandlePlaces(s)
         \/ \E n \in Names : SetNickname(n)
         \/ Handshake \/ HandleUnmutes \/ Restore
         \/ \E t \in ThreadIds : Mute(t)
         \/ CheckEvent \/ MuteMoved
         \/ \E o \in Others, c \in Channels : OtherMoves(o, c)
         \/ \E c \in Channels : UserMoves(c)
         \/ MoveHappens \/ UserMutes
         \/ UNCHANGED vars
BY DEF Next, Packet, HandleControl, UpdateStep, PluginStep, World, ThreadIds

-----------------------------------------------------------------------------
(* Type correctness.                                                       *)

LEMMA TypeInit == Init => TypeOK
<1> SUFFICES ASSUME Init PROVE TypeOK
  OBVIOUS
<1>1. NoCall \in Calls /\ NoCall.ret = "idle"
  BY DEF NoCall, Calls, Labels, PluginLabels
<1>2. call \in [ThreadIds -> Calls] /\ call["plugin"].ret = "idle"
  BY <1>1 DEF Init, ThreadIds
<1>3. pc \in [ThreadIds -> Labels] /\ pc["plugin"] = "idle"
  BY DEF Init, Labels, UpdateLabels, ThreadIds
<1>4. event \in [who : Others \cup {Null}, from : Channels, to : Channels]
  BY SessionAssumption DEF Init, NoEvent
<1>5. TypeFlags
  BY DEF Init, TypeFlags
<1> QED
  BY <1>2, <1>3, <1>4, <1>5, SessionAssumption DEF Init, TypeOK, TypeData

LEMMA FlagsHandshake ==
  ASSUME TypeFlags, Handshake
  PROVE  TypeFlags'
<1> USE DEF TypeFlags, sound, room, locals
<1>1. CASE FindServer
  BY <1>1 DEF FindServer
<1>2. CASE SaveChannel
  BY <1>2 DEF SaveChannel
<1>3. CASE CheckOutput
  BY <1>3 DEF CheckOutput
<1>4. CASE Hush
  BY <1>4 DEF Hush
<1>5. CASE MoveToGame
  BY <1>5 DEF MoveToGame, RequestMove, Forget
<1>6. CASE ListClients
  BY <1>6 DEF ListClients
<1>7. CASE MuteEach
  BY <1>7 DEF MuteEach, MuteClients
<1>8. CASE Unhush
  BY <1>8 DEF Unhush
<1>9. CASE CommitId
  BY <1>9 DEF CommitId
<1>10. CASE CommitChannel
  BY <1>10 DEF CommitChannel, Forget
<1> QED
  BY <1>1, <1>2, <1>3, <1>4, <1>5, <1>6, <1>7, <1>8, <1>9, <1>10
     DEF Handshake

\* ts3_muteClients() goes to a label of its own, or to where it was told to
\* return, and remembers a well-formed call.
LEMMA Muting ==
  ASSUME pc \in [ThreadIds -> Labels], call \in [ThreadIds -> Calls],
         NEW t \in ThreadIds, NEW who \in SUBSET Others,
         NEW mute \in BOOLEAN, NEW ret \in Labels,
         MuteClients(t, who, mute, ret)
  PROVE  /\ pc' \in [ThreadIds -> Labels]
         /\ call' \in [ThreadIds -> Calls]
         /\ pc'[t] \in {"request", ret}
         /\ call'[t].ret \in {call[t].ret, ret}
         /\ \A s \in ThreadIds \ {t} : pc'[s] = pc[s] /\ call'[s] = call[s]
<1>1. "request" \in Labels
  BY DEF Labels, CallLabels
<1>2. [who |-> who, mute |-> mute, ret |-> ret] \in Calls
  BY Zenon DEF Calls
<1> DEFINE new == [who |-> who, mute |-> mute, ret |-> ret]
<1>3. new \in Calls /\ new.ret = ret
  BY <1>2
<1>4. CASE who = {}
  BY <1>4 DEF MuteClients, Goto
<1>5. CASE who # {}
  <2>1. /\ pc' = [pc EXCEPT ![t] = "request"]
        /\ call' = [call EXCEPT ![t] = new]
    BY <1>5 DEF MuteClients, Goto
  <2> HIDE DEF new
  <2> QED
    BY <2>1, <1>1, <1>3
<1> QED
  BY <1>4, <1>5

\* ... and so does its return.
LEMMA Returning ==
  ASSUME pc \in [ThreadIds -> Labels], call \in [ThreadIds -> Calls],
         NEW t \in ThreadIds, Return(t)
  PROVE  /\ pc' \in [ThreadIds -> Labels]
         /\ call' \in [ThreadIds -> Calls]
         /\ pc' = [pc EXCEPT ![t] = call[t].ret]
         /\ call'[t].ret = "idle"
         /\ \A s \in ThreadIds \ {t} : call'[s] = call[s]
<1>1. "idle" \in Labels
  BY DEF Labels, UpdateLabels
<1>2. NoCall \in Calls /\ NoCall.ret = "idle"
  <2>1. [who |-> {}, mute |-> TRUE, ret |-> "idle"] \in
          [who : SUBSET Others, mute : BOOLEAN, ret : Labels]
    BY <1>1, Zenon
  <2> QED
    BY <2>1 DEF Calls, NoCall
<1>3. call[t].ret \in Labels
  BY DEF Calls
<1> QED
  BY <1>2, <1>3 DEF Return, Goto

\* A call by either thread: what it does to the data's types.
LEMMA DataMuting ==
  ASSUME TypeData, NEW t \in ThreadIds, NEW who \in SUBSET Others,
         NEW mute \in BOOLEAN, NEW ret \in {"each", "unmutes", "place", "idle"},
         MuteClients(t, who, mute, ret), t = "plugin" => ret = "idle"
  PROVE  /\ pc' \in [ThreadIds -> Labels]
         /\ call' \in [ThreadIds -> Calls]
         /\ call'["plugin"].ret = "idle"
         /\ t = "plugin" => pc'["plugin"] \notin {"event", "moved"}
         /\ t = "update" => pc'["plugin"] = pc["plugin"]
<1>1. ret \in Labels
  BY DEF Labels, UpdateLabels
<1>2. pc \in [ThreadIds -> Labels] /\ call \in [ThreadIds -> Calls]
      /\ call["plugin"].ret = "idle"
  BY DEF TypeData
<1> QED
  BY <1>1, <1>2, Muting DEF ThreadIds

LEMMA DataHandshake ==
  ASSUME TypeData, Handshake
  PROVE  TypeData'
<1> USE SessionAssumption
    DEF TypeData, names, mutes, places, room, locals, Labels, UpdateLabels,
        CallLabels, Calls, ThreadIds, Goto
<1>1. CASE FindServer
  BY <1>1 DEF FindServer
<1>2. CASE SaveChannel
  BY <1>2 DEF SaveChannel
<1>3. CASE CheckOutput
  BY <1>3 DEF CheckOutput
<1>4. CASE Hush
  BY <1>4 DEF Hush
<1>5. CASE MoveToGame
  BY <1>5 DEF MoveToGame, RequestMove, Forget
<1>6. CASE ListClients
  BY <1>6 DEF ListClients
<1>7. CASE MuteEach
  <2>1. CASE todo = {}
    BY <1>7, <2>1 DEF MuteEach
  <2>2. CASE todo # {}
    <3>1. PICK o \in todo : /\ MuteClients("update", {o}, TRUE, "each")
                            /\ todo' = todo \ {o}
      BY <1>7, <2>2 DEF MuteEach
    <3> QED
      BY <1>7, <3>1, DataMuting DEF MuteEach
  <2> QED
    BY <2>1, <2>2
<1>8. CASE Unhush
  BY <1>8 DEF Unhush
<1>9. CASE CommitId
  BY <1>9 DEF CommitId
<1>10. CASE CommitChannel
  BY <1>10 DEF CommitChannel, Forget
<1> QED
  BY <1>1, <1>2, <1>3, <1>4, <1>5, <1>6, <1>7, <1>8, <1>9, <1>10
     DEF Handshake

LEMMA FlagsRestore ==
  ASSUME TypeFlags, Restore
  PROVE  TypeFlags'
<1> USE DEF TypeFlags, sound, room, locals
<1>1. CASE CheckRestore
  BY <1>1 DEF CheckRestore
<1>2. CASE MoveBack
  BY <1>2 DEF MoveBack, RequestMove
<1>3. CASE Relist
  BY <1>3 DEF Relist
<1>4. CASE ResetPositions
  BY <1>4 DEF ResetPositions, SetPositions
<1>5. CASE UnmuteAll
  BY <1>5 DEF UnmuteAll
<1>6. CASE ClearCache
  BY <1>6 DEF ClearCache
<1>7. CASE ResetNickname
  BY <1>7 DEF ResetNickname
<1>8. CASE ListBack
  BY <1>8 DEF ListBack
<1> QED
  BY <1>1, <1>2, <1>3, <1>4, <1>5, <1>6, <1>7, <1>8
     DEF Restore

LEMMA DataRestore ==
  ASSUME TypeData, Restore
  PROVE  TypeData'
<1> USE SessionAssumption
    DEF TypeData, names, mutes, places, room, locals, Labels, UpdateLabels,
        ThreadIds, Goto
<1>1. CASE CheckRestore
  BY <1>1 DEF CheckRestore
<1>2. CASE MoveBack
  BY <1>2 DEF MoveBack, RequestMove
<1>3. CASE Relist
  BY <1>3 DEF Relist
<1>4. CASE ResetPositions
  BY <1>4 DEF ResetPositions, SetPositions
<1>5. CASE UnmuteAll
  BY <1>5 DEF UnmuteAll
<1>6. CASE ClearCache
  BY <1>6 DEF ClearCache
<1>7. CASE ResetNickname
  BY <1>7 DEF ResetNickname
<1>8. CASE ListBack
  BY <1>8 DEF ListBack
<1> QED
  BY <1>1, <1>2, <1>3, <1>4, <1>5, <1>6, <1>7, <1>8
     DEF Restore

LEMMA FlagsStep ==
  ASSUME TypeFlags, [Next]_vars
  PROVE  TypeFlags'
<1> USE DEF TypeFlags, sound, room, locals
<1>1. ASSUME NEW label \in {"idle", "restore"}, Connect(label)
      PROVE  TypeFlags'
  BY <1>1 DEF Connect
<1>2. CASE Abort \/ Lose
  BY <1>2 DEF Abort, Lose
<1>3. CASE BeginHandshake
  BY <1>3 DEF BeginHandshake
<1>4. CASE Subscribed
  BY <1>4 DEF Subscribed
<1>5. ASSUME NEW m \in SUBSET Others, NEW u \in SUBSET Others,
             HandleUpdate(m, u)
      PROVE  TypeFlags'
  BY <1>5 DEF HandleUpdate, MuteClients
<1>6. ASSUME NEW s \in SUBSET Others, HandlePosition(s) \/ HandlePlaces(s)
      PROVE  TypeFlags'
  BY <1>6 DEF HandlePosition, HandlePlaces, SetPositions
<1>7. ASSUME NEW n \in Names, SetNickname(n)
      PROVE  TypeFlags'
  BY <1>7 DEF SetNickname
<1>8. CASE HandleUnmutes
  BY <1>8 DEF HandleUnmutes, MuteClients
<1>9. ASSUME NEW t \in ThreadIds, Mute(t)
      PROVE  TypeFlags'
  BY <1>9 DEF Mute, Request, Record, Return, NoCall
<1>10. CASE CheckEvent
  BY <1>10 DEF CheckEvent, NoEvent
<1>11. CASE MuteMoved
  BY <1>11 DEF MuteMoved, MuteClients, SetPositions, NoEvent
<1>12. ASSUME NEW o \in Others, NEW c \in Channels, OtherMoves(o, c)
      PROVE  TypeFlags'
  BY <1>12 DEF OtherMoves
<1>13. ASSUME NEW c \in Channels, UserMoves(c)
      PROVE  TypeFlags'
  BY <1>13 DEF UserMoves
<1>14. CASE MoveHappens
  BY <1>14 DEF MoveHappens
<1>15. CASE UserMutes
  BY <1>15 DEF UserMutes
<1>16. CASE UNCHANGED vars
  BY <1>16 DEF vars, system
<1> QED
  BY <1>1, <1>2, <1>3, <1>4, <1>5, <1>6, <1>7, <1>8, <1>9, <1>10, <1>11,
     <1>12, <1>13, <1>14, <1>15, <1>16, NextCases, FlagsHandshake,
     FlagsRestore

LEMMA DataStep ==
  ASSUME TypeData, [Next]_vars
  PROVE  TypeData'
<1> USE SessionAssumption
    DEF TypeData, names, mutes, places, room, locals, Labels, UpdateLabels,
        PluginLabels, CallLabels, ThreadIds, Calls, Goto
<1>1. ASSUME NEW label \in {"idle", "restore"}, Connect(label)
      PROVE  TypeData'
  BY <1>1 DEF Connect
<1>2. CASE Abort \/ Lose
  BY <1>2 DEF Abort, Lose
<1>3. CASE BeginHandshake
  BY <1>3 DEF BeginHandshake
<1>4. CASE Subscribed
  BY <1>4 DEF Subscribed
<1>5. ASSUME NEW m \in SUBSET Others, NEW u \in SUBSET Others,
             HandleUpdate(m, u)
      PROVE  TypeData'
  <2>1. MuteClients("update", m, TRUE, "unmutes")
    BY <1>5 DEF HandleUpdate
  <2> QED
    BY <1>5, <2>1, DataMuting DEF HandleUpdate
<1>6. ASSUME NEW s \in SUBSET Others, HandlePosition(s) \/ HandlePlaces(s)
      PROVE  TypeData'
  BY <1>6 DEF HandlePosition, HandlePlaces, SetPositions
<1>7. ASSUME NEW n \in Names, SetNickname(n)
      PROVE  TypeData'
  BY <1>7 DEF SetNickname
<1>8. CASE HandleUnmutes
  <2>1. MuteClients("update", todo, FALSE, "place")
    BY <1>8 DEF HandleUnmutes
  <2> QED
    BY <1>8, <2>1, DataMuting DEF HandleUnmutes
<1>9. ASSUME NEW t \in ThreadIds, Mute(t)
      PROVE  TypeData'
  <2>1. call[t].who \in SUBSET Others
    BY DEF TypeData, Calls
  <2>2. ASSUME Return(t)
        PROVE  /\ pc' \in [ThreadIds -> Labels]
               /\ call' \in [ThreadIds -> Calls]
               /\ call'["plugin"].ret = "idle"
               /\ pc'["plugin"] \in {"event", "moved"} =>
                    pc'["plugin"] = pc["plugin"]
    BY <2>2, Returning DEF TypeData, ThreadIds
  <2>3. CASE Return(t) /\ UNCHANGED muted
    BY <1>9, <2>1, <2>2, <2>3 DEF Mute, Request, Record
  <2>4. CASE Goto(t, "record") /\ UNCHANGED call
    BY <1>9, <2>1, <2>4 DEF Mute, Request, Record
  <2> QED
    BY <1>9, <2>3, <2>4 DEF Mute, Request, Record
<1>10. CASE CheckEvent
  BY <1>10 DEF CheckEvent, NoEvent
<1>11. CASE MuteMoved
  <2>1. event.who \in Others /\ NoEvent.who \in Others \cup {Null}
        /\ event' \in [who : Others \cup {Null}, from : Channels, to : Channels]
    BY <1>11 DEF MuteMoved, NoEvent
  <2>2. placed' \subseteq Others
    BY <1>11, <2>1 DEF MuteMoved, SetPositions
  <2>3. CASE \E b \in BOOLEAN : MuteClients("plugin", {event.who}, b, "idle")
    BY <1>11, <2>1, <2>2, <2>3, DataMuting DEF MuteMoved
  <2>4. CASE Goto("plugin", "idle") /\ UNCHANGED call
    BY <1>11, <2>1, <2>2, <2>4 DEF MuteMoved
  <2> QED
    BY <1>11, <2>3, <2>4 DEF MuteMoved
<1>12. ASSUME NEW o \in Others, NEW c \in Channels, OtherMoves(o, c)
      PROVE  TypeData'
  BY <1>12 DEF OtherMoves
<1>13. ASSUME NEW c \in Channels, UserMoves(c)
      PROVE  TypeData'
  BY <1>13 DEF UserMoves
<1>14. CASE MoveHappens
  BY <1>14 DEF MoveHappens
<1>15. CASE UserMutes
  BY <1>15 DEF UserMutes
<1>16. CASE UNCHANGED vars
  BY <1>16 DEF vars, system
<1> QED
  BY <1>1, <1>2, <1>3, <1>4, <1>5, <1>6, <1>7, <1>8, <1>9, <1>10, <1>11,
     <1>12, <1>13, <1>14, <1>15, <1>16, NextCases, DataHandshake,
     DataRestore

LEMMA TypeStep ==
  ASSUME TypeOK, [Next]_vars
  PROVE  TypeOK'
<1>1. CASE Next
  <2>1. met' = (met \/ Overlap')
    BY <1>1 DEF Next
  <2>2. (met \/ Overlap') \in BOOLEAN
    OBVIOUS
  <2> QED
    BY <2>1, <2>2, FlagsStep, DataStep DEF TypeOK
<1>2. CASE UNCHANGED vars
  <2>1. met' \in BOOLEAN
    BY <1>2 DEF vars, TypeOK
  <2> QED
    BY <2>1, FlagsStep, DataStep DEF TypeOK
<1> QED
  BY <1>1, <1>2

\* Every variable has its type in every reachable state.
THEOREM TypeCorrect == Spec => []TypeOK
<1>1. TypeOK /\ [Next]_vars => TypeOK'
  BY TypeStep
<1> QED
  BY <1>1, TypeInit, PTL DEF Spec

-----------------------------------------------------------------------------
(* The nickname.                                                           *)

\* The only name remembered is the user's own, and it is while another is in
\* use.
NameInv == original \in {Own, Null} /\ NameIsRemembered

\* Only two actions touch the two names: the rest keep them.
LEMMA NameStep ==
  ASSUME "query" \notin MayFail, NameInv, [Next]_vars
  PROVE  NameInv'
<1> USE DEF NameInv, NameIsRemembered
<1>1. ASSUME NEW n \in Names, SetNickname(n)
      PROVE  NameInv'
  BY <1>1, SessionAssumption DEF SetNickname, Fails
<1>2. CASE ResetNickname
  BY <1>2, SessionAssumption DEF ResetNickname, names
<1>3. CASE UNCHANGED names
  BY <1>3 DEF names
<1>4. Handshake => UNCHANGED names
  BY DEF Handshake, FindServer, SaveChannel, CheckOutput, Hush, MoveToGame,
         RequestMove, ListClients, MuteEach, Unhush, CommitId, CommitChannel
<1>5. Restore => UNCHANGED names \/ ResetNickname
  BY DEF Restore, CheckRestore, MoveBack, RequestMove, Relist, ListBack,
         ResetPositions, UnmuteAll, ClearCache
<1>6. \A t : Mute(t) => UNCHANGED names
  BY DEF Mute, Request, Record
<1>7. Abort \/ Lose \/ BeginHandshake \/ Subscribed \/ HandleUnmutes
        \/ CheckEvent \/ MuteMoved \/ MoveHappens \/ UserMutes \/ UNCHANGED vars
      => UNCHANGED names
  BY DEF Abort, Lose, BeginHandshake, Subscribed, HandleUnmutes, CheckEvent,
         MuteMoved, MoveHappens, UserMutes, vars, system
<1>8. \A m, u : HandleUpdate(m, u) => UNCHANGED names
  BY DEF HandleUpdate
<1>9. \A s : HandlePosition(s) \/ HandlePlaces(s) => UNCHANGED names
  BY DEF HandlePosition, HandlePlaces
<1>10. \A o, c : OtherMoves(o, c) \/ UserMoves(c) \/ Connect(c)
         => UNCHANGED names
  BY DEF OtherMoves, UserMoves, Connect
<1> QED
  BY <1>1, <1>2, <1>3, <1>4, <1>5, <1>6, <1>7, <1>8, <1>9, <1>10, NextCases

\* As long as TeamSpeak tells the plugin the user's nickname, the name to go
\* back to is never lost (ts3_setNickname, ts3_resetNickname).
THEOREM NameKept ==
  ASSUME "query" \notin MayFail
  PROVE  Spec => []NameIsRemembered
<1>1. Init => NameInv
  BY DEF Init, NameInv, NameIsRemembered
<1>2. NameInv /\ [Next]_vars => NameInv'
  BY NameStep
<1>3. NameInv => NameIsRemembered
  BY DEF NameInv
<1> QED
  BY <1>1, <1>2, <1>3, PTL DEF Spec

-----------------------------------------------------------------------------
(* The list of muted clients.                                              *)

RestoreLabels == {"moveback", "relist", "await", "listback", "reset",
                  "unmuteall", "clear", "rename"}
Busy          == {"moved", "request", "record"}

\* close() runs with a server and outside the game; where calls return to.
RestoreInv ==
  /\ pc["update"] \in RestoreLabels \cup {"restore", "closed"} => known = FALSE
  /\ pc["update"] \in RestoreLabels => handle = TRUE
  /\ call["update"].ret \in {"idle", "each", "unmutes", "place"}

\* o is muted, but its thread has still to put it on the list.
Pending(o) ==
  \E t \in ThreadIds : pc[t] = "record" /\ call[t].mute /\ o \in call[t].who

MuteInv ==
  /\ \A o \in muted : o \in cache \/ Pending(o)
  /\ \A t \in ThreadIds :
       pc[t] = "record" /\ ~call[t].mute => muted \cap call[t].who = {}
  /\ pc["update"] \in {"clear", "rename"} =>
       muted = {} /\ pc["plugin"] \notin Busy

\* Whether a call mutes or unmutes, and whom, is fixed while it is recorded.
LEMMA Untouched ==
  ASSUME MuteInv, UNCHANGED mutes,
         \A t \in ThreadIds : pc'[t] = "record" <=> pc[t] = "record",
         \A t \in ThreadIds : pc[t] = "record" => call'[t] = call[t],
         pc'["update"] \in {"clear", "rename"} =>
           muted = {} /\ pc'["plugin"] \notin Busy
  PROVE  MuteInv'
<1>1. \A o : Pending(o) => Pending(o)'
  BY DEF Pending
<1> QED
  BY <1>1 DEF MuteInv, mutes

\* A call begins: nothing is recorded yet.
LEMMA MuteCalled ==
  ASSUME TypeData, MuteInv, UNCHANGED mutes,
         NEW t \in ThreadIds, pc[t] # "record",
         NEW who \in SUBSET Others, NEW mute \in BOOLEAN,
         NEW ret \in {"each", "unmutes", "place", "idle"},
         MuteClients(t, who, mute, ret),
         t = "plugin" => pc["update"] \notin {"clear", "rename"}
  PROVE  MuteInv'
<1>1. pc \in [ThreadIds -> Labels] /\ call \in [ThreadIds -> Calls]
  BY DEF TypeData
<1>2. ret \in Labels
  BY DEF Labels, UpdateLabels
<1>3. /\ pc'[t] \in {"request", ret}
      /\ \A s \in ThreadIds \ {t} : pc'[s] = pc[s] /\ call'[s] = call[s]
  BY <1>1, <1>2, Muting
<1>4. \A s \in ThreadIds : pc'[s] = "record" <=> pc[s] = "record"
  BY <1>3
<1>5. \A s \in ThreadIds : pc[s] = "record" => call'[s] = call[s]
  BY <1>3
<1>6. pc'["update"] \notin {"clear", "rename"}
  BY <1>3 DEF ThreadIds
<1> QED
  BY <1>4, <1>5, <1>6, Untouched

LEMMA RestoreHandshake ==
  ASSUME TypeData, RestoreInv, Handshake
  PROVE  RestoreInv'
<1> USE DEF TypeData, RestoreInv, RestoreLabels, ThreadIds, Goto, room
<1>1. CASE FindServer
  BY <1>1 DEF FindServer
<1>2. CASE SaveChannel
  BY <1>2 DEF SaveChannel
<1>3. CASE CheckOutput
  BY <1>3 DEF CheckOutput
<1>4. CASE Hush
  BY <1>4 DEF Hush
<1>5. CASE MoveToGame
  BY <1>5 DEF MoveToGame, RequestMove
<1>6. CASE ListClients
  BY <1>6 DEF ListClients
<1>7. CASE MuteEach
  BY <1>7 DEF MuteEach, MuteClients, Calls
<1>8. CASE Unhush
  BY <1>8 DEF Unhush
<1>9. CASE CommitId
  BY <1>9 DEF CommitId
<1>10. CASE CommitChannel
  BY <1>10 DEF CommitChannel
<1> QED
  BY <1>1, <1>2, <1>3, <1>4, <1>5, <1>6, <1>7, <1>8, <1>9, <1>10
     DEF Handshake

LEMMA RestoreRestore ==
  ASSUME TypeData, RestoreInv, Restore
  PROVE  RestoreInv'
<1> USE DEF TypeData, RestoreInv, RestoreLabels, ThreadIds, Goto, room
<1>1. CASE CheckRestore
  BY <1>1 DEF CheckRestore
<1>2. CASE MoveBack
  BY <1>2 DEF MoveBack, RequestMove
<1>3. CASE Relist
  BY <1>3 DEF Relist
<1>4. CASE ResetPositions
  BY <1>4 DEF ResetPositions
<1>5. CASE UnmuteAll
  BY <1>5 DEF UnmuteAll
<1>6. CASE ClearCache
  BY <1>6 DEF ClearCache
<1>7. CASE ResetNickname
  BY <1>7 DEF ResetNickname
<1>8. CASE ListBack
  BY <1>8 DEF ListBack
<1> QED
  BY <1>1, <1>2, <1>3, <1>4, <1>5, <1>6, <1>7, <1>8
     DEF Restore

LEMMA RestoreStep ==
  ASSUME TypeData, RestoreInv, [Next]_vars
  PROVE  RestoreInv'
<1> USE DEF TypeData, RestoreInv, RestoreLabels, ThreadIds, Goto, room
<1>1. ASSUME NEW label \in {"idle", "restore"}, Connect(label)
      PROVE  RestoreInv'
  BY <1>1 DEF Connect
<1>2. CASE Abort \/ Lose
  BY <1>2 DEF Abort, Lose
<1>3. CASE BeginHandshake
  BY <1>3 DEF BeginHandshake
<1>4. CASE Subscribed
  BY <1>4 DEF Subscribed
<1>5. ASSUME NEW m \in SUBSET Others, NEW u \in SUBSET Others,
             HandleUpdate(m, u)
      PROVE  RestoreInv'
  BY <1>5 DEF HandleUpdate, MuteClients, Calls
<1>6. ASSUME NEW s \in SUBSET Others, HandlePosition(s) \/ HandlePlaces(s)
      PROVE  RestoreInv'
  BY <1>6 DEF HandlePosition, HandlePlaces
<1>7. ASSUME NEW n \in Names, SetNickname(n)
      PROVE  RestoreInv'
  BY <1>7 DEF SetNickname
<1>8. CASE HandleUnmutes
  BY <1>8 DEF HandleUnmutes, MuteClients, Calls
<1>9. ASSUME NEW t \in ThreadIds, Mute(t)
      PROVE  RestoreInv'
  <2>1. UNCHANGED <<known, handle>>
    BY <1>9 DEF Mute, Request, Record
  <2>2. CASE Return(t)
    <3>1. /\ pc' = [pc EXCEPT ![t] = call[t].ret]
          /\ call'[t].ret = "idle"
          /\ \A s \in ThreadIds \ {t} : call'[s] = call[s]
      BY <2>2, Returning
    <3> QED
      BY <2>1, <3>1
  <2>3. CASE Goto(t, "record") /\ UNCHANGED call
    BY <2>1, <2>3
  <2> QED
    BY <1>9, <2>2, <2>3 DEF Mute, Request, Record
<1>10. CASE CheckEvent
  BY <1>10 DEF CheckEvent
<1>11. CASE MuteMoved
  BY <1>11 DEF MuteMoved, MuteClients, Calls
<1>12. ASSUME NEW o \in Others, NEW c \in Channels, OtherMoves(o, c)
      PROVE  RestoreInv'
  BY <1>12 DEF OtherMoves
<1>13. ASSUME NEW c \in Channels, UserMoves(c)
      PROVE  RestoreInv'
  BY <1>13 DEF UserMoves
<1>14. CASE MoveHappens
  BY <1>14 DEF MoveHappens
<1>15. CASE UserMutes
  BY <1>15 DEF UserMutes
<1>16. CASE UNCHANGED vars
  BY <1>16 DEF vars, system
<1> QED
  BY <1>1, <1>2, <1>3, <1>4, <1>5, <1>6, <1>7, <1>8, <1>9, <1>10, <1>11,
     <1>12, <1>13, <1>14, <1>15, <1>16, NextCases, RestoreHandshake,
     RestoreRestore

\* A thread asks TeamSpeak, alone in the bookkeeping, or notes the answer.
LEMMA MuteRequest ==
  ASSUME TypeData, MuteInv, RestoreInv, ~Overlap, ~Overlap',
         NEW t \in ThreadIds, Mute(t)
  PROVE  MuteInv'
<1> USE DEF ThreadIds
<1>1. pc \in [ThreadIds -> Labels] /\ call \in [ThreadIds -> Calls]
  BY DEF TypeData
<1>2. pc[t] \in {"request", "record"}
  BY DEF Mute, Request, Record
<1>3. /\ \A s \in ThreadIds \ {t} : pc[s] \notin {"request", "record"}
      /\ pc["update"] \notin {"clear", "rename"}
  BY <1>2 DEF Overlap, MuteInv, Busy
<1>4. \A s \in ThreadIds \ {t} : pc'[s] = pc[s] /\ call'[s] = call[s]
  BY <1>1 DEF Mute, Request, Record, Return, Goto
<1>5. \A o \in muted :
        o \in cache \/ (pc[t] = "record" /\ call[t].mute /\ o \in call[t].who)
  BY <1>3 DEF MuteInv, Pending
<1>6. CASE Return(t)
  <2>1. /\ pc' = [pc EXCEPT ![t] = call[t].ret]
        /\ call[t].ret \in {"idle", "each", "unmutes", "place"}
    BY <1>1, <1>6, Returning DEF TypeData, RestoreInv
  <2>2. /\ \A s \in ThreadIds : pc'[s] # "record"
        /\ pc'["update"] \notin {"clear", "rename"}
    BY <1>1, <1>3, <1>4, <2>1 DEF TypeData
  <2>3. muted' = muted /\ muted \subseteq cache'
    <3>1. CASE Request(t)
      BY <1>1, <1>5, <1>6, <3>1, <2>2 DEF Request, Goto, mutes
    <3>2. CASE Record(t)
      BY <1>5, <3>2 DEF Record, MuteInv
    <3> QED
      BY <3>1, <3>2 DEF Mute
  <2> QED
    BY <2>2, <2>3 DEF MuteInv
<1>7. CASE pc[t] = "request" /\ ~Return(t)
  <2>1. /\ pc' = [pc EXCEPT ![t] = "record"] /\ call' = call /\ cache' = cache
        /\ muted' = IF call[t].mute THEN muted \cup call[t].who
                                    ELSE muted \ call[t].who
    BY <1>7 DEF Mute, Request, Record, Goto
  <2>2. pc'[t] = "record" /\ pc'["update"] \notin {"clear", "rename"}
    BY <1>1, <1>3, <2>1
  <2>3. muted \subseteq cache
    BY <1>5, <1>7
  <2>4. \A s \in ThreadIds \ {t} : pc'[s] # "record"
    BY <1>3, <1>4
  <2>5. \A o \in muted' : o \in cache' \/ Pending(o)'
    BY <2>1, <2>2, <2>3 DEF Pending
  <2>6. ~call[t].mute => muted' \cap call'[t].who = {}
    BY <2>1
  <2> QED
    BY <2>1, <2>2, <2>4, <2>5, <2>6 DEF MuteInv
<1> QED
  BY <1>2, <1>6, <1>7 DEF Mute, Request, Record

\* UnmuteAll leaves nobody muted, as nobody is missing on the list; the next
\* steps find it so.
LEMMA MuteRestore ==
  ASSUME "unmute" \notin MayFail,
         TypeData, MuteInv, RestoreInv, ~Overlap, ~Overlap', Restore
  PROVE  MuteInv'
<1> USE DEF ThreadIds, Goto
<1>1. pc \in [ThreadIds -> Labels]
  BY DEF TypeData
<1>2. ASSUME UNCHANGED <<mutes, call>>,
             NEW label \in UpdateLabels \ {"clear", "rename"},
             pc["update"] # "record", pc' = [pc EXCEPT !["update"] = label]
      PROVE  MuteInv'
  <2>1. \A t \in ThreadIds : pc'[t] = "record" <=> pc[t] = "record"
    BY <1>1, <1>2 DEF UpdateLabels
  <2>2. pc'["update"] \notin {"clear", "rename"}
    BY <1>1, <1>2
  <2> QED
    BY <1>2, <2>1, <2>2, Untouched
<1>3. CASE CheckRestore
  BY <1>2, <1>3 DEF CheckRestore, UpdateLabels
<1>4. CASE MoveBack
  BY <1>2, <1>4 DEF MoveBack, RequestMove, UpdateLabels
<1>5. CASE Relist
  <2>1. PICK label \in {"unmuteall", "await"} :
          pc' = [pc EXCEPT !["update"] = label]
    BY <1>5 DEF Relist
  <2> QED
    BY <1>2, <1>5, <2>1 DEF Relist, UpdateLabels
<1>6. CASE ResetPositions
  BY <1>2, <1>6 DEF ResetPositions, UpdateLabels
<1>7. CASE UnmuteAll
  <2>1. pc["plugin"] \notin Busy /\ muted \subseteq cache
    BY <1>7 DEF UnmuteAll, Overlap, Busy, MuteInv, Pending
  <2>2. muted' = {}
    BY <1>7, <2>1 DEF UnmuteAll, Fails, RestoreInv, RestoreLabels
  <2>3. /\ \A t \in ThreadIds : pc'[t] # "record"
        /\ pc'["plugin"] = pc["plugin"]
    BY <1>1, <1>7, <2>1 DEF UnmuteAll, Busy
  <2> QED
    BY <2>1, <2>2, <2>3 DEF MuteInv
<1>8. CASE ClearCache
  <2>1. muted = {} /\ pc["plugin"] \notin Busy /\ muted' = muted
    BY <1>8 DEF ClearCache, MuteInv
  <2>2. /\ \A t \in ThreadIds : pc'[t] # "record"
        /\ pc'["plugin"] = pc["plugin"]
    BY <1>1, <1>8, <2>1 DEF ClearCache, Busy
  <2> QED
    BY <2>1, <2>2 DEF MuteInv
<1>9. CASE ResetNickname
  BY <1>2, <1>9 DEF ResetNickname, UpdateLabels
<1>10. CASE ListBack
  BY <1>2, <1>10 DEF ListBack, UpdateLabels
<1> QED
  BY <1>3, <1>4, <1>5, <1>6, <1>7, <1>8, <1>9, <1>10 DEF Restore

LEMMA MuteHandshake ==
  ASSUME TypeData, MuteInv, Handshake
  PROVE  MuteInv'
<1> USE DEF ThreadIds, Goto
<1>1. pc \in [ThreadIds -> Labels]
  BY DEF TypeData
<1>2. ASSUME UNCHANGED <<mutes, call>>,
             NEW label \in UpdateLabels \ {"clear", "rename"},
             pc["update"] # "record", pc' = [pc EXCEPT !["update"] = label]
      PROVE  MuteInv'
  <2>1. \A t \in ThreadIds : pc'[t] = "record" <=> pc[t] = "record"
    BY <1>1, <1>2 DEF UpdateLabels
  <2>2. pc'["update"] \notin {"clear", "rename"}
    BY <1>1, <1>2
  <2> QED
    BY <1>2, <2>1, <2>2, Untouched
<1> USE DEF UpdateLabels
<1>3. CASE FindServer
  BY <1>2, <1>3 DEF FindServer
<1>4. CASE SaveChannel
  BY <1>2, <1>4 DEF SaveChannel
<1>5. CASE CheckOutput
  <2>1. PICK label \in {"hush", "move"} : pc' = [pc EXCEPT !["update"] = label]
    BY <1>5 DEF CheckOutput
  <2> QED
    BY <1>2, <1>5, <2>1 DEF CheckOutput
<1>6. CASE Hush
  BY <1>2, <1>6 DEF Hush
<1>7. CASE MoveToGame
  BY <1>2, <1>7 DEF MoveToGame, RequestMove
<1>8. CASE ListClients
  BY <1>2, <1>8 DEF ListClients
<1>9. CASE MuteEach
  <2>1. CASE todo = {}
    BY <1>2, <1>9, <2>1 DEF MuteEach
  <2>2. CASE todo # {}
    <3>1. PICK o \in todo : MuteClients("update", {o}, TRUE, "each")
      BY <1>9, <2>2 DEF MuteEach
    <3>2. pc["update"] = "each" /\ UNCHANGED mutes /\ {o} \in SUBSET Others
      BY <1>9 DEF MuteEach, TypeData
    <3> QED
      BY <3>1, <3>2, MuteCalled
  <2> QED
    BY <2>1, <2>2
<1>10. CASE Unhush
  BY <1>2, <1>10 DEF Unhush
<1>11. CASE CommitId
  BY <1>2, <1>11 DEF CommitId
<1>12. CASE CommitChannel
  BY <1>2, <1>12 DEF CommitChannel
<1> QED
  BY <1>3, <1>4, <1>5, <1>6, <1>7, <1>8, <1>9, <1>10, <1>11, <1>12
     DEF Handshake

LEMMA MuteStep ==
  ASSUME "unmute" \notin MayFail,
         TypeData, RestoreInv, MuteInv, ~Overlap, ~Overlap', [Next]_vars
  PROVE  MuteInv'
<1> USE DEF ThreadIds, Goto
<1>1. pc \in [ThreadIds -> Labels]
  BY DEF TypeData
<1>2. ASSUME UNCHANGED <<mutes, call>>,
             pc'["update"] \notin {"clear", "rename"},
             \A t \in ThreadIds : pc'[t] = "record" <=> pc[t] = "record"
      PROVE  MuteInv'
  BY <1>2, Untouched
<1>3. ASSUME UNCHANGED <<mutes, call>>, pc'["plugin"] \notin Busy,
             pc'["update"] = pc["update"], pc["plugin"] # "record"
      PROVE  MuteInv'
  BY <1>3, Untouched DEF MuteInv, Busy
<1>4. ASSUME UNCHANGED <<mutes, call, pc>>
      PROVE  MuteInv'
  BY <1>4, Untouched DEF MuteInv
<1>5. ASSUME NEW label \in {"idle", "restore"}, Connect(label)
      PROVE  MuteInv'
  BY <1>1, <1>2, <1>5 DEF Connect
<1>6. CASE Lose
  BY <1>1, <1>2, <1>6 DEF Lose
<1>7. CASE BeginHandshake
  BY <1>1, <1>2, <1>7 DEF BeginHandshake
<1>8. CASE Subscribed
  BY <1>1, <1>2, <1>8 DEF Subscribed
<1>9. ASSUME NEW m \in SUBSET Others, NEW u \in SUBSET Others,
             HandleUpdate(m, u)
      PROVE  MuteInv'
  BY <1>9, MuteCalled DEF HandleUpdate
<1>10. ASSUME NEW s \in SUBSET Others, HandlePosition(s)
       PROVE  MuteInv'
  BY <1>4, <1>10 DEF HandlePosition
<1>11. ASSUME NEW s \in SUBSET Others, HandlePlaces(s)
       PROVE  MuteInv'
  BY <1>1, <1>2, <1>11 DEF HandlePlaces
<1>12. ASSUME NEW n \in Names, SetNickname(n)
       PROVE  MuteInv'
  BY <1>4, <1>12 DEF SetNickname
<1>13. CASE HandleUnmutes
  BY <1>13, MuteCalled DEF HandleUnmutes, TypeData
<1>14. CASE CheckEvent
  <2>1. CASE handle /\ IsIngame
    <3>1. pc["update"] \notin {"clear", "rename"}
      BY <2>1 DEF IsIngame, RestoreInv, RestoreLabels
    <3> QED
      BY <1>1, <1>2, <1>14, <2>1, <3>1 DEF CheckEvent
  <2>2. CASE ~(handle /\ IsIngame)
    BY <1>1, <1>3, <1>14, <2>2 DEF CheckEvent, Busy
  <2> QED
    BY <2>1, <2>2
<1>15. CASE MuteMoved
  <2>1. /\ event.who \in Others /\ pc["plugin"] = "moved" /\ UNCHANGED mutes
        /\ pc["update"] \notin {"clear", "rename"}
    BY <1>15 DEF MuteMoved, TypeData, MuteInv, Busy
  <2>2. CASE \E b \in BOOLEAN : MuteClients("plugin", {event.who}, b, "idle")
    BY <2>1, <2>2, MuteCalled
  <2>3. CASE Goto("plugin", "idle") /\ UNCHANGED call
    BY <1>1, <1>3, <2>1, <2>3 DEF Busy
  <2> QED
    BY <1>15, <2>2, <2>3 DEF MuteMoved
<1>16. ASSUME NEW o \in Others, NEW c \in Channels, OtherMoves(o, c)
       PROVE  MuteInv'
  BY <1>1, <1>3, <1>16 DEF OtherMoves, Busy
<1>17. ASSUME NEW c \in Channels, UserMoves(c)
       PROVE  MuteInv'
  BY <1>4, <1>17 DEF UserMoves
<1>18. CASE MoveHappens
  BY <1>4, <1>18 DEF MoveHappens
<1>19. CASE UserMutes
  BY <1>4, <1>19 DEF UserMutes
<1>20. CASE UNCHANGED vars
  BY <1>4, <1>20 DEF vars, system
<1>21. CASE Abort
  BY <1>4, <1>21 DEF Abort
<1> QED
  BY <1>5, <1>6, <1>7, <1>8, <1>9, <1>10, <1>11, <1>12, <1>13, <1>14, <1>15,
     <1>16, <1>17, <1>18, <1>19, <1>20, <1>21, NextCases, MuteHandshake,
     MuteRestore, MuteRequest

LEMMA MuteInit == Init => RestoreInv /\ MuteInv
BY DEF Init, NoCall, ThreadIds, RestoreInv, RestoreLabels, MuteInv

LEMMA MuteImplies ==
  ASSUME MuteInv
  PROVE  MuteRemembered /\ (pc["update"] = "rename" => muted = {})
BY DEF MuteInv, Pending, MuteRemembered

\* What is known until the threads meet for the first time.
MetInv == /\ Overlap => met
          /\ MuteInv \/ met

LEMMA MetStep ==
  ASSUME "unmute" \notin MayFail, TypeOK, RestoreInv, MetInv, [Next]_vars
  PROVE  TypeOK' /\ RestoreInv' /\ MetInv'
<1>1. TypeOK' /\ RestoreInv'
  BY TypeStep, RestoreStep DEF TypeOK
<1>2. CASE Next
  <2>1. met' = (met \/ Overlap')
    BY <1>2 DEF Next
  <2>2. ASSUME ~met /\ ~Overlap'
        PROVE  MetInv'
    <3>1. MuteInv /\ ~Overlap
      BY <2>2, Zenon DEF MetInv
    <3>2. MuteInv'
      BY <2>2, <3>1, MuteStep DEF TypeOK
    <3> QED
      BY <2>2, <3>2, Zenon DEF MetInv
  <2>3. ASSUME met \/ Overlap'
        PROVE  MetInv'
    <3>1. met'
      BY <2>1, <2>3, Zenon
    <3> QED
      BY <3>1, Zenon DEF MetInv
  <2>4. MetInv'
    BY <2>2, <2>3, Zenon
  <2> QED
    BY <1>1, <2>4
<1>3. CASE UNCHANGED vars
  <2>1. UNCHANGED <<pc, call, mutes, met>>
    BY <1>3 DEF vars, system
  <2>2. Overlap' = Overlap
    BY <2>1 DEF Overlap
  <2>3. MuteInv => MuteInv'
    BY <2>1, Untouched DEF MuteInv
  <2>4. met' = met
    BY <2>1
  <2>5. MetInv'
    BY <2>2, <2>3, <2>4, Zenon DEF MetInv
  <2> QED
    BY <1>1, <2>5
<1> QED
  BY <1>2, <1>3

LEMMA MetInit == Init => RestoreInv /\ MetInv
<1> SUFFICES ASSUME Init PROVE RestoreInv /\ MetInv
  OBVIOUS
<1>1. RestoreInv /\ MuteInv
  BY MuteInit
<1>2. ~Overlap
  BY DEF Init, Overlap, ThreadIds
<1> QED
  BY <1>1, <1>2, Zenon DEF MetInv

\* If TeamSpeak never refuses to unmute, then until the plugin thread's
\* handling of a move meets the update thread's own muting (nothing in
\* teamspeak.cpp keeps them apart) the list of muted clients is complete ...
THEOREM ListIsComplete ==
  ASSUME "unmute" \notin MayFail
  PROVE  Spec => []CacheIsComplete
<1>1. Init => TypeOK /\ RestoreInv /\ MetInv
  BY TypeInit, MetInit
<1>2. TypeOK /\ RestoreInv /\ MetInv /\ [Next]_vars
      => TypeOK' /\ RestoreInv' /\ MetInv'
  BY MetStep
<1>3. MetInv => CacheIsComplete
  BY MuteImplies, Zenon DEF MetInv, CacheIsComplete
<1> QED
  BY <1>1, <1>2, <1>3, PTL DEF Spec

\* ... and a close() that moves the user back has unmuted everybody.
THEOREM BackUnmuted ==
  ASSUME "unmute" \notin MayFail
  PROVE  Spec => []MovedBackUnmuted
<1>1. Init => TypeOK /\ RestoreInv /\ MetInv
  BY TypeInit, MetInit
<1>2. TypeOK /\ RestoreInv /\ MetInv /\ [Next]_vars
      => TypeOK' /\ RestoreInv' /\ MetInv'
  BY MetStep
<1>3. MetInv => MovedBackUnmuted
  BY MuteImplies, Zenon DEF MetInv, MovedBackUnmuted
<1> QED
  BY <1>1, <1>2, <1>3, PTL DEF Spec

-----------------------------------------------------------------------------
(* The ends of the handlers and of close().                                *)

\* A step of somebody else: the update thread is where it was.
Beside ==
  /\ pc'["update"] = pc["update"] /\ call'["update"] = call["update"]
  /\ UNCHANGED <<handle, temp, todo, saved, lastChannel, joined>>
  /\ UserMutes \/ UNCHANGED sound

LEMMA BesideSteps ==
  ASSUME TypeData,
         \/ Abort \/ CheckEvent \/ MuteMoved \/ Mute("plugin")
         \/ \E s \in SUBSET Others : HandlePosition(s)
         \/ \E n \in Names : SetNickname(n)
         \/ \E o \in Others, c \in Channels : OtherMoves(o, c)
         \/ \E c \in Channels : UserMoves(c)
         \/ MoveHappens \/ UserMutes \/ UNCHANGED vars
  PROVE  Beside
<1> USE DEF TypeData, ThreadIds, Goto, sound, room, locals, Beside
<1>1. CASE Abort
  BY <1>1 DEF Abort
<1>2. CASE CheckEvent
  BY <1>2 DEF CheckEvent
<1>3. CASE MuteMoved
  BY <1>3 DEF MuteMoved, MuteClients
<1>4. CASE Mute("plugin")
  BY <1>4 DEF Mute, Request, Record, Return
<1>5. ASSUME NEW s \in SUBSET Others, HandlePosition(s)
      PROVE  Beside
  BY <1>5 DEF HandlePosition
<1>6. ASSUME NEW n \in Names, SetNickname(n)
      PROVE  Beside
  BY <1>6 DEF SetNickname
<1>7. ASSUME NEW o \in Others, NEW c \in Channels, OtherMoves(o, c)
      PROVE  Beside
  BY <1>7 DEF OtherMoves
<1>8. ASSUME NEW c \in Channels, UserMoves(c)
      PROVE  Beside
  BY <1>8 DEF UserMoves
<1>9. CASE MoveHappens
  BY <1>9 DEF MoveHappens
<1>10. CASE UserMutes
  BY <1>10 DEF UserMutes
<1>11. CASE UNCHANGED vars
  BY <1>11 DEF vars, system
<1> QED
  BY <1>1, <1>2, <1>3, <1>4, <1>5, <1>6, <1>7, <1>8, <1>9, <1>10, <1>11

\* Where the update thread is, its calls of ts3_muteClients() apart ...
Stage ==
  IF pc["update"] \in CallLabels THEN call["update"].ret ELSE pc["update"]

\* ... and where it is in such a call.
Inside ==
  CASE pc["update"] = "request" -> 2
    [] pc["update"] = "record"  -> 1
    [] OTHER -> 0

\* The longest way from a stage to the end of the handler, or of close().
StagesLeft(label) ==
  CASE label = "search" -> 11
    [] label = "save"   -> 10
    [] label \in {"output", "restore"}          -> 9
    [] label \in {"hush", "moveback"}           -> 8
    [] label \in {"move", "relist"}             -> 7
    [] label \in {"subscribe", "await"}         -> 6
    [] label \in {"list", "listback"}           -> 5
    [] label \in {"each", "reset"}              -> 4
    [] label \in {"unhush", "unmuteall"}        -> 3
    [] label \in {"commit", "clear", "unmutes"} -> 2
    [] label \in {"last", "rename", "place"}    -> 1
    [] OTHER -> 0

\* A step of the update thread gets nearer to the end: to a later stage, to
\* fewer clients, or on in a call.
GetsNearer ==
  \/ StagesLeft(Stage)' < StagesLeft(Stage)
  \/ Stage' = Stage /\ todo' \subseteq todo /\ todo' # todo
  \/ Stage' = Stage /\ todo' = todo /\ Inside' < Inside

\* While it has something to do every step of its own is such a step, and
\* nobody else's step sends it back.
HandlersDraw ==
  [][pc["update"] \notin {"idle", "closed"} =>
       IF pc'["update"] # pc["update"] THEN GetsNearer
                                       ELSE UNCHANGED <<Stage, todo>>]_vars

\* A step of its own.
Nearer == GetsNearer /\ pc'["update"] # pc["update"]

LEMMA NearerHandshake ==
  ASSUME TypeData, Handshake
  PROVE  Nearer
<1> USE DEF TypeData, ThreadIds, Goto, CallLabels, Stage, GetsNearer, Nearer
<1>1. CASE FindServer \/ SaveChannel
  BY <1>1 DEF FindServer, SaveChannel, StagesLeft
<1>2. CASE CheckOutput \/ Hush
  <2>1. \/ pc["update"] = "output" /\ pc'["update"] \in {"hush", "move"}
        \/ pc["update"] = "hush" /\ pc'["update"] = "move"
    BY <1>2, Zenon DEF CheckOutput, Hush
  <2> QED
    BY <2>1 DEF StagesLeft
<1>3. CASE MoveToGame
  BY <1>3 DEF MoveToGame, RequestMove, StagesLeft
<1>4. CASE ListClients \/ Unhush
  BY <1>4 DEF ListClients, Unhush, StagesLeft
<1>5. CASE CommitId \/ CommitChannel
  <2>1. \/ pc["update"] = "commit" /\ pc'["update"] = "last"
        \/ pc["update"] = "last" /\ pc'["update"] = "idle"
    BY <1>5, Zenon DEF CommitId, CommitChannel
  <2> QED
    BY <2>1 DEF StagesLeft
<1>6. CASE MuteEach
  <2>1. CASE todo = {}
    BY <1>6, <2>1 DEF MuteEach, StagesLeft
  <2>2. CASE todo # {}
    <3>1. PICK o \in todo : /\ MuteClients("update", {o}, TRUE, "each")
                            /\ todo' = todo \ {o}
      BY <1>6, <2>2 DEF MuteEach
    <3>2. pc'["update"] = "request" /\ call'["update"].ret = "each"
      BY <3>1 DEF MuteClients
    <3> QED
      BY <1>6, <3>1, <3>2 DEF MuteEach
  <2> QED
    BY <2>1, <2>2
<1> QED
  BY <1>1, <1>2, <1>3, <1>4, <1>5, <1>6 DEF Handshake

LEMMA NearerRestore ==
  ASSUME TypeData, Restore
  PROVE  Nearer
<1> USE DEF TypeData, ThreadIds, Goto, CallLabels, Stage, StagesLeft,
            GetsNearer, Nearer
<1>1. CASE CheckRestore \/ MoveBack \/ Relist \/ ListBack
  BY <1>1 DEF CheckRestore, MoveBack, RequestMove, Relist, ListBack
<1>2. CASE ResetPositions \/ UnmuteAll \/ ClearCache \/ ResetNickname
  BY <1>2 DEF ResetPositions, UnmuteAll, ClearCache, ResetNickname
<1> QED
  BY <1>1, <1>2 DEF Restore

\* A call of ts3_muteClients() ends where it was to return to.
LEMMA NearerMute ==
  ASSUME TypeData, RestoreInv, Mute("update")
  PROVE  Nearer
<1> USE DEF TypeData, ThreadIds, Goto, CallLabels
<1>1. /\ pc["update"] \in CallLabels /\ todo' = todo
      /\ call["update"].ret \notin CallLabels
  BY DEF Mute, Request, Record, RestoreInv, locals
<1>2. CASE pc' = [pc EXCEPT !["update"] = "record"] /\ UNCHANGED call
           /\ pc["update"] = "request"
  BY <1>1, <1>2 DEF Nearer, GetsNearer, Stage, Inside
<1>3. CASE Return("update")
  BY <1>1, <1>3 DEF Return, Nearer, GetsNearer, Stage, Inside
<1> QED
  BY <1>2, <1>3 DEF Mute, Request, Record

LEMMA NearerPacket ==
  ASSUME TypeData,
         \/ Subscribed \/ HandleUnmutes
         \/ \E s \in SUBSET Others : HandlePlaces(s)
  PROVE  Nearer
<1> USE DEF TypeData, ThreadIds, Goto, CallLabels, Stage, StagesLeft,
            GetsNearer, Nearer
<1>1. CASE Subscribed
  BY <1>1 DEF Subscribed
<1>2. CASE HandleUnmutes
  <2>1. pc["update"] = "unmutes"
    BY <1>2 DEF HandleUnmutes
  <2>2. \/ pc'["update"] = "place"
        \/ pc'["update"] = "request" /\ call'["update"].ret = "place"
    BY <1>2 DEF HandleUnmutes, MuteClients
  <2> QED
    BY <2>1, <2>2
<1>3. ASSUME NEW s \in SUBSET Others, HandlePlaces(s)
      PROVE  Nearer
  BY <1>3 DEF HandlePlaces
<1> QED
  BY <1>1, <1>2, <1>3

\* Whatever TeamSpeak refuses, and whatever the user, the other clients and the
\* plugin thread do meanwhile, a packet handler and close() go through their
\* stages once, and through a list of clients once: the part of HandshakeEnds
\* and CloseEnds that is no matter of scheduling, for any number of clients.
THEOREM HandlersComeToAnEnd == Spec => HandlersDraw
<1> DEFINE Draws == pc["update"] \notin {"idle", "closed"} =>
                      IF pc'["update"] # pc["update"] THEN GetsNearer
                      ELSE UNCHANGED <<Stage, todo>>
<1>1. ASSUME TypeOK, RestoreInv, [Next]_vars
      PROVE  Draws
  <2>1. TypeData
    BY <1>1 DEF TypeOK
  <2>2. CASE Beside
    BY <2>2 DEF Beside, Stage
  <2>3. CASE Nearer
    BY <2>3 DEF Nearer
  <2>4. CASE \E label \in {"idle", "restore"} : Connect(label)
    BY <2>4 DEF Connect
  <2>5. CASE Lose \/ BeginHandshake
    BY <2>5 DEF Lose, BeginHandshake
  <2>6. CASE \E m \in SUBSET Others, u \in SUBSET Others : HandleUpdate(m, u)
    BY <2>6 DEF HandleUpdate
  <2> QED
    BY <1>1, <2>1, <2>2, <2>3, <2>4, <2>5, <2>6, NextCases, BesideSteps,
       NearerHandshake, NearerRestore, NearerMute, NearerPacket DEF ThreadIds
<1>2. TypeOK /\ RestoreInv /\ [Next]_vars => TypeOK' /\ RestoreInv'
  BY TypeStep, RestoreStep DEF TypeOK
<1>3. TypeOK /\ RestoreInv /\ [Next]_vars => [Draws]_vars
  BY <1>1
<1> QED
  BY <1>2, <1>3, TypeInit, MuteInit, PTL DEF Spec, HandlersDraw
=============================================================================
