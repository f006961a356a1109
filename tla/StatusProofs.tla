---------------------------- MODULE StatusProofs ----------------------------
(***************************************************************************)
(* That the game server ends up with the truth about the user's microphone *)
(* and speakers, for every choice of the constants, as long as TeamSpeak   *)
(* answers what it is asked.                                               *)
(***************************************************************************)
EXTENDS Status, TLAPS

\* What met remembers.
MetInv == Overlap => met

\* Reports are not dropped while the update thread joins or tells the status,
\* nor while a flag is vouched for.
Linked ==
  /\ vouched # {} => handle /\ running
  /\ pc["update"] \notin {"closed", "idle", "search"} => handle

\* The flags that the update thread has stored and not yet told.
Stored ==
  IF pc["update"] \in {"ask.speakers", "store.speakers"} THEN {"microphone"}
  ELSE IF pc["update"] \in Sending THEN Mutes ELSE {}

\* The plugin thread has stored flag f and not yet told it; it is about to.
Telling(f) == pc["plugin"] \in Sending /\ event.flag = f
Holding(f) == pc["plugin"] = "set" /\ event.flag = f

\* The copy of a flag is kept up to date.
Kept(f) ==
  \/ f \in vouched /\ ~Holding(f)
  \/ Telling(f)
  \/ f \in Stored /\ running

\* A kept copy is true once every change is reported.
CopyTrue ==
  \A f \in Flags \ NoDevice : Kept(f) /\ pending[f] = 0 => flags[f] = real[f]

\* The last report of a flag is true.
EventTrue ==
  pc["plugin"] = "set" /\ pending[event.flag] = 0
    => event.value = real[event.flag]

\* TeamSpeak's answer is true unless a change of it will be reported.
AnswerTo(f, here) ==
  /\ pc["update"] = here /\ f \notin NoDevice
  /\ running /\ pending[f] = 0
  => answer = real[f]

AnswerTrue ==
  /\ AnswerTo("microphone", "store.microphone")
  /\ AnswerTo("speakers", "store.speakers")

\* The server has the copy of a vouched flag that nobody has just stored.
SentTrue ==
  \A f \in vouched : ~Telling(f) /\ f \notin Stored => sent[f] = flags[f]

\* A packet holds the copies that were read into it.
FilledUpTo(t, label, read) ==
  pc[t] = label => \A f \in read : packet[t][f] = flags[f]

PacketTrue ==
  \A t \in ThreadIds :
    /\ FilledUpTo(t, "microphone", {"talking"})
    /\ FilledUpTo(t, "speakers", {"talking", "microphone"})
    /\ FilledUpTo(t, "post", Flags)

Truth == CopyTrue /\ AnswerTrue /\ SentTrue /\ PacketTrue
Inv == TypeOK /\ MetInv /\ Linked /\ EventTrue /\ (met \/ Truth)
-----------------------------------------------------------------------------
(* Types.                                                                  *)

LEMMA NextReadTyped ==
  AfterRead \in [Flags -> {"microphone", "speakers", "post"}]
  BY DEF AfterRead, Flags, Mutes

LEMMA InitInv == Init => Inv
<1> SUFFICES ASSUME Init PROVE Inv
  OBVIOUS
<1>1. TypeOK
  BY DEF Init, TypeOK, TypeData, TypePlaces, ThreadIds, Labels, Sending, Flags,
         Mutes, NoPacket, NoEvent
<1>2. MetInv /\ Linked /\ EventTrue
  BY DEF Init, MetInv, Overlap, Linked, EventTrue, ThreadIds, Sending, Flags,
         Mutes
<1>3. Truth
  BY DEF Init, Truth, CopyTrue, AnswerTrue, AnswerTo, SentTrue, PacketTrue,
         FilledUpTo, Kept, Holding, Telling, Stored, ThreadIds, Sending,
         Flags, Mutes
<1> QED
  BY <1>1, <1>2, <1>3 DEF Inv

LEMMA TypeDataStep == TypeOK /\ [Next]_vars => TypeData'
<1> SUFFICES ASSUME TypeOK, [Next]_vars PROVE TypeData'
  OBVIOUS
<1> USE DEF TypeOK, TypeData, Flags, Mutes, NoPacket, NoEvent, link,
            teamspeak, locals, TypePlaces, ThreadIds
<1>1. ASSUME Connect PROVE TypeData'
  BY <1>1 DEF Connect
<1>2. ASSUME Abort PROVE TypeData'
  BY <1>2 DEF Abort
<1>3. ASSUME Lose PROVE TypeData'
  BY <1>3 DEF Lose
<1>4. ASSUME BeginHandshake PROVE TypeData'
  BY <1>4 DEF BeginHandshake
<1>5. ASSUME FindServer PROVE TypeData'
  BY <1>5 DEF FindServer
<1>6. ASSUME CheckOutput PROVE TypeData'
  BY <1>6 DEF CheckOutput, Answers
<1>7. ASSUME Hush PROVE TypeData'
  BY <1>7 DEF Hush, Give
<1>8. ASSUME MoveToGame PROVE TypeData'
  BY <1>8 DEF MoveToGame
<1>9. ASSUME Unhush PROVE TypeData'
  BY <1>9 DEF Unhush, Give
<1>10. ASSUME InitialStatus PROVE TypeData'
  <2>1. ASSUME NEW f, NEW here, NEW next, Ask(f, here, next) PROVE TypeData'
    <3>1. answer' \in BOOLEAN
      BY <2>1 DEF Ask, Answers
    <3> QED
      BY <2>1, <3>1 DEF Ask
  <2>2. ASSUME NEW f, NEW here, NEW next, Store(f, here, next) PROVE TypeData'
    BY <2>2 DEF Store
  <2> QED
    BY <1>10, <2>1, <2>2 DEF InitialStatus
<1>11. ASSUME NEW f \in Flags, TakeEvent(f) PROVE TypeData'
  <2>1. Reported(f) \in BOOLEAN
    BY DEF Reported
  <2>2. pending' \in [Flags -> Nat]
    BY <1>11 DEF TakeEvent
  <2> QED
    BY <1>11, <2>1, <2>2 DEF TakeEvent
<1>12. ASSUME SetFlag PROVE TypeData'
  BY <1>12 DEF SetFlag
<1>13. ASSUME NEW f \in Flags, UserChanges(f) PROVE TypeData'
  BY <1>13 DEF UserChanges, Give
<1>14. ASSUME NEW t \in ThreadIds, NEW f \in Flags, ReadFlag(t,
     f) PROVE TypeData'
  <2>1. packet' \in [ThreadIds -> [Flags -> BOOLEAN]]
    <3>1. [packet[t] EXCEPT ![f] = flags[f]] \in [Flags -> BOOLEAN]
      OBVIOUS
    <3> QED
      BY <1>14, <3>1 DEF ReadFlag
  <2> QED
    BY <1>14, <2>1 DEF ReadFlag
<1>15. ASSUME NEW t \in ThreadIds, PostPacket(t) PROVE TypeData'
  <2>1. packet[t] \in [Flags -> BOOLEAN] /\ event.flag \in Flags
    OBVIOUS
  <2>2. packet' \in [ThreadIds -> [Flags -> BOOLEAN]]
    BY <1>15, <2>1 DEF PostPacket
  <2>3. vouched' \subseteq Flags
    BY <1>15, <2>1 DEF PostPacket
  <2>4. event' \in [flag : Flags, value : BOOLEAN]
    BY <1>15 DEF PostPacket
  <2> QED
    BY <1>15, <2>1, <2>2, <2>3, <2>4 DEF PostPacket
<1>16. CASE UNCHANGED vars
  BY <1>16 DEF vars, system
<1> QED
  BY <1>1, <1>2, <1>3, <1>4, <1>5, <1>6, <1>7, <1>8, <1>9, <1>10, <1>11, <1>12,
     <1>13, <1>14, <1>15, <1>16
     DEF Next, UpdateStep, PluginStep, SendStatus

LEMMA TypePlacesStep == TypeOK /\ [Next]_vars => TypePlaces'
<1> SUFFICES ASSUME TypeOK, [Next]_vars PROVE TypePlaces'
  OBVIOUS
<1> USE DEF TypeOK, TypePlaces, ThreadIds, Labels, Sending, Flags, Mutes, Goto,
            AfterRead, locals
<1>1. ASSUME Connect PROVE TypePlaces'
  BY <1>1 DEF Connect
<1>2. ASSUME Abort PROVE TypePlaces'
  BY <1>2 DEF Abort
<1>3. ASSUME Lose PROVE TypePlaces'
  BY <1>3 DEF Lose
<1>4. ASSUME BeginHandshake PROVE TypePlaces'
  BY <1>4 DEF BeginHandshake
<1>5. ASSUME FindServer PROVE TypePlaces'
  BY <1>5 DEF FindServer
<1>6. ASSUME CheckOutput PROVE TypePlaces'
  BY <1>6 DEF CheckOutput
<1>7. ASSUME Hush PROVE TypePlaces'
  BY <1>7 DEF Hush
<1>8. ASSUME MoveToGame PROVE TypePlaces'
  BY <1>8 DEF MoveToGame
<1>9. ASSUME Unhush PROVE TypePlaces'
  BY <1>9 DEF Unhush
<1>10. ASSUME InitialStatus PROVE TypePlaces'
  BY <1>10 DEF InitialStatus, Ask, Store
<1>11. ASSUME NEW f \in Flags, TakeEvent(f) PROVE TypePlaces'
  BY <1>11 DEF TakeEvent
<1>12. ASSUME SetFlag PROVE TypePlaces'
  BY <1>12 DEF SetFlag
<1>13. ASSUME NEW f \in Flags, UserChanges(f) PROVE TypePlaces'
  BY <1>13 DEF UserChanges
<1>14. ASSUME NEW t \in ThreadIds, NEW f \in Flags, ReadFlag(t,
     f) PROVE TypePlaces'
  BY <1>14 DEF ReadFlag
<1>15. ASSUME NEW t \in ThreadIds, PostPacket(t) PROVE TypePlaces'
  BY <1>15 DEF PostPacket
<1>16. CASE UNCHANGED vars
  BY <1>16 DEF vars, system
<1> QED
  BY <1>1, <1>2, <1>3, <1>4, <1>5, <1>6, <1>7, <1>8, <1>9, <1>10, <1>11, <1>12,
     <1>13, <1>14, <1>15, <1>16
     DEF Next, UpdateStep, PluginStep, SendStatus

LEMMA TypeStep == TypeOK /\ [Next]_vars => TypeOK'
<1>1. TypeOK /\ [Next]_vars => met' \in BOOLEAN
  BY DEF TypeOK, Next, vars
<1> QED
  BY <1>1, TypeDataStep, TypePlacesStep DEF TypeOK
-----------------------------------------------------------------------------
(* The invariant.                                                          *)

\* What TeamSpeak changes it will report.
LEMMA GiveIsReported ==
  ASSUME TypeData, NEW f \in Flags, NEW v \in BOOLEAN, Give(f, v),
         NEW g \in Flags, pending'[g] = 0
  PROVE  pending[g] = 0 /\ real'[g] = real[g]
<1>1. CASE real[f] = v
  BY <1>1 DEF Give, TypeData
<1>2. CASE real[f] # v
  <2>1. g # f
    BY <1>2 DEF Give, TypeData
  <2> QED
    BY <1>2, <2>1 DEF Give, TypeData
<1> QED
  BY <1>1, <1>2

LEMMA LinkedStep == TypeOK /\ Linked /\ [Next]_vars => Linked'
<1> SUFFICES ASSUME TypeOK, Linked, [Next]_vars PROVE Linked'
  OBVIOUS
<1> USE DEF TypeOK, Linked, Goto, Sending, Flags, Mutes, TypePlaces, TypeData,
            Labels, ThreadIds, link, locals
<1>1. ASSUME Connect PROVE Linked'
  BY <1>1 DEF Connect
<1>2. ASSUME Abort PROVE Linked'
  BY <1>2 DEF Abort
<1>3. ASSUME Lose PROVE Linked'
  BY <1>3 DEF Lose
<1>4. ASSUME BeginHandshake PROVE Linked'
  BY <1>4 DEF BeginHandshake
<1>5. ASSUME FindServer PROVE Linked'
  BY <1>5 DEF FindServer
<1>6. ASSUME CheckOutput PROVE Linked'
  BY <1>6 DEF CheckOutput
<1>7. ASSUME Hush PROVE Linked'
  BY <1>7 DEF Hush, Give
<1>8. ASSUME MoveToGame PROVE Linked'
  BY <1>8 DEF MoveToGame
<1>9. ASSUME Unhush PROVE Linked'
  BY <1>9 DEF Unhush, Give
<1>10. ASSUME InitialStatus PROVE Linked'
  BY <1>10 DEF InitialStatus, Ask, Store
<1>11. ASSUME NEW f \in Flags, TakeEvent(f) PROVE Linked'
  BY <1>11 DEF TakeEvent, Reported
<1>12. ASSUME SetFlag PROVE Linked'
  BY <1>12 DEF SetFlag
<1>13. ASSUME NEW f \in Flags, UserChanges(f) PROVE Linked'
  BY <1>13 DEF UserChanges, Give
<1>14. ASSUME NEW t \in ThreadIds, NEW f \in Flags, ReadFlag(t,
     f) PROVE Linked'
  BY <1>14 DEF ReadFlag, AfterRead
<1>15. ASSUME NEW t \in ThreadIds, PostPacket(t) PROVE Linked'
  BY <1>15 DEF PostPacket
<1>16. CASE UNCHANGED vars
  BY <1>16 DEF vars, system
<1> QED
  BY <1>1, <1>2, <1>3, <1>4, <1>5, <1>6, <1>7, <1>8, <1>9, <1>10, <1>11, <1>12,
     <1>13, <1>14, <1>15, <1>16
     DEF Next, UpdateStep, PluginStep, SendStatus

LEMMA EventTrueStep == TypeOK /\ EventTrue /\ [Next]_vars => EventTrue'
<1> SUFFICES ASSUME TypeOK, EventTrue, [Next]_vars PROVE EventTrue'
  OBVIOUS
<1> USE DEF TypeOK, EventTrue, Goto, Sending, Flags, Mutes, TypePlaces,
            TypeData, Labels, ThreadIds, link, teamspeak, locals
<1>1. ASSUME Connect PROVE EventTrue'
  BY <1>1 DEF Connect
<1>2. ASSUME Abort PROVE EventTrue'
  BY <1>2 DEF Abort
<1>3. ASSUME Lose PROVE EventTrue'
  BY <1>3 DEF Lose
<1>4. ASSUME BeginHandshake PROVE EventTrue'
  BY <1>4 DEF BeginHandshake
<1>5. ASSUME FindServer PROVE EventTrue'
  BY <1>5 DEF FindServer
<1>6. ASSUME CheckOutput PROVE EventTrue'
  BY <1>6 DEF CheckOutput
<1>7. ASSUME Hush PROVE EventTrue'
  <2>1. \A g \in Flags :
          pending'[g] = 0 => pending[g] = 0 /\ real'[g] = real[g]
    BY <1>7, GiveIsReported DEF Hush
  <2> QED
    BY <1>7, <2>1 DEF Hush
<1>8. ASSUME MoveToGame PROVE EventTrue'
  BY <1>8 DEF MoveToGame
<1>9. ASSUME Unhush PROVE EventTrue'
  <2>1. \A g \in Flags :
          pending'[g] = 0 => pending[g] = 0 /\ real'[g] = real[g]
    BY <1>9, GiveIsReported DEF Unhush
  <2> QED
    BY <1>9, <2>1 DEF Unhush
<1>10. ASSUME InitialStatus PROVE EventTrue'
  BY <1>10 DEF InitialStatus, Ask, Store
<1>11. ASSUME NEW f \in Flags, TakeEvent(f) PROVE EventTrue'
  BY <1>11 DEF TakeEvent, Reported
<1>12. ASSUME SetFlag PROVE EventTrue'
  BY <1>12 DEF SetFlag
<1>13. ASSUME NEW f \in Flags, UserChanges(f) PROVE EventTrue'
  BY <1>13 DEF UserChanges, Give
<1>14. ASSUME NEW t \in ThreadIds, NEW f \in Flags, ReadFlag(t,
     f) PROVE EventTrue'
  BY <1>14 DEF ReadFlag, AfterRead
<1>15. ASSUME NEW t \in ThreadIds, PostPacket(t) PROVE EventTrue'
  BY <1>15 DEF PostPacket
<1>16. CASE UNCHANGED vars
  BY <1>16 DEF vars, system
<1> QED
  BY <1>1, <1>2, <1>3, <1>4, <1>5, <1>6, <1>7, <1>8, <1>9, <1>10, <1>11, <1>12,
     <1>13, <1>14, <1>15, <1>16
     DEF Next, UpdateStep, PluginStep, SendStatus

LEMMA PacketTrueStep ==
  ASSUME Inv, ~met, ~Overlap, Next, ~met', ~Overlap'
  PROVE  PacketTrue'
<1> USE DEF Inv, TypeOK, TypeData, TypePlaces, Truth, Overlap, PacketTrue,
            FilledUpTo,
            Goto, Sending, Flags, Mutes, Labels, ThreadIds, link, teamspeak,
            locals
<1>1. ASSUME Connect PROVE PacketTrue'
  BY <1>1 DEF Connect
<1>2. ASSUME Abort PROVE PacketTrue'
  BY <1>2 DEF Abort
<1>3. ASSUME Lose PROVE PacketTrue'
  BY <1>3 DEF Lose
<1>4. ASSUME BeginHandshake PROVE PacketTrue'
  BY <1>4 DEF BeginHandshake
<1>5. ASSUME FindServer PROVE PacketTrue'
  BY <1>5 DEF FindServer
<1>6. ASSUME CheckOutput PROVE PacketTrue'
  BY <1>6 DEF CheckOutput
<1>7. ASSUME Hush PROVE PacketTrue'
  BY <1>7 DEF Hush, Give
<1>8. ASSUME MoveToGame PROVE PacketTrue'
  BY <1>8 DEF MoveToGame
<1>9. ASSUME Unhush PROVE PacketTrue'
  BY <1>9 DEF Unhush, Give
<1>10. ASSUME InitialStatus PROVE PacketTrue'
  BY <1>10 DEF InitialStatus, Ask, Store
<1>11. ASSUME NEW f \in Flags, TakeEvent(f) PROVE PacketTrue'
  BY <1>11 DEF TakeEvent, Reported
<1>12. ASSUME SetFlag PROVE PacketTrue'
  BY <1>12 DEF SetFlag
<1>13. ASSUME NEW f \in Flags, UserChanges(f) PROVE PacketTrue'
  BY <1>13 DEF UserChanges, Give
<1>14. ASSUME NEW t \in ThreadIds, NEW f \in Flags, ReadFlag(t,
     f) PROVE PacketTrue'
  BY <1>14 DEF ReadFlag, AfterRead
<1>15. ASSUME NEW t \in ThreadIds, PostPacket(t) PROVE PacketTrue'
  BY <1>15 DEF PostPacket
<1> QED
  BY <1>1, <1>2, <1>3, <1>4, <1>5, <1>6, <1>7, <1>8, <1>9, <1>10, <1>11, <1>12,
     <1>13, <1>14, <1>15
     DEF Next, UpdateStep, PluginStep, SendStatus

LEMMA SentTrueStep ==
  ASSUME Inv, ~met, ~Overlap, Next, ~met', ~Overlap'
  PROVE  SentTrue'
<1> USE DEF Inv, TypeOK, TypeData, TypePlaces, Truth, Overlap, SentTrue,
            PacketTrue, FilledUpTo, Telling, Stored,
            Goto, Sending, Flags, Mutes, Labels, ThreadIds, link, teamspeak,
            locals
<1>1. ASSUME Connect PROVE SentTrue'
  BY <1>1 DEF Connect
<1>2. ASSUME Abort PROVE SentTrue'
  BY <1>2 DEF Abort
<1>3. ASSUME Lose PROVE SentTrue'
  BY <1>3 DEF Lose
<1>4. ASSUME BeginHandshake PROVE SentTrue'
  BY <1>4 DEF BeginHandshake
<1>5. ASSUME FindServer PROVE SentTrue'
  BY <1>5 DEF FindServer
<1>6. ASSUME CheckOutput PROVE SentTrue'
  BY <1>6 DEF CheckOutput
<1>7. ASSUME Hush PROVE SentTrue'
  BY <1>7 DEF Hush, Give
<1>8. ASSUME MoveToGame PROVE SentTrue'
  BY <1>8 DEF MoveToGame
<1>9. ASSUME Unhush PROVE SentTrue'
  BY <1>9 DEF Unhush, Give
<1>10. ASSUME InitialStatus PROVE SentTrue'
  <2>1. CASE Ask("microphone", "ask.microphone", "store.microphone")
    BY <2>1 DEF Ask
  <2>2. CASE Store("microphone", "store.microphone", "ask.speakers")
    BY <2>2 DEF Store
  <2>3. CASE Ask("speakers", "ask.speakers", "store.speakers")
    BY <2>3 DEF Ask
  <2>4. CASE Store("speakers", "store.speakers", "talking")
    BY <2>4 DEF Store
  <2> QED
    BY <1>10, <2>1, <2>2, <2>3, <2>4 DEF InitialStatus
<1>11. ASSUME NEW f \in Flags, TakeEvent(f) PROVE SentTrue'
  BY <1>11 DEF TakeEvent, Reported
<1>12. ASSUME SetFlag PROVE SentTrue'
  BY <1>12 DEF SetFlag
<1>13. ASSUME NEW f \in Flags, UserChanges(f) PROVE SentTrue'
  BY <1>13 DEF UserChanges, Give
<1>14. ASSUME NEW t \in ThreadIds, NEW f \in Flags, ReadFlag(t,
     f) PROVE SentTrue'
  BY <1>14 DEF ReadFlag, AfterRead
<1>15. ASSUME NEW t \in ThreadIds, PostPacket(t) PROVE SentTrue'
  BY <1>15 DEF PostPacket
<1> QED
  BY <1>1, <1>2, <1>3, <1>4, <1>5, <1>6, <1>7, <1>8, <1>9, <1>10, <1>11, <1>12,
     <1>13, <1>14, <1>15
     DEF Next, UpdateStep, PluginStep, SendStatus

LEMMA CopyTrueStep ==
  ASSUME Inv, ~met, ~Overlap, Next, ~met', ~Overlap'
  PROVE  CopyTrue'
<1> USE DEF Inv, TypeOK, TypeData, TypePlaces, Truth, Overlap, CopyTrue,
            AnswerTrue, AnswerTo, EventTrue, Linked, Kept, Telling, Holding,
            Stored,
            Goto, Sending, Flags, Mutes, Labels, ThreadIds, link, teamspeak,
            locals
<1>1. ASSUME Connect PROVE CopyTrue'
  BY <1>1 DEF Connect
<1>2. ASSUME Abort PROVE CopyTrue'
  BY <1>2 DEF Abort
<1>3. ASSUME Lose PROVE CopyTrue'
  BY <1>3 DEF Lose
<1>4. ASSUME BeginHandshake PROVE CopyTrue'
  BY <1>4 DEF BeginHandshake
<1>5. ASSUME FindServer PROVE CopyTrue'
  BY <1>5 DEF FindServer
<1>6. ASSUME CheckOutput PROVE CopyTrue'
  BY <1>6 DEF CheckOutput
<1>7. ASSUME Hush PROVE CopyTrue'
  <2>1. \A g \in Flags :
          pending'[g] = 0 => pending[g] = 0 /\ real'[g] = real[g]
    BY <1>7, GiveIsReported DEF Hush
  <2> QED
    BY <1>7, <2>1 DEF Hush
<1>8. ASSUME MoveToGame PROVE CopyTrue'
  BY <1>8 DEF MoveToGame
<1>9. ASSUME Unhush PROVE CopyTrue'
  <2>1. \A g \in Flags :
          pending'[g] = 0 => pending[g] = 0 /\ real'[g] = real[g]
    BY <1>9, GiveIsReported DEF Unhush
  <2> QED
    BY <1>9, <2>1 DEF Unhush
<1>10. ASSUME InitialStatus PROVE CopyTrue'
  BY <1>10 DEF InitialStatus, Ask, Store
<1>11. ASSUME NEW f \in Flags, TakeEvent(f) PROVE CopyTrue'
  BY <1>11 DEF TakeEvent, Reported
<1>12. ASSUME SetFlag PROVE CopyTrue'
  BY <1>12 DEF SetFlag
<1>13. ASSUME NEW f \in Flags, UserChanges(f) PROVE CopyTrue'
  BY <1>13 DEF UserChanges, Give
<1>14. ASSUME NEW t \in ThreadIds, NEW f \in Flags, ReadFlag(t,
     f) PROVE CopyTrue'
  BY <1>14 DEF ReadFlag, AfterRead
<1>15. ASSUME NEW t \in ThreadIds, PostPacket(t) PROVE CopyTrue'
  BY <1>15 DEF PostPacket
<1> QED
  BY <1>1, <1>2, <1>3, <1>4, <1>5, <1>6, <1>7, <1>8, <1>9, <1>10, <1>11, <1>12,
     <1>13, <1>14, <1>15
     DEF Next, UpdateStep, PluginStep, SendStatus

LEMMA AnswerTrueStep ==
  ASSUME Inv, ~met, ~Overlap, Next, ~met', ~Overlap', "query" \notin MayFail
  PROVE  AnswerTrue'
<1> USE DEF Inv, TypeOK, TypeData, TypePlaces, Truth, Overlap, AnswerTrue,
            AnswerTo, Linked,
            Goto, Sending, Flags, Mutes, Labels, ThreadIds, link, teamspeak,
            locals
<1>1. ASSUME Connect PROVE AnswerTrue'
  BY <1>1 DEF Connect
<1>2. ASSUME Abort PROVE AnswerTrue'
  BY <1>2 DEF Abort
<1>3. ASSUME Lose PROVE AnswerTrue'
  BY <1>3 DEF Lose
<1>4. ASSUME BeginHandshake PROVE AnswerTrue'
  BY <1>4 DEF BeginHandshake
<1>5. ASSUME FindServer PROVE AnswerTrue'
  BY <1>5 DEF FindServer
<1>6. ASSUME CheckOutput PROVE AnswerTrue'
  BY <1>6 DEF CheckOutput
<1>7. ASSUME Hush PROVE AnswerTrue'
  BY <1>7 DEF Hush, Give
<1>8. ASSUME MoveToGame PROVE AnswerTrue'
  BY <1>8 DEF MoveToGame
<1>9. ASSUME Unhush PROVE AnswerTrue'
  BY <1>9 DEF Unhush, Give
<1>10. ASSUME InitialStatus PROVE AnswerTrue'
  BY <1>10 DEF InitialStatus, Ask, Store, Answers
<1>11. ASSUME NEW f \in Flags, TakeEvent(f) PROVE AnswerTrue'
  BY <1>11 DEF TakeEvent, Reported
<1>12. ASSUME SetFlag PROVE AnswerTrue'
  BY <1>12 DEF SetFlag
<1>13. ASSUME NEW f \in Flags, UserChanges(f) PROVE AnswerTrue'
  BY <1>13 DEF UserChanges, Give
<1>14. ASSUME NEW t \in ThreadIds, NEW f \in Flags, ReadFlag(t,
     f) PROVE AnswerTrue'
  BY <1>14 DEF ReadFlag, AfterRead
<1>15. ASSUME NEW t \in ThreadIds, PostPacket(t) PROVE AnswerTrue'
  BY <1>15 DEF PostPacket
<1> QED
  BY <1>1, <1>2, <1>3, <1>4, <1>5, <1>6, <1>7, <1>8, <1>9, <1>10, <1>11, <1>12,
     <1>13, <1>14, <1>15
     DEF Next, UpdateStep, PluginStep, SendStatus

LEMMA InvStep ==
  ASSUME "query" \notin MayFail
  PROVE  Inv /\ [Next]_vars => Inv'
<1> SUFFICES ASSUME Inv, [Next]_vars PROVE Inv'
  OBVIOUS
<1>1. TypeOK' /\ Linked' /\ EventTrue'
  BY TypeStep, LinkedStep, EventTrueStep DEF Inv
<1>2. MetInv'
  BY DEF Inv, MetInv, Overlap, Next, vars, system
<1>3. met' \/ Truth'
  <2>1. CASE Next /\ ~met'
    <3>1. ~met /\ ~Overlap /\ ~Overlap'
      BY <2>1 DEF Inv, MetInv, Next
    <3> QED
      BY <2>1, <3>1, CopyTrueStep, AnswerTrueStep, SentTrueStep,
         PacketTrueStep DEF Truth
  <2>2. CASE UNCHANGED vars
    BY <2>2 DEF Inv, Truth, CopyTrue, AnswerTrue, AnswerTo, SentTrue,
                PacketTrue, FilledUpTo, Kept, Holding, Telling, Stored, vars,
                system, teamspeak, link, locals
  <2> QED
    BY <2>1, <2>2
<1> QED
  BY <1>1, <1>2, <1>3 DEF Inv

LEMMA InvTrue == Inv => StatusIsTrue
<1> SUFFICES ASSUME Inv, Settled, ~met, NEW f \in vouched \ NoDevice,
                    pending[f] = 0
             PROVE  sent[f] = real[f]
  BY DEF StatusIsTrue
<1>1. f \in Flags /\ ~Holding(f) /\ ~Telling(f) /\ f \notin Stored
  BY DEF Inv, TypeOK, TypeData, Settled, Holding, Telling, Stored, Sending,
         Flags, Mutes
<1> QED
  BY <1>1 DEF Inv, Truth, CopyTrue, SentTrue, Kept

-----------------------------------------------------------------------------
(* The theorems.                                                           *)

\* Every variable of the status has its type, whatever TeamSpeak refuses.
THEOREM StatusTypes == Spec => []TypeOK
<1>1. Init => TypeOK
  BY InitInv DEF Inv
<1> QED
  BY <1>1, TypeStep, PTL DEF Spec

\* Of each flag that a connection has told, the game server has the truth as
\* soon as everything is delivered: for any devices, any number of waiting
\* reports, and a server and a move that may be refused; provided that a
\* question about the sound is answered, and that the threads did not meet.
THEOREM StatusTrue ==
  ASSUME "query" \notin MayFail
  PROVE  Spec => []StatusIsTrue
<1>1. Init => Inv
  BY InitInv
<1>2. Inv /\ [Next]_vars => Inv'
  BY InvStep
<1> QED
  BY <1>1, <1>2, InvTrue, PTL DEF Spec
=============================================================================
