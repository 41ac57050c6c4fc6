-------------------------- MODULE RobotNode_proofs --------------------------
(***************************************************************************)
(* Theorems about RobotNode for every set of Handles, Controllers and      *)
(* streams, and every timing.                                              *)
(***************************************************************************)
EXTENDS RobotNode, TLAPS

\* The parts of TypeOK, by the group of variables they are about.
LinkType ==
    /\ started \in BOOLEAN /\ connected \in BOOLEAN /\ session \in Nat
    /\ hubEpoch \in Nat /\ registered \in BOOLEAN /\ registering \in BOOLEAN
    /\ lastCommand \in Nat

AuthorityType ==
    /\ control \in RobotControlState
    /\ handle \in Handle \cup {NoHandle} /\ expiry \in Nat
    /\ terminal \subseteq Authority

InputType ==
    /\ receiver \in Nat /\ stream \in Streams \cup {NoStream}
    /\ lastSequence \in Nat \cup {-1} /\ lastReceived \in Nat \cup {-1}
    /\ slot \in Frame \cup {NoFrame}

OutsideType ==
    /\ motion \in Motion \cup {NoMotion} /\ sent \in Seq(ToHub)

LEMMA TypeParts ==
    TypeOK <=> /\ LinkType /\ AuthorityType /\ InputType /\ OutsideType
               /\ opened \in Nat /\ parked \in Nat /\ now \in Nat
               /\ cycle \in Speculation \cup {NoCycle}
  BY DEF TypeOK, LinkType, AuthorityType, InputType, OutsideType

LEMMA TypePartsPrimed ==
    TypeOK' <=> /\ LinkType' /\ AuthorityType' /\ InputType' /\ OutsideType'
                /\ opened' \in Nat /\ parked' \in Nat /\ now' \in Nat
                /\ cycle' \in Speculation \cup {NoCycle}
  BY DEF TypeOK, LinkType, AuthorityType, InputType, OutsideType

-----------------------------------------------------------------------------
\* The building blocks.

LEMMA HeldType == ASSUME AuthorityType PROVE Held \subseteq Authority
  BY DEF AuthorityType, Held, Handle

LEMMA DisturbedType ==
    ASSUME cycle \in Speculation \cup {NoCycle}
    PROVE  Disturbed \in Speculation \cup {NoCycle}
  BY DEF Disturbed, Speculation

LEMMA CloseInputType == CloseInput => InputType'
  BY DEF CloseInput, InputType

LEMMA ForgetType ==
    ASSUME AuthorityType, NEW S \in SUBSET Authority, Forget(S)
    PROVE  /\ handle' \in Handle \cup {NoHandle} /\ expiry' \in Nat
           /\ terminal' \subseteq Authority
  BY DEF AuthorityType, Forget

\* HOLD and SAFETY keep the types.
LEMMA EnterHoldType ==
    ASSUME TypeOK, NEW close \in BOOLEAN, NEW lasting \in BOOLEAN,
           NEW safety \in BOOLEAN, NEW fails \in BOOLEAN,
           EnterHold(close, lasting, safety, fails)
    PROVE  AuthorityType' /\ InputType' /\ parked' \in Nat
<1>1. control' \in RobotControlState
  BY DEF EnterHold, RobotControlState
<1>2. /\ handle' \in Handle \cup {NoHandle} /\ expiry' \in Nat
      /\ terminal' \subseteq Authority
  BY TypeParts, HeldType, ForgetType DEF EnterHold, AuthorityType
<1>3. InputType' /\ parked' \in Nat
  BY TypeParts, CloseInputType DEF EnterHold, InputType, input
<1> QED
  BY <1>1, <1>2, <1>3 DEF AuthorityType

LEMMA MessageType ==
    ASSUME TypeOK, NEW a \in Authority \cup {NoHandle}
    PROVE  /\ Message("grant_ack", a) \in ToHub
           /\ Message("renewal_ack", a) \in ToHub
           /\ Message("take_over_ack", a) \in ToHub
           /\ Message("hand_over_ack", a) \in ToHub
           /\ Message("revoke_ack", a) \in ToHub
           /\ Message("force_hold_ack", a) \in ToHub
           /\ Message("robot_ready", a) \in ToHub
           /\ Message("robot_holding", a) \in ToHub
  BY DEF Message, ToHub, TypeOK

LEMMA RegistrationType ==
    ASSUME TypeOK, NEW ok \in BOOLEAN
    PROVE  Registration(ok) \in Seq(ToHub)
<1>1. session + 1 \in Nat
  BY DEF TypeOK
<1>2. [kind |-> "register", session |-> session + 1, authority |-> NoHandle] \in ToHub
  BY <1>1 DEF ToHub
<1> QED
  BY <1>2 DEF Registration

LEMMA SayType ==
    ASSUME NEW m \in Seq(ToHub), Say(m)
    PROVE  OutsideType'
  BY DEF Say, OutsideType

LEMMA OpenSessionType ==
    ASSUME TypeOK, NEW ok \in BOOLEAN, OpenSession(ok), started' \in BOOLEAN
    PROVE  LinkType'
<1>1. connected' \in BOOLEAN /\ registering' \in BOOLEAN /\ registered' \in BOOLEAN
  BY Zenon DEF OpenSession
<1>2. session' \in Nat /\ hubEpoch' \in Nat /\ lastCommand' \in Nat
  BY DEF OpenSession, TypeOK
<1> QED
  BY <1>1, <1>2 DEF LinkType

\* Losing the session keeps the types.
LEMMA LoseManagementType ==
    ASSUME TypeOK, NEW S \in SUBSET Authority, NEW said \in Seq(ToHub),
           NEW ok \in BOOLEAN, opened' \in Nat, LoseManagement(S, said, ok)
    PROVE  TypeOK'
<1>1. LinkType'
  BY OpenSessionType DEF LoseManagement, TypeOK
<1>2. AuthorityType'
  BY TypeParts, ForgetType DEF LoseManagement, AuthorityType, RobotControlState
<1>3. InputType'
  BY CloseInputType DEF LoseManagement
<1>4. said \o Registration(ok) \in Seq(ToHub)
  BY RegistrationType
<1>5. OutsideType'
  BY <1>4, SayType DEF LoseManagement
<1>6. cycle' \in Speculation \cup {NoCycle}
  BY DisturbedType DEF LoseManagement, TypeOK
<1> QED
  BY <1>1, <1>2, <1>3, <1>5, <1>6, TypePartsPrimed DEF LoseManagement, TypeOK

LEMMA UnansweredType ==
    ASSUME TypeOK, NEW S \in SUBSET Authority, NEW said \in Seq(ToHub),
           opened' \in Nat, Unanswered(S, said)
    PROVE  TypeOK'
  BY LoseManagementType DEF Unanswered

LEMMA AnswerType ==
    ASSUME TypeOK, NEW n \in Nat, NEW said \in Seq(ToHub), Answer(n, said)
    PROVE  LinkType' /\ OutsideType' /\ now' \in Nat
<1>1. OutsideType'
  BY SayType DEF Answer
<1> QED
  BY <1>1 DEF Answer, TypeOK, LinkType

-----------------------------------------------------------------------------
\* Type correctness.

LEMMA TypeInit == Init => TypeOK
<1> SUFFICES ASSUME Init PROVE TypeOK
  OBVIOUS
<1>1. LinkType
  <2>1. started \in BOOLEAN /\ connected \in BOOLEAN
        /\ registered \in BOOLEAN /\ registering \in BOOLEAN
    BY Zenon DEF Init
  <2> QED
    BY <2>1 DEF Init, LinkType
<1>2. AuthorityType
  BY DEF Init, AuthorityType, RobotControlState
<1>3. InputType
  BY DEF Init, InputType
<1>4. OutsideType
  BY DEF Init, OutsideType
<1> QED
  BY <1>1, <1>2, <1>3, <1>4, TypeParts DEF Init

\* The environment speaks of typed Handles, epochs and frames.
LEMMA EnvironmentType ==
    ASSUME TypeOK
    PROVE  /\ Handles \subseteq Handle /\ Epochs \subseteq Nat
           /\ Frames \subseteq Frame
<1>1. Authorities \subseteq Authority /\ 1..MaxTime \subseteq Nat
      /\ 0..MaxFrameSequence \subseteq Nat
  BY ConstantsAssumption
<1>2. Handles \subseteq Handle
  BY <1>1 DEF Handles, Handle
<1>3. Epochs \subseteq Nat
  BY <1>1 DEF Epochs, Authority
<1>4. Frames \subseteq Frame
  BY <1>1 DEF Frames, Frame, TypeOK
<1> QED
  BY <1>2, <1>3, <1>4

LEMMA LocalExpiryType ==
    ASSUME TypeOK, NEW h \in Handle PROVE LocalExpiry(h) \in Nat
<1>1. h.expires_at \in Nat /\ now \in Nat /\ HandleTtl \in Nat
  BY ConstantsAssumption DEF TypeOK, Handle
<1> QED
  BY <1>1 DEF LocalExpiry

LEMMA ManagementTypeStep == TypeOK /\ ManagementStep => TypeOK'
<1> SUFFICES ASSUME TypeOK, ManagementStep PROVE TypeOK'
  OBVIOUS
<1>0. /\ 1..MaxSequence \subseteq Nat /\ Handles \subseteq Handle
      /\ Epochs \subseteq Nat
      /\ \A h \in Handle : h.authority \in Authority
      /\ Held \in SUBSET Authority
      /\ <<>> \in Seq(ToHub)
  BY EnvironmentType, ConstantsAssumption, HeldType, TypeParts DEF Handle
<1>1. ASSUME NEW ok \in BOOLEAN, Start(ok) PROVE TypeOK'
  <2>1. started' \in BOOLEAN
    BY <1>1, Zenon DEF Start
  <2>2. LinkType'
    BY <1>1, <2>1, OpenSessionType DEF Start
  <2>3. OutsideType'
    BY <1>1, RegistrationType, SayType DEF Start
  <2>4. AuthorityType' /\ InputType'
    BY <1>1 DEF Start, AuthorityType, InputType, TypeOK, input, RobotControlState
  <2> QED
    BY <1>1, <2>2, <2>3, <2>4, TypePartsPrimed DEF Start, TypeOK
<1>2. ASSUME NEW ok \in BOOLEAN, ManagementLost(ok) PROVE TypeOK'
  BY <1>0, <1>2, LoseManagementType DEF ManagementLost, TypeOK
<1>3. ASSUME NEW ok \in BOOLEAN, Reconnect(ok) PROVE TypeOK'
  <2>1. LinkType'
    BY <1>3, OpenSessionType DEF Reconnect, TypeOK
  <2>2. OutsideType'
    BY <1>3, RegistrationType, SayType DEF Reconnect
  <2>3. AuthorityType' /\ InputType'
    BY <1>3 DEF Reconnect, AuthorityType, InputType, TypeOK, authority, input
  <2> QED
    BY <1>3, <2>1, <2>2, <2>3, TypePartsPrimed DEF Reconnect, TypeOK
<1>4. ASSUME NEW n \in 1..MaxSequence, NEW e \in Epochs,
             NEW answered \in 1..MaxSession, Registered(n, e, answered)
      PROVE  TypeOK'
  <2>1. LinkType'
    BY <1>0, <1>4 DEF Registered, LinkType, TypeOK
  <2>2. OutsideType'
    BY <1>0, <1>4, SayType DEF Registered
  <2>3. AuthorityType' /\ InputType'
    BY <1>4 DEF Registered, AuthorityType, InputType, TypeOK, authority, input
  <2> QED
    BY <1>4, <2>1, <2>2, <2>3, TypePartsPrimed DEF Registered, TypeOK
<1>5. ASSUME NEW n \in 1..MaxSequence, NEW e \in Epochs,
             NEW delivered \in BOOLEAN, NEW fails \in BOOLEAN,
             ForceHoldAll(n, e, delivered, fails)
      PROVE  TypeOK'
  <2>1. opened' \in Nat
    BY <1>5 DEF ForceHoldAll, TypeOK
  <2>2. CASE delivered
    <3>1. <<Message("force_hold_ack", NoHandle)>> \in Seq(ToHub)
      BY MessageType
    <3>2. LinkType' /\ OutsideType' /\ now' \in Nat
      BY <1>0, <1>5, <2>2, <3>1, AnswerType DEF ForceHoldAll
    <3>3. AuthorityType' /\ InputType' /\ parked' \in Nat
      BY <1>5, <2>2, EnterHoldType DEF ForceHoldAll
    <3>4. cycle' \in Speculation \cup {NoCycle}
      BY <1>5, <2>2, DisturbedType DEF ForceHoldAll, TypeOK
    <3> QED
      BY <2>1, <3>2, <3>3, <3>4, TypePartsPrimed
  <2>3. CASE ~delivered
    BY <1>0, <1>5, <2>1, <2>3, UnansweredType DEF ForceHoldAll
  <2> QED
    BY <2>2, <2>3
<1>6. ASSUME NEW n \in 1..MaxSequence, NEW h \in Handles,
             NEW delivered \in BOOLEAN, Grant(n, h, delivered)
      PROVE  TypeOK'
  <2>1. opened' \in Nat /\ h \in Handle /\ h.authority \in Authority
    BY <1>0, <1>6 DEF Grant, TypeOK
  <2>2. CASE delivered
    <3>1. <<Message("grant_ack", h.authority)>> \in Seq(ToHub)
      BY <2>1, MessageType
    <3>2. LinkType' /\ OutsideType' /\ now' \in Nat
      BY <1>0, <1>6, <2>2, <3>1, AnswerType DEF Grant
    <3>3. AuthorityType' /\ InputType'
      BY <1>6, <2>1, <2>2, LocalExpiryType
      DEF Grant, AuthorityType, InputType, TypeOK, input
    <3> QED
      BY <1>6, <2>1, <2>2, <3>2, <3>3, TypePartsPrimed DEF Grant, TypeOK
  <2>3. CASE ~delivered
    BY <1>0, <1>6, <2>1, <2>3, UnansweredType DEF Grant
  <2> QED
    BY <2>2, <2>3
<1>7. ASSUME NEW n \in 1..MaxSequence, NEW h \in Handles,
             NEW delivered \in BOOLEAN, Renewal(n, h, delivered)
      PROVE  TypeOK'
  <2>1. opened' \in Nat /\ h \in Handle /\ h.authority \in Authority
    BY <1>0, <1>7 DEF Renewal, TypeOK
  <2>2. CASE delivered
    <3>1. <<Message("renewal_ack", h.authority)>> \in Seq(ToHub)
      BY <2>1, MessageType
    <3>2. LinkType' /\ OutsideType' /\ now' \in Nat
      BY <1>0, <1>7, <2>2, <3>1, AnswerType DEF Renewal
    <3>3. AuthorityType' /\ InputType'
      BY <1>7, <2>1, <2>2, LocalExpiryType
      DEF Renewal, AuthorityType, InputType, TypeOK, input
    <3> QED
      BY <1>7, <2>1, <2>2, <3>2, <3>3, TypePartsPrimed DEF Renewal, TypeOK
  <2>3. CASE ~delivered
    BY <1>0, <1>7, <2>1, <2>3, UnansweredType DEF Renewal
  <2> QED
    BY <2>2, <2>3
<1>8. ASSUME NEW n \in 1..MaxSequence, NEW h \in Handles, NEW count \in 0..2,
             TakeOver(n, h, count)
      PROVE  TypeOK'
  <2> DEFINE answers == <<Message("robot_ready", h.authority),
                          Message("take_over_ack", h.authority)>>
             said == SubSeq(answers, 1, count)
  <2>1. opened' \in Nat /\ h.authority \in Authority
    BY <1>0, <1>8 DEF TakeOver, TypeOK
  <2>2. said \in Seq(ToHub)
    <3>1. Message("robot_ready", h.authority) \in ToHub
          /\ Message("take_over_ack", h.authority) \in ToHub
      BY <2>1, MessageType
    <3>2. answers \in Seq(ToHub) /\ Len(answers) = 2
      BY <3>1
    <3> HIDE DEF answers
    <3> QED
      BY <3>2
  <2> HIDE DEF said
  <2>3. CASE count = 2
    <3>1. Answer(n, said)
      BY <1>8, <2>3 DEF TakeOver, said
    <3>2. LinkType' /\ OutsideType' /\ now' \in Nat
      BY <1>0, <2>2, <3>1, AnswerType
    <3>3. AuthorityType' /\ InputType'
      BY <1>8, <2>3 DEF TakeOver, AuthorityType, InputType, TypeOK, RobotControlState
    <3>4. cycle' \in Speculation \cup {NoCycle} /\ parked' \in Nat
      BY <1>8, <2>3, DisturbedType DEF TakeOver, TypeOK
    <3> QED
      BY <2>1, <3>2, <3>3, <3>4, TypePartsPrimed
  <2>4. CASE count # 2
    <3>1. Unanswered(Held, said)
      BY <1>8, <2>4 DEF TakeOver, said
    <3> QED
      BY <1>0, <2>1, <2>2, <3>1, UnansweredType
  <2> QED
    BY <2>3, <2>4
<1>9. ASSUME NEW n \in 1..MaxSequence, NEW h \in Handles, TakeOverFails(n, h)
      PROVE  TypeOK'
  <2>1. InputType' /\ OutsideType'
    BY <1>0, <1>9, CloseInputType, SayType DEF TakeOverFails
  <2>2. cycle' \in Speculation \cup {NoCycle}
    BY <1>9, DisturbedType DEF TakeOverFails, TypeOK
  <2>3. LinkType' /\ AuthorityType'
    BY <1>9
    DEF TakeOverFails, LinkType, AuthorityType, TypeOK, link, RobotControlState
  <2> QED
    BY <1>9, <2>1, <2>2, <2>3, TypePartsPrimed DEF TakeOverFails, TypeOK
<1>10. ASSUME NEW n \in 1..MaxSequence, NEW h \in Handles,
              NEW kind \in {"hand_over_ack", "revoke_ack"},
              NEW count \in 0..2, NEW fails \in BOOLEAN,
              EndHandle(n, h, kind, count, fails)
       PROVE  TypeOK'
  <2> DEFINE ack  == Message(kind, h.authority)
             said == IF MatchesCurrentHandle(h)
                     THEN <<Message("robot_holding", h.authority), ack>>
                     ELSE <<ack>>
  <2>1. opened' \in Nat /\ h.authority \in Authority
    BY <1>0, <1>10 DEF EndHandle, TypeOK
  <2>2. said \in Seq(ToHub) /\ count <= Len(said)
    <3>1. Message("robot_holding", h.authority) \in ToHub /\ ack \in ToHub
      BY <2>1, MessageType
    <3>2. count <= Len(said)
      BY <1>10 DEF EndHandle
    <3> HIDE DEF ack
    <3> QED
      BY <3>1, <3>2
  <2>3. SubSeq(said, 1, count) \in Seq(ToHub)
    <3> HIDE DEF said
    <3> QED
      BY <2>2
  <2> HIDE DEF said
  <2>4. CASE count = Len(said)
    <3>1. Answer(n, said)
      BY <1>10, <2>4 DEF EndHandle, said
    <3>2. LinkType' /\ OutsideType' /\ now' \in Nat
      BY <1>0, <2>2, <3>1, AnswerType
    <3>3. /\ AuthorityType' /\ InputType' /\ parked' \in Nat
          /\ cycle' \in Speculation \cup {NoCycle}
      <4>1. CASE MatchesCurrentHandle(h)
        BY <1>10, <2>4, <4>1, EnterHoldType, DisturbedType
        DEF EndHandle, said, TypeOK
      <4>2. CASE ~MatchesCurrentHandle(h)
        BY <1>10, <2>4, <4>2
        DEF EndHandle, said, TypeOK, AuthorityType, InputType, authority, input
      <4> QED
        BY <4>1, <4>2
    <3> QED
      BY <2>1, <3>2, <3>3, TypePartsPrimed
  <2>5. CASE count # Len(said)
    <3>1. Unanswered(Held, SubSeq(said, 1, count))
      BY <1>10, <2>5 DEF EndHandle, said
    <3> QED
      BY <1>0, <2>1, <2>3, <3>1, UnansweredType
  <2> QED
    BY <2>4, <2>5
<1>11. ASSUME NEW n \in 1..MaxSequence, NEW h \in Handles,
              NEW delivered \in BOOLEAN, NEW fails \in BOOLEAN,
              ForceHold(n, h, delivered, fails)
       PROVE  TypeOK'
  <2>1. opened' \in Nat /\ h.authority \in Authority
    BY <1>0, <1>11 DEF ForceHold, TypeOK
  <2>2. CASE delivered
    <3>1. <<Message("force_hold_ack", h.authority)>> \in Seq(ToHub)
      BY <2>1, MessageType
    <3>2. LinkType' /\ OutsideType' /\ now' \in Nat
      BY <1>0, <1>11, <2>2, <3>1, AnswerType DEF ForceHold
    <3>3. AuthorityType' /\ InputType' /\ parked' \in Nat
      BY <1>11, <2>2, EnterHoldType DEF ForceHold
    <3>4. cycle' \in Speculation \cup {NoCycle}
      BY <1>11, <2>2, DisturbedType DEF ForceHold, TypeOK
    <3> QED
      BY <2>1, <3>2, <3>3, <3>4, TypePartsPrimed
  <2>3. CASE ~delivered
    BY <1>0, <1>11, <2>1, <2>3, UnansweredType DEF ForceHold
  <2> QED
    BY <2>2, <2>3
<1> QED
  BY <1>1, <1>2, <1>3, <1>4, <1>5, <1>6, <1>7, <1>8, <1>9, <1>10, <1>11
  DEF ManagementStep

\* A step that says something and otherwise only holds the Robot.
LEMMA LocalHoldType ==
    ASSUME TypeOK, NEW close \in BOOLEAN, NEW lasting \in BOOLEAN,
           NEW safety \in BOOLEAN, NEW fails \in BOOLEAN,
           EnterHold(close, lasting, safety, fails),
           LinkType', opened' = opened, now' = now, OutsideType',
           cycle' \in Speculation \cup {NoCycle}
    PROVE  TypeOK'
  BY EnterHoldType, TypePartsPrimed DEF TypeOK

LEMMA LinkUnchangedType == TypeOK /\ UNCHANGED link => LinkType'
  BY DEF TypeOK, LinkType, link

LEMMA LocalTypeStep == TypeOK /\ LocalStep => TypeOK'
<1> SUFFICES ASSUME TypeOK, NEW fails \in BOOLEAN,
                    \/ Stop(fails) \/ HandleExpired(fails) \/ EnterSafety(fails)
                    \/ Watchdog(fails) \/ RejectFrame(fails) \/ DropAction(fails)
                    \/ \E distrust \in BOOLEAN : ProcessorDeclines(distrust, fails)
                    \/ \E raises \in BOOLEAN : SendAction(raises, fails)
             PROVE  TypeOK'
  BY DEF LocalStep
<1>0. /\ <<>> \in Seq(ToHub)
      /\ Disturbed \in Speculation \cup {NoCycle}
      /\ TRUE \in BOOLEAN /\ FALSE \in BOOLEAN
  BY DisturbedType DEF TypeOK
<1>1. CASE Stop(fails)
  <2>1. LinkType'
    BY <1>1 DEF Stop, LinkType, TypeOK
  <2>2. OutsideType'
    BY <1>0, <1>1, SayType DEF Stop
  <2>3. cycle' \in Speculation \cup {NoCycle}
    BY <1>0, <1>1 DEF Stop
  <2> QED
    BY <1>0, <1>1, <2>1, <2>2, <2>3, LocalHoldType DEF Stop
<1>2. CASE HandleExpired(fails)
  <2>1. OutsideType' /\ cycle' \in Speculation \cup {NoCycle}
    BY <1>0, <1>2, SayType DEF HandleExpired
  <2> QED
    BY <1>0, <1>2, <2>1, LinkUnchangedType, LocalHoldType DEF HandleExpired
<1>3. CASE EnterSafety(fails)
  <2>1. OutsideType' /\ cycle' \in Speculation \cup {NoCycle}
    BY <1>0, <1>3, SayType DEF EnterSafety
  <2> QED
    BY <1>0, <1>3, <2>1, LinkUnchangedType, LocalHoldType DEF EnterSafety
<1>4. CASE Watchdog(fails)
  <2>1. OutsideType' /\ cycle' \in Speculation \cup {NoCycle}
    BY <1>0, <1>4, SayType DEF Watchdog, TypeOK
  <2> QED
    BY <1>0, <1>4, <2>1, LinkUnchangedType, LocalHoldType DEF Watchdog
<1>5. CASE RejectFrame(fails)
  <2>1. OutsideType' /\ cycle' \in Speculation \cup {NoCycle}
    BY <1>0, <1>5, SayType DEF RejectFrame, TypeOK
  <2> QED
    BY <1>0, <1>5, <2>1, LinkUnchangedType, LocalHoldType DEF RejectFrame
<1>6. CASE DropAction(fails)
  <2>1. LinkType' /\ OutsideType' /\ cycle' \in Speculation \cup {NoCycle}
    BY <1>0, <1>6, SayType, LinkUnchangedType DEF DropAction
  <2>2. CASE AuthorityUnchanged /\ (Expired \/ InputUnchanged)
    <3>1. CASE Expired
      <4>1. EnterHold(TRUE, TRUE, FALSE, fails)
        BY <1>6, <2>2, <3>1 DEF DropAction, EnterHold
      <4> QED
        BY <1>0, <1>6, <2>1, <4>1, LocalHoldType DEF DropAction
    <3>2. CASE ~Expired
      <4>1. EnterHold(TRUE, FALSE, FALSE, fails)
        BY <1>6, <2>2, <3>2 DEF DropAction, EnterHold
      <4> QED
        BY <1>0, <1>6, <2>1, <4>1, LocalHoldType DEF DropAction
    <3> QED
      BY <3>1, <3>2
  <2>3. CASE ~(AuthorityUnchanged /\ (Expired \/ InputUnchanged))
    BY <1>6, <2>1, <2>3, TypePartsPrimed
    DEF DropAction, TypeOK, AuthorityType, InputType, authority, input
  <2> QED
    BY <2>2, <2>3
<1>7. ASSUME NEW distrust \in BOOLEAN, ProcessorDeclines(distrust, fails)
      PROVE  TypeOK'
  <2>1. LinkType' /\ OutsideType' /\ cycle' \in Speculation \cup {NoCycle}
    BY <1>0, <1>7, SayType, LinkUnchangedType DEF ProcessorDeclines
  <2>2. CASE AuthorityUnchanged /\ InputUnchanged
    BY <1>0, <1>7, <2>1, <2>2, LocalHoldType DEF ProcessorDeclines
  <2>3. CASE ~(AuthorityUnchanged /\ InputUnchanged)
    BY <1>7, <2>1, <2>3, TypePartsPrimed
    DEF ProcessorDeclines, TypeOK, AuthorityType, InputType, authority, input
  <2> QED
    BY <2>2, <2>3
<1>8. ASSUME NEW raises \in BOOLEAN, SendAction(raises, fails) PROVE TypeOK'
  <2>1. motion' \in Motion
    BY <1>8 DEF SendAction, TypeOK, Speculation, Motion
  <2>2. LinkType' /\ OutsideType' /\ cycle' \in Speculation \cup {NoCycle}
    BY <1>0, <1>8, <2>1, LinkUnchangedType DEF SendAction, OutsideType
  <2>3. CASE raises
    BY <1>0, <1>8, <2>2, <2>3, LocalHoldType DEF SendAction
  <2>4. CASE ~raises
    BY <1>8, <2>2, <2>4, TypePartsPrimed
    DEF SendAction, TypeOK, AuthorityType, InputType, input, RobotControlState
  <2> QED
    BY <2>3, <2>4
<1> QED
  BY <1>1, <1>2, <1>3, <1>4, <1>5, <1>6, <1>7, <1>8

LEMMA TakenType == TypeOK /\ slot # NoFrame => Taken \in Frame
  BY DEF TypeOK, Taken, Frame

LEMMA RestTypeStep ==
    ASSUME TypeOK,
           ClearSafety \/ TakeFrame \/ Tick \/ (\E f \in Frames : FrameArrives(f))
    PROVE  TypeOK'
<1>0. <<>> \in Seq(ToHub)
  OBVIOUS
<1>1. CASE ClearSafety
  BY <1>0, <1>1, SayType, LinkUnchangedType, TypePartsPrimed
  DEF ClearSafety, TypeOK, AuthorityType, InputType, input, RobotControlState
<1>2. CASE TakeFrame
  <2>1. Taken \in Frame
    BY <1>2, TakenType DEF TakeFrame
  <2>2. handle \in Handle
    BY <1>2 DEF TakeFrame, CycleRuns, TypeOK
  <2>3. cycle' \in Speculation
    BY <1>2, <2>1, <2>2 DEF TakeFrame, Speculation, Handle, TypeOK
  <2>4. InputType'
    BY <1>2, <2>1 DEF TakeFrame, InputType, Frame, TypeOK
  <2>5. AuthorityType'
    BY <1>2 DEF TakeFrame, AuthorityType, TypeOK, authority
  <2> QED
    BY <1>0, <1>2, <2>3, <2>4, <2>5, SayType, LinkUnchangedType, TypePartsPrimed
    DEF TakeFrame, TypeOK
<1>3. CASE Tick
  <2>1. LinkType' /\ OutsideType'
    BY <1>0, <1>3, SayType, LinkUnchangedType DEF Tick
  <2> QED
    BY <1>3, <2>1, TypePartsPrimed
    DEF Tick, TypeOK, AuthorityType, InputType, authority, input
<1>4. ASSUME NEW f \in Frames, FrameArrives(f) PROVE TypeOK'
  <2>1. LinkType' /\ OutsideType'
    BY <1>0, <1>4, SayType, LinkUnchangedType DEF FrameArrives
  <2>2. InputType'
    BY <1>4, EnvironmentType DEF FrameArrives, InputType, TypeOK
  <2> QED
    BY <1>4, <2>1, <2>2, TypePartsPrimed
    DEF FrameArrives, TypeOK, AuthorityType, authority
<1> QED
  BY <1>1, <1>2, <1>3, <1>4

LEMMA TypeStep == TypeOK /\ [Next]_vars => TypeOK'
<1> SUFFICES ASSUME TypeOK, [Next]_vars PROVE TypeOK'
  OBVIOUS
<1>1. CASE UNCHANGED vars
  BY <1>1 DEF vars, link, authority, input, TypeOK
<1> QED
  BY <1>1, ManagementTypeStep, LocalTypeStep, RestTypeStep DEF Next

\* Every reachable state has the declared types: whatever is granted, renewed,
\* interrupted or lost, the cached Handle, the open receiver and the
\* speculation of the control cycle stay well formed.
THEOREM TypeCorrect == Spec => []TypeOK
  BY TypeInit, TypeStep, PTL DEF Spec

-----------------------------------------------------------------------------
(* The inductive invariant.  InputNeedsAuthority is not inductive: a        *)
(* speculation may put the node into CONTROLLING, so it must be known to    *)
(* have come from a receiver and to carry the authority it was checked      *)
(* against; and a grant must find a session that is not being replaced.     *)

\* A session that was answered waits for no answer.
AnswerSettled == ~(registered /\ registering)

\* The open receiver is the latest one and no HOLD has closed it.
ReceiverFresh ==
    /\ parked <= opened
    /\ receiver # 0 => receiver = opened /\ receiver > parked

\* The first phase captured a frame of the authority it captured.
SpeculationSound ==
    cycle # NoCycle => /\ cycle.receiver # 0
                       /\ cycle.frame.authority = cycle.authority

Guarded == /\ AnswerSettled /\ HandleOfThisSession /\ InputNeedsAuthority
           /\ ReceiverFresh /\ SpeculationSound

LEMMA GuardedInit == Init => Guarded
  BY DEF Init, Guarded, AnswerSettled, HandleOfThisSession, InputNeedsAuthority,
         ReceiverFresh, SpeculationSound

LEMMA GuardedParts ==
    Guarded' <=> /\ AnswerSettled' /\ HandleOfThisSession' /\ InputNeedsAuthority'
                 /\ ReceiverFresh' /\ SpeculationSound'
  BY DEF Guarded

LEMMA SpeculationKept ==
    ASSUME TypeOK, Guarded, cycle' \in {cycle, NoCycle, Disturbed}
    PROVE  SpeculationSound'
<1>1. CASE cycle' = cycle
  BY <1>1 DEF Guarded, SpeculationSound
<1>2. CASE cycle' = NoCycle
  BY <1>2 DEF SpeculationSound
<1>3. CASE cycle' = Disturbed
  BY <1>3 DEF Guarded, SpeculationSound, Disturbed, TypeOK, Speculation
<1> QED
  BY <1>1, <1>2, <1>3

\* Without a Handle nothing is left to protect but the counters.
LEMMA ParkedSound ==
    ASSUME TypeOK, Guarded, handle' = NoHandle, receiver' = 0,
           control' \in {"HOLD", "SAFETY"}, opened' \in Nat,
           parked' <= opened', AnswerSettled',
           cycle' \in {cycle, NoCycle, Disturbed}
    PROVE  Guarded'
<1>1. SpeculationSound'
  BY SpeculationKept
<1> QED
  BY <1>1, GuardedParts
  DEF HandleOfThisSession, InputNeedsAuthority, ReceiverFresh

LEMMA OpenSessionSettles == \A ok \in BOOLEAN : OpenSession(ok) => AnswerSettled'
  BY DEF OpenSession, AnswerSettled

LEMMA LoseManagementSound ==
    ASSUME TypeOK, Guarded, NEW S, NEW said, NEW ok \in BOOLEAN, opened' \in Nat,
           LoseManagement(S, said, ok)
    PROVE  Guarded'
<1>1. AnswerSettled'
  BY OpenSessionSettles DEF LoseManagement
<1>2. handle' = NoHandle /\ receiver' = 0
  BY DEF LoseManagement, Forget, CloseInput
<1>3. control' \in {"HOLD", "SAFETY"}
  BY DEF LoseManagement
<1>4. parked' <= opened' /\ cycle' = Disturbed
  BY DEF LoseManagement
<1> QED
  BY <1>1, <1>2, <1>3, <1>4, ParkedSound

LEMMA UnansweredSound ==
    ASSUME TypeOK, Guarded, NEW S, NEW said, opened' \in Nat, Unanswered(S, said)
    PROVE  Guarded'
  BY LoseManagementSound DEF Unanswered

\* HOLD of any kind, by a command or by a local cause.
LEMMA EnterHoldSound ==
    ASSUME TypeOK, Guarded, NEW close \in BOOLEAN, NEW lasting \in BOOLEAN,
           NEW safety \in BOOLEAN, NEW fails \in BOOLEAN,
           lasting => close, safety => lasting,
           EnterHold(close, lasting, safety, fails),
           opened' = opened, AnswerSettled',
           handle # NoHandle => UNCHANGED <<started, connected, session, hubEpoch,
                                            registered, registering>>
                                \/ lasting,
           cycle' \in {cycle, NoCycle, Disturbed}
    PROVE  Guarded' /\ control' # "CONTROLLING"
<1>1. SpeculationSound'
  BY SpeculationKept
<1>2. control' \in {"HOLD", "SAFETY"}
  BY DEF EnterHold
<1>3. /\ handle' \in {handle, NoHandle}
      /\ handle' # NoHandle => /\ handle' = handle /\ terminal' = terminal
                               /\ ~lasting
  BY DEF EnterHold, Forget
<1>4. HandleOfThisSession'
  BY <1>3 DEF Guarded, HandleOfThisSession, KnownTerminal
<1>5. \/ receiver' = 0 /\ parked' = opened
      \/ receiver' = receiver /\ parked' = parked /\ ~close /\ ~fails
  BY DEF EnterHold, CloseInput, input
<1>6. ReceiverFresh'
  BY <1>5 DEF Guarded, ReceiverFresh, TypeOK
<1>7. InputNeedsAuthority'
  <2>1. receiver' # 0 => handle' = handle /\ receiver' = receiver /\ ~lasting
    BY <1>5 DEF EnterHold
  <2>2. control' = "SAFETY" => control = "SAFETY" \/ lasting
    BY DEF EnterHold
  <2> QED
    BY <1>2, <1>3, <2>1, <2>2 DEF Guarded, InputNeedsAuthority, EnterHold, Forget
<1> QED
  BY <1>1, <1>2, <1>4, <1>6, <1>7, GuardedParts

LEMMA ManagementGuarded == TypeOK /\ Guarded /\ ManagementStep => Guarded'
<1> SUFFICES ASSUME TypeOK, Guarded, ManagementStep PROVE Guarded'
  OBVIOUS
<1>0. opened \in Nat /\ TRUE \in BOOLEAN /\ FALSE \in BOOLEAN
  BY DEF TypeOK
<1>1. ASSUME NEW ok \in BOOLEAN, Start(ok) PROVE Guarded'
  <2>1. handle = NoHandle
    BY <1>1 DEF Start, Guarded, HandleOfThisSession
  <2>2. receiver = 0
    BY <2>1 DEF Guarded, InputNeedsAuthority
  <2>3. AnswerSettled'
    BY <1>1, OpenSessionSettles DEF Start
  <2> QED
    BY <1>0, <1>1, <2>1, <2>2, <2>3, ParkedSound
    DEF Start, input, Guarded, ReceiverFresh
<1>2. ASSUME NEW ok \in BOOLEAN, ManagementLost(ok) PROVE Guarded'
  BY <1>0, <1>2, LoseManagementSound DEF ManagementLost
<1>3. ASSUME NEW ok \in BOOLEAN, Reconnect(ok) PROVE Guarded'
  <2>1. handle = NoHandle
    BY <1>3 DEF Reconnect, Guarded, HandleOfThisSession
  <2>2. receiver = 0 /\ control \in {"HOLD", "SAFETY"}
    BY <2>1 DEF Guarded, InputNeedsAuthority, TypeOK, RobotControlState
  <2>3. AnswerSettled'
    BY <1>3, OpenSessionSettles DEF Reconnect
  <2> QED
    BY <1>0, <1>3, <2>1, <2>2, <2>3, ParkedSound
    DEF Reconnect, input, authority, Guarded, ReceiverFresh
<1>4. ASSUME NEW n, NEW e, NEW answered, Registered(n, e, answered)
      PROVE  Guarded'
  <2>1. handle = NoHandle
    BY <1>4 DEF Registered, Guarded, HandleOfThisSession
  <2>2. receiver = 0 /\ control \in {"HOLD", "SAFETY"}
    BY <2>1 DEF Guarded, InputNeedsAuthority, TypeOK, RobotControlState
  <2> QED
    BY <1>0, <1>4, <2>1, <2>2, ParkedSound
    DEF Registered, AnswerSettled, input, authority, Guarded, ReceiverFresh
<1>5. ASSUME NEW n, NEW e, NEW delivered \in BOOLEAN, NEW fails \in BOOLEAN,
             ForceHoldAll(n, e, delivered, fails)
      PROVE  Guarded'
  <2>1. CASE delivered
    BY <1>0, <1>5, <2>1, EnterHoldSound
    DEF ForceHoldAll, Answer, Guarded, AnswerSettled
  <2>2. CASE ~delivered
    BY <1>0, <1>5, <2>2, UnansweredSound DEF ForceHoldAll
  <2> QED
    BY <2>1, <2>2
<1>6. ASSUME NEW n, NEW h, NEW delivered \in BOOLEAN, Grant(n, h, delivered)
      PROVE  Guarded'
  <2>1. CASE delivered
    <3>1. /\ started' /\ connected' /\ registered' /\ ~registering'
          /\ hubEpoch' = h.authority.hub_epoch /\ session' = h.authority.robot_session
      BY <1>6, <2>1
      DEF Grant, Answer, Command, AcceptsHandle, Guarded, AnswerSettled
    <3>2. handle = NoHandle => handle' = h /\ ~KnownTerminal(h)
      BY <1>6, <2>1 DEF Grant, AcceptsHandle
    <3>3. handle # NoHandle => handle' = handle
      BY <1>6, <2>1 DEF Grant
    <3>4. terminal' = terminal /\ UNCHANGED <<session, hubEpoch>>
      BY <1>6, <2>1 DEF Grant, Answer
    <3>5. HandleOfThisSession'
      BY <3>1, <3>2, <3>3, <3>4 DEF Guarded, HandleOfThisSession, KnownTerminal
    <3>6. UNCHANGED <<control, receiver, opened, parked, cycle>>
      BY <1>6, <2>1 DEF Grant, input
    <3>7. SpeculationSound' /\ AnswerSettled' /\ ReceiverFresh'
      BY <3>1, <3>6 DEF Guarded, AnswerSettled, SpeculationSound, ReceiverFresh
    <3>8. InputNeedsAuthority'
      BY <1>6, <3>2, <3>3, <3>6 DEF Grant, Guarded, InputNeedsAuthority
    <3> QED
      BY <3>5, <3>7, <3>8, GuardedParts
  <2>2. CASE ~delivered
    BY <1>0, <1>6, <2>2, UnansweredSound DEF Grant
  <2> QED
    BY <2>1, <2>2
<1>7. ASSUME NEW n, NEW h \in Handles, NEW delivered \in BOOLEAN,
             Renewal(n, h, delivered)
      PROVE  Guarded'
  <2>1. CASE delivered
    <3>1. /\ UNCHANGED <<started, connected, session, hubEpoch, registered,
                         registering, terminal, control, receiver, opened,
                         parked, cycle>>
          /\ handle # NoHandle /\ handle' = h /\ h.authority = handle.authority
      BY <1>7, <2>1 DEF Renewal, Answer, input
    <3>2. h # NoHandle
      BY EnvironmentType, ConstantsAssumption
    <3>3. HandleOfThisSession'
      BY <3>1, <3>2 DEF Guarded, HandleOfThisSession, KnownTerminal
    <3> QED
      BY <3>1, <3>2, <3>3, GuardedParts
      DEF Guarded, AnswerSettled, InputNeedsAuthority, SpeculationSound, ReceiverFresh
  <2>2. CASE ~delivered
    BY <1>0, <1>7, <2>2, UnansweredSound DEF Renewal
  <2> QED
    BY <2>1, <2>2
<1>8. ASSUME NEW n, NEW h, NEW count, TakeOver(n, h, count) PROVE Guarded'
  <2>1. opened' = opened + 1 /\ opened' \in Nat
    BY <1>0, <1>8 DEF TakeOver
  <2>2. CASE count = 2
    <3>1. handle # NoHandle /\ handle' = handle /\ terminal' = terminal
      BY <1>8, <2>2 DEF TakeOver, CanTakeOver, MatchesCurrentHandle
    <3>2. UNCHANGED <<started, connected, session, hubEpoch, registered, registering>>
      BY <1>8, <2>2 DEF TakeOver, Answer
    <3>3. HandleOfThisSession' /\ AnswerSettled'
      BY <3>1, <3>2 DEF Guarded, HandleOfThisSession, KnownTerminal, AnswerSettled
    <3>4. ReceiverFresh' /\ InputNeedsAuthority'
      BY <1>0, <1>8, <2>2, <3>1
      DEF TakeOver, Guarded, ReceiverFresh, InputNeedsAuthority, TypeOK
    <3>5. SpeculationSound'
      BY <1>8, <2>2, SpeculationKept DEF TakeOver
    <3> QED
      BY <3>3, <3>4, <3>5, GuardedParts
  <2>3. CASE count # 2
    BY <1>8, <2>1, <2>3, UnansweredSound DEF TakeOver
  <2> QED
    BY <2>2, <2>3
<1>9. ASSUME NEW n, NEW h, TakeOverFails(n, h) PROVE Guarded'
  <2>1. SpeculationSound'
    BY <1>9, SpeculationKept DEF TakeOverFails
  <2>2. HandleOfThisSession' /\ AnswerSettled'
    BY <1>9
    DEF TakeOverFails, Guarded, HandleOfThisSession, KnownTerminal, AnswerSettled, link
  <2>3. ReceiverFresh' /\ InputNeedsAuthority'
    BY <1>9
    DEF TakeOverFails, CloseInput, Guarded, ReceiverFresh, InputNeedsAuthority
  <2> QED
    BY <2>1, <2>2, <2>3, GuardedParts
<1>10. ASSUME NEW n, NEW h, NEW kind, NEW count, NEW fails \in BOOLEAN,
              EndHandle(n, h, kind, count, fails)
       PROVE  Guarded'
  <2> DEFINE said == IF MatchesCurrentHandle(h)
                     THEN <<Message("robot_holding", h.authority),
                            Message(kind, h.authority)>>
                     ELSE <<Message(kind, h.authority)>>
  <2>1. CASE count = Len(said)
    <3>1. Answer(n, said) /\ opened' = opened
      BY <1>10, <2>1 DEF EndHandle
    <3>2. UNCHANGED <<started, connected, session, hubEpoch, registered, registering>>
      BY <3>1 DEF Answer
    <3>3. CASE MatchesCurrentHandle(h)
      <4>1. EnterHold(TRUE, TRUE, FALSE, fails) /\ cycle' = Disturbed
        BY <1>10, <2>1, <3>3 DEF EndHandle
      <4>2. AnswerSettled'
        BY <3>2 DEF Guarded, AnswerSettled
      <4> QED
        BY <1>0, <3>1, <3>2, <4>1, <4>2, EnterHoldSound
    <3>4. CASE ~MatchesCurrentHandle(h)
      <4>1. UNCHANGED <<authority, input, cycle, parked>>
        BY <1>10, <2>1, <3>4 DEF EndHandle
      <4> QED
        BY <3>1, <3>2, <4>1, GuardedParts
        DEF Guarded, AnswerSettled, HandleOfThisSession, KnownTerminal,
            InputNeedsAuthority, SpeculationSound, ReceiverFresh, authority, input
    <3> QED
      BY <3>3, <3>4
  <2>2. CASE count # Len(said)
    BY <1>0, <1>10, <2>2, UnansweredSound DEF EndHandle
  <2> QED
    BY <2>1, <2>2
<1>11. ASSUME NEW n, NEW h, NEW delivered \in BOOLEAN, NEW fails \in BOOLEAN,
              ForceHold(n, h, delivered, fails)
       PROVE  Guarded'
  <2>1. CASE delivered
    BY <1>0, <1>11, <2>1, EnterHoldSound
    DEF ForceHold, Answer, Guarded, AnswerSettled
  <2>2. CASE ~delivered
    BY <1>0, <1>11, <2>2, UnansweredSound DEF ForceHold
  <2> QED
    BY <2>1, <2>2
<1> QED
  BY <1>1, <1>2, <1>3, <1>4, <1>5, <1>6, <1>7, <1>8, <1>9, <1>10, <1>11
  DEF ManagementStep

LEMMA LocalGuarded == TypeOK /\ Guarded /\ LocalStep => Guarded'
<1> SUFFICES ASSUME TypeOK, Guarded, NEW fails \in BOOLEAN,
                    \/ Stop(fails) \/ HandleExpired(fails) \/ EnterSafety(fails)
                    \/ Watchdog(fails) \/ RejectFrame(fails) \/ DropAction(fails)
                    \/ \E distrust \in BOOLEAN : ProcessorDeclines(distrust, fails)
                    \/ \E raises \in BOOLEAN : SendAction(raises, fails)
             PROVE  Guarded'
  BY DEF LocalStep
<1>0. TRUE \in BOOLEAN /\ FALSE \in BOOLEAN
  OBVIOUS
<1>l. UNCHANGED link => /\ AnswerSettled'
                        /\ UNCHANGED <<started, connected, session, hubEpoch,
                                       registered, registering>>
  BY DEF link, Guarded, AnswerSettled
<1>1. CASE Stop(fails)
  BY <1>0, <1>1, EnterHoldSound DEF Stop, Guarded, AnswerSettled
<1>2. CASE HandleExpired(fails)
  BY <1>0, <1>2, <1>l, EnterHoldSound DEF HandleExpired
<1>3. CASE EnterSafety(fails)
  BY <1>0, <1>3, <1>l, EnterHoldSound DEF EnterSafety
<1>4. CASE Watchdog(fails)
  BY <1>0, <1>4, <1>l, EnterHoldSound DEF Watchdog
<1>5. CASE RejectFrame(fails)
  BY <1>0, <1>5, <1>l, EnterHoldSound DEF RejectFrame
<1>u. ASSUME UNCHANGED <<link, authority, input, opened, parked>>, cycle' = NoCycle
      PROVE  Guarded'
  BY <1>l, <1>u, GuardedParts
  DEF Guarded, HandleOfThisSession, KnownTerminal, InputNeedsAuthority,
      SpeculationSound, ReceiverFresh, authority, input
<1>6. CASE DropAction(fails)
  <2>1. UNCHANGED <<link, opened>> /\ cycle' = NoCycle
    BY <1>6 DEF DropAction
  <2>2. CASE AuthorityUnchanged /\ (Expired \/ InputUnchanged)
    <3>1. EnterHold(TRUE, TRUE, FALSE, fails) \/ EnterHold(TRUE, FALSE, FALSE, fails)
      BY <1>6, <2>2 DEF DropAction, EnterHold
    <3> QED
      BY <1>0, <1>l, <2>1, <3>1, EnterHoldSound
  <2>3. CASE ~(AuthorityUnchanged /\ (Expired \/ InputUnchanged))
    BY <1>6, <1>u, <2>1, <2>3 DEF DropAction
  <2> QED
    BY <2>2, <2>3
<1>7. ASSUME NEW distrust \in BOOLEAN, ProcessorDeclines(distrust, fails)
      PROVE  Guarded'
  <2>1. UNCHANGED <<link, opened>> /\ cycle' = NoCycle
    BY <1>7 DEF ProcessorDeclines
  <2>2. CASE AuthorityUnchanged /\ InputUnchanged
    BY <1>0, <1>7, <1>l, <2>1, <2>2, EnterHoldSound DEF ProcessorDeclines
  <2>3. CASE ~(AuthorityUnchanged /\ InputUnchanged)
    BY <1>7, <1>u, <2>1, <2>3 DEF ProcessorDeclines
  <2> QED
    BY <2>2, <2>3
<1>8. ASSUME NEW raises \in BOOLEAN, SendAction(raises, fails) PROVE Guarded'
  <2>1. CASE raises
    BY <1>0, <1>8, <1>l, <2>1, EnterHoldSound DEF SendAction
  <2>2. CASE ~raises
    <3>1. handle # NoHandle /\ receiver # 0
      BY <1>8
      DEF SendAction, MaySend, AuthorityUnchanged, InputUnchanged,
          Guarded, SpeculationSound
    <3>2. /\ UNCHANGED <<link, handle, terminal, input, opened, parked>>
          /\ control' = "CONTROLLING" /\ cycle' = NoCycle
      BY <1>8, <2>2 DEF SendAction
    <3> QED
      BY <1>l, <3>1, <3>2, GuardedParts
      DEF Guarded, HandleOfThisSession, KnownTerminal, InputNeedsAuthority,
          SpeculationSound, ReceiverFresh, input
  <2> QED
    BY <2>1, <2>2
<1> QED
  BY <1>1, <1>2, <1>3, <1>4, <1>5, <1>6, <1>7, <1>8

LEMMA RestGuarded ==
    ASSUME TypeOK, Guarded,
           ClearSafety \/ TakeFrame \/ Tick \/ (\E f \in Frames : FrameArrives(f))
    PROVE  Guarded'
<1>1. AnswerSettled' /\ HandleOfThisSession'
  BY DEF ClearSafety, TakeFrame, Tick, FrameArrives, link, authority, Guarded,
         AnswerSettled, HandleOfThisSession, KnownTerminal
<1>2. UNCHANGED <<handle, receiver, opened, parked>>
      /\ (control' = control \/ control' = "HOLD")
  BY DEF ClearSafety, TakeFrame, Tick, FrameArrives, authority, input
<1>3. InputNeedsAuthority' /\ ReceiverFresh'
  BY <1>2 DEF Guarded, InputNeedsAuthority, ReceiverFresh
<1>4. SpeculationSound'
  <2>1. CASE TakeFrame
    <3>1. receiver # 0 /\ Taken.authority = handle.authority
      BY <2>1 DEF TakeFrame, CycleRuns, ValidFrame
    <3> QED
      BY <2>1, <3>1 DEF TakeFrame, SpeculationSound
  <2>2. CASE ~TakeFrame
    BY <2>2 DEF ClearSafety, Tick, FrameArrives, Guarded, SpeculationSound
  <2> QED
    BY <2>1, <2>2
<1> QED
  BY <1>1, <1>3, <1>4, GuardedParts

LEMMA GuardedStep == TypeOK /\ Guarded /\ [Next]_vars => Guarded'
<1> SUFFICES ASSUME TypeOK, Guarded, [Next]_vars PROVE Guarded'
  OBVIOUS
<1>1. CASE UNCHANGED vars
  BY <1>1, GuardedParts
  DEF vars, link, authority, input, Guarded, AnswerSettled, HandleOfThisSession,
      KnownTerminal, InputNeedsAuthority, ReceiverFresh, SpeculationSound
<1> QED
  BY <1>1, ManagementGuarded, LocalGuarded, RestGuarded DEF Next

LEMMA AlwaysGuarded == Spec => [](TypeOK /\ Guarded)
<1>1. Init => TypeOK /\ Guarded
  BY TypeInit, GuardedInit
<1>2. TypeOK /\ Guarded /\ [Next]_vars => (TypeOK /\ Guarded)'
  BY TypeStep, GuardedStep
<1> QED
  BY <1>1, <1>2, PTL DEF Spec

\* A cached Handle always is an authority of the running, registered session
\* that this process never gave up, whatever the Hub sends and in any order.
THEOREM AuthorityOfThisSession == Spec => []HandleOfThisSession
<1>1. Guarded => HandleOfThisSession
  BY DEF Guarded
<1> QED
  BY <1>1, AlwaysGuarded, PTL

\* Neither an open receiver nor the CONTROLLING state outlives the Handle, and
\* SAFETY leaves neither, whatever interrupts the control cycle.
THEOREM InputIsGuarded == Spec => []InputNeedsAuthority
<1>1. Guarded => InputNeedsAuthority
  BY DEF Guarded
<1> QED
  BY <1>1, AlwaysGuarded, PTL

-----------------------------------------------------------------------------
(* Motion.                                                                 *)

\* Only the second phase of a control cycle moves the Robot.
LEMMA OnlySendingMoves ==
    ASSUME Next, motion' # NoMotion
    PROVE  \E raises, fails \in BOOLEAN : SendAction(raises, fails)
<1>1. ASSUME ManagementStep PROVE motion' = NoMotion
  <2>1. /\ \A said : Say(said) => motion' = NoMotion
        /\ \A n, said : Answer(n, said) => motion' = NoMotion
        /\ \A S, said : Unanswered(S, said) => motion' = NoMotion
        /\ \A S, said, ok : LoseManagement(S, said, ok) => motion' = NoMotion
    BY DEF Say, Answer, Unanswered, LoseManagement
  <2>2. \A ok : Start(ok) \/ ManagementLost(ok) \/ Reconnect(ok) => motion' = NoMotion
    BY <2>1 DEF Start, ManagementLost, Reconnect
  <2>3. \A n, e, answered : Registered(n, e, answered) => motion' = NoMotion
    BY <2>1 DEF Registered
  <2>4. \A n, e, delivered, fails :
          ForceHoldAll(n, e, delivered, fails) => motion' = NoMotion
    BY <2>1 DEF ForceHoldAll
  <2>5. \A n, h, delivered :
          Grant(n, h, delivered) \/ Renewal(n, h, delivered) => motion' = NoMotion
    BY <2>1 DEF Grant, Renewal
  <2>6. \A n, h, count : TakeOver(n, h, count) => motion' = NoMotion
    BY <2>1 DEF TakeOver
  <2>7. \A n, h : TakeOverFails(n, h) => motion' = NoMotion
    BY <2>1 DEF TakeOverFails
  <2>8. ASSUME NEW n, NEW h, NEW kind, NEW count, NEW fails,
               EndHandle(n, h, kind, count, fails)
        PROVE  motion' = NoMotion
    <3> DEFINE ack  == Message(kind, h.authority)
               said == IF MatchesCurrentHandle(h)
                       THEN <<Message("robot_holding", h.authority), ack>>
                       ELSE <<ack>>
    <3>1. Answer(n, said) \/ Unanswered(Held, SubSeq(said, 1, count))
      BY <2>8 DEF EndHandle
    <3> HIDE DEF said
    <3> QED
      BY <2>1, <3>1
  <2>9. \A n, h, delivered, fails :
          ForceHold(n, h, delivered, fails) => motion' = NoMotion
    BY <2>1 DEF ForceHold
  <2> QED
    BY <1>1, <2>2, <2>3, <2>4, <2>5, <2>6, <2>7, <2>8, <2>9 DEF ManagementStep
<1>2. ASSUME LocalStep
      PROVE  \/ motion' = NoMotion
             \/ \E raises, fails \in BOOLEAN : SendAction(raises, fails)
  BY <1>2
  DEF LocalStep, Stop, HandleExpired, EnterSafety, Watchdog, RejectFrame,
      DropAction, ProcessorDeclines, Say
<1>3. ASSUME ClearSafety \/ TakeFrame \/ Tick \/ (\E f \in Frames : FrameArrives(f))
      PROVE  motion' = NoMotion
  BY <1>3 DEF ClearSafety, TakeFrame, Tick, FrameArrives, Say
<1> QED
  BY <1>1, <1>2, <1>3 DEF Next

\* What the second phase has established when it sends.
LEMMA SendingIsGuarded ==
    ASSUME TypeOK, Guarded, NEW raises \in BOOLEAN, NEW fails \in BOOLEAN,
           SendAction(raises, fails)
    PROVE  LET f == motion'.frame
           IN  /\ started /\ registered /\ control # "SAFETY"
               /\ handle # NoHandle /\ now < expiry
               /\ f.authority = handle.authority
               /\ hubEpoch = f.authority.hub_epoch
               /\ session = f.authority.robot_session
               /\ f.authority \notin terminal
               /\ stream = f.stream /\ lastSequence = f.sequence
               /\ now - f.received <= ActionStale
               /\ motion'.receiver > parked
<1>1. motion'.frame = cycle.frame /\ motion'.receiver = cycle.receiver
  BY DEF SendAction
<1>2. /\ cycle # NoCycle /\ control # "SAFETY" /\ handle # NoHandle
      /\ handle.authority = cycle.authority
      /\ receiver = cycle.receiver /\ stream = cycle.frame.stream
      /\ lastSequence = cycle.frame.sequence
      /\ now - cycle.frame.received <= ActionStale
      /\ ~(now >= expiry)
  BY DEF SendAction, MaySend, AuthorityUnchanged, InputUnchanged, Expired
<1>3. now < expiry
  BY <1>2 DEF TypeOK
<1>4. cycle.frame.authority = handle.authority /\ receiver > parked
  BY <1>2 DEF Guarded, SpeculationSound, ReceiverFresh
<1>5. /\ started /\ registered /\ hubEpoch = handle.authority.hub_epoch
      /\ session = handle.authority.robot_session
      /\ handle.authority \notin terminal
  BY <1>2 DEF Guarded, HandleOfThisSession, KnownTerminal
<1> QED
  BY <1>1, <1>2, <1>3, <1>4, <1>5

\* Every action that reaches the Robot is sent under the unexpired Handle of
\* the session, from a frame of that Handle and of the latched stream, although
\* the processor ran unlocked between the two phases.
THEOREM EveryMotionAuthorised == Spec => MotionAuthorised
<1> DEFINE Authorised ==
      motion' # NoMotion =>
        LET f == motion'.frame
        IN  /\ started /\ registered /\ control # "SAFETY"
            /\ handle # NoHandle /\ now < expiry
            /\ f.authority = handle.authority
            /\ hubEpoch = f.authority.hub_epoch
            /\ session = f.authority.robot_session
            /\ f.authority \notin terminal
            /\ stream = f.stream /\ lastSequence = f.sequence
            /\ now - f.received <= ActionStale
<1>1. TypeOK /\ Guarded /\ [Next]_vars => [Authorised]_vars
  BY OnlySendingMoves, SendingIsGuarded
<1>2. Spec => [][Authorised]_vars
  <2> HIDE DEF Authorised
  <2> QED
    BY <1>1, AlwaysGuarded, PTL DEF Spec
<1> QED
  BY <1>2 DEF MotionAuthorised

\* After a HOLD or SAFETY closed the input, whatever sequence of frames,
\* commands and cycles follows, nothing moves the Robot before a new take-over.
THEOREM MotionNeedsTakeOver == Spec => NoMotionUntilTakenOver
<1> DEFINE Later == motion' # NoMotion => motion'.receiver > parked
<1>1. TypeOK /\ Guarded /\ [Next]_vars => [Later]_vars
  BY OnlySendingMoves, SendingIsGuarded
<1>2. Spec => [][Later]_vars
  <2> HIDE DEF Later
  <2> QED
    BY <1>1, AlwaysGuarded, PTL DEF Spec
<1> QED
  BY <1>2 DEF NoMotionUntilTakenOver

-----------------------------------------------------------------------------
(* The age of what moves the Robot.                                        *)

\* The stamp from which the age of f is counted is when f arrived.
StampedFrames ==
    /\ slot # NoFrame => slot.received = slot.arrived
    /\ cycle # NoCycle => cycle.frame.received = cycle.frame.arrived

\* All other steps keep the frame, drop it, or note a disturbance.
FramesKept ==
    /\ slot' \in {slot, NoFrame}
    /\ cycle' \in {cycle, Disturbed, NoCycle}

LEMMA ManagementFrames == TypeOK /\ ManagementStep => FramesKept
<1> SUFFICES ASSUME TypeOK, ManagementStep PROVE FramesKept
  OBVIOUS
<1>1. /\ \A close, lasting, safety, fails :
           EnterHold(close, lasting, safety, fails) => slot' \in {slot, NoFrame}
      /\ \A S, said : Unanswered(S, said) => FramesKept
      /\ \A S, said, ok : LoseManagement(S, said, ok) => FramesKept
  BY DEF EnterHold, CloseInput, input, Unanswered, LoseManagement, FramesKept
<1>2. ASSUME NEW ok \in BOOLEAN, Start(ok) \/ ManagementLost(ok) \/ Reconnect(ok)
      PROVE  FramesKept
  BY <1>1, <1>2 DEF Start, ManagementLost, Reconnect, input, FramesKept
<1>3. ASSUME NEW n, NEW e, NEW answered,
             Registered(n, e, answered)
      PROVE  FramesKept
  BY <1>3 DEF Registered, input, FramesKept
<1>4. ASSUME NEW n, NEW e, NEW delivered, NEW fails,
             ForceHoldAll(n, e, delivered, fails)
      PROVE  FramesKept
  BY <1>1, <1>4 DEF ForceHoldAll, FramesKept
<1>5. ASSUME NEW n, NEW h, NEW delivered,
             Grant(n, h, delivered) \/ Renewal(n, h, delivered)
      PROVE  FramesKept
  BY <1>1, <1>5 DEF Grant, Renewal, input, FramesKept
<1>6. ASSUME NEW n, NEW h, NEW count,
             TakeOver(n, h, count)
      PROVE  FramesKept
  BY <1>1, <1>6 DEF TakeOver, FramesKept
<1>7. ASSUME NEW n, NEW h,
             TakeOverFails(n, h)
      PROVE  FramesKept
  BY <1>7 DEF TakeOverFails, CloseInput, FramesKept
<1>8. ASSUME NEW n, NEW h, NEW kind, NEW count, NEW fails,
             EndHandle(n, h, kind, count, fails)
      PROVE  FramesKept
  BY <1>1, <1>8 DEF EndHandle, input, FramesKept
<1>9. ASSUME NEW n, NEW h, NEW delivered, NEW fails,
             ForceHold(n, h, delivered, fails)
      PROVE  FramesKept
  BY <1>1, <1>9 DEF ForceHold, FramesKept
<1> QED
  BY <1>2, <1>3, <1>4, <1>5, <1>6, <1>7, <1>8, <1>9 DEF ManagementStep

LEMMA LocalFrames ==
    ASSUME LocalStep \/ ClearSafety \/ Tick PROVE FramesKept
<1>1. \A close, lasting, safety, fails :
        EnterHold(close, lasting, safety, fails) => slot' \in {slot, NoFrame}
  BY DEF EnterHold, CloseInput, input
<1>2. ASSUME NEW fails,
             \/ Stop(fails) \/ HandleExpired(fails) \/ EnterSafety(fails)
             \/ Watchdog(fails) \/ RejectFrame(fails)
      PROVE  FramesKept
  BY <1>1, <1>2 DEF Stop, HandleExpired, EnterSafety, Watchdog, RejectFrame, FramesKept
<1>3. ASSUME NEW fails, DropAction(fails) PROVE FramesKept
  BY <1>1, <1>3 DEF DropAction, input, FramesKept
<1>4. ASSUME NEW distrust, NEW fails, ProcessorDeclines(distrust, fails)
      PROVE  FramesKept
  BY <1>1, <1>4 DEF ProcessorDeclines, input, FramesKept
<1>5. ASSUME NEW raises, NEW fails, SendAction(raises, fails) PROVE FramesKept
  BY <1>1, <1>5 DEF SendAction, input, FramesKept
<1>6. CASE ClearSafety \/ Tick
  BY <1>6 DEF ClearSafety, Tick, input, FramesKept
<1> QED
  BY <1>2, <1>3, <1>4, <1>5, <1>6 DEF LocalStep

LEMMA StampedStep ==
    ASSUME StampOnArrival, TypeOK, StampedFrames, [Next]_vars
    PROVE  StampedFrames'
<1>1. CASE FramesKept
  <2>1. cycle' # NoCycle => cycle # NoCycle /\ cycle'.frame = cycle.frame
    BY <1>1 DEF FramesKept, Disturbed, TypeOK, Speculation
  <2> QED
    BY <1>1, <2>1 DEF FramesKept, StampedFrames
<1>2. CASE TakeFrame
  <2>1. slot' = NoFrame /\ slot # NoFrame /\ cycle'.frame = slot
    BY <1>2 DEF TakeFrame, Taken
  <2> QED
    BY <2>1 DEF StampedFrames
<1>3. ASSUME NEW f \in Frames, FrameArrives(f) PROVE StampedFrames'
  <2>1. slot' = f /\ cycle' = cycle /\ f.received = f.arrived
    BY <1>3 DEF FrameArrives, Frames
  <2> QED
    BY <2>1 DEF StampedFrames
<1>4. CASE UNCHANGED vars
  BY <1>4 DEF vars, input, StampedFrames
<1> QED
  BY <1>1, <1>2, <1>3, <1>4, ManagementFrames, LocalFrames DEF Next

\* With a runtime that stamps frames when they arrive, no frame moves the Robot
\* that reached it longer ago than the stale threshold, however long the
\* processor took and whatever happened meanwhile.
THEOREM StampedMotionIsFresh ==
    ASSUME StampOnArrival PROVE Spec => MotionIsFresh
<1> DEFINE Fresh == motion' # NoMotion => now - motion'.frame.arrived <= ActionStale
<1>1. Init => StampedFrames
  BY DEF Init, StampedFrames
<1>2. TypeOK /\ StampedFrames /\ [Next]_vars => StampedFrames'
  BY StampedStep
<1>3. TypeOK /\ Guarded /\ StampedFrames /\ [Next]_vars => [Fresh]_vars
  <2> SUFFICES ASSUME TypeOK, Guarded, StampedFrames, Next, motion' # NoMotion
               PROVE  now - motion'.frame.arrived <= ActionStale
    OBVIOUS
  <2>1. PICK raises, fails \in BOOLEAN : SendAction(raises, fails)
    BY OnlySendingMoves
  <2>2. now - motion'.frame.received <= ActionStale
    BY <2>1, SendingIsGuarded
  <2>3. motion'.frame = cycle.frame /\ cycle # NoCycle
    BY <2>1 DEF SendAction
  <2> QED
    BY <2>2, <2>3 DEF StampedFrames
<1>4. Spec => [][Fresh]_vars
  <2> HIDE DEF Fresh
  <2> QED
    BY <1>1, <1>2, <1>3, AlwaysGuarded, PTL DEF Spec
<1> QED
  BY <1>4 DEF MotionIsFresh

-----------------------------------------------------------------------------
(* What the Hub is told.                                                   *)

\* The messages report holding only for authorities in S.
HoldsOnly(said, S) ==
    \A i \in 1..Len(said) :
      said[i].kind = "robot_holding" => said[i].authority \in S

LEMMA HoldsOnlyShort ==
    /\ \A S : HoldsOnly(<<>>, S)
    /\ \A S, k, a : k # "robot_holding" => HoldsOnly(<<Message(k, a)>>, S)
    /\ \A S : \A ok \in BOOLEAN : HoldsOnly(Registration(ok), S)
<1>1. ASSUME NEW S PROVE HoldsOnly(<<>>, S)
  BY DEF HoldsOnly
<1>2. ASSUME NEW S, NEW k, NEW a, k # "robot_holding"
      PROVE  HoldsOnly(<<Message(k, a)>>, S)
  BY <1>2 DEF HoldsOnly, Message
<1>3. ASSUME NEW S, NEW ok \in BOOLEAN PROVE HoldsOnly(Registration(ok), S)
  BY DEF HoldsOnly, Registration
<1> QED
  BY <1>1, <1>2, <1>3

LEMMA HoldsOnlyPair ==
    ASSUME NEW S, NEW m \in ToHub, NEW n \in ToHub, NEW count \in 0..2,
           m.kind = "robot_holding" => m.authority \in S,
           n.kind # "robot_holding"
    PROVE  /\ HoldsOnly(<<m, n>>, S)
           /\ SubSeq(<<m, n>>, 1, count) \in Seq(ToHub)
           /\ HoldsOnly(SubSeq(<<m, n>>, 1, count), S)
<1> DEFINE said == <<m, n>>
<1>1. said \in Seq(ToHub) /\ Len(said) = 2 /\ said[1] = m /\ said[2] = n
  OBVIOUS
<1>2. HoldsOnly(said, S)
  BY <1>1 DEF HoldsOnly
<1> HIDE DEF said
<1>3. SubSeq(said, 1, count) \in Seq(ToHub)
  BY <1>1
<1>4. HoldsOnly(SubSeq(said, 1, count), S)
  BY <1>1, <1>2 DEF HoldsOnly
<1> QED
  BY <1>2, <1>3, <1>4 DEF said

LEMMA HoldsOnlyConcat ==
    ASSUME NEW S, NEW s \in Seq(ToHub), NEW t \in Seq(ToHub),
           HoldsOnly(s, S), HoldsOnly(t, S)
    PROVE  HoldsOnly(s \o t, S)
<1> SUFFICES ASSUME NEW i \in 1..Len(s \o t), (s \o t)[i].kind = "robot_holding"
             PROVE  (s \o t)[i].authority \in S
  BY DEF HoldsOnly
<1>1. CASE i <= Len(s)
  <2>1. (s \o t)[i] = s[i] /\ i \in 1..Len(s)
    BY <1>1
  <2> QED
    BY <2>1 DEF HoldsOnly
<1>2. CASE i > Len(s)
  <2>1. (s \o t)[i] = t[i - Len(s)] /\ i - Len(s) \in 1..Len(t)
    BY <1>2
  <2> QED
    BY <2>1 DEF HoldsOnly
<1> QED
  BY <1>1, <1>2

\* A step that gives up what it reports keeps the promise.
LEMMA HoldingKept ==
    ASSUME NEW S, HoldsOnly(sent, S)', S \subseteq terminal',
           S # {} => handle' = NoHandle /\ control' # "CONTROLLING"
    PROVE  HoldingIsFinal'
<1>1. \A i \in 1..Len(sent') : sent'[i].kind = "robot_holding" =>
                               sent'[i].authority \in S
  BY DEF HoldsOnly
<1> QED
  BY <1>1 DEF HoldingIsFinal

LEMMA QuietStep ==
    ASSUME NEW said, Say(said), HoldsOnly(said, {}) PROVE HoldingIsFinal'
<1>1. sent' = said
  BY DEF Say
<1> QED
  BY <1>1 DEF HoldsOnly, HoldingIsFinal

LEMMA LostHolding ==
    ASSUME TypeOK, NEW S, NEW said \in Seq(ToHub), NEW ok \in BOOLEAN,
           LoseManagement(S, said, ok), HoldsOnly(said, S)
    PROVE  HoldingIsFinal'
<1>1. sent' = said \o Registration(ok)
  BY DEF LoseManagement, Say
<1>2. HoldsOnly(said \o Registration(ok), S)
  BY RegistrationType, HoldsOnlyShort, HoldsOnlyConcat
<1>3. HoldsOnly(sent, S)'
  BY <1>1, <1>2 DEF HoldsOnly
<1>4. handle' = NoHandle /\ control' # "CONTROLLING" /\ S \subseteq terminal'
  BY DEF LoseManagement, Forget
<1> QED
  BY <1>3, <1>4, HoldingKept

LEMMA UnansweredHolding ==
    ASSUME TypeOK, NEW S, NEW said \in Seq(ToHub),
           Unanswered(S, said), HoldsOnly(said, S)
    PROVE  HoldingIsFinal'
  BY LostHolding DEF Unanswered

LEMMA HoldingManagement == TypeOK /\ ManagementStep => HoldingIsFinal'
<1> SUFFICES ASSUME TypeOK, ManagementStep PROVE HoldingIsFinal'
  OBVIOUS
<1>0. /\ <<>> \in Seq(ToHub)
      /\ \A h \in Handles : h.authority \in Authority
      /\ \A h \in Handles : MatchesCurrentHandle(h) => h.authority \in Held
  BY EnvironmentType DEF Handle, MatchesCurrentHandle, Held
<1>1. ASSUME NEW ok \in BOOLEAN, Start(ok) \/ ManagementLost(ok) \/ Reconnect(ok)
      PROVE  HoldingIsFinal'
  BY <1>0, <1>1, HoldsOnlyShort, QuietStep, LostHolding
  DEF Start, ManagementLost, Reconnect
<1>2. ASSUME NEW n, NEW e, NEW answered, Registered(n, e, answered)
      PROVE  HoldingIsFinal'
  BY <1>2, HoldsOnlyShort, QuietStep DEF Registered
<1>3. ASSUME NEW n, NEW e, NEW delivered, NEW fails,
             ForceHoldAll(n, e, delivered, fails)
      PROVE  HoldingIsFinal'
  BY <1>0, <1>3, HoldsOnlyShort, QuietStep, UnansweredHolding
  DEF ForceHoldAll, Answer
<1>4. ASSUME NEW n, NEW h, NEW delivered, Grant(n, h, delivered)
      PROVE  HoldingIsFinal'
  BY <1>0, <1>4, HoldsOnlyShort, QuietStep, UnansweredHolding DEF Grant, Answer
<1>5. ASSUME NEW n, NEW h, NEW delivered, Renewal(n, h, delivered)
      PROVE  HoldingIsFinal'
  BY <1>0, <1>5, HoldsOnlyShort, QuietStep, UnansweredHolding DEF Renewal, Answer
<1>6. ASSUME NEW n, NEW h \in Handles, NEW count \in 0..2, TakeOver(n, h, count)
      PROVE  HoldingIsFinal'
  <2> DEFINE ready == Message("robot_ready", h.authority)
             ack   == Message("take_over_ack", h.authority)
             said  == SubSeq(<<ready, ack>>, 1, count)
  <2>1. ready \in ToHub /\ ack \in ToHub
    BY <1>0, MessageType
  <2>2. ready.kind # "robot_holding" /\ ack.kind # "robot_holding"
    BY DEF Message
  <2>3. said \in Seq(ToHub) /\ \A S : HoldsOnly(said, S)
    <3> HIDE DEF ready, ack
    <3> QED
      BY <2>1, <2>2, HoldsOnlyPair
  <2>4. Answer(n, said) \/ Unanswered(Held, said)
    BY <1>6 DEF TakeOver
  <2> HIDE DEF said
  <2> QED
    BY <2>3, <2>4, QuietStep, UnansweredHolding DEF Answer
<1>7. ASSUME NEW n, NEW h, TakeOverFails(n, h) PROVE HoldingIsFinal'
  BY <1>7, HoldsOnlyShort, QuietStep DEF TakeOverFails
<1>8. ASSUME NEW n, NEW h \in Handles, NEW kind \in {"hand_over_ack", "revoke_ack"},
             NEW count \in 0..2, NEW fails, EndHandle(n, h, kind, count, fails)
      PROVE  HoldingIsFinal'
  <2> DEFINE holding == Message("robot_holding", h.authority)
             ack     == Message(kind, h.authority)
             said    == IF MatchesCurrentHandle(h) THEN <<holding, ack>> ELSE <<ack>>
  <2>1. holding \in ToHub /\ ack \in ToHub
    BY <1>0, MessageType
  <2>2. holding.authority = h.authority /\ ack.kind # "robot_holding"
    BY DEF Message
  <2>3. count = Len(said) \/ Unanswered(Held, SubSeq(said, 1, count))
    BY <1>8 DEF EndHandle
  <2>4. CASE MatchesCurrentHandle(h)
    <3>1. h.authority \in Held
      BY <1>0, <2>4
    <3>2. /\ HoldsOnly(<<holding, ack>>, Held)
          /\ SubSeq(<<holding, ack>>, 1, count) \in Seq(ToHub)
          /\ HoldsOnly(SubSeq(<<holding, ack>>, 1, count), Held)
      <4> HIDE DEF holding, ack
      <4> QED
        BY <2>1, <2>2, <3>1, HoldsOnlyPair
    <3>3. CASE count = Len(said)
      <4>1. EnterHold(TRUE, TRUE, FALSE, fails) /\ Answer(n, said)
        BY <1>8, <2>4, <3>3 DEF EndHandle
      <4>2. sent' = <<holding, ack>>
        BY <2>4, <4>1 DEF Answer, Say
      <4>3. handle' = NoHandle /\ control' # "CONTROLLING" /\ Held \subseteq terminal'
        BY <4>1 DEF EnterHold, Forget
      <4>4. \A i \in 1..Len(sent') : sent'[i].kind = "robot_holding" =>
                                     sent'[i].authority \in Held
        BY <3>2, <4>2 DEF HoldsOnly
      <4> QED
        BY <4>3, <4>4 DEF HoldingIsFinal
    <3>4. CASE count # Len(said)
      <4>1. Unanswered(Held, SubSeq(<<holding, ack>>, 1, count))
        BY <2>3, <2>4, <3>4
      <4> HIDE DEF holding, ack
      <4> QED
        BY <3>2, <4>1, UnansweredHolding
    <3> QED
      BY <3>3, <3>4
  <2>5. CASE ~MatchesCurrentHandle(h)
    <3>1. said = <<ack>> /\ Len(said) = 1
      BY <2>5
    <3>2. HoldsOnly(<<ack>>, {})
      BY HoldsOnlyShort
    <3>3. CASE count = Len(said)
      <4>1. Say(<<ack>>)
        BY <1>8, <2>5, <3>3 DEF EndHandle, Answer
      <4> QED
        BY <3>2, <4>1, QuietStep
    <3>4. CASE count # Len(said)
      <4>1. count = 0
        BY <1>8, <2>5, <3>1, <3>4 DEF EndHandle
      <4>2. SubSeq(said, 1, count) = <<>>
        BY <2>1, <3>1, <4>1
      <4> QED
        BY <1>0, <2>3, <3>4, <4>2, HoldsOnlyShort, UnansweredHolding
    <3> QED
      BY <3>3, <3>4
  <2> QED
    BY <2>4, <2>5
<1>9. ASSUME NEW n, NEW h, NEW delivered, NEW fails, ForceHold(n, h, delivered, fails)
      PROVE  HoldingIsFinal'
  BY <1>0, <1>9, HoldsOnlyShort, QuietStep, UnansweredHolding DEF ForceHold, Answer
<1> QED
  BY <1>1, <1>2, <1>3, <1>4, <1>5, <1>6, <1>7, <1>8, <1>9 DEF ManagementStep

LEMMA HoldingStep == TypeOK /\ HoldingIsFinal /\ [Next]_vars => HoldingIsFinal'
<1> SUFFICES ASSUME TypeOK, HoldingIsFinal, [Next]_vars PROVE HoldingIsFinal'
  OBVIOUS
<1>1. CASE LocalStep
  <2>1. sent' = <<>>
    BY <1>1
    DEF LocalStep, Stop, HandleExpired, EnterSafety, Watchdog, RejectFrame,
        DropAction, ProcessorDeclines, SendAction, Say
  <2> QED
    BY <2>1 DEF HoldingIsFinal
<1>2. CASE ClearSafety \/ TakeFrame \/ Tick \/ (\E f \in Frames : FrameArrives(f))
  <2>1. sent' = <<>>
    BY <1>2 DEF ClearSafety, TakeFrame, Tick, FrameArrives, Say
  <2> QED
    BY <2>1 DEF HoldingIsFinal
<1>3. CASE UNCHANGED vars
  BY <1>3 DEF vars, authority, HoldingIsFinal
<1> QED
  BY <1>1, <1>2, <1>3, HoldingManagement DEF Next

\* Whenever the Hub is told that the Robot holds, the Robot has given up that
\* authority for good, also when the report is cut off from its acknowledgement
\* by the loss of the session.
THEOREM HoldingReportsAreFinal == Spec => []HoldingIsFinal
<1>1. Init => HoldingIsFinal
  BY DEF Init, HoldingIsFinal
<1> QED
  BY <1>1, HoldingStep, TypeCorrect, PTL DEF Spec
=============================================================================
