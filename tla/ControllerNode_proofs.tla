------------------------ MODULE ControllerNode_proofs ------------------------
(***************************************************************************)
(* Theorems about ControllerNode for every set of Handles and Robots,      *)
(* every validity of a Handle and every length of a run.                   *)
(***************************************************************************)
EXTENDS ControllerNode, SequenceTheorems, TLAPS

\* The parts of TypeOK, by the group of variables they are about.
LinkType ==
    /\ started \in BOOLEAN /\ session \in Nat /\ defer \in BOOLEAN
    /\ hubEpoch \in Nat /\ registering \in BOOLEAN /\ lastCommand \in Nat

HoldingType ==
    /\ control \in ControllerControlState
    /\ handle \in Handle \cup {NoHandle} /\ expiry \in Nat
    /\ terminal \subseteq HandleIds

StreamType ==
    /\ streaming \in BOOLEAN /\ stream \in Nat /\ sequence \in Nat

CountType ==
    /\ request \in Nat /\ opened \in Nat /\ requested \in Nat

OutsideType ==
    /\ last \in Frame /\ now \in Nat

LEMMA TypeParts ==
    TypeOK <=> /\ LinkType /\ HoldingType /\ StreamType /\ CountType
               /\ OutsideType /\ sent \in Seq(ToHub)
  BY DEF TypeOK, LinkType, HoldingType, StreamType, CountType, OutsideType

LEMMA TypePartsPrimed ==
    TypeOK' <=> /\ LinkType' /\ HoldingType' /\ StreamType' /\ CountType'
                /\ OutsideType' /\ sent' \in Seq(ToHub)
  BY DEF TypeOK, LinkType, HoldingType, StreamType, CountType, OutsideType

-----------------------------------------------------------------------------
\* The building blocks.

LEMMA HandleFacts ==
    ASSUME NEW h \in Handle
    PROVE  /\ h # NoHandle /\ h.expires_at \in Nat
           /\ h.authority \in Authority /\ h.authority # NoHandle
           /\ h.authority.handle_id \in HandleIds
           /\ h.authority.hub_epoch \in Nat /\ h.authority.hub_epoch # 0
           /\ h.authority.controller_session \in Nat
  BY ConstantsAssumption DEF Handle, Authority

LEMMA HeldType == ASSUME HoldingType PROVE Held \subseteq HandleIds
<1>1. CASE handle = NoHandle
  BY <1>1 DEF Held
<1>2. CASE handle # NoHandle
  BY <1>2, HandleFacts DEF HoldingType, Held
<1> QED
  BY <1>1, <1>2

LEMMA HeldMatches ==
    ASSUME NEW h \in Handle, MatchesCurrentHandle(h)
    PROVE  handle = h /\ handle # NoHandle /\ h.authority.handle_id \in Held
  BY HandleFacts DEF MatchesCurrentHandle, Held

LEMMA DisableStreamingType ==
    ASSUME HoldingType, NEW ids \in SUBSET HandleIds, DisableStreaming(ids),
           control' = "IDLE"
    PROVE  HoldingType' /\ StreamType'
  BY DEF HoldingType, StreamType, DisableStreaming, ControllerControlState

LEMMA MessageType ==
    ASSUME LinkType, NEW a \in Authority,
           NEW kind \in {"grant_ack", "renewal_ack", "take_over_ack",
                         "robot_ready_ack", "hand_over_ack", "revoke_ack",
                         "take_over_requested", "controller_streaming",
                         "hand_over_requested", "controller_released"}
    PROVE  Message(kind, a) \in ToHub
  BY DEF LinkType, Message, ToHub

LEMMA OpenSessionType ==
    ASSUME TypeOK, NEW skipped \in Nat, NEW ok \in BOOLEAN,
           OpenSession(skipped, ok), started' \in BOOLEAN, defer' = defer
    PROVE  LinkType' /\ request' \in Nat /\ Registration(ok) \in Seq(ToHub)
<1>1. started' \in BOOLEAN /\ defer' \in BOOLEAN /\ registering' \in BOOLEAN
  BY Zenon DEF OpenSession, TypeOK
<1>2. session' \in Nat /\ hubEpoch' = 0 /\ lastCommand' = 0 /\ request' = 0
  BY DEF OpenSession, TypeOK
<1>3. [kind |-> "register", session |-> session', authority |-> NoHandle] \in ToHub
  BY <1>2 DEF ToHub
<1>4. Registration(ok) \in Seq(ToHub)
  BY <1>3 DEF Registration
<1> QED
  BY <1>1, <1>2, <1>4 DEF LinkType

\* Losing the session keeps the types.
LEMMA UnansweredType ==
    ASSUME TypeOK, NEW ids \in SUBSET HandleIds, NEW said \in Seq(ToHub),
           Unanswered(ids, said), opened' \in Nat, requested' \in Nat
    PROVE  TypeOK'
<1>1. PICK ok \in BOOLEAN : LoseManagement(ids, said, ok)
  BY DEF Unanswered
<1>2. started' \in BOOLEAN /\ defer' = defer
  BY <1>1 DEF LoseManagement, TypeOK
<1>3. LinkType' /\ request' \in Nat /\ Registration(ok) \in Seq(ToHub)
  BY <1>1, <1>2, OpenSessionType DEF LoseManagement
<1>4. HoldingType' /\ StreamType'
  BY <1>1, DisableStreamingType, TypeParts DEF LoseManagement
<1>5. sent' \in Seq(ToHub)
  <2>1. sent' = said \o Registration(ok)
    BY <1>1 DEF LoseManagement
  <2> QED
    BY <2>1, <1>3
<1>6. OutsideType' /\ CountType'
  BY <1>1, <1>3 DEF LoseManagement, OutsideType, CountType, TypeOK
<1> QED
  BY <1>3, <1>4, <1>5, <1>6, TypePartsPrimed

LEMMA AnswerType ==
    ASSUME TypeOK, NEW n \in Nat, NEW said \in Seq(ToHub), Answer(n, said),
           hubEpoch' \in Nat
    PROVE  LinkType' /\ OutsideType' /\ sent' \in Seq(ToHub)
  BY DEF Answer, TypeOK, LinkType, OutsideType

LEMMA LocalExpiryType ==
    ASSUME TypeOK, NEW h \in Handle PROVE LocalExpiry(h) \in Nat
<1>1. h.expires_at \in Nat /\ now \in Nat /\ HandleTtl \in Nat
  BY ConstantsAssumption, HandleFacts DEF TypeOK
<1> QED
  BY <1>1 DEF LocalExpiry

\* The environment speaks of typed Handles and epochs.
LEMMA EnvironmentType ==
    /\ Handles \subseteq Handle /\ Epochs \subseteq Nat
    /\ 1..MaxSequence \subseteq Nat
<1>1. Authorities \subseteq Authority /\ 1..MaxTime \subseteq Nat
      /\ 1..MaxSequence \subseteq Nat
  BY ConstantsAssumption
<1>2. Handles \subseteq Handle
  BY <1>1 DEF Handles, Handle
<1>3. Epochs \subseteq Nat
  BY <1>1 DEF Epochs, Authority
<1> QED
  BY <1>1, <1>2, <1>3

\* What a command is answered with, and every beginning of it.
LEMMA AnswersType ==
    ASSUME NEW said \in Seq(ToHub), NEW count \in Nat, count <= Len(said)
    PROVE  /\ SubSeq(said, 1, count) \in Seq(ToHub)
           /\ Len(SubSeq(said, 1, count)) = count
           /\ \A i \in 1..count : SubSeq(said, 1, count)[i] = said[i]
  OBVIOUS

-----------------------------------------------------------------------------
\* Type correctness.

LEMMA TypeInit == Init => TypeOK
<1> SUFFICES ASSUME Init PROVE TypeOK
  OBVIOUS
<1>1. LinkType
  <2>1. started \in BOOLEAN /\ defer \in BOOLEAN /\ registering \in BOOLEAN
    BY Zenon DEF Init
  <2> QED
    BY <2>1 DEF Init, LinkType
<1>2. HoldingType /\ StreamType /\ CountType
  BY DEF Init, HoldingType, StreamType, CountType, ControllerControlState
<1>3. OutsideType /\ sent \in Seq(ToHub)
  BY DEF Init, OutsideType, Frame
<1> QED
  BY <1>1, <1>2, <1>3, TypeParts

LEMMA ManagementTypeStep == TypeOK /\ ManagementStep => TypeOK'
<1> SUFFICES ASSUME TypeOK, ManagementStep PROVE TypeOK'
  OBVIOUS
<1>0. /\ <<>> \in Seq(ToHub) /\ Held \in SUBSET HandleIds
      /\ LinkType /\ HoldingType
  BY HeldType, TypeParts
<1>1. ASSUME NEW skipped \in 0..1, NEW ok \in BOOLEAN, Start(skipped, ok)
      PROVE  TypeOK'
  <2>0. skipped \in Nat
    OBVIOUS
  <2>1. started' \in BOOLEAN /\ defer' = defer
    BY <1>1, Zenon DEF Start
  <2>2. LinkType' /\ request' \in Nat /\ Registration(ok) \in Seq(ToHub)
    BY <1>1, <2>0, <2>1, OpenSessionType DEF Start
  <2>3. HoldingType' /\ StreamType' /\ CountType' /\ OutsideType'
    BY <1>1, <2>2 DEF Start, HoldingType, StreamType, CountType, OutsideType,
                      TypeOK, holding, output
  <2> QED
    BY <1>1, <2>2, <2>3, TypePartsPrimed DEF Start
<1>2. ASSUME NEW ok \in BOOLEAN, ManagementLost(ok) PROVE TypeOK'
  BY <1>0, <1>2, UnansweredType DEF ManagementLost, Unanswered, TypeOK
<1>3. CASE Stop
  <2>1. started' \in BOOLEAN
    BY <1>3, Zenon DEF Stop
  <2>2. HoldingType' /\ StreamType'
    BY <1>0, <1>3, DisableStreamingType DEF Stop
  <2>3. LinkType' /\ CountType' /\ OutsideType' /\ sent' \in Seq(ToHub)
    BY <1>0, <1>3, <2>1 DEF Stop, LinkType, CountType, OutsideType, TypeOK
  <2> QED
    BY <2>2, <2>3, TypePartsPrimed
<1>4. ASSUME NEW n \in 1..MaxSequence, NEW e \in Epochs, Registered(n, e)
      PROVE  TypeOK'
  <2>1. n \in Nat /\ e \in Nat
    BY EnvironmentType
  <2>2. LinkType' /\ sent' \in Seq(ToHub)
    BY <1>0, <1>4, <2>1 DEF Registered, LinkType
  <2>3. HoldingType' /\ StreamType' /\ CountType' /\ OutsideType'
    BY <1>4 DEF Registered, HoldingType, StreamType, CountType, OutsideType,
                TypeOK, holding, output
  <2> QED
    BY <2>2, <2>3, TypePartsPrimed
<1> QED
  BY <1>1, <1>2, <1>3, <1>4 DEF ManagementStep

\* A command that changes nothing but what is given here, and is answered.
LEMMA AnsweredType ==
    ASSUME TypeOK, NEW n \in Nat, NEW said \in Seq(ToHub), Answer(n, said),
           hubEpoch' \in Nat, HoldingType', StreamType', CountType'
    PROVE  TypeOK'
  BY AnswerType, TypePartsPrimed

LEMMA GrantType ==
    ASSUME TypeOK, NEW n \in Nat, NEW h \in Handle, NEW delivered \in BOOLEAN,
           Grant(n, h, delivered)
    PROVE  TypeOK'
<1>1. CASE delivered
  <2>1. <<Message("grant_ack", h.authority)>> \in Seq(ToHub)
    <3>1. Message("grant_ack", h.authority) \in ToHub
      BY HandleFacts, MessageType, TypeParts
    <3> QED
      BY <3>1
  <2>2. hubEpoch' \in Nat
    BY <1>1, HandleFacts DEF Grant
  <2>3. HoldingType' /\ streaming' \in BOOLEAN
    <3>1. CASE handle = NoHandle
      BY <1>1, <3>1, LocalExpiryType
      DEF Grant, HoldingType, TypeOK, ControllerControlState
    <3>2. CASE handle # NoHandle
      BY <1>1, <3>2 DEF Grant, HoldingType, TypeOK
    <3> QED
      BY <3>1, <3>2
  <2>4. StreamType' /\ CountType'
    BY <1>1, <2>3 DEF Grant, StreamType, CountType, TypeOK
  <2> QED
    BY <1>1, <2>1, <2>2, <2>3, <2>4, AnsweredType DEF Grant
<1>2. CASE ~delivered
  <2>1. {h.authority.handle_id} \in SUBSET HandleIds /\ <<>> \in Seq(ToHub)
    BY HandleFacts
  <2>2. opened' \in Nat /\ requested' \in Nat
    BY DEF Grant, TypeOK
  <2> QED
    BY <1>2, <2>1, <2>2, UnansweredType DEF Grant
<1> QED
  BY <1>1, <1>2

LEMMA RenewalType ==
    ASSUME TypeOK, NEW n \in Nat, NEW h \in Handle, NEW delivered \in BOOLEAN,
           Renewal(n, h, delivered)
    PROVE  TypeOK'
<1>1. CASE delivered
  <2>1. <<Message("renewal_ack", h.authority)>> \in Seq(ToHub)
    <3>1. Message("renewal_ack", h.authority) \in ToHub
      BY HandleFacts, MessageType, TypeParts
    <3> QED
      BY <3>1
  <2>2. HoldingType' /\ StreamType' /\ CountType' /\ hubEpoch' \in Nat
    BY <1>1, LocalExpiryType
    DEF Renewal, HoldingType, StreamType, CountType, TypeOK, output
  <2> QED
    BY <1>1, <2>1, <2>2, AnsweredType DEF Renewal
<1>2. CASE ~delivered
  <2>1. Held \in SUBSET HandleIds /\ <<>> \in Seq(ToHub)
    BY HeldType, TypeParts
  <2>2. opened' \in Nat /\ requested' \in Nat
    BY DEF Renewal, TypeOK
  <2> QED
    BY <1>2, <2>1, <2>2, UnansweredType DEF Renewal
<1> QED
  BY <1>1, <1>2

\* A command that ends the Handle and is answered in full.
LEMMA EndType ==
    ASSUME TypeOK, NEW n \in Nat, NEW said \in Seq(ToHub),
           opened' = opened, requested' = requested, hubEpoch' = hubEpoch,
           request' = request, control' = "IDLE", DisableStreaming(Held),
           Answer(n, said)
    PROVE  TypeOK'
<1>1. HoldingType' /\ StreamType'
  BY HeldType, DisableStreamingType, TypeParts
<1>2. CountType' /\ hubEpoch' \in Nat
  BY DEF CountType, TypeOK
<1> QED
  BY <1>1, <1>2, AnsweredType

\* The session is lost on the way to giving up the held Handle.
LEMMA LostType ==
    ASSUME TypeOK, NEW said \in Seq(ToHub), opened' = opened,
           requested' = requested, Unanswered(Held, said)
    PROVE  TypeOK'
<1>1. Held \in SUBSET HandleIds
  BY HeldType, TypeParts
<1>2. opened' \in Nat /\ requested' \in Nat
  BY DEF TypeOK
<1> QED
  BY <1>1, <1>2, UnansweredType

LEMMA TakeOverType ==
    ASSUME TypeOK, NEW n \in Nat, NEW h \in Handle, NEW count \in 0..2,
           TakeOver(n, h, count)
    PROVE  TypeOK'
<1> DEFINE ack  == Message("take_over_ack", h.authority)
           ask  == Message("take_over_requested", h.authority)
           said == IF defer THEN <<ack>> ELSE <<ask, ack>>
<1>1. said \in Seq(ToHub) /\ Len(said) \in Nat
  <2>1. ack \in ToHub /\ ask \in ToHub
    BY HandleFacts, MessageType, TypeParts
  <2> HIDE DEF ack, ask
  <2> QED
    BY <2>1
<1>2. /\ count <= Len(said) /\ opened' \in Nat /\ requested' \in Nat
      /\ \/ /\ streaming' = FALSE /\ control' = "TAKING_OVER"
            /\ request' = IF defer THEN 0 ELSE requested'
            /\ Answer(n, said)
            /\ UNCHANGED <<hubEpoch, holding, stream, sequence>>
         \/ Unanswered(Held, SubSeq(said, 1, count))
  BY DEF TakeOver, TypeOK
<1> HIDE DEF said
<1>3. CASE /\ streaming' = FALSE /\ control' = "TAKING_OVER"
           /\ request' = IF defer THEN 0 ELSE requested'
           /\ Answer(n, said)
           /\ UNCHANGED <<hubEpoch, holding, stream, sequence>>
  <2>1. HoldingType' /\ StreamType' /\ CountType' /\ hubEpoch' \in Nat
    BY <1>2, <1>3
    DEF HoldingType, StreamType, CountType, TypeOK, holding, ControllerControlState
  <2> QED
    BY <1>1, <1>3, <2>1, AnsweredType
<1>4. CASE Unanswered(Held, SubSeq(said, 1, count))
  <2>1. Held \in SUBSET HandleIds /\ count \in Nat
    BY HeldType, TypeParts
  <2>2. SubSeq(said, 1, count) \in Seq(ToHub)
    BY <1>1, <1>2, <2>1, AnswersType
  <2> QED
    BY <1>2, <1>4, <2>1, <2>2, UnansweredType
<1> QED
  BY <1>2, <1>3, <1>4

LEMMA RobotReadyType ==
    ASSUME TypeOK, NEW n \in Nat, NEW h \in Handle, NEW r, NEW count \in 0..2,
           RobotReady(n, h, r, count)
    PROVE  TypeOK'
<1> DEFINE first  == Message("controller_streaming", h.authority)
           second == Message("robot_ready_ack", h.authority)
           said   == <<first, second>>
<1>1. said \in Seq(ToHub) /\ Len(said) = 2
  <2>1. first \in ToHub /\ second \in ToHub
    BY HandleFacts, MessageType, TypeParts
  <2> HIDE DEF first, second
  <2> QED
    BY <2>1
<1>2. opened' \in Nat /\ requested' \in Nat /\ opened + 1 \in Nat
  BY DEF RobotReady, TypeOK
<1>3. CASE count = 2
  <2>1. Answer(n, said)
    BY <1>3 DEF RobotReady
  <2>2. HoldingType' /\ StreamType' /\ CountType' /\ hubEpoch' \in Nat
    BY <1>2, <1>3
    DEF RobotReady, HoldingType, StreamType, CountType, TypeOK, holding,
        ControllerControlState
  <2> HIDE DEF said
  <2> QED
    BY <1>1, <2>1, <2>2, AnsweredType
<1>4. CASE count # 2
  <2>1. Held \in SUBSET HandleIds /\ count \in Nat
    BY HeldType, TypeParts
  <2>2. Unanswered(Held, SubSeq(said, 1, count))
    BY <1>4 DEF RobotReady
  <2> HIDE DEF said
  <2>3. SubSeq(said, 1, count) \in Seq(ToHub)
    BY <1>1, <2>1, AnswersType
  <2> QED
    BY <1>2, <2>1, <2>2, <2>3, UnansweredType
<1> QED
  BY <1>3, <1>4

\* A Handle that ends here silently.
LEMMA ExpiredType ==
    ASSUME TypeOK, DisableStreaming(Held), control' = "IDLE", sent' = <<>>,
           UNCHANGED <<link, request, opened, requested, last, now>>
    PROVE  TypeOK'
<1>1. HoldingType' /\ StreamType'
  BY HeldType, DisableStreamingType, TypeParts
<1>2. LinkType' /\ CountType' /\ OutsideType' /\ sent' \in Seq(ToHub)
  BY DEF LinkType, CountType, OutsideType, TypeOK, link
<1> QED
  BY <1>1, <1>2, TypePartsPrimed

LEMMA ReleaseType ==
    ASSUME TypeOK, NEW a \in Authority
    PROVE  Release(a) \in Seq(ToHub) /\ Len(Release(a)) = 2
<1> DEFINE first  == Message("hand_over_requested", a)
           second == Message("controller_released", a)
<1>1. first \in ToHub /\ second \in ToHub
  BY MessageType, TypeParts
<1> HIDE DEF first, second
<1>2. <<first, second>> \in Seq(ToHub) /\ Len(<<first, second>>) = 2
  BY <1>1
<1> QED
  BY <1>2 DEF Release, first, second

LEMMA CommandTypeStep == TypeOK /\ CommandStep => TypeOK'
<1> SUFFICES ASSUME TypeOK, NEW n \in 1..MaxSequence, NEW h \in Handles,
                    \/ \E delivered \in BOOLEAN :
                         Grant(n, h, delivered) \/ Renewal(n, h, delivered)
                         \/ Revoke(n, h, delivered)
                    \/ \E count \in 0..2 : TakeOver(n, h, count)
                    \/ \E count \in 0..3 : HandOver(n, h, count)
                    \/ \E r \in 1..MaxRequests :
                         \/ \E count \in 0..2 : RobotReady(n, h, r, count)
                         \/ RobotReadyTooLate(n, h, r)
             PROVE  TypeOK'
  BY DEF CommandStep
<1>0. n \in Nat /\ h \in Handle /\ h.authority \in Authority
  BY EnvironmentType, HandleFacts
<1>1. ASSUME NEW delivered \in BOOLEAN, Grant(n, h, delivered) \/ Renewal(n, h, delivered)
      PROVE  TypeOK'
  BY <1>0, <1>1, GrantType, RenewalType
<1>2. ASSUME NEW delivered \in BOOLEAN, Revoke(n, h, delivered) PROVE TypeOK'
  <2> DEFINE said == <<Message("revoke_ack", h.authority)>>
  <2>1. said \in Seq(ToHub) /\ Len(said) = 1
    <3>1. Message("revoke_ack", h.authority) \in ToHub
      BY <1>0, MessageType, TypeParts
    <3> QED
      BY <3>1
  <2>2. opened' = opened /\ requested' = requested /\ <<>> \in Seq(ToHub)
    BY <1>2 DEF Revoke
  <2>3. CASE delivered
    BY <1>0, <1>2, <2>1, <2>2, <2>3, EndType DEF Revoke
  <2>4. CASE ~delivered
    BY <1>2, <2>2, <2>4, LostType DEF Revoke
  <2> QED
    BY <2>3, <2>4
<1>3. ASSUME NEW count \in 0..2, TakeOver(n, h, count) PROVE TypeOK'
  BY <1>0, <1>3, TakeOverType
<1>4. ASSUME NEW count \in 0..3, HandOver(n, h, count) PROVE TypeOK'
  <2> DEFINE said == Append(Release(h.authority), Message("hand_over_ack", h.authority))
  <2>1. said \in Seq(ToHub) /\ Len(said) = 3
    <3> DEFINE release == Release(h.authority)
               ack     == Message("hand_over_ack", h.authority)
    <3>1. ack \in ToHub
      BY <1>0, MessageType, TypeParts
    <3>2. release \in Seq(ToHub) /\ Len(release) = 2
      BY <1>0, ReleaseType
    <3> HIDE DEF release, ack
    <3>3. /\ Append(release, ack) \in Seq(ToHub)
          /\ Len(Append(release, ack)) = Len(release) + 1
      BY <3>1, <3>2, AppendProperties, Zenon
    <3> QED
      BY <3>2, <3>3 DEF release, ack
  <2>2. opened' = opened /\ requested' = requested
    BY <1>4 DEF HandOver
  <2>3. CASE count = 3
    <3>1. /\ DisableStreaming(Held) /\ control' = "IDLE" /\ Answer(n, said)
          /\ hubEpoch' = hubEpoch /\ request' = request
      BY <1>4, <2>3 DEF HandOver
    <3> HIDE DEF said
    <3> QED
      BY <1>0, <2>1, <2>2, <3>1, EndType
  <2>4. CASE count # 3
    <3>1. Unanswered(Held, SubSeq(said, 1, count))
      BY <1>4, <2>4 DEF HandOver
    <3> HIDE DEF said
    <3>2. count \in Nat /\ count <= Len(said)
      BY <2>1
    <3>3. SubSeq(said, 1, count) \in Seq(ToHub)
      BY <2>1, <3>2, AnswersType
    <3> QED
      BY <2>2, <3>1, <3>3, LostType
  <2> QED
    BY <2>3, <2>4
<1>5. ASSUME NEW r, NEW count \in 0..2, RobotReady(n, h, r, count) PROVE TypeOK'
  BY <1>0, <1>5, RobotReadyType
<1>6. ASSUME NEW r, RobotReadyTooLate(n, h, r) PROVE TypeOK'
  BY <1>6, ExpiredType DEF RobotReadyTooLate
<1> QED
  BY <1>1, <1>2, <1>3, <1>4, <1>5, <1>6

\* Asking for take-over keeps what it does not change.
LEMMA AskType ==
    ASSUME TypeOK, handle # NoHandle, NEW delivered \in BOOLEAN,
           AskForTakeOver(delivered),
           delivered => control' \in ControllerControlState /\ StreamType'
    PROVE  TypeOK'
<1>0. handle.authority \in Authority
  BY HandleFacts DEF TypeOK
<1>1. CASE delivered
  <2>1. sent' \in Seq(ToHub)
    <3> DEFINE ask == Message("take_over_requested", handle.authority)
    <3>1. ask \in ToHub
      BY <1>0, MessageType, TypeParts
    <3>2. sent' = <<ask>>
      BY <1>1 DEF AskForTakeOver
    <3> HIDE DEF ask
    <3> QED
      BY <3>1, <3>2
  <2>2. LinkType' /\ HoldingType' /\ CountType' /\ OutsideType'
    BY <1>1 DEF AskForTakeOver, LinkType, HoldingType, CountType, OutsideType,
                TypeOK, link, holding
  <2> QED
    BY <1>1, <2>1, <2>2, TypePartsPrimed
<1>2. CASE ~delivered
  <2>1. Held \in SUBSET HandleIds /\ <<>> \in Seq(ToHub)
    BY HeldType, TypeParts
  <2>2. opened' \in Nat /\ requested' \in Nat
    BY DEF AskForTakeOver, TypeOK
  <2> QED
    BY <1>2, <2>1, <2>2, UnansweredType DEF AskForTakeOver
<1> QED
  BY <1>1, <1>2

LEMMA LocalTypeStep == TypeOK /\ LocalStep => TypeOK'
<1> SUFFICES ASSUME TypeOK, LocalStep PROVE TypeOK'
  OBVIOUS
<1>1. ASSUME NEW delivered \in BOOLEAN, RequestTakeOver(delivered) PROVE TypeOK'
  <2>1. CASE defer
    <3>1. HoldingType' /\ StreamType'
      BY <1>1, <2>1 DEF RequestTakeOver, HoldingType, StreamType, TypeOK, holding,
                        ControllerControlState
    <3>2. LinkType' /\ CountType' /\ OutsideType' /\ sent' \in Seq(ToHub)
      BY <1>1, <2>1 DEF RequestTakeOver, LinkType, CountType, OutsideType, TypeOK, link
    <3> QED
      BY <3>1, <3>2, TypePartsPrimed
  <2>2. CASE ~defer
    <3>1. delivered => control' \in ControllerControlState /\ StreamType'
      BY <1>1, <2>2 DEF RequestTakeOver, ControllerControlState, StreamType, TypeOK
    <3> QED
      BY <1>1, <2>2, <3>1, AskType DEF RequestTakeOver
  <2> QED
    BY <2>1, <2>2
<1>2. ASSUME NEW delivered \in BOOLEAN, PublishFirst(delivered) PROVE TypeOK'
  <2>1. delivered => control' \in ControllerControlState /\ StreamType'
    BY <1>2 DEF PublishFirst, StreamType, TypeOK, output
  <2> QED
    BY <1>2, <2>1, AskType DEF PublishFirst
<1>3. ASSUME NEW count \in 0..2, RequestHandOver(count) PROVE TypeOK'
  <2> DEFINE said == Release(handle.authority)
  <2>1. said \in Seq(ToHub) /\ Len(said) = 2
    BY <1>3, HandleFacts, ReleaseType DEF RequestHandOver, TypeOK
  <2> HIDE DEF said
  <2>2. CASE count = 2
    <3>1. DisableStreaming(Held) /\ control' = "IDLE" /\ sent' = said
      BY <1>3, <2>2 DEF RequestHandOver, said
    <3>2. HoldingType' /\ StreamType'
      BY <3>1, HeldType, DisableStreamingType, TypeParts
    <3>3. LinkType' /\ CountType' /\ OutsideType'
      BY <1>3, <2>2
      DEF RequestHandOver, LinkType, CountType, OutsideType, TypeOK, link
    <3> QED
      BY <2>1, <3>1, <3>2, <3>3, TypePartsPrimed
  <2>3. CASE count # 2
    <3>1. Unanswered(Held, SubSeq(said, 1, count))
      BY <1>3, <2>3 DEF RequestHandOver, said
    <3>2. opened' \in Nat /\ requested' \in Nat
      BY <1>3 DEF RequestHandOver, TypeOK
    <3>3. Held \in SUBSET HandleIds /\ SubSeq(said, 1, count) \in Seq(ToHub)
      BY <2>1, HeldType, AnswersType, TypeParts
    <3> QED
      BY <3>1, <3>2, <3>3, UnansweredType
  <2> QED
    BY <2>2, <2>3
<1>4. CASE Publish
  <2>1. last' \in Frame /\ StreamType' /\ sent' \in Seq(ToHub)
    BY <1>4, HandleFacts DEF Publish, Frame, StreamType, TypeOK
  <2>2. LinkType' /\ HoldingType' /\ CountType' /\ now' \in Nat
    BY <1>4 DEF Publish, LinkType, HoldingType, CountType, TypeOK, link, holding
  <2> QED
    BY <2>1, <2>2, TypePartsPrimed DEF OutsideType
<1>5. CASE HandleExpired
  BY <1>5, ExpiredType DEF HandleExpired
<1>6. CASE Tick
  <2>1. OutsideType' /\ sent' \in Seq(ToHub)
    BY <1>6 DEF Tick, OutsideType, TypeOK
  <2>2. LinkType' /\ HoldingType' /\ StreamType' /\ CountType'
    BY <1>6 DEF Tick, LinkType, HoldingType, StreamType, CountType, TypeOK,
                link, holding, output
  <2> QED
    BY <2>1, <2>2, TypePartsPrimed
<1> QED
  BY <1>1, <1>2, <1>3, <1>4, <1>5, <1>6 DEF LocalStep

LEMMA TypeStep == TypeOK /\ [Next]_vars => TypeOK'
<1>1. TypeOK /\ UNCHANGED vars => TypeOK'
  BY DEF TypeOK, vars, link, holding, output
<1> QED
  BY <1>1, ManagementTypeStep, CommandTypeStep, LocalTypeStep DEF Next

\* Every state that a Controller process reaches is well-typed: no command,
\* lost answer or local call leaves a Handle or a frame half written.
THEOREM TypeCorrect == Spec => []TypeOK
  BY TypeInit, TypeStep, PTL DEF Spec

-----------------------------------------------------------------------------
(* What a step can do to the Handle and to the stream: one of seven kinds. *)

\* The authority ends and with it the stream; a Robot that was just ready may
\* have counted as a stream that is lost at once.
Ends ==
    /\ streaming' = FALSE /\ control' = "IDLE" /\ handle' = NoHandle
    /\ last' = last /\ now' = now /\ opened' \in {opened, opened + 1}

\* Neither changes, nor what the authority of a held Handle rests on.
Keeps ==
    /\ UNCHANGED <<control, holding, output, last, opened>>
    /\ now' \in {now, now + 1}
    /\ started => /\ started' /\ session' = session
                  /\ hubEpoch = 0 \/ hubEpoch' = hubEpoch

Link == UNCHANGED <<started, session, last, opened, now>>

Caches(h) ==
    /\ Link /\ started /\ handle = NoHandle /\ handle' = h
    /\ expiry' = LocalExpiry(h)
    /\ hubEpoch' = h.authority.hub_epoch
    /\ session = h.authority.controller_session
    /\ h.authority.handle_id \notin terminal /\ terminal' = terminal
    /\ streaming' = FALSE /\ control' = "IDLE"

Renews(h) ==
    /\ Link /\ handle # NoHandle /\ handle.authority = h.authority
    /\ h.expires_at > handle.expires_at
    /\ handle' = h /\ expiry' = LocalExpiry(h)
    /\ UNCHANGED <<hubEpoch, control, terminal, output>>

Prepares ==
    /\ Link /\ handle # NoHandle
    /\ streaming' = FALSE /\ control' = "TAKING_OVER"
    /\ UNCHANGED <<hubEpoch, holding, stream, sequence>>

Streams ==
    /\ handle # NoHandle
    /\ streaming' = TRUE /\ control' = "STREAMING"
    /\ opened' = opened + 1 /\ stream' = opened' /\ sequence' = 0
    /\ UNCHANGED <<started, session, hubEpoch, holding, last, now>>

LEMMA UnansweredEnds ==
    ASSUME NEW ids, NEW said, Unanswered(ids, said), opened' \in {opened, opened + 1}
    PROVE  Ends
  BY DEF Unanswered, LoseManagement, DisableStreaming, Ends

LEMMA ManagementKinds ==
    ASSUME TypeOK, ManagementStep PROVE Ends \/ Keeps
<1>1. ASSUME NEW skipped, NEW ok, Start(skipped, ok) PROVE Keeps
  BY <1>1 DEF Start, Keeps
<1>2. ASSUME NEW ok, ManagementLost(ok) PROVE Ends
  BY <1>2 DEF ManagementLost, LoseManagement, DisableStreaming, Ends
<1>3. CASE Stop
  BY <1>3 DEF Stop, DisableStreaming, Ends
<1>4. ASSUME NEW n, NEW e, Registered(n, e) PROVE Keeps
  BY <1>4 DEF Registered, Keeps
<1> QED
  BY <1>1, <1>2, <1>3, <1>4 DEF ManagementStep

LEMMA CommandKinds ==
    ASSUME TypeOK, CommandStep
    PROVE  \/ Ends \/ Keeps \/ Prepares \/ Streams
           \/ \E h \in Handle : Caches(h) \/ Renews(h)
<1> SUFFICES ASSUME NEW n \in 1..MaxSequence, NEW h \in Handles,
                    \/ \E delivered \in BOOLEAN :
                         Grant(n, h, delivered) \/ Renewal(n, h, delivered)
                         \/ Revoke(n, h, delivered)
                    \/ \E count \in 0..2 : TakeOver(n, h, count)
                    \/ \E count \in 0..3 : HandOver(n, h, count)
                    \/ \E r \in 1..MaxRequests :
                         \/ \E count \in 0..2 : RobotReady(n, h, r, count)
                         \/ RobotReadyTooLate(n, h, r)
             PROVE  \/ Ends \/ Keeps \/ Prepares \/ Streams
                    \/ Caches(h) \/ Renews(h)
  BY EnvironmentType DEF CommandStep
<1>0. h \in Handle
  BY EnvironmentType
<1>1. ASSUME NEW delivered \in BOOLEAN, Grant(n, h, delivered)
      PROVE  Ends \/ Keeps \/ Caches(h)
  <2>1. CASE delivered /\ handle = NoHandle
    BY <1>1, <2>1 DEF Grant, Command, Answer, Caches, Link
  <2>2. CASE delivered /\ handle # NoHandle
    BY <1>1, <2>2 DEF Grant, Command, Answer, Keeps, holding, output
  <2>3. CASE ~delivered
    BY <1>1, <2>3, UnansweredEnds DEF Grant
  <2> QED
    BY <2>1, <2>2, <2>3
<1>2. ASSUME NEW delivered \in BOOLEAN, Renewal(n, h, delivered)
      PROVE  Ends \/ Renews(h)
  <2>1. CASE delivered
    BY <1>2, <2>1 DEF Renewal, Answer, Renews, Link
  <2>2. CASE ~delivered
    BY <1>2, <2>2, UnansweredEnds DEF Renewal
  <2> QED
    BY <2>1, <2>2
<1>3. ASSUME NEW delivered \in BOOLEAN, Revoke(n, h, delivered) PROVE Ends
  <2>1. CASE delivered
    BY <1>3, <2>1 DEF Revoke, Answer, DisableStreaming, Ends
  <2>2. CASE ~delivered
    BY <1>3, <2>2, UnansweredEnds DEF Revoke
  <2> QED
    BY <2>1, <2>2
<1>4. ASSUME NEW count \in 0..2, TakeOver(n, h, count) PROVE Ends \/ Prepares
  <2>1. handle # NoHandle /\ opened' = opened
    BY <1>0, <1>4, HeldMatches DEF TakeOver
  <2>2. \/ Unanswered(Held, SubSeq(IF defer THEN <<Message("take_over_ack", h.authority)>>
                                   ELSE <<Message("take_over_requested", h.authority),
                                          Message("take_over_ack", h.authority)>>, 1, count))
        \/ /\ streaming' = FALSE /\ control' = "TAKING_OVER"
           /\ UNCHANGED <<hubEpoch, holding, stream, sequence>>
           /\ UNCHANGED <<started, session, last, now>>
    BY <1>4 DEF TakeOver, Answer
  <2> QED
    BY <2>1, <2>2, UnansweredEnds DEF Prepares, Link
<1>5. ASSUME NEW count \in 0..3, HandOver(n, h, count) PROVE Ends
  <2>1. CASE count = 3
    BY <1>5, <2>1 DEF HandOver, Answer, DisableStreaming, Ends
  <2>2. CASE count # 3
    BY <1>5, <2>2, UnansweredEnds DEF HandOver
  <2> QED
    BY <2>1, <2>2
<1>6. ASSUME NEW r, NEW count \in 0..2, RobotReady(n, h, r, count)
      PROVE  Ends \/ Streams
  <2>1. handle # NoHandle
    BY <1>0, <1>6, HeldMatches DEF RobotReady
  <2>2. CASE count = 2
    BY <1>6, <2>1, <2>2 DEF RobotReady, Answer, Streams
  <2>3. CASE count # 2
    BY <1>6, <2>3, UnansweredEnds DEF RobotReady
  <2> QED
    BY <2>2, <2>3
<1>7. ASSUME NEW r, RobotReadyTooLate(n, h, r) PROVE Ends
  BY <1>7 DEF RobotReadyTooLate, DisableStreaming, Ends
<1> QED
  BY <1>1, <1>2, <1>3, <1>4, <1>5, <1>6, <1>7

LEMMA LocalKinds ==
    ASSUME TypeOK, LocalStep PROVE Ends \/ Keeps \/ Prepares \/ Publish
<1>1. ASSUME NEW delivered \in BOOLEAN, RequestTakeOver(delivered)
      PROVE  Ends \/ Prepares
  <2>1. CASE defer
    BY <1>1, <2>1 DEF RequestTakeOver, link, Prepares, Link
  <2>2. CASE ~defer /\ delivered
    BY <1>1, <2>2 DEF RequestTakeOver, AskForTakeOver, link, Prepares, Link
  <2>3. CASE ~defer /\ ~delivered
    BY <1>1, <2>3, UnansweredEnds DEF RequestTakeOver, AskForTakeOver
  <2> QED
    BY <2>1, <2>2, <2>3
<1>2. ASSUME NEW delivered \in BOOLEAN, PublishFirst(delivered)
      PROVE  Ends \/ Keeps
  <2>1. CASE delivered
    BY <1>2, <2>1 DEF PublishFirst, AskForTakeOver, link, Keeps
  <2>2. CASE ~delivered
    BY <1>2, <2>2, UnansweredEnds DEF PublishFirst, AskForTakeOver
  <2> QED
    BY <2>1, <2>2
<1>3. ASSUME NEW count \in 0..2, RequestHandOver(count) PROVE Ends
  <2>1. CASE count = 2
    BY <1>3, <2>1 DEF RequestHandOver, DisableStreaming, Ends
  <2>2. CASE count # 2
    BY <1>3, <2>2, UnansweredEnds DEF RequestHandOver
  <2> QED
    BY <2>1, <2>2
<1>4. CASE HandleExpired
  BY <1>4 DEF HandleExpired, DisableStreaming, Ends
<1>5. CASE Tick
  BY <1>5 DEF Tick, link, Keeps
<1> QED
  BY <1>1, <1>2, <1>3, <1>4, <1>5 DEF LocalStep

LEMMA StepKinds ==
    ASSUME TypeOK, [Next]_vars
    PROVE  \/ Ends \/ Keeps \/ Prepares \/ Streams \/ Publish
           \/ \E h \in Handle : Caches(h) \/ Renews(h)
<1>1. CASE UNCHANGED vars
  BY <1>1 DEF vars, link, Keeps
<1> QED
  BY <1>1, ManagementKinds, CommandKinds, LocalKinds DEF Next

-----------------------------------------------------------------------------
(* Authority.                                                              *)

LEMMA StreamNeedsAuthorityStep ==
    TypeOK /\ StreamNeedsAuthority /\ [Next]_vars => StreamNeedsAuthority'
<1> SUFFICES ASSUME TypeOK, StreamNeedsAuthority, [Next]_vars
             PROVE  StreamNeedsAuthority'
  OBVIOUS
<1>0. handle # NoHandle => handle \in Handle /\ handle.authority.hub_epoch # 0
  BY HandleFacts DEF TypeOK
<1>1. CASE Ends
  BY <1>1 DEF Ends, StreamNeedsAuthority
<1>2. CASE Keeps
  BY <1>0, <1>2 DEF Keeps, holding, output, StreamNeedsAuthority
<1>3. ASSUME NEW h \in Handle, Caches(h) PROVE StreamNeedsAuthority'
  BY <1>3 DEF Caches, Link, StreamNeedsAuthority
<1>4. ASSUME NEW h \in Handle, Renews(h) PROVE StreamNeedsAuthority'
  BY <1>4, HandleFacts DEF Renews, Link, output, StreamNeedsAuthority
<1>5. CASE Prepares
  BY <1>5 DEF Prepares, Link, holding, StreamNeedsAuthority
<1>6. CASE Streams
  BY <1>6 DEF Streams, holding, StreamNeedsAuthority
<1>7. CASE Publish
  BY <1>7 DEF Publish, link, holding, StreamNeedsAuthority
<1> QED
  BY <1>1, <1>2, <1>3, <1>4, <1>5, <1>6, <1>7, StepKinds

\* A Controller streams exactly when it reports STREAMING, and then under a
\* Handle of its present session and Hub epoch that it never gave up.
THEOREM StreamsUnderAuthority == Spec => []StreamNeedsAuthority
<1>1. Init => StreamNeedsAuthority
  BY DEF Init, StreamNeedsAuthority
<1> QED
  BY <1>1, StreamNeedsAuthorityStep, TypeCorrect, PTL DEF Spec

\* What this process gave up it never holds again.
LEMMA TerminalStep ==
    [Next]_vars => terminal \subseteq terminal'
<1> SUFFICES ASSUME [Next]_vars PROVE terminal \subseteq terminal'
  OBVIOUS
<1>1. ASSUME NEW ids, NEW said, Unanswered(ids, said)
      PROVE  terminal \subseteq terminal'
  BY <1>1 DEF Unanswered, LoseManagement, DisableStreaming
<1>2. CASE ManagementStep
  BY <1>2 DEF ManagementStep, Start, Stop, ManagementLost, Registered,
              LoseManagement, DisableStreaming, holding
<1>3. CASE CommandStep
  BY <1>1, <1>3 DEF CommandStep, Grant, Renewal, Revoke, TakeOver, HandOver,
                    RobotReady, RobotReadyTooLate, DisableStreaming, holding
<1>4. CASE LocalStep
  BY <1>1, <1>4 DEF LocalStep, RequestTakeOver, PublishFirst, AskForTakeOver,
                    RequestHandOver, Publish, HandleExpired, Tick,
                    DisableStreaming, holding
<1>5. CASE UNCHANGED vars
  BY <1>5 DEF vars, holding
<1> QED
  BY <1>2, <1>3, <1>4, <1>5 DEF Next

\* Once a Handle is given up, no grant, renewal, restart or new session brings
\* it back in this process.
THEOREM EndedHandlesStayEnded ==
    ASSUME NEW id
    PROVE  Spec => [](id \in terminal =>
                        [](handle # NoHandle => handle.authority.handle_id # id))
<1> DEFINE Gone == id \in terminal
           Away == handle # NoHandle => handle.authority.handle_id # id
<1>1. Gone /\ [Next]_vars => Gone'
  BY TerminalStep
<1>2. StreamNeedsAuthority /\ Gone => Away
  BY DEF StreamNeedsAuthority
<1>3. [][Next]_vars /\ Gone => []Gone
  <2> HIDE DEF Gone
  <2> QED
    BY <1>1, PTL
<1> HIDE DEF Gone, Away
<1>4. Spec => [](Gone => []Away)
  BY <1>1, <1>2, StreamsUnderAuthority, PTL DEF Spec
<1> QED
  BY <1>4, PTL DEF Gone, Away

-----------------------------------------------------------------------------
(* The frames.                                                             *)

\* The frame published last belongs to an earlier stream, or precedes the next
\* frame of the current one under the same authority.
FramesInv ==
    /\ last.stream <= opened
    /\ streaming => \/ last.stream < stream
                    \/ /\ last.stream = stream /\ last.sequence + 1 = sequence
                       /\ last.authority = handle.authority

LEMMA FramesInvStep ==
    TypeOK /\ StreamNeedsAuthority /\ FramesInv /\ [Next]_vars => FramesInv'
<1> SUFFICES ASSUME TypeOK, StreamNeedsAuthority, FramesInv, [Next]_vars
             PROVE  FramesInv'
  OBVIOUS
<1>0. /\ last.stream \in Nat /\ last.sequence \in Int /\ opened \in Nat
      /\ stream \in Nat /\ sequence \in Nat
  BY DEF TypeOK, Frame
<1>1. CASE Ends
  BY <1>0, <1>1 DEF Ends, FramesInv
<1>2. CASE Keeps
  BY <1>2 DEF Keeps, holding, output, FramesInv
<1>3. ASSUME NEW h \in Handle, Caches(h) PROVE FramesInv'
  BY <1>3 DEF Caches, Link, FramesInv
<1>4. ASSUME NEW h \in Handle, Renews(h) PROVE FramesInv'
  BY <1>4 DEF Renews, Link, output, FramesInv
<1>5. CASE Prepares
  BY <1>5 DEF Prepares, Link, FramesInv
<1>6. CASE Streams
  BY <1>0, <1>6 DEF Streams, FramesInv
<1>7. CASE Publish
  BY <1>0, <1>7 DEF Publish, link, holding, FramesInv, StreamNeedsAuthority
<1> QED
  BY <1>1, <1>2, <1>3, <1>4, <1>5, <1>6, <1>7, StepKinds

\* Frames leave in order, each stream under one authority that is held and has
\* not expired, whatever renewals and repeated grants arrive while it runs.
THEOREM FramesLeaveInOrder == Spec => FramesInOrder
<1> DEFINE Ordered ==
      last' # last =>
         /\ \/ last'.stream > last.stream
            \/ /\ last'.stream = last.stream
               /\ last'.sequence = last.sequence + 1
               /\ last'.authority = last.authority
         /\ handle # NoHandle /\ handle.authority = last'.authority
         /\ now < expiry
<1>1. Init => FramesInv
  BY DEF Init, FramesInv
<1>2. TypeOK /\ FramesInv /\ [Next]_vars => [Ordered]_vars
  <2> SUFFICES ASSUME TypeOK, FramesInv, [Next]_vars, last' # last PROVE Ordered
    OBVIOUS
  <2>1. CASE Publish
    <3>1. /\ last.stream \in Nat /\ stream \in Nat /\ now \in Nat /\ expiry \in Nat
          /\ last.sequence \in Int
      BY DEF TypeOK, Frame
    <3> QED
      BY <2>1, <3>1 DEF Publish, Expired, FramesInv
  <2> QED
    BY <2>1, StepKinds DEF Ends, Keeps, Prepares, Streams, Caches, Renews, Link
<1>3. Spec => [][Ordered]_vars
  <2> HIDE DEF Ordered
  <2> QED
    BY <1>1, <1>2, FramesInvStep, StreamsUnderAuthority, TypeCorrect, PTL DEF Spec
<1> QED
  BY <1>3 DEF FramesInOrder

-----------------------------------------------------------------------------
(* The local validity of a Handle.                                         *)

\* A cached Handle is valid for at most the configured time from now, and not
\* beyond the expiry the Hub gave it, unless that has passed already.
ExpiryInv ==
    handle # NoHandle =>
      /\ expiry <= now + HandleTtl
      /\ expiry <= handle.expires_at \/ expiry <= now

LEMMA LocalExpiryBounds ==
    ASSUME TypeOK, NEW h \in Handle
    PROVE  /\ LocalExpiry(h) >= now /\ LocalExpiry(h) <= now + HandleTtl
           /\ LocalExpiry(h) <= h.expires_at \/ LocalExpiry(h) <= now
           /\ \A e \in Nat :
                e <= now + HandleTtl /\ (e <= h.expires_at \/ e <= now)
                  => e <= LocalExpiry(h)
<1>1. h.expires_at \in Nat /\ now \in Nat /\ HandleTtl \in Nat
  BY ConstantsAssumption, HandleFacts DEF TypeOK
<1> QED
  BY <1>1 DEF LocalExpiry

LEMMA ExpiryInvStep == TypeOK /\ ExpiryInv /\ [Next]_vars => ExpiryInv'
<1> SUFFICES ASSUME TypeOK, ExpiryInv, [Next]_vars PROVE ExpiryInv'
  OBVIOUS
<1>0. /\ now \in Nat /\ HandleTtl \in Nat /\ expiry \in Nat
      /\ handle # NoHandle => handle.expires_at \in Nat
  BY ConstantsAssumption, HandleFacts DEF TypeOK
<1>1. CASE Ends
  BY <1>1 DEF Ends, ExpiryInv
<1>2. CASE Keeps
  <2>1. now' \in Nat /\ now <= now' /\ handle' = handle /\ expiry' = expiry
    BY <1>0, <1>2 DEF Keeps, holding
  <2>2. ASSUME handle # NoHandle
        PROVE  expiry <= now' + HandleTtl /\ (expiry <= handle.expires_at \/ expiry <= now')
    <3>1. expiry <= now + HandleTtl /\ (expiry <= handle.expires_at \/ expiry <= now)
      BY <2>2 DEF ExpiryInv
    <3>2. expiry <= now' + HandleTtl
      <4>1. \A e, t, u, d \in Nat : e <= t + d /\ t <= u => e <= u + d
        OBVIOUS
      <4> QED
        BY <1>0, <2>1, <3>1, <4>1
    <3>3. expiry <= handle.expires_at \/ expiry <= now'
      <4>1. CASE expiry <= handle.expires_at
        BY <4>1
      <4>2. CASE expiry <= now
        BY <1>0, <2>1, <4>2
      <4> QED
        BY <3>1, <4>1, <4>2
    <3> QED
      BY <3>2, <3>3
  <2>3. expiry' = expiry /\ handle' = handle
    BY <2>1
  <2> QED
    BY <2>2, <2>3 DEF ExpiryInv
<1>3. ASSUME NEW h \in Handle, Caches(h) \/ Renews(h) PROVE ExpiryInv'
  BY <1>3, LocalExpiryBounds DEF Caches, Renews, Link, ExpiryInv
<1>4. CASE Prepares \/ Streams \/ Publish
  BY <1>4 DEF Prepares, Streams, Publish, Link, holding, ExpiryInv
<1> QED
  BY <1>1, <1>2, <1>3, <1>4, StepKinds

\* The Hub can only extend the validity of a cached Handle: while it is held,
\* it keeps its authority, and no renewal, however late it arrives or however
\* far in the past it expires, shortens it.
THEOREM RenewalsNeverShorten == Spec => RenewalsExtend
<1> DEFINE Extends ==
      handle # NoHandle /\ handle' # NoHandle =>
         /\ handle'.authority = handle.authority
         /\ expiry' >= expiry
<1>1. Init => ExpiryInv
  BY DEF Init, ExpiryInv
<1>2. TypeOK /\ ExpiryInv /\ [Next]_vars => [Extends]_vars
  <2> SUFFICES ASSUME TypeOK, ExpiryInv, [Next]_vars,
                      handle # NoHandle, handle' # NoHandle
               PROVE  handle'.authority = handle.authority /\ expiry' >= expiry
    OBVIOUS
  <2>0. expiry \in Nat /\ handle \in Handle /\ now \in Nat /\ HandleTtl \in Nat
    BY ConstantsAssumption DEF TypeOK
  <2>1. ASSUME NEW h \in Handle, Renews(h)
        PROVE  handle'.authority = handle.authority /\ expiry' >= expiry
    <3>1. expiry <= now + HandleTtl /\ (expiry <= h.expires_at \/ expiry <= now)
      BY <2>0, <2>1, HandleFacts DEF Renews, ExpiryInv
    <3>2. expiry <= LocalExpiry(h)
      BY <2>0, <3>1, LocalExpiryBounds
    <3>3. LocalExpiry(h) \in Nat
      BY LocalExpiryType
    <3> QED
      BY <2>0, <2>1, <3>2, <3>3 DEF Renews
  <2>2. CASE Keeps \/ Prepares \/ Streams \/ Publish
    BY <2>0, <2>2 DEF Keeps, Prepares, Streams, Publish, holding
  <2>3. ~Ends /\ \A h \in Handle : ~Caches(h)
    BY DEF Ends, Caches
  <2> QED
    BY <2>1, <2>2, <2>3, StepKinds
<1>3. Spec => [][Extends]_vars
  <2> HIDE DEF Extends
  <2> QED
    BY <1>1, <1>2, ExpiryInvStep, TypeCorrect, PTL DEF Spec
<1> QED
  BY <1>3 DEF RenewalsExtend

-----------------------------------------------------------------------------
(* Requests.                                                               *)

\* Each take-over request is answered by at most one stream.
LEMMA OneStreamStep ==
    TypeOK /\ OneStreamPerRequest /\ [Next]_vars => OneStreamPerRequest'
<1> SUFFICES ASSUME TypeOK, OneStreamPerRequest, [Next]_vars
             PROVE  OneStreamPerRequest'
  OBVIOUS
<1>0. opened \in Nat /\ requested \in Nat /\ request \in Nat
  BY DEF TypeOK
<1>1. ASSUME NEW ids, NEW said, Unanswered(ids, said), opened' <= requested'
      PROVE  OneStreamPerRequest'
  BY <1>1 DEF Unanswered, LoseManagement, OpenSession, OneStreamPerRequest
<1>2. ASSUME UNCHANGED <<opened, requested>>, request' \in {0, request}
      PROVE  OneStreamPerRequest'
  BY <1>2 DEF OneStreamPerRequest
<1>3. ASSUME opened' = opened, requested' = requested + 1,
             request' \in {0, request, requested'}
      PROVE  OneStreamPerRequest'
  BY <1>0, <1>3 DEF OneStreamPerRequest
<1>4. CASE ManagementStep
  BY <1>2, <1>4 DEF ManagementStep, Start, Stop, ManagementLost, Registered,
                    LoseManagement, OpenSession
<1>5. ASSUME NEW n, NEW h, NEW delivered,
             Grant(n, h, delivered) \/ Renewal(n, h, delivered) \/ Revoke(n, h, delivered)
      PROVE  OneStreamPerRequest'
  BY <1>1, <1>2, <1>5 DEF Grant, Renewal, Revoke, OneStreamPerRequest
<1>6. ASSUME NEW n, NEW h, NEW count, TakeOver(n, h, count) PROVE OneStreamPerRequest'
  <2>1. opened' = opened /\ requested' \in {requested, requested + 1}
        /\ opened' <= requested'
    BY <1>0, <1>6 DEF TakeOver, OneStreamPerRequest
  <2>2. CASE request' = 0
    BY <2>1, <2>2 DEF OneStreamPerRequest
  <2>3. CASE request' # 0
    <3>1. ~defer /\ request' = requested'
      BY <1>1, <1>6, <2>1, <2>3
      DEF TakeOver, Unanswered, LoseManagement, OpenSession
    <3> QED
      BY <1>0, <1>3, <1>6, <2>1, <3>1 DEF TakeOver
  <2> QED
    BY <2>2, <2>3
<1>7. ASSUME NEW n, NEW h, NEW count, HandOver(n, h, count) PROVE OneStreamPerRequest'
  BY <1>1, <1>2, <1>7 DEF HandOver, OneStreamPerRequest
<1>8. ASSUME NEW n, NEW h, NEW r, NEW count, RobotReady(n, h, r, count)
      PROVE  OneStreamPerRequest'
  <2>1. opened' = opened + 1 /\ requested' = requested /\ request # 0
    BY <1>8 DEF RobotReady, AnswersRequest
  <2>2. opened' <= requested'
    BY <1>0, <2>1 DEF OneStreamPerRequest
  <2>3. request' = 0
    BY <1>8 DEF RobotReady, Unanswered, LoseManagement, OpenSession
  <2> QED
    BY <2>2, <2>3 DEF OneStreamPerRequest
<1>9. ASSUME NEW n, NEW h, NEW r, RobotReadyTooLate(n, h, r) PROVE OneStreamPerRequest'
  BY <1>2, <1>9 DEF RobotReadyTooLate
<1>10. ASSUME NEW delivered, AskForTakeOver(delivered) PROVE OneStreamPerRequest'
  <2>1. opened' = opened /\ requested' = requested + 1 /\ opened' <= requested'
    BY <1>0, <1>10 DEF AskForTakeOver, OneStreamPerRequest
  <2>2. request' \in {0, requested'}
    BY <1>10, <2>1 DEF AskForTakeOver, Unanswered, LoseManagement, OpenSession
  <2> QED
    BY <1>3, <2>1, <2>2
<1>11. CASE LocalStep
  <2>1. ASSUME NEW delivered, RequestTakeOver(delivered) PROVE OneStreamPerRequest'
    BY <1>2, <1>10, <2>1 DEF RequestTakeOver
  <2>2. ASSUME NEW delivered, PublishFirst(delivered) PROVE OneStreamPerRequest'
    BY <1>10, <2>2 DEF PublishFirst
  <2>3. ASSUME NEW count, RequestHandOver(count) PROVE OneStreamPerRequest'
    BY <1>1, <1>2, <2>3 DEF RequestHandOver, OneStreamPerRequest
  <2>4. CASE Publish \/ HandleExpired \/ Tick
    BY <1>2, <2>4 DEF Publish, HandleExpired, Tick
  <2> QED
    BY <1>11, <2>1, <2>2, <2>3, <2>4 DEF LocalStep
<1>12. CASE UNCHANGED vars
  BY <1>2, <1>12 DEF vars
<1> QED
  BY <1>4, <1>5, <1>6, <1>7, <1>8, <1>9, <1>11, <1>12 DEF Next, CommandStep

\* A robot_ready that is repeated, late, or an answer to an earlier take-over
\* never opens a second stream.
THEOREM OneStreamEach == Spec => []OneStreamPerRequest
<1>1. Init => OneStreamPerRequest
  BY DEF Init, OneStreamPerRequest
<1> QED
  BY <1>1, OneStreamStep, TypeCorrect, PTL DEF Spec

-----------------------------------------------------------------------------
(* What the Hub is told.                                                   *)

EndKinds == {"hand_over_requested", "controller_released", "hand_over_ack", "revoke_ack"}

\* The messages speak of the end only of Handles in S.
EndsOnly(said, S) ==
    \A i \in 1..Len(said) :
      said[i].kind \in EndKinds => said[i].authority.handle_id \in S

LEMMA EndsOnlyQuiet ==
    /\ \A S : EndsOnly(<<>>, S)
    /\ \A S, a : \A k \in {"grant_ack", "renewal_ack"} : EndsOnly(<<Message(k, a)>>, S)
    /\ \A S, a : EndsOnly(<<Message("take_over_requested", a)>>, S)
    /\ \A S : \A ok \in BOOLEAN : EndsOnly(Registration(ok), S)
<1>1. ASSUME NEW S PROVE EndsOnly(<<>>, S)
  BY DEF EndsOnly
<1>2. ASSUME NEW S, NEW a, NEW k \in {"grant_ack", "renewal_ack", "take_over_requested"}
      PROVE  EndsOnly(<<Message(k, a)>>, S)
  BY DEF EndsOnly, EndKinds, Message
<1>3. ASSUME NEW S, NEW ok \in BOOLEAN PROVE EndsOnly(Registration(ok), S)
  BY DEF EndsOnly, EndKinds, Registration
<1> QED
  BY <1>1, <1>2, <1>3

LEMMA EndsOnlyBeginning ==
    ASSUME NEW S, NEW said \in Seq(ToHub), NEW count \in Nat, count <= Len(said),
           EndsOnly(said, S)
    PROVE  SubSeq(said, 1, count) \in Seq(ToHub) /\ EndsOnly(SubSeq(said, 1, count), S)
<1>1. /\ SubSeq(said, 1, count) \in Seq(ToHub)
      /\ Len(SubSeq(said, 1, count)) = count
      /\ \A i \in 1..count : SubSeq(said, 1, count)[i] = said[i]
  BY AnswersType
<1>2. 1..count \subseteq 1..Len(said)
  OBVIOUS
<1> QED
  BY <1>1, <1>2 DEF EndsOnly

LEMMA EndsOnlyConcat ==
    ASSUME NEW S, NEW s \in Seq(ToHub), NEW t \in Seq(ToHub),
           EndsOnly(s, S), EndsOnly(t, S)
    PROVE  EndsOnly(s \o t, S)
<1> SUFFICES ASSUME NEW i \in 1..Len(s \o t), (s \o t)[i].kind \in EndKinds
             PROVE  (s \o t)[i].authority.handle_id \in S
  BY DEF EndsOnly
<1>1. CASE i <= Len(s)
  <2>1. (s \o t)[i] = s[i] /\ i \in 1..Len(s)
    BY <1>1
  <2> QED
    BY <2>1 DEF EndsOnly
<1>2. CASE i > Len(s)
  <2>1. (s \o t)[i] = t[i - Len(s)] /\ i - Len(s) \in 1..Len(t)
    BY <1>2
  <2> QED
    BY <2>1 DEF EndsOnly
<1> QED
  BY <1>1, <1>2

\* A step that speaks of the end of no Handle, or ends all it speaks of.
LEMMA EndKept ==
    ASSUME NEW S, NEW said, sent' = said, EndsOnly(said, S), S \subseteq terminal',
           S # {} => handle' = NoHandle
    PROVE  ReleaseIsFinal'
  BY DEF EndsOnly, EndKinds, ReleaseIsFinal

LEMMA QuietEnd ==
    ASSUME NEW said, sent' = said, EndsOnly(said, {}) PROVE ReleaseIsFinal'
  BY EndKept

LEMMA DisabledEnd ==
    ASSUME NEW S, NEW said, sent' = said, EndsOnly(said, S), DisableStreaming(S)
    PROVE  ReleaseIsFinal'
<1>1. S \subseteq terminal' /\ handle' = NoHandle
  BY DEF DisableStreaming
<1> QED
  BY <1>1, EndKept

LEMMA LostEnd ==
    ASSUME NEW S, NEW said \in Seq(ToHub), NEW ok \in BOOLEAN, LinkType',
           LoseManagement(S, said, ok), EndsOnly(said, S)
    PROVE  ReleaseIsFinal'
<1>1. Registration(ok) \in Seq(ToHub)
  <2>1. [kind |-> "register", session |-> session', authority |-> NoHandle] \in ToHub
    BY DEF LinkType, ToHub
  <2> QED
    BY <2>1 DEF Registration
<1>2. EndsOnly(said \o Registration(ok), S)
  BY <1>1, EndsOnlyQuiet, EndsOnlyConcat
<1>3. sent' = said \o Registration(ok) /\ DisableStreaming(S)
  BY DEF LoseManagement
<1> QED
  BY <1>2, <1>3, DisabledEnd

LEMMA UnansweredEnd ==
    ASSUME NEW S, NEW said \in Seq(ToHub), LinkType', Unanswered(S, said),
           EndsOnly(said, S)
    PROVE  ReleaseIsFinal'
  BY LostEnd DEF Unanswered

LEMMA ReleaseIsFinalStep == TypeOK /\ ReleaseIsFinal /\ [Next]_vars => ReleaseIsFinal'
<1> SUFFICES ASSUME TypeOK, ReleaseIsFinal, [Next]_vars PROVE ReleaseIsFinal'
  OBVIOUS
<1>0. LinkType' /\ <<>> \in Seq(ToHub) /\ LinkType /\ HoldingType
  BY TypeStep, TypeParts, TypePartsPrimed
<1>1. CASE ManagementStep
  BY <1>0, <1>1, EndsOnlyQuiet, QuietEnd, LostEnd
  DEF ManagementStep, Start, Stop, ManagementLost, Registered
<1>2. CASE CommandStep
  <2> SUFFICES ASSUME NEW n \in 1..MaxSequence, NEW h \in Handle,
                      \/ \E delivered \in BOOLEAN :
                           Grant(n, h, delivered) \/ Renewal(n, h, delivered)
                           \/ Revoke(n, h, delivered)
                      \/ \E count \in 0..2 : TakeOver(n, h, count)
                      \/ \E count \in 0..3 : HandOver(n, h, count)
                      \/ \E r \in 1..MaxRequests :
                           \/ \E count \in 0..2 : RobotReady(n, h, r, count)
                           \/ RobotReadyTooLate(n, h, r)
               PROVE  ReleaseIsFinal'
    BY <1>2, EnvironmentType DEF CommandStep
  <2>0. h.authority \in Authority
    BY HandleFacts
  <2>1. ASSUME NEW delivered, Grant(n, h, delivered) \/ Renewal(n, h, delivered)
        PROVE  ReleaseIsFinal'
    BY <1>0, <2>1, EndsOnlyQuiet, QuietEnd, UnansweredEnd DEF Grant, Renewal, Answer
  <2>2. ASSUME NEW delivered, Revoke(n, h, delivered) PROVE ReleaseIsFinal'
    <3>1. EndsOnly(<<Message("revoke_ack", h.authority)>>, Held)
      BY <2>2, HeldMatches DEF Revoke, EndsOnly, Message
    <3> QED
      BY <1>0, <2>2, <3>1, EndsOnlyQuiet, DisabledEnd, UnansweredEnd DEF Revoke, Answer
  <2>3. ASSUME NEW count \in 0..2, TakeOver(n, h, count) PROVE ReleaseIsFinal'
    <3> DEFINE ack  == Message("take_over_ack", h.authority)
               ask  == Message("take_over_requested", h.authority)
               said == IF defer THEN <<ack>> ELSE <<ask, ack>>
    <3>1. said \in Seq(ToHub) /\ \A S : EndsOnly(said, S)
      <4>1. ack \in ToHub /\ ask \in ToHub
        BY <1>0, <2>0, MessageType
      <4>2. ack.kind \notin EndKinds /\ ask.kind \notin EndKinds
        BY DEF Message, EndKinds
      <4> HIDE DEF ack, ask
      <4> QED
        BY <4>1, <4>2 DEF EndsOnly
    <3>2. /\ count \in Nat /\ count <= Len(said)
          /\ Answer(n, said) \/ Unanswered(Held, SubSeq(said, 1, count))
      BY <2>3 DEF TakeOver
    <3> HIDE DEF said
    <3>3. SubSeq(said, 1, count) \in Seq(ToHub)
          /\ \A S : EndsOnly(SubSeq(said, 1, count), S)
      BY <3>1, <3>2, EndsOnlyBeginning
    <3> QED
      BY <1>0, <3>1, <3>2, <3>3, QuietEnd, UnansweredEnd DEF Answer
  <2>4. ASSUME NEW count \in 0..3, HandOver(n, h, count) PROVE ReleaseIsFinal'
    <3> DEFINE one   == Message("hand_over_requested", h.authority)
               two   == Message("controller_released", h.authority)
               three == Message("hand_over_ack", h.authority)
               said  == <<one, two, three>>
    <3>1. said \in Seq(ToHub) /\ Len(said) = 3 /\ EndsOnly(said, Held)
      <4>1. one \in ToHub /\ two \in ToHub /\ three \in ToHub
        BY <1>0, <2>0, MessageType
      <4>2. h.authority.handle_id \in Held
        BY <2>4, HeldMatches DEF HandOver
      <4>3. \A m \in {one, two, three} : m.authority.handle_id \in Held
        BY <4>2 DEF Message
      <4> HIDE DEF one, two, three
      <4> QED
        BY <4>1, <4>3 DEF EndsOnly
    <3>2. said = Append(Release(h.authority), three)
      BY DEF Release
    <3>3. CASE count = 3
      <4>1. DisableStreaming(Held) /\ sent' = said
        BY <2>4, <3>2, <3>3 DEF HandOver, Answer
      <4> QED
        BY <3>1, <4>1, DisabledEnd
    <3>4. CASE count # 3
      <4>1. Unanswered(Held, SubSeq(said, 1, count))
        BY <2>4, <3>2, <3>4 DEF HandOver
      <4> HIDE DEF said
      <4>2. count \in Nat /\ count <= Len(said)
        BY <3>1
      <4> QED
        BY <1>0, <3>1, <4>1, <4>2, EndsOnlyBeginning, UnansweredEnd
    <3> QED
      BY <3>3, <3>4
  <2>5. ASSUME NEW r, NEW count \in 0..2, RobotReady(n, h, r, count)
        PROVE  ReleaseIsFinal'
    <3> DEFINE first  == Message("controller_streaming", h.authority)
               second == Message("robot_ready_ack", h.authority)
               said   == <<first, second>>
    <3>1. said \in Seq(ToHub) /\ Len(said) = 2 /\ \A S : EndsOnly(said, S)
      <4>1. first \in ToHub /\ second \in ToHub
        BY <1>0, <2>0, MessageType
      <4>2. first.kind \notin EndKinds /\ second.kind \notin EndKinds
        BY DEF Message, EndKinds
      <4> HIDE DEF first, second
      <4> QED
        BY <4>1, <4>2 DEF EndsOnly
    <3>2. Answer(n, said) \/ Unanswered(Held, SubSeq(said, 1, count))
      BY <2>5 DEF RobotReady
    <3> HIDE DEF said
    <3>3. SubSeq(said, 1, count) \in Seq(ToHub)
          /\ \A S : EndsOnly(SubSeq(said, 1, count), S)
      <4>1. count \in Nat /\ count <= Len(said)
        BY <3>1
      <4> QED
        BY <3>1, <4>1, EndsOnlyBeginning
    <3> QED
      BY <1>0, <3>1, <3>2, <3>3, QuietEnd, UnansweredEnd DEF Answer
  <2>6. ASSUME NEW r, RobotReadyTooLate(n, h, r) PROVE ReleaseIsFinal'
    BY <2>6, EndsOnlyQuiet, QuietEnd DEF RobotReadyTooLate
  <2> QED
    BY <2>1, <2>2, <2>3, <2>4, <2>5, <2>6
<1>3. CASE LocalStep
  <2>1. ASSUME NEW delivered, AskForTakeOver(delivered) PROVE ReleaseIsFinal'
    BY <1>0, <2>1, EndsOnlyQuiet, QuietEnd, UnansweredEnd DEF AskForTakeOver
  <2>2. ASSUME NEW count \in 0..2, RequestHandOver(count) PROVE ReleaseIsFinal'
    <3> DEFINE said == Release(handle.authority)
    <3>1. handle # NoHandle /\ handle.authority \in Authority
          /\ handle.authority.handle_id \in Held
      BY <2>2, HandleFacts DEF RequestHandOver, TypeOK, Held
    <3>2. said \in Seq(ToHub) /\ Len(said) = 2
      BY <3>1, ReleaseType
    <3>3. EndsOnly(said, Held)
      BY <3>1 DEF EndsOnly, Release, Message
    <3>4. CASE count = 2
      BY <2>2, <3>3, <3>4, DisabledEnd DEF RequestHandOver
    <3>5. CASE count # 2
      <4>1. Unanswered(Held, SubSeq(said, 1, count))
        BY <2>2, <3>5 DEF RequestHandOver
      <4> HIDE DEF said
      <4>2. count \in Nat /\ count <= Len(said)
        BY <3>2
      <4> QED
        BY <1>0, <3>2, <3>3, <4>1, <4>2, EndsOnlyBeginning, UnansweredEnd
    <3> QED
      BY <3>4, <3>5
  <2>3. ASSUME sent' = <<>> PROVE ReleaseIsFinal'
    BY <2>3, EndsOnlyQuiet, QuietEnd
  <2> QED
    BY <1>3, <2>1, <2>2, <2>3
    DEF LocalStep, RequestTakeOver, PublishFirst, Publish, HandleExpired, Tick
<1>4. CASE UNCHANGED vars
  BY <1>4 DEF vars, holding, ReleaseIsFinal
<1> QED
  BY <1>1, <1>2, <1>3, <1>4 DEF Next

\* Whoever hears that a Controller hands over, has released, or has obeyed a
\* revocation, hears it of a Handle that this process has given up for good,
\* also when the session is lost in the middle of saying so.
THEOREM ReleasesAreFinal == Spec => []ReleaseIsFinal
<1>1. Init => ReleaseIsFinal
  BY DEF Init, ReleaseIsFinal
<1> QED
  BY <1>1, ReleaseIsFinalStep, TypeCorrect, PTL DEF Spec

=============================================================================
