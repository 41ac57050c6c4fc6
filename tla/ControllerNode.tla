--------------------------- MODULE ControllerNode ---------------------------
(***************************************************************************)
(* One Controller process (ControllerNode): it caches the Handle the Hub   *)
(* grants, asks for take-over, streams actions to the Robot between the    *)
(* Robot's answer and the end of its authority, and gives the Handle back. *)
(* The management thread, the action source that calls publish, and the    *)
(* operator who calls take_over and hand_over share one lock, so each      *)
(* method is one action.                                                   *)
(*                                                                         *)
(* The Hub is the environment: its commands for any Handle come in any     *)
(* order, repeated or not at all.  A Handle is an authority (identity)     *)
(* with an expiry; here, unlike in the Robot, a command counts only for    *)
(* exactly the Handle that is cached, expiry included.  A new channel can  *)
(* always be opened (the runtimes raise only on bad configuration).        *)
(***************************************************************************)
EXTENDS ControlModel, Integers, Sequences

CONSTANTS
    HandleIds,      \* Handle identifiers
    Robots,         \* a Robot with its session
    NoHandle,       \* no Handle is cached
    HandleTtl,      \* longest local validity of a Handle (timing.handle_ttl)
    Authorities     \* the authorities the environment talks about

CONSTANTS           \* bounds of the explored instance
    MaxTime, MaxSession, MaxSequence, MaxRequests, MaxFrames

Authority == [handle_id : HandleIds, hub_epoch : Nat \ {0},
              controller_session : Nat, robot : Robots, fencing_token : Nat]

Handle == [authority : Authority, expires_at : Nat]

\* A published frame: stream counts the stream sessions opened so far.
Frame == [authority : Authority \cup {NoHandle}, stream : Nat, sequence : Int]

ToHub == [kind : {"register", "grant_ack", "renewal_ack", "take_over_ack",
                  "robot_ready_ack", "hand_over_ack", "revoke_ack",
                  "take_over_requested", "controller_streaming",
                  "hand_over_requested", "controller_released"},
          session : Nat, authority : Authority \cup {NoHandle}]

ASSUME ConstantsAssumption ==
    /\ NoHandle \notin Handle /\ NoHandle \notin Authority
    /\ HandleTtl \in Nat /\ Authorities \subseteq Authority
    /\ MaxTime \in Nat /\ MaxSession \in Nat /\ MaxSequence \in Nat
    /\ MaxRequests \in Nat /\ MaxFrames \in Nat

\* A Handle id is a UUID minted for one authority.
ASSUME UniqueIdsAssumption ==
    \A a, b \in Authorities : a.handle_id = b.handle_id => a = b

VARIABLES
    started, session,
    defer,          \* configured to ask for take-over at the first action only
    hubEpoch,       \* 0 until the registration or a grant told the epoch
    registering,    \* the registration of this session may be answered
    lastCommand,    \* highest Hub command sequence applied, 0 for none
    control, handle, expiry,
    terminal,       \* Handle ids this process will never hold again
    streaming,      \* publication is enabled
    stream,         \* the stream session, 0 for none
    sequence,       \* sequence number of the next frame
    request,        \* the take-over request that waits for the Robot, 0 for none
    opened,         \* stream sessions opened so far
    requested,      \* take-over requests made so far
    last,           \* the last frame published
    sent,           \* the messages the last step sent to the Hub
    now

link == <<started, session, defer, hubEpoch, registering, lastCommand>>
holding == <<handle, expiry, terminal>>
output == <<streaming, stream, sequence>>

vars == <<link, control, holding, output, request, opened, requested, last,
          sent, now>>

-----------------------------------------------------------------------------
Message(kind, a) == [kind |-> kind, session |-> session, authority |-> a]

Held == IF handle = NoHandle THEN {} ELSE {handle.authority.handle_id}

Expired == now >= expiry

MatchesCurrentHandle(h) ==
    /\ h.authority.handle_id \notin terminal
    /\ handle = h
    /\ hubEpoch = h.authority.hub_epoch
    /\ session = h.authority.controller_session

\* Mutant: what remains is not put on the local clock.
RemainingValidity(h) == h.expires_at - now

LocalExpiry(h) ==
    LET remaining == IF h.expires_at > now THEN h.expires_at - now ELSE 0
    IN  now + (IF remaining < HandleTtl THEN remaining ELSE HandleTtl)

\* Mutant: the ended Handle is not remembered.
DisableStreamingForNow(ids) ==
    /\ streaming' = FALSE /\ stream' = 0 /\ sequence' = 0
    /\ handle' = NoHandle /\ expiry' = 0
    /\ terminal' = terminal

\* Stop publishing and end the authority for good.
DisableStreaming(ids) ==
    /\ streaming' = FALSE /\ stream' = 0 /\ sequence' = 0
    /\ handle' = NoHandle /\ expiry' = 0
    /\ terminal' = terminal \cup ids

-----------------------------------------------------------------------------
(* The management session.                                                 *)

Init ==
    /\ started = FALSE /\ session = 0 /\ defer \in BOOLEAN
    /\ hubEpoch = 0 /\ registering = FALSE /\ lastCommand = 0
    /\ control = "IDLE" /\ handle = NoHandle /\ expiry = 0 /\ terminal = {}
    /\ streaming = FALSE /\ stream = 0 /\ sequence = 0
    /\ request = 0 /\ opened = 0 /\ requested = 0
    /\ last = [authority |-> NoHandle, stream |-> 0, sequence |-> -1]
    /\ sent = <<>> /\ now = 0

\* skipped sessions were opened and lost again before anyone heard of them.
OpenSession(skipped, ok) ==
    /\ session + skipped < MaxSession
    /\ session' = session + skipped + 1
    /\ hubEpoch' = 0 /\ lastCommand' = 0 /\ request' = 0
    /\ registering' = ok

Registration(ok) ==
    IF ok THEN <<[kind |-> "register", session |-> session',
                  authority |-> NoHandle]>>
    ELSE <<>>

\* A first registration that cannot be sent costs a session; the next one is
\* repeated only by losing the session again.
Start(skipped, ok) ==
    /\ ~started
    /\ skipped = 0 => ok
    /\ started' = TRUE
    /\ OpenSession(skipped, ok)
    /\ sent' = Registration(ok)
    /\ UNCHANGED <<defer, control, holding, output, opened, requested, last, now>>

Stop ==
    /\ started
    /\ started' = FALSE
    /\ DisableStreaming(Held)
    /\ control' = "IDLE"
    /\ sent' = <<>>
    /\ UNCHANGED <<session, defer, hubEpoch, registering, lastCommand, request,
                   opened, requested, last, now>>

\* The session is given up together with the Handle, and a new one is opened
\* and registered at once.  said is what left the node before it noticed; a
\* handler that already counted a request or stream says so itself.
LoseManagement(ids, said, ok) ==
    /\ DisableStreaming(ids)
    /\ control' = "IDLE"
    /\ OpenSession(0, ok)
    /\ sent' = said \o Registration(ok)
    /\ UNCHANGED <<started, defer, last, now>>

\* Three heartbeats without an answer, or a heartbeat or status that cannot be
\* sent.
ManagementLost(ok) ==
    /\ started
    /\ LoseManagement(Held, <<>>, ok)
    /\ UNCHANGED <<opened, requested>>

\* The answer to the registration of this session.  It cannot disagree with an
\* epoch learned from a grant: the Hub process that answers a registration is
\* the one that grants to the session.
Registered(n, epoch) ==
    /\ started /\ registering
    /\ n > lastCommand
    /\ hubEpoch \in {0, epoch}
    /\ hubEpoch' = epoch /\ registering' = FALSE /\ lastCommand' = n
    /\ sent' = <<>>
    /\ UNCHANGED <<started, session, defer, control, holding, output, request,
                   opened, requested, last, now>>

-----------------------------------------------------------------------------
(* Hub commands.  delivered, or count, says how many of the messages that  *)
(* answer a command leave the node; if not all do, the session is lost.    *)

Command(n, h) ==
    /\ started
    /\ n > lastCommand
    /\ hubEpoch \in {0, h.authority.hub_epoch}

Answer(n, said) ==
    /\ lastCommand' = n
    /\ sent' = said
    /\ UNCHANGED <<started, session, defer, registering, last, now>>

Unanswered(ids, said) == \E ok \in BOOLEAN : LoseManagement(ids, said, ok)

\* Cache a Handle without enabling publication; one that is held already is
\* granted again with no effect.  A grant may precede the answer to the
\* registration, and then tells the epoch.
Grant(n, h, delivered) ==
    LET id == h.authority.handle_id
    IN  /\ Command(n, h)
        /\ h.authority.controller_session = session
        /\ id \notin terminal
        /\ handle # NoHandle => handle.authority = h.authority
        /\ UNCHANGED <<opened, requested>>
        /\ IF delivered
           THEN /\ hubEpoch' = h.authority.hub_epoch
                /\ IF handle = NoHandle
                   THEN /\ handle' = h /\ expiry' = LocalExpiry(h)
                        /\ streaming' = FALSE /\ control' = "IDLE"
                   ELSE UNCHANGED <<handle, expiry, streaming, control>>
                /\ Answer(n, <<Message("grant_ack", h.authority)>>)
                /\ UNCHANGED <<terminal, stream, sequence, request>>
           ELSE Unanswered({id}, <<>>)

\* Mutant: an older expiry may replace a newer one.
RenewalOfAnyAge(n, h, delivered) ==
    /\ Command(n, h)
    /\ handle # NoHandle /\ handle.authority = h.authority
    /\ hubEpoch = h.authority.hub_epoch
    /\ UNCHANGED <<opened, requested>>
    /\ IF delivered
       THEN /\ handle' = h /\ expiry' = LocalExpiry(h)
            /\ Answer(n, <<Message("renewal_ack", h.authority)>>)
            /\ UNCHANGED <<hubEpoch, control, terminal, output, request>>
       ELSE Unanswered(Held, <<>>)

\* Only a later expiry of the held Handle counts.  It revives a Handle that
\* expired here unnoticed: unlike the Robot, the Controller does not look.
Renewal(n, h, delivered) ==
    /\ Command(n, h)
    /\ handle # NoHandle /\ handle.authority = h.authority
    /\ hubEpoch = h.authority.hub_epoch
    /\ h.expires_at > handle.expires_at
    /\ UNCHANGED <<opened, requested>>
    /\ IF delivered
       THEN /\ handle' = h /\ expiry' = LocalExpiry(h)
            /\ Answer(n, <<Message("renewal_ack", h.authority)>>)
            /\ UNCHANGED <<hubEpoch, control, terminal, output, request>>
       ELSE Unanswered(Held, <<>>)

\* The Hub asks for take-over: publication stops, and the Controller turns to
\* the Robot through the Hub, or waits for the first action to do so.
TakeOver(n, h, count) ==
    LET said == IF defer THEN <<Message("take_over_ack", h.authority)>>
                ELSE <<Message("take_over_requested", h.authority),
                       Message("take_over_ack", h.authority)>>
    IN  /\ Command(n, h)
        /\ MatchesCurrentHandle(h)
        /\ count <= Len(said)
        /\ defer \/ requested < MaxRequests
        /\ requested' = IF defer THEN requested ELSE requested + 1
        /\ opened' = opened
        /\ IF count = Len(said)
           THEN /\ streaming' = FALSE /\ control' = "TAKING_OVER"
                /\ request' = IF defer THEN 0 ELSE requested'
                /\ Answer(n, said)
                /\ UNCHANGED <<hubEpoch, holding, stream, sequence>>
           ELSE Unanswered(Held, SubSeq(said, 1, count))

\* Mutant: an answer is good for any take-over.
AnswersSomeRequest(n, h, r) == Command(n, h) /\ r # 0

\* The answer is to the request that waits, if any does.
AnswersRequest(n, h, r) == Command(n, h) /\ r # 0 /\ r = request

\* The Robot is ready for the take-over that was requested last: one new
\* stream begins.
RobotReady(n, h, r, count) ==
    LET said == <<Message("controller_streaming", h.authority),
                  Message("robot_ready_ack", h.authority)>>
    IN  /\ AnswersRequest(n, h, r)
        /\ MatchesCurrentHandle(h)
        /\ control = "TAKING_OVER" /\ ~Expired
        /\ opened' = opened + 1
        /\ requested' = requested
        /\ IF count = 2
           THEN /\ streaming' = TRUE /\ stream' = opened + 1 /\ sequence' = 0
                /\ control' = "STREAMING" /\ request' = 0
                /\ Answer(n, said)
                /\ UNCHANGED <<hubEpoch, holding>>
           ELSE Unanswered(Held, SubSeq(said, 1, count))

\* The same when the Handle has expired meanwhile.
RobotReadyTooLate(n, h, r) ==
    /\ AnswersRequest(n, h, r)
    /\ MatchesCurrentHandle(h)
    /\ control = "TAKING_OVER" /\ Expired
    /\ DisableStreaming(Held)
    /\ control' = "IDLE"
    /\ sent' = <<>>
    /\ UNCHANGED <<link, request, opened, requested, last, now>>

\* What a hand-over says, in order: publication has stopped; it is over here.
Release(a) == <<Message("hand_over_requested", a), Message("controller_released", a)>>

HandOver(n, h, count) ==
    LET said == Append(Release(h.authority), Message("hand_over_ack", h.authority))
    IN  /\ Command(n, h)
        /\ MatchesCurrentHandle(h)
        /\ UNCHANGED <<opened, requested>>
        /\ IF count = 3
           THEN /\ DisableStreaming(Held)
                /\ control' = "IDLE"
                /\ Answer(n, said)
                /\ UNCHANGED <<hubEpoch, request>>
           ELSE Unanswered(Held, SubSeq(said, 1, count))

Revoke(n, h, delivered) ==
    /\ Command(n, h)
    /\ MatchesCurrentHandle(h)
    /\ UNCHANGED <<opened, requested>>
    /\ IF delivered
       THEN /\ DisableStreaming(Held)
            /\ control' = "IDLE"
            /\ Answer(n, <<Message("revoke_ack", h.authority)>>)
            /\ UNCHANGED <<hubEpoch, request>>
       ELSE Unanswered(Held, <<>>)

-----------------------------------------------------------------------------
(* Local calls.                                                            *)

\* Send the take-over request of the held Handle.
AskForTakeOver(delivered) ==
    /\ requested < MaxRequests
    /\ requested' = requested + 1
    /\ opened' = opened
    /\ IF delivered
       THEN /\ request' = requested + 1
            /\ sent' = <<Message("take_over_requested", handle.authority)>>
            /\ UNCHANGED <<link, holding, last, now>>
       ELSE Unanswered(Held, <<>>)

\* take_over: no effect while a stream runs.
RequestTakeOver(delivered) ==
    /\ handle # NoHandle /\ control # "STREAMING"
    /\ IF defer
       THEN /\ streaming' = FALSE /\ control' = "TAKING_OVER" /\ request' = 0
            /\ sent' = <<>>
            /\ UNCHANGED <<link, holding, stream, sequence, opened, requested,
                           last, now>>
       ELSE /\ AskForTakeOver(delivered)
            /\ delivered => /\ streaming' = FALSE /\ control' = "TAKING_OVER"
                            /\ UNCHANGED <<stream, sequence>>

\* hand_over: like the Hub's command, for any expiry of the held Handle.
RequestHandOver(count) ==
    /\ handle # NoHandle
    /\ UNCHANGED <<opened, requested>>
    /\ IF count = 2
       THEN /\ DisableStreaming(Held)
            /\ control' = "IDLE"
            /\ sent' = Release(handle.authority)
            /\ UNCHANGED <<link, request, last, now>>
       ELSE Unanswered(Held, SubSeq(Release(handle.authority), 1, count))

\* Mutant: the expiry is left to the management loop.
PublishUntilNoticed ==
    /\ handle # NoHandle /\ streaming
    /\ sequence < MaxFrames
    /\ last' = [authority |-> handle.authority, stream |-> stream,
                sequence |-> sequence]
    /\ sequence' = sequence + 1
    /\ sent' = <<>>
    /\ UNCHANGED <<link, control, holding, streaming, stream, request, opened,
                   requested, now>>

\* publish while a stream runs: the next frame of the stream.
Publish ==
    /\ handle # NoHandle /\ ~Expired /\ streaming
    /\ sequence < MaxFrames
    /\ last' = [authority |-> handle.authority, stream |-> stream,
                sequence |-> sequence]
    /\ sequence' = sequence + 1
    /\ sent' = <<>>
    /\ UNCHANGED <<link, control, holding, streaming, stream, request, opened,
                   requested, now>>

\* publish for the first time after a deferred take-over.
PublishFirst(delivered) ==
    /\ handle # NoHandle /\ ~Expired /\ ~streaming
    /\ defer /\ control = "TAKING_OVER" /\ request = 0
    /\ AskForTakeOver(delivered)
    /\ delivered => UNCHANGED <<control, output>>

\* Mutant: the reported state is not reset.
HandleExpiredUnreported ==
    /\ handle # NoHandle /\ Expired
    /\ DisableStreaming(Held)
    /\ control' = control
    /\ sent' = <<>>
    /\ UNCHANGED <<link, request, opened, requested, last, now>>

\* The cached Handle has expired: noticed by publish, or by the management loop
\* while a stream runs.
HandleExpired ==
    /\ handle # NoHandle /\ Expired
    /\ DisableStreaming(Held)
    /\ control' = "IDLE"
    /\ sent' = <<>>
    /\ UNCHANGED <<link, request, opened, requested, last, now>>

Tick ==
    /\ now < MaxTime
    /\ now' = now + 1
    /\ sent' = <<>>
    /\ UNCHANGED <<link, control, holding, output, request, opened, requested,
                   last>>

-----------------------------------------------------------------------------
Handles == {[authority |-> a, expires_at |-> t] :
              a \in Authorities, t \in 1..MaxTime}

Epochs == {a.hub_epoch : a \in Authorities}

ManagementStep ==
    \/ \E skipped \in 0..1, ok \in BOOLEAN : Start(skipped, ok)
    \/ \E ok \in BOOLEAN : ManagementLost(ok)
    \/ Stop
    \/ \E n \in 1..MaxSequence, e \in Epochs : Registered(n, e)

CommandStep ==
    \E n \in 1..MaxSequence, h \in Handles :
      \/ \E delivered \in BOOLEAN :
           Grant(n, h, delivered) \/ Renewal(n, h, delivered) \/ Revoke(n, h, delivered)
      \/ \E count \in 0..2 : TakeOver(n, h, count)
      \/ \E count \in 0..3 : HandOver(n, h, count)
      \/ \E r \in 1..MaxRequests :
           \/ \E count \in 0..2 : RobotReady(n, h, r, count)
           \/ RobotReadyTooLate(n, h, r)

LocalStep ==
    \/ \E delivered \in BOOLEAN : RequestTakeOver(delivered) \/ PublishFirst(delivered)
    \/ \E count \in 0..2 : RequestHandOver(count)
    \/ Publish \/ HandleExpired \/ Tick

Next == ManagementStep \/ CommandStep \/ LocalStep

Spec == Init /\ [][Next]_vars

-----------------------------------------------------------------------------
TypeOK ==
    /\ started \in BOOLEAN /\ session \in Nat /\ defer \in BOOLEAN
    /\ hubEpoch \in Nat /\ registering \in BOOLEAN /\ lastCommand \in Nat
    /\ control \in ControllerControlState
    /\ handle \in Handle \cup {NoHandle} /\ expiry \in Nat
    /\ terminal \subseteq HandleIds
    /\ streaming \in BOOLEAN /\ stream \in Nat /\ sequence \in Nat
    /\ request \in Nat /\ opened \in Nat /\ requested \in Nat
    /\ last \in Frame /\ sent \in Seq(ToHub) /\ now \in Nat

\* The Controller streams exactly when it reports STREAMING, and then under a
\* Handle of this session and epoch that it never gave up; no session, however
\* it ended, leaves a take-over or a stream behind.
StreamNeedsAuthority ==
    /\ streaming <=> control = "STREAMING"
    /\ control # "IDLE" => handle # NoHandle
    /\ streaming => stream = opened
    /\ handle # NoHandle =>
         /\ started
         /\ hubEpoch = handle.authority.hub_epoch
         /\ session = handle.authority.controller_session
         /\ handle.authority.handle_id \notin terminal

\* Each take-over request is answered by at most one stream: a robot_ready that
\* is repeated, or belongs to an earlier take-over, opens none.
OneStreamPerRequest ==
    /\ opened <= requested
    /\ request # 0 => opened < requested

\* Frames are never published out of order or twice, and every stream is of
\* one authority, although renewals and repeated grants arrive while it runs:
\* the Robot would answer a repeated sequence number with HOLD.
FramesInOrder ==
    [][last' # last =>
         /\ \/ last'.stream > last.stream
            \/ /\ last'.stream = last.stream
               /\ last'.sequence = last.sequence + 1
               /\ last'.authority = last.authority
         /\ handle # NoHandle /\ handle.authority = last'.authority
         /\ now < expiry]_vars

\* Whoever hears that the Controller hands over, has released, or has obeyed a
\* revocation, hears it of an authority under which it never publishes again.
ReleaseIsFinal ==
    \A i \in 1..Len(sent) :
        sent[i].kind \in {"hand_over_requested", "controller_released",
                          "hand_over_ack", "revoke_ack"} =>
          /\ sent[i].authority.handle_id \in terminal
          /\ handle # NoHandle =>
               handle.authority.handle_id # sent[i].authority.handle_id

\* The validity of a cached Handle is never shortened by the Hub: only a later
\* expiry, or the end of the Handle, replaces the one in force.
RenewalsExtend ==
    [][handle # NoHandle /\ handle' # NoHandle =>
         /\ handle'.authority = handle.authority
         /\ expiry' >= expiry]_vars
=============================================================================
