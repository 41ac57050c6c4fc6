------------------------ MODULE ControlSystem_proofs ------------------------
(***************************************************************************)
(* Theorems about ControlSystem for any number of Controllers and Handles, *)
(* any validity, and any bounds on requests, losses and queues.            *)
(***************************************************************************)
EXTENDS ControlSystem, TLAPS, FiniteSetTheorems

CommandSet ==
    [kind : Commands, handle : HandleIds, left : 0 .. Ttl, request : 0 .. MaxRequests]

\* A registration names no Handle, and every other word one.
WordSet ==
    {m \in [kind : Words, handle : HandleIds \cup {NoHandle}, request : 0 .. MaxRequests,
            session : 1 .. MaxLosses + 1] : m.kind # "register" => m.handle \in HandleIds}

ArmSet == [session : 1 .. MaxLosses + 1, input : BOOLEAN, left : 0 .. Ttl,
           handle : HandleIds \cup {NoHandle}, ended : SUBSET HandleIds]

SourceSet == [session : 1 .. MaxLosses + 1, control : ControllerControlState, left : 0 .. Ttl,
              request : 0 .. MaxRequests, handle : HandleIds \cup {NoHandle},
              ended : SUBSET HandleIds]

\* The groups of variables that steps change together.
HubType ==
    /\ registry \in [Nodes -> 1 .. MaxLosses + 1]
    /\ rows \in [HandleIds -> Row \cup {NoRow}]

NodeType ==
    /\ arm \in ArmSet /\ source \in [Controllers -> SourceSet]
    /\ \A n \in Nodes : Session(n) <= losses + 1

CommandType == commands \in [Nodes -> Seq(CommandSet)] /\ missed \subseteq Nodes \X HandleIds

WordType == messages \in [Nodes -> Seq(WordSet)]

CountType == asked \in 0 .. MaxRequests /\ losses \in 0 .. MaxLosses

\* TypeOK leaves open that a queue is a sequence, which a word names a Handle,
\* and that no Node is ahead of the sessions lost: here is what a step needs.
Typed == HubType /\ NodeType /\ CommandType /\ WordType /\ CountType

LEMMA TypedImpliesTypeOK == Typed => TypeOK
<1> SUFFICES ASSUME Typed PROVE TypeOK
  OBVIOUS
<1>1. ASSUME NEW n \in Nodes
      PROVE  /\ \A i \in DOMAIN commands[n] : commands[n][i] \in
                  [kind : Commands, handle : HandleIds, left : 0 .. Ttl, request : 0 .. MaxRequests]
             /\ \A i \in DOMAIN messages[n] : messages[n][i] \in
                  [kind : Words, handle : HandleIds \cup {NoHandle}, request : 0 .. MaxRequests,
                   session : 1 .. MaxLosses + 1]
  <2>1. commands[n] \in Seq(CommandSet) /\ messages[n] \in Seq(WordSet)
    BY <1>1 DEF Typed, CommandType, WordType
  <2>2. \A i \in DOMAIN commands[n] : commands[n][i] \in CommandSet
    BY <2>1
  <2>3. \A i \in DOMAIN messages[n] : messages[n][i] \in WordSet
    BY <2>1
  <2> QED
    BY <2>2, <2>3 DEF CommandSet, WordSet
<1> QED
  BY <1>1 DEF Typed, TypeOK, HubType, NodeType, CommandType, CountType, ArmSet, SourceSet

-----------------------------------------------------------------------------
\* Queues.

\* The elements of a concatenation are those of its parts, in place.
LEMMA ConcatElements ==
    ASSUME NEW S, NEW q \in Seq(S), NEW t \in Seq(S)
    PROVE  /\ q \o t \in Seq(S) /\ Len(q \o t) = Len(q) + Len(t)
           /\ \A i \in DOMAIN q : i \in DOMAIN (q \o t) /\ (q \o t)[i] = q[i]
           /\ \A i \in DOMAIN t : /\ Len(q) + i \in DOMAIN (q \o t)
                                  /\ (q \o t)[Len(q) + i] = t[i]
           /\ \A i \in DOMAIN (q \o t) : \/ i \in DOMAIN q
                                         \/ i > Len(q) /\ i - Len(q) \in DOMAIN t
  OBVIOUS

\* What is left of a queue after its head, in place.
LEMMA TailElements ==
    ASSUME NEW S, NEW q \in Seq(S), q # <<>>
    PROVE  /\ Tail(q) \in Seq(S) /\ Head(q) \in S /\ Head(q) = q[1] /\ 1 \in DOMAIN q
           /\ \A i \in DOMAIN Tail(q) : i \in Nat /\ i + 1 \in DOMAIN q /\ Tail(q)[i] = q[i + 1]
           /\ \A i \in DOMAIN q : i # 1 => i - 1 \in DOMAIN Tail(q) /\ Tail(q)[i - 1] = q[i]
  OBVIOUS

-----------------------------------------------------------------------------
(* What a step of the Hub does, whichever it is.  The invariants below are  *)
(* shown from these facts, so that each is argued once for all its steps.   *)

Carries(q, kind, h) == \E i \in DOMAIN q : q[i].kind = kind /\ q[i].handle = h

\* A word of this kind about Handle h is under way to the Hub.
Spoken(kind, h) == \E n \in Nodes : Carries(messages[n], kind, h)

\* The Handle is being taken from its Nodes, or has been.  No Handle leaves these
\* states, and none is renewed in them.
EndStates == {"REVOKING", "REVOKED", "EXPIRED", "FAULT"}
Ending(h) == rows[h].state \in EndStates

\* What a step of the Hub that tells told may make of a Handle.
Ages(h, told) ==
    IF rows[h] = NoRow
    THEN \/ rows'[h] = NoRow
         \/ rows'[h].state = "ASSIGNED" /\ rows'[h].pending \subseteq {Robot, rows'[h].controller}
    ELSE /\ rows'[h] # NoRow /\ rows'[h].controller = rows[h].controller
         /\ rows'[h].pending \subseteq rows[h].pending
         /\ \/ rows'[h].left = rows[h].left
            \/ /\ ~Ending(h) /\ rows'[h].left = Ttl
               /\ \A n \in Parties(h) : Carries(told[n], "renewal", h)
         /\ Ending(h) => rows'[h].state \in EndStates
         /\ rows'[h].state = "ASSIGNED" => rows[h].state = "ASSIGNED"
         /\ rows'[h].state = "EXPIRED" =>
              rows'[h].left = rows[h].left /\ (rows[h].state = "EXPIRED" \/ rows[h].left = 0)
         /\ rows'[h].state \in {"RELEASED", "REVOKED"} =>
              \/ rows'[h].state = rows[h].state
              \/ /\ Spoken("robot_holding", h)
                 /\ rows'[h].state = "RELEASED" => ~Ending(h)

\* When a step of the Hub may tell Node n command k, with told the rest of what
\* it tells.
Issued(n, told, k) ==
    LET h == k.handle
    IN  /\ rows'[h] # NoRow /\ k.left = rows'[h].left
        /\ k.kind = "grant" =>
             /\ n \notin rows'[h].pending
             /\ IF rows[h] = NoRow THEN n \in {Robot, rows'[h].controller}
                ELSE n \in rows[h].pending
        /\ k.kind # "grant" => rows[h] # NoRow /\ n \in Parties(h)
        /\ k.kind = "renewal" => ~Ending(h)
        /\ k.kind = "revoke" => rows'[h].state \in EndStates /\ Carries(told[rows[h].controller], "revoke", h)
        /\ k.kind = "take_over" /\ n = Robot =>
             /\ Spoken("take_over_requested", h)
             /\ rows[h].state \in {"ASSIGNED", "TAKING_OVER"} /\ rows'[h].state = "TAKING_OVER"
        /\ k.kind = "hand_over" /\ n = Robot => Spoken("hand_over_requested", h)
        /\ k.kind = "robot_ready" => Spoken("robot_ready", h)

HubMoves(told) ==
    /\ told \in [Nodes -> Seq(CommandSet)] /\ \A c \in Controllers : DOMAIN told[c] \subseteq {1}
    /\ rows' \in [HandleIds -> Row \cup {NoRow}]
    /\ \A h \in HandleIds : Ages(h, told)
    /\ \A n \in Nodes : \A i \in DOMAIN told[n] : Issued(n, told, told[n][i])
    /\ Tell(told) /\ UNCHANGED <<arm, source>>

LEMMA CommandInSet ==
    ASSUME Typed, NEW kind \in Commands, NEW h \in HandleIds, NEW left \in 0 .. Ttl,
           NEW request \in 0 .. MaxRequests
    PROVE  Command(kind, h, left, request) \in CommandSet
  BY DEF Command, CommandSet

LEMMA RowOf ==
    ASSUME Typed, NEW h \in HandleIds, rows[h] # NoRow
    PROVE  /\ rows[h] \in Row /\ rows[h].controller \in Controllers
           /\ rows[h].state \in HandleState /\ rows[h].left \in 0 .. Ttl
           /\ rows[h].pending \subseteq Nodes /\ Robot \in Nodes /\ rows[h].controller \in Nodes
           /\ rows[h].controller # Robot
  BY ConstantsAssumption DEF Typed, HubType, Row, Nodes

\* A Handle that a step leaves alone.
LEMMA Untouched ==
    ASSUME NEW h \in HandleIds, rows'[h] = rows[h], NEW told
    PROVE  Ages(h, told)
  BY DEF Ages, Ending, EndStates

LEMMA WithStateRow ==
    ASSUME NEW row \in Row, NEW state \in HandleState
    PROVE  LET new == WithState(row, state)
           IN  /\ new \in Row /\ new.state = state /\ new.controller = row.controller
               /\ new.left = row.left /\ new.pending \subseteq row.pending
  BY DEF WithState, Row

\* The row of one Handle is written anew, its validity left as it is.
LEMMA Rewriting ==
    ASSUME Typed, NEW h \in HandleIds, rows[h] # NoRow, NEW new \in Row,
           rows' = [rows EXCEPT ![h] = new], NEW told,
           new.controller = rows[h].controller, new.left = rows[h].left,
           new.pending \subseteq rows[h].pending,
           new.state = "ASSIGNED" => rows[h].state = "ASSIGNED",
           Ending(h) => new.state \in EndStates,
           new.state = "EXPIRED" => rows[h].left = 0,
           new.state \in {"RELEASED", "REVOKED"} =>
             \/ rows[h].state = new.state
             \/ Spoken("robot_holding", h) /\ (new.state = "RELEASED" => ~Ending(h))
    PROVE  /\ rows' \in [HandleIds -> Row \cup {NoRow}]
           /\ \A g \in HandleIds : Ages(g, told)
           /\ rows'[h] = new /\ rows'[h] # NoRow
<1>1. rows \in [HandleIds -> Row \cup {NoRow}]
  BY DEF Typed, HubType
<1>2. rows'[h] = new /\ \A g \in HandleIds \ {h} : rows'[g] = rows[g]
  BY <1>1
<1>3. rows'[h] # NoRow
  BY <1>2, ConstantsAssumption
<1>4. Ages(h, told)
  BY <1>2, <1>3 DEF Ages, Ending, EndStates
<1> QED
  BY <1>1, <1>2, <1>3, <1>4, Untouched

\* A Handle goes on to another state.
LEMMA Becoming ==
    ASSUME Typed, NEW h \in HandleIds, rows[h] # NoRow, NEW state \in HandleState,
           rows' = Becomes(h, state), NEW told,
           state = "ASSIGNED" => rows[h].state = "ASSIGNED",
           Ending(h) => state \in EndStates,
           state = "EXPIRED" => rows[h].left = 0,
           state \in {"RELEASED", "REVOKED"} =>
             \/ rows[h].state = state
             \/ Spoken("robot_holding", h) /\ (state = "RELEASED" => ~Ending(h))
    PROVE  /\ rows' \in [HandleIds -> Row \cup {NoRow}]
           /\ \A g \in HandleIds : Ages(g, told)
           /\ rows'[h] # NoRow /\ rows'[h].state = state /\ rows'[h].left = rows[h].left
           /\ rows'[h].controller = rows[h].controller
<1> DEFINE new == WithState(rows[h], state)
<1>1. rows' = [rows EXCEPT ![h] = new]
  BY DEF Becomes
<1>2. /\ new \in Row /\ new.state = state /\ new.controller = rows[h].controller
      /\ new.left = rows[h].left /\ new.pending \subseteq rows[h].pending
  BY RowOf, WithStateRow
<1> HIDE DEF new
<1> QED
  BY <1>1, <1>2, Rewriting

LEMMA NothingTold ==
    /\ Nothing \in [Nodes -> Seq(CommandSet)]
    /\ \A m \in Nodes : Nothing[m] = <<>> /\ DOMAIN Nothing[m] = {}
  BY DEF Nothing

\* What is told to one Node.
LEMMA OnlyTold ==
    ASSUME NEW n \in Nodes, NEW t \in Seq(CommandSet)
    PROVE  /\ Only(n, t) \in [Nodes -> Seq(CommandSet)] /\ Only(n, t)[n] = t
           /\ \A m \in Nodes \ {n} : DOMAIN Only(n, t)[m] = {}
<1>1. Only(n, t) = [Nothing EXCEPT ![n] = t]
  BY DEF Only
<1>2. Only(n, t) \in [Nodes -> Seq(CommandSet)] /\ Only(n, t)[n] = t
  BY <1>1, NothingTold
<1>3. \A m \in Nodes \ {n} : Only(n, t)[m] = Nothing[m]
  BY <1>1, NothingTold
<1> QED
  BY <1>2, <1>3, NothingTold

\* One command alone.
LEMMA OneCommand ==
    ASSUME NEW k \in CommandSet
    PROVE  /\ <<k>> \in Seq(CommandSet) /\ Len(<<k>>) = 1
           /\ DOMAIN <<k>> = {1} /\ <<k>>[1] = k
  OBVIOUS

\* One command for one Node.
LEMMA OnlyCommand ==
    ASSUME NEW n \in Nodes, NEW k \in CommandSet
    PROVE  LET told == Only(n, <<k>>)
           IN  /\ told \in [Nodes -> Seq(CommandSet)] /\ \A m \in Nodes : DOMAIN told[m] \subseteq {1}
               /\ DOMAIN told[n] = {1} /\ told[n][1] = k
               /\ \A m \in Nodes \ {n} : DOMAIN told[m] = {}
<1> DEFINE told == Only(n, <<k>>)
<1>1. told \in [Nodes -> Seq(CommandSet)] /\ told[n] = <<k>>
  BY OnlyTold, OneCommand
<1>2. DOMAIN told[n] = {1} /\ told[n][1] = k
  BY <1>1, OneCommand
<1>3. \A m \in Nodes \ {n} : DOMAIN told[m] = {}
  BY OnlyTold, OneCommand
<1> QED
  BY <1>1, <1>2, <1>3

\* The same command for several Nodes.
LEMMA EachTold ==
    ASSUME NEW P, NEW k \in CommandSet,
           NEW told, told = [n \in Nodes |-> IF n \in P THEN <<k>> ELSE <<>>]
    PROVE  /\ told \in [Nodes -> Seq(CommandSet)] /\ \A m \in Nodes : DOMAIN told[m] \subseteq {1}
           /\ \A n \in Nodes \cap P : DOMAIN told[n] = {1} /\ told[n][1] = k
           /\ \A n \in Nodes \ P : DOMAIN told[n] = {}
<1>1. \A n \in Nodes \cap P : told[n] = <<k>>
  OBVIOUS
<1>2. \A n \in Nodes \cap P : DOMAIN told[n] = {1} /\ told[n][1] = k
  BY <1>1, OneCommand
<1>3. \A n \in Nodes \ P : told[n] = <<>>
  OBVIOUS
<1>4. \A n \in Nodes \ P : DOMAIN told[n] = {}
  BY <1>3
<1>5. told \in [Nodes -> Seq(CommandSet)]
  BY OneCommand
<1> QED
  BY <1>2, <1>4, <1>5

LEMMA LiveRow ==
    ASSUME Typed, NEW h \in Live
    PROVE  /\ h \in HandleIds /\ rows[h] # NoRow /\ rows[h].state \notin Terminal
           /\ Ending(h) <=> rows[h].state = "REVOKING"
  BY DEF Live, Terminal, Ending, EndStates

LEMMA TellingNobody ==
    ASSUME rows' \in [HandleIds -> Row \cup {NoRow}],
           \A g \in HandleIds : Ages(g, Nothing), Tell(Nothing), UNCHANGED <<arm, source>>
    PROVE  \E told : HubMoves(told)
<1>1. \A c \in Controllers : DOMAIN Nothing[c] \subseteq {1}
  BY NothingTold DEF Nodes
<1>2. \A n \in Nodes : \A i \in DOMAIN Nothing[n] : Issued(n, Nothing, Nothing[n][i])
  BY NothingTold
<1>3. HubMoves(Nothing)
  BY <1>1, <1>2, NothingTold DEF HubMoves
<1> QED
  BY <1>3

LEMMA TellingOne ==
    ASSUME NEW n \in Nodes, NEW k \in CommandSet, NEW told, told = Only(n, <<k>>),
           rows' \in [HandleIds -> Row \cup {NoRow}],
           \A g \in HandleIds : Ages(g, told), Issued(n, told, k),
           Tell(told), UNCHANGED <<arm, source>>
    PROVE  HubMoves(told)
<1>1. /\ told \in [Nodes -> Seq(CommandSet)] /\ \A m \in Nodes : DOMAIN told[m] \subseteq {1}
      /\ DOMAIN told[n] = {1} /\ told[n][1] = k
      /\ \A m \in Nodes \ {n} : DOMAIN told[m] = {}
  BY OnlyCommand
<1>2. \A m \in Nodes : \A i \in DOMAIN told[m] : Issued(m, told, told[m][i])
  <2> SUFFICES ASSUME NEW m \in Nodes, NEW i \in DOMAIN told[m]
               PROVE  Issued(m, told, told[m][i])
    OBVIOUS
  <2>1. m = n /\ i = 1
    BY <1>1
  <2> QED
    BY <1>1, <2>1
<1>3. \A c \in Controllers : DOMAIN told[c] \subseteq {1}
  BY <1>1 DEF Nodes
<1> QED
  BY <1>1, <1>2, <1>3 DEF HubMoves

\* The states that a Handle is in once it is asked to end.
LEMMA AskedState ==
    ASSUME NEW s \in HandleState \ Terminal
    PROVE  /\ AskedToEnd[s] \in {"REVOKING", "HANDING_OVER"} /\ AskedToEnd[s] \in HandleState
           /\ s = "REVOKING" => AskedToEnd[s] = "REVOKING"
  BY DEF AskedToEnd, HandleState, Terminal

LEMMA RenewMoves ==
    ASSUME Typed, NEW h \in Live, Renew(h)
    PROVE  \E told : HubMoves(told)
<1> DEFINE k == Command("renewal", h, Ttl, 0)
           told == [n \in Nodes |-> IF n \in Parties(h) THEN <<k>> ELSE <<>>]
<1>1. /\ h \in HandleIds /\ rows[h] # NoRow /\ rows[h] \in Row /\ ~Ending(h)
      /\ rows[h].left \in 0 .. Ttl /\ rows[h].left < Ttl /\ Parties(h) \subseteq Nodes
  BY LiveRow, RowOf, ConstantsAssumption DEF Renew, Parties
<1>2. k \in CommandSet /\ k.handle = h /\ k.kind = "renewal" /\ k.left = Ttl
  BY <1>1, CommandInSet, ConstantsAssumption DEF Commands, Command
<1>3. /\ told \in [Nodes -> Seq(CommandSet)] /\ \A m \in Nodes : DOMAIN told[m] \subseteq {1}
      /\ \A n \in Nodes \cap Parties(h) : DOMAIN told[n] = {1} /\ told[n][1] = k
      /\ \A n \in Nodes \ Parties(h) : DOMAIN told[n] = {}
  BY <1>2, EachTold
<1>4. rows' = [rows EXCEPT ![h].left = Ttl] /\ Tell(told) /\ UNCHANGED <<arm, source>>
  BY DEF Renew, Decide
<1>5. /\ rows' \in [HandleIds -> Row \cup {NoRow}] /\ rows'[h] \in Row
      /\ rows'[h] = [rows[h] EXCEPT !.left = Ttl]
      /\ \A g \in HandleIds \ {h} : rows'[g] = rows[g]
  <2>1. rows \in [HandleIds -> Row \cup {NoRow}]
    BY DEF Typed, HubType
  <2>2. [rows[h] EXCEPT !.left = Ttl] \in Row
    BY <1>1, ConstantsAssumption DEF Row
  <2> QED
    BY <1>1, <1>4, <2>1, <2>2
<1>6. /\ rows'[h] # NoRow /\ rows'[h].left = Ttl /\ rows'[h].state = rows[h].state
      /\ rows'[h].controller = rows[h].controller /\ rows'[h].pending = rows[h].pending
  BY <1>1, <1>5, ConstantsAssumption DEF Row
<1>7. \A n \in Parties(h) : Carries(told[n], "renewal", h)
  BY <1>1, <1>2, <1>3 DEF Carries
<1>8. Ages(h, told)
  BY <1>1, <1>6, <1>7 DEF Ages, Ending, EndStates
<1>9. \A n \in Nodes : \A i \in DOMAIN told[n] : Issued(n, told, told[n][i])
  BY <1>1, <1>2, <1>3, <1>6 DEF Issued, Ending, EndStates
<1>10. \A g \in HandleIds : Ages(g, told)
  BY <1>5, <1>8, Untouched
<1> HIDE DEF told
<1>11. \A c \in Controllers : DOMAIN told[c] \subseteq {1}
  BY <1>3 DEF Nodes
<1> QED
  BY <1>3, <1>4, <1>5, <1>9, <1>10, <1>11 DEF HubMoves

LEMMA ExpireMoves ==
    ASSUME Typed, NEW h \in Live, Expire(h)
    PROVE  \E told : HubMoves(told)
<1>1. h \in HandleIds /\ rows[h] # NoRow /\ "EXPIRED" \in HandleState
  BY LiveRow DEF HandleState
<1>2. rows' = Becomes(h, "EXPIRED") /\ rows[h].left = 0 /\ Tell(Nothing)
      /\ UNCHANGED <<arm, source>>
  BY DEF Expire, Decide
<1> QED
  BY <1>1, <1>2, Becoming, TellingNobody DEF EndStates

LEMMA FaultMoves ==
    ASSUME Typed, NEW h \in Live, Fault(h)
    PROVE  \E told : HubMoves(told)
<1>1. h \in HandleIds /\ rows[h] # NoRow /\ "FAULT" \in HandleState
  BY LiveRow DEF HandleState
<1>2. rows' = Becomes(h, "FAULT") /\ Tell(Nothing) /\ UNCHANGED <<arm, source>>
  BY DEF Fault, Decide
<1> QED
  BY <1>1, <1>2, Becoming, TellingNobody DEF EndStates

LEMMA RequestTakeOverMoves ==
    ASSUME Typed, NEW h \in Live, RequestTakeOver(h)
    PROVE  \E told : HubMoves(told)
<1> DEFINE c == rows[h].controller
           k == Command("take_over", h, rows[h].left, asked')
           told == Only(c, <<k>>)
<1>1. /\ h \in HandleIds /\ rows[h] # NoRow /\ "TAKING_OVER" \in HandleState /\ ~Ending(h)
      /\ rows[h].left \in 0 .. Ttl /\ c \in Nodes /\ c # Robot
  BY LiveRow, RowOf DEF HandleState, RequestTakeOver
<1>2. asked' \in 0 .. MaxRequests
  BY ConstantsAssumption DEF RequestTakeOver, Typed, CountType
<1>3. k \in CommandSet /\ k.kind = "take_over" /\ k.handle = h /\ k.left = rows[h].left
  BY <1>1, <1>2, CommandInSet DEF Commands, Command
<1>4. rows' = Becomes(h, "TAKING_OVER") /\ Tell(told) /\ UNCHANGED <<arm, source>>
  BY DEF RequestTakeOver, Decide
<1>5. /\ rows' \in [HandleIds -> Row \cup {NoRow}] /\ \A g \in HandleIds : Ages(g, told)
      /\ rows'[h] # NoRow /\ rows'[h].left = rows[h].left
  BY <1>1, <1>4, Becoming DEF EndStates
<1>6. Issued(c, told, k)
  BY <1>1, <1>3, <1>5 DEF Issued, Parties
<1> HIDE DEF told
<1>7. HubMoves(told)
  BY <1>1, <1>3, <1>4, <1>5, <1>6, TellingOne DEF told
<1> QED
  BY <1>7

LEMMA RequestHandOverMoves ==
    ASSUME Typed, NEW h \in Live, RequestHandOver(h)
    PROVE  \E told : HubMoves(told)
<1> DEFINE c == rows[h].controller
           k == Command("hand_over", h, rows[h].left, 0)
           told == Only(c, <<k>>)
           state == AskedToEnd[rows[h].state]
<1>1. /\ h \in HandleIds /\ rows[h] # NoRow /\ rows[h].state \in HandleState \ Terminal
      /\ rows[h].left \in 0 .. Ttl /\ c \in Nodes /\ c # Robot
      /\ Ending(h) <=> rows[h].state = "REVOKING"
  BY LiveRow, RowOf
<1>2. k \in CommandSet /\ k.kind = "hand_over" /\ k.handle = h /\ k.left = rows[h].left
  BY <1>1, CommandInSet, ConstantsAssumption DEF Commands, Command
<1>3. rows' = Becomes(h, state) /\ Tell(told) /\ UNCHANGED <<arm, source>>
  BY DEF RequestHandOver, Decide
<1>4. /\ state \in {"REVOKING", "HANDING_OVER"} /\ state \in HandleState
      /\ rows[h].state = "REVOKING" => state = "REVOKING"
  BY <1>1, AskedState
<1> HIDE DEF state
<1>5. /\ rows' \in [HandleIds -> Row \cup {NoRow}] /\ \A g \in HandleIds : Ages(g, told)
      /\ rows'[h] # NoRow /\ rows'[h].left = rows[h].left
  BY <1>1, <1>3, <1>4, Becoming DEF EndStates
<1>6. Issued(c, told, k)
  BY <1>1, <1>2, <1>5 DEF Issued, Parties
<1> HIDE DEF told
<1>7. HubMoves(told)
  BY <1>1, <1>2, <1>3, <1>5, <1>6, TellingOne DEF told
<1> QED
  BY <1>7

LEMMA GrantAgainMoves ==
    ASSUME Typed, NEW h \in Live, NEW n \in Nodes, GrantAgain(h, n)
    PROVE  \E told : HubMoves(told)
<1> DEFINE k == Command("grant", h, rows[h].left, 0)
           told == Only(n, <<k>>)
           new == [rows[h] EXCEPT !.pending = @ \ {n}]
<1>1. /\ h \in HandleIds /\ rows[h] # NoRow /\ rows[h] \in Row /\ rows[h].left \in 0 .. Ttl
      /\ rows[h].state \notin Terminal /\ n \in rows[h].pending
  BY LiveRow, RowOf DEF GrantAgain
<1>2. k \in CommandSet /\ k.kind = "grant" /\ k.handle = h /\ k.left = rows[h].left
  BY <1>1, CommandInSet, ConstantsAssumption DEF Commands, Command
<1>3. rows' = [rows EXCEPT ![h] = new] /\ Tell(told) /\ UNCHANGED <<arm, source>>
  BY DEF GrantAgain, Decide
<1>4. /\ new \in Row /\ new.controller = rows[h].controller /\ new.left = rows[h].left
      /\ new.pending = rows[h].pending \ {n} /\ new.state = rows[h].state
  BY <1>1 DEF Row
<1> HIDE DEF new, told
<1>5. /\ rows' \in [HandleIds -> Row \cup {NoRow}] /\ \A g \in HandleIds : Ages(g, told)
      /\ rows'[h] = new /\ rows'[h] # NoRow
  <2>1. /\ new.state \notin {"RELEASED", "REVOKED", "EXPIRED"}
        /\ Ending(h) => new.state \in EndStates
        /\ new.pending \subseteq rows[h].pending
    BY <1>1, <1>4 DEF Terminal, Ending, EndStates
  <2>2. new \in Row /\ h \in HandleIds /\ rows[h] # NoRow
    BY <1>1, <1>4
  <2>3. new.controller = rows[h].controller /\ new.left = rows[h].left
    BY <1>4
  <2>4. new.state = "ASSIGNED" => rows[h].state = "ASSIGNED"
    BY <1>4
  <2>5. rows' = [rows EXCEPT ![h] = new]
    BY <1>3
  <2> QED
    BY <2>1, <2>2, <2>3, <2>4, <2>5, Rewriting
<1>6. Issued(n, told, k)
  BY <1>1, <1>2, <1>4, <1>5 DEF Issued
<1>7. HubMoves(told)
  BY <1>2, <1>3, <1>5, <1>6, TellingOne DEF told
<1> QED
  BY <1>7

LEMMA AssignMoves ==
    ASSUME Typed, NEW c \in Controllers, NEW h \in HandleIds, NEW delivered \in SUBSET Nodes,
           Assign(c, h, delivered)
    PROVE  \E told : HubMoves(told)
<1> DEFINE k == Command("grant", h, Ttl, 0)
           told == [n \in Nodes |-> IF n \in delivered THEN <<k>> ELSE <<>>]
           new == [controller |-> c, sessions |-> registry, state |-> "ASSIGNED", left |-> Ttl,
                   robot_ready |-> FALSE, controller_streaming |-> FALSE,
                   pending |-> {Robot, c} \ delivered]
<1>1. /\ k \in CommandSet /\ k.kind = "grant" /\ k.handle = h /\ k.left = Ttl
      /\ Ttl \in Nat /\ Ttl \in 0 .. Ttl
  BY CommandInSet, ConstantsAssumption DEF Commands, Command
<1>2. /\ told \in [Nodes -> Seq(CommandSet)] /\ \A m \in Nodes : DOMAIN told[m] \subseteq {1}
      /\ \A n \in Nodes \cap delivered : DOMAIN told[n] = {1} /\ told[n][1] = k
      /\ \A n \in Nodes \ delivered : DOMAIN told[n] = {}
  BY <1>1, EachTold
<1>3. /\ rows[h] = NoRow /\ delivered \subseteq {Robot, c}
      /\ rows' = [rows EXCEPT ![h] = new] /\ Tell(told) /\ UNCHANGED <<arm, source>>
  BY DEF Assign
<1>4. /\ new.state = "ASSIGNED" /\ new.pending = {Robot, c} \ delivered /\ new.controller = c
      /\ new.left = Ttl
  OBVIOUS
<1>5. new \in Row
  <2>1. registry \in [Nodes -> Nat]
    BY ConstantsAssumption DEF Typed, HubType
  <2> QED
    BY <1>1, <2>1 DEF Row, HandleState, Nodes
<1> HIDE DEF new
<1>6. rows \in [HandleIds -> Row \cup {NoRow}]
  BY DEF Typed, HubType
<1>7. /\ rows' \in [HandleIds -> Row \cup {NoRow}] /\ rows'[h] = new /\ rows'[h] # NoRow
      /\ \A g \in HandleIds \ {h} : rows'[g] = rows[g]
  BY <1>3, <1>5, <1>6, ConstantsAssumption
<1>8. \A n \in Nodes : \A i \in DOMAIN told[n] : Issued(n, told, told[n][i])
  <2> SUFFICES ASSUME NEW n \in Nodes, NEW i \in DOMAIN told[n]
               PROVE  Issued(n, told, told[n][i])
    OBVIOUS
  <2>1. n \in delivered /\ told[n][i] = k
    BY <1>2
  <2> HIDE DEF told
  <2> QED
    BY <2>1, <1>1, <1>3, <1>4, <1>7 DEF Issued
<1> HIDE DEF told
<1>9. Ages(h, told)
  BY <1>3, <1>4, <1>7 DEF Ages
<1>10. \A g \in HandleIds : Ages(g, told)
  BY <1>7, <1>9, Untouched
<1>11. \A m \in Controllers : DOMAIN told[m] \subseteq {1}
  BY <1>2 DEF Nodes
<1>12. HubMoves(told)
  BY <1>2, <1>3, <1>7, <1>8, <1>10, <1>11 DEF HubMoves
<1> QED
  BY <1>12

\* What a revocation tells, and whom.
LEMMA RevocationTold ==
    ASSUME Typed, NEW h \in HandleIds, rows[h] # NoRow, NEW automatic \in BOOLEAN,
           NEW told, told = RevocationOf(h, automatic)
    PROVE  /\ told \in [Nodes -> Seq(CommandSet)]
           /\ \A m \in Controllers : DOMAIN told[m] \subseteq {1}
           /\ \A n \in Nodes : \A i \in DOMAIN told[n] :
                /\ told[n][i].handle = h /\ told[n][i].left = rows[h].left
                /\ told[n][i].kind \in {"revoke", "force_hold"} /\ n \in Parties(h)
           /\ Carries(told[rows[h].controller], "revoke", h)
<1> DEFINE c == rows[h].controller
           revoke == Command("revoke", h, rows[h].left, 0)
           hold == Command("force_hold", h, rows[h].left, 0)
           both == IF automatic THEN <<revoke, hold>> ELSE <<revoke>>
<1>1. rows[h].left \in 0 .. Ttl /\ c \in Controllers /\ c \in Nodes /\ Robot \in Nodes /\ c # Robot
  BY RowOf
<1>2. /\ revoke \in CommandSet /\ revoke.kind = "revoke" /\ revoke.handle = h
      /\ revoke.left = rows[h].left
      /\ hold \in CommandSet /\ hold.kind = "force_hold" /\ hold.handle = h
      /\ hold.left = rows[h].left
  BY <1>1, CommandInSet, ConstantsAssumption DEF Commands, Command
<1>3. told = [Nothing EXCEPT ![c] = <<revoke>>, ![Robot] = both]
  BY DEF RevocationOf
<1> HIDE DEF revoke, hold
<1>4. /\ <<revoke>> \in Seq(CommandSet) /\ DOMAIN <<revoke>> = {1} /\ <<revoke>>[1] = revoke
  BY <1>2, OneCommand
<1>5. both \in Seq(CommandSet) /\ \A i \in DOMAIN both : both[i] \in {revoke, hold}
  BY <1>2
<1> HIDE DEF both
<1>6. /\ told \in [Nodes -> Seq(CommandSet)] /\ told[c] = <<revoke>> /\ told[Robot] = both
      /\ \A m \in Nodes \ {c, Robot} : told[m] = Nothing[m]
  BY <1>1, <1>3, <1>4, <1>5, NothingTold
<1>7. \A m \in Nodes \ {c, Robot} : DOMAIN told[m] = {}
  BY <1>6, NothingTold
<1>8. DOMAIN told[c] = {1} /\ told[c][1] = revoke
  BY <1>4, <1>6
<1>9. \A m \in Controllers : DOMAIN told[m] \subseteq {1}
  BY <1>1, <1>7, <1>8, ConstantsAssumption DEF Nodes
<1>10. Carries(told[c], "revoke", h)
  BY <1>2, <1>8 DEF Carries
<1>11. ASSUME NEW n \in Nodes, NEW i \in DOMAIN told[n]
       PROVE  told[n][i] \in {revoke, hold} /\ n \in Parties(h)
  BY <1>5, <1>6, <1>7, <1>8 DEF Parties
<1> QED
  BY <1>2, <1>6, <1>9, <1>10, <1>11

\* A revocation of a Handle that is being taken away by this very step.
LEMMA RevocationMoves ==
    ASSUME Typed, NEW h \in HandleIds, rows[h] # NoRow, NEW automatic \in BOOLEAN,
           NEW told, told = RevocationOf(h, automatic),
           rows' \in [HandleIds -> Row \cup {NoRow}], \A g \in HandleIds : Ages(g, told),
           rows'[h] # NoRow, rows'[h].left = rows[h].left, rows'[h].state \in EndStates,
           Tell(told), UNCHANGED <<arm, source>>
    PROVE  HubMoves(told)
<1>1. /\ told \in [Nodes -> Seq(CommandSet)]
      /\ \A m \in Controllers : DOMAIN told[m] \subseteq {1}
      /\ \A n \in Nodes : \A i \in DOMAIN told[n] :
           /\ told[n][i].handle = h /\ told[n][i].left = rows[h].left
           /\ told[n][i].kind \in {"revoke", "force_hold"} /\ n \in Parties(h)
      /\ Carries(told[rows[h].controller], "revoke", h)
  BY RevocationTold
<1>2. \A n \in Nodes : \A i \in DOMAIN told[n] : Issued(n, told, told[n][i])
  BY <1>1 DEF Issued
<1> QED
  BY <1>1, <1>2 DEF HubMoves

LEMMA RevokeMoves ==
    ASSUME Typed, NEW h \in Live, NEW automatic \in BOOLEAN, Revoke(h, automatic)
    PROVE  \E told : HubMoves(told)
<1> DEFINE told == RevocationOf(h, automatic)
<1>1. h \in HandleIds /\ rows[h] # NoRow /\ "REVOKING" \in HandleState
  BY LiveRow DEF HandleState
<1>2. rows' = Becomes(h, "REVOKING") /\ Tell(told) /\ UNCHANGED <<arm, source>>
  BY DEF Revoke, Decide
<1> HIDE DEF told
<1>3. /\ rows' \in [HandleIds -> Row \cup {NoRow}] /\ \A g \in HandleIds : Ages(g, told)
      /\ rows'[h] # NoRow /\ rows'[h].left = rows[h].left /\ rows'[h].state = "REVOKING"
  BY <1>1, <1>2, Becoming DEF EndStates
<1>4. HubMoves(told)
  BY <1>1, <1>2, <1>3, RevocationMoves DEF told, Ending, EndStates
<1> QED
  BY <1>4

LEMMA RegisterMoves ==
    ASSUME Typed, NEW n \in Nodes, NEW s, Register(n, s)
    PROVE  \E told : HubMoves(told)
<1> DEFINE lost == {h \in Live : n \in Parties(h) /\ rows[h].sessions[n] # s
                                 /\ rows[h].state # "REVOKING"}
           told == IF lost = {} THEN Nothing ELSE RevocationOf(CHOOSE h \in lost : TRUE, TRUE)
<1>1. /\ rows' = [h \in HandleIds |-> IF h \in lost THEN WithState(rows[h], "REVOKING")
                                      ELSE rows[h]]
      /\ Tell(told) /\ UNCHANGED <<arm, source>>
  BY DEF Register, Decide
<1>2. \A h \in lost : h \in Live
  OBVIOUS
<1> HIDE DEF lost
<1>3. ASSUME NEW h \in lost
      PROVE  /\ h \in HandleIds /\ rows[h] # NoRow /\ rows'[h] \in Row
             /\ rows'[h] # NoRow /\ rows'[h].left = rows[h].left /\ rows'[h].state \in EndStates
             /\ \A t : Ages(h, t)
  <2>1. h \in HandleIds /\ rows[h] # NoRow /\ rows[h] \in Row /\ "REVOKING" \in HandleState
    BY <1>2, LiveRow, RowOf DEF HandleState
  <2>2. rows'[h] = WithState(rows[h], "REVOKING")
    BY <1>1, <2>1
  <2>3. /\ rows'[h] \in Row /\ rows'[h].state = "REVOKING"
        /\ rows'[h].controller = rows[h].controller
        /\ rows'[h].left = rows[h].left /\ rows'[h].pending \subseteq rows[h].pending
    BY <2>1, <2>2, WithStateRow
  <2>4. rows'[h] # NoRow
    BY <2>3, ConstantsAssumption
  <2> QED
    BY <2>1, <2>3, <2>4 DEF Ages, Ending, EndStates
<1>4. \A h \in HandleIds \ lost : rows'[h] = rows[h]
  BY <1>1
<1>5. rows' \in [HandleIds -> Row \cup {NoRow}]
  <2>1. rows \in [HandleIds -> Row \cup {NoRow}]
    BY DEF Typed, HubType
  <2>2. ASSUME NEW h \in HandleIds PROVE rows'[h] \in Row \cup {NoRow}
    BY <1>3, <1>4, <2>1
  <2>3. DOMAIN rows' = HandleIds /\ rows' = [h \in HandleIds |-> rows'[h]]
    BY <1>1
  <2> QED
    BY <2>2, <2>3
<1>6. \A t : \A g \in HandleIds : Ages(g, t)
  BY <1>3, <1>4, Untouched
<1>7. CASE lost = {}
  BY <1>1, <1>5, <1>6, <1>7, TellingNobody
<1>8. CASE lost # {}
  <2>1. PICK h \in lost : told = RevocationOf(h, TRUE)
    BY <1>8
  <2> HIDE DEF told
  <2>2. HubMoves(told)
    BY <1>1, <1>3, <1>5, <1>6, <2>1, RevocationMoves
  <2> QED
    BY <2>2
<1> QED
  BY <1>7, <1>8

\* What the Hub knows of a word that it heeds.
LEMMA HeededWord ==
    ASSUME Typed, NEW n \in Nodes, messages[n] # <<>>, NEW m, m = Head(messages[n]),
           Heeded(n, m)
    PROVE  /\ m.handle \in Live /\ m.handle \in HandleIds /\ n \in Parties(m.handle)
           /\ m.request \in 0 .. MaxRequests
           /\ rows[m.handle] # NoRow /\ rows[m.handle].state \in HandleState \ Terminal
           /\ Spoken(m.kind, m.handle)
<1>1. messages[n] \in Seq(WordSet)
  BY DEF Typed, WordType
<1>2. m \in WordSet /\ m = messages[n][1] /\ 1 \in DOMAIN messages[n]
  BY <1>1, TailElements
<1>3. m.handle \in Live /\ n \in Parties(m.handle)
  BY DEF Heeded
<1>4. Spoken(m.kind, m.handle)
  BY <1>2 DEF Spoken, Carries
<1> QED
  BY <1>2, <1>3, <1>4, LiveRow, RowOf DEF WordSet

LEMMA TakeOverRequestedMoves ==
    ASSUME Typed, NEW n \in Nodes, messages[n] # <<>>, NEW m, m = Head(messages[n]),
           Heeded(n, m), m.kind = "take_over_requested", TakeOverRequested(m)
    PROVE  \E told : HubMoves(told)
<1> DEFINE h == m.handle
           k == Command("take_over", h, rows[h].left, m.request)
           told == Only(Robot, <<k>>)
<1>1. /\ h \in HandleIds /\ rows[h] # NoRow /\ "TAKING_OVER" \in HandleState
      /\ rows[h].left \in 0 .. Ttl /\ Robot \in Nodes /\ Robot \in Parties(h)
      /\ m.request \in 0 .. MaxRequests
      /\ rows[h].state \in {"ASSIGNED", "TAKING_OVER"} /\ ~Ending(h)
      /\ Spoken("take_over_requested", h)
  BY HeededWord, RowOf DEF HandleState, TakeOverRequested, Ending, EndStates, Parties
<1>2. k \in CommandSet /\ k.kind = "take_over" /\ k.handle = h /\ k.left = rows[h].left
  BY <1>1, CommandInSet DEF Commands, Command
<1>3. rows' = Becomes(h, "TAKING_OVER") /\ Tell(told) /\ UNCHANGED <<arm, source>>
  BY DEF TakeOverRequested, Decide
<1> HIDE DEF told, h
<1>4. /\ rows' \in [HandleIds -> Row \cup {NoRow}] /\ \A g \in HandleIds : Ages(g, told)
      /\ rows'[h] # NoRow /\ rows'[h].left = rows[h].left /\ rows'[h].state = "TAKING_OVER"
  BY <1>1, <1>3, Becoming DEF EndStates
<1>5. Issued(Robot, told, k)
  BY <1>1, <1>2, <1>4 DEF Issued
<1>6. HubMoves(told)
  BY <1>1, <1>2, <1>3, <1>4, <1>5, TellingOne DEF told, h
<1> QED
  BY <1>6

LEMMA HandOverRequestedMoves ==
    ASSUME Typed, NEW n \in Nodes, messages[n] # <<>>, NEW m, m = Head(messages[n]),
           Heeded(n, m), m.kind = "hand_over_requested", HandOverRequested(m)
    PROVE  \E told : HubMoves(told)
<1> DEFINE h == m.handle
           k == Command("hand_over", h, rows[h].left, 0)
           told == Only(Robot, <<k>>)
           state == AskedToEnd[rows[h].state]
<1>1. /\ h \in HandleIds /\ rows[h] # NoRow /\ rows[h].state \in HandleState \ Terminal
      /\ rows[h].left \in 0 .. Ttl /\ Robot \in Nodes /\ Robot \in Parties(h)
      /\ Ending(h) <=> rows[h].state = "REVOKING"
      /\ Spoken("hand_over_requested", h)
  BY HeededWord, LiveRow, RowOf DEF Parties
<1>2. k \in CommandSet /\ k.kind = "hand_over" /\ k.handle = h /\ k.left = rows[h].left
  BY <1>1, CommandInSet, ConstantsAssumption DEF Commands, Command
<1>3. rows' = Becomes(h, state) /\ Tell(told) /\ UNCHANGED <<arm, source>>
  BY DEF HandOverRequested, Decide
<1>4. /\ state \in {"REVOKING", "HANDING_OVER"} /\ state \in HandleState
      /\ rows[h].state = "REVOKING" => state = "REVOKING"
  BY <1>1, AskedState
<1> HIDE DEF state
<1>5. /\ rows' \in [HandleIds -> Row \cup {NoRow}] /\ \A g \in HandleIds : Ages(g, told)
      /\ rows'[h] # NoRow /\ rows'[h].left = rows[h].left
  BY <1>1, <1>3, <1>4, Becoming DEF EndStates
<1>6. Issued(Robot, told, k)
  BY <1>1, <1>2, <1>5 DEF Issued
<1> HIDE DEF told
<1>7. HubMoves(told)
  BY <1>1, <1>2, <1>3, <1>5, <1>6, TellingOne DEF told
<1> QED
  BY <1>7

LEMMA RobotHoldingMoves ==
    ASSUME Typed, NEW n \in Nodes, messages[n] # <<>>, NEW m, m = Head(messages[n]),
           Heeded(n, m), m.kind = "robot_holding", RobotHolding(m)
    PROVE  \E told : HubMoves(told)
<1> DEFINE h == m.handle
<1>1. /\ h \in HandleIds /\ rows[h] # NoRow /\ Spoken("robot_holding", h)
      /\ {"RELEASED", "REVOKED"} \subseteq HandleState
  BY HeededWord DEF HandleState
<1>2. Tell(Nothing) /\ UNCHANGED <<arm, source>>
  BY DEF RobotHolding, Decide
<1>3. CASE rows[h].state = "HANDING_OVER"
  <2>1. rows' = Becomes(h, "RELEASED") /\ ~Ending(h)
    BY <1>3 DEF RobotHolding, Decide, Ending, EndStates
  <2> QED
    BY <1>1, <1>2, <2>1, Becoming, TellingNobody DEF EndStates
<1>4. CASE rows[h].state = "REVOKING"
  <2>1. rows' = Becomes(h, "REVOKED")
    BY <1>4 DEF RobotHolding, Decide
  <2> QED
    BY <1>1, <1>2, <2>1, Becoming, TellingNobody DEF EndStates
<1>5. CASE rows[h].state \notin {"HANDING_OVER", "REVOKING"}
  <2>1. rows' = rows
    BY <1>5 DEF RobotHolding, Decide
  <2>2. rows' \in [HandleIds -> Row \cup {NoRow}]
    BY <2>1 DEF Typed, HubType
  <2> QED
    BY <1>2, <2>1, <2>2, Untouched, TellingNobody
<1> QED
  BY <1>3, <1>4, <1>5

LEMMA ActivatedRow ==
    ASSUME NEW row \in Row
    PROVE  LET new == Activated(row)
           IN  /\ new \in Row /\ new.controller = row.controller /\ new.left = row.left
               /\ new.pending = row.pending
               /\ \/ new.state = row.state
                  \/ row.state = "TAKING_OVER" /\ new.state = "ACTIVE"
  BY DEF Activated, Row, HandleState

LEMMA RobotReadyMoves ==
    ASSUME Typed, NEW n \in Nodes, messages[n] # <<>>, NEW m, m = Head(messages[n]),
           Heeded(n, m), m.kind = "robot_ready", RobotReady(m)
    PROVE  \E told : HubMoves(told)
<1> DEFINE h == m.handle
           row == [rows[h] EXCEPT !.robot_ready = TRUE,
                     !.state = IF @ = "ASSIGNED" THEN "TAKING_OVER" ELSE @]
           new == Activated(row)
           c == rows[h].controller
           k == Command("robot_ready", h, rows[h].left, m.request)
           told == Only(c, <<k>>)
<1>1. /\ h \in HandleIds /\ rows[h] # NoRow /\ rows[h] \in Row /\ Spoken("robot_ready", h)
      /\ rows[h].state \in HandleState \ Terminal /\ m.request \in 0 .. MaxRequests
      /\ rows[h].left \in 0 .. Ttl /\ c \in Nodes /\ c # Robot /\ c \in Parties(h)
  BY HeededWord, RowOf DEF Parties
<1>2. /\ row \in Row /\ row.controller = rows[h].controller /\ row.left = rows[h].left
      /\ row.pending = rows[h].pending
      /\ row.state = IF rows[h].state = "ASSIGNED" THEN "TAKING_OVER" ELSE rows[h].state
  BY <1>1 DEF Row, HandleState
<1>3. rows' = [rows EXCEPT ![h] = new] /\ Tell(told) /\ UNCHANGED <<arm, source>>
  BY <1>2 DEF RobotReady, Decide
<1> HIDE DEF row
<1>4. /\ new \in Row /\ new.controller = rows[h].controller /\ new.left = rows[h].left
      /\ new.pending \subseteq rows[h].pending
      /\ new.state \in {row.state, "ACTIVE"} /\ (row.state = "REVOKING" => new.state = row.state)
  BY <1>2, ActivatedRow
<1>5. /\ new.state = "ASSIGNED" => rows[h].state = "ASSIGNED"
      /\ Ending(h) => new.state \in EndStates
      /\ new.state \notin {"RELEASED", "REVOKED", "EXPIRED"}
  BY <1>1, <1>2, <1>4 DEF Ending, EndStates, Terminal
<1>6. k \in CommandSet /\ k.kind = "robot_ready" /\ k.handle = h /\ k.left = rows[h].left
  BY <1>1, CommandInSet DEF Commands, Command
<1> HIDE DEF new, told, h
<1>7. /\ rows' \in [HandleIds -> Row \cup {NoRow}] /\ \A g \in HandleIds : Ages(g, told)
      /\ rows'[h] = new /\ rows'[h] # NoRow
  BY <1>1, <1>3, <1>4, <1>5, Rewriting
<1>8. Issued(c, told, k)
  BY <1>1, <1>4, <1>6, <1>7 DEF Issued
<1>9. HubMoves(told)
  BY <1>1, <1>3, <1>6, <1>7, <1>8, TellingOne DEF told
<1> QED
  BY <1>9

LEMMA ControllerStreamingMoves ==
    ASSUME Typed, NEW n \in Nodes, messages[n] # <<>>, NEW m, m = Head(messages[n]),
           Heeded(n, m), m.kind = "controller_streaming", ControllerStreaming(m)
    PROVE  \E told : HubMoves(told)
<1> DEFINE h == m.handle
           row == [rows[h] EXCEPT !.controller_streaming = TRUE]
           new == Activated(row)
<1>1. /\ h \in HandleIds /\ rows[h] # NoRow /\ rows[h] \in Row
      /\ rows[h].state \in HandleState \ Terminal
  BY HeededWord, RowOf
<1>2. /\ row \in Row /\ row.controller = rows[h].controller /\ row.left = rows[h].left
      /\ row.pending = rows[h].pending /\ row.state = rows[h].state
  BY <1>1 DEF Row
<1>3. rows' = [rows EXCEPT ![h] = new] /\ Tell(Nothing) /\ UNCHANGED <<arm, source>>
  BY DEF ControllerStreaming, Decide
<1> HIDE DEF row
<1>4. /\ new \in Row /\ new.controller = rows[h].controller /\ new.left = rows[h].left
      /\ new.pending \subseteq rows[h].pending
      /\ new.state \in {row.state, "ACTIVE"} /\ (row.state = "REVOKING" => new.state = row.state)
  BY <1>2, ActivatedRow
<1>5. /\ new.state = "ASSIGNED" => rows[h].state = "ASSIGNED"
      /\ Ending(h) => new.state \in EndStates
      /\ new.state \notin {"RELEASED", "REVOKED", "EXPIRED"}
  BY <1>1, <1>2, <1>4 DEF Ending, EndStates, Terminal
<1> HIDE DEF new, h
<1>6. rows' \in [HandleIds -> Row \cup {NoRow}] /\ \A g \in HandleIds : Ages(g, Nothing)
  BY <1>1, <1>3, <1>4, <1>5, Rewriting
<1> QED
  BY <1>3, <1>6, TellingNobody

\* Whatever word the Hub takes, heeded or not.
LEMMA HubReceivesMoves ==
    ASSUME Typed, NEW n \in Nodes, HubReceives(n)
    PROVE  (\E told : HubMoves(told)) \/ UNCHANGED <<rows, commands, missed, arm, source>>
<1> DEFINE m == Head(messages[n])
<1>1. messages[n] # <<>>
  BY DEF HubReceives
<1>2. CASE Register(n, m.session)
  BY <1>2, RegisterMoves
<1>3. CASE Heeded(n, m) /\ Handled(m)
  <2> HIDE DEF m
  <2>1. CASE m.kind = "take_over_requested" /\ TakeOverRequested(m)
    BY <1>1, <1>3, <2>1, TakeOverRequestedMoves DEF m
  <2>2. CASE m.kind = "robot_ready" /\ RobotReady(m)
    BY <1>1, <1>3, <2>2, RobotReadyMoves DEF m
  <2>3. CASE m.kind = "controller_streaming" /\ ControllerStreaming(m)
    BY <1>1, <1>3, <2>3, ControllerStreamingMoves DEF m
  <2>4. CASE m.kind = "hand_over_requested" /\ HandOverRequested(m)
    BY <1>1, <1>3, <2>4, HandOverRequestedMoves DEF m
  <2>5. CASE m.kind = "robot_holding" /\ RobotHolding(m)
    BY <1>1, <1>3, <2>5, RobotHoldingMoves DEF m
  <2> QED
    BY <1>3, <2>1, <2>2, <2>3, <2>4, <2>5 DEF Handled
<1> QED
  BY <1>2, <1>3 DEF HubReceives

\* The Hub takes a word off its queue, or none.
HubListens ==
    \/ messages' = messages
    \/ \E n \in Nodes : messages[n] # <<>> /\ messages' = [messages EXCEPT ![n] = Tail(@)]

\* What the Hub counts and knows of sessions keeps its type.
HubCounts == registry' \in [Nodes -> 1 .. MaxLosses + 1] /\ CountType' /\ losses <= losses'

\* A step of the Hub leaves the Nodes alone.
HubStep ==
    /\ UNCHANGED <<arm, source>> /\ HubListens /\ HubCounts
    /\ (\E told : HubMoves(told)) \/ UNCHANGED <<rows, commands, missed, arm, source>>

NodeStep ==
    \/ RobotReceives \/ RobotExpires \/ InputFails \/ EnterSafety \/ RobotLost
    \/ \E c \in Controllers :
         \/ ControllerReceives(c) \/ TakeOverCall(c) \/ HandOverCall(c)
         \/ ControllerExpires(c) \/ ControllerLost(c)

LEMMA HubCountsKept ==
    ASSUME Typed, registry' = registry, losses' = losses,
           asked' = asked \/ (asked < MaxRequests /\ asked' = asked + 1)
    PROVE  HubCounts
  BY ConstantsAssumption DEF HubCounts, Typed, HubType, CountType

LEMMA HubReceivesCounts ==
    ASSUME Typed, NEW n \in Nodes, HubReceives(n)
    PROVE  HubCounts /\ HubListens
<1> DEFINE m == Head(messages[n])
<1>1. messages[n] # <<>> /\ messages' = [messages EXCEPT ![n] = Tail(@)] /\ asked' = asked
  BY DEF HubReceives
<1>2. messages[n] \in Seq(WordSet)
  BY DEF Typed, WordType
<1>3. m \in WordSet
  BY <1>1, <1>2, TailElements
<1>4. m.session \in 1 .. MaxLosses + 1
  BY <1>3 DEF WordSet
<1>5. losses' = losses
  BY DEF HubReceives, Register, Handled, TakeOverRequested, RobotReady, ControllerStreaming,
         HandOverRequested, RobotHolding, Decide
<1>6. registry' \in {registry, [registry EXCEPT ![n] = m.session]}
  BY DEF HubReceives, Register
<1>7. HubCounts
  BY <1>1, <1>4, <1>5, <1>6 DEF HubCounts, Typed, HubType, CountType
<1> QED
  BY <1>1, <1>7 DEF HubListens

LEMMA AssignCounts ==
    ASSUME Typed, NEW c \in Controllers, NEW h \in HandleIds, NEW delivered \in SUBSET Nodes,
           Assign(c, h, delivered)
    PROVE  HubCounts
<1>1. IsFiniteSet({Robot} \cup {c})
  BY FS_Singleton, FS_Union
<1>2. {Robot, c} \ delivered \subseteq {Robot} \cup {c}
  OBVIOUS
<1>3. IsFiniteSet({Robot, c} \ delivered)
  BY <1>1, <1>2, FS_Subset
<1>4. Cardinality({Robot, c} \ delivered) \in Nat
  BY <1>3, FS_CardinalityType
<1> QED
  BY <1>4 DEF Assign, HubCounts, Typed, HubType, CountType

\* Every step is one of these, whatever the Hub does.
LEMMA Steps ==
    ASSUME Typed, [Next]_vars
    PROVE  HubStep \/ NodeStep \/ (\E n \in Nodes : Lose(n)) \/ Tick
<1>1. ASSUME NEW n \in Nodes, HubReceives(n)
      PROVE  HubStep
  BY <1>1, HubReceivesCounts, HubReceivesMoves DEF HubStep, HubMoves
<1>2. ASSUME NEW c \in Controllers, NEW h \in HandleIds, NEW delivered \in SUBSET Nodes,
             Assign(c, h, delivered)
      PROVE  HubStep
  BY <1>2, AssignMoves, AssignCounts DEF Assign, HubStep, HubListens, HubMoves
<1>3. ASSUME NEW h \in Live, NEW n \in Nodes, GrantAgain(h, n)
      PROVE  HubStep
  <2>1. registry' = registry /\ losses' = losses /\ asked' = asked /\ messages' = messages
    BY <1>3 DEF GrantAgain, Decide
  <2>2. HubCounts
    BY <2>1, HubCountsKept
  <2>3. HubListens
    BY <2>1 DEF HubListens
  <2> QED
    BY <2>3, <1>3, <2>2, GrantAgainMoves DEF HubStep, HubMoves
<1>4. ASSUME NEW h \in Live, NEW automatic \in BOOLEAN, Revoke(h, automatic)
      PROVE  HubStep
  <2>1. registry' = registry /\ losses' = losses /\ asked' = asked /\ messages' = messages
    BY <1>4 DEF Revoke, Decide
  <2>2. HubCounts
    BY <2>1, HubCountsKept
  <2>3. HubListens
    BY <2>1 DEF HubListens
  <2> QED
    BY <2>3, <1>4, <2>2, RevokeMoves DEF HubStep, HubMoves
<1>5. ASSUME NEW h \in Live, Renew(h) \/ RequestTakeOver(h) \/ RequestHandOver(h) \/ Fault(h) \/ Expire(h)
      PROVE  HubStep
  <2>1. \E told : HubMoves(told)
    BY <1>5, RenewMoves, RequestTakeOverMoves, RequestHandOverMoves, FaultMoves, ExpireMoves
  <2>2. /\ registry' = registry /\ losses' = losses /\ messages' = messages
        /\ asked' = asked \/ (asked < MaxRequests /\ asked' = asked + 1)
    BY <1>5 DEF Renew, RequestTakeOver, RequestHandOver, Fault, Expire, Decide
  <2>3. HubCounts
    BY <2>2, HubCountsKept
  <2>4. HubListens
    BY <2>2 DEF HubListens
  <2> QED
    BY <2>1, <2>3, <2>4 DEF HubStep, HubMoves
<1>6. CASE UNCHANGED vars
  <2>1. registry' = registry /\ losses' = losses /\ asked' = asked /\ messages' = messages
    BY <1>6 DEF vars
  <2>2. HubCounts
    BY <2>1, HubCountsKept
  <2>3. HubListens
    BY <2>1 DEF HubListens
  <2> QED
    BY <2>3, <1>6, <2>2 DEF vars, HubStep
<1> QED
  BY <1>1, <1>2, <1>3, <1>4, <1>5, <1>6 DEF Next, Operator, Service, Local, Deliver, NodeStep

-----------------------------------------------------------------------------
(* Types.                                                                  *)

LEMMA TellType ==
    ASSUME Typed, NEW told \in [Nodes -> Seq(CommandSet)], Tell(told)
    PROVE  CommandType'
<1>1. ASSUME NEW n \in Nodes
      PROVE  (IF Reaches(n, told) THEN commands[n] \o told[n] ELSE commands[n]) \in Seq(CommandSet)
  <2>1. commands[n] \in Seq(CommandSet) /\ told[n] \in Seq(CommandSet)
    BY DEF Typed, CommandType
  <2>2. commands[n] \o told[n] \in Seq(CommandSet)
    BY <2>1, ConcatElements
  <2> QED
    BY <2>1, <2>2
<1>2. commands' \in [Nodes -> Seq(CommandSet)]
  BY <1>1 DEF Tell
<1>3. missed' \subseteq Nodes \X HandleIds
  BY DEF Tell, Typed, CommandType
<1> QED
  BY <1>2, <1>3 DEF CommandType

LEMMA HubStepType == ASSUME Typed, HubStep PROVE Typed'
<1>1. WordType'
  <2>1. messages \in [Nodes -> Seq(WordSet)]
    BY DEF Typed, WordType
  <2>2. ASSUME NEW n \in Nodes, messages[n] # <<>>, messages' = [messages EXCEPT ![n] = Tail(@)]
        PROVE  WordType'
    <3>1. Tail(messages[n]) \in Seq(WordSet)
      BY <2>1, <2>2, TailElements
    <3> QED
      BY <2>1, <2>2, <3>1 DEF WordType
  <2> QED
    BY <2>1, <2>2 DEF HubStep, HubListens, WordType
<1>2. NodeType'
  <2>1. \A n \in Nodes : Session(n)' = Session(n) /\ Session(n) \in Nat
    BY ConstantsAssumption DEF HubStep, Typed, NodeType, Session, Nodes, ArmSet, SourceSet
  <2>2. losses \in Nat /\ losses' \in Nat /\ losses <= losses'
    BY ConstantsAssumption DEF HubStep, HubCounts, Typed, CountType
  <2>3. \A n \in Nodes : Session(n)' <= losses' + 1
    BY <2>1, <2>2 DEF Typed, NodeType
  <2> QED
    BY <2>3 DEF HubStep, Typed, NodeType
<1>3. CommandType' /\ rows' \in [HandleIds -> Row \cup {NoRow}]
  BY TellType DEF HubStep, HubMoves, Typed, CommandType, HubType
<1> QED
  BY <1>1, <1>2, <1>3 DEF HubStep, HubCounts, Typed, HubType

\* A word of a Node about a Handle it has.
LEMMA WordInSet ==
    ASSUME Typed, NEW n \in Nodes, NEW kind \in Words \ {"register"}, NEW h \in HandleIds,
           NEW request \in 0 .. MaxRequests
    PROVE  Word(n, kind, h, request) \in WordSet
<1>1. Session(n) \in 1 .. MaxLosses + 1
  BY ConstantsAssumption DEF Typed, NodeType, Session, Nodes, ArmSet, SourceSet
<1> QED
  BY <1>1 DEF Word, WordSet

LEMMA OneWord ==
    ASSUME NEW m \in WordSet
    PROVE  /\ <<m>> \in Seq(WordSet) /\ DOMAIN <<m>> = {1} /\ <<m>>[1] = m
  OBVIOUS

LEMMA SaysType ==
    ASSUME Typed, NEW n \in Nodes, NEW said \in Seq(WordSet), Says(n, said)
    PROVE  WordType'
<1>1. messages \in [Nodes -> Seq(WordSet)]
  BY DEF Typed, WordType
<1>2. messages[n] \o said \in Seq(WordSet)
  BY <1>1, ConcatElements
<1> QED
  BY <1>1, <1>2 DEF Says, WordType

LEMMA QuietlyType ==
    ASSUME Typed, NEW n \in Nodes, Quietly(n)
    PROVE  WordType' /\ messages' = messages
<1>1. messages \in [Nodes -> Seq(WordSet)]
  BY DEF Typed, WordType
<1>2. messages[n] \o <<>> = messages[n]
  BY <1>1
<1>3. messages' = [messages EXCEPT ![n] = messages[n] \o <<>>]
  BY DEF Quietly, Says
<1> QED
  BY <1>1, <1>2, <1>3 DEF WordType

\* The command at the head of a Node's queue.
LEMMA HeadCommand ==
    ASSUME Typed, NEW n \in Nodes, commands[n] # <<>>
    PROVE  /\ Head(commands[n]) \in CommandSet /\ Head(commands[n]) = commands[n][1]
           /\ 1 \in DOMAIN commands[n] /\ Tail(commands[n]) \in Seq(CommandSet)
           /\ [commands EXCEPT ![n] = Tail(@)] \in [Nodes -> Seq(CommandSet)]
<1>1. commands[n] \in Seq(CommandSet)
  BY DEF Typed, CommandType
<1>2. /\ Head(commands[n]) \in CommandSet /\ Head(commands[n]) = commands[n][1]
      /\ 1 \in DOMAIN commands[n] /\ Tail(commands[n]) \in Seq(CommandSet)
  BY <1>1, TailElements
<1> QED
  BY <1>2 DEF Typed, CommandType

-----------------------------------------------------------------------------
\* What the Robot makes of itself.

LEMMA ArmFields ==
    ASSUME Typed
    PROVE  /\ arm \in ArmSet /\ arm.left \in 0 .. Ttl /\ 0 \in 0 .. Ttl
           /\ Parked \in ArmSet /\ Parked = [arm EXCEPT !.input = FALSE]
           /\ Given \in ArmSet /\ Given.session = arm.session /\ Given.input = FALSE
           /\ Given.left = 0 /\ Given.handle = NoHandle
           /\ Given.ended = arm.ended \cup ({arm.handle} \ {NoHandle})
<1>1. arm \in ArmSet /\ Ttl \in Nat
  BY ConstantsAssumption DEF Typed, NodeType
<1>2. Parked \in ArmSet
  BY <1>1 DEF Parked, ArmSet
<1>3. Given = [arm EXCEPT !.input = FALSE, !.handle = NoHandle, !.left = 0,
                          !.ended = arm.ended \cup ({arm.handle} \ {NoHandle})]
  BY <1>1 DEF Given, Parked, ArmSet
<1>4. Given \in ArmSet
  <2>1. /\ arm.ended \cup ({arm.handle} \ {NoHandle}) \in SUBSET HandleIds
        /\ 0 \in 0 .. Ttl /\ NoHandle \in HandleIds \cup {NoHandle}
    BY <1>1 DEF ArmSet
  <2> DEFINE over == arm.ended \cup ({arm.handle} \ {NoHandle})
  <2>2. over \in SUBSET HandleIds /\ Given = [arm EXCEPT !.input = FALSE, !.handle = NoHandle,
                                              !.left = 0, !.ended = over]
    BY <1>3, <2>1
  <2> HIDE DEF over
  <2> QED
    BY <1>1, <2>1, <2>2 DEF ArmSet
<1>5. /\ Given.session = arm.session /\ Given.input = FALSE /\ Given.left = 0
      /\ Given.handle = NoHandle /\ Given.ended = arm.ended \cup ({arm.handle} \ {NoHandle})
  BY <1>1, <1>3 DEF ArmSet
<1> QED
  BY <1>1, <1>2, <1>4, <1>5 DEF Parked, ArmSet

\* The cases of RobotObeys, as the effect on the Robot and its words.
RobotTakes(k) ==
    \/ arm' = arm /\ messages' = messages
    \/ /\ k.kind = "grant" /\ arm.handle = NoHandle /\ k.handle \notin arm.ended
       /\ arm' = [arm EXCEPT !.handle = k.handle, !.left = k.left] /\ messages' = messages
    \/ /\ k.kind = "renewal" /\ arm.handle = k.handle
       /\ arm' = [arm EXCEPT !.left = k.left] /\ messages' = messages
    \/ /\ k.kind = "take_over" /\ arm.handle = k.handle /\ ~RobotExpired
       /\ arm' = [arm EXCEPT !.input = TRUE]
       /\ Says(Robot, <<Word(Robot, "robot_ready", k.handle, k.request)>>)
    \/ arm' = Parked /\ messages' = messages
    \/ arm' = Given /\ messages' = messages
    \/ /\ k.kind \in {"hand_over", "revoke"} /\ arm.handle = k.handle
       /\ arm' = Given /\ Says(Robot, <<Word(Robot, "robot_holding", k.handle, 0)>>)

LEMMA RobotObeysTakes ==
    ASSUME Typed, NEW k \in CommandSet, RobotObeys(k)
    PROVE  RobotTakes(k)
<1>1. Quietly(Robot) => messages' = messages
  BY QuietlyType DEF Nodes
<1> QED
  BY <1>1 DEF RobotObeys, RobotTakes

LEMMA RobotReceivesTakes ==
    ASSUME Typed, RobotReceives
    PROVE  /\ commands[Robot] # <<>> /\ Head(commands[Robot]) \in CommandSet
           /\ Robot \in Nodes /\ RobotTakes(Head(commands[Robot]))
           /\ commands' = [commands EXCEPT ![Robot] = Tail(@)]
           /\ UNCHANGED <<registry, rows, source, asked, losses, missed>>
<1>1. Robot \in Nodes
  BY DEF Nodes
<1>2. commands[Robot] # <<>> /\ RobotObeys(Head(commands[Robot]))
  BY DEF RobotReceives
<1>3. Head(commands[Robot]) \in CommandSet
  BY <1>1, <1>2, HeadCommand
<1> QED
  BY <1>1, <1>2, <1>3, RobotObeysTakes DEF RobotReceives

LEMMA RobotTakesType ==
    ASSUME Typed, NEW k \in CommandSet, RobotTakes(k)
    PROVE  arm' \in ArmSet /\ arm'.session = arm.session /\ WordType'
<1>1. WordType
  BY DEF Typed
<1>2. /\ arm \in ArmSet /\ Parked \in ArmSet /\ Given \in ArmSet
      /\ Parked.session = arm.session /\ Given.session = arm.session
  BY ArmFields DEF ArmSet
<1>3. k.handle \in HandleIds /\ k.left \in 0 .. Ttl /\ k.request \in 0 .. MaxRequests
  BY DEF CommandSet
<1>4. 0 \in 0 .. MaxRequests /\ Robot \in Nodes
  BY ConstantsAssumption DEF Nodes
<1>5. /\ <<Word(Robot, "robot_ready", k.handle, k.request)>> \in Seq(WordSet)
      /\ <<Word(Robot, "robot_holding", k.handle, 0)>> \in Seq(WordSet)
  <2>1. /\ Word(Robot, "robot_ready", k.handle, k.request) \in WordSet
        /\ Word(Robot, "robot_holding", k.handle, 0) \in WordSet
    BY <1>3, <1>4, WordInSet DEF Words
  <2> QED
    BY <2>1, OneWord
<1>6. WordType'
  BY <1>1, <1>4, <1>5, SaysType DEF RobotTakes, WordType
<1>7. /\ [arm EXCEPT !.handle = k.handle, !.left = k.left] \in ArmSet
      /\ [arm EXCEPT !.left = k.left] \in ArmSet /\ [arm EXCEPT !.input = TRUE] \in ArmSet
  BY <1>2, <1>3 DEF ArmSet
<1>8. arm' \in ArmSet /\ arm'.session = arm.session
  BY <1>2, <1>7 DEF RobotTakes, ArmSet
<1> QED
  BY <1>6, <1>8

\* A session ends and another registers.
LEMMA RenewsType ==
    ASSUME Typed, NEW n \in Nodes, Renews(n, Session(n))
    PROVE  /\ CommandType' /\ WordType' /\ CountType' /\ HubType' /\ losses' = losses + 1
           /\ Session(n) + 1 \in 1 .. MaxLosses + 1
<1> DEFINE m == [kind |-> "register", handle |-> NoHandle, request |-> 0,
                 session |-> Session(n) + 1]
<1>1. losses < MaxLosses /\ losses' = losses + 1 /\ losses \in Nat /\ MaxLosses \in Nat
      /\ UNCHANGED <<registry, rows, asked, missed>>
  BY ConstantsAssumption DEF Renews, Typed, CountType
<1>2. Session(n) \in 1 .. MaxLosses + 1 /\ Session(n) <= losses + 1
  BY ConstantsAssumption DEF Typed, NodeType, Session, Nodes, ArmSet, SourceSet
<1>3. Session(n) + 1 \in 1 .. MaxLosses + 1
  BY <1>1, <1>2
<1>4. m \in WordSet
  BY <1>3, ConstantsAssumption DEF WordSet, Words
<1>5. commands' = [commands EXCEPT ![n] = <<>>]
  BY DEF Renews
<1>6. messages' = [messages EXCEPT ![n] = Append(@, m)]
  BY DEF Renews
<1> HIDE DEF m
<1>7. WordType'
  BY <1>4, <1>6 DEF Typed, WordType
<1>8. CommandType'
  BY <1>1, <1>5 DEF Typed, CommandType
<1>9. CountType' /\ HubType'
  BY <1>1 DEF Typed, CountType, HubType
<1> QED
  BY <1>1, <1>3, <1>7, <1>8, <1>9

\* The sessions of Nodes that a step leaves alone stay where they were.
LEMMA SessionsKept ==
    ASSUME Typed, losses' = losses, arm' \in ArmSet, arm'.session = arm.session,
           source' \in [Controllers -> SourceSet],
           \A c \in Controllers : source'[c].session = source[c].session
    PROVE  NodeType'
<1>1. \A n \in Nodes : Session(n)' = Session(n)
  BY DEF Session, Nodes
<1> QED
  BY <1>1 DEF Typed, NodeType

-----------------------------------------------------------------------------
\* What a Controller makes of itself.

LEMMA SourceFields ==
    ASSUME Typed, NEW c \in Controllers
    PROVE  /\ source[c] \in SourceSet /\ 0 \in 0 .. Ttl /\ 0 \in 0 .. MaxRequests
           /\ Silenced(c) \in SourceSet /\ Silenced(c).session = source[c].session
           /\ Silenced(c).control = "IDLE" /\ Silenced(c).left = 0
           /\ Silenced(c).handle = NoHandle
           /\ Silenced(c).ended = source[c].ended \cup ({source[c].handle} \ {NoHandle})
<1> DEFINE over == source[c].ended \cup ({source[c].handle} \ {NoHandle})
<1>1. /\ source[c] \in SourceSet /\ 0 \in 0 .. Ttl /\ 0 \in 0 .. MaxRequests
      /\ "IDLE" \in ControllerControlState
  BY ConstantsAssumption DEF Typed, NodeType, ControllerControlState
<1>2. over \in SUBSET HandleIds
  BY <1>1 DEF SourceSet
<1>3. Silenced(c) = [source[c] EXCEPT !.control = "IDLE", !.handle = NoHandle, !.left = 0,
                                      !.request = 0, !.ended = over]
  BY <1>1 DEF Silenced, SourceSet
<1> HIDE DEF over
<1>4. Silenced(c) \in SourceSet
  BY <1>1, <1>2, <1>3 DEF SourceSet
<1>5. /\ Silenced(c).session = source[c].session
      /\ Silenced(c).control = "IDLE" /\ Silenced(c).left = 0
      /\ Silenced(c).handle = NoHandle /\ Silenced(c).ended = over
  BY <1>1, <1>3 DEF SourceSet
<1> QED
  BY <1>1, <1>4, <1>5 DEF over

\* A Controller changes nothing of itself but its record.
LEMMA BecomesOne ==
    ASSUME Typed, NEW c \in Controllers, NEW new \in SourceSet, SourceBecomes(c, new)
    PROVE  /\ source' \in [Controllers -> SourceSet] /\ source'[c] = new
           /\ \A d \in Controllers \ {c} : source'[d] = source[d]
  BY DEF SourceBecomes, Typed, NodeType

\* The cases of ControllerObeys, as the effect on the Controller and its words.
\* With no effect, the command is not one that the Controller had to obey.
ControllerTakes(c, k) ==
    \/ /\ source' = source /\ messages' = messages
       /\ k.kind = "revoke" => ~Matches(c, k) \/ k.left = 0
       /\ k.kind = "renewal" /\ source[c].handle = k.handle => k.left <= source[c].left \/ k.left = 0
    \/ /\ k.kind = "grant" /\ k.handle \notin source[c].ended /\ source[c].handle = NoHandle
       /\ SourceBecomes(c, [source[c] EXCEPT !.handle = k.handle, !.left = k.left,
                                             !.control = "IDLE"])
       /\ messages' = messages
    \/ /\ k.kind = "renewal" /\ source[c].handle = k.handle
       /\ SourceBecomes(c, [source[c] EXCEPT !.left = k.left]) /\ messages' = messages
    \/ /\ k.kind = "take_over" /\ Matches(c, k)
       /\ SourceBecomes(c, Asking(c, k.request))
       /\ Says(c, <<Word(c, "take_over_requested", k.handle, k.request)>>)
    \/ /\ k.kind = "robot_ready" /\ Matches(c, k)
       /\ SourceBecomes(c, [source[c] EXCEPT !.control = "STREAMING", !.request = 0])
       /\ Says(c, <<Word(c, "controller_streaming", k.handle, 0)>>)
    \/ /\ k.kind = "hand_over" /\ Matches(c, k)
       /\ SourceBecomes(c, Silenced(c))
       /\ Says(c, <<Word(c, "hand_over_requested", k.handle, 0)>>)
    \/ /\ k.kind \in {"robot_ready", "revoke"} /\ Matches(c, k)
       /\ SourceBecomes(c, Silenced(c)) /\ messages' = messages

LEMMA ControllerReceivesTakes ==
    ASSUME Typed, NEW c \in Controllers, ControllerReceives(c)
    PROVE  /\ c \in Nodes /\ commands[c] # <<>> /\ Head(commands[c]) \in CommandSet
           /\ ControllerTakes(c, Head(commands[c]))
           /\ commands' = [commands EXCEPT ![c] = Tail(@)]
           /\ UNCHANGED <<registry, rows, arm, asked, losses, missed>>
<1>1. c \in Nodes /\ commands[c] # <<>>
  BY DEF Nodes, ControllerReceives
<1>2. Head(commands[c]) \in CommandSet
  BY <1>1, HeadCommand
<1>3. Quietly(c) => messages' = messages
  BY <1>1, QuietlyType
<1>4. ASSUME NEW k \in CommandSet, ControllerObeys(c, k)
      PROVE  ControllerTakes(c, k)
  <2>1. k.left \in Nat /\ source[c].left \in Nat
    BY ConstantsAssumption DEF CommandSet, Typed, NodeType, SourceSet
  <2>2. CASE k.kind = "revoke"
    BY <1>3, <1>4, <2>2 DEF ControllerObeys, ControllerTakes
  <2>3. CASE k.kind = "renewal"
    BY <1>3, <1>4, <2>1, <2>3 DEF ControllerObeys, ControllerTakes
  <2>4. CASE k.kind \notin {"revoke", "renewal"}
    BY <1>3, <1>4, <2>4 DEF ControllerObeys, ControllerTakes
  <2> QED
    BY <2>2, <2>3, <2>4
<1>5. ASSUME NEW k \in CommandSet, k.left = 0, UNCHANGED <<source, messages>>
      PROVE  ControllerTakes(c, k)
  BY <1>5 DEF ControllerTakes
<1>6. ControllerTakes(c, Head(commands[c]))
  BY <1>2, <1>4, <1>5 DEF ControllerReceives
<1> QED
  BY <1>1, <1>2, <1>6 DEF ControllerReceives

\* What a Controller says and becomes keeps its type.
LEMMA AskingType ==
    ASSUME Typed, NEW c \in Controllers, NEW request \in 0 .. MaxRequests
    PROVE  /\ Asking(c, request) \in SourceSet /\ Asking(c, request).session = source[c].session
           /\ Asking(c, request).handle = source[c].handle
           /\ Asking(c, request).left = source[c].left
           /\ Asking(c, request).ended = source[c].ended
           /\ Asking(c, request).control = "TAKING_OVER"
  BY SourceFields DEF Asking, SourceSet, ControllerControlState

LEMMA SaidByController ==
    ASSUME Typed, NEW c \in Controllers, NEW h \in HandleIds, NEW request \in 0 .. MaxRequests,
           NEW kind \in {"take_over_requested", "controller_streaming", "hand_over_requested"},
           Says(c, <<Word(c, kind, h, request)>>)
    PROVE  WordType'
<1>1. c \in Nodes /\ Word(c, kind, h, request) \in WordSet
  BY WordInSet DEF Nodes, Words
<1>2. <<Word(c, kind, h, request)>> \in Seq(WordSet)
  BY <1>1, OneWord
<1> QED
  BY <1>1, <1>2, SaysType

LEMMA OneSourceType ==
    ASSUME Typed, NEW c \in Controllers, NEW new \in SourceSet, new.session = source[c].session,
           SourceBecomes(c, new), arm' = arm, losses' = losses
    PROVE  NodeType'
<1>1. /\ source' \in [Controllers -> SourceSet]
      /\ \A d \in Controllers : source'[d].session = source[d].session
  BY BecomesOne
<1>2. arm' \in ArmSet /\ arm'.session = arm.session
  BY DEF Typed, NodeType
<1> QED
  BY <1>1, <1>2, SessionsKept

LEMMA ControllerTakesType ==
    ASSUME Typed, NEW c \in Controllers, NEW k \in CommandSet, ControllerTakes(c, k),
           arm' = arm, losses' = losses
    PROVE  NodeType' /\ WordType'
<1>1. /\ k.handle \in HandleIds /\ k.left \in 0 .. Ttl /\ k.request \in 0 .. MaxRequests
      /\ 0 \in 0 .. MaxRequests
  BY ConstantsAssumption DEF CommandSet
<1>2. /\ source[c] \in SourceSet /\ Silenced(c) \in SourceSet
      /\ Silenced(c).session = source[c].session
  BY SourceFields
<1>3. messages' = messages => WordType'
  BY DEF Typed, WordType
<1>4. CASE source' = source /\ messages' = messages
  BY <1>3, <1>4 DEF Typed, NodeType, Session
<1>5. CASE SourceBecomes(c, [source[c] EXCEPT !.handle = k.handle, !.left = k.left,
                                              !.control = "IDLE"]) /\ messages' = messages
  <2> DEFINE new == [source[c] EXCEPT !.handle = k.handle, !.left = k.left, !.control = "IDLE"]
  <2>1. new \in SourceSet /\ new.session = source[c].session
    BY <1>1, <1>2 DEF SourceSet, ControllerControlState
  <2> HIDE DEF new
  <2> QED
    BY <1>3, <1>5, <2>1, OneSourceType DEF new
<1>6. CASE SourceBecomes(c, [source[c] EXCEPT !.left = k.left]) /\ messages' = messages
  <2> DEFINE new == [source[c] EXCEPT !.left = k.left]
  <2>1. new \in SourceSet /\ new.session = source[c].session
    BY <1>1, <1>2 DEF SourceSet
  <2> HIDE DEF new
  <2> QED
    BY <1>3, <1>6, <2>1, OneSourceType DEF new
<1>7. CASE /\ SourceBecomes(c, Asking(c, k.request))
           /\ Says(c, <<Word(c, "take_over_requested", k.handle, k.request)>>)
  BY <1>1, <1>7, AskingType, OneSourceType, SaidByController
<1>8. CASE /\ SourceBecomes(c, [source[c] EXCEPT !.control = "STREAMING", !.request = 0])
           /\ Says(c, <<Word(c, "controller_streaming", k.handle, 0)>>)
  <2> DEFINE new == [source[c] EXCEPT !.control = "STREAMING", !.request = 0]
  <2>1. new \in SourceSet /\ new.session = source[c].session
    BY <1>1, <1>2 DEF SourceSet, ControllerControlState
  <2> HIDE DEF new
  <2> QED
    BY <1>1, <1>8, <2>1, OneSourceType, SaidByController DEF new
<1>9. CASE /\ SourceBecomes(c, Silenced(c))
           /\ Says(c, <<Word(c, "hand_over_requested", k.handle, 0)>>)
  BY <1>1, <1>2, <1>9, OneSourceType, SaidByController
<1>10. CASE SourceBecomes(c, Silenced(c)) /\ messages' = messages
  BY <1>2, <1>3, <1>10, OneSourceType
<1> QED
  BY <1>4, <1>5, <1>6, <1>7, <1>8, <1>9, <1>10 DEF ControllerTakes

\* A call or a deadline in a Controller's process: no command is taken.
LEMMA TakeOverCallMade ==
    ASSUME Typed, NEW c \in Controllers, TakeOverCall(c)
    PROVE  /\ source[c].handle \in HandleIds /\ asked' \in 0 .. MaxRequests
           /\ SourceBecomes(c, Asking(c, asked'))
           /\ Says(c, <<Word(c, "take_over_requested", source[c].handle, asked')>>)
           /\ UNCHANGED <<registry, rows, arm, commands, losses, missed>>
  BY ConstantsAssumption DEF TakeOverCall, Typed, NodeType, SourceSet, CountType

LEMMA HandOverCallMade ==
    ASSUME Typed, NEW c \in Controllers, HandOverCall(c)
    PROVE  /\ source[c].handle \in HandleIds
           /\ SourceBecomes(c, Silenced(c))
           /\ Says(c, <<Word(c, "hand_over_requested", source[c].handle, 0)>>)
           /\ UNCHANGED <<registry, rows, arm, commands, asked, losses, missed>>
  BY DEF HandOverCall, Typed, NodeType, SourceSet

LEMMA NodeStepType == ASSUME Typed, NodeStep PROVE Typed'
<1>1. CASE RobotReceives
  <2> DEFINE k == Head(commands[Robot])
  <2>1. /\ k \in CommandSet /\ RobotTakes(k) /\ Robot \in Nodes /\ commands[Robot] # <<>>
        /\ commands' = [commands EXCEPT ![Robot] = Tail(@)]
        /\ UNCHANGED <<registry, rows, source, asked, losses, missed>>
    BY <1>1, RobotReceivesTakes
  <2>2. arm' \in ArmSet /\ arm'.session = arm.session /\ WordType'
    BY <2>1, RobotTakesType
  <2>3. CommandType'
    BY <2>1, HeadCommand DEF CommandType, Typed
  <2>4. NodeType'
    BY <2>1, <2>2, SessionsKept DEF Typed, NodeType
  <2> QED
    BY <2>1, <2>2, <2>3, <2>4 DEF Typed, HubType, CountType
<1>2. CASE RobotExpires \/ InputFails \/ EnterSafety
  <2>1. /\ arm' \in {Given, Parked}
        /\ UNCHANGED <<registry, rows, source, commands, messages, asked, losses, missed>>
    BY <1>2 DEF RobotExpires, InputFails, EnterSafety, RobotAlone
  <2>2. arm' \in ArmSet /\ arm'.session = arm.session
    BY <2>1, ArmFields DEF ArmSet
  <2>3. NodeType'
    BY <2>1, <2>2, SessionsKept DEF Typed, NodeType
  <2> QED
    BY <2>1, <2>3 DEF Typed, HubType, CommandType, WordType, CountType
<1>3. CASE RobotLost
  <2>1. Robot \in Nodes /\ Session(Robot) = arm.session
    BY DEF Nodes, Session
  <2>2. Renews(Robot, Session(Robot)) /\ arm' = [Given EXCEPT !.session = @ + 1] /\ source' = source
    BY <1>3, <2>1 DEF RobotLost
  <2>3. /\ CommandType' /\ WordType' /\ CountType' /\ HubType' /\ losses' = losses + 1
        /\ arm.session + 1 \in 1 .. MaxLosses + 1
    BY <2>1, <2>2, RenewsType
  <2>4. arm' \in ArmSet /\ arm'.session = arm.session + 1
    BY <2>2, <2>3, ArmFields DEF ArmSet
  <2>5. \A n \in Nodes : Session(n) \in Nat /\ losses \in Nat /\ Session(n) <= losses + 1
    BY ConstantsAssumption DEF Typed, NodeType, Session, Nodes, ArmSet, SourceSet, CountType
  <2>6. \A n \in Nodes : Session(n)' \in {Session(n), Session(n) + 1}
    BY <2>2, <2>4 DEF Session, Nodes
  <2>7. \A n \in Nodes : Session(n)' <= losses' + 1
    BY <2>3, <2>5, <2>6
  <2> QED
    BY <2>2, <2>3, <2>4, <2>7 DEF Typed, NodeType
<1>4. ASSUME NEW c \in Controllers, ControllerReceives(c)
      PROVE  Typed'
  <2> DEFINE k == Head(commands[c])
  <2>1. /\ k \in CommandSet /\ ControllerTakes(c, k) /\ c \in Nodes /\ commands[c] # <<>>
        /\ commands' = [commands EXCEPT ![c] = Tail(@)]
        /\ UNCHANGED <<registry, rows, arm, asked, losses, missed>>
    BY <1>4, ControllerReceivesTakes
  <2>2. NodeType' /\ WordType'
    BY <2>1, ControllerTakesType
  <2>3. CommandType'
    BY <2>1, HeadCommand DEF CommandType, Typed
  <2> QED
    BY <2>1, <2>2, <2>3 DEF Typed, HubType, CountType
<1>5. ASSUME NEW c \in Controllers, TakeOverCall(c)
      PROVE  Typed'
  <2>1. /\ source[c].handle \in HandleIds /\ asked' \in 0 .. MaxRequests
        /\ SourceBecomes(c, Asking(c, asked'))
        /\ Says(c, <<Word(c, "take_over_requested", source[c].handle, asked')>>)
        /\ UNCHANGED <<registry, rows, arm, commands, losses, missed>>
    BY <1>5, TakeOverCallMade
  <2>2. PICK request \in 0 .. MaxRequests : request = asked'
    BY <2>1
  <2>3. NodeType' /\ WordType'
    BY <2>1, <2>2, AskingType, OneSourceType, SaidByController
  <2> QED
    BY <2>1, <2>3 DEF Typed, HubType, CommandType, CountType
<1>6. ASSUME NEW c \in Controllers, HandOverCall(c)
      PROVE  Typed'
  <2>1. /\ source[c].handle \in HandleIds
        /\ SourceBecomes(c, Silenced(c))
        /\ Says(c, <<Word(c, "hand_over_requested", source[c].handle, 0)>>)
        /\ UNCHANGED <<registry, rows, arm, commands, asked, losses, missed>>
    BY <1>6, HandOverCallMade
  <2>2. NodeType' /\ WordType'
    BY <2>1, SourceFields, OneSourceType, SaidByController
  <2> QED
    BY <2>1, <2>2 DEF Typed, HubType, CommandType, CountType
<1>7. ASSUME NEW c \in Controllers, ControllerExpires(c)
      PROVE  Typed'
  <2>1. /\ SourceBecomes(c, Silenced(c))
        /\ UNCHANGED <<registry, rows, arm, commands, messages, asked, losses, missed>>
    BY <1>7 DEF ControllerExpires
  <2>2. NodeType'
    BY <2>1, SourceFields, OneSourceType
  <2> QED
    BY <2>1, <2>2 DEF Typed, HubType, CommandType, WordType, CountType
<1>8. ASSUME NEW c \in Controllers, ControllerLost(c)
      PROVE  Typed'
  <2> DEFINE new == [Silenced(c) EXCEPT !.session = @ + 1]
  <2>1. c \in Nodes /\ Session(c) = source[c].session
    BY ConstantsAssumption DEF Nodes, Session
  <2>2. Renews(c, Session(c)) /\ SourceBecomes(c, new) /\ arm' = arm
    BY <1>8, <2>1 DEF ControllerLost
  <2>3. /\ CommandType' /\ WordType' /\ CountType' /\ HubType' /\ losses' = losses + 1
        /\ source[c].session + 1 \in 1 .. MaxLosses + 1
    BY <2>1, <2>2, RenewsType
  <2>4. new \in SourceSet /\ new.session = source[c].session + 1
    BY <2>3, SourceFields DEF SourceSet
  <2> HIDE DEF new
  <2>5. /\ source' \in [Controllers -> SourceSet] /\ source'[c].session = source[c].session + 1
        /\ \A d \in Controllers \ {c} : source'[d] = source[d]
    BY <2>2, <2>4, BecomesOne
  <2>6. \A n \in Nodes : Session(n) \in Nat /\ losses \in Nat /\ Session(n) <= losses + 1
    BY ConstantsAssumption DEF Typed, NodeType, Session, Nodes, ArmSet, SourceSet, CountType
  <2>7. \A n \in Nodes : Session(n)' \in {Session(n), Session(n) + 1}
    BY <2>2, <2>5 DEF Session, Nodes
  <2>8. \A n \in Nodes : Session(n)' <= losses' + 1
    BY <2>3, <2>6, <2>7
  <2> QED
    BY <2>2, <2>3, <2>5, <2>8 DEF Typed, NodeType
<1> QED
  BY <1>1, <1>2, <1>3, <1>4, <1>5, <1>6, <1>7, <1>8 DEF NodeStep

-----------------------------------------------------------------------------
\* Time.

\* What is left of a validity once time has passed.
Later(left) == IF left > 0 THEN left - 1 ELSE left

LEMMA LessCommand ==
    ASSUME NEW k \in CommandSet
    PROVE  /\ Less(k) \in CommandSet /\ Less(k).kind = k.kind /\ Less(k).handle = k.handle
           /\ Less(k).request = k.request /\ Less(k).left = Later(k.left)
<1>1. Ttl \in Nat /\ k.left \in 0 .. Ttl
  BY ConstantsAssumption DEF CommandSet
<1>2. k.left > 0 => k.left - 1 \in 0 .. Ttl
  BY <1>1
<1> QED
  BY <1>1, <1>2 DEF Less, Later, CommandSet

LEMMA LessRow ==
    ASSUME NEW row \in Row
    PROVE  /\ Less(row) \in Row /\ Less(row).controller = row.controller
           /\ Less(row).state = row.state /\ Less(row).pending = row.pending
           /\ Less(row).left = Later(row.left)
<1>1. Ttl \in Nat /\ row.left \in 0 .. Ttl
  BY ConstantsAssumption DEF Row
<1>2. row.left > 0 => row.left - 1 \in 0 .. Ttl
  BY <1>1
<1> QED
  BY <1>1, <1>2 DEF Less, Later, Row

LEMMA LessArm ==
    ASSUME NEW a \in ArmSet
    PROVE  /\ Less(a) \in ArmSet /\ Less(a).session = a.session /\ Less(a).input = a.input
           /\ Less(a).handle = a.handle /\ Less(a).ended = a.ended /\ Less(a).left = Later(a.left)
<1>1. Ttl \in Nat /\ a.left \in 0 .. Ttl
  BY ConstantsAssumption DEF ArmSet
<1>2. a.left > 0 => a.left - 1 \in 0 .. Ttl
  BY <1>1
<1> QED
  BY <1>1, <1>2 DEF Less, Later, ArmSet

LEMMA LessSource ==
    ASSUME NEW s \in SourceSet
    PROVE  /\ Less(s) \in SourceSet /\ Less(s).session = s.session /\ Less(s).control = s.control
           /\ Less(s).handle = s.handle /\ Less(s).ended = s.ended /\ Less(s).left = Later(s.left)
<1>1. Ttl \in Nat /\ s.left \in 0 .. Ttl
  BY ConstantsAssumption DEF SourceSet
<1>2. s.left > 0 => s.left - 1 \in 0 .. Ttl
  BY <1>1
<1> QED
  BY <1>1, <1>2 DEF Less, Later, SourceSet

LEMMA LaterIsMonotonic ==
    ASSUME NEW x \in Nat, NEW y \in Nat
    PROVE  /\ Later(x) \in Nat /\ Later(x) <= x /\ (x = 0 => Later(x) = 0)
           /\ (x <= y => Later(x) <= Later(y)) /\ (x = y => Later(x) = Later(y))
  BY DEF Later

\* What a tick makes of each part.
LEMMA TickParts ==
    ASSUME Typed, Tick
    PROVE  /\ \A h \in HandleIds :
                IF rows[h] = NoRow THEN rows'[h] = NoRow
                ELSE /\ rows'[h] \in Row /\ rows'[h] # NoRow
                     /\ rows'[h].controller = rows[h].controller
                     /\ rows'[h].state = rows[h].state /\ rows'[h].pending = rows[h].pending
                     /\ rows'[h].left = Later(rows[h].left)
           /\ arm' \in ArmSet /\ arm'.session = arm.session /\ arm'.input = arm.input
           /\ arm'.handle = arm.handle /\ arm'.ended = arm.ended /\ arm'.left = Later(arm.left)
           /\ \A c \in Controllers :
                /\ source'[c] \in SourceSet /\ source'[c].session = source[c].session
                /\ source'[c].control = source[c].control /\ source'[c].handle = source[c].handle
                /\ source'[c].ended = source[c].ended /\ source'[c].left = Later(source[c].left)
           /\ \A n \in Nodes :
                /\ commands'[n] \in Seq(CommandSet) /\ DOMAIN commands'[n] = DOMAIN commands[n]
                /\ \A i \in DOMAIN commands[n] :
                     /\ commands[n][i] \in CommandSet
                     /\ commands'[n][i].kind = commands[n][i].kind
                     /\ commands'[n][i].handle = commands[n][i].handle
                     /\ commands'[n][i].left = Later(commands[n][i].left)
           /\ UNCHANGED <<registry, messages, asked, losses, missed>>
<1>1. ASSUME NEW h \in HandleIds
      PROVE  IF rows[h] = NoRow THEN rows'[h] = NoRow
             ELSE /\ rows'[h] \in Row /\ rows'[h] # NoRow
                  /\ rows'[h].controller = rows[h].controller
                  /\ rows'[h].state = rows[h].state /\ rows'[h].pending = rows[h].pending
                  /\ rows'[h].left = Later(rows[h].left)
  <2>1. rows'[h] = IF rows[h] = NoRow THEN NoRow ELSE Less(rows[h])
    BY DEF Tick
  <2>2. rows[h] # NoRow => rows[h] \in Row
    BY RowOf
  <2> QED
    BY <2>1, <2>2, LessRow, ConstantsAssumption
<1>2. /\ arm' \in ArmSet /\ arm'.session = arm.session /\ arm'.input = arm.input
      /\ arm'.handle = arm.handle /\ arm'.ended = arm.ended /\ arm'.left = Later(arm.left)
  BY LessArm DEF Tick, Typed, NodeType
<1>3. ASSUME NEW c \in Controllers
      PROVE  /\ source'[c] \in SourceSet /\ source'[c].session = source[c].session
             /\ source'[c].control = source[c].control /\ source'[c].handle = source[c].handle
             /\ source'[c].ended = source[c].ended /\ source'[c].left = Later(source[c].left)
  <2>1. source[c] \in SourceSet /\ source'[c] = Less(source[c])
    BY DEF Tick, Typed, NodeType
  <2> QED
    BY <2>1, LessSource
<1>4. ASSUME NEW n \in Nodes
      PROVE  /\ commands'[n] \in Seq(CommandSet) /\ DOMAIN commands'[n] = DOMAIN commands[n]
             /\ \A i \in DOMAIN commands[n] :
                  /\ commands[n][i] \in CommandSet
                  /\ commands'[n][i].kind = commands[n][i].kind
                  /\ commands'[n][i].handle = commands[n][i].handle
                  /\ commands'[n][i].left = Later(commands[n][i].left)
  <2>1. commands[n] \in Seq(CommandSet)
    BY DEF Typed, CommandType
  <2>2. commands'[n] = [i \in DOMAIN commands[n] |-> Less(commands[n][i])]
    BY DEF Tick
  <2>3. \A i \in DOMAIN commands[n] : commands[n][i] \in CommandSet
    BY <2>1
  <2>4. \A i \in DOMAIN commands[n] : Less(commands[n][i]) \in CommandSet
    BY <2>3, LessCommand
  <2>5. commands'[n] \in Seq(CommandSet)
    BY <2>1, <2>2, <2>4
  <2>6. \A i \in DOMAIN commands[n] : commands'[n][i] = Less(commands[n][i])
    BY <2>2
  <2> QED
    BY <2>2, <2>3, <2>5, <2>6, LessCommand
<1> QED
  BY <1>1, <1>2, <1>3, <1>4 DEF Tick

LEMMA TickType == ASSUME Typed, Tick PROVE Typed'
<1>1. HubType' /\ rows' \in [HandleIds -> Row \cup {NoRow}]
  <2>1. \A h \in HandleIds : rows'[h] \in Row \cup {NoRow}
    BY TickParts
  <2>2. rows' = [h \in HandleIds |-> rows'[h]]
    BY DEF Tick
  <2> QED
    BY <2>1, <2>2 DEF Tick, HubType, Typed
<1>2. NodeType'
  <2>1. source' \in [Controllers -> SourceSet]
    BY TickParts DEF Tick
  <2> QED
    BY <2>1, TickParts, SessionsKept
<1>3. CommandType'
  BY TickParts DEF CommandType, Typed, Tick
<1> QED
  BY <1>1, <1>2, <1>3 DEF Typed, WordType, CountType, Tick

\* A loss: one command or one word, and which Node and Handle it was about.
LEMMA LoseParts ==
    ASSUME Typed, NEW n \in Nodes, Lose(n)
    PROVE  /\ losses' = losses + 1 /\ losses' \in 0 .. MaxLosses
           /\ UNCHANGED <<registry, rows, arm, source, asked>>
           /\ \/ /\ commands[n] # <<>> /\ commands' = [commands EXCEPT ![n] = Tail(@)]
                 /\ Head(commands[n]).handle \in HandleIds
                 /\ missed' = missed \cup {<<n, Head(commands[n]).handle>>}
                 /\ messages' = messages
              \/ /\ messages[n] # <<>> /\ messages' = [messages EXCEPT ![n] = Tail(@)]
                 /\ Head(messages[n]).handle \in HandleIds
                 /\ missed' = missed \cup {<<n, Head(messages[n]).handle>>}
                 /\ commands' = commands
<1>1. losses' = losses + 1 /\ losses' \in 0 .. MaxLosses
  BY ConstantsAssumption DEF Lose, Typed, CountType
<1>2. commands[n] # <<>> => Head(commands[n]) \in CommandSet
  BY HeadCommand
<1>3. messages[n] # <<>> => Head(messages[n]) \in WordSet
  BY TailElements DEF Typed, WordType
<1>4. commands[n] # <<>> => Head(commands[n]).handle \in HandleIds
  BY <1>2 DEF CommandSet
<1>5. messages[n] # <<>> /\ Head(messages[n]).kind # "register" => Head(messages[n]).handle \in HandleIds
  BY <1>3 DEF WordSet
<1> QED
  BY <1>1, <1>4, <1>5 DEF Lose

LEMMA LoseType == ASSUME Typed, NEW n \in Nodes, Lose(n) PROVE Typed'
<1>1. CommandType' /\ WordType'
  <2>1. commands[n] # <<>> => [commands EXCEPT ![n] = Tail(@)] \in [Nodes -> Seq(CommandSet)]
    BY HeadCommand
  <2>2. messages[n] # <<>> => [messages EXCEPT ![n] = Tail(@)] \in [Nodes -> Seq(WordSet)]
    BY TailElements DEF Typed, WordType
  <2>3. commands' \in [Nodes -> Seq(CommandSet)] /\ messages' \in [Nodes -> Seq(WordSet)]
    BY <2>1, <2>2, LoseParts DEF Typed, CommandType, WordType
  <2>4. missed' \subseteq Nodes \X HandleIds
    BY LoseParts DEF Typed, CommandType
  <2> QED
    BY <2>3, <2>4 DEF CommandType, WordType
<1>2. /\ losses' = losses + 1 /\ losses' \in 0 .. MaxLosses
      /\ UNCHANGED <<registry, rows, arm, source, asked>>
  BY LoseParts
<1>3. NodeType'
  <2>1. \A m \in Nodes : Session(m)' = Session(m)
    BY <1>2 DEF Session
  <2>2. \A m \in Nodes : Session(m) \in Nat /\ losses \in Nat
    BY ConstantsAssumption DEF Typed, NodeType, Session, Nodes, ArmSet, SourceSet, CountType
  <2>3. \A m \in Nodes : Session(m)' <= losses' + 1
    BY <1>2, <2>1, <2>2 DEF Typed, NodeType
  <2> QED
    BY <1>2, <2>3 DEF Typed, NodeType
<1> QED
  BY <1>1, <1>2, <1>3 DEF Typed, HubType, CountType

LEMMA InitTyped == Init => Typed
<1> SUFFICES ASSUME Init PROVE Typed
  OBVIOUS
<1>1. 1 \in 1 .. MaxLosses + 1 /\ 0 \in 0 .. Ttl /\ 0 \in 0 .. MaxRequests /\ 0 \in 0 .. MaxLosses
  BY ConstantsAssumption
<1>2. HubType /\ CountType
  BY <1>1 DEF Init, HubType, CountType
<1>3. arm \in ArmSet /\ source \in [Controllers -> SourceSet]
  BY <1>1 DEF Init, ArmSet, SourceSet, ControllerControlState
<1>4. \A n \in Nodes : Session(n) = 1
  BY DEF Init, Session, Nodes
<1>5. CommandType /\ WordType
  BY DEF Init, CommandType, WordType, Nothing
<1>6. \A n \in Nodes : Session(n) <= losses + 1
  BY <1>4 DEF Init
<1> QED
  BY <1>2, <1>3, <1>5, <1>6 DEF Typed, NodeType

LEMMA TypedStep == Typed /\ [Next]_vars => Typed'
  BY Steps, HubStepType, NodeStepType, LoseType, TickType

\* Sessions, validities, request numbers and queues stay what they are, however
\* many messages and sessions are lost.
THEOREM TypeCorrect == Spec => []TypeOK
<1>1. Spec => []Typed
  BY InitTyped, TypedStep, PTL DEF Spec
<1> QED
  BY <1>1, TypedImpliesTypeOK, PTL

-----------------------------------------------------------------------------
(* What a step does to the queues and to the Nodes, for the invariants.    *)

\* What the Hub tells is in the queue that it reaches, behind what is there, and
\* is noted as missed otherwise.
LEMMA TellElements ==
    ASSUME Typed, NEW told \in [Nodes -> Seq(CommandSet)], Tell(told), NEW n \in Nodes
    PROVE  /\ \A i \in DOMAIN commands[n] :
                i \in DOMAIN commands'[n] /\ commands'[n][i] = commands[n][i]
           /\ \A i \in DOMAIN commands'[n] :
                \/ i \in DOMAIN commands[n]
                \/ /\ \A j \in DOMAIN commands[n] : j < i
                   /\ \E j \in DOMAIN told[n] : commands'[n][i] = told[n][j]
                                                /\ i = Len(commands[n]) + j
           /\ \/ \A j \in DOMAIN told[n] : \E i \in DOMAIN commands'[n] :
                   commands'[n][i] = told[n][j] /\ i = Len(commands[n]) + j
              \/ \A j \in DOMAIN told[n] : <<n, told[n][j].handle>> \in missed'
<1>1. commands[n] \in Seq(CommandSet) /\ told[n] \in Seq(CommandSet)
  BY DEF Typed, CommandType
<1>2. commands'[n] = IF Reaches(n, told) THEN commands[n] \o told[n] ELSE commands[n]
  BY DEF Tell
<1>3. CASE Reaches(n, told)
  <2>1. commands'[n] = commands[n] \o told[n]
    BY <1>2, <1>3
  <2>2. ASSUME NEW i \in DOMAIN commands'[n], i \notin DOMAIN commands[n]
        PROVE  /\ \A j \in DOMAIN commands[n] : j < i
               /\ \E j \in DOMAIN told[n] : commands'[n][i] = told[n][j]
                                            /\ i = Len(commands[n]) + j
    <3>1. i \in Nat /\ i > Len(commands[n]) /\ i - Len(commands[n]) \in DOMAIN told[n]
      BY <1>1, <2>1, <2>2, ConcatElements
    <3>2. i = Len(commands[n]) + (i - Len(commands[n])) /\ Len(commands[n]) \in Nat
      BY <1>1, <3>1
    <3>3. commands'[n][i] = told[n][i - Len(commands[n])]
      BY <1>1, <2>1, <3>1, <3>2, ConcatElements
    <3>4. \A j \in DOMAIN commands[n] : j < i
      BY <1>1, <3>1
    <3> QED
      BY <3>1, <3>2, <3>3, <3>4
  <2> QED
    BY <1>1, <2>1, <2>2, ConcatElements
<1>4. CASE ~Reaches(n, told)
  <2>1. commands'[n] = commands[n]
    BY <1>2, <1>4
  <2>2. ASSUME NEW j \in DOMAIN told[n]
        PROVE  <<n, told[n][j].handle>> \in missed'
    <3>1. told[n][j] \in CommandSet
      BY <1>1
    <3>2. told[n][j].handle \in HandleIds
      BY <3>1 DEF CommandSet
    <3> QED
      BY <1>4, <3>2 DEF Tell
  <2> QED
    BY <2>1, <2>2
<1> QED
  BY <1>3, <1>4

\* A queue loses its head, or all of it, or nothing.
Shrinks(now, before) == now = before \/ now = <<>> \/ (before # <<>> /\ now = Tail(before))

LEMMA ShrinksElements ==
    ASSUME NEW S, NEW before \in Seq(S), NEW now, Shrinks(now, before)
    PROVE  \A i \in DOMAIN now : \E j \in DOMAIN before : now[i] = before[j]
<1>1. CASE now = <<>>
  BY <1>1
<1>2. CASE before # <<>> /\ now = Tail(before)
  BY <1>2, TailElements
<1> QED
  BY <1>1, <1>2 DEF Shrinks

LEMMA SaysElements ==
    ASSUME Typed, NEW n \in Nodes, NEW w \in WordSet, Says(n, <<w>>)
    PROVE  \A m \in Nodes : \A i \in DOMAIN messages'[m] :
             \/ \E j \in DOMAIN messages[m] : messages'[m][i] = messages[m][j]
             \/ m = n /\ messages'[m][i] = w
<1> SUFFICES ASSUME NEW m \in Nodes, NEW i \in DOMAIN messages'[m]
             PROVE  \/ \E j \in DOMAIN messages[m] : messages'[m][i] = messages[m][j]
                    \/ m = n /\ messages'[m][i] = w
  OBVIOUS
<1>1. messages \in [Nodes -> Seq(WordSet)]
  BY DEF Typed, WordType
<1>2. messages' = [messages EXCEPT ![n] = messages[n] \o <<w>>]
  BY DEF Says
<1>3. CASE m # n
  BY <1>1, <1>2, <1>3
<1>4. CASE m = n
  <2>1. messages'[m] = messages[m] \o <<w>> /\ messages[m] \in Seq(WordSet)
    BY <1>1, <1>2, <1>4
  <2>2. <<w>> \in Seq(WordSet) /\ DOMAIN <<w>> = {1} /\ <<w>>[1] = w
    BY OneWord
  <2>3. CASE i \in DOMAIN messages[m]
    BY <2>1, <2>2, <2>3, ConcatElements
  <2>4. CASE i \notin DOMAIN messages[m]
    <3>1. i - Len(messages[m]) = 1 /\ i \in Nat /\ Len(messages[m]) \in Nat
      BY <2>1, <2>2, <2>4, ConcatElements
    <3>2. i = Len(messages[m]) + 1
      BY <3>1
    <3> QED
      BY <1>4, <2>1, <2>2, <3>2, ConcatElements
  <2> QED
    BY <2>3, <2>4
<1> QED
  BY <1>3, <1>4

\* What a Node may say, judged by what it had and was told.
RobotSays(w) ==
    /\ w.handle = arm.handle /\ arm.handle \in HandleIds
    /\ \/ w.kind = "robot_ready" /\ Carries(commands[Robot], "take_over", w.handle)
       \/ /\ w.kind = "robot_holding" /\ w.handle \in arm'.ended
          /\ \/ Carries(commands[Robot], "hand_over", w.handle)
             \/ Carries(commands[Robot], "revoke", w.handle)

ControllerSays(c, w) ==
    /\ w.handle = source[c].handle /\ source[c].handle \in HandleIds
    /\ \/ w.kind \in {"take_over_requested", "controller_streaming"}
       \/ w.kind = "hand_over_requested" /\ w.handle \in source'[c].ended

MayBeSaid(n, w) ==
    \/ \E j \in DOMAIN messages[n] : w = messages[n][j]
    \/ w.kind = "register"
    \/ n = Robot /\ RobotSays(w)
    \/ n \in Controllers /\ ControllerSays(n, w)

\* What a step of its own may make of the Robot.
ArmMoves ==
    \/ /\ arm'.handle = arm.handle /\ arm'.ended = arm.ended
       /\ \/ arm'.left = arm.left
          \/ \E i \in DOMAIN commands[Robot] :
               commands[Robot][i].handle = arm.handle /\ arm'.left = commands[Robot][i].left
       /\ arm'.input =>
            arm.input \/ (arm.handle \in HandleIds /\ Carries(commands[Robot], "take_over", arm.handle))
    \/ /\ arm'.handle = NoHandle /\ ~arm'.input /\ arm'.left = 0
       /\ arm'.ended = arm.ended \cup ({arm.handle} \ {NoHandle})
    \/ /\ arm.handle = NoHandle /\ arm'.ended = arm.ended /\ arm'.input = arm.input
       /\ arm'.handle \notin arm.ended
       /\ \E i \in DOMAIN commands[Robot] :
            commands[Robot][i].handle = arm'.handle /\ arm'.left = commands[Robot][i].left

\* And of a Controller.
SourceMoves(c) ==
    \/ /\ source'[c].handle = source[c].handle /\ source'[c].ended = source[c].ended
       /\ \/ source'[c].left = source[c].left
          \/ \E i \in DOMAIN commands[c] :
               /\ commands[c][i].handle = source[c].handle
               /\ source'[c].left = commands[c][i].left
       /\ source'[c].control = "STREAMING" =>
            \/ source[c].control = "STREAMING"
            \/ source[c].handle \in HandleIds /\ Carries(commands[c], "robot_ready", source[c].handle)
    \/ /\ source'[c].handle = NoHandle /\ source'[c].control = "IDLE" /\ source'[c].left = 0
       /\ source'[c].ended = source[c].ended \cup ({source[c].handle} \ {NoHandle})
    \/ /\ source[c].handle = NoHandle /\ source'[c].ended = source[c].ended
       /\ source'[c].control = "IDLE" /\ source'[c].handle \notin source[c].ended
       /\ \E i \in DOMAIN commands[c] :
            /\ commands[c][i].kind = "grant" /\ commands[c][i].handle = source'[c].handle
            /\ source'[c].left = commands[c][i].left

NodeMoves ==
    /\ ArmMoves /\ \A c \in Controllers : SourceMoves(c)
    /\ \A n \in Nodes : Shrinks(commands'[n], commands[n])
    /\ \A n \in Nodes : \A i \in DOMAIN messages'[n] : MayBeSaid(n, messages'[n][i])
    /\ rows' = rows /\ missed \subseteq missed'

LEMMA UnsaidWords ==
    ASSUME messages' = messages
    PROVE  \A n \in Nodes : \A i \in DOMAIN messages'[n] : MayBeSaid(n, messages'[n][i])
  BY DEF MayBeSaid

\* One Node says one thing that it may say.
LEMMA SaidWord ==
    ASSUME Typed, NEW n \in Nodes, NEW w \in WordSet, Says(n, <<w>>), MayBeSaid(n, w)
    PROVE  \A m \in Nodes : \A i \in DOMAIN messages'[m] : MayBeSaid(m, messages'[m][i])
<1> SUFFICES ASSUME NEW m \in Nodes, NEW i \in DOMAIN messages'[m]
             PROVE  MayBeSaid(m, messages'[m][i])
  OBVIOUS
<1>1. CASE \E j \in DOMAIN messages[m] : messages'[m][i] = messages[m][j]
  BY <1>1 DEF MayBeSaid
<1>2. CASE m = n /\ messages'[m][i] = w
  BY <1>2
<1> QED
  BY <1>1, <1>2, SaysElements

\* A registration is appended to what a Node has said.
LEMMA RenewsMoves ==
    ASSUME Typed, NEW n \in Nodes, NEW session, Renews(n, session)
    PROVE  /\ \A m \in Nodes : Shrinks(commands'[m], commands[m])
           /\ \A m \in Nodes : \A i \in DOMAIN messages'[m] : MayBeSaid(m, messages'[m][i])
           /\ UNCHANGED <<rows, missed>>
<1> DEFINE w == [kind |-> "register", handle |-> NoHandle, request |-> 0,
                 session |-> session + 1]
<1>1. w.kind = "register"
  OBVIOUS
<1>2. messages' = [messages EXCEPT ![n] = Append(@, w)]
  BY DEF Renews
<1> HIDE DEF w
<1>3. messages \in [Nodes -> Seq(WordSet)]
  BY DEF Typed, WordType
<1>4. ASSUME NEW m \in Nodes, NEW i \in DOMAIN messages'[m]
      PROVE  MayBeSaid(m, messages'[m][i])
  <2>1. CASE m # n
    BY <1>2, <1>3, <2>1 DEF MayBeSaid
  <2>2. CASE m = n
    <3>1. messages'[m] = Append(messages[m], w) /\ messages[m] \in Seq(WordSet)
      BY <1>2, <1>3, <2>2
    <3>2. \/ i \in DOMAIN messages[m] /\ messages'[m][i] = messages[m][i]
          \/ messages'[m][i] = w
      BY <3>1
    <3> QED
      BY <1>1, <3>2 DEF MayBeSaid
  <2> QED
    BY <2>1, <2>2
<1>5. \A m \in Nodes : Shrinks(commands'[m], commands[m])
  BY DEF Renews, Typed, CommandType, Shrinks
<1> QED
  BY <1>4, <1>5 DEF Renews

LEMMA ArmStays ==
    ASSUME arm' = arm
    PROVE  ArmMoves
  BY DEF ArmMoves

LEMMA RobotTakesMoves ==
    ASSUME Typed, NEW k \in CommandSet, commands[Robot] # <<>>, k = Head(commands[Robot]),
           RobotTakes(k)
    PROVE  /\ ArmMoves
           /\ \A n \in Nodes : \A i \in DOMAIN messages'[n] : MayBeSaid(n, messages'[n][i])
<1>1. Robot \in Nodes /\ 1 \in DOMAIN commands[Robot] /\ commands[Robot][1] = k
  BY HeadCommand DEF Nodes
<1>2. /\ arm \in ArmSet /\ Parked = [arm EXCEPT !.input = FALSE]
      /\ Given.input = FALSE /\ Given.left = 0 /\ Given.handle = NoHandle
      /\ Given.ended = arm.ended \cup ({arm.handle} \ {NoHandle})
  BY ArmFields
<1>3. Carries(commands[Robot], k.kind, k.handle)
  BY <1>1 DEF Carries
<1>4. k.handle \in HandleIds /\ k.request \in 0 .. MaxRequests /\ 0 \in 0 .. MaxRequests
      /\ k.handle # NoHandle
  BY ConstantsAssumption DEF CommandSet
<1>5. ASSUME NEW w \in WordSet, RobotSays(w), Says(Robot, <<w>>)
      PROVE  \A n \in Nodes : \A i \in DOMAIN messages'[n] : MayBeSaid(n, messages'[n][i])
  BY <1>1, <1>5, SaidWord DEF MayBeSaid
<1>6. CASE arm' = arm /\ messages' = messages
  BY <1>6, ArmStays, UnsaidWords
<1>7. CASE /\ k.kind = "grant" /\ arm.handle = NoHandle /\ k.handle \notin arm.ended
           /\ arm' = [arm EXCEPT !.handle = k.handle, !.left = k.left] /\ messages' = messages
  <2>1. /\ arm'.handle = k.handle /\ arm'.left = k.left /\ arm'.input = arm.input
        /\ arm'.ended = arm.ended
    BY <1>2, <1>7 DEF ArmSet
  <2> QED
    BY <1>1, <1>7, <2>1, UnsaidWords DEF ArmMoves
<1>8. CASE /\ k.kind = "renewal" /\ arm.handle = k.handle
           /\ arm' = [arm EXCEPT !.left = k.left] /\ messages' = messages
  <2>1. /\ arm'.handle = arm.handle /\ arm'.left = k.left /\ arm'.input = arm.input
        /\ arm'.ended = arm.ended
    BY <1>2, <1>8 DEF ArmSet
  <2> QED
    BY <1>1, <1>8, <2>1, UnsaidWords DEF ArmMoves
<1>9. CASE /\ k.kind = "take_over" /\ arm.handle = k.handle
           /\ arm' = [arm EXCEPT !.input = TRUE]
           /\ Says(Robot, <<Word(Robot, "robot_ready", k.handle, k.request)>>)
  <2> DEFINE w == Word(Robot, "robot_ready", k.handle, k.request)
  <2>1. /\ arm'.handle = arm.handle /\ arm'.left = arm.left /\ arm'.ended = arm.ended
    BY <1>2, <1>9 DEF ArmSet
  <2>2. w \in WordSet /\ w.kind = "robot_ready" /\ w.handle = k.handle
    BY <1>1, <1>4, WordInSet DEF Words, Word
  <2>3. RobotSays(w)
    BY <1>3, <1>4, <1>9, <2>2 DEF RobotSays
  <2> HIDE DEF w
  <2>4. \A n \in Nodes : \A i \in DOMAIN messages'[n] : MayBeSaid(n, messages'[n][i])
    BY <1>5, <1>9, <2>2, <2>3 DEF w
  <2> QED
    BY <1>3, <1>4, <1>9, <2>1, <2>4 DEF ArmMoves
<1>10. CASE arm' = Parked /\ messages' = messages
  <2>1. /\ arm'.handle = arm.handle /\ arm'.left = arm.left /\ arm'.ended = arm.ended
        /\ ~arm'.input
    BY <1>2, <1>10 DEF ArmSet
  <2> QED
    BY <1>10, <2>1, UnsaidWords DEF ArmMoves
<1>11. CASE arm' = Given /\ messages' = messages
  BY <1>2, <1>11, UnsaidWords DEF ArmMoves
<1>12. CASE /\ k.kind \in {"hand_over", "revoke"} /\ arm.handle = k.handle
            /\ arm' = Given /\ Says(Robot, <<Word(Robot, "robot_holding", k.handle, 0)>>)
  <2> DEFINE w == Word(Robot, "robot_holding", k.handle, 0)
  <2>1. w \in WordSet /\ w.kind = "robot_holding" /\ w.handle = k.handle
    BY <1>1, <1>4, WordInSet DEF Words, Word
  <2>2. k.handle \in arm'.ended
    BY <1>2, <1>4, <1>12
  <2>3. RobotSays(w)
    BY <1>3, <1>4, <1>12, <2>1, <2>2 DEF RobotSays
  <2> HIDE DEF w
  <2>4. \A n \in Nodes : \A i \in DOMAIN messages'[n] : MayBeSaid(n, messages'[n][i])
    BY <1>5, <1>12, <2>1, <2>3 DEF w
  <2> QED
    BY <1>2, <1>12, <2>4 DEF ArmMoves
<1> QED
  BY <1>6, <1>7, <1>8, <1>9, <1>10, <1>11, <1>12 DEF RobotTakes

LEMMA SourcesStay ==
    ASSUME source' = source
    PROVE  \A c \in Controllers : SourceMoves(c)
  BY DEF SourceMoves

\* Only one Controller moves.
LEMMA OneSourceMoves ==
    ASSUME Typed, NEW c \in Controllers, NEW new \in SourceSet, SourceBecomes(c, new),
           SourceMoves(c)
    PROVE  \A d \in Controllers : SourceMoves(d)
<1>1. \A d \in Controllers \ {c} : source'[d] = source[d]
  BY BecomesOne
<1> QED
  BY <1>1 DEF SourceMoves

\* A Controller that gives its Handle up, and what it may say of it.
LEMMA SilencedMoves ==
    ASSUME Typed, NEW c \in Controllers, SourceBecomes(c, Silenced(c))
    PROVE  /\ \A d \in Controllers : SourceMoves(d)
           /\ source[c].handle \in HandleIds => source[c].handle \in source'[c].ended
<1>1. /\ Silenced(c) \in SourceSet /\ Silenced(c).control = "IDLE" /\ Silenced(c).left = 0
      /\ Silenced(c).handle = NoHandle
      /\ Silenced(c).ended = source[c].ended \cup ({source[c].handle} \ {NoHandle})
  BY SourceFields
<1>2. source'[c] = Silenced(c)
  BY <1>1, BecomesOne
<1>3. SourceMoves(c)
  BY <1>1, <1>2 DEF SourceMoves
<1> QED
  BY <1>1, <1>2, <1>3, OneSourceMoves, ConstantsAssumption

LEMMA AskingMoves ==
    ASSUME Typed, NEW c \in Controllers, NEW request \in 0 .. MaxRequests,
           SourceBecomes(c, Asking(c, request))
    PROVE  \A d \in Controllers : SourceMoves(d)
<1>1. /\ Asking(c, request) \in SourceSet /\ source'[c] = Asking(c, request)
  BY AskingType, BecomesOne
<1>2. SourceMoves(c)
  BY <1>1, AskingType DEF SourceMoves
<1> QED
  BY <1>1, <1>2, OneSourceMoves

\* A Controller says something about the Handle it has.
LEMMA ControllerSaidWord ==
    ASSUME Typed, NEW c \in Controllers, NEW h \in HandleIds, h = source[c].handle,
           NEW request \in 0 .. MaxRequests,
           NEW kind \in {"take_over_requested", "controller_streaming", "hand_over_requested"},
           kind = "hand_over_requested" => h \in source'[c].ended,
           Says(c, <<Word(c, kind, h, request)>>)
    PROVE  \A n \in Nodes : \A i \in DOMAIN messages'[n] : MayBeSaid(n, messages'[n][i])
<1> DEFINE w == Word(c, kind, h, request)
<1>1. c \in Nodes /\ w \in WordSet /\ w.kind = kind /\ w.handle = h
  BY WordInSet DEF Nodes, Words, Word
<1>2. ControllerSays(c, w)
  BY <1>1 DEF ControllerSays
<1> HIDE DEF w
<1>3. MayBeSaid(c, w)
  BY <1>2 DEF MayBeSaid
<1> QED
  BY <1>1, <1>3, SaidWord DEF w

LEMMA ControllerTakesMoves ==
    ASSUME Typed, NEW c \in Controllers, NEW k \in CommandSet, commands[c] # <<>>,
           k = Head(commands[c]), ControllerTakes(c, k)
    PROVE  /\ \A d \in Controllers : SourceMoves(d)
           /\ \A n \in Nodes : \A i \in DOMAIN messages'[n] : MayBeSaid(n, messages'[n][i])
<1>1. c \in Nodes /\ 1 \in DOMAIN commands[c] /\ commands[c][1] = k
  BY HeadCommand DEF Nodes
<1>2. k.handle \in HandleIds /\ k.request \in 0 .. MaxRequests /\ 0 \in 0 .. MaxRequests
      /\ k.left \in 0 .. Ttl /\ source[c] \in SourceSet
  BY ConstantsAssumption DEF CommandSet, Typed, NodeType
<1>3. CASE source' = source /\ messages' = messages
  BY <1>3, SourcesStay, UnsaidWords
<1>4. CASE /\ k.kind = "grant" /\ k.handle \notin source[c].ended /\ source[c].handle = NoHandle
           /\ SourceBecomes(c, [source[c] EXCEPT !.handle = k.handle, !.left = k.left,
                                                 !.control = "IDLE"])
           /\ messages' = messages
  <2> DEFINE new == [source[c] EXCEPT !.handle = k.handle, !.left = k.left, !.control = "IDLE"]
  <2>1. /\ new \in SourceSet /\ new.handle = k.handle /\ new.left = k.left
        /\ new.control = "IDLE" /\ new.ended = source[c].ended
    BY <1>2 DEF SourceSet, ControllerControlState
  <2> HIDE DEF new
  <2>2. SourceBecomes(c, new) /\ source'[c] = new
    BY <1>4, <2>1, BecomesOne DEF new
  <2>3. SourceMoves(c)
    BY <1>1, <1>4, <2>1, <2>2 DEF SourceMoves
  <2> QED
    BY <1>4, <2>1, <2>2, <2>3, OneSourceMoves, UnsaidWords
<1>5. CASE /\ k.kind = "renewal" /\ source[c].handle = k.handle
           /\ SourceBecomes(c, [source[c] EXCEPT !.left = k.left]) /\ messages' = messages
  <2> DEFINE new == [source[c] EXCEPT !.left = k.left]
  <2>1. /\ new \in SourceSet /\ new.handle = source[c].handle /\ new.left = k.left
        /\ new.control = source[c].control /\ new.ended = source[c].ended
    BY <1>2 DEF SourceSet
  <2> HIDE DEF new
  <2>2. SourceBecomes(c, new) /\ source'[c] = new
    BY <1>5, <2>1, BecomesOne DEF new
  <2>3. SourceMoves(c)
    BY <1>1, <1>5, <2>1, <2>2 DEF SourceMoves
  <2> QED
    BY <1>5, <2>1, <2>2, <2>3, OneSourceMoves, UnsaidWords
<1>6. CASE /\ k.kind = "take_over" /\ Matches(c, k)
           /\ SourceBecomes(c, Asking(c, k.request))
           /\ Says(c, <<Word(c, "take_over_requested", k.handle, k.request)>>)
  BY <1>2, <1>6, AskingMoves, ControllerSaidWord DEF Matches
<1>7. CASE /\ k.kind = "robot_ready" /\ Matches(c, k)
           /\ SourceBecomes(c, [source[c] EXCEPT !.control = "STREAMING", !.request = 0])
           /\ Says(c, <<Word(c, "controller_streaming", k.handle, 0)>>)
  <2> DEFINE new == [source[c] EXCEPT !.control = "STREAMING", !.request = 0]
  <2>1. /\ new \in SourceSet /\ new.handle = source[c].handle /\ new.left = source[c].left
        /\ new.ended = source[c].ended
    BY <1>2 DEF SourceSet, ControllerControlState
  <2> HIDE DEF new
  <2>2. SourceBecomes(c, new) /\ source'[c] = new
    BY <1>7, <2>1, BecomesOne DEF new
  <2>3. source[c].handle = k.handle /\ Carries(commands[c], "robot_ready", k.handle)
    BY <1>1, <1>7 DEF Matches, Carries
  <2>4. SourceMoves(c)
    BY <1>2, <2>1, <2>2, <2>3 DEF SourceMoves
  <2> QED
    BY <1>2, <1>7, <2>1, <2>2, <2>3, <2>4, OneSourceMoves, ControllerSaidWord
<1>8. CASE /\ k.kind = "hand_over" /\ Matches(c, k)
           /\ SourceBecomes(c, Silenced(c))
           /\ Says(c, <<Word(c, "hand_over_requested", k.handle, 0)>>)
  BY <1>2, <1>8, SilencedMoves, ControllerSaidWord DEF Matches
<1>9. CASE SourceBecomes(c, Silenced(c)) /\ messages' = messages
  BY <1>9, SilencedMoves, UnsaidWords
<1> QED
  BY <1>3, <1>4, <1>5, <1>6, <1>7, <1>8, <1>9 DEF ControllerTakes

LEMMA QueuesShrink ==
    ASSUME Typed, NEW n \in Nodes,
           \/ commands' = commands
           \/ commands[n] # <<>> /\ commands' = [commands EXCEPT ![n] = Tail(@)]
    PROVE  \A m \in Nodes : Shrinks(commands'[m], commands[m])
  BY DEF Typed, CommandType, Shrinks

LEMMA NodeStepMoves == ASSUME Typed, NodeStep PROVE NodeMoves
<1>1. CASE RobotReceives
  BY <1>1, RobotReceivesTakes, RobotTakesMoves, SourcesStay, QueuesShrink DEF NodeMoves
<1>2. CASE RobotExpires \/ InputFails \/ EnterSafety
  <2>1. /\ arm' \in {Given, Parked}
        /\ UNCHANGED <<rows, source, commands, messages, missed>>
    BY <1>2 DEF RobotExpires, InputFails, EnterSafety, RobotAlone
  <2>2. /\ arm \in ArmSet /\ Parked = [arm EXCEPT !.input = FALSE]
        /\ Given.input = FALSE /\ Given.left = 0 /\ Given.handle = NoHandle
        /\ Given.ended = arm.ended \cup ({arm.handle} \ {NoHandle})
    BY ArmFields
  <2>3. CASE arm' = Given
    <3>1. ArmMoves
      BY <2>2, <2>3 DEF ArmMoves
    <3> QED
      BY <2>1, <3>1, SourcesStay, QueuesShrink, UnsaidWords DEF NodeMoves, Nodes
  <2>4. CASE arm' = Parked
    <3>1. /\ arm'.handle = arm.handle /\ arm'.left = arm.left /\ arm'.ended = arm.ended
          /\ ~arm'.input
      BY <2>2, <2>4 DEF ArmSet
    <3>2. ArmMoves
      BY <3>1 DEF ArmMoves
    <3> QED
      BY <2>1, <3>2, SourcesStay, QueuesShrink, UnsaidWords DEF NodeMoves, Nodes
  <2> QED
    BY <2>1, <2>3, <2>4
<1>3. CASE RobotLost
  <2>1. Robot \in Nodes /\ Renews(Robot, arm.session)
    BY <1>3 DEF Nodes, RobotLost
  <2>2. arm' = [Given EXCEPT !.session = @ + 1] /\ source' = source
    BY <1>3 DEF RobotLost
  <2>3. /\ Given \in ArmSet /\ Given.input = FALSE /\ Given.left = 0 /\ Given.handle = NoHandle
        /\ Given.ended = arm.ended \cup ({arm.handle} \ {NoHandle})
    BY ArmFields
  <2>4. /\ arm'.input = FALSE /\ arm'.left = 0 /\ arm'.handle = NoHandle
        /\ arm'.ended = arm.ended \cup ({arm.handle} \ {NoHandle})
    BY <2>2, <2>3 DEF ArmSet
  <2>5. ArmMoves
    BY <2>4 DEF ArmMoves
  <2> QED
    BY <2>1, <2>2, <2>5, RenewsMoves, SourcesStay DEF NodeMoves
<1>4. ASSUME NEW c \in Controllers, ControllerReceives(c)
      PROVE  NodeMoves
  BY <1>4, ControllerReceivesTakes, ControllerTakesMoves, ArmStays, QueuesShrink DEF NodeMoves
<1>5. ASSUME NEW c \in Controllers, TakeOverCall(c)
      PROVE  NodeMoves
  <2>1. /\ source[c].handle \in HandleIds /\ asked' \in 0 .. MaxRequests
        /\ SourceBecomes(c, Asking(c, asked'))
        /\ Says(c, <<Word(c, "take_over_requested", source[c].handle, asked')>>)
        /\ UNCHANGED <<rows, arm, commands, missed>>
    BY <1>5, TakeOverCallMade
  <2>2. PICK request \in 0 .. MaxRequests : request = asked'
    BY <2>1
  <2>3. PICK h \in HandleIds : h = source[c].handle
    BY <2>1
  <2>4. \A d \in Controllers : SourceMoves(d)
    BY <2>1, <2>2, AskingMoves
  <2>5. \A n \in Nodes : \A i \in DOMAIN messages'[n] : MayBeSaid(n, messages'[n][i])
    BY <2>1, <2>2, <2>3, ControllerSaidWord
  <2> QED
    BY <2>1, <2>4, <2>5, ArmStays, QueuesShrink DEF NodeMoves, Nodes
<1>6. ASSUME NEW c \in Controllers, HandOverCall(c)
      PROVE  NodeMoves
  <2>1. /\ source[c].handle \in HandleIds
        /\ SourceBecomes(c, Silenced(c))
        /\ Says(c, <<Word(c, "hand_over_requested", source[c].handle, 0)>>)
        /\ UNCHANGED <<rows, arm, commands, missed>>
    BY <1>6, HandOverCallMade
  <2>2. PICK h \in HandleIds : h = source[c].handle
    BY <2>1
  <2>3. 0 \in 0 .. MaxRequests
    BY ConstantsAssumption
  <2>4. \A n \in Nodes : \A i \in DOMAIN messages'[n] : MayBeSaid(n, messages'[n][i])
    BY <2>1, <2>2, <2>3, SilencedMoves, ControllerSaidWord
  <2> QED
    BY <2>1, <2>4, SilencedMoves, ArmStays, QueuesShrink DEF NodeMoves, Nodes
<1>7. ASSUME NEW c \in Controllers, ControllerExpires(c)
      PROVE  NodeMoves
  <2>1. /\ SourceBecomes(c, Silenced(c))
        /\ UNCHANGED <<rows, arm, commands, messages, missed>>
    BY <1>7 DEF ControllerExpires
  <2> QED
    BY <2>1, SilencedMoves, ArmStays, QueuesShrink, UnsaidWords DEF NodeMoves, Nodes
<1>8. ASSUME NEW c \in Controllers, ControllerLost(c)
      PROVE  NodeMoves
  <2> DEFINE new == [Silenced(c) EXCEPT !.session = @ + 1]
  <2>1. c \in Nodes /\ Session(c) = source[c].session
    BY ConstantsAssumption DEF Nodes, Session
  <2>2. Renews(c, Session(c)) /\ SourceBecomes(c, new) /\ arm' = arm
    BY <1>8, <2>1 DEF ControllerLost
  <2>3. source[c].session + 1 \in 1 .. MaxLosses + 1
    BY <2>1, <2>2, RenewsType
  <2>4. /\ new \in SourceSet /\ new.control = "IDLE" /\ new.left = 0 /\ new.handle = NoHandle
        /\ new.ended = source[c].ended \cup ({source[c].handle} \ {NoHandle})
    BY <2>3, SourceFields DEF SourceSet
  <2> HIDE DEF new
  <2>5. source'[c] = new
    BY <2>2, <2>4, BecomesOne
  <2>6. SourceMoves(c)
    BY <2>4, <2>5 DEF SourceMoves
  <2> QED
    BY <2>1, <2>2, <2>4, <2>6, OneSourceMoves, RenewsMoves, ArmStays DEF NodeMoves
<1> QED
  BY <1>1, <1>2, <1>3, <1>4, <1>5, <1>6, <1>7, <1>8 DEF NodeStep

\* A loss is a step of nobody.
LEMMA LoseMoves == ASSUME Typed, NEW n \in Nodes, Lose(n) PROVE NodeMoves
<1>1. /\ rows' = rows /\ arm' = arm /\ source' = source /\ missed \subseteq missed'
      /\ \/ commands' = commands
         \/ commands[n] # <<>> /\ commands' = [commands EXCEPT ![n] = Tail(@)]
      /\ \/ messages' = messages
         \/ messages[n] # <<>> /\ messages' = [messages EXCEPT ![n] = Tail(@)]
  BY LoseParts
<1>2. \A m \in Nodes : Shrinks(messages'[m], messages[m])
  BY <1>1 DEF Typed, WordType, Shrinks
<1>3. ASSUME NEW m \in Nodes, NEW i \in DOMAIN messages'[m]
      PROVE  MayBeSaid(m, messages'[m][i])
  <2>1. messages[m] \in Seq(WordSet)
    BY DEF Typed, WordType
  <2>2. \E j \in DOMAIN messages[m] : messages'[m][i] = messages[m][j]
    BY <1>2, <2>1, ShrinksElements
  <2> QED
    BY <2>2 DEF MayBeSaid
<1> QED
  BY <1>1, <1>3, ArmStays, SourcesStay, QueuesShrink DEF NodeMoves

\* Every step as the invariants see it.
LEMMA Moves ==
    ASSUME Typed, [Next]_vars
    PROVE  HubStep \/ NodeMoves \/ Tick
  BY Steps, NodeStepMoves, LoseMoves

\* A row that a step of the Hub has aged.
LEMMA AgedRow ==
    ASSUME Typed, NEW told, NEW h \in HandleIds, rows[h] # NoRow, Ages(h, told)
    PROVE  /\ rows'[h] # NoRow /\ rows'[h].controller = rows[h].controller
           /\ rows[h].left \in Nat /\ rows[h].left <= rows'[h].left
           /\ rows'[h].pending \subseteq rows[h].pending
<1>1. rows[h].left \in Nat /\ rows[h].left <= Ttl /\ Ttl \in Nat
  BY RowOf, ConstantsAssumption
<1> QED
  BY <1>1 DEF Ages

\* What a step of the Hub does to rows and queues, whether it tells anything.
LEMMA HubStepElements ==
    ASSUME Typed, HubStep
    PROVE  /\ \A h \in HandleIds : rows[h] # NoRow =>
                /\ rows'[h] # NoRow /\ rows'[h].controller = rows[h].controller
                /\ rows[h].left \in Nat /\ rows[h].left <= rows'[h].left
                /\ rows'[h].pending \subseteq rows[h].pending
           /\ \A n \in Nodes : \A i \in DOMAIN commands'[n] :
                \/ i \in DOMAIN commands[n] /\ commands'[n][i] = commands[n][i]
                \/ \E told : HubMoves(told) /\ Issued(n, told, commands'[n][i])
           /\ \A n \in Nodes : \A i \in DOMAIN messages'[n] :
                \E j \in DOMAIN messages[n] : messages'[n][i] = messages[n][j]
           /\ arm' = arm /\ source' = source /\ missed \subseteq missed'
<1>1. ASSUME NEW h \in HandleIds, rows[h] # NoRow
      PROVE  /\ rows'[h] # NoRow /\ rows'[h].controller = rows[h].controller
             /\ rows[h].left \in Nat /\ rows[h].left <= rows'[h].left
             /\ rows'[h].pending \subseteq rows[h].pending
  <2>1. rows[h].left \in Nat
    BY <1>1, RowOf, ConstantsAssumption
  <2> QED
    BY <1>1, <2>1, AgedRow DEF HubStep, HubMoves
<1>2. ASSUME NEW n \in Nodes, NEW i \in DOMAIN commands'[n]
      PROVE  \/ i \in DOMAIN commands[n] /\ commands'[n][i] = commands[n][i]
             \/ \E told : HubMoves(told) /\ Issued(n, told, commands'[n][i])
  <2>1. ASSUME NEW told, HubMoves(told)
        PROVE  \/ i \in DOMAIN commands[n] /\ commands'[n][i] = commands[n][i]
               \/ Issued(n, told, commands'[n][i])
    <3>1. told \in [Nodes -> Seq(CommandSet)] /\ Tell(told)
      BY <2>1 DEF HubMoves
    <3> QED
      BY <2>1, <3>1, TellElements DEF HubMoves
  <2> QED
    BY <2>1 DEF HubStep
<1>3. ASSUME NEW n \in Nodes, NEW i \in DOMAIN messages'[n]
      PROVE  \E j \in DOMAIN messages[n] : messages'[n][i] = messages[n][j]
  <2>1. messages[n] \in Seq(WordSet)
    BY DEF Typed, WordType
  <2>2. Shrinks(messages'[n], messages[n])
    BY DEF HubStep, HubListens, Typed, WordType, Shrinks
  <2> QED
    BY <2>1, <2>2, ShrinksElements
<1>4. missed \subseteq missed'
  BY DEF HubStep, HubMoves, Tell
<1> QED
  BY <1>1, <1>2, <1>3, <1>4 DEF HubStep

\* Where a command is in a queue after a step of a Node, it was before.
LEMMA NodeMovesElements ==
    ASSUME Typed, NodeMoves
    PROVE  \A n \in Nodes : \A i \in DOMAIN commands'[n] :
             \E j \in DOMAIN commands[n] : commands'[n][i] = commands[n][j]
  BY ShrinksElements DEF NodeMoves, Typed, CommandType

LEMMA CommandOf ==
    ASSUME Typed, NEW n \in Nodes, NEW i \in DOMAIN commands[n]
    PROVE  /\ commands[n][i] \in CommandSet /\ commands[n][i].handle \in HandleIds
           /\ commands[n][i].left \in Nat /\ commands[n][i].left \in 0 .. Ttl
<1>1. commands[n] \in Seq(CommandSet)
  BY DEF Typed, CommandType
<1>2. commands[n][i] \in CommandSet
  BY <1>1
<1> QED
  BY <1>2, ConstantsAssumption DEF CommandSet

LEMMA WordOf ==
    ASSUME Typed, NEW n \in Nodes, NEW i \in DOMAIN messages[n]
    PROVE  /\ messages[n][i] \in WordSet
           /\ messages[n][i].kind # "register" => messages[n][i].handle \in HandleIds
<1>1. messages[n] \in Seq(WordSet)
  BY DEF Typed, WordType
<1>2. messages[n][i] \in WordSet
  BY <1>1
<1> QED
  BY <1>2 DEF WordSet

-----------------------------------------------------------------------------
(* Who has and who hears of a Handle, and for how long.                    *)

CommandKnown(n, k) ==
    rows[k.handle] # NoRow /\ n \in Parties(k.handle) /\ k.left <= rows[k.handle].left

WordsOf(n) ==
    IF n = Robot THEN {"register", "robot_ready", "robot_holding"}
    ELSE {"register", "take_over_requested", "controller_streaming", "hand_over_requested"}

WordKnown(n, w) ==
    /\ w.kind \in WordsOf(n)
    /\ w.kind # "register" => rows[w.handle] # NoRow /\ n \in Parties(w.handle)

ArmKnown ==
    /\ arm.handle # NoHandle =>
         /\ rows[arm.handle] # NoRow /\ arm.left <= rows[arm.handle].left
         /\ arm.handle \notin arm.ended
    /\ arm.handle = NoHandle => ~arm.input

SourceKnown(c) ==
    /\ source[c].handle # NoHandle =>
         /\ rows[source[c].handle] # NoRow /\ rows[source[c].handle].controller = c
         /\ source[c].left <= rows[source[c].handle].left /\ source[c].handle \notin source[c].ended
    /\ source[c].handle = NoHandle => source[c].control # "STREAMING"

PendingKnown(h) == rows[h] # NoRow => rows[h].pending \subseteq Parties(h)

\* Whatever names a Handle, in a Node or under way, names one that the Hub has
\* given out to that Node, and no validity exceeds the Hub's.
Known ==
    /\ \A n \in Nodes : \A i \in DOMAIN commands[n] : CommandKnown(n, commands[n][i])
    /\ \A n \in Nodes : \A i \in DOMAIN messages[n] : WordKnown(n, messages[n][i])
    /\ ArmKnown /\ \A c \in Controllers : SourceKnown(c)
    /\ \A h \in HandleIds : PendingKnown(h)

LEMMA KnownInit == Init => Known
  BY ConstantsAssumption
     DEF Init, Known, ArmKnown, SourceKnown, PendingKnown, Nothing

LEMMA KnownHubStep == ASSUME Typed, Known, HubStep PROVE Known'
<1>1. /\ \A h \in HandleIds : rows[h] # NoRow =>
           /\ rows'[h] # NoRow /\ rows'[h].controller = rows[h].controller
           /\ rows[h].left \in Nat /\ rows[h].left <= rows'[h].left
           /\ rows'[h].pending \subseteq rows[h].pending
      /\ arm' = arm /\ source' = source /\ Typed'
  BY HubStepElements, HubStepType
<1>2. \A h \in HandleIds : rows'[h] # NoRow => rows'[h].left \in Nat
  BY <1>1, ConstantsAssumption DEF Typed, HubType, Row
<1>3. ASSUME NEW n \in Nodes, NEW i \in DOMAIN commands'[n]
      PROVE  CommandKnown(n, commands[n][i])'
  <2> DEFINE k == commands'[n][i]
  <2>1. CASE i \in DOMAIN commands[n] /\ k = commands[n][i]
    <3>1. CommandKnown(n, commands[n][i])
      BY <2>1 DEF Known
    <3>2. commands[n][i].handle \in HandleIds /\ commands[n][i].left \in Nat
      BY <2>1, CommandOf
    <3> QED
      BY <1>1, <1>2, <2>1, <3>1, <3>2 DEF CommandKnown, Parties
  <2>2. ASSUME NEW told, HubMoves(told), Issued(n, told, k)
        PROVE  CommandKnown(n, commands[n][i])'
    <3>1. k.handle \in HandleIds /\ k.left \in Nat
      <4>1. k \in CommandSet
        BY <1>1 DEF Typed, CommandType
      <4> QED
        BY <4>1, ConstantsAssumption DEF CommandSet
    <3>2. rows'[k.handle] # NoRow /\ k.left = rows'[k.handle].left
      BY <2>2 DEF Issued
    <3>3. n \in {Robot, rows'[k.handle].controller}
      <4>1. CASE k.kind = "grant" /\ rows[k.handle] = NoRow
        BY <2>2, <4>1 DEF Issued
      <4>2. CASE k.kind = "grant" /\ rows[k.handle] # NoRow
        <5>1. n \in rows[k.handle].pending
          BY <2>2, <4>2 DEF Issued
        <5>2. n \in Parties(k.handle)
          BY <3>1, <4>2, <5>1 DEF Known, PendingKnown
        <5> QED
          BY <1>1, <3>1, <4>2, <5>2 DEF Parties
      <4>3. CASE k.kind # "grant"
        BY <1>1, <2>2, <3>1, <4>3 DEF Issued, Parties
      <4> QED
        BY <4>1, <4>2, <4>3
    <3> HIDE DEF k
    <3>4. k.left <= rows'[k.handle].left
      BY <3>1, <3>2
    <3> QED
      BY <3>2, <3>3, <3>4 DEF CommandKnown, Parties, k
  <2> QED
    BY <2>1, <2>2, HubStepElements
<1>4. ASSUME NEW n \in Nodes, NEW i \in DOMAIN messages'[n]
      PROVE  WordKnown(n, messages[n][i])'
  <2>1. PICK j \in DOMAIN messages[n] : messages'[n][i] = messages[n][j]
    BY HubStepElements
  <2>2. WordKnown(n, messages[n][j])
    BY DEF Known
  <2>3. messages[n][j].kind # "register" => messages[n][j].handle \in HandleIds
    BY WordOf
  <2> QED
    BY <1>1, <2>1, <2>2, <2>3 DEF WordKnown, WordsOf, Parties
<1>5. ArmKnown'
  <2>1. arm.handle \in HandleIds \cup {NoHandle} /\ arm.left \in Nat
    BY ConstantsAssumption DEF Typed, NodeType, ArmSet
  <2> QED
    BY <1>1, <1>2, <2>1 DEF Known, ArmKnown
<1>6. ASSUME NEW c \in Controllers PROVE SourceKnown(c)'
  <2>1. source[c].handle \in HandleIds \cup {NoHandle} /\ source[c].left \in Nat
    BY ConstantsAssumption DEF Typed, NodeType, SourceSet
  <2> QED
    BY <1>1, <1>2, <2>1 DEF Known, SourceKnown
<1>7. ASSUME NEW h \in HandleIds PROVE PendingKnown(h)'
  <2>1. CASE rows[h] # NoRow
    BY <1>1, <2>1 DEF Known, PendingKnown, Parties
  <2>2. CASE rows[h] = NoRow
    BY <2>2 DEF HubStep, HubMoves, Ages, PendingKnown, Parties
  <2> QED
    BY <2>1, <2>2
<1> QED
  BY <1>3, <1>4, <1>5, <1>6, <1>7 DEF Known

LEMMA KnownNodeMoves == ASSUME Typed, Known, NodeMoves PROVE Known'
<1>1. rows' = rows /\ ArmMoves /\ \A c \in Controllers : SourceMoves(c)
  BY DEF NodeMoves
<1>2. ASSUME NEW n \in Nodes, NEW i \in DOMAIN commands'[n]
      PROVE  CommandKnown(n, commands[n][i])'
  <2>1. PICK j \in DOMAIN commands[n] : commands'[n][i] = commands[n][j]
    BY NodeMovesElements
  <2>2. CommandKnown(n, commands[n][j])
    BY DEF Known
  <2> QED
    BY <1>1, <2>1, <2>2 DEF CommandKnown, Parties
<1>3. ASSUME NEW n \in Nodes, NEW i \in DOMAIN messages'[n]
      PROVE  WordKnown(n, messages[n][i])'
  <2> DEFINE w == messages'[n][i]
  <2>1. MayBeSaid(n, w)
    BY DEF NodeMoves
  <2> HIDE DEF w
  <2>2. ASSUME NEW j \in DOMAIN messages[n], w = messages[n][j]
        PROVE  WordKnown(n, w)
    BY <2>2 DEF Known
  <2>3. ASSUME n = Robot, RobotSays(w)
        PROVE  WordKnown(n, w)
    BY <2>3, ConstantsAssumption
       DEF RobotSays, Known, ArmKnown, WordKnown, WordsOf, Parties
  <2>4. ASSUME n \in Controllers, ControllerSays(n, w)
        PROVE  WordKnown(n, w)
    BY <2>4, ConstantsAssumption
       DEF ControllerSays, Known, SourceKnown, WordKnown, WordsOf, Parties
  <2>5. WordKnown(n, w)
    BY <2>1, <2>2, <2>3, <2>4 DEF MayBeSaid, WordKnown, WordsOf
  <2> QED
    BY <1>1, <2>5 DEF w, WordKnown, WordsOf, Parties
<1>4. Robot \in Nodes
  BY DEF Nodes
<1>5. ArmKnown'
  <2>1. CASE arm'.handle = arm.handle /\ arm'.ended = arm.ended
             /\ (arm'.left = arm.left
                 \/ \E i \in DOMAIN commands[Robot] :
                      commands[Robot][i].handle = arm.handle /\ arm'.left = commands[Robot][i].left)
             /\ (arm'.input => arm.input \/ arm.handle \in HandleIds)
    BY <1>1, <1>4, <2>1, ConstantsAssumption DEF Known, ArmKnown, CommandKnown
  <2>2. CASE arm'.handle = NoHandle /\ ~arm'.input
    BY <2>2 DEF ArmKnown
  <2>3. CASE /\ arm.handle = NoHandle /\ arm'.ended = arm.ended /\ arm'.input = arm.input
             /\ arm'.handle \notin arm.ended
             /\ \E i \in DOMAIN commands[Robot] :
                  commands[Robot][i].handle = arm'.handle /\ arm'.left = commands[Robot][i].left
    BY <1>1, <1>4, <2>3, ConstantsAssumption DEF Known, ArmKnown, CommandKnown
  <2> QED
    BY <1>1, <2>1, <2>2, <2>3 DEF ArmMoves
<1>6. ASSUME NEW c \in Controllers PROVE SourceKnown(c)'
  <2>1. c \in Nodes /\ c # Robot /\ SourceKnown(c) /\ SourceMoves(c)
    BY <1>1, ConstantsAssumption DEF Nodes, Known
  <2>2. CASE source'[c].handle = source[c].handle /\ source'[c].ended = source[c].ended
             /\ (source'[c].left = source[c].left
                 \/ \E i \in DOMAIN commands[c] :
                      commands[c][i].handle = source[c].handle /\ source'[c].left = commands[c][i].left)
             /\ (source'[c].control = "STREAMING" =>
                   source[c].control = "STREAMING" \/ source[c].handle \in HandleIds)
    BY <1>1, <2>1, <2>2, ConstantsAssumption DEF Known, SourceKnown, CommandKnown
  <2>3. CASE source'[c].handle = NoHandle /\ source'[c].control = "IDLE"
    BY <2>3 DEF SourceKnown
  <2>4. CASE /\ source[c].handle = NoHandle /\ source'[c].ended = source[c].ended
             /\ source'[c].control = "IDLE" /\ source'[c].handle \notin source[c].ended
             /\ \E i \in DOMAIN commands[c] :
                  commands[c][i].handle = source'[c].handle /\ source'[c].left = commands[c][i].left
    BY <1>1, <2>1, <2>4 DEF Known, SourceKnown, CommandKnown, Parties
  <2> QED
    BY <2>1, <2>2, <2>3, <2>4 DEF SourceMoves
<1>7. \A h \in HandleIds : PendingKnown(h)'
  BY <1>1 DEF Known, PendingKnown, Parties
<1> QED
  BY <1>2, <1>3, <1>5, <1>6, <1>7 DEF Known

LEMMA KnownTick == ASSUME Typed, Known, Tick PROVE Known'
<1>1. ASSUME NEW h \in HandleIds, rows[h] # NoRow
      PROVE  /\ rows'[h] # NoRow /\ rows'[h].controller = rows[h].controller
             /\ rows'[h].pending = rows[h].pending /\ rows[h].left \in Nat
             /\ rows'[h].left = Later(rows[h].left)
  BY <1>1, TickParts, RowOf, ConstantsAssumption
<1>2. ASSUME NEW n \in Nodes, NEW i \in DOMAIN commands'[n]
      PROVE  CommandKnown(n, commands[n][i])'
  <2>1. i \in DOMAIN commands[n]
    BY TickParts
  <2>2. CommandKnown(n, commands[n][i]) /\ commands[n][i].handle \in HandleIds
        /\ commands[n][i].left \in Nat
    BY <2>1, CommandOf DEF Known
  <2>3. /\ commands'[n][i].handle = commands[n][i].handle
        /\ commands'[n][i].left = Later(commands[n][i].left)
    BY <2>1, TickParts
  <2> QED
    BY <1>1, <2>2, <2>3, LaterIsMonotonic DEF CommandKnown, Parties
<1>3. ASSUME NEW n \in Nodes, NEW i \in DOMAIN messages'[n]
      PROVE  WordKnown(n, messages[n][i])'
  <2>1. messages' = messages
    BY TickParts
  <2>2. WordKnown(n, messages[n][i])
    BY <2>1 DEF Known
  <2>3. messages[n][i].kind # "register" => messages[n][i].handle \in HandleIds
    BY <2>1, WordOf
  <2> QED
    BY <1>1, <2>1, <2>2, <2>3 DEF WordKnown, WordsOf, Parties
<1>4. ArmKnown'
  <2>1. arm.handle \in HandleIds \cup {NoHandle} /\ arm.left \in Nat
    BY ConstantsAssumption DEF Typed, NodeType, ArmSet
  <2> QED
    BY <1>1, <2>1, TickParts, LaterIsMonotonic DEF Known, ArmKnown
<1>5. ASSUME NEW c \in Controllers PROVE SourceKnown(c)'
  <2>1. source[c].handle \in HandleIds \cup {NoHandle} /\ source[c].left \in Nat
    BY ConstantsAssumption DEF Typed, NodeType, SourceSet
  <2> QED
    BY <1>1, <2>1, TickParts, LaterIsMonotonic DEF Known, SourceKnown
<1>6. \A h \in HandleIds : PendingKnown(h)'
  BY <1>1, TickParts DEF Known, PendingKnown, Parties
<1> QED
  BY <1>2, <1>3, <1>4, <1>5, <1>6 DEF Known

LEMMA KnownStep == Typed /\ Known /\ [Next]_vars => Known'
  BY Moves, KnownHubStep, KnownNodeMoves, KnownTick

-----------------------------------------------------------------------------
(* How far a Handle has come, as the Robot has seen it.                    *)

\* An expired Handle has no validity left to lend; a Handle whose end the Hub has
\* confirmed, the Robot has given up for good.
RowProgress(h) ==
    rows[h] # NoRow =>
      /\ rows[h].state = "EXPIRED" => rows[h].left = 0
      /\ rows[h].state \in {"RELEASED", "REVOKED"} => h \in arm.ended

\* Only a Handle that is taken over opens the input, which the Robot is told by
\* the Hub alone; and it says that it holds only of a Handle that it has given up.
Progress ==
    /\ \A h \in HandleIds : RowProgress(h)
    /\ \A i \in DOMAIN commands[Robot] : commands[Robot][i].kind = "take_over" =>
         rows[commands[Robot][i].handle].state # "ASSIGNED"
    /\ arm.input => rows[arm.handle].state # "ASSIGNED"
    /\ \A i \in DOMAIN messages[Robot] : messages[Robot][i].kind = "robot_holding" =>
         messages[Robot][i].handle \in arm.ended

LEMMA ProgressInit == Init => Progress
  BY DEF Init, Progress, RowProgress, Nothing, Nodes

\* Only the Robot says that it holds, and only a Controller that it lets go.
LEMMA SpokenBy ==
    ASSUME Known, NEW h \in HandleIds
    PROVE  /\ Spoken("robot_holding", h) => Carries(messages[Robot], "robot_holding", h)
           /\ Spoken("robot_ready", h) => Carries(messages[Robot], "robot_ready", h)
           /\ \A kind \in {"take_over_requested", "hand_over_requested"} : Spoken(kind, h) =>
                /\ rows[h] # NoRow
                /\ Carries(messages[rows[h].controller], kind, h)
<1>1. ASSUME NEW n \in Nodes, NEW i \in DOMAIN messages[n], messages[n][i].handle = h
      PROVE  /\ messages[n][i].kind \in {"robot_holding", "robot_ready"} => n = Robot
             /\ messages[n][i].kind \in {"take_over_requested", "hand_over_requested"} =>
                  rows[h] # NoRow /\ n = rows[h].controller
  <2>1. WordKnown(n, messages[n][i])
    BY DEF Known
  <2> QED
    BY <1>1, <2>1 DEF WordKnown, WordsOf, Parties
<1> QED
  BY <1>1 DEF Spoken, Carries

LEMMA ProgressHubStep == ASSUME Typed, Known, Progress, HubStep PROVE Progress'
<1>1. /\ \A h \in HandleIds : rows[h] # NoRow => rows'[h] # NoRow
      /\ arm' = arm /\ Robot \in Nodes /\ Typed'
  BY HubStepElements, HubStepType DEF Nodes
<1>2. ASSUME NEW h \in HandleIds
      PROVE  /\ RowProgress(h)'
             /\ rows[h] # NoRow /\ rows[h].state # "ASSIGNED" => rows'[h].state # "ASSIGNED"
  <2>1. CASE rows' = rows
    BY <1>1, <2>1 DEF Progress, RowProgress
  <2>2. ASSUME NEW told, HubMoves(told)
        PROVE  /\ RowProgress(h)'
               /\ rows[h] # NoRow /\ rows[h].state # "ASSIGNED" => rows'[h].state # "ASSIGNED"
    <3>1. Ages(h, told) /\ RowProgress(h)
      BY <2>2 DEF HubMoves, Progress
    <3>2. Spoken("robot_holding", h) => h \in arm.ended
      BY SpokenBy DEF Progress, Carries
    <3> QED
      BY <1>1, <3>1, <3>2 DEF Ages, RowProgress
  <2> QED
    BY <2>1, <2>2 DEF HubStep
<1>3. ASSUME NEW i \in DOMAIN commands'[Robot], commands'[Robot][i].kind = "take_over"
      PROVE  rows'[commands'[Robot][i].handle].state # "ASSIGNED"
  <2>1. CASE i \in DOMAIN commands[Robot] /\ commands'[Robot][i] = commands[Robot][i]
    <3>1. CommandKnown(Robot, commands[Robot][i]) /\ commands[Robot][i].handle \in HandleIds
      BY <1>1, <2>1, CommandOf DEF Known
    <3>2. rows[commands[Robot][i].handle].state # "ASSIGNED"
      BY <1>3, <2>1 DEF Progress
    <3> QED
      BY <1>2, <2>1, <3>1, <3>2 DEF CommandKnown
  <2>2. CASE \E told : HubMoves(told) /\ Issued(Robot, told, commands'[Robot][i])
    BY <1>3, <2>2 DEF Issued
  <2> QED
    BY <1>1, <2>1, <2>2, HubStepElements
<1>4. arm'.input => rows'[arm'.handle].state # "ASSIGNED"
  <2>1. arm.handle \in HandleIds \cup {NoHandle}
    BY DEF Typed, NodeType, ArmSet
  <2> QED
    BY <1>1, <1>2, <2>1 DEF Progress, Known, ArmKnown
<1>5. \A i \in DOMAIN messages'[Robot] : messages'[Robot][i].kind = "robot_holding" =>
        messages'[Robot][i].handle \in arm'.ended
  BY <1>1, HubStepElements DEF Progress
<1> QED
  BY <1>2, <1>3, <1>4, <1>5 DEF Progress

LEMMA ProgressNodeMoves == ASSUME Typed, Known, Progress, NodeMoves PROVE Progress'
<1>1. rows' = rows /\ ArmMoves /\ Robot \in Nodes /\ Robot \notin Controllers
  BY ConstantsAssumption DEF NodeMoves, Nodes
<1>2. arm.ended \subseteq arm'.ended
  BY <1>1 DEF ArmMoves
<1>3. \A h \in HandleIds : RowProgress(h)'
  BY <1>1, <1>2 DEF Progress, RowProgress
<1>4. \A i \in DOMAIN commands'[Robot] : commands'[Robot][i].kind = "take_over" =>
        rows'[commands'[Robot][i].handle].state # "ASSIGNED"
  BY <1>1, NodeMovesElements DEF Progress
<1>5. arm'.input => rows'[arm'.handle].state # "ASSIGNED"
  <2>1. CASE /\ arm'.handle = arm.handle
             /\ arm'.input => arm.input \/ Carries(commands[Robot], "take_over", arm.handle)
    BY <1>1, <2>1 DEF Progress, Carries
  <2>2. CASE ~arm'.input
    BY <2>2
  <2>3. CASE arm.handle = NoHandle /\ arm'.input = arm.input
    BY <2>3 DEF Known, ArmKnown
  <2> QED
    BY <1>1, <2>1, <2>2, <2>3 DEF ArmMoves
<1>6. ASSUME NEW i \in DOMAIN messages'[Robot], messages'[Robot][i].kind = "robot_holding"
      PROVE  messages'[Robot][i].handle \in arm'.ended
  <2>1. MayBeSaid(Robot, messages'[Robot][i])
    BY <1>1 DEF NodeMoves
  <2> QED
    BY <1>1, <1>2, <1>6, <2>1 DEF MayBeSaid, RobotSays, Progress
<1> QED
  BY <1>3, <1>4, <1>5, <1>6 DEF Progress

LEMMA ProgressTick == ASSUME Typed, Known, Progress, Tick PROVE Progress'
<1>1. ASSUME NEW h \in HandleIds, rows[h] # NoRow
      PROVE  /\ rows'[h] # NoRow /\ rows'[h].state = rows[h].state
             /\ rows[h].left = 0 => rows'[h].left = 0
  BY <1>1, TickParts, RowOf, LaterIsMonotonic, ConstantsAssumption
<1>2. /\ arm'.input = arm.input /\ arm'.handle = arm.handle /\ arm'.ended = arm.ended
      /\ messages' = messages /\ Robot \in Nodes
      /\ \A h \in HandleIds : rows[h] = NoRow => rows'[h] = NoRow
  BY TickParts DEF Nodes
<1>3. \A h \in HandleIds : RowProgress(h)'
  BY <1>1, <1>2 DEF Progress, RowProgress
<1>4. ASSUME NEW i \in DOMAIN commands'[Robot], commands'[Robot][i].kind = "take_over"
      PROVE  rows'[commands'[Robot][i].handle].state # "ASSIGNED"
  <2>1. /\ i \in DOMAIN commands[Robot] /\ commands'[Robot][i].kind = commands[Robot][i].kind
        /\ commands'[Robot][i].handle = commands[Robot][i].handle
    BY <1>2, TickParts
  <2>2. CommandKnown(Robot, commands[Robot][i]) /\ commands[Robot][i].handle \in HandleIds
    BY <1>2, <2>1, CommandOf DEF Known
  <2> QED
    BY <1>1, <1>4, <2>1, <2>2 DEF Progress, CommandKnown
<1>5. arm'.input => rows'[arm'.handle].state # "ASSIGNED"
  <2>1. arm.handle \in HandleIds \cup {NoHandle}
    BY DEF Typed, NodeType, ArmSet
  <2> QED
    BY <1>1, <1>2, <2>1 DEF Progress, Known, ArmKnown
<1> QED
  BY <1>2, <1>3, <1>4, <1>5 DEF Progress

LEMMA LeaseOfProgress == ASSUME Typed, Known, Progress PROVE InputUnderLease
<1>1. arm.handle \in HandleIds \cup {NoHandle} /\ arm.left \in Nat
  BY ConstantsAssumption DEF Typed, NodeType, ArmSet
<1>2. NeverOutlives
  BY DEF NeverOutlives, Known, ArmKnown, SourceKnown
<1>3. InputUnderLiveHandle
  <2> SUFFICES ASSUME arm.input, ~RobotExpired
               PROVE  rows[arm.handle].state \notin {"ASSIGNED", "RELEASED", "REVOKED", "EXPIRED"}
    BY DEF InputUnderLiveHandle
  <2>1. /\ arm.handle \in HandleIds /\ rows[arm.handle] # NoRow
        /\ arm.left <= rows[arm.handle].left /\ arm.handle \notin arm.ended
    BY <1>1 DEF Known, ArmKnown
  <2>2. RowProgress(arm.handle)
    BY <2>1 DEF Progress
  <2> QED
    BY <1>1, <2>1, <2>2 DEF RowProgress, Progress, RobotExpired
<1> QED
  BY <1>2, <1>3 DEF InputUnderLease

LEMMA ProgressStep == Typed /\ Known /\ Progress /\ [Next]_vars => Progress'
  BY Moves, ProgressHubStep, ProgressNodeMoves, ProgressTick

\* Between any number of Nodes, with every message that may be late or lost: the
\* input of the Robot is open only under a Handle that the Hub let be taken over
\* and has not ended, and no Node holds a Handle to be valid for longer than the Hub.
THEOREM LeaseHolds == Spec => []InputUnderLease
<1>1. Init => Typed /\ Known /\ Progress
  BY InitTyped, KnownInit, ProgressInit
<1>2. Typed /\ Known /\ Progress /\ [Next]_vars => (Typed /\ Known /\ Progress)'
  BY TypedStep, KnownStep, ProgressStep
<1>3. Spec => [](Typed /\ Known /\ Progress)
  BY <1>1, <1>2, PTL DEF Spec
<1>4. Typed /\ Known /\ Progress => InputUnderLease
  BY LeaseOfProgress
<1> QED
  BY <1>3, <1>4, PTL

-----------------------------------------------------------------------------
(* What a step does to the queue of a Controller, in order.                *)

\* The places of what the Hub has told Controller c in this step.
New(c) == DOMAIN commands'[c] \ DOMAIN commands[c]

LEMMA NewCommands ==
    ASSUME Typed, NEW told, HubMoves(told), NEW c \in Controllers
    PROVE  /\ \A i \in DOMAIN commands[c] :
                i \in DOMAIN commands'[c] /\ commands'[c][i] = commands[c][i]
           /\ \A i \in New(c) :
                /\ Issued(c, told, commands'[c][i])
                /\ \A j \in DOMAIN commands[c] : j < i
                /\ \A j \in New(c) : j = i
           /\ \A kind, h : Carries(told[c], kind, h) =>
                \/ <<c, h>> \in missed'
                \/ \E i \in New(c) : commands'[c][i].kind = kind /\ commands'[c][i].handle = h
<1>1. /\ told \in [Nodes -> Seq(CommandSet)] /\ Tell(told) /\ c \in Nodes
      /\ DOMAIN told[c] \subseteq {1}
      /\ \A i \in DOMAIN told[c] : Issued(c, told, told[c][i])
  BY DEF HubMoves, Nodes
<1>2. /\ \A i \in DOMAIN commands[c] :
           i \in DOMAIN commands'[c] /\ commands'[c][i] = commands[c][i]
      /\ \A i \in DOMAIN commands'[c] :
           \/ i \in DOMAIN commands[c]
           \/ /\ \A j \in DOMAIN commands[c] : j < i
              /\ \E j \in DOMAIN told[c] : commands'[c][i] = told[c][j]
                                           /\ i = Len(commands[c]) + j
      /\ \/ \A j \in DOMAIN told[c] : \E i \in DOMAIN commands'[c] :
              commands'[c][i] = told[c][j] /\ i = Len(commands[c]) + j
         \/ \A j \in DOMAIN told[c] : <<c, told[c][j].handle>> \in missed'
  BY <1>1, TellElements
<1>3. commands[c] \in Seq(CommandSet)
  BY <1>1 DEF Typed, CommandType
<1>4. ASSUME NEW i \in New(c)
      PROVE  /\ Issued(c, told, commands'[c][i])
             /\ \A j \in DOMAIN commands[c] : j < i
             /\ i = Len(commands[c]) + 1
  <2>1. PICK j \in DOMAIN told[c] : commands'[c][i] = told[c][j] /\ i = Len(commands[c]) + j
    BY <1>2 DEF New
  <2>2. j = 1
    BY <1>1
  <2> QED
    BY <1>1, <1>2, <2>1, <2>2 DEF New
<1>5. ASSUME NEW kind, NEW h, Carries(told[c], kind, h), <<c, h>> \notin missed'
      PROVE  \E i \in New(c) : commands'[c][i].kind = kind /\ commands'[c][i].handle = h
  <2>1. PICK j \in DOMAIN told[c] : told[c][j].kind = kind /\ told[c][j].handle = h
    BY <1>5 DEF Carries
  <2>2. PICK i \in DOMAIN commands'[c] : commands'[c][i] = told[c][j] /\ i = Len(commands[c]) + j
    BY <1>2, <1>5, <2>1
  <2>3. i \notin DOMAIN commands[c]
    BY <1>1, <1>3, <2>2
  <2> QED
    BY <2>1, <2>2, <2>3 DEF New
<1> QED
  BY <1>2, <1>4, <1>5

\* What a step of the Hub makes of Handle h and of the queue of its Controller c.
Tells(c, h) ==
    /\ rows[h] # NoRow =>
         /\ c = rows[h].controller /\ rows'[h].pending \subseteq rows[h].pending
         /\ Ending(h) => rows'[h].state \in EndStates
         /\ \/ rows'[h].left = rows[h].left
            \/ /\ ~Ending(h)
               /\ \/ <<c, h>> \in missed'
                  \/ \E i \in New(c) :
                       commands'[c][i].kind = "renewal" /\ commands'[c][i].handle = h
    /\ \A i \in DOMAIN commands[c] :
         i \in DOMAIN commands'[c] /\ commands'[c][i] = commands[c][i]
    /\ \A i \in New(c) :
         /\ \A j \in DOMAIN commands[c] : j < i
         /\ \A j \in New(c) : j = i
         /\ commands'[c][i].handle = h =>
              /\ commands'[c][i].left = rows'[h].left
              /\ commands'[c][i].kind = "grant" =>
                   c \notin rows'[h].pending /\ (rows[h] = NoRow \/ c \in rows[h].pending)
              /\ commands'[c][i].kind # "grant" => rows[h] # NoRow
              /\ commands'[c][i].kind = "renewal" => ~Ending(h)
              /\ commands'[c][i].kind = "revoke" => rows'[h].state \in EndStates
              /\ commands'[c][i].kind = "robot_ready" => Carries(messages[Robot], "robot_ready", h)
    /\ Carries(commands'[Robot], "take_over", h) =>
         \/ Carries(commands[Robot], "take_over", h)
         \/ /\ rows[h] # NoRow /\ ~Ending(h)
            /\ Carries(messages[c], "take_over_requested", h)

LEMMA HubStepTells ==
    ASSUME Typed, Known, HubStep, NEW h \in HandleIds, rows'[h] # NoRow
    PROVE  Tells(rows'[h].controller, h)
<1> DEFINE c == rows'[h].controller
<1>1. c \in Controllers /\ Robot \in Nodes
  BY HubStepType, ConstantsAssumption DEF Typed, HubType, Row, Nodes
<1> HIDE DEF c
<1>2. CASE UNCHANGED <<rows, commands, missed, arm, source>>
  BY <1>2 DEF Tells, New, Ending, c
<1>3. ASSUME NEW told, HubMoves(told)
      PROVE  Tells(c, h)
  <2>1. Ages(h, told) /\ Tell(told) /\ told \in [Nodes -> Seq(CommandSet)]
    BY <1>3 DEF HubMoves
  <2>2. /\ \A i \in DOMAIN commands[c] :
             i \in DOMAIN commands'[c] /\ commands'[c][i] = commands[c][i]
        /\ \A i \in New(c) :
             /\ Issued(c, told, commands'[c][i])
             /\ \A j \in DOMAIN commands[c] : j < i
             /\ \A j \in New(c) : j = i
        /\ \A kind, g : Carries(told[c], kind, g) =>
             \/ <<c, g>> \in missed'
             \/ \E i \in New(c) : commands'[c][i].kind = kind /\ commands'[c][i].handle = g
    BY <1>1, <1>3, NewCommands
  <2>3. rows[h] # NoRow =>
          /\ c = rows[h].controller /\ rows'[h].pending \subseteq rows[h].pending
          /\ Ending(h) => rows'[h].state \in EndStates
          /\ \/ rows'[h].left = rows[h].left
             \/ ~Ending(h) /\ Carries(told[c], "renewal", h)
    BY <2>1 DEF Ages, Parties, c
  <2>4. ASSUME NEW i \in New(c), commands'[c][i].handle = h
        PROVE  /\ commands'[c][i].left = rows'[h].left
               /\ commands'[c][i].kind = "grant" =>
                    c \notin rows'[h].pending /\ (rows[h] = NoRow \/ c \in rows[h].pending)
               /\ commands'[c][i].kind # "grant" => rows[h] # NoRow
               /\ commands'[c][i].kind = "renewal" => ~Ending(h)
               /\ commands'[c][i].kind = "revoke" => rows'[h].state \in EndStates
               /\ commands'[c][i].kind = "robot_ready" => Carries(messages[Robot], "robot_ready", h)
    <3>1. Issued(c, told, commands'[c][i])
      BY <2>2
    <3> QED
      BY <2>4, <3>1, SpokenBy DEF Issued
  <2>5. ASSUME NEW i \in DOMAIN commands'[Robot], commands'[Robot][i].kind = "take_over",
               commands'[Robot][i].handle = h, ~Carries(commands[Robot], "take_over", h)
        PROVE  rows[h] # NoRow /\ ~Ending(h) /\ Carries(messages[c], "take_over_requested", h)
    <3>1. Issued(Robot, told, commands'[Robot][i])
      <4>1. \/ i \in DOMAIN commands[Robot] /\ commands'[Robot][i] = commands[Robot][i]
            \/ \E j \in DOMAIN told[Robot] : commands'[Robot][i] = told[Robot][j]
        BY <1>1, <2>1, TellElements
      <4>2. \A j \in DOMAIN told[Robot] : Issued(Robot, told, told[Robot][j])
        BY <1>1, <1>3 DEF HubMoves
      <4> QED
        BY <2>5, <4>1, <4>2 DEF Carries
    <3>2. rows[h] # NoRow /\ Spoken("take_over_requested", h) /\ ~Ending(h)
      BY <2>5, <3>1 DEF Issued, Ending, EndStates
    <3>3. Carries(messages[rows[h].controller], "take_over_requested", h)
      BY <3>2, SpokenBy
    <3> QED
      BY <2>3, <3>2, <3>3
  <2>6. Carries(commands'[Robot], "take_over", h) =>
          \/ Carries(commands[Robot], "take_over", h)
          \/ rows[h] # NoRow /\ ~Ending(h) /\ Carries(messages[c], "take_over_requested", h)
    BY <2>5 DEF Carries
  <2> QED
    BY <2>2, <2>3, <2>4, <2>6 DEF Tells
<1> QED
  BY <1>2, <1>3 DEF HubStep, c

\* A Controller goes on with its Handle, and begins to stream only when told that
\* the Robot is ready; or it gives the Handle up.
Kept(c) ==
    /\ source'[c].handle = source[c].handle /\ source'[c].left = source[c].left
    /\ source'[c].ended = source[c].ended
    /\ source'[c].control = "STREAMING" =>
         source[c].control = "STREAMING" \/ Carries(commands[c], "robot_ready", source[c].handle)

Gone(c) ==
    /\ source'[c].handle = NoHandle /\ source'[c].control = "IDLE"
    /\ source'[c].ended = source[c].ended \cup ({source[c].handle} \ {NoHandle})

\* What a Controller makes of the command at the head of its queue.
Hears(c, k) ==
    \/ /\ Kept(c)
       /\ k.kind = "revoke" => ~Matches(c, k) \/ k.left = 0
       /\ k.kind = "renewal" /\ source[c].handle = k.handle =>
            k.left <= source[c].left \/ k.left = 0
    \/ Gone(c)
    \/ /\ k.kind = "grant" /\ k.handle \notin source[c].ended /\ source[c].handle = NoHandle
       /\ source'[c].handle = k.handle /\ source'[c].left = k.left
       /\ source'[c].control = "IDLE" /\ source'[c].ended = source[c].ended
    \/ /\ k.kind = "renewal" /\ source[c].handle = k.handle /\ source'[c].handle = k.handle
       /\ source'[c].left = k.left /\ source'[c].control = source[c].control
       /\ source'[c].ended = source[c].ended

\* A Controller and the queue of its commands, in a step of any Node.
QueueMoves(c) ==
    \/ commands'[c] = commands[c] /\ (Kept(c) \/ Gone(c))
    \/ commands'[c] = <<>> /\ Gone(c)
    \/ /\ commands[c] # <<>> /\ commands'[c] = Tail(commands[c])
       /\ \/ Kept(c) /\ <<c, Head(commands[c]).handle>> \in missed'
          \/ Hears(c, Head(commands[c]))

LEMMA QueueStays ==
    ASSUME NEW c \in Controllers, commands'[c] = commands[c], source'[c] = source[c]
    PROVE  QueueMoves(c)
  BY DEF QueueMoves, Kept

LEMMA SilencedGone ==
    ASSUME Typed, NEW c \in Controllers, SourceBecomes(c, Silenced(c))
    PROVE  Gone(c)
  BY SourceFields, BecomesOne DEF Gone

LEMMA ControllerTakesHears ==
    ASSUME Typed, NEW c \in Controllers, NEW k \in CommandSet, commands[c] # <<>>,
           k = Head(commands[c]), ControllerTakes(c, k)
    PROVE  Hears(c, k)
<1>1. c \in Nodes /\ 1 \in DOMAIN commands[c] /\ commands[c][1] = k
  BY HeadCommand DEF Nodes
<1>2. k.handle \in HandleIds /\ k.request \in 0 .. MaxRequests /\ k.left \in 0 .. Ttl
      /\ 0 \in 0 .. MaxRequests /\ source[c] \in SourceSet
  BY ConstantsAssumption DEF CommandSet, Typed, NodeType
<1>3. CASE /\ source' = source /\ messages' = messages
           /\ k.kind = "revoke" => ~Matches(c, k) \/ k.left = 0
           /\ k.kind = "renewal" /\ source[c].handle = k.handle =>
                k.left <= source[c].left \/ k.left = 0
  BY <1>3 DEF Hears, Kept
<1>4. CASE /\ k.kind = "grant" /\ k.handle \notin source[c].ended /\ source[c].handle = NoHandle
           /\ SourceBecomes(c, [source[c] EXCEPT !.handle = k.handle, !.left = k.left,
                                                 !.control = "IDLE"])
  <2> DEFINE new == [source[c] EXCEPT !.handle = k.handle, !.left = k.left, !.control = "IDLE"]
  <2>1. /\ new \in SourceSet /\ new.handle = k.handle /\ new.left = k.left
        /\ new.control = "IDLE" /\ new.ended = source[c].ended
    BY <1>2 DEF SourceSet, ControllerControlState
  <2> HIDE DEF new
  <2>2. source'[c] = new
    BY <1>4, <2>1, BecomesOne DEF new
  <2> QED
    BY <1>4, <2>1, <2>2 DEF Hears
<1>5. CASE /\ k.kind = "renewal" /\ source[c].handle = k.handle
           /\ SourceBecomes(c, [source[c] EXCEPT !.left = k.left])
  <2> DEFINE new == [source[c] EXCEPT !.left = k.left]
  <2>1. /\ new \in SourceSet /\ new.handle = source[c].handle /\ new.left = k.left
        /\ new.control = source[c].control /\ new.ended = source[c].ended
    BY <1>2 DEF SourceSet
  <2> HIDE DEF new
  <2>2. source'[c] = new
    BY <1>5, <2>1, BecomesOne DEF new
  <2> QED
    BY <1>5, <2>1, <2>2 DEF Hears
<1>6. CASE k.kind = "take_over" /\ SourceBecomes(c, Asking(c, k.request))
  <2>1. source'[c] = Asking(c, k.request)
    BY <1>2, <1>6, AskingType, BecomesOne
  <2> QED
    BY <1>2, <1>6, <2>1, AskingType DEF Hears, Kept
<1>7. CASE /\ k.kind = "robot_ready" /\ Matches(c, k)
           /\ SourceBecomes(c, [source[c] EXCEPT !.control = "STREAMING", !.request = 0])
  <2> DEFINE new == [source[c] EXCEPT !.control = "STREAMING", !.request = 0]
  <2>1. /\ new \in SourceSet /\ new.handle = source[c].handle /\ new.left = source[c].left
        /\ new.ended = source[c].ended
    BY <1>2 DEF SourceSet, ControllerControlState
  <2> HIDE DEF new
  <2>2. source'[c] = new
    BY <1>7, <2>1, BecomesOne DEF new
  <2>3. Carries(commands[c], "robot_ready", source[c].handle)
    BY <1>1, <1>7 DEF Matches, Carries
  <2> QED
    BY <1>7, <2>1, <2>2, <2>3 DEF Hears, Kept
<1>8. CASE SourceBecomes(c, Silenced(c))
  BY <1>8, SilencedGone DEF Hears
<1> QED
  BY <1>3, <1>4, <1>5, <1>6, <1>7, <1>8 DEF ControllerTakes

\* Only one Controller and its queue move.
LEMMA OneQueueMoves ==
    ASSUME Typed, NEW c \in Controllers, NEW new \in SourceSet, SourceBecomes(c, new),
           QueueMoves(c), \A d \in Controllers \ {c} : commands'[d] = commands[d]
    PROVE  \A d \in Controllers : QueueMoves(d)
<1>1. \A d \in Controllers \ {c} : source'[d] = source[d]
  BY BecomesOne
<1> QED
  BY <1>1, QueueStays

LEMMA NodeStepQueues == ASSUME Typed, NodeStep PROVE \A c \in Controllers : QueueMoves(c)
<1>1. Robot \notin Controllers /\ Controllers \subseteq Nodes /\ commands \in [Nodes -> Seq(CommandSet)]
  BY ConstantsAssumption DEF Nodes, Typed, CommandType
<1>2. CASE RobotReceives
  BY <1>1, <1>2, QueueStays DEF RobotReceives
<1>3. CASE RobotExpires \/ InputFails \/ EnterSafety
  BY <1>3, QueueStays DEF RobotExpires, InputFails, EnterSafety, RobotAlone
<1>4. CASE RobotLost
  BY <1>1, <1>4, QueueStays DEF RobotLost, Renews
<1>5. ASSUME NEW c \in Controllers, ControllerReceives(c)
      PROVE  \A d \in Controllers : QueueMoves(d)
  <2> DEFINE k == Head(commands[c])
  <2>1. /\ c \in Nodes /\ commands[c] # <<>> /\ k \in CommandSet /\ ControllerTakes(c, k)
        /\ commands' = [commands EXCEPT ![c] = Tail(@)]
    BY <1>5, ControllerReceivesTakes
  <2>2. Hears(c, k)
    BY <2>1, ControllerTakesHears
  <2>3. /\ commands'[c] = Tail(commands[c])
        /\ \A d \in Controllers \ {c} : commands'[d] = commands[d]
    BY <1>1, <2>1
  <2>4. QueueMoves(c)
    BY <2>1, <2>2, <2>3 DEF QueueMoves
  <2>5. \A d \in Controllers \ {c} : source'[d] = source[d]
    BY <2>1 DEF ControllerTakes, SourceBecomes, Typed, NodeType
  <2> QED
    BY <2>3, <2>4, <2>5, QueueStays
<1>6. ASSUME NEW c \in Controllers, TakeOverCall(c)
      PROVE  \A d \in Controllers : QueueMoves(d)
  <2>1. /\ asked' \in 0 .. MaxRequests /\ SourceBecomes(c, Asking(c, asked'))
        /\ commands' = commands
    BY <1>6, TakeOverCallMade
  <2>2. PICK request \in 0 .. MaxRequests : request = asked'
    BY <2>1
  <2>3. Asking(c, request) \in SourceSet /\ SourceBecomes(c, Asking(c, request))
    BY <2>1, <2>2, AskingType
  <2>4. source'[c] = Asking(c, request)
    BY <2>3, BecomesOne
  <2>5. Kept(c)
    BY <2>2, <2>4, AskingType DEF Kept
  <2>6. QueueMoves(c)
    BY <2>1, <2>5 DEF QueueMoves
  <2> QED
    BY <2>1, <2>3, <2>6, OneQueueMoves
<1>7. ASSUME NEW c \in Controllers, HandOverCall(c) \/ ControllerExpires(c)
      PROVE  \A d \in Controllers : QueueMoves(d)
  <2>1. SourceBecomes(c, Silenced(c)) /\ commands' = commands
    BY <1>7 DEF HandOverCall, ControllerExpires
  <2>2. QueueMoves(c) /\ Silenced(c) \in SourceSet
    BY <2>1, SilencedGone, SourceFields DEF QueueMoves
  <2> QED
    BY <2>1, <2>2, OneQueueMoves
<1>8. ASSUME NEW c \in Controllers, ControllerLost(c)
      PROVE  \A d \in Controllers : QueueMoves(d)
  <2> DEFINE new == [Silenced(c) EXCEPT !.session = @ + 1]
  <2>1. c \in Nodes /\ Session(c) = source[c].session
    BY ConstantsAssumption DEF Nodes, Session
  <2>2. Renews(c, Session(c)) /\ SourceBecomes(c, new)
    BY <1>8, <2>1 DEF ControllerLost
  <2>3. source[c].session + 1 \in 1 .. MaxLosses + 1
    BY <2>1, <2>2, RenewsType
  <2>4. /\ new \in SourceSet /\ new.control = "IDLE" /\ new.handle = NoHandle
        /\ new.ended = source[c].ended \cup ({source[c].handle} \ {NoHandle})
    BY <2>3, SourceFields DEF SourceSet
  <2> HIDE DEF new
  <2>5. source'[c] = new
    BY <2>2, <2>4, BecomesOne
  <2>6. commands'[c] = <<>> /\ \A d \in Controllers \ {c} : commands'[d] = commands[d]
    BY <1>1, <2>2 DEF Renews
  <2>7. QueueMoves(c)
    BY <2>4, <2>5, <2>6 DEF QueueMoves, Gone
  <2> QED
    BY <2>2, <2>4, <2>6, <2>7, OneQueueMoves
<1> QED
  BY <1>2, <1>3, <1>4, <1>5, <1>6, <1>7, <1>8 DEF NodeStep

LEMMA LoseQueues ==
    ASSUME Typed, NEW n \in Nodes, Lose(n)
    PROVE  \A c \in Controllers : QueueMoves(c)
<1>1. commands \in [Nodes -> Seq(CommandSet)] /\ Controllers \subseteq Nodes
  BY DEF Typed, CommandType, Nodes
<1>2. /\ source' = source
      /\ \/ commands' = commands
         \/ /\ commands[n] # <<>> /\ commands' = [commands EXCEPT ![n] = Tail(@)]
            /\ missed' = missed \cup {<<n, Head(commands[n]).handle>>}
  BY LoseParts
<1>3. \A c \in Controllers : Kept(c)
  BY <1>2 DEF Kept
<1> QED
  BY <1>1, <1>2, <1>3 DEF QueueMoves

\* Every step, with what it does to the queues of the Controllers.
LEMMA ChainMoves ==
    ASSUME Typed, [Next]_vars
    PROVE  \/ HubStep
           \/ NodeMoves /\ \A c \in Controllers : QueueMoves(c)
           \/ Tick
  BY Steps, NodeStepMoves, LoseMoves, NodeStepQueues, LoseQueues

-----------------------------------------------------------------------------
(* What is under way to the Controller of a Handle, in order.              *)

Has(c, h) == rows[h] # NoRow /\ rows[h].controller = c

\* The Robot has not been asked to take over under the Handle, and will not be by
\* what is under way: Controller c has no occasion to stream.
Unasked(c, h) ==
    /\ ~Carries(commands[Robot], "take_over", h)
    /\ ~Carries(messages[Robot], "robot_ready", h)
    /\ ~Carries(commands[c], "robot_ready", h)
    /\ ~(source[c].handle = h /\ source[c].control = "STREAMING")

\* While the grant is still to be sent, the Controller knows nothing of the Handle.
PendingChain(c, h) ==
    c \in rows[h].pending =>
      /\ Unasked(c, h) /\ source[c].handle # h
      /\ ~Carries(messages[c], "take_over_requested", h)
      /\ ~Carries(commands[c], "grant", h)

\* A Handle is granted once, and not while it is held.
GrantChain(c, h) ==
    \A i \in DOMAIN commands[c] : commands[c][i].kind = "grant" /\ commands[c][i].handle = h =>
      /\ source[c].handle # h
      /\ \A j \in DOMAIN commands[c] :
           commands[c][j].kind = "grant" /\ commands[c][j].handle = h => j = i

\* A revoke names the validity as the Hub has it, which is not renewed any more;
\* only a grant that nobody can act on comes behind it.
RevokeChain(c, h) ==
    \A i \in DOMAIN commands[c] : commands[c][i].kind = "revoke" /\ commands[c][i].handle = h =>
      /\ Ending(h) /\ commands[c][i].left = rows[h].left
      /\ \A j \in DOMAIN commands[c] : j > i /\ commands[c][j].handle = h =>
           /\ commands[c][j].kind # "renewal"
           /\ commands[c][j].kind = "grant" => Unasked(c, h)

\* A command that gives a Node the validity of Handle h.
Lends(k, h) == k.handle = h /\ k.kind \in {"grant", "renewal"}

Unlent(c, h) == \A i \in DOMAIN commands[c] : ~Lends(commands[c][i], h)

LentLast(c, h, j) ==
    /\ Lends(commands[c][j], h)
    /\ \A i \in DOMAIN commands[c] : i > j => ~Lends(commands[c][i], h)

\* Unless it misses a message, the last that a Controller hears of the validity of
\* a Handle is what the Hub has.
LeaseChain(c, h) ==
    <<c, h>> \notin missed =>
      /\ \A j \in DOMAIN commands[c] : LentLast(c, h, j) => commands[c][j].left = rows[h].left
      /\ source[c].handle = h /\ Unlent(c, h) => source[c].left = rows[h].left

ChainOf(c, h) == PendingChain(c, h) /\ GrantChain(c, h) /\ RevokeChain(c, h) /\ LeaseChain(c, h)

Chain == \A c \in Controllers, h \in HandleIds : Has(c, h) => ChainOf(c, h)

LEMMA ChainInit == Init => Chain
  BY DEF Init, Chain, Has

\* Nothing names a Handle that is not given out.
LEMMA Unheard ==
    ASSUME Known, NEW h \in HandleIds, rows[h] = NoRow, NEW c \in Controllers
    PROVE  /\ \A n \in Nodes : \A i \in DOMAIN commands[n] : commands[n][i].handle # h
           /\ \A n \in Nodes, kind \in Words \ {"register"} : ~Carries(messages[n], kind, h)
           /\ source[c].handle # h
<1>1. \A n \in Nodes : \A i \in DOMAIN commands[n] : commands[n][i].handle # h
  BY DEF Known, CommandKnown
<1>2. \A n \in Nodes, kind \in Words \ {"register"} : ~Carries(messages[n], kind, h)
  BY DEF Known, WordKnown, Carries
<1>3. source[c].handle # h
  BY ConstantsAssumption DEF Known, SourceKnown
<1> QED
  BY <1>1, <1>2, <1>3

\* What the Hub says adds no occasion to stream, once the Handle is being ended or
\* while the Controller does not ask for it.
LEMMA UnaskedHubStep ==
    ASSUME Typed, Known, HubStep, NEW c \in Controllers, NEW h \in HandleIds, Tells(c, h),
           Unasked(c, h),
           rows[h] # NoRow => Ending(h) \/ ~Carries(messages[c], "take_over_requested", h)
    PROVE  Unasked(c, h)'
<1>1. /\ source' = source /\ Robot \in Nodes
      /\ \A n \in Nodes : \A i \in DOMAIN messages'[n] :
           \E j \in DOMAIN messages[n] : messages'[n][i] = messages[n][j]
  BY HubStepElements DEF Nodes
<1>2. ~Carries(messages'[Robot], "robot_ready", h)
  BY <1>1 DEF Unasked, Carries
<1>3. ~Carries(commands'[Robot], "take_over", h)
  BY DEF Tells, Unasked
<1>4. ~Carries(commands'[c], "robot_ready", h)
  BY DEF Tells, Unasked, Carries, New
<1> QED
  BY <1>1, <1>2, <1>3, <1>4 DEF Unasked

LEMMA UnaskedNodeMoves ==
    ASSUME Typed, NodeMoves, NEW c \in Controllers, QueueMoves(c), NEW h \in HandleIds,
           Unasked(c, h)
    PROVE  Unasked(c, h)'
<1>1. /\ Robot \in Nodes /\ c \in Nodes /\ Robot \notin Controllers
      /\ \A n \in Nodes : \A i \in DOMAIN commands'[n] :
           \E j \in DOMAIN commands[n] : commands'[n][i] = commands[n][j]
  BY NodeMovesElements, ConstantsAssumption DEF Nodes
<1>2. ~Carries(commands'[Robot], "take_over", h) /\ ~Carries(commands'[c], "robot_ready", h)
  BY <1>1 DEF Unasked, Carries
<1>3. ASSUME NEW i \in DOMAIN messages'[Robot], messages'[Robot][i].kind = "robot_ready",
             messages'[Robot][i].handle = h
      PROVE  FALSE
  <2>1. MayBeSaid(Robot, messages'[Robot][i])
    BY <1>1 DEF NodeMoves
  <2> QED
    BY <1>1, <1>3, <2>1 DEF MayBeSaid, RobotSays, Unasked, Carries
<1>4. ~(source'[c].handle = h /\ source'[c].control = "STREAMING")
  BY ConstantsAssumption DEF QueueMoves, Hears, Kept, Gone, Unasked
<1> QED
  BY <1>2, <1>3, <1>4 DEF Unasked, Carries

LEMMA UnaskedTick ==
    ASSUME Typed, Tick, NEW c \in Controllers, NEW h, Unasked(c, h)
    PROVE  Unasked(c, h)'
<1>1. Robot \in Nodes /\ c \in Nodes
  BY DEF Nodes
<1>2. \A n \in Nodes : \A kind : Carries(commands'[n], kind, h) => Carries(commands[n], kind, h)
  BY TickParts DEF Carries
<1> QED
  BY <1>1, <1>2, TickParts DEF Unasked

LEMMA ChainHubStep ==
    ASSUME Typed, Known, Chain, HubStep, NEW c \in Controllers, NEW h \in HandleIds, Has(c, h)'
    PROVE  ChainOf(c, h)'
<1>1. /\ source' = source /\ missed \subseteq missed' /\ c \in Nodes /\ Robot \in Nodes
      /\ \A n \in Nodes : \A i \in DOMAIN messages'[n] :
           \E j \in DOMAIN messages[n] : messages'[n][i] = messages[n][j]
  BY HubStepElements DEF Nodes
<1>2. Tells(c, h)
  BY HubStepTells DEF Has
<1>3. rows[h] # NoRow => Has(c, h) /\ ChainOf(c, h)
  BY <1>2 DEF Tells, Has, Chain
<1>4. rows[h] = NoRow =>
        /\ Unasked(c, h) /\ source[c].handle # h /\ ~Carries(messages[c], "take_over_requested", h)
        /\ \A i \in DOMAIN commands[c] : commands[c][i].handle # h
  BY <1>1, Unheard DEF Unasked, Carries, Words
<1>5. Unasked(c, h) /\ (rows[h] # NoRow => Ending(h) \/ ~Carries(messages[c], "take_over_requested", h))
      => Unasked(c, h)'
  BY <1>2, UnaskedHubStep
<1>6. \A i \in DOMAIN commands[c] : i \in DOMAIN commands'[c] /\ commands'[c][i] = commands[c][i]
  BY <1>2 DEF Tells
<1>7. \A i \in DOMAIN commands'[c] \cup DOMAIN commands[c] : i \in Nat
  <2>1. commands[c] \in Seq(CommandSet) /\ commands'[c] \in Seq(CommandSet)
    BY <1>1, HubStepType DEF Typed, CommandType
  <2> QED
    BY <2>1
<1>8. PendingChain(c, h)'
  <2> SUFFICES ASSUME c \in rows'[h].pending
               PROVE  /\ Unasked(c, h)' /\ source'[c].handle # h
                      /\ ~Carries(messages'[c], "take_over_requested", h)
                      /\ ~Carries(commands'[c], "grant", h)
    BY DEF PendingChain
  <2>1. /\ Unasked(c, h) /\ source[c].handle # h /\ ~Carries(messages[c], "take_over_requested", h)
        /\ ~Carries(commands[c], "grant", h)
    <3>1. CASE rows[h] = NoRow
      BY <1>4, <3>1 DEF Carries
    <3>2. CASE rows[h] # NoRow
      BY <1>2, <1>3, <3>2 DEF Tells, ChainOf, PendingChain
    <3> QED
      BY <3>1, <3>2
  <2>2. ~Carries(messages'[c], "take_over_requested", h)
    BY <1>1, <2>1 DEF Carries
  <2>3. ~Carries(commands'[c], "grant", h)
    BY <1>2, <2>1 DEF Carries, Tells, New
  <2> QED
    BY <1>1, <1>5, <2>1, <2>2, <2>3
<1>9. GrantChain(c, h)'
  <2> SUFFICES ASSUME NEW i \in DOMAIN commands'[c], commands'[c][i].kind = "grant",
                      commands'[c][i].handle = h
               PROVE  /\ source'[c].handle # h
                      /\ \A j \in DOMAIN commands'[c] :
                           commands'[c][j].kind = "grant" /\ commands'[c][j].handle = h => j = i
    BY DEF GrantChain
  <2>1. CASE i \in DOMAIN commands[c]
    <3>1. /\ rows[h] # NoRow /\ GrantChain(c, h) /\ PendingChain(c, h)
          /\ commands[c][i].kind = "grant" /\ commands[c][i].handle = h
      BY <1>3, <1>4, <1>6, <2>1 DEF ChainOf
    <3>2. c \notin rows[h].pending
      BY <2>1, <3>1 DEF PendingChain, Carries
    <3>3. \A j \in New(c) : ~(commands'[c][j].kind = "grant" /\ commands'[c][j].handle = h)
      BY <1>2, <3>1, <3>2 DEF Tells
    <3> QED
      BY <1>1, <1>6, <2>1, <3>1, <3>3 DEF GrantChain, New
  <2>2. CASE i \notin DOMAIN commands[c]
    <3>1. i \in New(c) /\ \A j \in New(c) : j = i
      BY <1>2, <2>2 DEF New, Tells
    <3>2. rows[h] = NoRow \/ c \in rows[h].pending
      BY <1>2, <3>1 DEF Tells
    <3>3. source[c].handle # h /\ ~Carries(commands[c], "grant", h)
      BY <1>3, <1>4, <3>2 DEF ChainOf, PendingChain, Carries
    <3>4. \A j \in DOMAIN commands[c] :
            ~(commands'[c][j].kind = "grant" /\ commands'[c][j].handle = h)
      BY <1>6, <3>3 DEF Carries
    <3> QED
      BY <1>1, <3>1, <3>3, <3>4 DEF New
  <2> QED
    BY <2>1, <2>2
<1>10. RevokeChain(c, h)'
  <2> SUFFICES ASSUME NEW i \in DOMAIN commands'[c], commands'[c][i].kind = "revoke",
                      commands'[c][i].handle = h
               PROVE  /\ rows'[h].state \in EndStates /\ commands'[c][i].left = rows'[h].left
                      /\ \A j \in DOMAIN commands'[c] : j > i /\ commands'[c][j].handle = h =>
                           /\ commands'[c][j].kind # "renewal"
                           /\ commands'[c][j].kind = "grant" => Unasked(c, h)'
    BY DEF RevokeChain, Ending
  <2>1. CASE i \in DOMAIN commands[c]
    <3>1. /\ rows[h] # NoRow /\ RevokeChain(c, h) /\ PendingChain(c, h)
          /\ commands[c][i].kind = "revoke" /\ commands[c][i].handle = h
      BY <1>3, <1>4, <1>6, <2>1 DEF ChainOf
    <3>2. /\ Ending(h) /\ commands[c][i].left = rows[h].left
          /\ \A j \in DOMAIN commands[c] : j > i /\ commands[c][j].handle = h =>
               /\ commands[c][j].kind # "renewal"
               /\ commands[c][j].kind = "grant" => Unasked(c, h)
      BY <2>1, <3>1 DEF RevokeChain
    <3>3. rows'[h].state \in EndStates /\ rows'[h].left = rows[h].left
      BY <1>2, <3>1, <3>2 DEF Tells
    <3>4. ASSUME NEW j \in DOMAIN commands'[c], j > i, commands'[c][j].handle = h
          PROVE  /\ commands'[c][j].kind # "renewal"
                 /\ commands'[c][j].kind = "grant" => Unasked(c, h)'
      <4>1. CASE j \in DOMAIN commands[c]
        BY <1>5, <1>6, <3>2, <3>4, <4>1
      <4>2. CASE j \notin DOMAIN commands[c]
        <5>1. j \in New(c)
          BY <4>2 DEF New
        <5>2. /\ commands'[c][j].kind # "renewal"
              /\ commands'[c][j].kind = "grant" => c \in rows[h].pending
          BY <1>2, <3>1, <3>2, <3>4, <5>1 DEF Tells
        <5> QED
          BY <1>5, <3>1, <3>2, <5>2 DEF PendingChain
      <4> QED
        BY <4>1, <4>2
    <3> QED
      BY <1>6, <2>1, <3>2, <3>3, <3>4
  <2>2. CASE i \notin DOMAIN commands[c]
    <3>1. i \in New(c)
      BY <2>2 DEF New
    <3>2. /\ \A j \in DOMAIN commands[c] : j < i
          /\ \A j \in New(c) : j = i
          /\ rows'[h].state \in EndStates /\ commands'[c][i].left = rows'[h].left
      BY <1>2, <3>1 DEF Tells
    <3>3. \A j \in DOMAIN commands'[c] : ~(j > i)
      BY <1>7, <3>1, <3>2 DEF New
    <3> QED
      BY <3>2, <3>3
  <2> QED
    BY <2>1, <2>2
<1>11. LeaseChain(c, h)'
  <2> SUFFICES ASSUME <<c, h>> \notin missed'
               PROVE  /\ \A j \in DOMAIN commands'[c] : LentLast(c, h, j)' =>
                           commands'[c][j].left = rows'[h].left
                      /\ source'[c].handle = h /\ Unlent(c, h)' => source'[c].left = rows'[h].left
    BY DEF LeaseChain
  <2>1. \A j \in New(c) : commands'[c][j].handle = h => commands'[c][j].left = rows'[h].left
    BY <1>2 DEF Tells
  <2>2. ASSUME \A j \in New(c) : ~Lends(commands'[c][j], h), rows[h] # NoRow
        PROVE  rows'[h].left = rows[h].left /\ LeaseChain(c, h) /\ <<c, h>> \notin missed
    BY <1>1, <1>2, <1>3, <2>2 DEF Tells, Lends, ChainOf
  <2>3. ASSUME NEW j \in DOMAIN commands'[c], LentLast(c, h, j)'
        PROVE  commands'[c][j].left = rows'[h].left
    <3>1. CASE j \notin DOMAIN commands[c]
      BY <2>1, <2>3, <3>1 DEF LentLast, Lends, New
    <3>2. CASE j \in DOMAIN commands[c]
      <4>1. Lends(commands'[c][j], h) /\ \A i \in DOMAIN commands'[c] : i > j => ~Lends(commands'[c][i], h)
        BY <2>3 DEF LentLast, Lends
      <4>2. \A i \in New(c) : j < i
        BY <1>2, <3>2 DEF Tells
      <4>3. \A i \in New(c) : i > j
        BY <1>7, <4>2 DEF New
      <4>4. \A i \in New(c) : ~Lends(commands'[c][i], h)
        BY <4>1, <4>3 DEF New
      <4>5. rows[h] # NoRow
        BY <1>4, <1>6, <3>2, <4>1 DEF Lends
      <4>6. LentLast(c, h, j)
        BY <1>6, <3>2, <4>1 DEF LentLast
      <4> QED
        BY <1>6, <2>2, <3>2, <4>4, <4>5, <4>6 DEF LeaseChain
    <3> QED
      BY <3>1, <3>2
  <2>4. ASSUME source'[c].handle = h, Unlent(c, h)'
        PROVE  source'[c].left = rows'[h].left
    <3>1. \A i \in DOMAIN commands'[c] : ~Lends(commands'[c][i], h)
      BY <2>4 DEF Unlent, Lends
    <3>2. rows[h] # NoRow /\ \A j \in New(c) : ~Lends(commands'[c][j], h)
      BY <1>1, <1>4, <2>4, <3>1 DEF New
    <3>3. Unlent(c, h)
      BY <1>6, <3>1 DEF Unlent
    <3> QED
      BY <1>1, <2>2, <2>4, <3>2, <3>3 DEF LeaseChain
  <2> QED
    BY <2>3, <2>4
<1> QED
  BY <1>8, <1>9, <1>10, <1>11 DEF ChainOf

\* What is left of a queue has moved up together.
LEMMA QueueShifts ==
    ASSUME Typed, NEW c \in Controllers, QueueMoves(c)
    PROVE  \E d \in {0, 1} : \A i \in DOMAIN commands'[c] :
             i \in Nat \ {0} /\ i + d \in DOMAIN commands[c] /\ commands'[c][i] = commands[c][i + d]
<1>1. commands[c] \in Seq(CommandSet)
  BY DEF Typed, CommandType, Nodes
<1>2. CASE commands'[c] = commands[c]
  <2>1. \A i \in DOMAIN commands'[c] : /\ i \in Nat \ {0} /\ i + 0 \in DOMAIN commands[c]
                                       /\ commands'[c][i] = commands[c][i + 0]
    BY <1>1, <1>2
  <2> QED
    BY <2>1
<1>3. CASE commands'[c] = <<>>
  BY <1>3
<1>4. CASE commands[c] # <<>> /\ commands'[c] = Tail(commands[c])
  <2>1. \A i \in DOMAIN commands'[c] : /\ i \in Nat \ {0} /\ i + 1 \in DOMAIN commands[c]
                                       /\ commands'[c][i] = commands[c][i + 1]
    <3>1. Tail(commands[c]) \in Seq(CommandSet)
      BY <1>1, <1>4, TailElements
    <3> QED
      BY <1>1, <1>4, <3>1, TailElements
  <2> QED
    BY <2>1
<1> QED
  BY <1>2, <1>3, <1>4 DEF QueueMoves

\* A Controller comes to have a Handle by the grant at the head of its queue.
LEMMA HandleTaken ==
    ASSUME Typed, NEW c \in Controllers, QueueMoves(c), NEW h \in HandleIds,
           source[c].handle # h, source'[c].handle = h
    PROVE  /\ commands[c] # <<>> /\ commands'[c] = Tail(commands[c])
           /\ 1 \in DOMAIN commands[c] /\ Head(commands[c]) = commands[c][1]
           /\ commands[c][1].kind = "grant" /\ commands[c][1].handle = h
           /\ h \notin source[c].ended /\ source'[c].left = commands[c][1].left
<1>1. c \in Nodes /\ h # NoHandle
  BY ConstantsAssumption DEF Nodes
<1>2. commands[c] # <<>> => 1 \in DOMAIN commands[c] /\ Head(commands[c]) = commands[c][1]
  BY <1>1, HeadCommand
<1> QED
  BY <1>1, <1>2 DEF QueueMoves, Hears, Kept, Gone

LEMMA ChainNodeMoves ==
    ASSUME Typed, Known, Chain, NodeMoves, NEW c \in Controllers, QueueMoves(c),
           NEW h \in HandleIds, Has(c, h)'
    PROVE  ChainOf(c, h)'
<1>1. /\ rows' = rows /\ missed \subseteq missed' /\ c \in Nodes /\ c # Robot /\ h # NoHandle
      /\ commands[c] \in Seq(CommandSet)
  BY ConstantsAssumption DEF NodeMoves, Nodes, Typed, CommandType
<1>2. ChainOf(c, h)
  BY <1>1 DEF Has, Chain
<1>3. Unasked(c, h) => Unasked(c, h)'
  BY UnaskedNodeMoves
<1>4. PICK d \in {0, 1} : \A i \in DOMAIN commands'[c] :
        i \in Nat \ {0} /\ i + d \in DOMAIN commands[c] /\ commands'[c][i] = commands[c][i + d]
  BY QueueShifts
<1>5. PendingChain(c, h)'
  <2> SUFFICES ASSUME c \in rows[h].pending
               PROVE  /\ Unasked(c, h)' /\ source'[c].handle # h
                      /\ ~Carries(messages'[c], "take_over_requested", h)
                      /\ ~Carries(commands'[c], "grant", h)
    BY <1>1 DEF PendingChain
  <2>1. /\ Unasked(c, h) /\ source[c].handle # h
        /\ ~Carries(messages[c], "take_over_requested", h) /\ ~Carries(commands[c], "grant", h)
    BY <1>2 DEF ChainOf, PendingChain
  <2>2. source'[c].handle # h
    BY <2>1, HandleTaken DEF Carries
  <2>3. ASSUME NEW i \in DOMAIN messages'[c], messages'[c][i].kind = "take_over_requested",
               messages'[c][i].handle = h
        PROVE  FALSE
    <3>1. MayBeSaid(c, messages'[c][i])
      BY <1>1 DEF NodeMoves
    <3> QED
      BY <1>1, <2>1, <2>3, <3>1 DEF MayBeSaid, ControllerSays, Carries
  <2>4. ~Carries(commands'[c], "grant", h)
    BY <1>4, <2>1 DEF Carries
  <2> QED
    BY <1>3, <2>1, <2>2, <2>3, <2>4 DEF Carries
<1>6. GrantChain(c, h)'
  <2> SUFFICES ASSUME NEW i \in DOMAIN commands'[c], commands'[c][i].kind = "grant",
                      commands'[c][i].handle = h
               PROVE  /\ source'[c].handle # h
                      /\ \A j \in DOMAIN commands'[c] :
                           commands'[c][j].kind = "grant" /\ commands'[c][j].handle = h => j = i
    BY DEF GrantChain
  <2>1. /\ i + d \in DOMAIN commands[c] /\ i \in Nat \ {0}
        /\ commands[c][i + d].kind = "grant" /\ commands[c][i + d].handle = h
    BY <1>4
  <2>2. /\ source[c].handle # h
        /\ \A j \in DOMAIN commands[c] :
             commands[c][j].kind = "grant" /\ commands[c][j].handle = h => j = i + d
    BY <1>2, <2>1 DEF ChainOf, GrantChain
  <2>3. ASSUME NEW j \in DOMAIN commands'[c], commands'[c][j].kind = "grant",
               commands'[c][j].handle = h
        PROVE  j = i
    <3>1. j + d = i + d /\ j \in Nat
      BY <1>4, <2>2, <2>3
    <3> QED
      BY <2>1, <3>1
  <2>4. ASSUME source'[c].handle = h
        PROVE  FALSE
    <3>1. /\ commands[c] # <<>> /\ commands'[c] = Tail(commands[c]) /\ 1 \in DOMAIN commands[c]
          /\ commands[c][1].kind = "grant" /\ commands[c][1].handle = h
      BY <2>2, <2>4, HandleTaken
    <3>2. i + 1 \in DOMAIN commands[c] /\ commands'[c][i] = commands[c][i + 1]
      BY <1>1, <3>1, TailElements
    <3>3. i + 1 = i + d /\ 1 = i + d
      BY <2>2, <3>1, <3>2
    <3> QED
      BY <2>1, <3>3
  <2> QED
    BY <2>3, <2>4
<1>7. RevokeChain(c, h)'
  <2> SUFFICES ASSUME NEW i \in DOMAIN commands'[c], commands'[c][i].kind = "revoke",
                      commands'[c][i].handle = h
               PROVE  /\ Ending(h)' /\ commands'[c][i].left = rows'[h].left
                      /\ \A j \in DOMAIN commands'[c] : j > i /\ commands'[c][j].handle = h =>
                           /\ commands'[c][j].kind # "renewal"
                           /\ commands'[c][j].kind = "grant" => Unasked(c, h)'
    BY DEF RevokeChain
  <2>1. /\ i + d \in DOMAIN commands[c] /\ i \in Nat \ {0} /\ commands'[c][i] = commands[c][i + d]
        /\ commands[c][i + d].kind = "revoke" /\ commands[c][i + d].handle = h
    BY <1>4
  <2>2. /\ Ending(h) /\ commands[c][i + d].left = rows[h].left
        /\ \A j \in DOMAIN commands[c] : j > i + d /\ commands[c][j].handle = h =>
             /\ commands[c][j].kind # "renewal"
             /\ commands[c][j].kind = "grant" => Unasked(c, h)
    BY <1>2, <2>1 DEF ChainOf, RevokeChain
  <2>3. ASSUME NEW j \in DOMAIN commands'[c], j > i, commands'[c][j].handle = h
        PROVE  /\ commands'[c][j].kind # "renewal"
               /\ commands'[c][j].kind = "grant" => Unasked(c, h)'
    <3>1. j + d \in DOMAIN commands[c] /\ j \in Nat /\ commands'[c][j] = commands[c][j + d]
      BY <1>4
    <3>2. j + d > i + d
      BY <2>1, <2>3, <3>1
    <3> QED
      BY <1>3, <2>2, <2>3, <3>1, <3>2
  <2>4. Ending(h)'
    BY <1>1, <2>2 DEF Ending
  <2> QED
    BY <1>1, <2>1, <2>2, <2>3, <2>4
<1>8. LeaseChain(c, h)'
  <2> SUFFICES ASSUME <<c, h>> \notin missed'
               PROVE  /\ \A j \in DOMAIN commands'[c] : LentLast(c, h, j)' =>
                           commands'[c][j].left = rows[h].left
                      /\ source'[c].handle = h /\ Unlent(c, h)' => source'[c].left = rows[h].left
    BY <1>1 DEF LeaseChain
  <2>1. /\ \A j \in DOMAIN commands[c] : LentLast(c, h, j) => commands[c][j].left = rows[h].left
        /\ source[c].handle = h /\ Unlent(c, h) => source[c].left = rows[h].left
    BY <1>1, <1>2 DEF ChainOf, LeaseChain
  <2>2. CASE commands'[c] = commands[c] /\ (Kept(c) \/ Gone(c))
    <3>1. ASSUME NEW j \in DOMAIN commands'[c], LentLast(c, h, j)'
          PROVE  commands'[c][j].left = rows[h].left
      BY <2>1, <2>2, <3>1 DEF LentLast, Lends
    <3>2. Unlent(c, h)' => Unlent(c, h)
      BY <2>2 DEF Unlent, Lends
    <3> QED
      BY <1>1, <2>1, <2>2, <3>1, <3>2 DEF Kept, Gone
  <2>3. CASE commands'[c] = <<>> /\ Gone(c)
    BY <1>1, <2>3 DEF Gone
  <2>4. CASE /\ commands[c] # <<>> /\ commands'[c] = Tail(commands[c])
             /\ \/ Kept(c) /\ <<c, Head(commands[c]).handle>> \in missed'
                \/ Hears(c, Head(commands[c]))
    <3> DEFINE k == Head(commands[c])
    <3>1. /\ k \in CommandSet /\ k = commands[c][1] /\ 1 \in DOMAIN commands[c]
          /\ \A i \in DOMAIN commands'[c] :
               i \in Nat /\ i + 1 \in DOMAIN commands[c] /\ commands'[c][i] = commands[c][i + 1]
          /\ \A i \in DOMAIN commands[c] : i # 1 =>
               i - 1 \in DOMAIN commands'[c] /\ commands'[c][i - 1] = commands[c][i]
          /\ \A i \in DOMAIN commands[c] : i \in Nat \ {0}
      BY <1>1, <2>4, TailElements
    <3> HIDE DEF k
    <3>2. ASSUME NEW j \in DOMAIN commands'[c], LentLast(c, h, j)'
          PROVE  commands'[c][j].left = rows[h].left
      <4>1. Lends(commands'[c][j], h) /\ \A i \in DOMAIN commands'[c] : i > j => ~Lends(commands'[c][i], h)
        BY <3>2 DEF LentLast, Lends
      <4>2. j \in Nat /\ j + 1 \in DOMAIN commands[c] /\ commands'[c][j] = commands[c][j + 1]
        BY <3>1
      <4>3. ASSUME NEW i \in DOMAIN commands[c], i > j + 1
            PROVE  ~Lends(commands[c][i], h)
        <5>1. i # 1 /\ i - 1 > j /\ i \in Nat
          BY <3>1, <4>2, <4>3
        <5> QED
          BY <3>1, <4>1, <5>1
      <4>4. LentLast(c, h, j + 1)
        BY <4>1, <4>2, <4>3 DEF LentLast
      <4> QED
        BY <2>1, <4>2, <4>4
    <3>3. ASSUME source'[c].handle = h, Unlent(c, h)'
          PROVE  source'[c].left = rows[h].left
      <4>1. \A i \in DOMAIN commands'[c] : ~Lends(commands'[c][i], h)
        BY <3>3 DEF Unlent, Lends
      <4>2. \A i \in DOMAIN commands[c] : i # 1 => ~Lends(commands[c][i], h)
        BY <3>1, <4>1
      <4>3. CASE ~Lends(k, h)
        <5>1. Unlent(c, h)
          BY <3>1, <4>2, <4>3 DEF Unlent
        <5> QED
          BY <1>1, <2>1, <2>4, <3>3, <4>3, <5>1 DEF k, Hears, Kept, Gone, Lends
      <4>4. CASE Lends(k, h)
        <5>1. LentLast(c, h, 1)
          BY <3>1, <4>2, <4>4 DEF LentLast
        <5>2. k.left = rows[h].left
          BY <2>1, <3>1, <5>1
        <5>3. Hears(c, k)
          BY <2>4, <4>4 DEF k, Lends
        <5>4. k.kind = "grant" => source[c].handle # h
          BY <1>2, <3>1, <4>4 DEF ChainOf, GrantChain, Lends
        <5>5. /\ source[c].left \in Nat /\ k.left \in Nat
              /\ source[c].handle = h => source[c].left <= rows[h].left
          BY <1>1, <3>1, ConstantsAssumption
             DEF CommandSet, Typed, NodeType, SourceSet, Known, SourceKnown
        <5>6. CASE /\ Kept(c)
                   /\ k.kind = "renewal" /\ source[c].handle = k.handle =>
                        k.left <= source[c].left \/ k.left = 0
          <6>1. source[c].handle = h /\ source'[c].left = source[c].left
            BY <3>3, <5>6 DEF Kept
          <6>2. k.kind = "renewal" /\ k.handle = h
            BY <4>4, <5>4, <6>1 DEF Lends
          <6>3. k.left <= source[c].left \/ k.left = 0
            BY <5>6, <6>1, <6>2
          <6> QED
            BY <5>2, <5>5, <6>1, <6>3
        <5> QED
          BY <1>1, <3>3, <5>2, <5>3, <5>6 DEF Hears, Gone
      <4> QED
        BY <4>3, <4>4
    <3> QED
      BY <3>2, <3>3
  <2> QED
    BY <2>2, <2>3, <2>4 DEF QueueMoves
<1> QED
  BY <1>5, <1>6, <1>7, <1>8 DEF ChainOf

LEMMA ChainTick ==
    ASSUME Typed, Known, Chain, Tick, NEW c \in Controllers, NEW h \in HandleIds, Has(c, h)'
    PROVE  ChainOf(c, h)'
<1>1. /\ rows[h] # NoRow /\ rows'[h].controller = rows[h].controller
      /\ rows'[h].pending = rows[h].pending /\ rows'[h].state = rows[h].state
      /\ rows'[h].left = Later(rows[h].left)
  BY TickParts DEF Has
<1>2. /\ c \in Nodes /\ messages' = messages /\ missed' = missed
      /\ source'[c].handle = source[c].handle /\ source'[c].left = Later(source[c].left)
      /\ DOMAIN commands'[c] = DOMAIN commands[c]
      /\ \A i \in DOMAIN commands[c] :
           /\ commands'[c][i].kind = commands[c][i].kind
           /\ commands'[c][i].handle = commands[c][i].handle
           /\ commands'[c][i].left = Later(commands[c][i].left)
  BY TickParts DEF Nodes
<1>3. ChainOf(c, h)
  BY <1>1 DEF Has, Chain
<1>4. Unasked(c, h) => Unasked(c, h)'
  BY UnaskedTick
<1>5. PendingChain(c, h)'
  BY <1>1, <1>2, <1>3, <1>4 DEF ChainOf, PendingChain, Carries
<1>6. GrantChain(c, h)'
  BY <1>2, <1>3 DEF ChainOf, GrantChain
<1>7. RevokeChain(c, h)'
  <2>1. RevokeChain(c, h)
    BY <1>3 DEF ChainOf
  <2> QED
    BY <1>1, <1>2, <1>4, <2>1 DEF RevokeChain, Ending
<1>8. LeaseChain(c, h)'
  <2>1. \A j \in DOMAIN commands[c] : LentLast(c, h, j)' => LentLast(c, h, j)
    BY <1>2 DEF LentLast, Lends
  <2>2. Unlent(c, h)' => Unlent(c, h)
    BY <1>2 DEF Unlent, Lends
  <2> QED
    BY <1>1, <1>2, <1>3, <2>1, <2>2 DEF ChainOf, LeaseChain
<1> QED
  BY <1>5, <1>6, <1>7, <1>8 DEF ChainOf

LEMMA ChainStep == Typed /\ Known /\ Chain /\ [Next]_vars => Chain'
<1> SUFFICES ASSUME Typed, Known, Chain, [Next]_vars, NEW c \in Controllers,
                    NEW h \in HandleIds, Has(c, h)'
             PROVE  ChainOf(c, h)'
  BY DEF Chain
<1> QED
  BY ChainMoves, ChainHubStep, ChainNodeMoves, ChainTick

-----------------------------------------------------------------------------
(* How a Controller comes to know that its Handle is revoked.              *)

\* The Controller does not have the Handle and cannot come to have it.
Never(c, h) ==
    /\ source[c].handle # h
    /\ h \in source[c].ended \/ (c \notin rows[h].pending /\ ~Carries(commands[c], "grant", h))

\* The Controller does not stream under the Handle, and what is under way does not
\* let it: or it missed a message, or the revoke or the end of the validity is
\* still to come.
Told(c, h) ==
    \/ <<c, h>> \in missed
    \/ Unasked(c, h)
    \/ Carries(commands[c], "revoke", h)
    \/ rows[h].left = 0
    \/ Never(c, h)

LEMMA NeverHubStep ==
    ASSUME Typed, HubStep, NEW c \in Controllers, NEW h \in HandleIds, rows[h] # NoRow,
           Tells(c, h), Never(c, h)
    PROVE  Never(c, h)'
<1>1. source' = source
  BY HubStepElements
<1>2. ~Carries(commands[c], "grant", h) /\ c \notin rows[h].pending =>
        ~Carries(commands'[c], "grant", h) /\ c \notin rows'[h].pending
  BY DEF Tells, Carries, New
<1> QED
  BY <1>1, <1>2 DEF Never

LEMMA ToldHubStep ==
    ASSUME Typed, Known, HubStep, NEW c \in Controllers, NEW h \in HandleIds, rows[h] # NoRow,
           Tells(c, h), Ending(h), Told(c, h)
    PROVE  Told(c, h)'
<1>1. missed \subseteq missed' /\ (rows[h].left = 0 => rows'[h].left = 0)
  BY HubStepElements DEF Tells
<1>2. Unasked(c, h) => Unasked(c, h)'
  BY UnaskedHubStep
<1>3. Carries(commands[c], "revoke", h) => Carries(commands'[c], "revoke", h)
  BY DEF Tells, Carries
<1> QED
  BY <1>1, <1>2, <1>3, NeverHubStep DEF Told

LEMMA NeverNodeMoves ==
    ASSUME Typed, NodeMoves, NEW c \in Controllers, QueueMoves(c), NEW h \in HandleIds, Never(c, h)
    PROVE  Never(c, h)'
<1>1. rows' = rows /\ source[c].ended \subseteq source'[c].ended
  BY DEF NodeMoves, QueueMoves, Hears, Kept, Gone
<1>2. source'[c].handle # h
  <2> SUFFICES ASSUME source'[c].handle = h PROVE FALSE
    OBVIOUS
  <2>1. source[c].handle # h
    BY DEF Never
  <2>2. /\ 1 \in DOMAIN commands[c] /\ commands[c][1].kind = "grant"
        /\ commands[c][1].handle = h /\ h \notin source[c].ended
    BY <2>1, HandleTaken
  <2> QED
    BY <2>2 DEF Never, Carries
<1>3. ~Carries(commands[c], "grant", h) => ~Carries(commands'[c], "grant", h)
  BY QueueShifts DEF Carries
<1> QED
  BY <1>1, <1>2, <1>3 DEF Never

LEMMA ToldNodeMoves ==
    ASSUME Typed, Known, Chain, NodeMoves, NEW c \in Controllers, QueueMoves(c),
           NEW h \in HandleIds, Has(c, h), Told(c, h)
    PROVE  Told(c, h)'
<1>1. /\ rows' = rows /\ missed \subseteq missed' /\ c \in Nodes /\ h # NoHandle
      /\ commands[c] \in Seq(CommandSet) /\ ChainOf(c, h)
  BY ConstantsAssumption DEF NodeMoves, Nodes, Typed, CommandType, Chain
<1>2. Unasked(c, h) => Unasked(c, h)'
  BY UnaskedNodeMoves
<1>3. Never(c, h) => Never(c, h)'
  BY NeverNodeMoves
<1>4. ASSUME c \in rows[h].pending
      PROVE  Unasked(c, h)
  BY <1>1, <1>4 DEF ChainOf, PendingChain
<1>5. ASSUME NEW i \in DOMAIN commands[c], commands[c][i].kind = "revoke",
             commands[c][i].handle = h
      PROVE  Told(c, h)'
  <2>1. /\ commands[c][i].left = rows[h].left
        /\ \A j \in DOMAIN commands[c] : j > i /\ commands[c][j].handle = h =>
             /\ commands[c][j].kind # "renewal"
             /\ commands[c][j].kind = "grant" => Unasked(c, h)
    BY <1>1, <1>5 DEF ChainOf, RevokeChain
  <2>2. CASE commands'[c] = commands[c]
    BY <1>5, <2>2 DEF Told, Carries
  <2>3. CASE commands'[c] = <<>> /\ Gone(c)
    <3>1. source'[c].handle # h
      BY <1>1, <2>3 DEF Gone
    <3>2. ~Carries(commands'[c], "grant", h)
      BY <2>3 DEF Carries
    <3> QED
      BY <1>1, <1>2, <1>4, <3>1, <3>2 DEF Told, Never
  <2>4. CASE /\ commands[c] # <<>> /\ commands'[c] = Tail(commands[c])
             /\ \/ Kept(c) /\ <<c, Head(commands[c]).handle>> \in missed'
                \/ Hears(c, Head(commands[c]))
    <3> DEFINE k == Head(commands[c])
    <3>1. /\ k \in CommandSet /\ k = commands[c][1] /\ 1 \in DOMAIN commands[c]
          /\ \A j \in DOMAIN commands'[c] :
               j \in Nat \ {0} /\ j + 1 \in DOMAIN commands[c] /\ commands'[c][j] = commands[c][j + 1]
          /\ \A j \in DOMAIN commands[c] : j # 1 =>
               j - 1 \in DOMAIN commands'[c] /\ commands'[c][j - 1] = commands[c][j]
      <4>1. Tail(commands[c]) \in Seq(CommandSet)
        BY <1>1, <2>4, TailElements
      <4> QED
        BY <1>1, <2>4, <4>1, TailElements
    <3> HIDE DEF k
    <3>2. CASE i # 1
      BY <1>5, <3>1, <3>2 DEF Told, Carries
    <3>3. CASE i = 1
      <4>1. k.kind = "revoke" /\ k.handle = h /\ k.left = rows[h].left
        BY <1>5, <2>1, <3>1, <3>3
      <4>2. CASE <<c, k.handle>> \in missed'
        BY <4>1, <4>2 DEF Told
      <4>3. CASE Unasked(c, h) \/ Never(c, h) \/ <<c, h>> \in missed \/ rows[h].left = 0
        BY <1>1, <1>2, <1>3, <4>3 DEF Told
      <4>4. CASE /\ ~Unasked(c, h) /\ ~Never(c, h) /\ <<c, h>> \notin missed
                 /\ rows[h].left # 0 /\ Hears(c, k)
        <5>1. ~Carries(commands[c], "grant", h)
          BY <2>1, <3>1, <3>3, <4>1, <4>4, <1>1 DEF Carries
        <5>2. source[c].handle = h
          BY <1>4, <4>4, <5>1 DEF Never
        <5>3. \A j \in DOMAIN commands[c] : ~Lends(commands[c][j], h)
          <6>1. \A j \in DOMAIN commands[c] : j # 1 => j > 1
            BY <1>1
          <6> QED
            BY <2>1, <3>1, <3>3, <4>1, <5>1, <6>1 DEF Lends, Carries
        <5>4. source[c].left = rows[h].left
          BY <1>1, <4>4, <5>2, <5>3 DEF ChainOf, LeaseChain, Unlent
        <5>5. Gone(c)
          BY <4>1, <4>4, <5>2, <5>4 DEF Hears, Matches
        <5> QED
          BY <1>1, <5>2, <5>5 DEF Told, Never, Gone
      <4> QED
        BY <2>4, <4>2, <4>3, <4>4 DEF k
    <3> QED
      BY <3>2, <3>3
  <2> QED
    BY <2>2, <2>3, <2>4 DEF QueueMoves
<1> QED
  BY <1>1, <1>2, <1>3, <1>5 DEF Told, Carries

LEMMA ToldTick ==
    ASSUME Typed, Tick, NEW c \in Controllers, NEW h \in HandleIds, Has(c, h), Told(c, h)
    PROVE  Told(c, h)'
<1>1. /\ rows'[h].pending = rows[h].pending /\ rows'[h].left = Later(rows[h].left)
      /\ c \in Nodes /\ missed' = missed
      /\ source'[c].handle = source[c].handle /\ source'[c].ended = source[c].ended
  BY TickParts DEF Has, Nodes
<1>2. Unasked(c, h) => Unasked(c, h)'
  BY UnaskedTick
<1>3. \A kind : Carries(commands'[c], kind, h) <=> Carries(commands[c], kind, h)
  BY <1>1, TickParts DEF Carries
<1> QED
  BY <1>1, <1>2, <1>3 DEF Told, Never, Later

-----------------------------------------------------------------------------
(* That the end of a Handle has reached both its Nodes.                    *)

\* What tells the Robot to end a Handle is under way only once the Controller has
\* let it go or is told to; so is what the Robot answers, and what the Hub
\* concludes from the answer.
EndOf(c, h) ==
    /\ Carries(commands[Robot], "hand_over", h) => h \in source[c].ended
    /\ Carries(commands[Robot], "revoke", h) => Ending(h) /\ Told(c, h)
    /\ Carries(messages[Robot], "robot_holding", h) =>
         h \in source[c].ended \/ (Ending(h) /\ Told(c, h))
    /\ Carries(messages[c], "hand_over_requested", h) => h \in source[c].ended
    /\ rows[h].state = "RELEASED" => h \in source[c].ended
    /\ rows[h].state = "REVOKED" => Told(c, h)

End == \A c \in Controllers, h \in HandleIds : Has(c, h) => EndOf(c, h)

LEMMA EndInit == Init => End
  BY DEF Init, End, Has

\* A Controller that has given a Handle up never has it again.
LEMMA EndedNever ==
    ASSUME Typed, Known, NEW c \in Controllers, NEW h \in HandleIds, h \in source[c].ended
    PROVE  Never(c, h)
  BY ConstantsAssumption DEF Known, SourceKnown, Never

LEMMA EndHubStep ==
    ASSUME Typed, Known, Chain, End, HubStep, NEW c \in Controllers, NEW h \in HandleIds,
           Has(c, h)'
    PROVE  EndOf(c, h)'
<1>1. /\ source' = source /\ missed \subseteq missed' /\ c \in Nodes /\ Robot \in Nodes
      /\ \A n \in Nodes : \A i \in DOMAIN messages'[n] :
           \E j \in DOMAIN messages[n] : messages'[n][i] = messages[n][j]
  BY HubStepElements DEF Nodes
<1>2. Tells(c, h)
  BY HubStepTells DEF Has
<1>3. \A n \in Nodes : \A kind : Carries(messages'[n], kind, h) => Carries(messages[n], kind, h)
  BY <1>1 DEF Carries
<1>4. CASE rows[h] = NoRow
  <2>1. /\ \A i \in DOMAIN commands[Robot] : commands[Robot][i].handle # h
        /\ ~Carries(messages[Robot], "robot_holding", h)
        /\ ~Carries(messages[c], "hand_over_requested", h)
    BY <1>1, <1>4, Unheard DEF Words
  <2>2. PICK told : HubMoves(told)
    BY <1>4 DEF HubStep, Has
  <2>3. rows'[h].state = "ASSIGNED"
    BY <1>4, <2>2 DEF HubMoves, Ages, Has
  <2>4. ASSUME NEW i \in DOMAIN commands'[Robot], commands'[Robot][i].handle = h
        PROVE  commands'[Robot][i].kind = "grant"
    <3>1. told \in [Nodes -> Seq(CommandSet)] /\ Tell(told)
      BY <2>2 DEF HubMoves
    <3>2. \/ i \in DOMAIN commands[Robot] /\ commands'[Robot][i] = commands[Robot][i]
          \/ \E j \in DOMAIN told[Robot] : commands'[Robot][i] = told[Robot][j]
      BY <1>1, <3>1, TellElements
    <3>3. \A j \in DOMAIN told[Robot] : Issued(Robot, told, told[Robot][j])
      BY <1>1, <2>2 DEF HubMoves
    <3>4. Issued(Robot, told, commands'[Robot][i])
      BY <2>1, <2>4, <3>2, <3>3
    <3> QED
      BY <1>4, <2>4, <3>4 DEF Issued
  <2> QED
    BY <1>1, <1>3, <2>1, <2>3, <2>4 DEF EndOf, Carries
<1>5. CASE rows[h] # NoRow
  <2>1. Has(c, h) /\ EndOf(c, h)
    BY <1>2, <1>5 DEF Tells, Has, End
  <2>2. Ending(h) /\ Told(c, h) => Ending(h)' /\ Told(c, h)'
    BY <1>2, <1>5, ToldHubStep DEF Tells, Ending
  <2>3. Never(c, h) => Told(c, h)'
    BY <1>2, <1>5, NeverHubStep DEF Told
  <2>4. Carries(messages[Robot], "robot_holding", h) => Told(c, h)'
    BY <2>1, <2>2, <2>3, EndedNever DEF EndOf
  <2>5. CASE UNCHANGED <<rows, commands, missed, arm, source>>
    <3>1. rows'[h].state = "REVOKED" => Ending(h)
      BY <2>5 DEF Ending, EndStates
    <3> QED
      BY <1>1, <1>3, <2>1, <2>2, <2>5, <3>1 DEF EndOf
  <2>6. ASSUME NEW told, HubMoves(told)
        PROVE  EndOf(c, h)'
    <3>1. Ages(h, told) /\ Tell(told) /\ told \in [Nodes -> Seq(CommandSet)]
      BY <2>6 DEF HubMoves
    <3>2. ASSUME NEW i \in DOMAIN commands'[Robot], commands'[Robot][i].handle = h
          PROVE  \/ i \in DOMAIN commands[Robot] /\ commands'[Robot][i] = commands[Robot][i]
                 \/ Issued(Robot, told, commands'[Robot][i])
      <4>1. \A j \in DOMAIN told[Robot] : Issued(Robot, told, told[Robot][j])
        BY <1>1, <2>6 DEF HubMoves
      <4> QED
        BY <1>1, <3>1, <4>1, TellElements
    <3>3. Carries(commands'[Robot], "hand_over", h) => h \in source'[c].ended
      <4>1. ASSUME NEW i \in DOMAIN commands'[Robot], commands'[Robot][i].handle = h,
                   commands'[Robot][i].kind = "hand_over"
            PROVE  h \in source[c].ended
        <5>1. CASE Issued(Robot, told, commands'[Robot][i])
          <6>1. Spoken("hand_over_requested", h)
            BY <4>1, <5>1 DEF Issued
          <6> QED
            BY <2>1, <6>1, SpokenBy DEF EndOf, Has
        <5> QED
          BY <2>1, <3>2, <4>1, <5>1 DEF EndOf, Carries
      <4> QED
        BY <1>1, <4>1 DEF Carries
    <3>4. Carries(commands'[Robot], "revoke", h) => Ending(h)' /\ Told(c, h)'
      <4>1. ASSUME NEW i \in DOMAIN commands'[Robot], commands'[Robot][i].handle = h,
                   commands'[Robot][i].kind = "revoke"
            PROVE  Ending(h)' /\ Told(c, h)'
        <5>1. CASE Issued(Robot, told, commands'[Robot][i])
          <6>1. rows'[h].state \in EndStates /\ Carries(told[c], "revoke", h)
            BY <2>1, <4>1, <5>1 DEF Issued, Has
          <6>2. <<c, h>> \in missed' \/ Carries(commands'[c], "revoke", h)
            BY <2>6, <6>1, NewCommands DEF Carries, New
          <6> QED
            BY <6>1, <6>2 DEF Ending, Told
        <5> QED
          BY <2>1, <2>2, <3>2, <4>1, <5>1 DEF EndOf, Carries
      <4> QED
        BY <4>1 DEF Carries
    <3>5. rows'[h].state = "RELEASED" => h \in source'[c].ended
      <4>1. ASSUME rows'[h].state = "RELEASED", rows[h].state # "RELEASED"
            PROVE  Carries(messages[Robot], "robot_holding", h) /\ ~Ending(h)
        BY <1>5, <3>1, <4>1, SpokenBy DEF Ages
      <4> QED
        BY <1>1, <2>1, <4>1 DEF EndOf
    <3>6. rows'[h].state = "REVOKED" => Told(c, h)'
      <4>1. ASSUME rows'[h].state = "REVOKED", rows[h].state # "REVOKED"
            PROVE  Carries(messages[Robot], "robot_holding", h)
        BY <1>5, <3>1, <4>1, SpokenBy DEF Ages
      <4> QED
        BY <2>1, <2>2, <2>4, <4>1 DEF EndOf, Ending, EndStates
    <3> QED
      BY <1>1, <1>3, <2>1, <2>2, <3>3, <3>4, <3>5, <3>6 DEF EndOf
  <2> QED
    BY <2>5, <2>6 DEF HubStep
<1> QED
  BY <1>4, <1>5

LEMMA EndNodeMoves ==
    ASSUME Typed, Known, Chain, End, NodeMoves, NEW c \in Controllers, QueueMoves(c),
           NEW h \in HandleIds, Has(c, h)'
    PROVE  EndOf(c, h)'
<1>1. /\ rows' = rows /\ c \in Nodes /\ Robot \in Nodes /\ c # Robot /\ Robot \notin Controllers
      /\ source[c].ended \subseteq source'[c].ended
  BY ConstantsAssumption DEF NodeMoves, Nodes, QueueMoves, Hears, Kept, Gone
<1>2. Has(c, h) /\ EndOf(c, h)
  BY <1>1 DEF Has, End
<1>3. Told(c, h) => Told(c, h)'
  BY <1>2, ToldNodeMoves
<1>4. Ending(h)' <=> Ending(h)
  BY <1>1 DEF Ending
<1>5. \A kind : Carries(commands'[Robot], kind, h) => Carries(commands[Robot], kind, h)
  BY <1>1, NodeMovesElements DEF Carries
<1>6. Carries(messages'[Robot], "robot_holding", h) =>
        \/ Carries(messages[Robot], "robot_holding", h)
        \/ Carries(commands[Robot], "hand_over", h) \/ Carries(commands[Robot], "revoke", h)
  <2>1. ASSUME NEW i \in DOMAIN messages'[Robot], messages'[Robot][i].kind = "robot_holding",
               messages'[Robot][i].handle = h
        PROVE  \/ Carries(messages[Robot], "robot_holding", h)
               \/ Carries(commands[Robot], "hand_over", h) \/ Carries(commands[Robot], "revoke", h)
    <3>1. MayBeSaid(Robot, messages'[Robot][i])
      BY <1>1 DEF NodeMoves
    <3>2. CASE \E j \in DOMAIN messages[Robot] : messages'[Robot][i] = messages[Robot][j]
      BY <2>1, <3>2 DEF Carries
    <3>3. CASE RobotSays(messages'[Robot][i])
      BY <2>1, <3>3 DEF RobotSays
    <3> QED
      BY <1>1, <2>1, <3>1, <3>2, <3>3 DEF MayBeSaid
  <2> QED
    BY <2>1 DEF Carries
<1>7. Carries(messages'[c], "hand_over_requested", h) => h \in source'[c].ended
  <2>1. ASSUME NEW i \in DOMAIN messages'[c], messages'[c][i].kind = "hand_over_requested",
               messages'[c][i].handle = h
        PROVE  h \in source'[c].ended
    <3>1. MayBeSaid(c, messages'[c][i])
      BY <1>1 DEF NodeMoves
    <3>2. CASE \E j \in DOMAIN messages[c] : messages'[c][i] = messages[c][j]
      BY <1>1, <1>2, <2>1, <3>2 DEF EndOf, Carries
    <3>3. CASE ControllerSays(c, messages'[c][i])
      BY <2>1, <3>3 DEF ControllerSays
    <3> QED
      BY <1>1, <2>1, <3>1, <3>2, <3>3 DEF MayBeSaid
  <2> QED
    BY <2>1 DEF Carries
<1> QED
  BY <1>1, <1>2, <1>3, <1>4, <1>5, <1>6, <1>7 DEF EndOf

LEMMA EndTick ==
    ASSUME Typed, Known, Chain, End, Tick, NEW c \in Controllers, NEW h \in HandleIds, Has(c, h)'
    PROVE  EndOf(c, h)'
<1>1. /\ Has(c, h) /\ rows'[h].state = rows[h].state /\ Robot \in Nodes
      /\ source'[c].ended = source[c].ended /\ messages' = messages
  BY TickParts DEF Has, Nodes
<1>2. \A kind : Carries(commands'[Robot], kind, h) => Carries(commands[Robot], kind, h)
  BY <1>1, TickParts DEF Carries
<1>3. Told(c, h) => Told(c, h)'
  BY <1>1, ToldTick
<1>4. EndOf(c, h)
  BY <1>1 DEF End
<1> QED
  BY <1>1, <1>2, <1>3, <1>4 DEF EndOf, Ending

LEMMA EndStep == Typed /\ Known /\ Chain /\ End /\ [Next]_vars => End'
<1> SUFFICES ASSUME Typed, Known, Chain, End, [Next]_vars, NEW c \in Controllers,
                    NEW h \in HandleIds, Has(c, h)'
             PROVE  EndOf(c, h)'
  BY DEF End
<1> QED
  BY ChainMoves, EndHubStep, EndNodeMoves, EndTick

LEMMA ReachesOfEnd ==
    ASSUME Typed, Known, Progress, Chain, End
    PROVE  EndReachesBoth
<1>1. ReleasedMeansSilent
  <2> SUFFICES ASSUME NEW h \in HandleIds, NEW c \in Controllers, rows[h] # NoRow,
                      rows[h].state = "RELEASED"
               PROVE  source[c].handle # h /\ arm.handle # h
    BY DEF ReleasedMeansSilent
  <2>1. h # NoHandle
    BY ConstantsAssumption
  <2>2. arm.handle # h
    BY <2>1 DEF Progress, RowProgress, Known, ArmKnown
  <2>3. source[c].handle # h
    <3> SUFFICES ASSUME source[c].handle = h PROVE FALSE
      OBVIOUS
    <3>1. Has(c, h) /\ h \notin source[c].ended
      BY <2>1 DEF Known, SourceKnown, Has
    <3> QED
      BY <3>1 DEF End, EndOf
  <2> QED
    BY <2>2, <2>3
<1>2. RevokedMeansTold
  <2> SUFFICES ASSUME NEW c \in Controllers, source[c].control = "STREAMING",
                      ~SourceExpired(c), rows[source[c].handle].state = "REVOKED"
               PROVE  \/ <<c, source[c].handle>> \in missed
                      \/ Carries(commands[c], "revoke", source[c].handle)
    BY DEF RevokedMeansTold, Carries
  <2> DEFINE h == source[c].handle
  <2>1. /\ h \in HandleIds /\ Has(c, h) /\ source[c].left <= rows[h].left
        /\ source[c].left \in Nat
    BY ConstantsAssumption DEF Known, SourceKnown, Has, Typed, NodeType, SourceSet
  <2>2. Told(c, h)
    BY <2>1 DEF End, EndOf
  <2>3. rows[h].left # 0
    BY <2>1 DEF SourceExpired
  <2> QED
    BY <2>2, <2>3 DEF Told, Unasked, Never
<1> QED
  BY <1>1, <1>2 DEF EndReachesBoth

\* Between any number of Nodes, with every message that may be late or lost: a
\* RELEASED Handle is with neither of its Nodes, and a Controller streams on under
\* a REVOKED one only if it missed a message or the revoke is still on its way.
THEOREM EndIsKnown == Spec => []EndReachesBoth
<1> DEFINE Inv == Typed /\ Known /\ Progress /\ Chain /\ End
<1>1. Init => Inv
  BY InitTyped, KnownInit, ProgressInit, ChainInit, EndInit
<1>2. Inv /\ [Next]_vars => Inv'
  BY TypedStep, KnownStep, ProgressStep, ChainStep, EndStep
<1>3. Inv => EndReachesBoth
  BY ReachesOfEnd
<1> HIDE DEF Inv
<1> QED
  BY <1>1, <1>2, <1>3, PTL DEF Spec
=============================================================================
