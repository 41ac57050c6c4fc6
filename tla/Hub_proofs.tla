----------------------------- MODULE Hub_proofs -----------------------------
(***************************************************************************)
(* Theorems about Hub for every set of Nodes and Handles, every validity   *)
(* and every pattern of lost, repeated and reordered messages.             *)
(***************************************************************************)
EXTENDS Hub, TLAPS

-----------------------------------------------------------------------------
(* What a step can do to one row.                                          *)

\* What a Handle is about never changes, and what is acknowledged stays so.
SameGrant(row, new) ==
    /\ new \in Row
    /\ new.epoch = row.epoch
    /\ new.robot = row.robot /\ new.robot_session = row.robot_session
    /\ new.controller = row.controller
    /\ new.controller_session = row.controller_session
    /\ row.robot_ready => new.robot_ready
    /\ row.controller_streaming => new.controller_streaming

\* The desired state only moves on: an end is final, a revocation can only
\* end, and activity is earned by both acknowledgements.
Advances(row, new) ==
    /\ SameGrant(row, new)
    /\ row.state \in Terminal => new.state = row.state
    /\ row.state = "REVOKING" => new.state \in Terminal \cup {"REVOKING"}
    /\ new.state \in {"ACTIVE", "HANDING_OVER"} =>
         \/ row.state \in {"ACTIVE", "HANDING_OVER"}
         \/ new.robot_ready /\ new.controller_streaming

LEMMA RowFacts ==
    ASSUME NEW row \in Row
    PROVE  /\ row.epoch \in Nat /\ row.robot \in Robots /\ row.controller \in Controllers
           /\ row.robot_session \in Nat /\ row.controller_session \in Nat
           /\ row.state \in HandleState /\ row.left \in 0..Ttl
           /\ row.robot_ready \in BOOLEAN /\ row.controller_streaming \in BOOLEAN
           /\ row.granting \in SUBSET Nodes /\ row.pending \in SUBSET Nodes
           /\ row # NoRow /\ row.robot # row.controller
  BY ConstantsAssumption DEF Row

LEMMA States ==
    /\ Terminal \subseteq HandleState
    /\ {"ASSIGNED", "TAKING_OVER", "ACTIVE", "HANDING_OVER", "REVOKING"} \cap Terminal = {}
    /\ {"RELEASED", "REVOKED", "EXPIRED", "FAULT"} \subseteq Terminal
    /\ "REVOKING" \in HandleState /\ "TAKING_OVER" \in HandleState
    /\ "ACTIVE" \in HandleState /\ "HANDING_OVER" \in HandleState
    /\ "ASSIGNED" \in HandleState
  BY DEF Terminal, HandleState

LEMMA AdvancesRefl ==
    ASSUME NEW row \in Row PROVE Advances(row, row)
  BY DEF Advances, SameGrant

LEMMA AdvancesTrans ==
    ASSUME NEW a \in Row, NEW b, NEW c, Advances(a, b), Advances(b, c)
    PROVE  Advances(a, c)
<1>1. SameGrant(a, c)
  BY DEF Advances, SameGrant
<1>2. a.state \in Terminal => c.state = a.state
  BY DEF Advances
<1>3. a.state = "REVOKING" => c.state \in Terminal \cup {"REVOKING"}
  BY DEF Advances
<1>4. ASSUME c.state \in {"ACTIVE", "HANDING_OVER"}, a.state \notin {"ACTIVE", "HANDING_OVER"}
      PROVE  c.robot_ready /\ c.controller_streaming
  BY <1>4 DEF Advances, SameGrant
<1> QED
  BY <1>1, <1>2, <1>3, <1>4 DEF Advances

LEMMA WithStateFields ==
    ASSUME NEW row \in Row, NEW target \in HandleState
    PROVE  /\ SameGrant(row, WithState(row, target))
           /\ WithState(row, target).state = target
<1>1. 0 \in 0..Ttl
  BY ConstantsAssumption
<1> QED
  BY <1>1 DEF WithState, SameGrant, Row

\* Ending or revoking a Handle that still binds is an advance.
LEMMA EndAdvances ==
    ASSUME NEW row \in Row, row.state \notin Terminal,
           NEW target \in Terminal \cup {"REVOKING"}
    PROVE  Advances(row, WithState(row, target))
<1>1. target \in HandleState /\ target \notin {"ACTIVE", "HANDING_OVER"}
  BY States
<1> QED
  BY <1>1, WithStateFields DEF Advances

\* A state may be set without a look at the rest of the row.
LEMMA SetStateAdvances ==
    ASSUME NEW row \in Row, row.state \notin Terminal,
           NEW target \in HandleState,
           row.state = "REVOKING" => target = "REVOKING",
           target \in {"ACTIVE", "HANDING_OVER"} => row.state \in {"ACTIVE", "HANDING_OVER"}
    PROVE  Advances(row, [row EXCEPT !.state = target])
<1>1. SameGrant(row, [row EXCEPT !.state = target])
  BY DEF SameGrant, Row
<1>2. [row EXCEPT !.state = target].state = target
  BY DEF Row
<1> QED
  BY <1>1, <1>2 DEF Advances

LEMMA ActivatedAdvances ==
    ASSUME NEW row \in Row PROVE Advances(row, Activated(row))
<1>1. CASE row.state = "TAKING_OVER" /\ row.robot_ready /\ row.controller_streaming
  <2>1. /\ SameGrant(row, WithState(row, "ACTIVE"))
        /\ WithState(row, "ACTIVE").state = "ACTIVE"
    BY WithStateFields, States
  <2>2. Activated(row) = WithState(row, "ACTIVE")
    BY <1>1 DEF Activated
  <2>3. row.state \notin Terminal /\ row.state # "REVOKING"
    BY <1>1, States
  <2> QED
    BY <1>1, <2>1, <2>2, <2>3 DEF Advances, SameGrant
<1>2. CASE ~(row.state = "TAKING_OVER" /\ row.robot_ready /\ row.controller_streaming)
  BY <1>2, AdvancesRefl DEF Activated
<1> QED
  BY <1>1, <1>2

LEMMA LiveFacts ==
    ASSUME TypeOK, NEW h \in Known
    PROVE  h \in HandleIds /\ handles[h] \in Row /\ (h \in Live <=> handles[h].state \notin Terminal)
  BY DEF TypeOK, Known, Live

LEMMA ServedAdvances ==
    ASSUME TypeOK, NEW h \in Live, NEW overdue, NEW due, NEW delivered
    PROVE  Advances(handles[h], Served(h, overdue, due, delivered))
<1> DEFINE row == handles[h]
           new == Served(h, overdue, due, delivered)
<1>1. row \in Row /\ row.state \notin Terminal
  BY LiveFacts DEF Live
<1>2. CASE row.left = 0
  BY <1>1, <1>2, EndAdvances, States DEF Served
<1>3. CASE row.left # 0
  <2> DEFINE state   == IF Silent(h, overdue) THEN "REVOKING" ELSE row.state
             left    == IF h \in due /\ ~Silent(h, overdue) /\ Renewable(h)
                        THEN Ttl ELSE row.left
             grants  == row.granting \cup (row.pending \cap delivered)
             pending == row.pending \ delivered
  <2>1. new = [row EXCEPT !.state = state, !.left = left,
                          !.granting = grants, !.pending = pending]
    BY <1>3 DEF Served
  <2>2. state \in HandleState /\ state \in {row.state, "REVOKING"}
    BY <1>1, RowFacts, States
  <2>3. left \in 0..Ttl /\ grants \in SUBSET Nodes /\ pending \in SUBSET Nodes
    BY <1>1, RowFacts, ConstantsAssumption
  <2> HIDE DEF row, new, state, left, grants, pending
  <2>4. SameGrant(row, new) /\ new.state = state
    BY <1>1, <2>1, <2>2, <2>3 DEF SameGrant, Row
  <2> QED
    BY <1>1, <2>2, <2>4 DEF Advances, row, new
<1> QED
  BY <1>2, <1>3

LEMMA CorrectedAdvances ==
    ASSUME NEW h, NEW row \in Row, NEW registry, NEW recent
    PROVE  Advances(row, Corrected(h, row, registry, recent))
<1>1. CASE Corrected(h, row, registry, recent) = row
  BY <1>1, AdvancesRefl
<1>2. CASE Corrected(h, row, registry, recent) # row
  <2>1. /\ row.state \in {"ASSIGNED", "TAKING_OVER", "ACTIVE"}
        /\ Corrected(h, row, registry, recent) = WithState(row, "REVOKING")
    BY <1>2 DEF Corrected
  <2>2. row.state \notin Terminal
    BY <2>1, States
  <2> QED
    BY <2>1, <2>2, EndAdvances
<1> QED
  BY <1>1, <1>2

-----------------------------------------------------------------------------
(* What a step can do to all rows.                                         *)

HandlesType(hs) == hs \in [HandleIds -> Row \cup {NoRow}]

RowsAdvance ==
    /\ HandlesType(handles')
    /\ \A h \in HandleIds :
         \/ handles[h] = NoRow /\ handles'[h] = NoRow
         \/ handles[h] # NoRow /\ Advances(handles[h], handles'[h])

\* One row is replaced.
LEMMA OneRow ==
    ASSUME TypeOK, NEW h \in HandleIds, handles[h] # NoRow, NEW new,
           Advances(handles[h], new), handles' = [handles EXCEPT ![h] = new]
    PROVE  RowsAdvance
<1>1. handles \in [HandleIds -> Row \cup {NoRow}] /\ new \in Row
  BY DEF TypeOK, Advances, SameGrant
<1>2. \A g \in HandleIds : g # h => handles'[g] = handles[g]
  BY <1>1
<1>3. handles'[h] = new /\ HandlesType(handles')
  BY <1>1 DEF HandlesType
<1> QED
  BY <1>1, <1>2, <1>3, AdvancesRefl DEF RowsAdvance

\* Every row is replaced.
LEMMA EveryRow ==
    ASSUME TypeOK, handles' = [h \in HandleIds |-> handles'[h]],
           \A h \in HandleIds :
             \/ handles'[h] = handles[h]
             \/ handles[h] # NoRow /\ Advances(handles[h], handles'[h])
    PROVE  RowsAdvance
<1>0. \A h \in HandleIds : handles[h] \in Row \cup {NoRow}
  BY DEF TypeOK
<1>1. \A h \in HandleIds : handles'[h] \in Row \cup {NoRow}
  BY <1>0 DEF Advances, SameGrant
<1>2. HandlesType(handles')
  BY <1>1 DEF HandlesType
<1> QED
  BY <1>0, <1>2, AdvancesRefl DEF RowsAdvance

LEMMA NoRowChanged ==
    ASSUME TypeOK, handles' = handles PROVE RowsAdvance
<1>1. \A h \in HandleIds : handles[h] \in Row \cup {NoRow}
  BY DEF TypeOK
<1> QED
  BY <1>1, AdvancesRefl DEF RowsAdvance, HandlesType, TypeOK

\* What ends or revokes live Handles advances their rows.
LEMMA EndingRows ==
    ASSUME TypeOK, handles' = [h \in HandleIds |-> handles'[h]],
           \A h \in HandleIds :
             \/ handles'[h] = handles[h]
             \/ h \in Live /\ \E target \in Terminal \cup {"REVOKING"} :
                               handles'[h] = WithState(handles[h], target)
    PROVE  RowsAdvance
<1>1. ASSUME NEW h \in HandleIds, handles'[h] # handles[h]
      PROVE  handles[h] # NoRow /\ Advances(handles[h], handles'[h])
  <2>1. /\ handles[h] \in Row /\ handles[h].state \notin Terminal
        /\ handles[h] # NoRow
    BY <1>1, LiveFacts DEF Live, Known
  <2> QED
    BY <1>1, <2>1, EndAdvances
<1> QED
  BY <1>1, EveryRow

LEMMA StartRows == ASSUME TypeOK, Start PROVE RowsAdvance
<1>1. handles' = [h \in HandleIds |-> handles'[h]]
  BY DEF Start
<1>2. ASSUME NEW h \in HandleIds, handles'[h] # handles[h]
      PROVE  handles[h] # NoRow /\ Advances(handles[h], handles'[h])
  <2>1. /\ handles[h] # NoRow /\ handles[h].state \notin Terminal
        /\ handles'[h] = WithState(handles[h], "EXPIRED") /\ handles[h] \in Row
    BY <1>2 DEF Start, TypeOK
  <2> QED
    BY <2>1, EndAdvances, States
<1> QED
  BY <1>1, <1>2, EveryRow

LEMMA TickRows == ASSUME TypeOK, Tick PROVE RowsAdvance
<1>1. handles' = [h \in HandleIds |-> handles'[h]]
  BY DEF Tick
<1>2. ASSUME NEW h \in HandleIds, handles'[h] # handles[h]
      PROVE  handles[h] # NoRow /\ Advances(handles[h], handles'[h])
  <2>1. /\ handles[h] # NoRow /\ handles[h] \in Row /\ handles[h].left > 0
        /\ handles'[h] = [handles[h] EXCEPT !.left = @ - 1]
    BY <1>2 DEF Tick, TypeOK
  <2>2. handles[h].left - 1 \in 0..Ttl
    BY <2>1, RowFacts, ConstantsAssumption
  <2>3. SameGrant(handles[h], handles'[h]) /\ handles'[h].state = handles[h].state
    BY <2>1, <2>2 DEF SameGrant, Row
  <2> QED
    BY <2>1, <2>3 DEF Advances
<1> QED
  BY <1>1, <1>2, EveryRow

LEMMA RevokedRows ==
    ASSUME TypeOK, NEW S, handles' = Revoked(S) PROVE RowsAdvance
  BY EndingRows DEF Revoked

LEMMA ReportRows ==
    ASSUME TypeOK, NEW n, NEW report, handles' = AfterReport(n, report)
    PROVE  RowsAdvance
  BY EndingRows, States DEF AfterReport

LEMMA ServiceRows ==
    ASSUME TypeOK, NEW overdue, NEW due, NEW recent, NEW delivered,
           ServiceTick(overdue, due, recent, delivered)
    PROVE  RowsAdvance
<1> DEFINE registry == [n \in Nodes |-> IF n \in overdue
                                        THEN [nodes[n] EXCEPT !.online = FALSE]
                                        ELSE nodes[n]]
<1>1. handles' = [h \in HandleIds |->
                    IF h \in Live
                    THEN Corrected(h, Served(h, overdue, due, delivered), registry, recent)
                    ELSE handles[h]]
  BY DEF ServiceTick
<1>2. ASSUME NEW h \in HandleIds, handles'[h] # handles[h]
      PROVE  handles[h] # NoRow /\ Advances(handles[h], handles'[h])
  <2>1. /\ h \in Live
        /\ handles'[h] = Corrected(h, Served(h, overdue, due, delivered), registry, recent)
    BY <1>1, <1>2
  <2>2. handles[h] \in Row /\ handles[h] # NoRow
    BY <2>1, LiveFacts DEF Live, Known
  <2>3. Advances(handles[h], Served(h, overdue, due, delivered))
    BY <2>1, ServedAdvances
  <2>4. Served(h, overdue, due, delivered) \in Row
    BY <2>3 DEF Advances, SameGrant
  <2> HIDE DEF registry
  <2>5. Advances(Served(h, overdue, due, delivered), handles'[h])
    BY <2>1, <2>4, CorrectedAdvances
  <2> QED
    BY <2>2, <2>3, <2>5, AdvancesTrans
<1>3. handles' = [h \in HandleIds |-> handles'[h]]
  BY <1>1
<1> QED
  BY <1>2, <1>3, EveryRow

\* The steps about one Handle.
LEMMA GrantAckRows ==
    ASSUME TypeOK, NEW n, NEW h \in HandleIds, GrantAck(n, h) PROVE RowsAdvance
<1> DEFINE new == [handles[h] EXCEPT !.granting = @ \ {n}]
<1>1. handles[h] \in Row /\ handles[h] # NoRow
  BY LiveFacts DEF GrantAck, Names, Known
<1>2. SameGrant(handles[h], new) /\ new.state = handles[h].state
  BY <1>1 DEF SameGrant, Row
<1>3. Advances(handles[h], new)
  BY <1>2 DEF Advances
<1>4. handles' = [handles EXCEPT ![h] = new]
  BY DEF GrantAck
<1> QED
  BY <1>1, <1>3, <1>4, OneRow

LEMMA SetStateRows ==
    ASSUME TypeOK, NEW h \in Live, NEW target \in HandleState,
           handles[h].state = "REVOKING" => target = "REVOKING",
           target \in {"ACTIVE", "HANDING_OVER"}
             => handles[h].state \in {"ACTIVE", "HANDING_OVER"},
           handles' = [handles EXCEPT ![h] = [@ EXCEPT !.state = target]]
    PROVE  RowsAdvance
<1>1. /\ h \in HandleIds /\ handles[h] \in Row /\ handles[h] # NoRow
      /\ handles[h].state \notin Terminal
  BY LiveFacts DEF Live, Known
<1>2. Advances(handles[h], [handles[h] EXCEPT !.state = target])
  BY <1>1, SetStateAdvances
<1> QED
  BY <1>1, <1>2, OneRow

LEMMA RobotReadyRows ==
    ASSUME TypeOK, NEW h \in Live, RobotReady(h) PROVE RowsAdvance
<1> DEFINE row == handles[h]
           state == IF row.state = "ASSIGNED" THEN "TAKING_OVER" ELSE row.state
           new == [row EXCEPT !.robot_ready = TRUE, !.state = state]
<1>1. /\ h \in HandleIds /\ row \in Row /\ row # NoRow
      /\ row.state \notin Terminal /\ state \in HandleState
  BY LiveFacts, RowFacts, States DEF Live, Known
<1>2. SameGrant(row, new) /\ new.state = state /\ new \in Row
  <2> HIDE DEF row, state
  <2> QED
    BY <1>1 DEF SameGrant, Row
<1>3. Advances(row, new)
  <2>1. /\ state \in {"ACTIVE", "HANDING_OVER"} => row.state \in {"ACTIVE", "HANDING_OVER"}
        /\ row.state = "REVOKING" => state = "REVOKING"
    OBVIOUS
  <2> HIDE DEF row, new, state
  <2> QED
    BY <1>1, <1>2, <2>1 DEF Advances
<1>4. Advances(row, Activated(new))
  <2> HIDE DEF row, new
  <2> QED
    BY <1>1, <1>2, <1>3, ActivatedAdvances, AdvancesTrans
<1>5. handles' = [handles EXCEPT ![h] = Activated(new)]
  BY DEF RobotReady
<1> QED
  BY <1>1, <1>4, <1>5, OneRow

LEMMA ControllerStreamingRows ==
    ASSUME TypeOK, NEW h \in Live, ControllerStreaming(h) PROVE RowsAdvance
<1> DEFINE row == handles[h]
           new == [row EXCEPT !.controller_streaming = TRUE]
<1>1. h \in HandleIds /\ row \in Row /\ row # NoRow
  BY LiveFacts DEF Live, Known
<1>2. SameGrant(row, new) /\ new.state = row.state /\ new \in Row
  <2> HIDE DEF row
  <2> QED
    BY <1>1 DEF SameGrant, Row
<1>3. Advances(row, new)
  <2> HIDE DEF row, new
  <2> QED
    BY <1>2 DEF Advances
<1>4. Advances(row, Activated(new))
  <2> HIDE DEF row, new
  <2> QED
    BY <1>1, <1>2, <1>3, ActivatedAdvances, AdvancesTrans
<1>5. handles' = [handles EXCEPT ![h] = Activated(new)]
  BY DEF ControllerStreaming
<1> QED
  BY <1>1, <1>4, <1>5, OneRow

LEMMA HandOverRequestedRows ==
    ASSUME TypeOK, NEW h \in Live, HandOverRequested(h) PROVE RowsAdvance
<1> DEFINE target == IF handles[h].state = "ACTIVE" THEN "HANDING_OVER"
                     ELSE handles[h].state
<1>1. h \in HandleIds /\ handles[h] \in Row
  BY LiveFacts DEF Live
<1>2. /\ target \in HandleState
      /\ handles[h].state = "REVOKING" => target = "REVOKING"
      /\ target \in {"ACTIVE", "HANDING_OVER"}
           => handles[h].state \in {"ACTIVE", "HANDING_OVER"}
  BY <1>1, RowFacts, States
<1>3. handles' = [handles EXCEPT ![h] = [@ EXCEPT !.state = target]]
  BY <1>1 DEF HandOverRequested
<1> HIDE DEF target
<1> QED
  BY <1>2, <1>3, SetStateRows

LEMMA RobotHoldingRows ==
    ASSUME TypeOK, NEW h \in Live, RobotHolding(h) PROVE RowsAdvance
<1> DEFINE new == CASE handles[h].state = "HANDING_OVER" -> WithState(handles[h], "RELEASED")
                    [] handles[h].state = "REVOKING" -> WithState(handles[h], "REVOKED")
                    [] OTHER -> handles[h]
<1>1. /\ h \in HandleIds /\ handles[h] \in Row /\ handles[h] # NoRow
      /\ handles[h].state \notin Terminal
  BY LiveFacts DEF Live, Known
<1>2. handles' = [handles EXCEPT ![h] = new]
  BY <1>1 DEF RobotHolding
<1>3. new \in {handles[h], WithState(handles[h], "RELEASED"), WithState(handles[h], "REVOKED")}
  OBVIOUS
<1> HIDE DEF new
<1>4. Advances(handles[h], new)
  BY <1>1, <1>3, EndAdvances, AdvancesRefl, States
<1> QED
  BY <1>1, <1>2, <1>4, OneRow

LEMMA FaultRows ==
    ASSUME TypeOK, NEW n, NEW h, Fault(n, h) PROVE RowsAdvance
<1>1. /\ h \in HandleIds /\ handles[h] \in Row /\ handles[h] # NoRow
      /\ handles[h].state \notin Terminal
  BY LiveFacts DEF Live, Known, Fault, Speaks
<1>2. Advances(handles[h], WithState(handles[h], "FAULT"))
  BY <1>1, EndAdvances, States
<1>3. handles' = [handles EXCEPT ![h] = WithState(handles[h], "FAULT")]
  BY <1>1 DEF Fault
<1> QED
  BY <1>1, <1>2, <1>3, OneRow

LEMMA RenewRows ==
    ASSUME TypeOK, NEW h \in Live, Renew(h) PROVE RowsAdvance
<1> DEFINE new == [handles[h] EXCEPT !.left = Ttl]
<1>1. h \in HandleIds /\ handles[h] \in Row /\ handles[h] # NoRow
  BY LiveFacts DEF Live, Known
<1>2. Ttl \in 0..Ttl
  BY ConstantsAssumption
<1>3. SameGrant(handles[h], new) /\ new.state = handles[h].state
  BY <1>1, <1>2 DEF SameGrant, Row
<1>4. Advances(handles[h], new)
  BY <1>3 DEF Advances
<1>5. handles' = [handles EXCEPT ![h] = new]
  BY <1>1 DEF Renew
<1> QED
  BY <1>1, <1>4, <1>5, OneRow

LEMMA OperatorRows ==
    ASSUME TypeOK, NEW h \in Live,
           TakeOverRequested(h) \/ RequestTakeOver(h) \/ RequestHandOver(h) \/ Revoke(h)
    PROVE  RowsAdvance
<1>0. h \in HandleIds /\ handles[h] \in Row
  BY LiveFacts DEF Live
<1>1. CASE TakeOverRequested(h) \/ RequestTakeOver(h)
  <2>1. /\ handles[h].state # "REVOKING"
        /\ handles' = [handles EXCEPT ![h] = [@ EXCEPT !.state = "TAKING_OVER"]]
    BY <1>0, <1>1 DEF TakeOverRequested, RequestTakeOver
  <2> QED
    BY <2>1, SetStateRows, States
<1>2. CASE RequestHandOver(h)
  <2> DEFINE target == IF handles[h].state = "ACTIVE" THEN "HANDING_OVER" ELSE "REVOKING"
  <2>1. handles' = [handles EXCEPT ![h] = [@ EXCEPT !.state = target]]
    BY <1>0, <1>2 DEF RequestHandOver
  <2>2. /\ target \in HandleState
        /\ handles[h].state = "REVOKING" => target = "REVOKING"
        /\ target \in {"ACTIVE", "HANDING_OVER"}
             => handles[h].state \in {"ACTIVE", "HANDING_OVER"}
    BY States
  <2> HIDE DEF target
  <2> QED
    BY <2>1, <2>2, SetStateRows
<1>3. CASE Revoke(h)
  <2>1. handles' = [handles EXCEPT ![h] = [@ EXCEPT !.state = "REVOKING"]]
    BY <1>0, <1>3 DEF Revoke
  <2> QED
    BY <2>1, SetStateRows, States
<1> QED
  BY <1>1, <1>2, <1>3

\* Every step but an assignment advances the rows there are.
Assignment ==
    \E r \in Robots, c \in Controllers, h \in HandleIds, delivered \in SUBSET Nodes :
      Assign(r, c, h, delivered)

LEMMA StepRows == ASSUME TypeOK, [Next]_vars PROVE RowsAdvance \/ Assignment
<1>1. CASE MessageStep
  <2>1. ASSUME NEW n, NEW s, Register(n, s) PROVE RowsAdvance
    BY <2>1, RevokedRows, NoRowChanged DEF Register
  <2>2. ASSUME NEW n, Heartbeat(n) PROVE RowsAdvance
    BY <2>2, NoRowChanged DEF Heartbeat
  <2>3. ASSUME NEW n, NEW report, Status(n, report) PROVE RowsAdvance
    BY <2>3, ReportRows DEF Status
  <2>4. Live \subseteq HandleIds
    BY DEF Live, Known
  <2> QED
    BY <1>1, <2>1, <2>2, <2>3, <2>4, GrantAckRows, FaultRows, OperatorRows, RobotReadyRows,
       ControllerStreamingRows, HandOverRequestedRows, RobotHoldingRows
    DEF MessageStep
<1>2. CASE OperatorStep
  BY <1>2, RenewRows, OperatorRows DEF OperatorStep, Assignment
<1>3. CASE Service
  BY <1>3, ServiceRows DEF Service
<1>4. CASE Stop \/ UNCHANGED vars
  BY <1>4, NoRowChanged DEF Stop, vars
<1> QED
  BY <1>1, <1>2, <1>3, <1>4, StartRows, TickRows DEF Next

-----------------------------------------------------------------------------
(* The registry, and type correctness.                                     *)

NodesType(registry) == registry \in [Nodes -> Entry]

LEMMA HeardType ==
    ASSUME NodesType(nodes), NEW n \in Nodes, NEW report \in Report \cup {NoReport}
    PROVE  /\ NodesType(Heard(n))
           /\ NodesType([Heard(n) EXCEPT ![n].report = report])
<1>1. [nodes[n] EXCEPT !.online = TRUE] \in Entry
  BY DEF NodesType, Entry
<1>2. NodesType(Heard(n))
  BY <1>1 DEF NodesType, Heard
<1>3. [Heard(n)[n] EXCEPT !.report = report] \in Entry
  BY <1>2 DEF NodesType, Entry
<1> QED
  BY <1>2, <1>3 DEF NodesType

LEMMA PartyFacts ==
    ASSUME TypeOK, NEW h \in Known
    PROVE  handles[h].robot \in Nodes /\ handles[h].controller \in Nodes
  BY LiveFacts, RowFacts DEF Nodes

LEMMA UnknownType == Unknown \in Entry
  BY DEF Unknown, Entry

LEMMA MessageNodesType == ASSUME TypeOK, MessageStep PROVE NodesType(nodes')
<1>0. NodesType(nodes) /\ NoReport \in Report \cup {NoReport}
  BY DEF TypeOK, NodesType
<1>1. ASSUME NEW n \in Nodes, NEW s \in 1..MaxSession, Register(n, s)
      PROVE  NodesType(nodes')
  <2>1. [session |-> s, online |-> TRUE, report |-> NoReport] \in Entry
    BY DEF Entry
  <2> QED
    BY <1>0, <1>1, <2>1 DEF Register, NodesType
<1>2. ASSUME NEW n \in Nodes, Heartbeat(n) PROVE NodesType(nodes')
  BY <1>0, <1>2, HeardType DEF Heartbeat
<1>3. ASSUME NEW n \in Nodes, NEW h, GrantAck(n, h) PROVE NodesType(nodes')
  BY <1>0, <1>3, HeardType DEF GrantAck
<1>4. ASSUME NEW n \in Nodes, NEW report \in Report, Status(n, report)
      PROVE  NodesType(nodes')
  BY <1>0, <1>4, HeardType DEF Status
<1>5. ASSUME NEW h \in Live,
             RobotReady(h) \/ ControllerStreaming(h) \/ RobotHolding(h)
      PROVE  NodesType(nodes')
  <2>1. handles[h].robot \in Nodes /\ handles[h].controller \in Nodes
    BY PartyFacts DEF Live
  <2> QED
    BY <1>0, <1>5, <2>1, HeardType DEF RobotReady, ControllerStreaming, RobotHolding
<1>6. ASSUME NEW n, NEW h, Fault(n, h) \/ TakeOverRequested(h) \/ HandOverRequested(h)
      PROVE  NodesType(nodes')
  BY <1>0, <1>6 DEF Fault, TakeOverRequested, HandOverRequested
<1> QED
  BY <1>1, <1>2, <1>3, <1>4, <1>5, <1>6, ConstantsAssumption DEF MessageStep, Nodes

LEMMA AssignType ==
    ASSUME TypeOK, NEW r \in Robots, NEW c \in Controllers, NEW h \in HandleIds,
           NEW delivered \in SUBSET Nodes, Assign(r, c, h, delivered)
    PROVE  /\ NodesType(nodes') /\ HandlesType(handles')
           /\ \A g \in HandleIds \ {h} : handles'[g] = handles[g]
           /\ handles'[h] \in Row /\ handles'[h].epoch = epoch
           /\ handles'[h].robot = r /\ handles'[h].controller = c
           /\ handles'[h].robot_session = nodes[r].session
           /\ handles'[h].controller_session = nodes[c].session
           /\ handles'[h].state = "ASSIGNED"
<1> DEFINE new ==
      [epoch |-> epoch, robot |-> r, controller |-> c,
       robot_session |-> nodes[r].session, controller_session |-> nodes[c].session,
       state |-> "ASSIGNED", left |-> Ttl,
       robot_ready |-> FALSE, controller_streaming |-> FALSE,
       granting |-> {r, c} \cap delivered, pending |-> {r, c} \ delivered]
<1>1. nodes[r].session \in Nat /\ nodes[c].session \in Nat /\ epoch \in Nat
  BY DEF TypeOK, Nodes, Entry
<1>2. new \in Row
  BY <1>1, States, ConstantsAssumption DEF Row, Nodes
<1>3. handles' = [handles EXCEPT ![h] = new]
  BY DEF Assign
<1>4. HandlesType(handles') /\ handles'[h] = new
      /\ \A g \in HandleIds \ {h} : handles'[g] = handles[g]
  BY <1>2, <1>3 DEF TypeOK, HandlesType
<1>5. \A n \in Nodes : nodes'[n] = IF n \in {r, c} THEN [nodes[n] EXCEPT !.report = NoReport]
                                   ELSE nodes[n]
  BY DEF Assign
<1>6. \A n \in Nodes : nodes[n] \in Entry
  BY DEF TypeOK
<1>7. \A n \in Nodes : nodes'[n] \in Entry
  BY <1>5, <1>6 DEF Entry
<1>8. NodesType(nodes')
  <2>1. nodes' = [n \in Nodes |-> nodes'[n]]
    BY DEF Assign
  <2> QED
    BY <1>7, <2>1 DEF NodesType
<1> QED
  BY <1>2, <1>4, <1>8

LEMMA ServiceNodes ==
    ASSUME TypeOK, NEW overdue, NEW due, NEW recent, NEW delivered,
           ServiceTick(overdue, due, recent, delivered)
    PROVE  NodesType(nodes')
<1>1. nodes' = [n \in Nodes |-> IF n \in overdue THEN [nodes[n] EXCEPT !.online = FALSE]
                               ELSE nodes[n]]
  BY DEF ServiceTick
<1>2. \A n \in Nodes : nodes[n] \in Entry
  BY DEF TypeOK
<1>3. \A n \in Nodes : [nodes[n] EXCEPT !.online = FALSE] \in Entry
  BY <1>2 DEF Entry
<1> QED
  BY <1>1, <1>2, <1>3 DEF NodesType

LEMMA TypeInit == Init => TypeOK
<1> SUFFICES ASSUME Init PROVE TypeOK
  OBVIOUS
<1>1. running \in BOOLEAN
  BY Zenon DEF Init
<1> QED
  BY <1>1, UnknownType DEF Init, TypeOK

LEMMA TypeStep == TypeOK /\ [Next]_vars => TypeOK'
<1> SUFFICES ASSUME TypeOK, [Next]_vars PROVE TypeOK'
  OBVIOUS
<1>1. HandlesType(handles')
  BY StepRows, AssignType DEF RowsAdvance, Assignment
<1>2. NodesType(nodes')
  <2>1. CASE Start \/ Stop
    BY <2>1, UnknownType DEF Start, Stop, NodesType
  <2>2. CASE OperatorStep
    BY <2>2, AssignType DEF OperatorStep, Renew, RequestTakeOver, RequestHandOver,
                            Revoke, TypeOK, NodesType
  <2>3. CASE Service
    BY <2>3, ServiceNodes DEF Service
  <2>4. CASE Tick \/ UNCHANGED vars
    BY <2>4 DEF Tick, vars, TypeOK, NodesType
  <2> QED
    BY <2>1, <2>2, <2>3, <2>4, MessageNodesType DEF Next
<1>3. running' \in BOOLEAN
  <2>1. running' \in {TRUE, FALSE, running}
    BY Zenon DEF Next, MessageStep, OperatorStep, Service, Start, Stop, Register, Heartbeat,
           GrantAck, Fault, Status, TakeOverRequested, RobotReady, ControllerStreaming,
           HandOverRequested, RobotHolding, Assign, Renew, RequestTakeOver,
           RequestHandOver, Revoke, ServiceTick, Tick, vars
  <2> QED
    BY <2>1, Zenon DEF TypeOK
<1>4. epoch' \in Nat /\ seen' \in [Nodes -> SUBSET Nat]
  <2>1. ASSUME NEW n \in Nodes, NEW s \in 1..MaxSession, Register(n, s)
        PROVE  epoch' \in Nat /\ seen' \in [Nodes -> SUBSET Nat]
    BY <2>1 DEF Register, TypeOK
  <2>2. CASE Start \/ Stop
    BY <2>2 DEF Start, Stop, TypeOK
  <2>3. CASE UNCHANGED <<epoch, seen>>
    BY <2>3 DEF TypeOK
  <2> QED
    BY <2>1, <2>2, <2>3
    DEF Next, MessageStep, OperatorStep, Service, Heartbeat, GrantAck, Fault, Status,
        TakeOverRequested, RobotReady, ControllerStreaming, HandOverRequested,
        RobotHolding, Assign, Renew, RequestTakeOver, RequestHandOver, Revoke,
        ServiceTick, Tick, vars
<1> QED
  BY <1>1, <1>2, <1>3, <1>4 DEF TypeOK, HandlesType, NodesType

\* Every state of the Hub is well-typed, and no row is ever lost or half
\* written, whatever the Nodes send.
THEOREM TypeCorrect == Spec => []TypeOK
  BY TypeInit, TypeStep, PTL DEF Spec

-----------------------------------------------------------------------------
(* Which Handles bind.                                                     *)

\* No Handle is of an epoch that has not begun.
EpochInv ==
    \A h \in HandleIds : handles[h] # NoRow => handles[h].epoch <= epoch

LEMMA EpochKept ==
    ASSUME [Next]_vars
    PROVE  \/ Start
           \/ epoch' = epoch /\ (running' => running)
<1>1. CASE MessageStep
  BY <1>1, Zenon
  DEF MessageStep, Register, Heartbeat, GrantAck, Fault, Status, TakeOverRequested,
      RobotReady, ControllerStreaming, HandOverRequested, RobotHolding
<1>2. CASE OperatorStep
  BY <1>2, Zenon
  DEF OperatorStep, Assign, Renew, RequestTakeOver, RequestHandOver, Revoke
<1>3. CASE Stop \/ Service \/ Tick \/ UNCHANGED vars
  BY <1>3, Zenon DEF Stop, Service, ServiceTick, Tick, vars
<1> QED
  BY <1>1, <1>2, <1>3 DEF Next

LEMMA EpochInvStep == TypeOK /\ EpochInv /\ [Next]_vars => EpochInv'
<1> SUFFICES ASSUME TypeOK, EpochInv, [Next]_vars,
                    NEW h \in HandleIds, handles'[h] # NoRow
             PROVE  handles'[h].epoch <= epoch'
  BY DEF EpochInv
<1>0. /\ epoch \in Nat /\ handles[h] \in Row \cup {NoRow}
      /\ epoch' \in {epoch, epoch + 1}
  BY EpochKept DEF TypeOK, Start
<1>1. CASE RowsAdvance
  <2>1. handles[h] # NoRow /\ handles'[h].epoch = handles[h].epoch
    BY <1>1 DEF RowsAdvance, Advances, SameGrant
  <2>2. handles[h].epoch \in Nat /\ handles[h].epoch <= epoch
    BY <1>0, <2>1, RowFacts DEF EpochInv
  <2> QED
    BY <1>0, <2>1, <2>2
<1>2. CASE Assignment
  <2>1. PICK r \in Robots, c \in Controllers, g \in HandleIds, delivered \in SUBSET Nodes :
             Assign(r, c, g, delivered)
    BY <1>2 DEF Assignment
  <2>2. handles'[g].epoch = epoch /\ \A k \in HandleIds \ {g} : handles'[k] = handles[k]
    BY <2>1, AssignType
  <2>3. epoch' = epoch
    BY <2>1 DEF Assign
  <2> QED
    BY <1>0, <2>2, <2>3 DEF EpochInv
<1> QED
  BY <1>1, <1>2, StepRows

\* A Handle carries an epoch that this Hub, or one before it, has reached:
\* none waits for a future epoch to become live in.
THEOREM EpochsBound == Spec => []EpochInv
<1>1. Init => EpochInv
  BY DEF Init, EpochInv
<1> QED
  BY <1>1, EpochInvStep, TypeCorrect, PTL DEF Spec

LEMMA LiveFactsPrimed ==
    ASSUME NEW h \in Live'
    PROVE  /\ h \in HandleIds /\ handles'[h] # NoRow /\ handles'[h].epoch = epoch'
           /\ handles'[h].state \notin Terminal /\ running'
  BY DEF Live, Known

\* Where a Handle that binds comes from.
LEMMA LiveStep ==
    ASSUME TypeOK, EpochInv, [Next]_vars, NEW h \in Live'
    PROVE  \/ h \in Live /\ handles[h] \in Row /\ Advances(handles[h], handles'[h])
           \/ \E r \in Robots, c \in Controllers, delivered \in SUBSET Nodes :
                Assign(r, c, h, delivered)
<1>0. /\ h \in HandleIds /\ handles'[h] # NoRow /\ handles'[h].epoch = epoch'
      /\ handles'[h].state \notin Terminal /\ running'
      /\ handles[h] \in Row \cup {NoRow} /\ epoch \in Nat
  BY LiveFactsPrimed DEF TypeOK
<1>1. ASSUME handles[h] # NoRow, Advances(handles[h], handles'[h])
      PROVE  h \in Live
  <2>1. /\ handles'[h].epoch = handles[h].epoch
        /\ handles[h].state \in Terminal => handles'[h].state = handles[h].state
    BY <1>1 DEF Advances, SameGrant
  <2>2. handles[h].epoch \in Nat /\ handles[h].epoch <= epoch
    BY <1>0, <1>1, RowFacts DEF EpochInv
  <2>3. ~Start
    <3>1. SUFFICES ASSUME Start PROVE FALSE
      OBVIOUS
    <3>2. epoch' = epoch + 1
      BY <3>1 DEF Start
    <3>3. handles[h].epoch = epoch + 1
      BY <1>0, <2>1, <3>2
    <3> QED
      BY <1>0, <2>2, <3>3
  <2>4. running /\ epoch' = epoch
    BY <1>0, <2>3, EpochKept
  <2> QED
    BY <1>0, <1>1, <2>1, <2>4 DEF Live, Known
<1>2. CASE RowsAdvance
  BY <1>0, <1>1, <1>2 DEF RowsAdvance
<1>3. CASE Assignment
  <2>1. PICK r \in Robots, c \in Controllers, g \in HandleIds, delivered \in SUBSET Nodes :
             Assign(r, c, g, delivered)
    BY <1>3 DEF Assignment
  <2>2. \A k \in HandleIds \ {g} : handles'[k] = handles[k]
    BY <2>1, AssignType
  <2>3. CASE h = g
    BY <2>1, <2>3
  <2>4. CASE h # g
    <3>1. handles'[h] = handles[h] /\ handles[h] \in Row
      BY <1>0, <2>2, <2>4
    <3> QED
      BY <1>0, <1>1, <3>1, AdvancesRefl
  <2> QED
    BY <2>3, <2>4
<1> QED
  BY <1>2, <1>3, StepRows

\* A Handle, once minted, is never forgotten and keeps its parties, sessions
\* and epoch; an end is final, and a revocation leads only to an end: no
\* renewal, report, hand-over or restart brings authority back.
THEOREM AuthorityEndsForGood ==
    Spec => [][\A h \in HandleIds : handles[h] # NoRow =>
                 /\ handles'[h] # NoRow
                 /\ Parties(h)' = Parties(h)
                 /\ handles'[h].robot_session = handles[h].robot_session
                 /\ handles'[h].controller_session = handles[h].controller_session
                 /\ handles'[h].epoch = handles[h].epoch
                 /\ handles[h].state \in Terminal => handles'[h].state = handles[h].state
                 /\ handles[h].state = "REVOKING" =>
                      handles'[h].state \in Terminal \cup {"REVOKING"}]_vars
<1> DEFINE Kept(h) ==
      /\ handles'[h] # NoRow
      /\ Parties(h)' = Parties(h)
      /\ handles'[h].robot_session = handles[h].robot_session
      /\ handles'[h].controller_session = handles[h].controller_session
      /\ handles'[h].epoch = handles[h].epoch
      /\ handles[h].state \in Terminal => handles'[h].state = handles[h].state
      /\ handles[h].state = "REVOKING" =>
           handles'[h].state \in Terminal \cup {"REVOKING"}
<1>1. TypeOK /\ [Next]_vars => \A h \in HandleIds : handles[h] # NoRow => Kept(h)
  <2> SUFFICES ASSUME TypeOK, [Next]_vars, NEW h \in HandleIds, handles[h] # NoRow
               PROVE  Kept(h)
    OBVIOUS
  <2>0. handles[h] \in Row
    BY DEF TypeOK
  <2>1. ASSUME Advances(handles[h], handles'[h]) PROVE Kept(h)
    <3>1. handles'[h] # NoRow
      BY <2>1, RowFacts DEF Advances, SameGrant
    <3> QED
      BY <2>1, <3>1 DEF Advances, SameGrant, Parties
  <2>2. CASE RowsAdvance
    BY <2>1, <2>2 DEF RowsAdvance
  <2>3. CASE Assignment
    <3>1. PICK r \in Robots, c \in Controllers, g \in HandleIds, delivered \in SUBSET Nodes :
               Assign(r, c, g, delivered)
      BY <2>3 DEF Assignment
    <3>2. handles[g] = NoRow /\ \A k \in HandleIds \ {g} : handles'[k] = handles[k]
      BY <3>1, AssignType DEF Assign
    <3>3. handles'[h] = handles[h]
      BY <3>2
    <3> QED
      BY <2>0, <2>1, <3>3, AdvancesRefl
  <2> QED
    BY <2>2, <2>3, StepRows
<1> QED
  BY <1>1, TypeCorrect, PTL DEF Spec

-----------------------------------------------------------------------------
(* Exclusiveness.                                                          *)

LEMMA ExclusiveStep == TypeOK /\ EpochInv /\ Exclusive /\ [Next]_vars => Exclusive'
<1> SUFFICES ASSUME TypeOK, EpochInv, Exclusive, [Next]_vars,
                    NEW g \in Live', NEW h \in Live', g # h
             PROVE  Parties(g)' \cap Parties(h)' = {}
  BY DEF Exclusive
<1>1. ASSUME NEW k \in Live, handles[k] \in Row, Advances(handles[k], handles'[k])
      PROVE  Parties(k)' = Parties(k)
  BY <1>1 DEF Advances, SameGrant, Parties
\* A fresh Handle takes Nodes that no live Handle binds.
<1>2. ASSUME NEW k \in Live', NEW m \in Live', k # m,
             NEW r \in Robots, NEW c \in Controllers, NEW delivered \in SUBSET Nodes,
             Assign(r, c, k, delivered)
      PROVE  Parties(k)' \cap Parties(m)' = {}
  <2>1. k \in HandleIds /\ m \in HandleIds /\ handles'[m] # NoRow
    BY LiveFactsPrimed
  <2>2. Parties(k)' = {r, c} /\ handles'[m] = handles[m]
    BY <1>2, <2>1, AssignType DEF Parties
  <2>3. Free(r) /\ Free(c)
    BY <1>2 DEF Assign, Schedulable, ControllerAvailable
  <2>4. m \in Live
    <3>1. ~ \E q \in Robots, d \in Controllers, e \in SUBSET Nodes : Assign(q, d, m, e)
      BY <2>1, <2>2 DEF Assign
    <3> QED
      BY <3>1, LiveStep
  <2> QED
    BY <2>2, <2>3, <2>4 DEF Free, Parties
<1>3. CASE g \in Live /\ h \in Live
  <2>1. ~ \E r \in Robots, c \in Controllers, delivered \in SUBSET Nodes :
            Assign(r, c, g, delivered) \/ Assign(r, c, h, delivered)
    BY <1>3 DEF Assign, Live, Known
  <2>2. Parties(g)' = Parties(g) /\ Parties(h)' = Parties(h)
    BY <1>1, <1>3, <2>1, LiveStep
  <2> QED
    BY <1>3, <2>2 DEF Exclusive
<1>4. CASE g \notin Live
  BY <1>2, <1>4, LiveStep
<1>5. CASE h \notin Live
  BY <1>2, <1>5, LiveStep
<1> QED
  BY <1>3, <1>4, <1>5

\* Two Handles that bind never share a Node, whatever restarts, expiries and
\* reassignments led here.
THEOREM HandlesAreExclusive == Spec => []Exclusive
<1>1. Init => Exclusive
  BY DEF Init, Exclusive, Live, Known
<1> QED
  BY <1>1, ExclusiveStep, EpochsBound, TypeCorrect, PTL DEF Spec

-----------------------------------------------------------------------------
(* The Nodes that a Handle binds.                                          *)

OnlineRegistered == \A n \in Nodes : nodes[n].online => nodes[n].session # 0

\* What these steps do to one Node.
LEMMA AssignNode ==
    ASSUME TypeOK, NEW r \in Robots, NEW c \in Controllers, NEW h \in HandleIds,
           NEW delivered \in SUBSET Nodes, Assign(r, c, h, delivered), NEW n \in Nodes
    PROVE  /\ nodes'[n].session = nodes[n].session
           /\ nodes[n].online => nodes'[n].online
           /\ nodes'[n].online => nodes[n].online
<1>1. nodes'[n] = IF n \in {r, c} THEN [nodes[n] EXCEPT !.report = NoReport] ELSE nodes[n]
  BY DEF Assign
<1>2. nodes[n] \in Entry
  BY DEF TypeOK
<1> QED
  BY <1>1, <1>2 DEF Entry

LEMMA ServiceNode ==
    ASSUME TypeOK, NEW overdue, NEW due, NEW recent, NEW delivered,
           ServiceTick(overdue, due, recent, delivered), NEW n \in Nodes
    PROVE  /\ nodes'[n].session = nodes[n].session
           /\ nodes'[n].report = nodes[n].report
           /\ nodes'[n].online => nodes[n].online
           /\ n \notin overdue => nodes'[n] = nodes[n]
<1>1. nodes'[n] = IF n \in overdue THEN [nodes[n] EXCEPT !.online = FALSE] ELSE nodes[n]
  BY DEF ServiceTick
<1>2. nodes[n] \in Entry
  BY DEF TypeOK
<1> QED
  BY <1>1, <1>2 DEF Entry

\* What a step can do to the presence of one Node.
Stays(n) ==
    /\ nodes'[n].session = nodes[n].session
    /\ nodes[n].online => nodes'[n].online
    /\ nodes'[n].online => nodes[n].online \/ nodes[n].session # 0

LEMMA PresenceStep ==
    ASSUME TypeOK, [Next]_vars, NEW n \in Nodes
    PROVE  \/ Start \/ Stop
           \/ \E s \in 1..MaxSession : Register(n, s)
           \/ \E overdue, due, recent, delivered :
                ServiceTick(overdue, due, recent, delivered) /\ n \in overdue
           \/ Stays(n)
<1>0. nodes \in [Nodes -> Entry]
  BY DEF TypeOK
\* A message is heard from a Node that has registered.
<1>1. ASSUME NEW m \in Nodes, nodes[m].session # 0,
             \/ nodes' = Heard(m)
             \/ \E report \in Report \cup {NoReport} :
                  nodes' = [Heard(m) EXCEPT ![m].report = report]
      PROVE  Stays(n)
  BY <1>0, <1>1 DEF Heard, Entry, Stays
<1>2. ASSUME nodes' = nodes PROVE Stays(n)
  BY <1>2 DEF Stays
<1>3. CASE MessageStep
  <2>1. ASSUME NEW m \in Nodes, NEW s \in 1..MaxSession, Register(m, s), m # n
        PROVE  Stays(n)
    BY <1>0, <2>1 DEF Register, Stays
  <2>2. ASSUME NEW m \in Nodes, Heartbeat(m) PROVE Stays(n)
    BY <1>1, <2>2 DEF Heartbeat
  <2>3. ASSUME NEW m \in Nodes, NEW h, GrantAck(m, h) PROVE Stays(n)
    BY <1>1, <2>3 DEF GrantAck, Names
  <2>4. ASSUME NEW m \in Nodes, NEW report \in Report, Status(m, report) PROVE Stays(n)
    BY <1>1, <2>4 DEF Status
  <2>5. ASSUME NEW h \in Live, RobotReady(h) \/ ControllerStreaming(h) \/ RobotHolding(h)
        PROVE  Stays(n)
    <3>1. handles[h].robot \in Nodes /\ handles[h].controller \in Nodes
      BY PartyFacts DEF Live
    <3> QED
      BY <1>1, <2>5, <3>1
      DEF RobotReady, ControllerStreaming, RobotHolding, Speaks, Names
  <2>6. ASSUME NEW m, NEW h, Fault(m, h) \/ TakeOverRequested(h) \/ HandOverRequested(h)
        PROVE  Stays(n)
    BY <1>2, <2>6 DEF Fault, TakeOverRequested, HandOverRequested
  <2> QED
    BY <1>3, <2>1, <2>2, <2>3, <2>4, <2>5, <2>6, ConstantsAssumption
    DEF MessageStep, Nodes
<1>4. CASE OperatorStep
  <2>1. ASSUME NEW r \in Robots, NEW c \in Controllers, NEW h \in HandleIds,
               NEW delivered \in SUBSET Nodes, Assign(r, c, h, delivered)
        PROVE  Stays(n)
    BY <2>1, AssignNode DEF Stays
  <2>2. ASSUME NEW h, Renew(h) \/ RequestTakeOver(h) \/ RequestHandOver(h) \/ Revoke(h)
        PROVE  Stays(n)
    BY <1>2, <2>2 DEF Renew, RequestTakeOver, RequestHandOver, Revoke
  <2> QED
    BY <1>4, <2>1, <2>2 DEF OperatorStep
<1>5. ASSUME NEW overdue, NEW due, NEW recent, NEW delivered,
             ServiceTick(overdue, due, recent, delivered), n \notin overdue
      PROVE  Stays(n)
  <2>1. nodes'[n] = nodes[n]
    BY <1>5, ServiceNode
  <2> QED
    BY <2>1 DEF Stays
<1>6. CASE Tick \/ UNCHANGED vars
  BY <1>2, <1>6 DEF Tick, vars
<1> QED
  BY <1>3, <1>4, <1>5, <1>6 DEF Next, Service

LEMMA OnlineStep == TypeOK /\ OnlineRegistered /\ [Next]_vars => OnlineRegistered'
<1> SUFFICES ASSUME TypeOK, OnlineRegistered, [Next]_vars, NEW n \in Nodes,
                    nodes'[n].online
             PROVE  nodes'[n].session # 0
  BY DEF OnlineRegistered
<1>1. ~Start /\ ~Stop
  BY DEF Start, Stop, Unknown
<1>2. ASSUME NEW s \in 1..MaxSession, Register(n, s) PROVE nodes'[n].session # 0
  BY <1>2 DEF Register, TypeOK
<1>3. ASSUME NEW overdue, NEW due, NEW recent, NEW delivered,
             ServiceTick(overdue, due, recent, delivered)
      PROVE  nodes'[n].session # 0
  <2>1. /\ nodes'[n].session = nodes[n].session
        /\ nodes'[n].online => nodes[n].online
    BY <1>3, ServiceNode
  <2> QED
    BY <2>1 DEF OnlineRegistered
<1> QED
  BY <1>1, <1>2, <1>3, PresenceStep DEF OnlineRegistered, Stays

\* A Node that is online has a registered session, so what it last reported
\* belongs to that session, whichever sessions it replaced.
THEOREM OnlineNodesRegistered == Spec => []OnlineRegistered
<1>1. Init => OnlineRegistered
  BY DEF Init, OnlineRegistered, Unknown
<1> QED
  BY <1>1, OnlineStep, TypeCorrect, PTL DEF Spec

\* BoundNodesPresent, without the choice of the party.
Present(h) ==
    /\ nodes[handles[h].robot].online /\ nodes[handles[h].controller].online
    /\ nodes[handles[h].robot].session = handles[h].robot_session
    /\ nodes[handles[h].controller].session = handles[h].controller_session

LEMMA PresentBound ==
    ASSUME TypeOK
    PROVE  BoundNodesPresent <=> \A h \in Live : handles[h].state # "REVOKING" => Present(h)
<1>1. ASSUME NEW h \in Live
      PROVE  /\ NamesSession(h, handles[h].robot, nodes[handles[h].robot].session)
                <=> nodes[handles[h].robot].session = handles[h].robot_session
             /\ NamesSession(h, handles[h].controller, nodes[handles[h].controller].session)
                <=> nodes[handles[h].controller].session = handles[h].controller_session
  <2>1. handles[h].robot # handles[h].controller
    BY LiveFacts, RowFacts DEF Live
  <2> QED
    BY <2>1 DEF NamesSession
<1> QED
  BY <1>1 DEF BoundNodesPresent, Present

\* Whoever loses a Node on the way is revoked or has ended.
LEMMA LostNodeRevokes ==
    ASSUME TypeOK, OnlineRegistered, [Next]_vars, NEW h \in Live, h \in Live',
           Present(h), handles'[h].state # "REVOKING", NEW n \in Parties(h)
    PROVE  nodes'[n].session = nodes[n].session /\ (nodes[n].online => nodes'[n].online)
<1>0. /\ h \in HandleIds /\ handles[h] \in Row /\ n \in Nodes
      /\ nodes[n].online /\ nodes[n].session # 0
      /\ handles'[h].state \notin Terminal /\ running'
  <2>1. h \in HandleIds /\ handles[h] \in Row
    BY LiveFacts DEF Live
  <2>2. n \in Nodes /\ nodes[n].online
    BY PartyFacts DEF Live, Parties, Present
  <2> QED
    BY <2>1, <2>2, LiveFactsPrimed DEF OnlineRegistered
<1>1. ~Start /\ ~Stop
  BY DEF Start, Stop, Live, Known
<1>2. ASSUME NEW s \in 1..MaxSession, Register(n, s)
      PROVE  nodes'[n].session = nodes[n].session /\ nodes'[n].online
  <2>1. nodes'[n] = [session |-> s, online |-> TRUE, report |-> NoReport]
    BY <1>0, <1>2 DEF Register, TypeOK
  <2>2. CASE s = nodes[n].session
    BY <2>1, <2>2
  <2>3. CASE s # nodes[n].session
    <3>1. handles' = Revoked({k \in Live : NamesSession(k, n, nodes[n].session)})
      BY <1>0, <1>2, <2>3 DEF Register
    <3>2. NamesSession(h, n, nodes[n].session)
      BY DEF NamesSession, Parties, Present
    <3>3. handles'[h] = WithState(handles[h], "REVOKING")
      BY <1>0, <3>1, <3>2 DEF Revoked
    <3> QED
      BY <1>0, <3>3, WithStateFields, States
  <2> QED
    BY <2>2, <2>3
<1>3. ASSUME NEW overdue, NEW due, NEW recent, NEW delivered,
             ServiceTick(overdue, due, recent, delivered), n \in overdue
      PROVE  FALSE
  <2> DEFINE row == Served(h, overdue, due, delivered)
             registry == [m \in Nodes |-> IF m \in overdue
                                          THEN [nodes[m] EXCEPT !.online = FALSE]
                                          ELSE nodes[m]]
  <2>1. handles'[h] = Corrected(h, row, registry, recent)
    BY <1>0, <1>3 DEF ServiceTick
  <2>2. row \in Row
    BY ServedAdvances DEF Advances, SameGrant
  <2>3. row.state \in {"REVOKING", "EXPIRED"}
    <3>1. Silent(h, overdue)
      BY <1>3 DEF Silent
    <3>2. CASE handles[h].left = 0
      BY <1>0, <3>2, WithStateFields, States DEF Served
    <3>3. CASE handles[h].left # 0
      BY <1>0, <3>1, <3>3 DEF Served, Row
    <3> QED
      BY <3>2, <3>3
  <2> HIDE DEF row, registry
  <2>4. Advances(row, handles'[h])
    BY <2>1, <2>2, CorrectedAdvances
  <2> QED
    BY <1>0, <2>3, <2>4, States DEF Advances
<1> QED
  BY <1>0, <1>1, <1>2, <1>3, PresenceStep DEF Stays

LEMMA PresentStep ==
    TypeOK /\ EpochInv /\ OnlineRegistered /\ BoundNodesPresent /\ [Next]_vars
      => BoundNodesPresent'
<1> SUFFICES ASSUME TypeOK, EpochInv, OnlineRegistered, BoundNodesPresent, [Next]_vars
             PROVE  BoundNodesPresent'
  OBVIOUS
<1>0. TypeOK'
  BY TypeStep
<1>1. ASSUME NEW h \in Live', handles'[h].state # "REVOKING" PROVE Present(h)'
  <2>1. CASE h \in Live /\ handles[h] \in Row /\ Advances(handles[h], handles'[h])
    <3>1. handles[h].state # "REVOKING"
      BY <1>1, <2>1, LiveFactsPrimed DEF Advances
    <3>2. Present(h)
      BY <2>1, <3>1, PresentBound
    <3>3. /\ handles'[h].robot = handles[h].robot
          /\ handles'[h].controller = handles[h].controller
          /\ handles'[h].robot_session = handles[h].robot_session
          /\ handles'[h].controller_session = handles[h].controller_session
      BY <2>1 DEF Advances, SameGrant
    <3>4. \A n \in Parties(h) : /\ nodes'[n].session = nodes[n].session
                                /\ nodes[n].online => nodes'[n].online
      BY <1>1, <2>1, <3>2, LostNodeRevokes
    <3> QED
      BY <3>2, <3>3, <3>4 DEF Present, Parties
  <2>2. ASSUME NEW r \in Robots, NEW c \in Controllers, NEW delivered \in SUBSET Nodes,
               Assign(r, c, h, delivered)
        PROVE  Present(h)'
    <3>1. nodes[r].online /\ nodes[c].online
      BY <2>2 DEF Assign, Schedulable, ControllerAvailable
    <3>2. h \in HandleIds /\ r \in Nodes /\ c \in Nodes
      BY LiveFactsPrimed DEF Nodes
    <3>3. /\ handles'[h].robot = r /\ handles'[h].controller = c
          /\ handles'[h].robot_session = nodes[r].session
          /\ handles'[h].controller_session = nodes[c].session
      BY <2>2, <3>2, AssignType
    <3>4. /\ nodes'[r].session = nodes[r].session /\ nodes'[r].online
          /\ nodes'[c].session = nodes[c].session /\ nodes'[c].online
      BY <2>2, <3>1, <3>2, AssignNode
    <3> QED
      BY <3>1, <3>3, <3>4 DEF Present
  <2> QED
    BY <2>1, <2>2, LiveStep
<1>2. BoundNodesPresent' <=>
        \A h \in Live' : handles'[h].state # "REVOKING" => Present(h)'
  <2>1. ASSUME NEW h \in Live'
        PROVE  /\ NamesSession(h, handles[h].robot, nodes[handles[h].robot].session)'
                  <=> nodes'[handles'[h].robot].session = handles'[h].robot_session
               /\ NamesSession(h, handles[h].controller, nodes[handles[h].controller].session)'
                  <=> nodes'[handles'[h].controller].session = handles'[h].controller_session
    <3>1. handles'[h].robot # handles'[h].controller
      BY <1>0, LiveFactsPrimed, RowFacts DEF TypeOK
    <3> QED
      BY <3>1 DEF NamesSession
  <2> QED
    BY <2>1 DEF BoundNodesPresent, Present
<1> QED
  BY <1>1, <1>2

\* A Handle that may still lead to motion binds two Nodes that are online in
\* the very sessions it was granted to, whatever sessions come and go.
THEOREM BoundNodesArePresent == Spec => []BoundNodesPresent
<1>1. Init => BoundNodesPresent
  BY DEF Init, BoundNodesPresent, Live, Known
<1> QED
  BY <1>1, PresentStep, EpochsBound, OnlineNodesRegistered, TypeCorrect, PTL DEF Spec

-----------------------------------------------------------------------------
(* Activity and reports.                                                   *)

\* A registered report changes only when its Node reports.
Silence(n) == nodes'[n].report \in {nodes[n].report, NoReport}

LEMMA ReportStep ==
    ASSUME TypeOK, [Next]_vars, NEW n \in Nodes
    PROVE  \/ Silence(n)
           \/ nodes'[n].report \in Report /\ Status(n, nodes'[n].report)
<1>0. nodes \in [Nodes -> Entry]
  BY DEF TypeOK
<1>1. ASSUME NEW m \in Nodes, nodes' = Heard(m) PROVE Silence(n)
  BY <1>0, <1>1 DEF Heard, Entry, Silence
<1>2. CASE Start \/ Stop
  BY <1>2 DEF Start, Stop, Unknown, Silence
<1>3. CASE Service
  BY <1>3, ServiceNode DEF Service, Silence
<1>4. CASE OperatorStep
  <2>1. ASSUME NEW r \in Robots, NEW c \in Controllers, NEW h \in HandleIds,
               NEW delivered \in SUBSET Nodes, Assign(r, c, h, delivered)
        PROVE  Silence(n)
    <3>1. nodes'[n] = IF n \in {r, c} THEN [nodes[n] EXCEPT !.report = NoReport] ELSE nodes[n]
      BY <2>1 DEF Assign
    <3> QED
      BY <1>0, <3>1 DEF Entry, Silence
  <2>2. ASSUME NEW h, Renew(h) \/ RequestTakeOver(h) \/ RequestHandOver(h) \/ Revoke(h)
        PROVE  Silence(n)
    BY <2>2 DEF Renew, RequestTakeOver, RequestHandOver, Revoke, Silence
  <2> QED
    BY <1>4, <2>1, <2>2 DEF OperatorStep
<1>5. CASE Tick \/ UNCHANGED vars
  BY <1>5 DEF Tick, vars, Silence
<1>6. CASE MessageStep
  <2>1. ASSUME NEW m \in Nodes, NEW s \in 1..MaxSession, Register(m, s) PROVE Silence(n)
    BY <1>0, <2>1 DEF Register, Entry, Silence
  <2>2. ASSUME NEW m \in Nodes, Heartbeat(m) PROVE Silence(n)
    BY <1>1, <2>2 DEF Heartbeat
  <2>3. ASSUME NEW m \in Nodes, NEW h, GrantAck(m, h) PROVE Silence(n)
    BY <1>0, <2>3 DEF GrantAck, Heard, Entry, Silence
  <2>4. ASSUME NEW m \in Nodes, NEW report \in Report, Status(m, report)
        PROVE  Silence(n) \/ (nodes'[n].report \in Report /\ Status(n, nodes'[n].report))
    <3>1. nodes' = [Heard(m) EXCEPT ![m].report = report]
      BY <2>4 DEF Status
    <3>2. CASE m = n
      <4>1. nodes'[n].report = report
        BY <1>0, <3>1, <3>2 DEF Heard, Entry
      <4> QED
        BY <2>4, <3>2, <4>1
    <3>3. CASE m # n
      BY <1>0, <3>1, <3>3 DEF Heard, Entry, Silence
    <3> QED
      BY <3>2, <3>3
  <2>5. ASSUME NEW h \in Live, RobotReady(h) \/ ControllerStreaming(h) \/ RobotHolding(h)
        PROVE  Silence(n)
    <3>1. handles[h].robot \in Nodes /\ handles[h].controller \in Nodes
      BY PartyFacts DEF Live
    <3> QED
      BY <1>1, <2>5, <3>1 DEF RobotReady, ControllerStreaming, RobotHolding
  <2>6. ASSUME NEW m, NEW h, Fault(m, h) \/ TakeOverRequested(h) \/ HandOverRequested(h)
        PROVE  Silence(n)
    BY <2>6 DEF Fault, TakeOverRequested, HandOverRequested, Silence
  <2> QED
    BY <1>6, <2>1, <2>2, <2>3, <2>4, <2>5, <2>6, ConstantsAssumption
    DEF MessageStep, Nodes
<1> QED
  BY <1>2, <1>3, <1>4, <1>5, <1>6 DEF Next

\* A report of danger ends or revokes the Handle of the Node that sends it.
LEMMA DangerEnds ==
    ASSUME TypeOK, NEW h \in Live, h \in Live', handles'[h].state # "REVOKING",
           NEW n \in Parties(h), NEW report, Status(n, report)
    PROVE  report.control # "SAFETY" /\ report.runtime # "FAULT"
<1>0. h \in HandleIds /\ handles[h] \in Row /\ handles'[h].state \notin Terminal
  BY LiveFacts, LiveFactsPrimed DEF Live
<1>1. handles'[h] = IF report.runtime = "FAULT" THEN WithState(handles[h], "FAULT")
                    ELSE IF report.control = "SAFETY" THEN WithState(handles[h], "REVOKING")
                    ELSE handles[h]
  BY <1>0 DEF Status, AfterReport
<1>2. /\ WithState(handles[h], "FAULT").state = "FAULT"
      /\ WithState(handles[h], "REVOKING").state = "REVOKING"
  BY <1>0, WithStateFields, States
<1> QED
  BY <1>0, <1>1, <1>2, States

LEMMA EarnedStep ==
    TypeOK /\ EpochInv /\ ActiveIsEarned /\ [Next]_vars => ActiveIsEarned'
<1> DEFINE Earned(h) ==
             handles[h].state \in {"ACTIVE", "HANDING_OVER"} =>
               handles[h].robot_ready /\ handles[h].controller_streaming
           Calm(h) ==
             handles[h].state # "REVOKING" =>
               \A n \in Parties(h) : nodes[n].report # NoReport =>
                 nodes[n].report.control # "SAFETY" /\ nodes[n].report.runtime # "FAULT"
<1> SUFFICES ASSUME TypeOK, EpochInv, ActiveIsEarned, [Next]_vars, NEW h \in Live'
             PROVE  Earned(h)' /\ Calm(h)'
  BY DEF ActiveIsEarned
<1>1. CASE h \in Live /\ handles[h] \in Row /\ Advances(handles[h], handles'[h])
  <2>1. Earned(h)'
    BY <1>1 DEF Advances, SameGrant, ActiveIsEarned
  <2>2. ASSUME handles'[h].state # "REVOKING", NEW n \in Parties(h)',
               nodes'[n].report # NoReport
        PROVE  nodes'[n].report.control # "SAFETY" /\ nodes'[n].report.runtime # "FAULT"
    <3>1. Parties(h)' = Parties(h) /\ handles[h].state # "REVOKING"
      BY <1>1, <2>2, LiveFactsPrimed DEF Advances, SameGrant, Parties
    <3>2. n \in Parties(h) /\ n \in Nodes
      BY <1>1, <3>1, PartyFacts DEF Live, Parties
    <3>3. CASE nodes'[n].report \in {nodes[n].report, NoReport}
      BY <1>1, <2>2, <3>1, <3>2, <3>3 DEF ActiveIsEarned
    <3>4. CASE Status(n, nodes'[n].report)
      BY <1>1, <2>2, <3>2, <3>4, DangerEnds
    <3> QED
      BY <3>2, <3>3, <3>4, ReportStep DEF Silence
  <2> QED
    BY <2>1, <2>2
<1>2. ASSUME NEW r \in Robots, NEW c \in Controllers, NEW delivered \in SUBSET Nodes,
             Assign(r, c, h, delivered)
      PROVE  Earned(h)' /\ Calm(h)'
  <2>1. h \in HandleIds /\ r \in Nodes /\ c \in Nodes
    BY LiveFactsPrimed DEF Nodes
  <2>2. /\ handles'[h].state = "ASSIGNED"
        /\ handles'[h].robot = r /\ handles'[h].controller = c
    BY <1>2, <2>1, AssignType
  <2>3. nodes'[r].report = NoReport /\ nodes'[c].report = NoReport
    <3>1. ASSUME NEW n \in {r, c} PROVE nodes'[n].report = NoReport
      <4>1. nodes'[n] = [nodes[n] EXCEPT !.report = NoReport]
        BY <1>2, <2>1 DEF Assign
      <4> QED
        BY <2>1, <4>1 DEF TypeOK, Entry
    <3> QED
      BY <3>1
  <2> QED
    BY <2>2, <2>3 DEF Parties
<1> QED
  BY <1>1, <1>2, LiveStep

\* A Handle is ACTIVE only after both acknowledgements, and no Handle binds a
\* Node that last reported SAFETY or a fault except one that is being revoked.
THEOREM ActivityIsEarned == Spec => []ActiveIsEarned
<1>1. Init => ActiveIsEarned
  BY DEF Init, ActiveIsEarned, Live, Known
<1> QED
  BY <1>1, EarnedStep, EpochsBound, TypeCorrect, PTL DEF Spec

=============================================================================
