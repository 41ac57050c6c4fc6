------------------------- MODULE HandleStore_proofs -------------------------
(***************************************************************************)
(* Theorems about HandleStore for every set of nodes and ids and every     *)
(* value of the bounds.                                                    *)
(***************************************************************************)
EXTENDS HandleStore, TLAPS

\* What a step does to one row; every other property follows from this view.
\* A row is minted, renewed, moved by a request, expired by a new epoch, or
\* left alone.
RowKept(h) == rows'[h] = rows[h]

RowMoved(h) ==
    /\ Nonterminal(h)
    /\ \E target \in HandleState, n \in Nat :
         /\ n > rows[h].transition_sequence
         /\ LawfulEdge(rows[h].state, target)
         /\ rows'[h] = Moved(rows[h], target, n)

RowRenewed(h) ==
    /\ Nonterminal(h) /\ now < rows[h].expires_at
    /\ \E t \in Nat : rows'[h] = [rows[h] EXCEPT !.expires_at = t]

RowMinted(h) ==
    /\ rows[h] = NoRow
    /\ \E r \in Robots, c \in Controllers, t \in Nat :
         /\ ~HasNonterminalHandle(r, c)
         /\ rows'[h] = [hub_epoch |-> epoch, robot_id |-> r, controller_id |-> c,
                        fencing_token |-> fencing[r] + 1, expires_at |-> t,
                        state |-> "ASSIGNED", transition_sequence |-> 0]
         /\ fencing' = [fencing EXCEPT ![r] = @ + 1]
         /\ \A g \in HandleIds : g # h => RowKept(g)

-----------------------------------------------------------------------------
\* The lifecycle: a requested transition leaves a live state only, along a
\* lawful edge (handles.py, _ALLOWED).
LEMMA AllowedIsLawful ==
    ASSUME NEW s \in HandleState, NEW t \in HandleState, t \in Allowed[s]
    PROVE  s \notin Terminal /\ LawfulEdge(s, t)
  BY DEF Allowed, LawfulEdge, HandleState, Terminal

\* Moving a row gives a row: only its state and sequence change.
LEMMA MovedIsRow ==
    ASSUME NEW row \in Row, NEW t \in HandleState, NEW n \in Nat
    PROVE  /\ Moved(row, t, n) \in Row
           /\ Moved(row, t, n).state = t
           /\ Moved(row, t, n).transition_sequence = n
           /\ Moved(row, t, n).hub_epoch = row.hub_epoch
           /\ Moved(row, t, n).robot_id = row.robot_id
           /\ Moved(row, t, n).controller_id = row.controller_id
           /\ Moved(row, t, n).fencing_token = row.fencing_token
           /\ Moved(row, t, n).expires_at = row.expires_at
  BY DEF Moved, Row

\* What is appended to the history is a row of it.
LEMMA EntryIsHistory ==
    ASSUME NEW t \in HandleState, NEW n \in Nat
    PROVE  Entry(t, n) \in HistoryRow
  BY DEF Entry, HistoryRow

-----------------------------------------------------------------------------
\* Type correctness of the store.
LEMMA TypeInit == Init => TypeOK
  BY DEF Init, TypeOK

LEMMA TypeStep == TypeOK /\ [Next]_vars => TypeOK'
<1> SUFFICES ASSUME TypeOK, [Next]_vars PROVE TypeOK'
  OBVIOUS
<1> USE DEF TypeOK
<1>1. CASE BeginEpoch
  BY <1>1 DEF BeginEpoch
<1>2. CASE InvalidatePreviousEpochs
  <2>e. "EXPIRED" \in HandleState /\ "ASSIGNED" \in HandleState
    BY DEF HandleState
  <2>1. ASSUME NEW h \in HandleIds, FromEarlierEpoch(h)
        PROVE  /\ rows[h].transition_sequence + 1 \in Nat
               /\ Moved(rows[h], "EXPIRED", rows[h].transition_sequence + 1)
                    \in Row
    <3>1. rows[h] \in Row
      BY <2>1 DEF FromEarlierEpoch, Nonterminal, Exists
    <3>2. rows[h].transition_sequence + 1 \in Nat
      BY <3>1 DEF Row
    <3> QED
      BY <2>e, <3>1, <3>2, MovedIsRow
  <2>2. rows' \in [HandleIds -> Row \cup {NoRow}]
    BY <1>2, <2>1 DEF InvalidatePreviousEpochs
  <2>3. \A h \in HandleIds : FromEarlierEpoch(h) =>
          Append(transitions[h], Entry("EXPIRED", rows[h].transition_sequence + 1))
            \in Seq(HistoryRow)
    BY <2>e, <2>1, EntryIsHistory DEF TypeOK
  <2>4. transitions' \in [HandleIds -> Seq(HistoryRow)]
    BY <1>2, <2>3 DEF InvalidatePreviousEpochs
  <2> QED
    BY <1>2, <2>2, <2>4 DEF InvalidatePreviousEpochs
<1>3. ASSUME NEW r \in Robots, NEW c \in Controllers, NEW h \in HandleIds,
             NEW ttl \in 1..MaxTtl, CreateAssignment(r, c, h, ttl)
      PROVE  TypeOK'
  <2>1. now + ttl \in Nat /\ fencing[r] + 1 \in Nat
    BY <1>3, BoundsAssumption
  <2>2. rows' \in [HandleIds -> Row \cup {NoRow}]
    BY <1>3, <2>1 DEF CreateAssignment, NextToken, Row, HandleState
  <2>3. <<Entry("ASSIGNED", 0)>>
          \in Seq(HistoryRow)
    BY EntryIsHistory DEF HandleState
  <2> QED
    BY <1>3, <2>1, <2>2, <2>3 DEF CreateAssignment, NextToken
<1>4. ASSUME NEW h \in HandleIds, NEW expires \in 1..(MaxTime + MaxTtl),
             RenewHandle(h, expires)
      PROVE  TypeOK'
  <2>1. expires \in Nat /\ rows[h] \in Row
    BY <1>4, BoundsAssumption DEF RenewHandle, Nonterminal, Exists
  <2>2. [rows[h] EXCEPT !.expires_at = expires] \in Row
    BY <2>1 DEF Row
  <2>3. rows' \in [HandleIds -> Row \cup {NoRow}]
    BY <1>4, <2>2 DEF RenewHandle
  <2> QED
    BY <1>4, <2>3 DEF RenewHandle
<1>5. ASSUME NEW h \in HandleIds, NEW target \in HandleState,
             NEW sequence \in 0..MaxSequence, Transition(h, target, sequence)
      PROVE  TypeOK'
  <2>1. sequence \in Nat /\ rows[h] \in Row
    BY <1>5, BoundsAssumption DEF Transition, Exists
  <2>2. Moved(rows[h], target, sequence) \in Row
    BY <2>1, MovedIsRow
  <2>3. rows' \in [HandleIds -> Row \cup {NoRow}]
    BY <1>5, <2>2 DEF Transition
  <2>4. Append(transitions[h], Entry(target, sequence))
          \in Seq(HistoryRow)
    BY <2>1, EntryIsHistory DEF TypeOK
  <2> QED
    BY <1>5, <2>3, <2>4 DEF Transition
<1>6. CASE Crash
  BY <1>6 DEF Crash
<1>7. CASE Tick
  BY <1>7 DEF Tick
<1>8. CASE UNCHANGED vars
  BY <1>8 DEF vars
<1> QED
  BY <1>1, <1>2, <1>3, <1>4, <1>5, <1>6, <1>7, <1>8 DEF Next

\* The tables of the store keep their types.
THEOREM TypeCorrect == Spec => []TypeOK
  BY TypeInit, TypeStep, PTL DEF Spec

-----------------------------------------------------------------------------
\* Every step changes rows in the four ways above, and tokens only when it
\* mints one Handle.
LEMMA RowsStep ==
    ASSUME TypeOK, [Next]_vars
    PROVE  \/ \E h \in HandleIds : RowMinted(h)
           \/ /\ fencing' = fencing
              /\ \A h \in HandleIds : RowKept(h) \/ RowMoved(h) \/ RowRenewed(h)
<1> USE DEF TypeOK
<1>2. CASE InvalidatePreviousEpochs
  <2>1. ASSUME NEW h \in HandleIds, FromEarlierEpoch(h)
        PROVE  RowMoved(h)
    <3>1. rows[h] \in Row /\ Nonterminal(h)
      BY <2>1 DEF FromEarlierEpoch, Nonterminal, Exists
    <3>2. /\ rows[h].transition_sequence + 1 \in Nat
          /\ rows[h].transition_sequence + 1 > rows[h].transition_sequence
          /\ LawfulEdge(rows[h].state, "EXPIRED")
          /\ "EXPIRED" \in HandleState
      BY <3>1 DEF Row, Nonterminal, LawfulEdge, HandleState
    <3> QED
      BY <1>2, <2>1, <3>1, <3>2 DEF InvalidatePreviousEpochs, RowMoved
  <2> QED
    BY <1>2, <2>1 DEF InvalidatePreviousEpochs, RowKept
<1>3. ASSUME NEW r \in Robots, NEW c \in Controllers, NEW h \in HandleIds,
             NEW ttl \in 1..MaxTtl, CreateAssignment(r, c, h, ttl)
      PROVE  RowMinted(h)
  <2>1. now + ttl \in Nat
    BY BoundsAssumption
  <2>2. \A g \in HandleIds : g # h => RowKept(g)
    BY <1>3 DEF CreateAssignment, RowKept
  <2> QED
    BY <1>3, <2>1, <2>2
    DEF CreateAssignment, RowMinted, Exists, NextToken
<1>4. ASSUME NEW h \in HandleIds, NEW expires \in 1..(MaxTime + MaxTtl),
             RenewHandle(h, expires)
      PROVE  /\ fencing' = fencing
             /\ RowRenewed(h)
             /\ \A g \in HandleIds : g # h => RowKept(g)
  <2>1. expires \in Nat
    BY BoundsAssumption
  <2>2. rows'[h] = [rows[h] EXCEPT !.expires_at = expires]
    BY <1>4 DEF RenewHandle
  <2>3. RowRenewed(h)
    BY <1>4, <2>1, <2>2 DEF RenewHandle, RowRenewed
  <2> QED
    BY <1>4, <2>3 DEF RenewHandle, RowKept
<1>5. ASSUME NEW h \in HandleIds, NEW target \in HandleState,
             NEW sequence \in 0..MaxSequence, Transition(h, target, sequence)
      PROVE  /\ fencing' = fencing
             /\ RowMoved(h)
             /\ \A g \in HandleIds : g # h => RowKept(g)
  <2>1. sequence \in Nat /\ rows[h] \in Row
    BY <1>5, BoundsAssumption DEF Transition, Exists
  <2>2. rows[h].state \in HandleState /\ target \in Allowed[rows[h].state]
    BY <1>5, <2>1 DEF Transition, TransitionApplies, Row
  <2>3. rows[h].state \notin Terminal /\ LawfulEdge(rows[h].state, target)
    BY <2>2, AllowedIsLawful
  <2>4. rows'[h] = Moved(rows[h], target, sequence)
    BY <1>5 DEF Transition
  <2>5. RowMoved(h)
    BY <1>5, <2>1, <2>3, <2>4
    DEF Transition, TransitionApplies, RowMoved, Nonterminal, Exists
  <2> QED
    BY <1>5, <2>5 DEF Transition, RowKept
<1>6. CASE UNCHANGED <<rows, fencing>>
  BY <1>6 DEF RowKept
<1> QED
  BY <1>2, <1>3, <1>4, <1>5, <1>6
  DEF Next, BeginEpoch, Crash, Tick, vars, InvalidatePreviousEpochs

\* A row that is not minted keeps its parties, epoch and token, and is live
\* only if it was.
LEMMA IdentityKept ==
    ASSUME TypeOK, NEW h \in HandleIds,
           RowKept(h) \/ RowMoved(h) \/ RowRenewed(h)
    PROVE  /\ Exists(h)' <=> Exists(h)
           /\ Exists(h) => /\ rows'[h].robot_id = rows[h].robot_id
                           /\ rows'[h].controller_id = rows[h].controller_id
                           /\ rows'[h].hub_epoch = rows[h].hub_epoch
                           /\ rows'[h].fencing_token = rows[h].fencing_token
           /\ Nonterminal(h)' => Nonterminal(h)
           /\ rows[h].state \in Terminal => RowKept(h)
<1>1. CASE RowKept(h)
  BY <1>1 DEF RowKept, Exists, Nonterminal
<1>2. CASE RowMoved(h)
  <2>1. rows[h] \in Row /\ rows[h].state \notin Terminal
    BY <1>2 DEF RowMoved, Nonterminal, Exists, TypeOK
  <2>2. PICK t \in HandleState, n \in Nat : rows'[h] = Moved(rows[h], t, n)
    BY <1>2 DEF RowMoved
  <2>3. rows'[h] \in Row
    BY <2>1, <2>2, MovedIsRow
  <2> QED
    <3>1. /\ rows'[h].robot_id = rows[h].robot_id
          /\ rows'[h].controller_id = rows[h].controller_id
          /\ rows'[h].hub_epoch = rows[h].hub_epoch
          /\ rows'[h].fencing_token = rows[h].fencing_token
      BY <2>1, <2>2, MovedIsRow
    <3>2. Exists(h) /\ Exists(h)' /\ Nonterminal(h)
      BY <1>2, <2>3, NoRowAssumption DEF Exists, Nonterminal, RowMoved
    <3> QED
      BY <2>1, <3>1, <3>2
<1>3. CASE RowRenewed(h)
  <2>1. rows[h] \in Row /\ rows[h].state \notin Terminal
    BY <1>3 DEF RowRenewed, Nonterminal, Exists, TypeOK
  <2>2. PICK t \in Nat : rows'[h] = [rows[h] EXCEPT !.expires_at = t]
    BY <1>3 DEF RowRenewed
  <2>3. /\ rows'[h] \in Row
        /\ rows'[h].state = rows[h].state
        /\ rows'[h].robot_id = rows[h].robot_id
        /\ rows'[h].controller_id = rows[h].controller_id
        /\ rows'[h].hub_epoch = rows[h].hub_epoch
        /\ rows'[h].fencing_token = rows[h].fencing_token
    BY <2>1, <2>2 DEF Row
  <2> QED
    BY <1>3, <2>1, <2>3, NoRowAssumption DEF Exists, Nonterminal, RowRenewed
<1> QED
  BY <1>1, <1>2, <1>3

\* A minted row is live, carries the next token, and its parties were free.
LEMMA MintedRow ==
    ASSUME TypeOK, NEW h \in HandleIds, RowMinted(h)
    PROVE  \E r \in Robots, c \in Controllers :
             /\ ~Exists(h)
             /\ \A g \in Live : rows[g].robot_id # r /\ rows[g].controller_id # c
             /\ Exists(h)' /\ Nonterminal(h)'
             /\ rows'[h].robot_id = r /\ rows'[h].controller_id = c
             /\ rows'[h].fencing_token = fencing[r] + 1
             /\ rows'[h].hub_epoch = epoch
             /\ fencing' = [fencing EXCEPT ![r] = @ + 1]
             /\ \A g \in HandleIds : g # h => RowKept(g)
<1>1. PICK r \in Robots, c \in Controllers, t \in Nat :
         /\ ~HasNonterminalHandle(r, c)
         /\ rows'[h] = [hub_epoch |-> epoch, robot_id |-> r, controller_id |-> c,
                        fencing_token |-> fencing[r] + 1, expires_at |-> t,
                        state |-> "ASSIGNED", transition_sequence |-> 0]
         /\ fencing' = [fencing EXCEPT ![r] = @ + 1]
         /\ \A g \in HandleIds : g # h => RowKept(g)
  BY DEF RowMinted
<1>2. rows'[h] \in Row
  BY <1>1 DEF TypeOK, Row, HandleState
<1>3. Exists(h)' /\ Nonterminal(h)'
  BY <1>1, <1>2, NoRowAssumption DEF Exists, Nonterminal, Terminal
<1>4. \A g \in Live : rows[g].robot_id # r /\ rows[g].controller_id # c
  BY <1>1 DEF HasNonterminalHandle
<1>5. ~Exists(h)
  BY DEF RowMinted, Exists
<1>6. /\ rows'[h].robot_id = r /\ rows'[h].controller_id = c
      /\ rows'[h].fencing_token = fencing[r] + 1
      /\ rows'[h].hub_epoch = epoch
  BY <1>1
<1> QED
  BY <1>1, <1>3, <1>4, <1>5, <1>6

-----------------------------------------------------------------------------
\* Exclusiveness and fencing.  Neither is inductive alone: that a new token is
\* above all older ones needs FencingOrders, that the older Handles of the
\* Robot are over needs ExclusiveLive.
AuthorityInv == TypeOK /\ ExclusiveLive /\ FencingOrders

LEMMA AuthorityInit == Init => AuthorityInv
<1> SUFFICES ASSUME Init PROVE ExclusiveLive /\ FencingOrders
  BY TypeInit DEF AuthorityInv
<1>1. \A h \in HandleIds : ~Exists(h)
  BY DEF Init, Exists
<1> QED
  BY <1>1 DEF ExclusiveLive, FencingOrders, Live, Nonterminal

LEMMA ExclusiveStep == AuthorityInv /\ [Next]_vars => ExclusiveLive'
<1> SUFFICES ASSUME AuthorityInv, [Next]_vars,
                    NEW g \in HandleIds, NEW h \in HandleIds, g # h,
                    Nonterminal(g)', Nonterminal(h)'
             PROVE  /\ rows'[g].robot_id # rows'[h].robot_id
                    /\ rows'[g].controller_id # rows'[h].controller_id
  BY DEF ExclusiveLive, Live
<1> USE DEF AuthorityInv
<1>1. CASE \A k \in HandleIds : RowKept(k) \/ RowMoved(k) \/ RowRenewed(k)
  <2>1. Nonterminal(g) /\ Nonterminal(h) /\ Exists(g) /\ Exists(h)
    BY <1>1, IdentityKept DEF Nonterminal
  <2> QED
    BY <1>1, <2>1, IdentityKept DEF ExclusiveLive, Live
<1>2. ASSUME NEW k \in HandleIds, RowMinted(k)
      PROVE  /\ rows'[g].robot_id # rows'[h].robot_id
             /\ rows'[g].controller_id # rows'[h].controller_id
  <2>1. PICK r \in Robots, c \in Controllers :
             /\ \A l \in Live : rows[l].robot_id # r /\ rows[l].controller_id # c
             /\ rows'[k].robot_id = r /\ rows'[k].controller_id = c
             /\ \A l \in HandleIds : l # k => RowKept(l)
    BY <1>2, MintedRow
  <2>2. \A l \in HandleIds : l # k /\ Nonterminal(l)' =>
             /\ l \in Live /\ rows'[l] = rows[l]
    BY <2>1 DEF RowKept, Nonterminal, Exists, Live
  <2> QED
    BY <2>1, <2>2 DEF ExclusiveLive
<1> QED
  BY <1>1, <1>2, RowsStep

LEMMA FencingStep == AuthorityInv /\ [Next]_vars => FencingOrders'
<1> SUFFICES ASSUME AuthorityInv, [Next]_vars, NEW h \in HandleIds, Exists(h)'
             PROVE  /\ rows'[h].fencing_token \in 1..fencing'[rows'[h].robot_id]
                    /\ Nonterminal(h)' => rows'[h].fencing_token
                                            = fencing'[rows'[h].robot_id]
                    /\ \A g \in HandleIds :
                         /\ Exists(g)' /\ g # h
                         /\ rows'[g].robot_id = rows'[h].robot_id
                         => rows'[g].fencing_token # rows'[h].fencing_token
  BY DEF FencingOrders
<1> USE DEF AuthorityInv
<1>1. CASE /\ fencing' = fencing
           /\ \A k \in HandleIds : RowKept(k) \/ RowMoved(k) \/ RowRenewed(k)
  BY <1>1, IdentityKept DEF FencingOrders
<1>2. ASSUME NEW k \in HandleIds, RowMinted(k)
      PROVE  /\ rows'[h].fencing_token \in 1..fencing'[rows'[h].robot_id]
             /\ Nonterminal(h)' => rows'[h].fencing_token
                                     = fencing'[rows'[h].robot_id]
             /\ \A g \in HandleIds :
                  /\ Exists(g)' /\ g # h
                  /\ rows'[g].robot_id = rows'[h].robot_id
                  => rows'[g].fencing_token # rows'[h].fencing_token
  <2>1. PICK r \in Robots, c \in Controllers :
             /\ \A l \in Live : rows[l].robot_id # r /\ rows[l].controller_id # c
             /\ rows'[k].robot_id = r
             /\ rows'[k].fencing_token = fencing[r] + 1
             /\ fencing' = [fencing EXCEPT ![r] = @ + 1]
             /\ \A l \in HandleIds : l # k => RowKept(l)
    BY <1>2, MintedRow
  <2>2. fencing \in [Robots -> Nat]
    BY DEF TypeOK
  <2>3. /\ fencing'[r] = fencing[r] + 1 /\ fencing[r] \in Nat
        /\ \A q \in Robots : q # r => fencing'[q] = fencing[q]
    BY <2>1, <2>2
  <2>4. ASSUME NEW l \in HandleIds, l # k, Exists(l)'
        PROVE  /\ Exists(l) /\ rows'[l] = rows[l] /\ rows[l] \in Row
               /\ rows[l].robot_id \in Robots
               /\ rows[l].fencing_token \in 1..fencing[rows[l].robot_id]
               /\ Nonterminal(l)' => l \in Live
    <3>1. Exists(l) /\ rows'[l] = rows[l] /\ rows[l] \in Row
      BY <2>1, <2>4 DEF RowKept, Exists, TypeOK
    <3> QED
      BY <3>1 DEF FencingOrders, Row, Nonterminal, Live, Exists
  <2>5. CASE h = k
    <3>1. ASSUME NEW g \in HandleIds, Exists(g)', g # h,
                 rows'[g].robot_id = rows'[h].robot_id
          PROVE  rows'[g].fencing_token # rows'[h].fencing_token
      BY <2>1, <2>3, <2>4, <2>5, <3>1
    <3> QED
      BY <2>1, <2>3, <2>5, <3>1
  <2>6. CASE h # k
    <3>1. /\ Exists(h) /\ rows'[h] = rows[h]
          /\ rows[h].robot_id \in Robots
          /\ rows[h].fencing_token \in 1..fencing[rows[h].robot_id]
      BY <2>4, <2>6
    <3>2. fencing[rows[h].robot_id] \in Nat
      BY <2>2, <3>1
    <3>3. rows'[h].fencing_token \in 1..fencing'[rows'[h].robot_id]
      BY <2>3, <3>1, <3>2
    <3>4. Nonterminal(h)' =>
            rows'[h].fencing_token = fencing'[rows'[h].robot_id]
      <4> SUFFICES ASSUME Nonterminal(h)'
                   PROVE  rows[h].fencing_token = fencing'[rows[h].robot_id]
        BY <3>1
      <4>1. h \in Live /\ rows[h].robot_id # r
        BY <2>1, <2>4, <2>6
      <4> QED
        BY <2>3, <3>1, <4>1 DEF FencingOrders, Live
    <3>5. ASSUME NEW g \in HandleIds, Exists(g)', g # h,
                 rows'[g].robot_id = rows'[h].robot_id
          PROVE  rows'[g].fencing_token # rows'[h].fencing_token
      <4>1. CASE g = k
        BY <2>1, <2>3, <3>1, <3>2, <3>5, <4>1
      <4>2. CASE g # k
        BY <2>4, <3>1, <3>5, <4>2 DEF FencingOrders
      <4> QED
        BY <4>1, <4>2
    <3> QED
      BY <3>3, <3>4, <3>5
  <2> QED
    BY <2>5, <2>6
<1> QED
  BY <1>1, <1>2, RowsStep

\* A Robot and a Controller are in at most one live Handle, and tokens order
\* the Handles of a Robot, in every reachable state of the database.
THEOREM AuthorityIsExclusive == Spec => [](ExclusiveLive /\ FencingOrders)
<1>1. Init => AuthorityInv
  BY AuthorityInit
<1>2. AuthorityInv /\ [Next]_vars => AuthorityInv'
  BY TypeStep, ExclusiveStep, FencingStep DEF AuthorityInv
<1>3. AuthorityInv => ExclusiveLive /\ FencingOrders
  BY DEF AuthorityInv
<1> QED
  BY <1>1, <1>2, <1>3, PTL DEF Spec

\* A Robot that refuses lower fencing tokens refuses exactly the Handles of the
\* past: no restart, transition or renewal gives a token away twice.
THEOREM FencingHolds == Spec => []FencingOrders
  BY AuthorityIsExclusive, PTL

-----------------------------------------------------------------------------
\* Epochs.  The invalidation at the end of a start sees every older Handle, also
\* one that survived an earlier start which died half way.
LEMMA EpochStep ==
    TypeOK /\ NoEarlierEpochAuthority /\ [Next]_vars => NoEarlierEpochAuthority'
<1> SUFFICES ASSUME TypeOK, NoEarlierEpochAuthority, [Next]_vars,
                    phase' = "running", NEW h \in HandleIds, Nonterminal(h)'
             PROVE  rows'[h].hub_epoch = epoch'
  BY DEF NoEarlierEpochAuthority, Live
<1>1. CASE InvalidatePreviousEpochs
  <2>1. ~FromEarlierEpoch(h)
    <3> SUFFICES ASSUME FromEarlierEpoch(h) PROVE FALSE
      OBVIOUS
    <3>1. rows'[h] = Moved(rows[h], "EXPIRED", rows[h].transition_sequence + 1)
      BY <1>1 DEF InvalidatePreviousEpochs
    <3>2. rows[h] \in Row
      BY DEF FromEarlierEpoch, Nonterminal, Exists, TypeOK
    <3>3. rows'[h].state = "EXPIRED"
      BY <3>1, <3>2 DEF Moved, Row
    <3> QED
      BY <3>3 DEF Nonterminal, Terminal
  <2>2. rows'[h] = rows[h] /\ epoch' = epoch
    BY <1>1, <2>1 DEF InvalidatePreviousEpochs
  <2> QED
    BY <2>1, <2>2 DEF FromEarlierEpoch, Nonterminal, Exists
<1>2. CASE phase = "running" /\ epoch' = epoch
  <2>1. CASE \A k \in HandleIds : RowKept(k) \/ RowMoved(k) \/ RowRenewed(k)
    BY <1>2, <2>1, IdentityKept DEF NoEarlierEpochAuthority, Live, Nonterminal
  <2>2. ASSUME NEW k \in HandleIds, RowMinted(k)
        PROVE  rows'[h].hub_epoch = epoch
    <3>1. /\ rows'[k].hub_epoch = epoch
          /\ \A l \in HandleIds : l # k => RowKept(l)
      BY <2>2, MintedRow
    <3> QED
      BY <1>2, <3>1
      DEF RowKept, NoEarlierEpochAuthority, Live, Nonterminal, Exists
  <2> QED
    BY <1>2, <2>1, <2>2, RowsStep
<1> QED
  BY <1>1, <1>2
  DEF Next, BeginEpoch, CreateAssignment, RenewHandle, Transition, Crash, Tick,
      vars

\* While a Hub runs, every live Handle was minted under its own epoch.
THEOREM NoAuthorityFromThePast == Spec => []NoEarlierEpochAuthority
<1>1. Init => TypeOK /\ NoEarlierEpochAuthority
  BY TypeInit DEF Init, NoEarlierEpochAuthority
<1>2. TypeOK /\ NoEarlierEpochAuthority /\ [Next]_vars
        => (TypeOK /\ NoEarlierEpochAuthority)'
  BY TypeStep, EpochStep
<1> QED
  BY <1>1, <1>2, PTL DEF Spec

-----------------------------------------------------------------------------
\* The step of EndedForGood, without the temporal operator.
EndedForGoodStep ==
    \A h \in HandleIds : Exists(h) =>
         /\ Exists(h)' /\ rows'[h].fencing_token = rows[h].fencing_token
         /\ rows'[h].hub_epoch = rows[h].hub_epoch
         /\ rows'[h].robot_id = rows[h].robot_id
         /\ rows'[h].controller_id = rows[h].controller_id
         /\ rows[h].state \in Terminal => rows'[h] = rows[h]
         /\ now >= rows[h].expires_at
              => rows'[h].expires_at = rows[h].expires_at

LEMMA EndedStep == TypeOK /\ [Next]_vars => EndedForGoodStep
<1> SUFFICES ASSUME TypeOK, [Next]_vars, NEW h \in HandleIds, Exists(h)
             PROVE  /\ Exists(h)' /\ rows'[h].fencing_token = rows[h].fencing_token
                    /\ rows'[h].hub_epoch = rows[h].hub_epoch
                    /\ rows'[h].robot_id = rows[h].robot_id
                    /\ rows'[h].controller_id = rows[h].controller_id
                    /\ rows[h].state \in Terminal => rows'[h] = rows[h]
                    /\ now >= rows[h].expires_at
                         => rows'[h].expires_at = rows[h].expires_at
  BY DEF EndedForGoodStep
<1>1. RowKept(h) \/ RowMoved(h) \/ RowRenewed(h)
  BY RowsStep, MintedRow
<1>2. now >= rows[h].expires_at => rows'[h].expires_at = rows[h].expires_at
  <2>1. CASE RowMoved(h)
    BY <2>1, MovedIsRow DEF RowMoved, Exists, TypeOK
  <2>2. CASE RowRenewed(h)
    <3>1. now < rows[h].expires_at /\ rows[h].expires_at \in Nat /\ now \in Nat
      BY <2>2 DEF RowRenewed, Exists, TypeOK, Row
    <3> QED
      BY <3>1
  <2> QED
    BY <1>1, <2>1, <2>2 DEF RowKept
<1> QED
  BY <1>1, <1>2, IdentityKept DEF RowKept

\* A terminal row is never written again, an expiry that has passed never moves,
\* and a Handle keeps its Robot, its Controller, its epoch and its token for ever.
THEOREM EndedStaysEnded == Spec => EndedForGood
<1>1. TypeOK /\ [Next]_vars => [EndedForGoodStep]_vars
  BY EndedStep
<1> QED
  BY <1>1, TypeCorrect, PTL DEF Spec, EndedForGood, EndedForGoodStep

-----------------------------------------------------------------------------
\* The refinement of HandleAuthority.  A minted row is a Give; every other step
\* ends the grants of the Handles it makes terminal, possibly none.
LEMMA GrantsInit == Init => Authority!Init
<1> SUFFICES ASSUME Init PROVE Authority!Init
  OBVIOUS
<1>1. \A h \in HandleIds : ~Exists(h)
  BY DEF Init, Exists
<1>2. GrantsInForce = {} /\ UsedIds = {}
  BY <1>1 DEF GrantsInForce, UsedIds, Live, Nonterminal
<1> QED
  BY <1>2 DEF Init, Authority!Init

LEMMA GrantsStep ==
    TypeOK /\ [Next]_vars => [Authority!Next]_(Authority!vars)
<1> SUFFICES ASSUME TypeOK, [Next]_vars PROVE Authority!Next
  OBVIOUS
<1>1. ASSUME NEW h \in HandleIds, RowMinted(h) PROVE Authority!Next
  <2>1. PICK r \in Robots, c \in Controllers :
             /\ ~Exists(h)
             /\ \A g \in Live : rows[g].robot_id # r /\ rows[g].controller_id # c
             /\ Exists(h)' /\ Nonterminal(h)'
             /\ rows'[h].robot_id = r /\ rows'[h].controller_id = c
             /\ rows'[h].fencing_token = fencing[r] + 1
             /\ fencing' = [fencing EXCEPT ![r] = @ + 1]
             /\ \A g \in HandleIds : g # h => RowKept(g)
    BY <1>1, MintedRow
  <2>2. Live' = Live \cup {h} /\ h \notin Live
    BY <2>1 DEF Live, Nonterminal, Exists, RowKept
  <2>3. \A g \in Live : GrantOf(g)' = GrantOf(g)
    BY <2>1, <2>2 DEF GrantOf, RowKept, Live
  <2>4. GrantOf(h)' = [handle |-> h, robot |-> r, controller |-> c,
                       token |-> fencing[r] + 1]
    BY <2>1 DEF GrantOf
  <2>5. GrantsInForce' = GrantsInForce \cup
          {[handle |-> h, robot |-> r, controller |-> c, token |-> fencing[r] + 1]}
    BY <2>2, <2>3, <2>4 DEF GrantsInForce
  <2>6. UsedIds' = UsedIds \cup {h} /\ h \notin UsedIds
    BY <2>1 DEF UsedIds, Exists, RowKept
  <2>7. \A g \in GrantsInForce : g.robot # r /\ g.controller # c
    BY <2>1 DEF GrantsInForce, GrantOf
  <2>8. Authority!Give(r, c, h)
    BY <2>1, <2>5, <2>6, <2>7 DEF Authority!Give
  <2> QED
    BY <2>8 DEF Authority!Next
<1>2. CASE /\ fencing' = fencing
           /\ \A h \in HandleIds : RowKept(h) \/ RowMoved(h) \/ RowRenewed(h)
  <2> DEFINE S == {GrantOf(h) : h \in Live \ Live'}
  <2>1. Live' \subseteq Live /\ \A h \in HandleIds : Exists(h)' <=> Exists(h)
    BY <1>2, IdentityKept DEF Live
  <2>2. \A h \in Live' : GrantOf(h)' = GrantOf(h)
    <3>1. \A h \in Live' : h \in HandleIds /\ Exists(h)
      BY <2>1 DEF Live, Nonterminal
    <3> QED
      BY <1>2, <3>1, IdentityKept DEF GrantOf
  <2>3. \A g, h \in HandleIds : GrantOf(g) = GrantOf(h) => g = h
    BY DEF GrantOf
  <2>4. GrantsInForce' = {GrantOf(h) : h \in Live'}
    BY <2>2 DEF GrantsInForce
  <2>5. GrantsInForce' = GrantsInForce \ S
    <3>1. Live \subseteq HandleIds
      BY DEF Live
    <3> QED
      BY <2>1, <2>3, <2>4, <3>1 DEF GrantsInForce
  <2>6. S \in SUBSET GrantsInForce
    BY DEF GrantsInForce
  <2>7. UsedIds' = UsedIds
    BY <2>1 DEF UsedIds
  <2>8. Authority!End(S)
    BY <1>2, <2>5, <2>7 DEF Authority!End
  <2> QED
    BY <2>6, <2>8 DEF Authority!Next
<1> QED
  BY <1>1, <1>2, RowsStep

\* The store implements the promise of HandleAuthority.
THEOREM StoreImplementsAuthority == Spec => ImplementsAuthority
<1>1. TypeOK /\ [Next]_vars => [Authority!Next]_(Authority!vars)
  BY GrantsStep
<1> QED
  BY <1>1, GrantsInit, TypeCorrect, PTL
  DEF Spec, ImplementsAuthority, Authority!Spec

-----------------------------------------------------------------------------
\* The history table.
Lawful(past, row) ==
    /\ past # <<>> /\ past[1] = Entry("ASSIGNED", 0)
    /\ past[Len(past)] = Entry(row.state, row.transition_sequence)
    /\ \A i \in 1..(Len(past) - 1) :
         /\ LawfulEdge(past[i].state, past[i + 1].state)
         /\ past[i].transition_sequence < past[i + 1].transition_sequence

\* Appending a lawful move to a lawful history gives a lawful history.
LEMMA AppendLawful ==
    ASSUME NEW past \in Seq(HistoryRow), NEW row \in Row, Lawful(past, row),
           NEW t \in HandleState, NEW n \in Nat,
           n > row.transition_sequence, LawfulEdge(row.state, t)
    PROVE  Lawful(Append(past, Entry(t, n)), Moved(row, t, n))
<1> DEFINE new == Append(past, Entry(t, n))
<1>1. /\ Len(past) \in Nat /\ Len(past) >= 1
      /\ Len(new) = Len(past) + 1 /\ new # <<>>
      /\ \A i \in 1..Len(past) : new[i] = past[i]
      /\ new[Len(past) + 1] = Entry(t, n)
  BY EntryIsHistory DEF Lawful
<1>2. new[1] = Entry("ASSIGNED", 0)
  BY <1>1 DEF Lawful
<1>3. new[Len(new)] = Entry(Moved(row, t, n).state,
                            Moved(row, t, n).transition_sequence)
  BY <1>1, MovedIsRow
<1>4. ASSUME NEW i \in 1..(Len(new) - 1)
      PROVE  /\ LawfulEdge(new[i].state, new[i + 1].state)
             /\ new[i].transition_sequence < new[i + 1].transition_sequence
  <2>1. CASE i < Len(past)
    <3>1. i \in 1..(Len(past) - 1) /\ new[i] = past[i] /\ new[i + 1] = past[i + 1]
      BY <1>1, <2>1
    <3> QED
      BY <3>1 DEF Lawful
  <2>2. CASE i = Len(past)
    <3>1. /\ new[i] = Entry(row.state, row.transition_sequence)
          /\ new[i + 1] = Entry(t, n)
      BY <1>1, <2>2 DEF Lawful
    <3> QED
      BY <3>1 DEF Entry
  <2> QED
    BY <1>1, <2>1, <2>2
<1> HIDE DEF new
<1>5. Lawful(new, Moved(row, t, n))
  BY <1>1, <1>2, <1>3, <1>4 DEF Lawful
<1> QED
  BY <1>5 DEF new

LEMMA HistoryStep == TypeOK /\ HistoryLawful /\ [Next]_vars => HistoryLawful'
<1> SUFFICES ASSUME TypeOK, HistoryLawful, [Next]_vars, NEW h \in HandleIds
             PROVE  IF Exists(h)' THEN Lawful(transitions'[h], rows'[h])
                    ELSE transitions'[h] = <<>>
  BY DEF HistoryLawful, Lawful
<1>0. /\ Exists(h) => Lawful(transitions[h], rows[h])
      /\ ~Exists(h) => transitions[h] = <<>>
  BY DEF HistoryLawful, Lawful
<1>1. CASE RowKept(h) /\ transitions'[h] = transitions[h]
  BY <1>0, <1>1 DEF RowKept, Exists
<1>2. ASSUME NEW t \in HandleState, NEW n \in Nat, Nonterminal(h),
             n > rows[h].transition_sequence, LawfulEdge(rows[h].state, t),
             rows'[h] = Moved(rows[h], t, n),
             transitions'[h] = Append(transitions[h], Entry(t, n))
      PROVE  Exists(h)' /\ Lawful(transitions'[h], rows'[h])
  <2>1. rows[h] \in Row /\ transitions[h] \in Seq(HistoryRow) /\ Exists(h)
    BY <1>2 DEF Nonterminal, Exists, TypeOK
  <2>2. rows'[h] # NoRow
    BY <1>2, <2>1, MovedIsRow, NoRowAssumption
  <2> QED
    BY <1>0, <1>2, <2>1, <2>2, AppendLawful DEF Exists
<1>3. CASE InvalidatePreviousEpochs
  <2>1. CASE FromEarlierEpoch(h)
    <3> DEFINE n == rows[h].transition_sequence + 1
    <3>1. rows[h] \in Row /\ Nonterminal(h)
      BY <2>1 DEF FromEarlierEpoch, Nonterminal, Exists, TypeOK
    <3>2. /\ n \in Nat /\ n > rows[h].transition_sequence
          /\ LawfulEdge(rows[h].state, "EXPIRED") /\ "EXPIRED" \in HandleState
      BY <3>1 DEF Row, Nonterminal, LawfulEdge, HandleState
    <3>3. /\ rows'[h] = Moved(rows[h], "EXPIRED", n)
          /\ transitions'[h] = Append(transitions[h], Entry("EXPIRED", n))
      BY <1>3, <2>1 DEF InvalidatePreviousEpochs, TypeOK
    <3> QED
      BY <1>2, <3>1, <3>2, <3>3
  <2>2. CASE ~FromEarlierEpoch(h)
    BY <1>1, <1>3, <2>2 DEF InvalidatePreviousEpochs, RowKept, TypeOK
  <2> QED
    BY <2>1, <2>2
<1>4. ASSUME NEW r \in Robots, NEW c \in Controllers, NEW k \in HandleIds,
             NEW ttl \in 1..MaxTtl, CreateAssignment(r, c, k, ttl)
      PROVE  IF Exists(h)' THEN Lawful(transitions'[h], rows'[h])
             ELSE transitions'[h] = <<>>
  <2>1. CASE h = k
    <3>1. /\ rows'[h].state = "ASSIGNED" /\ rows'[h].transition_sequence = 0
          /\ transitions'[h] = <<Entry("ASSIGNED", 0)>>
      BY <1>4, <2>1 DEF CreateAssignment, TypeOK
    <3>2. rows'[h] \in Row
      <4>1. now + ttl \in Nat /\ fencing[r] + 1 \in Nat
        BY <1>4, BoundsAssumption DEF TypeOK
      <4> QED
        BY <1>4, <2>1, <4>1
        DEF CreateAssignment, NextToken, Row, HandleState, TypeOK
    <3>3. Lawful(transitions'[h], rows'[h])
      BY <3>1 DEF Lawful
    <3> QED
      BY <3>2, <3>3, NoRowAssumption DEF Exists
  <2>2. CASE h # k
    BY <1>1, <1>4, <2>2 DEF CreateAssignment, RowKept, TypeOK
  <2> QED
    BY <2>1, <2>2
<1>5. ASSUME NEW k \in HandleIds, NEW expires \in 1..(MaxTime + MaxTtl),
             RenewHandle(k, expires)
      PROVE  IF Exists(h)' THEN Lawful(transitions'[h], rows'[h])
             ELSE transitions'[h] = <<>>
  <2>1. transitions' = transitions
    BY <1>5 DEF RenewHandle
  <2>2. CASE h = k
    <3>1. rows[h] \in Row /\ rows'[h] = [rows[h] EXCEPT !.expires_at = expires]
      BY <1>5, <2>2 DEF RenewHandle, Nonterminal, Exists, TypeOK
    <3>2. /\ rows'[h].state = rows[h].state
          /\ rows'[h].transition_sequence = rows[h].transition_sequence
      BY <3>1 DEF Row
    <3>3. Exists(h)
      BY <1>5, <2>2 DEF RenewHandle, Nonterminal
    <3>4. rows'[h] \in Row
      BY <3>1, BoundsAssumption DEF Row
    <3> QED
      BY <1>0, <2>1, <3>2, <3>3, <3>4, NoRowAssumption DEF Lawful, Exists
  <2>3. CASE h # k
    BY <1>1, <1>5, <2>1, <2>3 DEF RenewHandle, RowKept, TypeOK
  <2> QED
    BY <2>2, <2>3
<1>6. ASSUME NEW k \in HandleIds, NEW target \in HandleState,
             NEW sequence \in 0..MaxSequence, Transition(k, target, sequence)
      PROVE  IF Exists(h)' THEN Lawful(transitions'[h], rows'[h])
             ELSE transitions'[h] = <<>>
  <2>1. CASE h = k
    <3>1. rows[h] \in Row /\ sequence \in Nat /\ Exists(h)
      BY <1>6, <2>1, BoundsAssumption DEF Transition, Exists, TypeOK
    <3>2. rows[h].state \in HandleState /\ target \in Allowed[rows[h].state]
      BY <1>6, <2>1, <3>1 DEF Transition, TransitionApplies, Row
    <3>3. Nonterminal(h) /\ LawfulEdge(rows[h].state, target)
      BY <3>1, <3>2, AllowedIsLawful DEF Nonterminal
    <3>4. /\ sequence > rows[h].transition_sequence
          /\ rows'[h] = Moved(rows[h], target, sequence)
          /\ transitions'[h] = Append(transitions[h], Entry(target, sequence))
      BY <1>6, <2>1 DEF Transition, TransitionApplies, TypeOK
    <3> QED
      BY <1>2, <3>1, <3>3, <3>4
  <2>2. CASE h # k
    BY <1>1, <1>6, <2>2 DEF Transition, RowKept, TypeOK
  <2> QED
    BY <2>1, <2>2
<1>7. CASE UNCHANGED <<rows, transitions>>
  BY <1>1, <1>7 DEF RowKept
<1> QED
  BY <1>3, <1>4, <1>5, <1>6, <1>7 DEF Next, BeginEpoch, Crash, Tick, vars

\* The history of every Handle is a lawful life with rising sequence numbers
\* that ends where the handles table says.
THEOREM HistoryIsLawful == Spec => []HistoryLawful
<1>1. Init => TypeOK /\ HistoryLawful
  BY TypeInit DEF Init, HistoryLawful, Exists
<1>2. TypeOK /\ HistoryLawful /\ [Next]_vars => (TypeOK /\ HistoryLawful)'
  BY TypeStep, HistoryStep
<1> QED
  BY <1>1, <1>2, PTL DEF Spec
=============================================================================
