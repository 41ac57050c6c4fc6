---------------------------- MODULE HandleStore -----------------------------
(***************************************************************************)
(* The persistent half of Handle authority (HubStore): the epochs, fencing *)
(* tokens, Handles and Handle history of one SQLite file, and the life of  *)
(* the Hub process that owns it.  Every operation is one SQLite            *)
(* transaction, so it is one action here; a crash may fall between any two *)
(* of them, in particular between recording a new epoch and expiring the   *)
(* Handles of the earlier ones.                                            *)
(*                                                                         *)
(* The node, audit and snapshot tables are written but never read back for *)
(* a decision, so they are left out.  Handle ids stand for UUIDs: any id   *)
(* without a row is fresh.                                                 *)
(***************************************************************************)
EXTENDS ControlModel, Integers, Sequences

CONSTANTS
    Robots,        \* Robot node ids
    Controllers,   \* Controller node ids
    HandleIds,     \* identifiers a Handle can be given
    NoRow          \* marks an id that has no row

CONSTANTS          \* bounds of the explored instance
    MaxTime,       \* last instant of the clock
    MaxTtl,        \* longest validity an assignment is given
    MaxEpoch,      \* last Hub epoch
    MaxSequence    \* highest sequence number a caller proposes

ASSUME BoundsAssumption ==
    MaxTime \in Nat /\ MaxTtl \in Nat /\ MaxEpoch \in Nat /\ MaxSequence \in Nat

\* A row of the handles table.
Row == [hub_epoch : Nat, robot_id : Robots, controller_id : Controllers,
        fencing_token : Nat, expires_at : Nat,
        state : HandleState, transition_sequence : Nat]

\* A row of the handle_transitions table.
HistoryRow == [state : HandleState, transition_sequence : Nat]

ASSUME NoRowAssumption == NoRow \notin Row

VARIABLES
    epoch,         \* the latest epoch recorded, counted from 1
    phase,         \* the Hub process: "down", "starting" or "running"
    rows,          \* the handles table, per id
    fencing,       \* the robot_fencing table, 0 where it has no row
    transitions,   \* the handle_transitions table, per id, oldest first
    now            \* the clock

vars == <<epoch, phase, rows, fencing, transitions, now>>

-----------------------------------------------------------------------------
Exists(h) == rows[h] # NoRow

Nonterminal(h) == Exists(h) /\ rows[h].state \notin Terminal

Live == {h \in HandleIds : Nonterminal(h)}

\* What _write_transition stores: the row in its new state and one history row.
Moved(row, target, sequence) ==
    [row EXCEPT !.state = target, !.transition_sequence = sequence]

Entry(state, sequence) == [state |-> state, transition_sequence |-> sequence]

-----------------------------------------------------------------------------
\* A fresh database: the constructor has recorded a first epoch, and no Hub
\* runs yet.
Init ==
    /\ epoch = 1
    /\ phase = "down"
    /\ rows = [h \in HandleIds |-> NoRow]
    /\ fencing = [r \in Robots |-> 0]
    /\ transitions = [h \in HandleIds |-> <<>>]
    /\ now = 0

\* The Hub process starts by recording an epoch of its own ...
BeginEpoch ==
    /\ phase = "down" /\ epoch < MaxEpoch
    /\ epoch' = epoch + 1
    /\ phase' = "starting"
    /\ UNCHANGED <<rows, fencing, transitions, now>>

\* Mutant: only the epoch directly before is looked at.
FromPreviousEpoch(h) == Nonterminal(h) /\ rows[h].hub_epoch = epoch - 1

FromEarlierEpoch(h) == Nonterminal(h) /\ rows[h].hub_epoch # epoch

\* ... and then expires every live Handle of the epochs before it.
InvalidatePreviousEpochs ==
    /\ phase = "starting"
    /\ phase' = "running"
    /\ rows' = [h \in HandleIds |->
         IF FromEarlierEpoch(h)
         THEN Moved(rows[h], "EXPIRED", rows[h].transition_sequence + 1)
         ELSE rows[h]]
    /\ transitions' = [h \in HandleIds |->
         IF FromEarlierEpoch(h)
         THEN Append(transitions[h],
                     Entry("EXPIRED", rows[h].transition_sequence + 1))
         ELSE transitions[h]]
    /\ UNCHANGED <<epoch, fencing, now>>

\* Mutant: only the Robot is looked up.
RobotHasNonterminalHandle(r, c) == \E g \in Live : rows[g].robot_id = r

HasNonterminalHandle(r, c) ==
    \E g \in Live : rows[g].robot_id = r \/ rows[g].controller_id = c

\* Mutants: the token counts down; it is read before it is incremented; it
\* starts over with every assignment.
TokenCountsDown(r) == fencing[r] - 1
TokenBeforeIncrement(r) == fencing[r]
TokenStartsOver(r) == 1

NextToken(r) == fencing[r] + 1

\* Mint an exclusive Handle with the next fencing token of the Robot.
CreateAssignment(r, c, h, ttl) ==
    /\ phase = "running" /\ ~Exists(h)
    /\ ~HasNonterminalHandle(r, c)
    /\ fencing' = [fencing EXCEPT ![r] = NextToken(r)]
    /\ rows' = [rows EXCEPT ![h] =
         [hub_epoch |-> epoch, robot_id |-> r, controller_id |-> c,
          fencing_token |-> NextToken(r), expires_at |-> now + ttl,
          state |-> "ASSIGNED", transition_sequence |-> 0]]
    /\ transitions' = [transitions EXCEPT ![h] = <<Entry("ASSIGNED", 0)>>]
    /\ UNCHANGED <<epoch, phase, now>>

\* Mutant: the old expiry is not looked at.
RenewAnyHandle(h, expires) ==
    /\ phase = "running" /\ Nonterminal(h) /\ expires > now
    /\ rows' = [rows EXCEPT ![h].expires_at = expires]
    /\ UNCHANGED <<epoch, phase, fencing, transitions, now>>

\* Extend a live Handle that has not expired.  The code also compares the new
\* expiry with the time of issue, which the clock here has always passed.
RenewHandle(h, expires) ==
    /\ phase = "running" /\ Nonterminal(h)
    /\ now < rows[h].expires_at
    /\ expires > now
    /\ rows' = [rows EXCEPT ![h].expires_at = expires]
    /\ UNCHANGED <<epoch, phase, fencing, transitions, now>>

\* A requested transition, with whatever sequence number its caller derived
\* from the record it last saw; one that does not apply changes nothing.
Transition(h, target, sequence) ==
    /\ phase = "running" /\ Exists(h)
    /\ TransitionApplies(rows[h].state, rows[h].transition_sequence,
                         target, sequence)
    /\ rows' = [rows EXCEPT ![h] = Moved(@, target, sequence)]
    /\ transitions' = [transitions EXCEPT ![h] =
                         Append(@, Entry(target, sequence))]
    /\ UNCHANGED <<epoch, phase, fencing, now>>

\* The Hub process stops or dies, at any point between two transactions.
Crash ==
    /\ phase # "down"
    /\ phase' = "down"
    /\ UNCHANGED <<epoch, rows, fencing, transitions, now>>

Tick ==
    /\ now < MaxTime
    /\ now' = now + 1
    /\ UNCHANGED <<epoch, phase, rows, fencing, transitions>>

Next ==
    \/ BeginEpoch
    \/ InvalidatePreviousEpochs
    \/ \E r \in Robots, c \in Controllers, h \in HandleIds, ttl \in 1..MaxTtl :
         CreateAssignment(r, c, h, ttl)
    \/ \E h \in HandleIds, expires \in 1..(MaxTime + MaxTtl) :
         RenewHandle(h, expires)
    \/ \E h \in HandleIds, target \in HandleState, sequence \in 0..MaxSequence :
         Transition(h, target, sequence)
    \/ Crash
    \/ Tick

Spec == Init /\ [][Next]_vars

-----------------------------------------------------------------------------
TypeOK ==
    /\ epoch \in Nat
    /\ phase \in {"down", "starting", "running"}
    /\ rows \in [HandleIds -> Row \cup {NoRow}]
    /\ fencing \in [Robots -> Nat]
    /\ transitions \in [HandleIds -> Seq(HistoryRow)]
    /\ now \in Nat

\* Two live Handles share neither a Robot nor a Controller, whatever sequence
\* of assignments, transitions and restarts led here.
ExclusiveLive ==
    \A g, h \in Live :
        g # h => /\ rows[g].robot_id # rows[h].robot_id
                 /\ rows[g].controller_id # rows[h].controller_id

\* Fencing works: the tokens of a Robot's Handles are all different, and a live
\* Handle carries the highest one ever given, so a Robot that refuses lower
\* tokens refuses exactly the Handles of the past.
FencingOrders ==
    \A h \in HandleIds : Exists(h) =>
        /\ rows[h].fencing_token \in 1..fencing[rows[h].robot_id]
        /\ Nonterminal(h) => rows[h].fencing_token = fencing[rows[h].robot_id]
        /\ \A g \in HandleIds :
             Exists(g) /\ g # h /\ rows[g].robot_id = rows[h].robot_id
                => rows[g].fencing_token # rows[h].fencing_token

\* The history table tells the life of every Handle: it starts ASSIGNED, goes
\* along lawful edges with rising sequence numbers (the table's UNIQUE
\* constraint never bites), and ends in the state of the handles table.
HistoryLawful ==
    \A h \in HandleIds :
        LET past == transitions[h]
        IN  IF Exists(h)
            THEN /\ past # <<>> /\ past[1] = Entry("ASSIGNED", 0)
                 /\ past[Len(past)] = Entry(rows[h].state,
                                            rows[h].transition_sequence)
                 /\ \A i \in 1..(Len(past) - 1) :
                      /\ LawfulEdge(past[i].state, past[i + 1].state)
                      /\ past[i].transition_sequence
                           < past[i + 1].transition_sequence
            ELSE past = <<>>

\* Once a Hub runs, no Handle minted under an earlier epoch is still live,
\* although an earlier start may have died between its two transactions.
NoEarlierEpochAuthority ==
    phase = "running" => \A h \in Live : rows[h].hub_epoch = epoch

\* Authority that ended never comes back: a terminal row is never written
\* again, a Handle whose expiry has passed never gets a later one, and its
\* identity (parties, epoch, token) never changes at all.
EndedForGood ==
    [][\A h \in HandleIds : Exists(h) =>
         /\ Exists(h)' /\ rows'[h].fencing_token = rows[h].fencing_token
         /\ rows'[h].hub_epoch = rows[h].hub_epoch
         /\ rows'[h].robot_id = rows[h].robot_id
         /\ rows'[h].controller_id = rows[h].controller_id
         /\ rows[h].state \in Terminal => rows'[h] = rows[h]
         /\ now >= rows[h].expires_at
              => rows'[h].expires_at = rows[h].expires_at]_vars

-----------------------------------------------------------------------------
(* The store implements the promise of HandleAuthority: its live rows are  *)
(* the grants in force.                                                    *)

GrantOf(h) == [handle |-> h, robot |-> rows[h].robot_id,
               controller |-> rows[h].controller_id,
               token |-> rows[h].fencing_token]

GrantsInForce == {GrantOf(h) : h \in Live}

UsedIds == {h \in HandleIds : Exists(h)}

Authority == INSTANCE HandleAuthority
             WITH grants <- GrantsInForce, used <- UsedIds, token <- fencing

\* Every step of the database is a grant, the end of some grants, or invisible
\* to whoever only asks who holds authority.
ImplementsAuthority == Authority!Spec
=============================================================================
