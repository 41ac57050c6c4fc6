--------------------------- MODULE MemoryRuntime ---------------------------
(***************************************************************************)
(* The in-process runtime (MemoryRuntime): one bounded inbox of management *)
(* messages per open channel, in which a heartbeat takes the place of the   *)
(* one still queued, and one slot per action endpoint, which holds the      *)
(* latest action only and which its publisher and its receiver share.       *)
(*                                                                         *)
(* The inbox is the Hub's, which several Nodes send to; a Node's is the     *)
(* same with one sender.  Status reports are coalesced as heartbeats are;   *)
(* every other kind is a command here.  A channel that was replaced by      *)
(* opening another is refused and has no action.                            *)
(***************************************************************************)
EXTENDS Naturals, Sequences

CONSTANTS
    Peers,                  \* node ids
    management_inbox_max,
    MaxSent,                \* bound: messages of a kind accepted from a Node
    MaxOpens                \* bound: times the Hub or the endpoint is opened

VARIABLES
    closed,    \* the runtime is closed
    hub,       \* Hub channels opened so far, 0 for none
    inbox,     \* the messages queued for the Hub
    link,      \* history, per Node: messages accepted and received so far
    slots,     \* action slots: those still open, and whether they hold an action
    latest,    \* the newest slot of the endpoint
    held       \* the slot a publisher and a receiver hold, 0 for none

vars == <<closed, hub, inbox, link, slots, latest, held>>

Kinds == {"heartbeat", "command"}
Ends == {"publisher", "receiver"}
Slots == 1 .. MaxOpens

\* after is history: the commands of its sender accepted before this message.
Entry == [peer : Peers, kind : Kinds, id : 0 .. MaxSent, after : 0 .. MaxSent]

TypeOK ==
    /\ closed \in BOOLEAN
    /\ hub \in 0 .. MaxOpens
    /\ inbox \in Seq(Entry) /\ Len(inbox) <= management_inbox_max
    /\ link \in [Peers -> [{"accepted", "received"} -> [Kinds -> 0 .. MaxSent]]]
    /\ slots \in [Slots -> [open : BOOLEAN, value : BOOLEAN]]
    /\ latest \in 0 .. MaxOpens
    /\ held \in [Ends -> 0 .. MaxOpens]

NoTraffic == [p \in Peers |-> [d \in {"accepted", "received"} |-> [k \in Kinds |-> 0]]]
NoSlots == [s \in Slots |-> [open |-> FALSE, value |-> FALSE]]

Init ==
    /\ closed = FALSE /\ hub = 0
    /\ inbox = <<>> /\ link = NoTraffic
    /\ slots = NoSlots /\ latest = 0 /\ held = [end \in Ends |-> 0]

----------------------------------------------------------------------------
(* Management channels.                                                    *)

\* open_hub: an inbox of its own; the one before is closed.
OpenHub ==
    /\ ~closed /\ hub < MaxOpens
    /\ hub' = hub + 1
    /\ inbox' = <<>> /\ link' = NoTraffic
    /\ UNCHANGED <<closed, slots, latest, held>>

\* Mutant: one Node's heartbeat takes the place of another's.
ReplacedOfAny(m) ==
    {i \in DOMAIN inbox : m.kind = "heartbeat" /\ inbox[i].kind = m.kind}

\* What m takes the place of: a queued message of the same peer and kind.
Replaced(m) ==
    {i \in DOMAIN inbox : m.kind = "heartbeat" /\ inbox[i].kind = m.kind
                          /\ inbox[i].peer = m.peer}

\* Mutant: nothing bounds the inbox.
PutUnbounded(m) ==
    IF Replaced(m) # {}
    THEN inbox' = [i \in DOMAIN inbox |-> IF i \in Replaced(m) THEN m ELSE inbox[i]]
    ELSE inbox' = Append(inbox, m)

\* _ManagementInbox.put: a full inbox refuses what it does not coalesce.
Put(m) ==
    IF Replaced(m) # {}
    THEN inbox' = [i \in DOMAIN inbox |-> IF i \in Replaced(m) THEN m ELSE inbox[i]]
    ELSE Len(inbox) < management_inbox_max /\ inbox' = Append(inbox, m)

\* A message that is refused changes nothing and is reported as such.
Send(p, kind) ==
    LET accepted == link[p]["accepted"] IN
    /\ ~closed /\ hub > 0 /\ accepted[kind] < MaxSent
    /\ Put([peer |-> p, kind |-> kind, id |-> accepted[kind] + 1,
            after |-> accepted["command"]])
    /\ link' = [link EXCEPT ![p]["accepted"][kind] = @ + 1]
    /\ UNCHANGED <<closed, hub, slots, latest, held>>

Receive ==
    /\ inbox # <<>>
    /\ LET m == Head(inbox) IN link' = [link EXCEPT ![m.peer]["received"][m.kind] = m.id]
    /\ inbox' = Tail(inbox)
    /\ UNCHANGED <<closed, hub, slots, latest, held>>

----------------------------------------------------------------------------
(* The action endpoint.                                                    *)

\* _open_action_slot: the endpoint's slot while it is open, else another one.
SlotFor == IF latest # 0 /\ slots[latest].open THEN latest ELSE latest + 1

OpenEnd(end) ==
    /\ ~closed /\ SlotFor <= MaxOpens
    /\ held' = [held EXCEPT ![end] = SlotFor]
    /\ latest' = SlotFor
    /\ slots' = [slots EXCEPT ![SlotFor].open = TRUE]
    /\ UNCHANGED <<closed, hub, inbox, link>>

\* Either end closes the slot of both.
CloseEnd(end) ==
    /\ held[end] # 0
    /\ slots' = [slots EXCEPT ![held[end]] = [open |-> FALSE, value |-> FALSE]]
    /\ held' = [held EXCEPT ![end] = 0]
    /\ UNCHANGED <<closed, hub, inbox, link, latest>>

Publish ==
    /\ held["publisher"] # 0 /\ slots[held["publisher"]].open
    /\ slots' = [slots EXCEPT ![held["publisher"]].value = TRUE]
    /\ UNCHANGED <<closed, hub, inbox, link, latest, held>>

ReceiveLatest ==
    /\ held["receiver"] # 0 /\ slots[held["receiver"]].value
    /\ slots' = [slots EXCEPT ![held["receiver"]].value = FALSE]
    /\ UNCHANGED <<closed, hub, inbox, link, latest, held>>

Close ==
    /\ ~closed /\ closed' = TRUE
    /\ inbox' = <<>> /\ link' = NoTraffic /\ slots' = NoSlots
    /\ UNCHANGED <<hub, latest, held>>

----------------------------------------------------------------------------
Next ==
    \/ OpenHub \/ Receive
    \/ \E p \in Peers, kind \in Kinds : Send(p, kind)
    \/ \E end \in Ends : OpenEnd(end) \/ CloseEnd(end)
    \/ Publish \/ ReceiveLatest \/ Close

Spec == Init /\ [][Next]_vars

----------------------------------------------------------------------------
\* Where the messages of a kind from p are in the inbox.
Queued(p, kind) == {i \in DOMAIN inbox : inbox[i].peer = p /\ inbox[i].kind = kind}

\* A command that was accepted is received, once and in order, while the channel
\* is open; of the heartbeats of one peer the last one accepted is.
AcceptedIsDelivered ==
    \A p \in Peers :
        LET commands == Queued(p, "command")
            beats == Queued(p, "heartbeat")
            accepted == link[p]["accepted"]
            received == link[p]["received"]
            waiting == received["command"] + 1 .. accepted["command"]
        IN  /\ received["command"] <= accepted["command"]
            /\ \A i \in commands : inbox[i].id \in waiting
            /\ \A id \in waiting : \E i \in commands : inbox[i].id = id
            /\ \A i, j \in commands : i < j => inbox[i].id < inbox[j].id
            /\ \/ beats = {} /\ received["heartbeat"] = accepted["heartbeat"]
               \/ \E i \in beats : beats = {i} /\ inbox[i].id = accepted["heartbeat"]

\* A heartbeat may overtake commands of its sender, but never reports a state
\* from before a command that is received before it.
NoStaleHeartbeat ==
    \A i \in DOMAIN inbox :
        LET m == inbox[i] IN
        m.kind = "heartbeat" =>
            /\ link[m.peer]["received"]["command"] <= m.after
            /\ \A j \in 1 .. i - 1 :
                 inbox[j].peer = m.peer /\ inbox[j].kind = "command" => inbox[j].id <= m.after

\* An action that was accepted reaches the receiver, unless that has closed the
\* slot or had it closed: the two never hold open slots that differ.
OneLiveSlot ==
    LET p == held["publisher"] r == held["receiver"] IN
    p # 0 /\ r # 0 /\ slots[p].open /\ slots[r].open => p = r
=============================================================================
