---------------------------- MODULE ZmqChannels ----------------------------
(***************************************************************************)
(* Closing ZeroMQ channels (zmq_runtime.py).  A context must not be         *)
(* terminated while a socket of it is open: term() then blocks for good.    *)
(* Channels are opened through a ZmqRuntime or its ZmqContextOwner, and      *)
(* closed by the thread that uses them, by ZmqRuntime.close() and by        *)
(* ZmqContextOwner.close(), at the same time.  The action receiver also has *)
(* a thread that decodes what it took from the socket.  Each locked region   *)
(* is one action.                                                           *)
(***************************************************************************)
EXTENDS Naturals, FiniteSets

CONSTANTS
    Threads,   \* threads that close something
    Others,    \* channels other than the receiver: publisher, hub and node
    MaxReads   \* bound: actions taken from the receiver's socket

VARIABLES
    runtime,    \* ZmqRuntime: [closed, channels]
    owner,      \* ZmqContextOwner: [closed, complete, channels, terminated]
    socket,     \* per channel: "none", "open" or "closed"
    receiver,   \* ZmqLatestActionReceiver: [close_requested, close_complete, inflight_decodes]
    reads,      \* actions taken from its socket so far
    thread      \* per closing thread: [at, todo, role]

vars == <<runtime, owner, socket, receiver, reads, thread>>

Channels == {"receiver"} \cup Others
Idle == [at |-> "idle", todo |-> {}, role |-> "none"]

TypeOK ==
    /\ runtime \in [closed : BOOLEAN, channels : SUBSET Channels]
    /\ owner \in [closed : BOOLEAN, complete : BOOLEAN, channels : SUBSET Channels,
                  terminated : BOOLEAN]
    /\ socket \in [Channels -> {"none", "open", "closed"}]
    /\ receiver \in [close_requested : BOOLEAN, close_complete : BOOLEAN,
                     inflight_decodes : 0 .. 1]
    /\ reads \in 0 .. MaxReads
    /\ thread \in [Threads -> [at : {"idle", "closing", "first", "draining", "second",
                                     "following", "done"},
                               todo : SUBSET Channels,
                               role : {"none", "user", "runtime", "owner"}]]

Init ==
    /\ runtime = [closed |-> FALSE, channels |-> {}]
    /\ owner = [closed |-> FALSE, complete |-> FALSE, channels |-> {}, terminated |-> FALSE]
    /\ socket = [c \in Channels |-> "none"]
    /\ receiver = [close_requested |-> FALSE, close_complete |-> FALSE, inflight_decodes |-> 0]
    /\ reads = 0
    /\ thread = [t \in Threads |-> Idle]

----------------------------------------------------------------------------
(* Opening and reading.                                                    *)

\* _admit_channel: under the owner's lock, and only while it is open.
Admit(c) ==
    /\ ~owner.closed /\ socket[c] = "none"
    /\ socket' = [socket EXCEPT ![c] = "open"]
    /\ owner' = [owner EXCEPT !.channels = @ \cup {c}]

\* open_action_receiver and the like hold the runtime's lock throughout; the
\* owner's own factories track nothing in the runtime.
OpenChannel(c) ==
    /\ Admit(c)
    /\ \/ ~runtime.closed /\ runtime' = [runtime EXCEPT !.channels = @ \cup {c}]
       \/ UNCHANGED runtime
    /\ UNCHANGED <<receiver, reads, thread>>

\* receive_latest takes an action from the socket and decodes it outside the
\* lock.
Take ==
    /\ socket["receiver"] = "open" /\ ~receiver.close_requested
    /\ receiver.inflight_decodes = 0 /\ reads < MaxReads
    /\ receiver' = [receiver EXCEPT !.inflight_decodes = 1]
    /\ reads' = reads + 1
    /\ UNCHANGED <<runtime, owner, socket, thread>>

\* Mutant: a receiver that is closing returns before it counts the decode off.
DecodedUnlessClosing ==
    /\ receiver.inflight_decodes = 1 /\ ~receiver.close_requested
    /\ receiver' = [receiver EXCEPT !.inflight_decodes = 0]
    /\ UNCHANGED <<runtime, owner, socket, reads, thread>>

Decoded ==
    /\ receiver.inflight_decodes = 1
    /\ receiver' = [receiver EXCEPT !.inflight_decodes = 0]
    /\ UNCHANGED <<runtime, owner, socket, reads, thread>>

----------------------------------------------------------------------------
(* Closing.                                                                *)

\* A thread closes one channel it uses.
UserCloses(t) ==
    /\ thread[t].at = "idle"
    /\ \E c \in Channels :
         /\ socket[c] # "none"
         /\ thread' = [thread EXCEPT ![t] = [at |-> "closing", todo |-> {c}, role |-> "user"]]
    /\ UNCHANGED <<runtime, owner, socket, receiver, reads>>

\* ZmqRuntime.close: a second call returns at once.  The channels it tracks are
\* closed one after the other, then the owner.
RuntimeCloses(t) ==
    /\ thread[t].at = "idle" /\ ~runtime.closed
    /\ runtime' = [closed |-> TRUE, channels |-> {}]
    /\ thread' = [thread EXCEPT ![t] =
                    [at |-> "closing", todo |-> runtime.channels, role |-> "runtime"]]
    /\ UNCHANGED <<owner, socket, receiver, reads>>

\* ZmqContextOwner.close: the first caller takes the channels there are, later
\* ones wait for it.
OwnerCloses(t) ==
    /\ \/ thread[t].at = "idle"
       \/ thread[t].at = "closing" /\ thread[t].todo = {} /\ thread[t].role = "runtime"
    /\ IF owner.closed
       THEN /\ thread' = [thread EXCEPT ![t] = [Idle EXCEPT !.at = "following"]]
            /\ UNCHANGED owner
       ELSE /\ owner' = [owner EXCEPT !.closed = TRUE]
            /\ thread' = [thread EXCEPT ![t] =
                            [at |-> "closing", todo |-> owner.channels, role |-> "owner"]]
    /\ UNCHANGED <<runtime, socket, receiver, reads>>

\* The callback and the deregistration at the end of a close().
Forget(c) ==
    /\ owner' = [owner EXCEPT !.channels = @ \ {c}]
    /\ runtime' = [runtime EXCEPT !.channels = @ \ {c}]

\* A publisher or a management channel: the socket is closed under its lock.
CloseOther(t, c) ==
    /\ thread[t].at = "closing" /\ c \in thread[t].todo /\ c # "receiver"
    /\ socket' = [socket EXCEPT ![c] = "closed"]
    /\ thread' = [thread EXCEPT ![t].todo = @ \ {c}]
    /\ Forget(c)
    /\ UNCHANGED <<receiver, reads>>

\* The receiver: the first close() closes the socket and waits for the decode in
\* flight, later ones wait for the first.
CloseReceiver(t) ==
    /\ thread[t].at = "closing" /\ "receiver" \in thread[t].todo
    /\ receiver' = [receiver EXCEPT !.close_requested = TRUE]
    /\ thread' = [thread EXCEPT ![t].at =
                    IF receiver.close_requested THEN "second" ELSE "first"]
    /\ UNCHANGED <<runtime, owner, socket, reads>>

CloseSocket(t) ==
    /\ thread[t].at = "first"
    /\ socket' = [socket EXCEPT !["receiver"] = "closed"]
    /\ thread' = [thread EXCEPT ![t].at = "draining"]
    /\ UNCHANGED <<runtime, owner, receiver, reads>>

FirstReturns(t) ==
    /\ thread[t].at = "draining" /\ receiver.inflight_decodes = 0
    /\ receiver' = [receiver EXCEPT !.close_complete = TRUE]
    /\ thread' = [thread EXCEPT ![t].at = "closing", ![t].todo = @ \ {"receiver"}]
    /\ Forget("receiver")
    /\ UNCHANGED <<socket, reads>>

\* Mutant: a second close() does not wait for the first.
SecondReturnsAtOnce(t) ==
    /\ thread[t].at = "second"
    /\ thread' = [thread EXCEPT ![t].at = "closing", ![t].todo = @ \ {"receiver"}]
    /\ Forget("receiver")
    /\ UNCHANGED <<socket, receiver, reads>>

SecondReturns(t) ==
    /\ thread[t].at = "second" /\ receiver.close_complete
    /\ thread' = [thread EXCEPT ![t].at = "closing", ![t].todo = @ \ {"receiver"}]
    /\ Forget("receiver")
    /\ UNCHANGED <<socket, receiver, reads>>

\* term() returns once no socket of the context is open.
Terminate(t) ==
    /\ thread[t].at = "closing" /\ thread[t].todo = {} /\ thread[t].role = "owner"
    /\ \A c \in Channels : socket[c] # "open"
    /\ owner' = [owner EXCEPT !.complete = TRUE, !.terminated = TRUE]
    /\ thread' = [thread EXCEPT ![t].at = "done"]
    /\ UNCHANGED <<runtime, socket, receiver, reads>>

\* The other ways a close() returns.
Returns(t) ==
    /\ \/ thread[t].at = "closing" /\ thread[t].todo = {} /\ thread[t].role = "user"
       \/ thread[t].at = "following" /\ owner.complete
    /\ thread' = [thread EXCEPT ![t].at = "done"]
    /\ UNCHANGED <<runtime, owner, socket, receiver, reads>>

----------------------------------------------------------------------------
Proceed(t) ==
    \/ \E c \in Others : CloseOther(t, c)
    \/ CloseReceiver(t) \/ CloseSocket(t) \/ FirstReturns(t) \/ SecondReturns(t)
    \/ thread[t].role = "runtime" /\ OwnerCloses(t)
    \/ Terminate(t) \/ Returns(t)

Next ==
    \/ \E c \in Channels : OpenChannel(c)
    \/ Take \/ Decoded
    \/ \E t \in Threads :
         Proceed(t) \/ UserCloses(t) \/ RuntimeCloses(t)
                    \/ (thread[t].at = "idle" /\ OwnerCloses(t))

Spec == Init /\ [][Next]_vars

\* Threads run, and decoding a packet ends.  A thread closes what it closes in a
\* bounded number of steps, so none is overtaken for good.
Progress == Decoded \/ \E t \in Threads : Proceed(t)
FairSpec == Spec /\ WF_vars(Progress)

----------------------------------------------------------------------------
\* What close() promises: when it has returned, to whichever thread, the socket
\* is closed and no decode of the receiver is in flight; and the context is
\* terminated only when all of that is so.
ClosedMeansReleased ==
    \A c \in Channels :
        socket[c] # "none" /\ (c \notin owner.channels \/ owner.terminated) =>
            /\ socket[c] = "closed"
            /\ c = "receiver" => receiver.inflight_decodes = 0

\* No thread that closes something waits for good, whatever the others close.
SomeoneCloses == \E t \in Threads : thread[t].at \notin {"idle", "done"}
ClosingEnds == SomeoneCloses ~> ~SomeoneCloses
=============================================================================
