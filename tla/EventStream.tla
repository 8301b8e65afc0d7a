---------------------------- MODULE EventStream ----------------------------
(***************************************************************************)
(* One RM portal session: RMEventsHandler.Stream over the hub.  Goroutines *)
(* of the session: Stream's own select loop, the reader that handles the   *)
(* portal's subscribe and unsubscribe frames, and one forwarder per client *)
(* channel.  The map clientSubs is shared by the loop's deferred clean-up  *)
(* and the reader without a lock; a write during the iteration either goes *)
(* unnoticed or makes the Go runtime end the process.                      *)
(***************************************************************************)
EXTENDS Hub

CONSTANTS
    Clients,        \* clients whose detail view the portal may open
    Own,            \* the session's own topic: the RM's book
    OutCap,         \* capacity of out (32 in the code)
    NoChan,
    MaxMessages,    \* bound: frames the portal sends
    MaxEvents       \* bound: changes published

ASSUME SessionAssumption ==
    /\ Own \in Topics /\ Clients \subseteq Topics
    /\ NoChan \notin Chans /\ NoChan \notin Clients
    /\ OutCap \in Nat

VARIABLES
    alive,          \* the process has not been ended by the runtime
    main, own,      \* Stream: where it is, and its own channel
    visited,        \* clients the clean-up's range has visited
    reader, who,    \* the reader: where it is, and the client of the frame
    joined,         \* the channel the reader has just subscribed
    cancelling,     \* the channel each of the two is cancelling
    clientSubs,     \* client -> channel, NoChan when absent
    fwd,            \* the forwarder of each channel
    out,            \* hints in out
    stop,           \* fwdDone is closed
    stale,          \* the book changed since the portal last fetched it
    messages, events

sessionVars == <<main, own, visited, reader, who, joined, cancelling,
                 clientSubs, fwd, out, stop, messages>>
vars == <<hubVars, sessionVars, alive, stale, events>>

TypeOK ==
    /\ HubTypeOK
    /\ alive \in BOOLEAN /\ stop \in BOOLEAN /\ stale \in BOOLEAN
    /\ main \in {"start", "loop", "return", "sweep", "cancel", "ended"}
    /\ reader \in {"none", "read", "lookup", "record", "cancel", "ended"}
    /\ {own, joined} \subseteq Chans \cup {NoChan}
    /\ visited \subseteq Clients
    /\ who \in Clients \cup {NoChan}
    /\ cancelling \in [{"main", "reader"} -> Chans \cup {NoChan}]
    /\ clientSubs \in [Clients -> Chans \cup {NoChan}]
    /\ fwd \in [Chans -> {"none", "wait", "hold", "done"}]
    /\ out \in 0 .. OutCap
    /\ messages \in Nat /\ events \in Nat

Init ==
    /\ HubInit
    /\ alive = TRUE /\ stop = FALSE /\ stale = FALSE
    /\ main = "start" /\ reader = "none"
    /\ own = NoChan /\ joined = NoChan /\ who = NoChan
    /\ visited = {}
    /\ cancelling = [g \in {"main", "reader"} |-> NoChan]
    /\ clientSubs = [u \in Clients |-> NoChan]
    /\ fwd = [c \in Chans |-> "none"]
    /\ out = 0 /\ messages = 0 /\ events = 0
-----------------------------------------------------------------------------
(* The publishers.                                                         *)

(* A committed change is announced.  A change to a client reaches the      *)
(* client's topic and, if the lookup finds this RM, the book; a change of  *)
(* assignment reaches the books first.  From here on the book is stale.    *)
Announce(p) ==
    /\ events < MaxEvents
    /\ events' = events + 1
    /\ \E u \in Clients : \E topics \in {<<u>>, <<u, Own>>, <<Own, u>>} :
         /\ StartPublish(p, topics)
         /\ stale' = (stale \/ (main = "loop" /\ Len(topics) = 2))
    /\ UNCHANGED <<sessionVars, alive>>

Publish(p) == PublishStep(p) /\ UNCHANGED <<sessionVars, alive, stale, events>>
-----------------------------------------------------------------------------
(* Stream.                                                                 *)

Open ==
    /\ main = "start"
    /\ \E c \in Chans : Subscribe(c, Own) /\ own' = c
    /\ main' = "loop"
    /\ reader' = "read"
    /\ UNCHANGED <<visited, who, joined, cancelling, clientSubs, fwd, out, stop,
                   messages, alive, stale, events>>

(* A hint of the book is written to the socket, on which the portal        *)
(* fetches afresh; a failed write ends the loop.                           *)
WriteOwn ==
    /\ main = "loop"
    /\ Receive(own)
    /\ \/ stale' = FALSE /\ UNCHANGED main
       \/ main' = "return" /\ UNCHANGED stale
    /\ UNCHANGED <<own, visited, reader, who, joined, cancelling, clientSubs, fwd,
                   out, stop, messages, alive, events>>

WriteOut ==
    /\ main = "loop"
    /\ out > 0
    /\ out' = out - 1
    /\ main' \in {"loop", "return"}
    /\ UNCHANGED <<hubVars, own, visited, reader, who, joined, cancelling, clientSubs,
                   fwd, stop, messages, alive, stale, events>>

(* The reader has stopped, or a ping could not be written.                 *)
LeaveLoop ==
    /\ main = "loop"
    /\ main' = "return"
    /\ UNCHANGED <<hubVars, own, visited, reader, who, joined, cancelling, clientSubs,
                   fwd, out, stop, messages, alive, stale, events>>

(* The deferred calls, last one first: close(fwdDone), ...                 *)
CloseDone ==
    /\ main = "return"
    /\ stop' = TRUE
    /\ main' = "sweep"
    /\ UNCHANGED <<hubVars, own, visited, reader, who, joined, cancelling, clientSubs,
                   fwd, out, messages, alive, stale, events>>

Idling(g) == cancelling[g] = NoChan \/ cancelling[g] \in closed

(* ... the range over clientSubs, cancelling each, ...                     *)
SweepNext ==
    /\ main = "sweep"
    /\ Idling("main")
    /\ \E u \in Clients \ visited :
         /\ clientSubs[u] # NoChan
         /\ visited' = visited \cup {u}
         /\ cancelling' = [cancelling EXCEPT !["main"] = clientSubs[u]]
    /\ UNCHANGED <<hubVars, main, own, reader, who, joined, clientSubs, fwd, out, stop,
                   messages, alive, stale, events>>

(* ... cancelOwn, ...                                                      *)
SweepDone ==
    /\ main = "sweep"
    /\ Idling("main")
    /\ \A u \in Clients \ visited : clientSubs[u] = NoChan
    /\ cancelling' = [cancelling EXCEPT !["main"] = own]
    /\ main' = "cancel"
    /\ visited' = {}
    /\ UNCHANGED <<hubVars, own, reader, who, joined, clientSubs, fwd, out,
                   stop, messages, alive, stale, events>>

(* ... and conn.Close.                                                     *)
CloseConn ==
    /\ main = "cancel"
    /\ Idling("main")
    /\ main' = "ended"
    /\ UNCHANGED <<hubVars, own, visited, reader, who, joined, cancelling, clientSubs,
                   fwd, out, stop, messages, alive, stale, events>>

Cancel(g) ==
    /\ cancelling[g] # NoChan
    /\ Detach(cancelling[g]) \/ Close(cancelling[g])
    /\ UNCHANGED <<sessionVars, alive, stale, events>>
-----------------------------------------------------------------------------
(* The reader goroutine.                                                   *)

(* A frame: an unknown subscription and a known unsubscription go on, the  *)
(* others are ignored.  Frames the socket has buffered are still read      *)
(* after Stream has closed it.                                             *)
ReadFrame ==
    /\ reader = "read"
    /\ messages < MaxMessages
    /\ messages' = messages + 1
    /\ \E u \in Clients :
         \/ /\ clientSubs[u] = NoChan
            /\ who' = u /\ reader' = "lookup" /\ UNCHANGED cancelling
         \/ /\ clientSubs[u] # NoChan
            /\ who' = u /\ reader' = "cancel"
            /\ cancelling' = [cancelling EXCEPT !["reader"] = clientSubs[u]]
    /\ UNCHANGED <<hubVars, main, own, visited, joined, clientSubs, fwd, out, stop,
                   alive, stale, events>>

(* OwnerOf fails or names another RM.                                      *)
Denied ==
    /\ reader = "lookup"
    /\ reader' = "read"
    /\ who' = NoChan
    /\ UNCHANGED <<hubVars, main, own, visited, joined, cancelling, clientSubs,
                   fwd, out, stop, messages, alive, stale, events>>

Join ==
    /\ reader = "lookup"
    /\ \E c \in Chans : Subscribe(c, who) /\ joined' = c
    /\ reader' = "record"
    /\ UNCHANGED <<main, own, visited, who, cancelling, clientSubs, fwd, out, stop,
                   messages, alive, stale, events>>

(* A map write by the reader; the runtime may notice the other's range.    *)
MapWrite == IF main = "sweep" THEN alive' \in BOOLEAN ELSE UNCHANGED alive

Record ==
    /\ reader = "record"
    /\ clientSubs' = [clientSubs EXCEPT ![who] = joined]
    /\ fwd' = [fwd EXCEPT ![joined] = "wait"]
    /\ reader' = "read"
    /\ who' = NoChan /\ joined' = NoChan
    /\ MapWrite
    /\ UNCHANGED <<hubVars, main, own, visited, cancelling, out, stop,
                   messages, stale, events>>

Forget ==
    /\ reader = "cancel"
    /\ Idling("reader")
    /\ clientSubs' = [clientSubs EXCEPT ![who] = NoChan]
    /\ reader' = "read"
    /\ who' = NoChan
    /\ cancelling' = [cancelling EXCEPT !["reader"] = NoChan]
    /\ MapWrite
    /\ UNCHANGED <<hubVars, main, own, visited, joined, fwd, out, stop,
                   messages, stale, events>>

(* The socket is broken by the peer or closed by Stream.                   *)
ReadFails ==
    /\ reader = "read"
    /\ reader' = "ended"
    /\ UNCHANGED <<hubVars, main, own, visited, who, joined, cancelling, clientSubs,
                   fwd, out, stop, messages, alive, stale, events>>
-----------------------------------------------------------------------------
(* The forwarder of client channel c.                                      *)

ForwarderRest == <<main, own, visited, reader, who, joined, cancelling, clientSubs,
                   stop, messages, alive, stale, events>>

Take(c) ==
    /\ fwd[c] = "wait"
    /\ Receive(c)
    /\ fwd' = [fwd EXCEPT ![c] = "hold"]
    /\ UNCHANGED <<out, ForwarderRest>>

(* Slip: the hint waits for room in out.                                   *)
ForwardBlocking(c) ==
    /\ fwd[c] = "hold"
    /\ out < OutCap
    /\ out' = out + 1
    /\ fwd' = [fwd EXCEPT ![c] = "wait"]
    /\ UNCHANGED <<hubVars, ForwarderRest>>

(* The hint goes to out, or is dropped when out is full.                   *)
Forward(c) ==
    /\ fwd[c] = "hold"
    /\ out' = IF out < OutCap THEN out + 1 ELSE out
    /\ fwd' = [fwd EXCEPT ![c] = "wait"]
    /\ UNCHANGED <<hubVars, ForwarderRest>>

(* The channel is closed and drained, or the stream is done.               *)
StopForwarding(c) ==
    /\ fwd[c] = "wait"
    /\ stop \/ (c \in closed /\ buf[c] = 0)
    /\ fwd' = [fwd EXCEPT ![c] = "done"]
    /\ UNCHANGED <<hubVars, out, ForwarderRest>>
-----------------------------------------------------------------------------
LoopStep == WriteOwn \/ WriteOut \/ (LeaveLoop /\ reader = "ended")
Unwind == CloseDone \/ SweepNext \/ SweepDone \/ CloseConn
ReaderStep == Denied \/ Join \/ Record \/ Forget
ForwarderStep(c) == Take(c) \/ Forward(c) \/ StopForwarding(c)

Next ==
    /\ alive
    /\ \/ \E p \in Publishers : Announce(p) \/ Publish(p)
       \/ Open \/ LoopStep \/ LeaveLoop \/ Unwind
       \/ ReadFrame \/ ReaderStep \/ ReadFails
       \/ \E g \in {"main", "reader"} : Cancel(g)
       \/ \E c \in Chans : ForwarderStep(c)

(* Every goroutine that can run is scheduled, and the runtime hands over   *)
(* the write lock to a cancel or a subscribe that waits for it.  The       *)
(* portal owes nothing: it need not send frames nor break the connection.  *)
Fairness ==
    /\ \A p \in Publishers : WF_vars(alive /\ Publish(p))
    /\ WF_vars(alive /\ LoopStep)
    /\ WF_vars(alive /\ Unwind)
    /\ WF_vars(alive /\ ReaderStep)
    /\ \A g \in {"main", "reader"} : WF_vars(alive /\ Cancel(g))
    /\ WF_vars(alive /\ ReadFails /\ main = "ended")
    /\ \A c \in Chans : WF_vars(alive /\ ForwarderStep(c))

Spec == Init /\ [][Next]_vars /\ Fairness
-----------------------------------------------------------------------------
(* Properties.                                                             *)

(* Announcing a change always comes to an end, however slow the portal is: *)
(* nothing is assumed of the session (hub.go: "a slow RM connection must   *)
(* never stall the request that triggered the event").                     *)
PublishersNeverStall ==
    \A p \in Publishers : pub[p].todo # << >> ~> (pub[p].todo = << >> \/ ~ alive)

(* Dropping a hint on a full channel loses no change: whatever the book    *)
(* went through, a session that stays open writes a hint after it.         *)
BookCatchesUp == stale ~> (~ stale \/ main # "loop" \/ ~ alive)

(* Once Stream has returned, the reader and every forwarder end too, the   *)
(* one started by a subscribe frame that raced the return included.        *)
GoroutinesEnd ==
    main = "ended" ~>
        \/ ~ alive
        \/ reader = "ended" /\ \A c \in Chans : fwd[c] \in {"none", "done"}

(* "a cancel func the caller must call exactly once (typically via defer)  *)
(* to unregister and release the channel" (hub.go:57-59): a session that   *)
(* is over has left the hub.                                               *)
SessionLeavesHub ==
    main = "ended" /\ reader = "ended" => \A t \in Topics : subs[t] = {}

(* The session uses the hub as the hub expects to be used.                 *)
UsesHub == HubSpec
=============================================================================
