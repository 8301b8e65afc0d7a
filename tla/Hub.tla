-------------------------------- MODULE Hub --------------------------------
(***************************************************************************)
(* The in-process pub/sub of internal/events/hub.go: topics, subscriber    *)
(* channels, and publishers that fan an event out while they hold the      *)
(* read lock.  Subscribe and cancel take the write lock, so each waits for *)
(* every publisher to let go.  The events themselves are only hints ("look *)
(* again"), so a channel is the number of hints it buffers.                *)
(***************************************************************************)
EXTENDS Integers, Sequences

CONSTANTS
    Topics,         \* "user:<id>", "rm:<id>", "admin"
    Chans,          \* the channels a behaviour may make, numbered
    ChanCap,        \* capacity of a subscriber channel (16 in the code)
    Publishers      \* goroutines running UserChanged or AssignmentChanged

ASSUME HubAssumption == Chans \subseteq Nat /\ ChanCap \in Nat \ {0}

VARIABLES
    subs,           \* h.subs: topic -> its subscriber channels
    made,           \* channels made so far
    closed,         \* channels that are closed
    buf,            \* hints buffered in each channel
    pub             \* each publisher: topics to do, read lock, channels left

hubVars == <<subs, made, closed, buf, pub>>

Resting == [todo |-> << >>, locked |-> FALSE, left |-> {}]

Publisher == [todo : Seq(Topics), locked : BOOLEAN, left : SUBSET Chans]

HubTypeOK ==
    /\ subs \in [Topics -> SUBSET Chans]
    /\ made \subseteq Chans
    /\ closed \subseteq made
    /\ buf \in [Chans -> 0 .. ChanCap]
    /\ pub \in [Publishers -> Publisher]
    /\ \A p \in Publishers : pub[p].locked => pub[p].todo # << >>

HubInit ==
    /\ subs = [t \in Topics |-> {}]
    /\ made = {}
    /\ closed = {}
    /\ buf = [c \in Chans |-> 0]
    /\ pub = [p \in Publishers |-> Resting]

Registered(c) == \E t \in Topics : c \in subs[t]

NoReaders == \A p \in Publishers : ~ pub[p].locked
-----------------------------------------------------------------------------
(* The next channel in number is as good as any other.                     *)
Fresh(c) == c \notin made /\ \A d \in Chans : d < c => d \in made

Subscribe(c, topic) ==
    /\ Fresh(c)
    /\ NoReaders
    /\ made' = made \cup {c}
    /\ subs' = [subs EXCEPT ![topic] = @ \cup {c}]
    /\ UNCHANGED <<closed, buf, pub>>

(* Slip: cancel does not take the write lock.                              *)
DetachUnlocked(c) ==
    /\ Registered(c)
    /\ subs' = [t \in Topics |-> subs[t] \ {c}]
    /\ UNCHANGED <<made, closed, buf, pub>>

(* cancel, first half: off the map, under the write lock.                  *)
Detach(c) ==
    /\ Registered(c)
    /\ NoReaders
    /\ subs' = [t \in Topics |-> subs[t] \ {c}]
    /\ UNCHANGED <<made, closed, buf, pub>>

(* cancel, second half: closed, after the lock is released.  The Once lets *)
(* this pair run a single time per channel.                                *)
Close(c) ==
    /\ c \in made \ closed
    /\ ~ Registered(c)
    /\ closed' = closed \cup {c}
    /\ UNCHANGED <<subs, made, buf, pub>>

(* The listener takes one hint.                                            *)
Receive(c) ==
    /\ buf[c] > 0
    /\ buf' = [buf EXCEPT ![c] = @ - 1]
    /\ UNCHANGED <<subs, made, closed, pub>>

(* go UserChanged or go AssignmentChanged, and the topics it will reach.   *)
StartPublish(p, topics) ==
    /\ pub[p].todo = << >>
    /\ pub' = [pub EXCEPT ![p].todo = topics]
    /\ UNCHANGED <<subs, made, closed, buf>>

(* Publish: the read lock, and the range over the topic's subscribers.     *)
LockRead(p) ==
    /\ pub[p].todo # << >>
    /\ ~ pub[p].locked
    /\ pub' = [pub EXCEPT ![p].locked = TRUE, ![p].left = subs[Head(pub[p].todo)]]
    /\ UNCHANGED <<subs, made, closed, buf>>

(* Slips: a buffer that keeps its last place empty; a send that waits for  *)
(* room; a send that does not look at the room.                            *)
HasRoomShort(c) == buf[c] < ChanCap - 1

SendBlocking(p) ==
    \E c \in pub[p].left :
        /\ buf[c] < ChanCap
        /\ buf' = [buf EXCEPT ![c] = @ + 1]
        /\ pub' = [pub EXCEPT ![p].left = @ \ {c}]
        /\ UNCHANGED <<subs, made, closed>>

SendOverfull(p) ==
    \E c \in pub[p].left :
        /\ buf' = [buf EXCEPT ![c] = @ + 1]
        /\ pub' = [pub EXCEPT ![p].left = @ \ {c}]
        /\ UNCHANGED <<subs, made, closed>>

HasRoom(c) == buf[c] < ChanCap

(* One send of the loop: never waits, a full channel is skipped.           *)
Send(p) ==
    \E c \in pub[p].left :
        /\ buf' = IF HasRoom(c) THEN [buf EXCEPT ![c] = @ + 1] ELSE buf
        /\ pub' = [pub EXCEPT ![p].left = @ \ {c}]
        /\ UNCHANGED <<subs, made, closed>>

UnlockRead(p) ==
    /\ pub[p].locked
    /\ pub[p].left = {}
    /\ pub' = [pub EXCEPT ![p].locked = FALSE, ![p].todo = Tail(@)]
    /\ UNCHANGED <<subs, made, closed, buf>>

PublishStep(p) == LockRead(p) \/ Send(p) \/ UnlockRead(p)
-----------------------------------------------------------------------------
(* The hub under any listeners and publishers whatever.                    *)
HubNext ==
    \/ \E c \in Chans, t \in Topics : Subscribe(c, t)
    \/ \E c \in Chans : Detach(c) \/ Close(c) \/ Receive(c)
    \/ \E p \in Publishers :
         \/ \E topics \in Seq(Topics) : StartPublish(p, topics)
         \/ PublishStep(p)

HubSpec == HubInit /\ [][HubNext]_hubVars

(* No publisher is about to send on a channel that a listener's cancel has *)
(* closed meanwhile: that send would panic and end the whole process.      *)
NoSendOnClosed == \A p \in Publishers : pub[p].left \cap closed = {}
=============================================================================
