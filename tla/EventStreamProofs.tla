------------------------- MODULE EventStreamProofs -------------------------
(***************************************************************************)
(* No send on a closed channel, for any number of publishers, topics,      *)
(* channels and any buffer sizes: first for the hub under arbitrary        *)
(* listeners, then for the portal session, which only ever uses the hub    *)
(* through the hub's own operations; and the types of a session.           *)
(***************************************************************************)
EXTENDS EventStream, TLAPS

(* A channel on the map is not closed; the channels a publisher has left   *)
(* are on the map; and a publisher with channels left holds the read lock, *)
(* which is what keeps cancel from taking them off the map.                *)
HubInv ==
    /\ HubTypeOK
    /\ \A t \in Topics : subs[t] \subseteq made \ closed
    /\ \A p \in Publishers : \A c \in pub[p].left : Registered(c)
    /\ \A p \in Publishers : pub[p].left # {} => pub[p].locked

LEMMA HubInitInv == HubInit => HubInv
BY HubAssumption DEF HubInit, HubInv, HubTypeOK, Resting, Publisher

LEMMA HubStepType ==
    ASSUME HubTypeOK, [HubNext]_hubVars
    PROVE  HubTypeOK'
<1> USE HubAssumption
<1>1. ASSUME NEW c \in Chans, NEW t \in Topics, Subscribe(c, t)
      PROVE  HubTypeOK'
  BY <1>1 DEF HubTypeOK, Subscribe
<1>2. ASSUME NEW c \in Chans, Detach(c) \/ Close(c)
      PROVE  HubTypeOK'
  BY <1>2 DEF HubTypeOK, Detach, Close
<1>3. ASSUME NEW c \in Chans, Receive(c)
      PROVE  HubTypeOK'
  BY <1>3 DEF HubTypeOK, Receive
<1>4. ASSUME NEW p \in Publishers, NEW topics \in Seq(Topics), StartPublish(p, topics)
      PROVE  HubTypeOK'
  <2>1. [pub[p] EXCEPT !.todo = topics] \in Publisher
    BY DEF HubTypeOK, Publisher
  <2>2. pub' = [pub EXCEPT ![p] = [pub[p] EXCEPT !.todo = topics]]
    BY <1>4 DEF StartPublish
  <2>3. QED
    BY <1>4, <2>1, <2>2 DEF HubTypeOK, StartPublish
<1>5. ASSUME NEW p \in Publishers, LockRead(p)
      PROVE  HubTypeOK'
  <2>1. Head(pub[p].todo) \in Topics /\ pub[p] \in Publisher
    BY <1>5 DEF HubTypeOK, LockRead, Publisher
  <2>2. [pub[p] EXCEPT !.locked = TRUE, !.left = subs[Head(pub[p].todo)]] \in Publisher
    BY <2>1 DEF HubTypeOK, Publisher
  <2>3. pub' = [pub EXCEPT ![p] =
                  [pub[p] EXCEPT !.locked = TRUE, !.left = subs[Head(pub[p].todo)]]]
    BY <1>5, <2>1 DEF LockRead, HubTypeOK, Publisher
  <2>4. QED
    BY <1>5, <2>2, <2>3 DEF HubTypeOK, LockRead
<1>6. ASSUME NEW p \in Publishers, Send(p)
      PROVE  HubTypeOK'
  <2>1. PICK c \in pub[p].left :
          /\ buf' = IF HasRoom(c) THEN [buf EXCEPT ![c] = @ + 1] ELSE buf
          /\ pub' = [pub EXCEPT ![p].left = @ \ {c}]
          /\ UNCHANGED <<subs, made, closed>>
    BY <1>6 DEF Send
  <2>2. pub[p] \in Publisher /\ c \in Chans
    BY DEF HubTypeOK, Publisher
  <2>3. buf' \in [Chans -> 0 .. ChanCap]
    BY <2>1, <2>2 DEF HubTypeOK, HasRoom
  <2>4. [pub[p] EXCEPT !.left = pub[p].left \ {c}] \in Publisher
    BY <2>2 DEF Publisher
  <2>5. pub' = [pub EXCEPT ![p] = [pub[p] EXCEPT !.left = pub[p].left \ {c}]]
    BY <2>1, <2>2 DEF HubTypeOK, Publisher
  <2>6. QED
    BY <2>1, <2>3, <2>4, <2>5 DEF HubTypeOK
<1>7. ASSUME NEW p \in Publishers, UnlockRead(p)
      PROVE  HubTypeOK'
  <2>1. pub[p] \in Publisher /\ Tail(pub[p].todo) \in Seq(Topics)
    BY <1>7 DEF HubTypeOK, UnlockRead, Publisher
  <2>2. [pub[p] EXCEPT !.locked = FALSE, !.todo = Tail(pub[p].todo)] \in Publisher
    BY <2>1 DEF Publisher
  <2>3. pub' = [pub EXCEPT ![p] =
                  [pub[p] EXCEPT !.locked = FALSE, !.todo = Tail(pub[p].todo)]]
    BY <1>7, <2>1 DEF UnlockRead, HubTypeOK, Publisher
  <2>4. QED
    BY <1>7, <2>2, <2>3 DEF HubTypeOK, UnlockRead, Publisher
<1>8. CASE UNCHANGED hubVars
  BY <1>8 DEF HubTypeOK, hubVars
<1>9. QED
  BY <1>1, <1>2, <1>3, <1>4, <1>5, <1>6, <1>7, <1>8 DEF HubNext, PublishStep

LEMMA HubStepInv ==
    ASSUME HubInv, [HubNext]_hubVars
    PROVE  HubInv'
<1> USE DEF HubInv
<1>0. HubTypeOK'
  BY HubStepType
<1>1. ASSUME NEW c \in Chans, NEW t \in Topics, Subscribe(c, t)
      PROVE  HubInv'
  BY <1>0, <1>1 DEF HubTypeOK, Subscribe, Fresh, Registered
<1>2. ASSUME NEW c \in Chans, Detach(c)
      PROVE  HubInv'
  BY <1>0, <1>2 DEF HubTypeOK, Detach, NoReaders
<1>3. ASSUME NEW c \in Chans, Close(c)
      PROVE  HubInv'
  BY <1>0, <1>3 DEF HubTypeOK, Close, Registered
<1>4. ASSUME NEW c \in Chans, Receive(c)
      PROVE  HubInv'
  BY <1>0, <1>4 DEF HubTypeOK, Receive, Registered
<1>5. ASSUME NEW p \in Publishers, NEW topics \in Seq(Topics), StartPublish(p, topics)
      PROVE  HubInv'
  BY <1>0, <1>5 DEF HubTypeOK, StartPublish, Publisher, Registered
<1>6. ASSUME NEW p \in Publishers, LockRead(p)
      PROVE  HubInv'
  <2>1. Head(pub[p].todo) \in Topics
    BY <1>6 DEF HubTypeOK, LockRead, Publisher
  <2>2. QED
    BY <1>0, <1>6, <2>1 DEF HubTypeOK, LockRead, Publisher, Registered
<1>7. ASSUME NEW p \in Publishers, Send(p)
      PROVE  HubInv'
  BY <1>0, <1>7 DEF HubTypeOK, Send, Publisher, Registered
<1>8. ASSUME NEW p \in Publishers, UnlockRead(p)
      PROVE  HubInv'
  BY <1>0, <1>8 DEF HubTypeOK, UnlockRead, Publisher, Registered
<1>9. CASE UNCHANGED hubVars
  BY <1>0, <1>9 DEF hubVars, Registered
<1>10. QED
  BY <1>1, <1>2, <1>3, <1>4, <1>5, <1>6, <1>7, <1>8, <1>9 DEF HubNext, PublishStep

LEMMA HubInvSafe == HubInv => NoSendOnClosed
BY DEF HubInv, NoSendOnClosed, Registered

(* The hub never panics on a send, whatever its listeners do.              *)
THEOREM HubSafe == HubSpec => []NoSendOnClosed
BY HubInitInv, HubStepInv, HubInvSafe, PTL DEF HubSpec
-----------------------------------------------------------------------------
(* The channel the loop reads is its own, and a lookup is of a client.     *)
Wiring ==
    /\ main # "start" => own \in Chans
    /\ reader = "lookup" => who \in Clients

LEMMA SessionStep ==
    ASSUME HubTypeOK, Wiring, [Next]_vars
    PROVE  [HubNext]_hubVars /\ Wiring'
<1> USE SessionAssumption DEF Wiring
<1>1. ASSUME NEW p \in Publishers, Announce(p)
      PROVE  [HubNext]_hubVars /\ Wiring'
  <2>1. PICK u \in Clients :
          \E topics \in {<<u>>, <<u, Own>>, <<Own, u>>} : StartPublish(p, topics)
    BY <1>1 DEF Announce
  <2>2. {<<u>>, <<u, Own>>, <<Own, u>>} \subseteq Seq(Topics)
    OBVIOUS
  <2>3. QED
    BY <1>1, <2>1, <2>2 DEF HubNext, Announce, sessionVars
<1>2. ASSUME NEW p \in Publishers, Publish(p)
      PROVE  [HubNext]_hubVars /\ Wiring'
  BY <1>2 DEF HubNext, Publish, sessionVars
<1>3. CASE Open
  BY <1>3 DEF HubNext, Open
<1>4. CASE WriteOwn
  BY <1>4 DEF HubNext, WriteOwn
<1>5. CASE WriteOut \/ LeaveLoop \/ Unwind
  BY <1>5 DEF WriteOut, LeaveLoop, Unwind, CloseDone, SweepNext, SweepDone, CloseConn
<1>6. CASE ReadFrame \/ Denied \/ Record \/ Forget \/ ReadFails
  BY <1>6 DEF ReadFrame, Denied, Record, Forget, ReadFails
<1>7. CASE Join
  BY <1>7 DEF HubNext, Join
<1>8. ASSUME NEW g \in {"main", "reader"}, Cancel(g)
      PROVE  [HubNext]_hubVars /\ Wiring'
  <2>1. cancelling[g] \in Chans
    BY <1>8 DEF Cancel, Detach, Close, Registered, HubTypeOK
  <2>2. QED
    BY <1>8, <2>1 DEF Cancel, HubNext, sessionVars
<1>9. ASSUME NEW c \in Chans, ForwarderStep(c)
      PROVE  [HubNext]_hubVars /\ Wiring'
  BY <1>9 DEF ForwarderStep, Take, Forward, StopForwarding, ForwarderRest, HubNext
<1>10. CASE UNCHANGED vars
  BY <1>10 DEF vars, sessionVars
<1>11. QED
  BY <1>1, <1>2, <1>3, <1>4, <1>5, <1>6, <1>7, <1>8, <1>9, <1>10
  DEF Next, LoopStep, ReaderStep

(* The session uses the hub only through the hub's operations, ...         *)
THEOREM SessionUsesHub == Spec => UsesHub
<1>1. Init => HubInit /\ HubTypeOK /\ Wiring
  BY HubInitInv DEF Init, HubInv, Wiring
<1>2. HubTypeOK /\ Wiring /\ [Next]_vars => HubTypeOK' /\ Wiring' /\ [HubNext]_hubVars
  BY SessionStep, HubStepType
<1>3. QED
  BY <1>1, <1>2, PTL DEF Spec, UsesHub, HubSpec

(* ... so no frame, return or change, however they interleave, makes a     *)
(* publisher send on a channel the session has closed.                     *)
THEOREM SessionSafe == Spec => []NoSendOnClosed
BY SessionUsesHub, HubSafe, PTL DEF UsesHub
-----------------------------------------------------------------------------
(* The session's own state: who is where, the shared map, the forwarders.  *)
SessionTyped ==
    /\ alive \in BOOLEAN /\ stop \in BOOLEAN /\ stale \in BOOLEAN
    /\ main \in {"start", "loop", "return", "sweep", "cancel", "ended"}
    /\ reader \in {"none", "read", "lookup", "record", "cancel", "ended"}
    /\ own \in Chans \cup {NoChan} /\ joined \in Chans \cup {NoChan}
    /\ visited \subseteq Clients
    /\ who \in Clients \cup {NoChan}
    /\ cancelling \in [{"main", "reader"} -> Chans \cup {NoChan}]
    /\ clientSubs \in [Clients -> Chans \cup {NoChan}]
    /\ fwd \in [Chans -> {"none", "wait", "hold", "done"}]
    /\ out \in 0 .. OutCap
    /\ messages \in Nat /\ events \in Nat

LEMMA SessionStepType ==
    ASSUME SessionTyped, [Next]_vars
    PROVE  SessionTyped'
<1>1. ASSUME NEW p \in Publishers, Announce(p) \/ Publish(p)
      PROVE  SessionTyped'
  <2>1. stale' \in BOOLEAN
    <3>1. CASE Announce(p)
      <4>1. PICK topics : stale' = (stale \/ (main = "loop" /\ Len(topics) = 2))
        BY <3>1 DEF Announce
      <4>2. QED
        BY ONLY <4>1, Zenon
    <3>2. CASE Publish(p)
      BY <3>2 DEF Publish, SessionTyped
    <3>3. QED
      BY <1>1, <3>1, <3>2
  <2>2. events' \in Nat
    BY <1>1 DEF Announce, Publish, SessionTyped
  <2>3. UNCHANGED <<sessionVars, alive>>
    BY <1>1 DEF Announce, Publish
  <2>4. QED
    BY <2>1, <2>2, <2>3 DEF SessionTyped, sessionVars
<1>2. CASE Open
  BY <1>2 DEF Open, SessionTyped
<1>3. CASE LoopStep \/ LeaveLoop
  <2>1. CASE WriteOwn
    <3>1. stale' \in BOOLEAN /\ main' \in {"loop", "return"}
      BY <2>1 DEF WriteOwn, SessionTyped
    <3>2. UNCHANGED <<own, visited, reader, who, joined, cancelling, clientSubs, fwd,
                      out, stop, messages, alive, events>>
      BY <2>1 DEF WriteOwn
    <3>3. QED
      BY <3>1, <3>2 DEF SessionTyped
  <2>2. CASE WriteOut
    <3>1. out' \in 0 .. OutCap
      BY <2>2, SessionAssumption DEF WriteOut, SessionTyped
    <3>2. QED
      BY <2>2, <3>1 DEF WriteOut, SessionTyped
  <2>3. CASE LeaveLoop
    BY <2>3 DEF LeaveLoop, SessionTyped
  <2>4. QED
    BY <1>3, <2>1, <2>2, <2>3 DEF LoopStep
<1>4. CASE CloseDone \/ CloseConn
  BY <1>4 DEF CloseDone, CloseConn, SessionTyped
<1>5. CASE SweepNext
  <2>1. PICK u \in Clients \ visited :
          /\ visited' = visited \cup {u}
          /\ cancelling' = [cancelling EXCEPT !["main"] = clientSubs[u]]
    BY <1>5 DEF SweepNext
  <2>2. QED
    BY <1>5, <2>1 DEF SweepNext, SessionTyped
<1>6. CASE SweepDone
  BY <1>6 DEF SweepDone, SessionTyped
<1>7. CASE ReadFrame
  <2>1. PICK u \in Clients :
          /\ who' = u /\ reader' \in {"lookup", "cancel"}
          /\ cancelling' \in {cancelling, [cancelling EXCEPT !["reader"] = clientSubs[u]]}
    BY <1>7 DEF ReadFrame
  <2>2. cancelling' \in [{"main", "reader"} -> Chans \cup {NoChan}]
    BY <2>1 DEF SessionTyped
  <2>3. QED
    BY <1>7, <2>1, <2>2 DEF ReadFrame, SessionTyped
<1>8. CASE Denied \/ Join \/ ReadFails
  BY <1>8 DEF Denied, Join, ReadFails, SessionTyped
<1>9. CASE Record
  BY <1>9 DEF Record, MapWrite, SessionTyped
<1>10. CASE Forget
  BY <1>10 DEF Forget, MapWrite, SessionTyped
<1>11. ASSUME NEW g \in {"main", "reader"}, Cancel(g)
       PROVE  SessionTyped'
  BY <1>11 DEF Cancel, sessionVars, SessionTyped
<1>12. ASSUME NEW c \in Chans, ForwarderStep(c)
       PROVE  SessionTyped'
  BY <1>12, SessionAssumption
  DEF ForwarderStep, Take, Forward, StopForwarding, ForwarderRest, SessionTyped
<1>13. CASE UNCHANGED vars
  BY <1>13 DEF vars, sessionVars, SessionTyped
<1>14. QED
  BY <1>1, <1>2, <1>3, <1>4, <1>5, <1>6, <1>7, <1>8, <1>9, <1>10, <1>11, <1>12, <1>13
  DEF Next, Unwind, ReaderStep

LEMMA InitTypes == Init => HubTypeOK /\ Wiring /\ SessionTyped
<1>1. Init => HubTypeOK /\ Wiring
  BY HubInitInv DEF Init, HubInv, Wiring
<1>2. 0 \in 0 .. OutCap
  BY SessionAssumption
<1>3. Init => SessionTyped
  <2>1. Init => alive \in BOOLEAN /\ stop \in BOOLEAN /\ stale \in BOOLEAN
    BY Zenon DEF Init
  <2>2. QED
    BY <1>2, <2>1 DEF Init, SessionTyped
<1>4. QED
  BY <1>1, <1>3

(* The hub and the session stay well formed: no buffer, neither a          *)
(* subscriber's nor the session's out, ever holds more than its capacity.  *)
THEOREM StreamTypeCorrect == Spec => []TypeOK
<1>1. Init => HubTypeOK /\ Wiring /\ SessionTyped
  BY InitTypes
<1>2. HubTypeOK /\ Wiring /\ SessionTyped /\ [Next]_vars
        => HubTypeOK' /\ Wiring' /\ SessionTyped'
  BY SessionStep, HubStepType, SessionStepType
<1>3. HubTypeOK /\ SessionTyped => TypeOK
  BY DEF TypeOK, SessionTyped
<1>4. QED
  BY <1>1, <1>2, <1>3, PTL DEF Spec
-----------------------------------------------------------------------------
(* The safety half of BookCatchesUp: a book that went stale while the      *)
(* session is open always has a hint under way to it.                      *)

(* The rest of a publisher's topics still names the book.                  *)
Ahead(s) == \E i \in DOMAIN s : s[i] = Own

(* Publisher p has a hint of the book still to send to this session.       *)
Pending(p) ==
    \/ ~ pub[p].locked /\ Ahead(pub[p].todo)
    \/ pub[p].locked /\ Ahead(Tail(pub[p].todo))
    \/ pub[p].locked /\ Head(pub[p].todo) = Own /\ own \in pub[p].left

(* A hint that is dropped on a full channel, a subscribe or unsubscribe    *)
(* frame that is handled at the same time, a publisher that is half way    *)
(* through its topics: none of them loses the change (hub.go, Publish).    *)
HintUnderWay ==
    stale /\ main = "loop" => buf[own] > 0 \/ \E p \in Publishers : Pending(p)

(* No one but the loop cancels or reads the session's own channel, ...     *)
OwnApart ==
    /\ \A u \in Clients : clientSubs[u] \in (made \ {own}) \cup {NoChan}
    /\ joined \in (made \ {own}) \cup {NoChan}
    /\ cancelling["reader"] \in (made \ {own}) \cup {NoChan}
    /\ \A c \in Chans : fwd[c] # "none" => c \in made \ {own}
    /\ reader = "record" => joined # NoChan

(* ... which stays on the book's topic as long as the loop runs.           *)
Listening ==
    /\ own \in made \cup {NoChan}
    /\ main # "start" => own # NoChan
    /\ main \in {"start", "loop"} => cancelling["main"] = NoChan
    /\ main = "loop" => own \in subs[Own]
    /\ stale => main # "start"

StreamInv == HubInv /\ Wiring /\ SessionTyped /\ OwnApart /\ Listening

LEMMA ApartStep ==
    ASSUME StreamInv, [Next]_vars
    PROVE  OwnApart' /\ Listening'
<1> USE SessionAssumption DEF StreamInv
<1>0. made \subseteq Chans /\ NoChan \notin made /\ subs \in [Topics -> SUBSET Chans]
  BY DEF HubInv, HubTypeOK
<1>1. ASSUME NEW p \in Publishers, Announce(p) \/ Publish(p)
      PROVE  OwnApart' /\ Listening'
  <2>1. UNCHANGED <<made, subs, sessionVars>>
    BY <1>1 DEF Announce, Publish, StartPublish, PublishStep, LockRead, Send, UnlockRead
  <2>2. stale' => main # "start"
    <3>1. CASE Announce(p)
      <4>1. PICK topics : stale' = (stale \/ (main = "loop" /\ Len(topics) = 2))
        BY <3>1 DEF Announce
      <4>2. QED
        BY <4>1 DEF Listening
    <3>2. CASE Publish(p)
      BY <3>2 DEF Publish, Listening
    <3>3. QED
      BY <1>1, <3>1, <3>2
  <2>3. QED
    BY <2>1, <2>2 DEF sessionVars, OwnApart, Listening
<1>2. CASE Open
  <2>1. PICK c \in Chans : Subscribe(c, Own) /\ own' = c
    BY <1>2 DEF Open
  <2>2. /\ c \notin made /\ made' = made \cup {c} /\ c \in subs'[Own]
    BY <1>0, <2>1 DEF Subscribe, Fresh
  <2>3. /\ main = "start" /\ main' = "loop" /\ reader' = "read"
        /\ UNCHANGED <<joined, cancelling, clientSubs, fwd, stale>>
    BY <1>2 DEF Open
  <2>4. OwnApart'
    BY <1>0, <2>1, <2>2, <2>3 DEF OwnApart
  <2>5. QED
    BY <1>0, <2>1, <2>2, <2>3, <2>4 DEF Listening
<1>3. CASE LoopStep \/ LeaveLoop
  <2>1. /\ UNCHANGED <<made, subs, own, reader, joined, cancelling, clientSubs, fwd>>
        /\ main = "loop" /\ main' \in {"loop", "return"}
    BY <1>3 DEF LoopStep, WriteOwn, WriteOut, LeaveLoop, Receive, hubVars
  <2>2. QED
    BY <2>1 DEF OwnApart, Listening
<1>4. CASE Unwind
  <2>1. /\ UNCHANGED <<hubVars, own, reader, joined, clientSubs, fwd, stale>>
        /\ cancelling'["reader"] = cancelling["reader"]
        /\ main # "start" /\ main' \notin {"start", "loop"}
    BY <1>4 DEF Unwind, CloseDone, SweepNext, SweepDone, CloseConn, SessionTyped
  <2>2. QED
    BY <2>1 DEF hubVars, OwnApart, Listening
<1>5. CASE ReadFrame
  <2>1. PICK u \in Clients :
          cancelling' \in {cancelling, [cancelling EXCEPT !["reader"] = clientSubs[u]]}
    BY <1>5 DEF ReadFrame
  <2>2. /\ UNCHANGED <<hubVars, main, own, joined, clientSubs, fwd, stale>>
        /\ reader' # "record"
    BY <1>5 DEF ReadFrame
  <2>3. /\ cancelling'["main"] = cancelling["main"]
        /\ cancelling'["reader"] \in {cancelling["reader"], clientSubs[u]}
    BY <2>1 DEF SessionTyped
  <2>4. QED
    BY <2>2, <2>3 DEF hubVars, OwnApart, Listening
<1>6. CASE Denied \/ ReadFails
  BY <1>6 DEF Denied, ReadFails, hubVars, OwnApart, Listening
<1>7. CASE Join
  <2>1. PICK c \in Chans : Subscribe(c, who) /\ joined' = c
    BY <1>7 DEF Join
  <2>2. /\ c \notin made /\ made' = made \cup {c} /\ subs[Own] \subseteq subs'[Own]
    BY <1>0, <2>1 DEF Subscribe, Fresh
  <2>3. UNCHANGED <<main, own, cancelling, clientSubs, fwd, stale>>
    BY <1>7 DEF Join
  <2>4. QED
    BY <1>0, <2>1, <2>2, <2>3 DEF OwnApart, Listening
<1>8. CASE Record
  <2>1. /\ reader = "record" /\ joined \in made \ {own} /\ joined' = NoChan
        /\ reader' = "read" /\ clientSubs' = [clientSubs EXCEPT ![who] = joined]
        /\ fwd' = [fwd EXCEPT ![joined] = "wait"]
        /\ UNCHANGED <<hubVars, main, own, cancelling, stale>>
    BY <1>8 DEF Record, OwnApart
  <2>2. \A u \in Clients : clientSubs'[u] \in {clientSubs[u], joined}
    BY <2>1 DEF SessionTyped
  <2>3. \A c \in Chans : c # joined => fwd'[c] = fwd[c]
    BY <2>1 DEF SessionTyped
  <2>4. QED
    BY <2>1, <2>2, <2>3 DEF hubVars, OwnApart, Listening
<1>9. CASE Forget
  <2>1. /\ clientSubs' = [clientSubs EXCEPT ![who] = NoChan] /\ reader' = "read"
        /\ cancelling' = [cancelling EXCEPT !["reader"] = NoChan]
        /\ UNCHANGED <<hubVars, main, own, joined, fwd, stale>>
    BY <1>9 DEF Forget
  <2>2. \A u \in Clients : clientSubs'[u] \in {clientSubs[u], NoChan}
    BY <2>1 DEF SessionTyped
  <2>3. cancelling'["reader"] = NoChan /\ cancelling'["main"] = cancelling["main"]
    BY <2>1 DEF SessionTyped
  <2>4. QED
    BY <2>1, <2>2, <2>3 DEF hubVars, OwnApart, Listening
<1>10. ASSUME NEW g \in {"main", "reader"}, Cancel(g)
       PROVE  OwnApart' /\ Listening'
  <2>1. UNCHANGED <<made, sessionVars, stale>>
    BY <1>10 DEF Cancel, Detach, Close
  <2>2. main = "loop" => cancelling[g] # own
    BY <1>10 DEF OwnApart, Listening, Cancel
  <2>3. main = "loop" => own \in subs'[Own]
    BY <1>0, <1>10, <2>2 DEF Cancel, Detach, Close, Listening
  <2>4. QED
    BY <2>1, <2>3 DEF sessionVars, OwnApart, Listening
<1>11. ASSUME NEW c \in Chans, ForwarderStep(c)
       PROVE  OwnApart' /\ Listening'
  <2>1. /\ fwd[c] # "none" /\ \A d \in Chans \ {c} : fwd'[d] = fwd[d]
        /\ UNCHANGED <<made, subs, ForwarderRest>>
    BY <1>11 DEF ForwarderStep, Take, Forward, StopForwarding, Receive, hubVars, SessionTyped
  <2>2. QED
    BY <2>1 DEF ForwarderRest, OwnApart, Listening
<1>12. CASE UNCHANGED vars
  BY <1>12 DEF vars, hubVars, sessionVars, OwnApart, Listening
<1>13. QED
  BY <1>1, <1>2, <1>3, <1>4, <1>5, <1>6, <1>7, <1>8, <1>9, <1>10, <1>11, <1>12
  DEF Next, ReaderStep

LEMMA AheadTail ==
    ASSUME NEW s \in Seq(Topics), s # << >>
    PROVE  Ahead(s) <=> Head(s) = Own \/ Ahead(Tail(s))
<1>1. /\ Len(s) \in Nat /\ Len(s) >= 1 /\ DOMAIN s = 1 .. Len(s)
      /\ Head(s) = s[1] /\ DOMAIN Tail(s) = 1 .. Len(s) - 1
      /\ \A i \in 1 .. Len(s) - 1 : Tail(s)[i] = s[i + 1]
  OBVIOUS
<1>2. ASSUME NEW i \in DOMAIN s, s[i] = Own, i # 1
      PROVE  Ahead(Tail(s))
  <2>1. i - 1 \in 1 .. Len(s) - 1 /\ Tail(s)[i - 1] = s[i]
    BY <1>1, <1>2
  <2>2. QED
    BY <1>1, <1>2, <2>1 DEF Ahead
<1>3. ASSUME NEW i \in DOMAIN Tail(s), Tail(s)[i] = Own
      PROVE  Ahead(s)
  <2>1. i + 1 \in DOMAIN s /\ s[i + 1] = Own
    BY <1>1, <1>3
  <2>2. QED
    BY <2>1 DEF Ahead
<1>4. 1 \in DOMAIN s /\ Head(s) = s[1]
  BY <1>1
<1>5. QED
  BY <1>2, <1>3, <1>4 DEF Ahead

(* What the others do leaves a pending hint pending.                       *)
LEMMA StillPending ==
    ASSUME NEW q, Pending(q), pub'[q] = pub[q], own' = own
    PROVE  Pending(q)'
BY DEF Pending, Ahead

LEMMA QuietHint ==
    ASSUME HintUnderWay, UNCHANGED <<own, pub>>, stale' => stale,
           main' = "loop" => main = "loop",
           own \in Chans => buf'[own] = buf[own] 
    PROVE  main = "loop" /\ own \in Chans => HintUnderWay'
BY StillPending DEF HintUnderWay

(* The steps of a publisher: it takes up the topic, sends, goes on.        *)
LEMMA PublisherHint ==
    ASSUME HubTypeOK, Listening, main = "loop", NEW p \in Publishers, PublishStep(p),
           UNCHANGED <<own, stale, main>>, own \in Chans, HintUnderWay
    PROVE  HintUnderWay'
<1> SUFFICES ASSUME stale
             PROVE  buf'[own] > 0 \/ \E q \in Publishers : Pending(q)'
  BY DEF HintUnderWay
<1>1. pub[p] \in Publisher /\ pub \in [Publishers -> Publisher]
  BY DEF HubTypeOK
<1>2. /\ pub[p].todo \in Seq(Topics) /\ (pub[p].locked => pub[p].todo # << >>)
      /\ buf[own] \in 0 .. ChanCap /\ ChanCap \in Nat \ {0}
  BY <1>1, HubAssumption DEF HubTypeOK, Publisher
<1>3. \A q \in Publishers : q # p => pub'[q] = pub[q]
  BY <1>1 DEF PublishStep, LockRead, Send, UnlockRead
<1>4. \A q \in Publishers : q # p /\ Pending(q) => Pending(q)'
  BY <1>3, StillPending
<1>5. CASE LockRead(p)
  <2>1. /\ pub'[p].locked /\ pub'[p].left = subs[Head(pub[p].todo)]
        /\ pub'[p].todo = pub[p].todo /\ buf' = buf /\ ~ pub[p].locked
        /\ pub[p].todo # << >>
    BY <1>1, <1>5 DEF LockRead, Publisher
  <2>2. own \in subs[Own]
    BY DEF Listening
  <2>3. Pending(p) => Pending(p)'
    <3>1. SUFFICES ASSUME Ahead(pub[p].todo)
                   PROVE  Pending(p)'
      BY <2>1 DEF Pending
    <3>2. Head(pub[p].todo) = Own \/ Ahead(Tail(pub[p].todo))
      BY <1>2, <2>1, <3>1, AheadTail
    <3>3. QED
      BY <2>1, <2>2, <3>2 DEF Pending, Ahead
  <2>4. QED
    BY <1>4, <2>1, <2>3 DEF HintUnderWay
<1>6. CASE Send(p)
  <2>1. PICK c \in pub[p].left :
          /\ buf' = IF HasRoom(c) THEN [buf EXCEPT ![c] = @ + 1] ELSE buf
          /\ pub' = [pub EXCEPT ![p].left = @ \ {c}]
    BY <1>6 DEF Send
  <2>2. c \in Chans /\ buf \in [Chans -> 0 .. ChanCap]
    BY <1>1 DEF Publisher, HubTypeOK
  <2>3. /\ pub'[p].locked = pub[p].locked /\ pub'[p].todo = pub[p].todo
        /\ pub'[p].left = pub[p].left \ {c}
    BY <1>1, <2>1 DEF Publisher
  <2>4. CASE c = own
    <3>1. CASE HasRoom(c)
      <4>1. buf'[own] = buf[own] + 1
        BY <2>1, <2>2, <2>4, <3>1
      <4>2. QED
        BY <1>2, <4>1
    <3>2. CASE ~ HasRoom(c)
      <4>1. buf'[own] = buf[own] /\ ~ (buf[own] < ChanCap)
        BY <2>1, <2>4, <3>2 DEF HasRoom
      <4>2. QED
        BY <1>2, <4>1
    <3>3. QED
      BY <3>1, <3>2
  <2>5. CASE c # own
    <3>1. buf'[own] = buf[own]
      BY <2>1, <2>2, <2>5
    <3>2. Pending(p) => Pending(p)'
      BY <2>3, <2>5 DEF Pending, Ahead
    <3>3. QED
      BY <1>4, <3>1, <3>2 DEF HintUnderWay
  <2>6. QED
    BY <2>4, <2>5
<1>7. CASE UnlockRead(p)
  <2>1. /\ ~ pub'[p].locked /\ pub'[p].todo = Tail(pub[p].todo) /\ buf' = buf
        /\ pub[p].locked /\ pub[p].left = {}
    BY <1>1, <1>7 DEF UnlockRead, Publisher
  <2>2. Pending(p) => Pending(p)'
    BY <2>1 DEF Pending, Ahead
  <2>3. QED
    BY <1>4, <2>1, <2>2 DEF HintUnderWay
<1>8. QED
  BY <1>5, <1>6, <1>7 DEF PublishStep

(* A change that is announced is pending at its publisher.                 *)
LEMMA AnnounceHint ==
    ASSUME HubTypeOK, main = "loop", NEW p \in Publishers, Announce(p), HintUnderWay
    PROVE  HintUnderWay'
<1>0. PICK u \in Clients :
        \E topics \in {<<u>>, <<u, Own>>, <<Own, u>>} :
          /\ StartPublish(p, topics)
          /\ stale' = (stale \/ (main = "loop" /\ Len(topics) = 2))
  BY DEF Announce
<1>1. PICK topics \in {<<u>>, <<u, Own>>, <<Own, u>>} :
        /\ StartPublish(p, topics)
        /\ stale' = (stale \/ (main = "loop" /\ Len(topics) = 2))
  BY <1>0
<1>2. /\ pub[p].todo = << >> /\ ~ pub[p].locked /\ pub[p] \in Publisher
      /\ pub \in [Publishers -> Publisher]
  BY <1>1 DEF StartPublish, HubTypeOK
<1>3. /\ pub'[p].todo = topics /\ ~ pub'[p].locked /\ buf' = buf
      /\ \A q \in Publishers : q # p => pub'[q] = pub[q]
  BY <1>1, <1>2 DEF StartPublish, Publisher
<1>4. UNCHANGED <<own, main>>
  BY DEF Announce, sessionVars
<1>5. CASE stale
  <2>1. ~ Pending(p)
    BY <1>2 DEF Pending, Ahead
  <2>2. \A q \in Publishers : Pending(q) => Pending(q)'
    BY <1>3, <1>4, <2>1, StillPending
  <2>3. QED
    BY <1>3, <1>4, <1>5, <2>2 DEF HintUnderWay
<1>6. CASE ~ stale /\ stale'
  <2>1. Len(topics) = 2
    BY <1>1, <1>6, Zenon
  <2>2. topics \in {<<u, Own>>, <<Own, u>>}
    BY <1>1, <2>1
  <2>3. Ahead(topics)
    BY <2>2 DEF Ahead
  <2>4. Pending(p)'
    BY <1>3, <2>3 DEF Pending, Ahead
  <2>5. QED
    BY <2>4 DEF HintUnderWay
<1>7. CASE ~ stale'
  BY <1>7 DEF HintUnderWay
<1>8. QED
  BY <1>5, <1>6, <1>7

LEMMA HintStep ==
    ASSUME StreamInv, HintUnderWay, [Next]_vars
    PROVE  HintUnderWay'
<1> USE DEF StreamInv
<1>0. main = "loop" => own \in Chans
  BY DEF Wiring
<1>1. SUFFICES ASSUME stale', main' = "loop"
               PROVE  HintUnderWay'
  BY DEF HintUnderWay
<1>2. ASSUME NEW p \in Publishers, Announce(p)
      PROVE  HintUnderWay'
  BY <1>1, <1>2, AnnounceHint DEF Announce, sessionVars, HubInv
<1>3. ASSUME NEW p \in Publishers, Publish(p)
      PROVE  HintUnderWay'
  BY <1>0, <1>1, <1>3, PublisherHint DEF Publish, sessionVars, HubInv
<1>4. CASE Open
  BY <1>1, <1>4 DEF Open, Listening
<1>5. CASE WriteOwn
  BY <1>1, <1>5 DEF WriteOwn
<1>6. CASE WriteOut \/ LeaveLoop
  BY <1>0, <1>1, <1>6, QuietHint DEF WriteOut, LeaveLoop, hubVars
<1>7. CASE Unwind
  BY <1>1, <1>7 DEF Unwind, CloseDone, SweepNext, SweepDone, CloseConn
<1>8. CASE ReadFrame \/ Denied \/ Record \/ Forget \/ ReadFails
  BY <1>0, <1>1, <1>8, QuietHint DEF ReadFrame, Denied, Record, Forget, ReadFails, hubVars
<1>9. CASE Join
  BY <1>0, <1>1, <1>9, QuietHint DEF Join, Subscribe
<1>10. ASSUME NEW g \in {"main", "reader"}, Cancel(g)
       PROVE  HintUnderWay'
  BY <1>0, <1>1, <1>10, QuietHint DEF Cancel, Detach, Close, sessionVars
<1>11. ASSUME NEW c \in Chans, ForwarderStep(c)
       PROVE  HintUnderWay'
  <2>1. CASE Take(c)
    <3>1. c # own
      BY <2>1 DEF Take, OwnApart
    <3>2. own \in Chans => buf'[own] = buf[own]
      BY <2>1, <3>1 DEF Take, Receive, HubInv, HubTypeOK
    <3>3. QED
      BY <1>0, <1>1, <2>1, <3>2, QuietHint DEF Take, Receive, ForwarderRest
  <2>2. CASE Forward(c) \/ StopForwarding(c)
    BY <1>0, <1>1, <2>2, QuietHint DEF Forward, StopForwarding, ForwarderRest, hubVars
  <2>3. QED
    BY <1>11, <2>1, <2>2 DEF ForwarderStep
<1>12. CASE UNCHANGED vars
  BY <1>0, <1>1, <1>12, QuietHint DEF vars, hubVars, sessionVars
<1>13. QED
  BY <1>2, <1>3, <1>4, <1>5, <1>6, <1>7, <1>8, <1>9, <1>10, <1>11, <1>12
  DEF Next, LoopStep, ReaderStep

(* While the session is open, a book that changed since the portal last    *)
(* fetched it has a hint under way: full buffers drop hints, never the     *)
(* last one after a change.                                                *)
THEOREM NoChangeLost == Spec => []HintUnderWay
<1>1. Init => StreamInv /\ HintUnderWay
  <2>1. Init => HubInv /\ Wiring /\ SessionTyped
    BY HubInitInv, InitTypes DEF Init, Wiring
  <2>2. Init => OwnApart /\ Listening /\ HintUnderWay
    BY Zenon DEF Init, HubInit, OwnApart, Listening, HintUnderWay
  <2>3. QED
    BY <2>1, <2>2 DEF StreamInv
<1>2. StreamInv /\ [Next]_vars => HubInv' /\ Wiring' /\ SessionTyped'
  BY SessionStep, HubStepInv, SessionStepType DEF StreamInv, HubInv
<1>3. StreamInv /\ HintUnderWay /\ [Next]_vars => StreamInv' /\ HintUnderWay'
  BY <1>2, ApartStep, HintStep DEF StreamInv
<1>4. QED
  BY <1>1, <1>3, PTL DEF Spec
=============================================================================
