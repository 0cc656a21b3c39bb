------------------------------ MODULE Delivery ------------------------------
(***************************************************************************)
(* A room message on its way: numbered by the sending client from the      *)
(* counter it fetched when the room was selected (shellapp/connection,     *)
(* shellapp/commands/messaging.go), read by the sender's handler, offered  *)
(* to every joined member's send channel (broker/core/rooms.go), queued    *)
(* for the single database writer (broker/message_delivery/delivery.go)    *)
(* and inserted under the primary key (room, sender, key version, count)   *)
(* (broker/database/messages.go).  One room and one key version.           *)
(*                                                                         *)
(* Connections come and go as module Presence allows; module Hub shows     *)
(* that the broker's goroutines do no more than that.  Beside that, the    *)
(* broker's process may end and be started again.                          *)
(***************************************************************************)
EXTENDS Presence, Integers, Sequences, SequencesExt

CONSTANTS Founder,    \* the users who have joined at the start, in order
          SendCap,    \* capacity of a client's send channel (32)
          QueueCap,   \* capacity of outboundMessageChan (250)
          MaxSay,     \* bound: messages each user sends
          MaxSelect,  \* bound: room selections of each user
          MaxRestart, \* bound: times the broker's process ends and is started again
          DbMayFail   \* whether database statements may fail

ASSUME DeliveryAssumption ==
  /\ Founder \in Seq(User) /\ IsInjective(Founder)
  /\ SendCap \in Nat \ {0}
  /\ QueueCap \in Nat \ {0}
  /\ MaxSay \in [User -> Nat]
  /\ MaxSelect \in [User -> Nat]
  /\ MaxRestart \in Nat
  /\ DbMayFail \in BOOLEAN

(* The k-th message of a user; said[u][k] is the counter it carries. *)
Message == [from : User, k : Nat \ {0}]

VARIABLES link,      \* client: the connection in use (connection.conn)
          selected,  \* client: times the room was selected
          count,     \* client: RoomInfo.SentMessageCount, or NoRoom
          said,      \* client: counters of the messages it sent, in order
          inbox,     \* frames in flight to the broker, per connection
          job,       \* the RPC each connection's handler is running
          sendq,     \* Client.send
          got,       \* client: messages received, in order
          members,   \* room_members: the joined users, by joined_at
          queue,     \* outboundMessageChan
          writing,   \* the payload the writer took, if any
          stored,    \* room_messages, by created_at
          restarts,  \* how often the broker was started again
          lost       \* history: messages the broker had begun to handle and dropped

clientVars == <<link, selected, count, said, got>>
faults == <<restarts, lost>>
storeVars == <<queue, writing, stored, faults>>
vars == <<session, spent, clientVars, inbox, job, sendq, members, storeVars>>

NoRoom == -1    \* RoomInfo is nil
Reading == [at |-> "read", msg |-> <<>>, left |-> <<>>, ptr |-> NoConn]

TypeOK ==
  /\ PresenceTypeOK
  /\ link \in [User -> Conn \cup {NoConn}]
  /\ selected \in [User -> Nat]
  /\ count \in [User -> Nat \cup {NoRoom}]
  /\ said \in [User -> Seq(Nat)]
  /\ inbox \in [Conn -> Seq(Message)]
  /\ job \in [Conn -> [at : {"read", "fan", "send"},
                       msg : {<<>>} \cup Message,
                       left : Seq(User), ptr : Conn \cup {NoConn}]]
  /\ sendq \in [Conn -> Seq(Message)]
  /\ \A c \in Conn : Len(sendq[c]) <= SendCap
  /\ got \in [User -> Seq(Message)]
  /\ members \in Seq(User)
  /\ queue \in Seq(Message) /\ Len(queue) <= QueueCap
  /\ writing \in Seq(Message)
  /\ stored \in Seq(Message)
  /\ restarts \in 0 .. MaxRestart
  /\ lost \subseteq Message

Init ==
  /\ PresenceInit
  /\ link = [u \in User |-> NoConn]
  /\ selected = [u \in User |-> 0]
  /\ count = [u \in User |-> NoRoom]
  /\ said = [u \in User |-> <<>>]
  /\ inbox = [c \in Conn |-> <<>>]
  /\ job = [c \in Conn |-> Reading]
  /\ sendq = [c \in Conn |-> <<>>]
  /\ got = [u \in User |-> <<>>]
  /\ members = Founder
  /\ queue = <<>>
  /\ writing = <<>>
  /\ stored = <<>>
  /\ restarts = 0
  /\ lost = {}

(* GetUserSentMessageCount: how many of the rows are the user's. *)
StoredFrom(u) == Cardinality({i \in DOMAIN stored : stored[i].from = u})

-----------------------------------------------------------------------------
(* The client. *)

(* Connect succeeds: a fresh session, with no room selected. *)
Connect(c) ==
  LET u == Owner[c] IN
  /\ Open(c)
  /\ link' = [link EXCEPT ![u] = c]
  /\ count' = [count EXCEPT ![u] = NoRoom]
  /\ UNCHANGED <<selected, said, got, inbox, job, sendq, members, storeVars>>

(* The client's connection ends on its side: an error, its exit, or a      *)
(* Connect that closes the old connection and is refused.                  *)
HangUp(u) ==
  /\ link[u] # NoConn
  /\ link' = [link EXCEPT ![u] = NoConn]
  /\ count' = [count EXCEPT ![u] = NoRoom]
  /\ UNCHANGED <<session, spent, selected, said, got, inbox, job, sendq,
                 members, storeVars>>

(* Mutant of SelectRoom: messages are numbered from 1. *)
SelectRoomFromOne(u) ==
  /\ link[u] # NoConn
  /\ Contains(members, u)
  /\ selected[u] < MaxSelect[u]
  /\ selected' = [selected EXCEPT ![u] = @ + 1]
  /\ count' = [count EXCEPT ![u] = StoredFrom(u) + 1]
  /\ UNCHANGED <<session, spent, link, said, got, inbox, job, sendq, members,
                 storeVars>>

(* SetSessionRoom: the counter restarts from the number of this user's     *)
(* messages in the database.  The client sends nothing in between: both    *)
(* run on its UI goroutine.                                                *)
SelectRoom(u) ==
  /\ link[u] # NoConn
  /\ Contains(members, u)
  /\ selected[u] < MaxSelect[u]
  /\ selected' = [selected EXCEPT ![u] = @ + 1]
  /\ count' = [count EXCEPT ![u] = StoredFrom(u)]
  /\ UNCHANGED <<session, spent, link, said, got, inbox, job, sendq, members,
                 storeVars>>

(* sendRoomMessageWithType: the message carries the counter, which then    *)
(* moves on.  A frame written to a dead connection is lost.                *)
Say(u) ==
  LET c == link[u] IN
  /\ c # NoConn
  /\ count[u] # NoRoom
  /\ Len(said[u]) < MaxSay[u]
  /\ said' = [said EXCEPT ![u] = Append(@, count[u])]
  /\ count' = [count EXCEPT ![u] = @ + 1]
  /\ inbox' = IF session[u] = c
              THEN [inbox EXCEPT ![c] = Append(@, [from |-> u, k |-> Len(said[u]) + 1])]
              ELSE inbox
  /\ UNCHANGED <<session, spent, link, selected, got, job, sendq, members,
                 storeVars>>

(* The invited user u accepts: joined_at is set. *)
AcceptInvite(u) ==
  /\ ~Contains(members, u)
  /\ members' = Append(members, u)
  /\ UNCHANGED <<session, spent, clientVars, inbox, job, sendq, storeVars>>

-----------------------------------------------------------------------------
(* The sender's handler: sendRoomMessage. *)

(* The joined members, by when they joined. *)
ListRoomMembers == members

(* The frame is read and the joined members are listed. *)
ReadMessage(c) ==
  /\ session[Owner[c]] = c
  /\ job[c].at = "read"
  /\ inbox[c] # <<>>
  /\ inbox' = [inbox EXCEPT ![c] = Tail(@)]
  /\ job' = [job EXCEPT ![c] =
       [at |-> "fan", msg |-> Head(inbox[c]), left |-> ListRoomMembers, ptr |-> NoConn]]
  /\ UNCHANGED <<session, spent, clientVars, sendq, members, storeVars>>

(* ListRoomMembers fails: the message is dropped, the handler reads on. *)
ReadFails(c) ==
  /\ DbMayFail
  /\ session[Owner[c]] = c
  /\ job[c].at = "read"
  /\ inbox[c] # <<>>
  /\ inbox' = [inbox EXCEPT ![c] = Tail(@)]
  /\ UNCHANGED <<session, spent, clientVars, job, sendq, members, storeVars>>

(* Mutant of FanOut: the sender is not skipped. *)
FanOutToAll(c) ==
  LET j == job[c]
      u == Head(j.left) IN
  /\ j.at = "fan"
  /\ j.left # <<>>
  /\ job' = [job EXCEPT ![c] =
       IF session[u] = NoConn
       THEN [j EXCEPT !.left = Tail(@)]
       ELSE [j EXCEPT !.left = Tail(@), !.at = "send", !.ptr = session[u]]]
  /\ UNCHANGED <<session, spent, clientVars, inbox, sendq, members, storeVars>>

(* The next member: the sender is skipped, and so is whoever is offline;   *)
(* otherwise sendToClient has its pointer.                                 *)
FanOut(c) ==
  LET j == job[c]
      u == Head(j.left) IN
  /\ j.at = "fan"
  /\ j.left # <<>>
  /\ job' = [job EXCEPT ![c] =
       IF u = j.msg.from \/ session[u] = NoConn
       THEN [j EXCEPT !.left = Tail(@)]
       ELSE [j EXCEPT !.left = Tail(@), !.at = "send", !.ptr = session[u]]]
  /\ UNCHANGED <<session, spent, clientVars, inbox, sendq, members, storeVars>>

(* Mutant of TrySend: a plain send, which waits for room. *)
BlockingSend(c) ==
  LET j == job[c] IN
  /\ j.at = "send"
  /\ Len(sendq[j.ptr]) < SendCap
  /\ sendq' = [sendq EXCEPT ![j.ptr] = Append(@, j.msg)]
  /\ job' = [job EXCEPT ![c] = [j EXCEPT !.at = "fan", !.ptr = NoConn]]
  /\ UNCHANGED <<session, spent, clientVars, inbox, members, storeVars>>

(* trySend: dropped if the recipient's channel is full. *)
TrySend(c) ==
  LET j == job[c] IN
  /\ j.at = "send"
  /\ sendq' = IF Len(sendq[j.ptr]) < SendCap
              THEN [sendq EXCEPT ![j.ptr] = Append(@, j.msg)] ELSE sendq
  /\ job' = [job EXCEPT ![c] = [j EXCEPT !.at = "fan", !.ptr = NoConn]]
  /\ UNCHANGED <<session, spent, clientVars, inbox, members, storeVars>>

(* Mutant of Enqueue: the test of the capacity is off by one. *)
EnqueueOneMore(c) ==
  LET j == job[c] IN
  /\ j.at = "fan"
  /\ j.left = <<>>
  /\ queue' = IF Len(queue) <= QueueCap THEN Append(queue, j.msg) ELSE queue
  /\ job' = [job EXCEPT ![c] = Reading]
  /\ UNCHANGED <<session, spent, clientVars, inbox, sendq, members, writing,
                 stored, faults>>

(* Enqueue: dropped if the writer's channel is full. *)
Enqueue(c) ==
  LET j == job[c] IN
  /\ j.at = "fan"
  /\ j.left = <<>>
  /\ IF Len(queue) < QueueCap
     THEN queue' = Append(queue, j.msg) /\ UNCHANGED lost
     ELSE lost' = lost \cup {j.msg} /\ UNCHANGED queue
  /\ job' = [job EXCEPT ![c] = Reading]
  /\ UNCHANGED <<session, spent, clientVars, inbox, sendq, members, writing,
                 stored, restarts>>

(* Mutant of Disconnect: the RPC runs in a goroutine of its own, and the   *)
(* connection is unregistered without waiting for it.                      *)
DisconnectAtOnce(c) ==
  /\ Close(c)
  /\ UNCHANGED <<clientVars, inbox, job, sendq, members, storeVars>>

(* The connection ends: readLoop returns between two frames, and           *)
(* removeClient runs.                                                      *)
Disconnect(c) ==
  /\ Close(c)
  /\ job[c].at = "read"
  /\ UNCHANGED <<clientVars, inbox, job, sendq, members, storeVars>>

-----------------------------------------------------------------------------
(* The recipient's writeLoop, up to the receiving client. *)
Deliver(c) ==
  LET u == Owner[c] IN
  /\ sendq[c] # <<>>
  /\ session[u] = c
  /\ link[u] = c
  /\ got' = [got EXCEPT ![u] = Append(@, Head(sendq[c]))]
  /\ sendq' = [sendq EXCEPT ![c] = Tail(@)]
  /\ UNCHANGED <<session, spent, link, selected, count, said, inbox, job,
                 members, storeVars>>

-----------------------------------------------------------------------------
(* The database writer. *)

(* Mutant of WriterTake: the writer does not wait for its last INSERT, and *)
(* the later of two rows can be the first to get in.                       *)
TakeWithoutWaiting ==
  /\ queue # <<>>
  /\ writing' = <<Head(queue)>> \o writing
  /\ queue' = Tail(queue)
  /\ UNCHANGED <<session, spent, clientVars, inbox, job, sendq, members, stored,
                 faults>>

WriterTake ==
  /\ writing = <<>>
  /\ queue # <<>>
  /\ writing' = <<Head(queue)>>
  /\ queue' = Tail(queue)
  /\ UNCHANGED <<session, spent, clientVars, inbox, job, sendq, members, stored,
                 faults>>

Counter(m) == said[m.from][m.k]

(* Another row has the primary key of m. *)
KeyTaken(m) == \E r \in ToSet(stored) :
                  r.from = m.from /\ Counter(r) = Counter(m)

(* InsertRoomMessage: an error is logged and the payload forgotten. *)
WriterInsert ==
  /\ writing # <<>>
  /\ stored' = IF KeyTaken(Head(writing)) THEN stored ELSE stored \o writing
  /\ writing' = <<>>
  /\ UNCHANGED <<session, spent, clientVars, inbox, job, sendq, members, queue,
                 faults>>

WriterFails ==
  /\ DbMayFail
  /\ writing # <<>>
  /\ writing' = <<>>
  /\ lost' = lost \cup ToSet(writing)
  /\ UNCHANGED <<session, spent, clientVars, inbox, job, sendq, members, queue,
                 stored, restarts>>

-----------------------------------------------------------------------------
(* The messages the broker is at. *)
Handled == ToSet(queue) \cup ToSet(writing) \cup ({job[c].msg : c \in Conn} \ {<<>>})

(* The broker's process ends and main starts it again: connections,        *)
(* handlers and queues are gone, the tables are as they were; the INSERT   *)
(* that was under way has been done or not.                                *)
Restart ==
  LET Inserted == {<<>>} \cup {w \in {writing} : w # <<>> /\ ~KeyTaken(Head(w))} IN
  /\ restarts < MaxRestart
  /\ restarts' = restarts + 1
  /\ session' = [u \in User |-> NoConn]
  /\ inbox' = [c \in Conn |-> <<>>]
  /\ job' = [c \in Conn |-> Reading]
  /\ sendq' = [c \in Conn |-> <<>>]
  /\ queue' = <<>> /\ writing' = <<>>
  /\ \E w \in Inserted :
       /\ stored' = stored \o w
       /\ lost' = lost \cup (Handled \ ToSet(w))
  /\ UNCHANGED <<spent, clientVars, members>>

-----------------------------------------------------------------------------
Handler(c) == \/ ReadMessage(c) \/ ReadFails(c) \/ FanOut(c) \/ TrySend(c)
              \/ Enqueue(c)
Writer == WriterTake \/ WriterInsert \/ WriterFails

Next ==
  \/ \E c \in Conn : Connect(c) \/ Handler(c) \/ Disconnect(c) \/ Deliver(c)
  \/ \E u \in User : HangUp(u) \/ SelectRoom(u) \/ Say(u) \/ AcceptInvite(u)
  \/ Writer \/ Restart

Spec == Init /\ [][Next]_vars

(* The broker's goroutines are scheduled; clients owe nothing. *)
Fairness == WF_vars(Writer) /\ \A c \in Conn : WF_vars(Handler(c))
FairSpec == Spec /\ Fairness

-----------------------------------------------------------------------------
(* Properties. *)

InSendOrder(msgs) ==
  \A i, j \in 1 .. Len(msgs) :
    i < j /\ msgs[i].from = msgs[j].from => msgs[i].k < msgs[j].k

(* A client sees each sender's messages in the order they were sent and    *)
(* none twice, over all the connections sender and recipient go through:   *)
(* sendRoomMessage of one connection has ended before the user's next      *)
(* connection is let in.                                                   *)
PerSenderOrder == \A u \in User : InSendOrder(got[u])

(* The history keeps each sender's messages in that same order.            *)
HistoryInOrder == InSendOrder(stored)

R == INSTANCE Conversation WITH joined <- ToSet(members)

(* Whatever the connections, queues and failures on the way, clients and   *)
(* history see a conversation: nothing that was not said, nothing sent     *)
(* back to its sender or to one who has not joined, no number twice in the *)
(* history.                                                                *)
ImplementsConversation == R!ConversationSpec

(* A client never numbers a message beyond the ones it has sent, however   *)
(* selections, lost messages and the lagging database interleave: the      *)
(* ratchet index never runs ahead of the conversation.                     *)
CounterNotAhead ==
  \A u \in User : count[u] # NoRoom => count[u] <= Len(said[u])

(* The messages a user sends in a room carry strictly increasing counters. *)
StrictlyIncreasing ==
  \A u \in User : \A i, j \in 1 .. Len(said[u]) :
    i < j => said[u][i] < said[u][j]

(* A message the broker has begun to handle gets through the fan-out,      *)
(* whatever the recipients' connections and channels are like, and into    *)
(* the history, unless another message of the sender has its number or it  *)
(* was dropped at the writer's full channel, by a statement that failed or *)
(* with the process.                                                       *)
HandledIsStored ==
  \A u \in User : \A k \in 1 .. MaxSay[u] :
    LET m == [from |-> u, k |-> k] IN
    m \in Handled ~>
      (m \in ToSet(stored) \cup lost \/ (k <= Len(said[u]) /\ KeyTaken(m)))
=============================================================================
