------------------------------- MODULE Client -------------------------------
(***************************************************************************)
(* The terminal client: the session of shellapp/connection, its read       *)
(* loops, the interface of shellapp/main.go with the goroutines its        *)
(* commands run in, the room selection and the message keys.               *)
(*                                                                         *)
(* Update handles one message at a time, and a command line runs to its    *)
(* end inside it: logging in, selecting a room and sending are one step    *)
(* each.  What Update returns runs in goroutines whose results come back   *)
(* in any order (mail).  Every connection has a read loop of its own and a *)
(* channel of room messages, numbered by the login it came with.  One      *)
(* other user, with a client like this one, sends to both rooms.           *)
(* Notifications and echoes go through channels and waiters of the same    *)
(* make and are left out.                                                  *)
(***************************************************************************)
EXTENDS Naturals, Sequences, Ratchet

CONSTANTS Room, NoRoom,
          Before,      \* how many messages the other user has sent before, per room
          ChanCap,     \* capacity of a channel of room messages (16 in the code)
          MaxLogin,    \* bound: connections that are made
          MaxSelect,   \* bound: selections that are tried
          MaxMessage   \* bound: messages that are sent, by either user

ASSUME ClientAssumption ==
  /\ NoRoom \notin Room
  /\ ChanCap \in Nat \ {0}
  /\ Before \in [Room -> Nat]
  /\ \A n \in {MaxLogin, MaxSelect, MaxMessage} : n \in Nat

VARIABLES alive,     \* FALSE once the program has crashed
          conn,      \* the login whose connection is conn, or 0; session is set with it
          roomID,    \* session.RoomID
          count,     \* session.RoomInfo.SentMessageCount
          chain,     \* session.KeyManager: the user's own chain and the other user's
          net,       \* sent to a connection and not read
          loop,      \* its readLoop
          inbox,     \* its roomMessageChan
          waiter,    \* goroutines of waitRoomMessages
          mail,      \* messages on their way to Update
          uiRoom,    \* model.selectedRoomID
          tick,      \* RoomsComponent.selected
          sent,      \* own messages that were sent, per room
          passed,    \* how many of them the broker is done with
          stored,    \* those in the database
          said,      \* the other user's labels in a room are those below this
          theirs,    \* where the other user's own chain of a room is
          spent,     \* how much of each bound is used up
          crossed,   \* history: rooms whose chain another room's message has moved
          twins,     \* history: whether two waiters ever ran at once
          lagged,    \* history: rooms selected before all sent there was stored
          overtaken, \* history: an earlier selection was the last to reach Update
          misticked  \* history: the last room ticked could not be selected

session == <<conn, roomID, count, chain>>
broker == <<passed, stored>>
peer == <<said, theirs>>
histories == <<crossed, twins, lagged, overtaken, misticked>>
vars == <<alive, session, net, loop, inbox, waiter, mail, uiRoom, tick, sent,
          broker, peer, spent, histories>>

Login == 1 .. MaxLogin
(* behind, a history: its sender had used a higher label before. *)
Message == [room : Room, label : Nat, key : Nat, behind : BOOLEAN]
Own == [label : 0 .. MaxMessage, key : 0 .. MaxMessage]
NoMessage == [room |-> NoRoom, label |-> 0, key |-> 0, behind |-> FALSE]

(* Each login starts one waiter, and a waiter only ever starts the next.   *)
Slot == Login
Free == [at |-> "free", g |-> 0, m |-> NoMessage]
Waiting(g) == [at |-> "waiting", g |-> g, m |-> NoMessage]
NewChain == [own |-> 0, other |-> 0]

TypeOK ==
  /\ alive \in BOOLEAN
  /\ conn \in 0 .. MaxLogin
  /\ roomID \in Room \cup {NoRoom} /\ uiRoom \in Room \cup {NoRoom}
  /\ tick \in Room \cup {NoRoom}
  /\ count \in 0 .. MaxMessage
  /\ chain \in [Room -> [own : 0 .. MaxMessage, other : Nat]]
  /\ net \in [Login -> Seq(Message)] /\ inbox \in [Login -> Seq(Message)]
  /\ \A g \in Login : Len(inbox[g]) <= ChanCap
  /\ loop \in [Login -> [at : {"none", "reading", "holding", "ended"},
                         m : Message \cup {NoMessage}]]
  /\ waiter \in [Slot -> [at : {"free", "waiting", "taken", "done"}, g : 0 .. MaxLogin,
                          m : Message \cup {NoMessage}]]
  /\ mail \subseteq [kind : {"connected", "selected"}, n : Nat, room : Room \cup {NoRoom}]
  /\ sent \in [Room -> Seq(Own)] /\ stored \in [Room -> Seq(Own)]
  /\ passed \in [Room -> 0 .. MaxMessage]
  /\ said \in [Room -> Nat] /\ theirs \in [Room -> Nat]
  /\ spent \in [login : 0 .. MaxLogin, select : 0 .. MaxSelect,
                failed : 0 .. MaxSelect, message : 0 .. MaxMessage]
  /\ crossed \subseteq Room /\ lagged \subseteq Room
  /\ twins \in BOOLEAN /\ overtaken \in BOOLEAN /\ misticked \in BOOLEAN

Init ==
  /\ alive = TRUE
  /\ conn = 0 /\ roomID = NoRoom /\ count = 0
  /\ chain = [r \in Room |-> NewChain]
  /\ net = [g \in Login |-> <<>>] /\ inbox = [g \in Login |-> <<>>]
  /\ loop = [g \in Login |-> [at |-> "none", m |-> NoMessage]]
  /\ waiter = [s \in Slot |-> Free]
  /\ mail = {} /\ uiRoom = NoRoom /\ tick = NoRoom
  /\ sent = [r \in Room |-> <<>>] /\ stored = [r \in Room |-> <<>>]
  /\ passed = [r \in Room |-> 0] /\ said = Before
  /\ theirs = [r \in Room |-> IF Before[r] = 0 THEN 0 ELSE Before[r] - 1]
  /\ spent = [login |-> 0, select |-> 0, failed |-> 0, message |-> 0]
  /\ crossed = {} /\ lagged = {}
  /\ twins = FALSE /\ overtaken = FALSE /\ misticked = FALSE

(* GetOrCreateRoomKeyChain: the chain of the room that is selected now. *)
SessionChain == chain[roomID]

-----------------------------------------------------------------------------
(* Logging in. *)

(* No session, and no key chains. *)
EndSession == /\ conn' = 0 /\ roomID' = NoRoom /\ count' = 0
              /\ chain' = [r \in Room |-> NewChain]
              /\ crossed' = {}

(* Connect: the connection there was is closed, its read loop left to      *)
(* itself; channels and session are new.  The screen is not touched.       *)
Connect ==
  LET g == spent.login + 1 IN
  /\ g \in Login
  /\ spent' = [spent EXCEPT !.login = g]
  /\ conn' = g /\ roomID' = NoRoom /\ count' = 0
  /\ chain' = [r \in Room |-> NewChain]
  /\ crossed' = {}
  /\ loop' = [loop EXCEPT ![g].at = "reading"]
  /\ mail' = mail \cup {[kind |-> "connected", n |-> g, room |-> NoRoom]}
  /\ UNCHANGED <<alive, net, inbox, waiter, uiRoom, tick, sent, broker, peer,
                 twins, lagged, overtaken, misticked>>

(* The new connection cannot be made, and the old one is closed already. *)
ConnectFails ==
  /\ conn # 0
  /\ EndSession
  /\ UNCHANGED <<alive, net, loop, inbox, waiter, mail, uiRoom, tick, sent,
                 broker, peer, spent, twins, lagged, overtaken, misticked>>

-----------------------------------------------------------------------------
(* Selecting a room. *)

(* getRoomInfo: what the broker counts of the user's messages in r. *)
SentMessageCount(r) == Len(stored[r])

(* In the list of rooms, which ticks it at once, or by a command.  The     *)
(* counter restarts from what is stored; Update hears of it later.         *)
SelectRoom(r, inList) ==
  LET n == spent.select + 1 IN
  /\ conn # 0
  /\ n + spent.failed <= MaxSelect
  /\ spent' = [spent EXCEPT !.select = n]
  /\ roomID' = r
  /\ count' = SentMessageCount(r)
  /\ mail' = mail \cup {[kind |-> "selected", n |-> n, room |-> r]}
  /\ tick' = IF inList THEN r ELSE tick
  /\ misticked' = (~inList /\ misticked)
  /\ lagged' = IF SentMessageCount(r) < Len(sent[r]) THEN lagged \cup {r} ELSE lagged
  /\ UNCHANGED <<alive, conn, chain, net, loop, inbox, waiter, uiRoom, sent,
                 broker, peer, crossed, twins, overtaken>>

(* room-select; that the query fits no room or several is left out. *)
roomSelectCmd(r) == SelectRoom(r, FALSE)

(* Mutant of SelectFails: the room is set before its key is fetched. *)
SelectHalfWay(r) ==
  /\ spent.select + spent.failed < MaxSelect
  /\ spent' = [spent EXCEPT !.failed = @ + 1]
  /\ tick' = r /\ misticked' = TRUE
  /\ roomID' = IF conn = 0 THEN roomID ELSE r
  /\ UNCHANGED <<alive, conn, count, chain, net, loop, inbox, waiter, mail,
                 uiRoom, sent, broker, peer, crossed, twins, lagged, overtaken>>

(* The key or the counter cannot be fetched: nothing is selected, but the  *)
(* list has ticked the room.                                               *)
SelectFails(r) ==
  /\ spent.select + spent.failed < MaxSelect
  /\ spent' = [spent EXCEPT !.failed = @ + 1]
  /\ tick' = r /\ misticked' = TRUE
  /\ UNCHANGED <<alive, session, net, loop, inbox, waiter, mail, uiRoom, sent,
                 broker, peer, crossed, twins, lagged, overtaken>>

(* Update, RoomSelectedMsg. *)
UpdateSelected(m) ==
  /\ m \in mail /\ m.kind = "selected"
  /\ mail' = mail \ {m}
  /\ uiRoom' = m.room /\ tick' = m.room
  /\ misticked' = FALSE
  /\ overtaken' = \E n \in m.n + 1 .. spent.select :
                    \A x \in mail : x.kind = "selected" => x.n # n
  /\ UNCHANGED <<alive, session, net, loop, inbox, waiter, sent, broker, peer,
                 spent, crossed, twins, lagged>>

-----------------------------------------------------------------------------
(* Sending. *)

(* Mutants of Say: the message is not counted; it is labelled with the     *)
(* count after it.                                                         *)
SayUncounted ==
  LET key == GetUserKey(SessionChain.own, count) IN
  /\ conn # 0 /\ roomID # NoRoom
  /\ spent.message < MaxMessage
  /\ spent' = [spent EXCEPT !.message = @ + 1]
  /\ chain' = [chain EXCEPT ![roomID].own = key]
  /\ sent' = [sent EXCEPT ![roomID] = Append(@, Sealed(SessionChain.own, count))]
  /\ UNCHANGED <<alive, conn, roomID, count, net, loop, inbox, waiter, mail,
                 uiRoom, tick, broker, peer, histories>>

SayNextLabel ==
  LET key == GetUserKey(SessionChain.own, count) IN
  /\ conn # 0 /\ roomID # NoRoom
  /\ spent.message < MaxMessage
  /\ spent' = [spent EXCEPT !.message = @ + 1]
  /\ chain' = [chain EXCEPT ![roomID].own = key]
  /\ sent' = [sent EXCEPT ![roomID] = Append(@, [label |-> count + 1, key |-> key])]
  /\ count' = count + 1
  /\ UNCHANGED <<alive, conn, roomID, net, loop, inbox, waiter, mail, uiRoom, tick,
                 broker, peer, histories>>

(* sendRoomMessageWithType: the label is the session's counter, the key    *)
(* what the user's own chain gives for it.                                 *)
Say ==
  LET key == GetUserKey(SessionChain.own, count) IN
  /\ conn # 0 /\ roomID # NoRoom
  /\ spent.message < MaxMessage
  /\ spent' = [spent EXCEPT !.message = @ + 1]
  /\ chain' = [chain EXCEPT ![roomID].own = key]
  /\ sent' = [sent EXCEPT ![roomID] = Append(@, Sealed(SessionChain.own, count))]
  /\ count' = count + 1
  /\ UNCHANGED <<alive, conn, roomID, net, loop, inbox, waiter, mail, uiRoom, tick,
                 broker, peer, histories>>

(* The broker is done with the next message of a room: it is stored, or    *)
(* refused for its label, or lost on the way.                              *)
Store(r) ==
  LET m == sent[r][passed[r] + 1] IN
  /\ passed[r] < Len(sent[r])
  /\ passed' = [passed EXCEPT ![r] = @ + 1]
  /\ \/ /\ \A i \in DOMAIN stored[r] : stored[r][i].label # m.label
        /\ stored' = [stored EXCEPT ![r] = Append(@, m)]
     \/ UNCHANGED stored
  /\ UNCHANGED <<alive, session, net, loop, inbox, waiter, mail, uiRoom, tick, sent,
                 peer, spent, histories>>

(* What the broker answers to a request for the last n messages of r. *)
GetRoomMessages(r, n) == Latest(stored[r], n)

-----------------------------------------------------------------------------
(* Receiving. *)

(* The other user says something in r, by a client like this one: the      *)
(* count goes on, or has restarted from what is stored, which is less if   *)
(* an insert was pending or has failed; the chain is that of the session,  *)
(* or a new session's.  The connection gets the message, if there is one   *)
(* and its channel at the broker is not full.                              *)
Hear(r) ==
  /\ spent.message < MaxMessage
  /\ spent' = [spent EXCEPT !.message = @ + 1]
  /\ \E n \in 0 .. said[r], c \in {0, theirs[r]} :
       LET key == GetUserKey(c, n) IN
       /\ said' = IF n = said[r] THEN [said EXCEPT ![r] = n + 1] ELSE said
       /\ theirs' = [theirs EXCEPT ![r] = key]
       /\ \/ /\ conn # 0
             /\ net' = [net EXCEPT ![conn] =
                          Append(@, [room |-> r, label |-> n, key |-> key,
                                     behind |-> n + 1 < said[r]])]
          \/ UNCHANGED net
  /\ UNCHANGED <<alive, session, loop, inbox, waiter, mail, uiRoom, tick, sent, broker,
                 histories>>

(* readLoop takes a frame, also one that came before its connection was    *)
(* closed...                                                               *)
ReadMessage(g) ==
  /\ loop[g].at = "reading" /\ net[g] # <<>>
  /\ loop' = [loop EXCEPT ![g] = [at |-> "holding", m |-> Head(net[g])]]
  /\ net' = [net EXCEPT ![g] = Tail(@)]
  /\ UNCHANGED <<alive, session, inbox, waiter, mail, uiRoom, tick, sent, broker,
                 peer, spent, histories>>

(* Mutant of HandOver: one more than the channel holds. *)
HandOverOneMore(g) ==
  /\ loop[g].at = "holding"
  /\ Len(inbox[g]) <= ChanCap
  /\ inbox' = [inbox EXCEPT ![g] = Append(@, loop[g].m)]
  /\ loop' = [loop EXCEPT ![g] = [at |-> "reading", m |-> NoMessage]]
  /\ UNCHANGED <<alive, session, net, waiter, mail, uiRoom, tick, sent, broker,
                 peer, spent, histories>>

(* ... and waits until the channel has room for it. *)
HandOver(g) ==
  /\ loop[g].at = "holding"
  /\ Len(inbox[g]) < ChanCap
  /\ inbox' = [inbox EXCEPT ![g] = Append(@, loop[g].m)]
  /\ loop' = [loop EXCEPT ![g] = [at |-> "reading", m |-> NoMessage]]
  /\ UNCHANGED <<alive, session, net, waiter, mail, uiRoom, tick, sent, broker,
                 peer, spent, histories>>

(* Mutant of LoopEnds: whichever session there is ends. *)
LoopEndsSession(g) ==
  /\ loop[g].at = "reading"
  /\ loop' = [loop EXCEPT ![g].at = "ended"]
  /\ net' = [net EXCEPT ![g] = <<>>]
  /\ EndSession
  /\ UNCHANGED <<alive, inbox, waiter, mail, uiRoom, tick, sent, broker, peer,
                 spent, twins, lagged, overtaken, misticked>>

(* The connection fails or was closed.  The session ends with it if it is  *)
(* still this connection's; the channel is closed.                         *)
LoopEnds(g) ==
  /\ loop[g].at = "reading"
  /\ loop' = [loop EXCEPT ![g].at = "ended"]
  /\ net' = [net EXCEPT ![g] = <<>>]
  /\ IF conn = g THEN EndSession ELSE UNCHANGED <<session, crossed>>
  /\ UNCHANGED <<alive, inbox, waiter, mail, uiRoom, tick, sent, broker, peer,
                 spent, twins, lagged, overtaken, misticked>>

(* Mutants of UpdateConnected: two waiters are started; one is started     *)
(* after the first login only.                                             *)
UpdateConnectedTwice(m) ==
  /\ m \in mail /\ m.kind = "connected"
  /\ mail' = mail \ {m}
  /\ waiter' = [s \in Slot |-> IF waiter[s].at = "free" THEN Waiting(spent.login)
                               ELSE waiter[s]]
  /\ twins' = (twins \/ \E s \in Slot : waiter[s].at # "free")
  /\ UNCHANGED <<alive, session, net, loop, inbox, uiRoom, tick, sent, broker, peer,
                 spent, crossed, lagged, overtaken, misticked>>

UpdateConnectedOnce(m) ==
  /\ m \in mail /\ m.kind = "connected"
  /\ mail' = mail \ {m}
  /\ waiter' = IF m.n = 1 THEN [waiter EXCEPT ![m.n] = Waiting(spent.login)] ELSE waiter
  /\ UNCHANGED <<alive, session, net, loop, inbox, uiRoom, tick, sent, broker, peer,
                 spent, histories>>

(* Update, ConnectedMsg: a waiter on the channel of that moment. *)
UpdateConnected(m) ==
  /\ m \in mail /\ m.kind = "connected"
  /\ mail' = mail \ {m}
  /\ waiter' = [waiter EXCEPT ![m.n] = Waiting(spent.login)]
  /\ twins' = (twins \/ \E s \in Slot : waiter[s].at # "free")
  /\ UNCHANGED <<alive, session, net, loop, inbox, uiRoom, tick, sent, broker, peer,
                 spent, crossed, lagged, overtaken, misticked>>

(* waitRoomMessages takes a message, or returns when the channel is closed *)
(* and empty.                                                              *)
TakeMessage(s) ==
  LET w == waiter[s] IN
  /\ w.at = "waiting"
  /\ \/ /\ inbox[w.g] # <<>>
        /\ inbox' = [inbox EXCEPT ![w.g] = Tail(@)]
        /\ waiter' = [waiter EXCEPT ![s] = [w EXCEPT !.at = "taken",
                                                     !.m = Head(inbox[w.g])]]
     \/ /\ inbox[w.g] = <<>> /\ loop[w.g].at = "ended"
        /\ waiter' = [waiter EXCEPT ![s] = Free]
        /\ UNCHANGED inbox
  /\ UNCHANGED <<alive, session, net, loop, mail, uiRoom, tick, sent, broker, peer,
                 spent, histories>>

(* Mutant of Decrypt: a message that cannot be decrypted ends the waiter. *)
DecryptOrEnd(s) ==
  /\ waiter[s].at = "taken"
  /\ waiter' = [waiter EXCEPT ![s] = IF roomID = waiter[s].m.room
                                     THEN [Free EXCEPT !.at = "done"] ELSE Free]
  /\ UNCHANGED <<alive, session, net, loop, inbox, mail, uiRoom, tick, sent, broker,
                 peer, spent, histories>>

(* The message is decrypted with the chain of the room that is selected    *)
(* now, whichever room it is from; the chain moves on even if that fails.  *)
(* Whatever comes of it, Update gets a message.                            *)
Decrypt(s) ==
  LET m == waiter[s].m IN
  /\ waiter[s].at = "taken"
  /\ waiter' = [waiter EXCEPT ![s] = [Free EXCEPT !.at = "done"]]
  /\ IF roomID = NoRoom THEN UNCHANGED <<chain, crossed>>
     ELSE /\ chain' = [chain EXCEPT ![roomID].other = GetUserKey(@, m.label)]
          /\ crossed' = IF m.room # roomID /\ SessionChain.other < m.label
                        THEN crossed \cup {roomID} ELSE crossed
  /\ UNCHANGED <<alive, conn, roomID, count, net, loop, inbox, mail, uiRoom, tick,
                 sent, broker, peer, spent, twins, lagged, overtaken, misticked>>

(* Update, roomMessageWsMsg: the next waiter, on the channel of now. *)
UpdateMessage(s) ==
  /\ waiter[s].at = "done"
  /\ waiter' = [waiter EXCEPT ![s] = Waiting(spent.login)]
  /\ UNCHANGED <<alive, session, net, loop, inbox, mail, uiRoom, tick, sent, broker,
                 peer, spent, histories>>

(* A waiter that decrypts, while another one or the sending of a message   *)
(* uses the same unguarded maps, may bring the program down.               *)
MapRace ==
  /\ roomID # NoRoom
  /\ \E s \in Slot :
       /\ waiter[s].at = "taken"
       /\ spent.message < MaxMessage \/ \E t \in Slot \ {s} : waiter[t].at = "taken"
  /\ alive' = FALSE
  /\ UNCHANGED <<session, net, loop, inbox, waiter, mail, uiRoom, tick, sent, broker,
                 peer, spent, histories>>

-----------------------------------------------------------------------------
(* What a key press comes to. *)

(* Login and Connect; a Login that fails changes nothing. *)
CompleteLogin == Connect \/ ConnectFails

(* Enter, at the password prompt.  CompleteRegister touches nothing here. *)
handlePasswordSubmit == CompleteLogin

(* Enter, in command mode.  Of the commands only these touch what is       *)
(* modelled here.                                                          *)
ExecCommand == Say \/ \E r \in Room : roomSelectCmd(r)

(* Enter, in the command line: the password prompt, chat mode (where the   *)
(* line is said) and command mode.                                         *)
handleEnter == handlePasswordSubmit \/ Say \/ ExecCommand

(* Enter, in the list of rooms. *)
EnterInList == \E r \in Room : SelectRoom(r, TRUE) \/ SelectFails(r)

-----------------------------------------------------------------------------
User == handleEnter \/ EnterInList
Update == \/ \E m \in mail : UpdateSelected(m) \/ UpdateConnected(m)
          \/ \E s \in Slot : UpdateMessage(s)
Reading(g) == ReadMessage(g) \/ HandOver(g)
Waiter(s) == TakeMessage(s) \/ Decrypt(s)
Outside == \/ \E r \in Room : Store(r) \/ Hear(r)
           \/ \E g \in Login : LoopEnds(g)

Runs == Update \/ \E g \in Login : Reading(g) \/ Waiter(g)

Next == alive /\ (User \/ Outside \/ MapRace \/ Runs)

Spec == Init /\ [][Next]_vars

(* Whatever of Update and the goroutines can run, something of it does; no *)
(* one of them can go on for ever without the others.  The user, the       *)
(* broker and the network owe nothing.                                     *)
FairSpec == Spec /\ WF_vars(alive /\ Runs)

-----------------------------------------------------------------------------
(* Properties. *)

(* The newest connection keeps its session for as long as its read loop    *)
(* runs, however late the loops of earlier ones end.  (Only a login that   *)
(* fails takes it away.)                                                   *)
SessionSurvives ==
  [][conn # 0 /\ conn' = 0 => loop'[conn].at = "ended" \/ UNCHANGED loop]_vars

(* While connected, the channel of this connection has a waiter, or one is *)
(* about to be started: no message that comes or fails ends the line.      *)
InboxIsServed ==
  conn # 0 =>
    \/ \E s \in Slot : \/ waiter[s].at \in {"taken", "done"}
                       \/ waiter[s].at = "waiting" /\ waiter[s].g = conn
    \/ \E m \in mail : m.kind = "connected"

(* A message of the selected room opens unless the chain was moved by a    *)
(* message of another room, two waiters have run at once, or its sender,   *)
(* whose count had gone back, labelled it lower than an earlier one.       *)
UnreadableHasCause ==
  \A s \in Slot :
    LET m == waiter[s].m IN
    waiter[s].at = "taken" /\ m.room = roomID /\ ~Opens(SessionChain.other, m) =>
      roomID \in crossed \/ twins \/ m.behind

(* An own message is encrypted under the key of its label, and no two of a *)
(* room under one key, unless the room was selected before everything sent *)
(* there was stored.                                                       *)
OwnKeys ==
  \A r \in Room \ lagged :
    /\ \A i \in DOMAIN sent[r] : sent[r][i].key = sent[r][i].label
    /\ \A i, j \in DOMAIN sent[r] : i # j => sent[r][i].key # sent[r][j].key

(* Of such a room, however many of the latest messages are fetched, the    *)
(* history can be read as a whole.                                         *)
HistoryOpens ==
  \A r \in Room \ lagged : \A n \in 0 .. Len(stored[r]) :
    Opened(GetRoomMessages(r, n)) = 1 .. n

(* When Update has heard of all selections, the screen shows the room that *)
(* messages go to, and the list ticks it, unless two selections overtook   *)
(* each other or the last one ticked had failed.                           *)
SelectionsAgree ==
  roomID # NoRoom /\ ~overtaken /\ (\A m \in mail : m.kind # "selected") =>
    uiRoom = roomID /\ (tick = roomID \/ misticked)

(* The read loop of the current connection does not wait for ever. *)
ReadingGoesOn == []<>(alive /\ conn # 0 => loop[conn].at # "holding")
=============================================================================
