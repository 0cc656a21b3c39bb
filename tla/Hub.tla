-------------------------------- MODULE Hub --------------------------------
(***************************************************************************)
(* The broker's WebSocket hub: broker/core/broker.go, the echo RPC of      *)
(* broker/core/rpc.go and the presence fan-out of broker/core/rooms.go.    *)
(*                                                                         *)
(* Every connection is served by two goroutines.  The handler (WsConnect,  *)
(* then readLoop) registers the connection in clientMap, reads one frame   *)
(* after another, runs the RPC in each to its end, and unregisters the     *)
(* connection when a read fails.  The writer (writeLoop) takes messages    *)
(* from the connection's bounded send channel, writes them to the socket   *)
(* and pings; it returns at its first error.  Any goroutine may put a      *)
(* message on a user's channel with sendToClient, in two separate steps: a *)
(* lookup under the registry lock and a non-blocking send on the pointer   *)
(* it found.  handleEcho alone sends with a plain, blocking send.          *)
(***************************************************************************)
EXTENDS Integers, Sequences

CONSTANTS User, Conn, Owner, NoConn,
          CoMember,  \* who shares a joined room with a user (database)
          Single,    \* other goroutines that push to one user: HTTP
                     \* invitations, voice renegotiations
          Rpc,       \* the kinds of RPC the clients use
          SendCap,   \* capacity of a send channel (32 in the code)
          MaxRpc     \* bound: frames read from each connection

AllRpc == {"echo",   \* answered on the same connection, blocking
           "push",   \* an RPC that calls sendToClient (room_message, voice_*)
           "quiet"}  \* an RPC with no answer; a malformed or unsigned frame

ASSUME HubAssumption == /\ Owner \in [Conn -> User]
                        /\ NoConn \notin Conn
                        /\ CoMember \in [User -> SUBSET User]
                        /\ Rpc \subseteq AllRpc
                        /\ SendCap \in Nat \ {0}
                        /\ MaxRpc \in [Conn -> Nat]
                        /\ Conn \cap (Conn \X {"join", "leave"}) = {}
                        /\ Single \cap (Conn \X {"join", "leave"}) = {}
                        /\ Single \cap Conn = {}

(***************************************************************************)
(* Goroutines that call sendToClient: the handler of a connection, the two *)
(* notifyMembersUpdated goroutines WsConnect starts, when the connection   *)
(* is registered and when it is unregistered, the HTTP handlers of         *)
(* invitations, and the renegotiations voice calls start.                  *)
(***************************************************************************)
Notifier == Conn \X {"join", "leave"}
Pusher == Conn \cup Notifier \cup Single

Note == 0                   \* a pushed message; an echo answer is its number
Message == Nat

VARIABLES clientMap,  \* Broker.clientMap: user -> connection
          handler,    \* where WsConnect/readLoop of a connection stands
          writer,     \* where writeLoop of a connection stands
          hand,       \* the message, if any, writeLoop took from the channel
          sock,       \* the connection: open, peer gone, closed here
          sendq,      \* Client.send
          asked,      \* how many of the client's frames have been read
          echoRead,   \* how many echo requests the handler has read
          echoed,     \* the number of the last echo answer written
          push        \* progress of the goroutines that call sendToClient

connVars == <<handler, writer, hand, sock, asked, echoRead, echoed>>
vars == <<clientMap, handler, writer, hand, sock, sendq, asked,
          echoRead, echoed, push>>

Idle == [at |-> "off", left |-> {}, ptr |-> NoConn]

(* A goroutine that is to reach each user of a set. *)
Reach(users) == [at |-> "loop", left |-> users, ptr |-> NoConn]

TypeOK ==
  /\ clientMap \in [User -> Conn \cup {NoConn}]
  /\ handler \in [Conn -> {"idle", "upgraded", "refused", "reading", "echo",
                           "parked", "push", "removing", "done"}]
  /\ writer \in [Conn -> {"none", "select", "write", "exited"}]
  /\ hand \in [Conn -> Seq(Message)]
  /\ sock \in [Conn -> {"none", "open", "gone", "closed"}]
  /\ sendq \in [Conn -> Seq(Message)]
  /\ \A c \in Conn : Len(sendq[c]) <= SendCap
  /\ asked \in [Conn -> Nat]
  /\ echoRead \in [Conn -> Nat]
  /\ echoed \in [Conn -> Nat]
  /\ push \in [Pusher -> [at : {"off", "loop", "send"},
                          left : SUBSET User, ptr : Conn \cup {NoConn}]]

Init ==
  /\ clientMap = [u \in User |-> NoConn]
  /\ handler = [c \in Conn |-> "idle"]
  /\ writer = [c \in Conn |-> "none"]
  /\ hand = [c \in Conn |-> <<>>]
  /\ sock = [c \in Conn |-> "none"]
  /\ sendq = [c \in Conn |-> <<>>]
  /\ asked = [c \in Conn |-> 0]
  /\ echoRead = [c \in Conn |-> 0]
  /\ echoed = [c \in Conn |-> 0]
  /\ push = [p \in Pusher |-> Idle]

-----------------------------------------------------------------------------
(* The client and the network. *)

(* The client closes or crashes, or the network fails for longer than the  *)
(* 90 s read deadline.                                                     *)
ClientGone(c) ==
  /\ sock[c] = "open"
  /\ sock' = [sock EXCEPT ![c] = "gone"]
  /\ UNCHANGED <<clientMap, handler, writer, hand, sendq, asked,
                 echoRead, echoed, push>>

-----------------------------------------------------------------------------
(* WsConnect. *)

(* Mutant of Upgrade: writeLoop is started before addClient has decided.    *)
UpgradeAndWrite(c) ==
  /\ handler[c] = "idle"
  /\ handler' = [handler EXCEPT ![c] = "upgraded"]
  /\ sock' = [sock EXCEPT ![c] = "open"]
  /\ writer' = [writer EXCEPT ![c] = "select"]
  /\ UNCHANGED <<clientMap, hand, sendq, asked, echoRead, echoed, push>>

(* The request passed the checks and was upgraded; the earlier returns of  *)
(* WsConnect touch nothing.                                                *)
Upgrade(c) ==
  /\ handler[c] = "idle"
  /\ handler' = [handler EXCEPT ![c] = "upgraded"]
  /\ sock' = [sock EXCEPT ![c] = "open"]
  /\ UNCHANGED <<clientMap, writer, hand, sendq, asked, echoRead,
                 echoed, push>>

(* notifyMembersUpdated starts; its query may fail, and reach nobody. *)
Announce(c, event) ==
  \E users \in {CoMember[Owner[c]], {}} :
    push' = [push EXCEPT ![<<c, event>>] = Reach(users)]

(* Mutant of AddClient: a second connection replaces the first. *)
AddClientAnyway(c) ==
  /\ handler[c] = "upgraded"
  /\ clientMap' = [clientMap EXCEPT ![Owner[c]] = c]
  /\ handler' = [handler EXCEPT ![c] = "reading"]
  /\ writer' = [writer EXCEPT ![c] = "select"]
  /\ Announce(c, "join")
  /\ UNCHANGED <<hand, sock, sendq, asked, echoRead, echoed>>

(* addClient finds no entry: the connection is registered and its writer,  *)
(* its reader and its join announcement start.                             *)
AddClient(c) ==
  /\ handler[c] = "upgraded"
  /\ clientMap[Owner[c]] = NoConn
  /\ clientMap' = [clientMap EXCEPT ![Owner[c]] = c]
  /\ handler' = [handler EXCEPT ![c] = "reading"]
  /\ writer' = [writer EXCEPT ![c] = "select"]
  /\ Announce(c, "join")
  /\ UNCHANGED <<hand, sock, sendq, asked, echoRead, echoed>>

(* Mutant of RefuseClient: removeClient is deferred before addClient is    *)
(* asked, so a refused connection runs it too.                             *)
RefuseAndRemove(c) ==
  /\ handler[c] = "upgraded"
  /\ clientMap[Owner[c]] # NoConn
  /\ clientMap' = [clientMap EXCEPT ![Owner[c]] = NoConn]
  /\ handler' = [handler EXCEPT ![c] = "refused"]
  /\ sock' = [sock EXCEPT ![c] = "closed"]
  /\ UNCHANGED <<writer, hand, sendq, asked, echoRead, echoed, push>>

(* addClient finds the user registered: the new connection is closed. *)
RefuseClient(c) ==
  /\ handler[c] = "upgraded"
  /\ clientMap[Owner[c]] # NoConn
  /\ handler' = [handler EXCEPT ![c] = "refused"]
  /\ sock' = [sock EXCEPT ![c] = "closed"]
  /\ UNCHANGED <<clientMap, writer, hand, sendq, asked, echoRead,
                 echoed, push>>

(* Mutant of RemoveClient: the handler first waits for its channel to be   *)
(* drained.                                                                *)
RemoveWhenDrained(c) ==
  /\ handler[c] = "removing"
  /\ sendq[c] = <<>>
  /\ clientMap' = [clientMap EXCEPT ![Owner[c]] = NoConn]
  /\ handler' = [handler EXCEPT ![c] = "done"]
  /\ Announce(c, "leave")
  /\ UNCHANGED <<writer, hand, sock, sendq, asked, echoRead, echoed>>

(* removeClient deletes the entry of the user, whatever it holds; then the *)
(* leave announcement starts.                                              *)
RemoveClient(c) ==
  /\ handler[c] = "removing"
  /\ clientMap' = [clientMap EXCEPT ![Owner[c]] = NoConn]
  /\ handler' = [handler EXCEPT ![c] = "done"]
  /\ Announce(c, "leave")
  /\ UNCHANGED <<writer, hand, sock, sendq, asked, echoRead, echoed>>

-----------------------------------------------------------------------------
(* readLoop and the RPCs it runs. *)

(* A frame is read: one the client sent before it went away is read even   *)
(* after that, or after the writer closed the connection.  A room message  *)
(* goes to the members of the room it names, whether or not the sender is  *)
(* one, a voice answer back to the caller; an RPC that fails to nobody.    *)
ReadFrame(c, rpc) ==
  /\ handler[c] = "reading"
  /\ asked[c] < MaxRpc[c]
  /\ asked' = [asked EXCEPT ![c] = @ + 1]
  /\ handler' = [handler EXCEPT
       ![c] = IF rpc = "quiet" THEN "reading" ELSE rpc]
  /\ echoRead' = [echoRead EXCEPT ![c] = IF rpc = "echo" THEN @ + 1 ELSE @]
  /\ IF rpc = "push"
     THEN \E users \in SUBSET User :
            push' = [push EXCEPT ![c] = Reach(users)]
     ELSE UNCHANGED push
  /\ UNCHANGED <<clientMap, writer, hand, sock, sendq, echoed>>

(* client.send <- data, with room in the channel. *)
EchoSend(c) ==
  /\ handler[c] = "echo"
  /\ Len(sendq[c]) < SendCap
  /\ sendq' = [sendq EXCEPT ![c] = Append(@, echoRead[c])]
  /\ handler' = [handler EXCEPT ![c] = "reading"]
  /\ UNCHANGED <<clientMap, writer, hand, sock, asked, echoRead,
                 echoed, push>>

(* Mutant of EchoPark: the answer is dropped, as trySend would do. *)
EchoDrop(c) ==
  /\ handler[c] = "echo"
  /\ Len(sendq[c]) >= SendCap
  /\ handler' = [handler EXCEPT ![c] = "reading"]
  /\ UNCHANGED <<clientMap, writer, hand, sock, sendq, asked, echoRead,
                 echoed, push>>

(* client.send <- data, with the channel full: the handler parks in the     *)
(* channel's queue of senders until a receive makes room.                  *)
EchoPark(c) ==
  /\ handler[c] = "echo"
  /\ Len(sendq[c]) >= SendCap
  /\ handler' = [handler EXCEPT ![c] = "parked"]
  /\ UNCHANGED <<clientMap, writer, hand, sock, sendq, asked, echoRead,
                 echoed, push>>

(* ReadMessage fails: readLoop returns, closing the connection. *)
ReadError(c) ==
  /\ handler[c] = "reading"
  /\ sock[c] # "open"
  /\ handler' = [handler EXCEPT ![c] = "removing"]
  /\ sock' = [sock EXCEPT ![c] = "closed"]
  /\ UNCHANGED <<clientMap, writer, hand, sendq, asked, echoRead,
                 echoed, push>>

-----------------------------------------------------------------------------
(* writeLoop. *)

(* A receive from the channel: a parked sender's message takes the freed   *)
(* place in the same step, before any other goroutine can.                 *)
WriterTake(c) ==
  /\ writer[c] = "select"
  /\ sendq[c] # <<>>
  /\ hand' = [hand EXCEPT ![c] = <<Head(sendq[c])>>]
  /\ writer' = [writer EXCEPT ![c] = "write"]
  /\ IF handler[c] = "parked"
     THEN /\ sendq' = [sendq EXCEPT ![c] = Append(Tail(@), echoRead[c])]
          /\ handler' = [handler EXCEPT ![c] = "reading"]
     ELSE /\ sendq' = [sendq EXCEPT ![c] = Tail(@)]
          /\ UNCHANGED handler
  /\ UNCHANGED <<clientMap, sock, asked, echoRead, echoed, push>>

(* A write to a peer that is gone may still succeed locally. *)
WriteOk(c) ==
  /\ writer[c] = "write"
  /\ sock[c] # "closed"
  /\ echoed' = [echoed EXCEPT ![c] = IF hand[c] = <<Note>> THEN @ ELSE Head(hand[c])]
  /\ hand' = [hand EXCEPT ![c] = <<>>]
  /\ writer' = [writer EXCEPT ![c] = "select"]
  /\ UNCHANGED <<clientMap, handler, sock, sendq, asked, echoRead,
                 push>>

(* WriteMessage fails, or the periodic ping does: the writer closes the    *)
(* connection and returns.  Nobody receives from the channel any more.     *)
WriterExit(c) ==
  /\ writer[c] \in {"select", "write"}
  /\ sock[c] # "open"
  /\ sock' = [sock EXCEPT ![c] = "closed"]
  /\ hand' = [hand EXCEPT ![c] = <<>>]
  /\ writer' = [writer EXCEPT ![c] = "exited"]
  /\ UNCHANGED <<clientMap, handler, sendq, asked, echoRead, echoed,
                 push>>

-----------------------------------------------------------------------------
(* sendToClient, called for each user of a set read from the database.     *)

(* BrokerInviteUser has stored an invitation for u, or renegotiateVoice    *)
(* has made an offer for u.                                                *)
PushOne(q, u) ==
  /\ push[q].at = "off"
  /\ push' = [push EXCEPT ![q] = Reach({u})]
  /\ UNCHANGED <<clientMap, sendq, connVars>>

(* getClientForUserID, under the read lock. *)
Lookup(p, u) ==
  /\ push[p].at = "loop"
  /\ u \in push[p].left
  /\ push' = [push EXCEPT ![p] =
       [at |-> IF clientMap[u] = NoConn THEN "loop" ELSE "send",
        left |-> @.left \ {u},
        ptr |-> clientMap[u]]]
  /\ UNCHANGED <<clientMap, sendq, connVars>>

(* Mutants of TrySend: a plain send, which waits for room; and a test of   *)
(* the capacity that is off by one.                                        *)
BlockingSend(p) ==
  /\ push[p].at = "send"
  /\ Len(sendq[push[p].ptr]) < SendCap
  /\ sendq' = [sendq EXCEPT ![push[p].ptr] = Append(@, Note)]
  /\ push' = [push EXCEPT ![p] = Reach(@.left)]
  /\ UNCHANGED <<clientMap, connVars>>

TrySendOneMore(p) ==
  /\ push[p].at = "send"
  /\ LET c == push[p].ptr IN
       sendq' = IF Len(sendq[c]) <= SendCap
                THEN [sendq EXCEPT ![c] = Append(@, Note)] ELSE sendq
  /\ push' = [push EXCEPT ![p] = Reach(@.left)]
  /\ UNCHANGED <<clientMap, connVars>>

(* trySend on the pointer, with no lock: dropped if the channel is full. *)
TrySend(p) ==
  /\ push[p].at = "send"
  /\ LET c == push[p].ptr IN
       sendq' = IF Len(sendq[c]) < SendCap
                THEN [sendq EXCEPT ![c] = Append(@, Note)] ELSE sendq
  /\ push' = [push EXCEPT ![p] = Reach(@.left)]
  /\ UNCHANGED <<clientMap, connVars>>

(* Everyone has been reached: the goroutine ends, the handler reads on. *)
PushEnd(p) ==
  /\ push[p].at = "loop"
  /\ push[p].left = {}
  /\ push' = [push EXCEPT ![p] = Idle]
  /\ handler' = IF p \in Conn THEN [handler EXCEPT ![p] = "reading"]
                ELSE handler
  /\ UNCHANGED <<clientMap, writer, hand, sock, sendq, asked,
                 echoRead, echoed>>

-----------------------------------------------------------------------------
Handler(c) == \/ AddClient(c) \/ RefuseClient(c) \/ RemoveClient(c)
              \/ EchoSend(c) \/ EchoPark(c) \/ ReadError(c)
              \/ \E rpc \in Rpc : ReadFrame(c, rpc)
Writer(c) == WriterTake(c) \/ WriteOk(c) \/ WriterExit(c)
Push(p) == \/ TrySend(p) \/ PushEnd(p)
           \/ \E u \in User : Lookup(p, u)

Next ==
  \/ \E c \in Conn : Upgrade(c) \/ ClientGone(c) \/ Handler(c) \/ Writer(c)
  \/ \E p \in Pusher : Push(p)
  \/ \E q \in Single, u \in User : PushOne(q, u)

Spec == Init /\ [][Next]_vars

(***************************************************************************)
(* The Go scheduler runs every goroutine that can run.  A write error or a *)
(* failed ping is certain once the connection is not open, because the     *)
(* 30 s ping ticker keeps firing; a writer that keeps succeeding on a dead *)
(* connection runs out of messages.  Clients owe nothing.                  *)
(***************************************************************************)
Fairness == /\ \A c \in Conn : WF_vars(Handler(c)) /\ WF_vars(Writer(c))
            /\ \A p \in Pusher : WF_vars(Push(p))

FairSpec == Spec /\ Fairness

-----------------------------------------------------------------------------
(* Properties. *)

Registered(c) ==
  handler[c] \in {"reading", "echo", "parked", "push", "removing"}

(* The registry is exact: a user's entry is a connection precisely while   *)
(* that connection's handler is between addClient and removeClient.        *)
(* removeClient deletes by user and not by connection, so this holds only  *)
(* because addClient turns a second connection away.                       *)
RegistryExact ==
  \A u \in User, c \in Conn :
    clientMap[u] = c <=> (Owner[c] = u /\ Registered(c))

(* A connection that was turned away leaves no trace: no writer runs for   *)
(* it and no message is ever put on its channel, whatever pointers the     *)
(* pushing goroutines hold.                                                *)
RefusedIsSilent ==
  \A c \in Conn : handler[c] \in {"idle", "upgraded", "refused"} =>
    /\ writer[c] = "none"
    /\ sendq[c] = <<>>
    /\ \A p \in Pusher : push[p].ptr # c

(* What the writer is yet to write, and the last echo answer given to it:  *)
(* the handler may be blocked on one more.                                 *)
Waiting(c) == hand[c] \o sendq[c]
Given(c) == IF handler[c] \in {"echo", "parked"} THEN echoRead[c] - 1 ELSE echoRead[c]

(* The echo answers in w are those after the first lo, up to the hi-th,    *)
(* each once and in order.                                                 *)
EchoesBetween(w, lo, hi) ==
  /\ lo <= hi
  /\ {w[i] : i \in DOMAIN w} \ {Note} = lo + 1 .. hi
  /\ \A i, j \in DOMAIN w : i < j /\ w[j] # Note => w[i] < w[j]

(* While its writer lives, a connection loses no echo answer and sends     *)
(* them in the order of the requests, although pushes from other           *)
(* goroutines compete for the channel and are dropped when it is full.     *)
EchoLossless ==
  \A c \in Conn : writer[c] \in {"select", "write"} =>
    EchoesBetween(Waiting(c), echoed[c], Given(c))

(* The implemented interface.  A connection is spent once addClient took it. *)
Spent == {c \in Conn : Registered(c) \/ handler[c] = "done"}
P == INSTANCE Presence WITH session <- clientMap, spent <- Spent

(* The hub implements Presence: sessions are opened only when there is     *)
(* none, end only by themselves, and a connection has at most one.         *)
ImplementsPresence == P!PresenceSpec

(* A registered connection whose peer is gone is unregistered in the end.  *)
(* It is what the online flag of BrokerListRoomMembers stands on.          *)
GoneIsRemoved ==
  \A c \in Conn : (Registered(c) /\ sock[c] = "gone") ~> clientMap[Owner[c]] # c

(* The one state a connection never leaves: its handler waits for room in  *)
(* a full channel nobody receives from.                                    *)
EchoStuck(c) == /\ handler[c] = "parked"
                /\ writer[c] = "exited"
                /\ Len(sendq[c]) = SendCap

(* What does hold: a registered connection whose peer is gone is           *)
(* unregistered in the end, unless its handler is caught in an echo.       *)
GoneIsRemovedOrStuck ==
  \A c \in Conn : (Registered(c) /\ sock[c] = "gone")
                    ~> (clientMap[Owner[c]] # c \/ EchoStuck(c))

(* A goroutine that pushes to other users always gets to the end of its    *)
(* list: nobody else's dead or full connection can hold it up.             *)
PushEnds == \A p \in Pusher : push[p].at # "off" ~> push[p].at = "off"
=============================================================================
