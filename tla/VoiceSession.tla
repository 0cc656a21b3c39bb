---------------------------- MODULE VoiceSession ----------------------------
(***************************************************************************)
(* One client's voice calls, end to end: Join, Leave, handleIncoming and   *)
(* iceRestart of shellapp/voice/voice.go, the client's readLoop, the       *)
(* WebSocket in both directions, and what the broker does with that        *)
(* client's peer connections (voiceJoin up to the answer, renegotiateVoice,*)
(* voiceRenegAnswer, voiceICERestart, voiceLeave).  VoiceRooms models who  *)
(* is in a room and whom they hear; here the other users only show as      *)
(* changes of the track set the broker has for this client.                *)
(*                                                                         *)
(* The user interface runs Join and Leave to the end before the next       *)
(* command.  The broker's handler runs one RPC of the connection at a      *)
(* time, but a renegotiation and, on the client, every message for the     *)
(* voice session run in goroutines of their own, so offers and answers     *)
(* overtake each other.  A session description is the number of the Join   *)
(* it belongs to and the version of the track set it carries; g tells the  *)
(* renegotiations and what comes of them apart.                            *)
(***************************************************************************)
EXTENDS Naturals, Sequences

CONSTANTS Room,
          NoRoom,       \* a join that has not begun has no room
          MaxJoin,      \* bound: voice-join commands
          MaxEvent      \* bound: times another user joins or leaves the call,
                        \* joins that find it crowded, and things that fail

ASSUME SessionAssumption == /\ NoRoom \notin Room
                            /\ MaxJoin \in Nat /\ MaxEvent \in Nat

VARIABLES ui,            \* where the user interface is in Join or Leave
          roomID,        \* voiceSession.roomID
          activeSession, \* 0 for nil
          handler,       \* whether voiceMessageHandler is set
          answerCh,      \* the join whose answer is in voiceSession.answerCh, or 0
          iceRestartCh,  \* whether voiceSession.iceRestartCh holds an answer
          client,        \* the client's peer connection of each Join
          incoming,      \* running calls of handleIncoming
          answering,     \* goroutines that answer an offer
          restart,       \* iceRestart of each session
          link,          \* whether the WebSocket is up
          up, down,      \* its two directions
          serving,       \* the RPC the broker's handler is in
          participant,   \* VoiceRoom.Participants of this user, per room
          broker,        \* the broker's peer connection of each Join
          renegs,        \* running calls of renegotiateVoice
          spent,         \* how much of each bound is used up,
          renegCount,    \* the last call of renegotiateVoice
          short,         \* joins owed tracks that their answer could not carry
          applied,       \* history: the join whose answer each session took
          refused,       \* history: joins of which a description was refused
          missed,        \* history: joins of which an offer, or the answer to
                         \* one, was lost
          unjoined,      \* history: joins the broker never entered
          unleft,        \* history: joins whose leave the broker never served
          gaveUp         \* history: joins that ended in the timeout

clientVars == <<ui, roomID, activeSession, handler, answerCh, iceRestartCh,
                client, incoming, answering, restart, applied, gaveUp>>
brokerVars == <<serving, participant, broker, renegs, renegCount, short>>
wire == <<link, up, down>>
lostVars == <<missed, unjoined, unleft>>
vars == <<clientVars, brokerVars, wire, spent, refused, lostVars>>

Join == 1 .. MaxJoin
Idle == [at |-> "idle", j |-> 0]

(* The signalling states of a peer connection in which it takes each kind  *)
(* of description, and the one it is in after.                             *)
Takes == [localOffer   |-> {"stable", "have-local-offer"},
          remoteOffer  |-> {"stable", "have-remote-offer"},
          localAnswer  |-> {"have-remote-offer"},
          remoteAnswer |-> {"have-local-offer"}]
Becomes == [localOffer |-> "have-local-offer", remoteOffer |-> "have-remote-offer",
            localAnswer |-> "stable", remoteAnswer |-> "stable"]

Signalling == {"none", "stable", "have-local-offer", "have-remote-offer", "closed"}

Msg(kind, r, j, v, g) == [kind |-> kind, room |-> r, j |-> j, v |-> v, g |-> g]
Message == [kind : {"join", "leave", "renegAnswer", "restart", "answer", "offer",
                    "restartAnswer"},
            room : Room, j : Join, v : Nat, g : Nat]

TypeOK ==
  /\ ui \in [at : {"idle", "offered", "sent", "active", "waiting", "leaving"},
             j : 0 .. MaxJoin]
  /\ (ui.at = "idle") <=> (ui.j = 0)
  /\ roomID \in [Join -> Room \cup {NoRoom}]
  /\ activeSession \in 0 .. MaxJoin
  /\ handler \in BOOLEAN /\ link \in BOOLEAN
  /\ answerCh \in [Join -> 0 .. MaxJoin] /\ applied \in [Join -> 0 .. MaxJoin]
  /\ iceRestartCh \in [Join -> BOOLEAN]
  /\ client \in [Join -> [sig : Signalling, ver : Nat]]
  /\ incoming \subseteq Message
  /\ answering \subseteq [m : Message, j : Join, at : {"set", "answer", "send"}]
  /\ restart \in [Join -> {"none", "begun", "offered", "waiting"}]
  /\ up \in Seq(Message) /\ down \in Seq(Message)
  /\ serving \in [at : {"idle", "join", "answer", "restartAnswer"}, j : 0 .. MaxJoin]
  /\ participant \in [Room -> 0 .. MaxJoin]
  /\ broker \in [Join -> [sig : Signalling, ver : Nat, tracks : Nat]]
  /\ renegs \subseteq [j : Join, g : Nat, at : {"create", "gather"}]
  /\ spent \in [join : 0 .. MaxJoin, event : 0 .. MaxEvent]
  /\ renegCount \in Nat /\ short \subseteq Join /\ refused \subseteq Join /\ gaveUp \subseteq Join
  /\ missed \subseteq Join /\ unjoined \subseteq Join /\ unleft \subseteq Join

Init ==
  /\ ui = Idle
  /\ roomID = [j \in Join |-> NoRoom]
  /\ activeSession = 0
  /\ handler = FALSE
  /\ answerCh = [j \in Join |-> 0] /\ applied = [j \in Join |-> 0]
  /\ iceRestartCh = [j \in Join |-> FALSE]
  /\ client = [j \in Join |-> [sig |-> "none", ver |-> 0]]
  /\ incoming = {} /\ answering = {} /\ renegs = {}
  /\ restart = [j \in Join |-> "none"]
  /\ link = TRUE /\ up = <<>> /\ down = <<>>
  /\ serving = Idle
  /\ participant = [r \in Room |-> 0]
  /\ broker = [j \in Join |-> [sig |-> "none", ver |-> 0, tracks |-> 0]]
  /\ spent = [join |-> 0, event |-> 0]
  /\ renegCount = 0 /\ short = {} /\ refused = {} /\ gaveUp = {}
  /\ missed = {} /\ unjoined = {} /\ unleft = {}

(* What others do, and what fails that need not (the connection of a call, *)
(* pion, a look-up in the database, a full channel of 32, the WebSocket)   *)
(* uses up the bound.                                                      *)
Event == /\ spent.event < MaxEvent
         /\ spent' = [spent EXCEPT !.event = @ + 1]

(* What a lost message leaves undone. *)
JoinsOf(ms, kinds) == {m.j : m \in {m \in ms : m.kind \in kinds}}
Lose(ms) == /\ missed' = missed \cup JoinsOf(ms, {"offer", "renegAnswer"})
            /\ unjoined' = unjoined \cup JoinsOf(ms, {"join"})
            /\ unleft' = unleft \cup JoinsOf(ms, {"leave"})

(* connection.Send. *)
Send(m) == /\ IF link THEN up' = Append(up, m) /\ UNCHANGED lostVars
                      ELSE up' = up /\ Lose({m})
           /\ UNCHANGED <<link, down>>

(* Broker.sendToClient: lost without a trace if the connection is gone, or *)
(* if its channel is full.                                                 *)
Push(m) ==
  /\ \/ link /\ down' = Append(down, m) /\ UNCHANGED <<spent, lostVars>>
     \/ ~link /\ UNCHANGED <<down, spent>> /\ Lose({m})
     \/ link /\ Event /\ UNCHANGED down /\ Lose({m})
  /\ UNCHANGED <<link, up>>

-----------------------------------------------------------------------------
(* Join. *)

(* Up to the offer as local description: no session may be active, and the *)
(* selected room's key is at hand.                                         *)
BeginJoin(r) ==
  LET j == spent.join + 1 IN
  /\ ui = Idle
  /\ j \in Join
  /\ activeSession = 0
  /\ link
  /\ spent' = [spent EXCEPT !.join = j]
  /\ ui' = [at |-> "offered", j |-> j]
  /\ roomID' = [roomID EXCEPT ![j] = r]
  /\ client' = [client EXCEPT ![j].sig = "have-local-offer"]
  /\ UNCHANGED <<activeSession, handler, answerCh, iceRestartCh, incoming,
                 answering, restart, applied, gaveUp, brokerVars, wire, refused,
                 lostVars>>

(* Mutant of SendJoin: the error path forgets the peer connection. *)
SendJoinLeaks ==
  /\ ui.at = "offered"
  /\ ui' = IF link THEN [ui EXCEPT !.at = "sent"] ELSE Idle
  /\ Send(Msg("join", roomID[ui.j], ui.j, 0, 0))
  /\ UNCHANGED <<client, roomID, activeSession, handler, answerCh, iceRestartCh,
                 incoming, answering, restart, applied, gaveUp, brokerVars,
                 spent, refused>>

(* The offer is sent; if the connection is gone, the peer connection is    *)
(* closed and Join fails.                                                  *)
SendJoin ==
  /\ ui.at = "offered"
  /\ ui' = IF link THEN [ui EXCEPT !.at = "sent"] ELSE Idle
  /\ client' = IF link THEN client ELSE [client EXCEPT ![ui.j].sig = "closed"]
  /\ Send(Msg("join", roomID[ui.j], ui.j, 0, 0))
  /\ UNCHANGED <<roomID, activeSession, handler, answerCh, iceRestartCh,
                 incoming, answering, restart, applied, gaveUp, brokerVars,
                 spent, refused>>

(* The session becomes the active one... *)
Activate ==
  /\ ui.at = "sent"
  /\ activeSession' = ui.j
  /\ ui' = [ui EXCEPT !.at = "active"]
  /\ UNCHANGED <<roomID, handler, answerCh, iceRestartCh, client, incoming,
                 answering, restart, applied, gaveUp, brokerVars, wire, spent,
                 refused, lostVars>>

(* ... and only then is handleIncoming registered.  It stays for good. *)
Register ==
  /\ ui.at = "active"
  /\ handler' = TRUE
  /\ ui' = [ui EXCEPT !.at = "waiting"]
  /\ UNCHANGED <<roomID, activeSession, answerCh, iceRestartCh, client, incoming,
                 answering, restart, applied, gaveUp, brokerVars, wire, spent,
                 refused, lostVars>>

(* The first part of Leave, under its lock. *)
BeginLeave(j) == /\ activeSession' = 0
                 /\ ui' = [at |-> "leaving", j |-> j]

(* Mutant of TakeAnswer: Join returns without letting the call go. *)
TakeAnswerUnreset ==
  /\ ui.at = "waiting"
  /\ answerCh[ui.j] # 0
  /\ answerCh' = [answerCh EXCEPT ![ui.j] = 0]
  /\ client' = [client EXCEPT ![ui.j].sig = Becomes.remoteAnswer]
  /\ applied' = [applied EXCEPT ![ui.j] = answerCh[ui.j]]
  /\ ui' = [ui EXCEPT !.at = "idle"]
  /\ UNCHANGED <<roomID, activeSession, handler, iceRestartCh, incoming, answering,
                 restart, gaveUp, brokerVars, wire, spent, refused, lostVars>>

(* The answer becomes the remote description.  An answer to another offer  *)
(* may be refused, and then the call is left.                              *)
TakeAnswer ==
  LET j == ui.j IN
  /\ ui.at = "waiting"
  /\ answerCh[j] # 0
  /\ answerCh' = [answerCh EXCEPT ![j] = 0]
  /\ \/ /\ client[j].sig \in Takes.remoteAnswer
        /\ client' = [client EXCEPT ![j].sig = Becomes.remoteAnswer]
        /\ applied' = [applied EXCEPT ![j] = answerCh[j]]
        /\ ui' = Idle
        /\ UNCHANGED activeSession
     \/ /\ client[j].sig \notin Takes.remoteAnswer \/ answerCh[j] # j
        /\ BeginLeave(j)
        /\ UNCHANGED <<client, applied>>
  /\ UNCHANGED <<roomID, handler, iceRestartCh, incoming, answering, restart,
                 gaveUp, brokerVars, wire, spent, refused, lostVars>>

(* Mutant of Timeout: the call is ended here and the broker not told. *)
TimeoutOnly ==
  /\ ui.at = "waiting"
  /\ activeSession' = 0 /\ ui' = Idle
  /\ client' = [client EXCEPT ![ui.j].sig = "closed"]
  /\ gaveUp' = gaveUp \cup {ui.j}
  /\ UNCHANGED <<roomID, handler, answerCh, iceRestartCh, incoming, answering,
                 restart, applied, brokerVars, wire, spent, refused, lostVars>>

(* Ten seconds without an answer: the call is left. *)
Timeout ==
  /\ ui.at = "waiting"
  /\ BeginLeave(ui.j)
  /\ gaveUp' = gaveUp \cup {ui.j}
  /\ UNCHANGED <<roomID, handler, answerCh, iceRestartCh, client, incoming,
                 answering, restart, applied, brokerVars, wire, spent, refused,
                 lostVars>>

-----------------------------------------------------------------------------
(* Leave. *)

(* The voice-leave command, with room r selected: a call in another room   *)
(* is not left.                                                            *)
Leave(r) ==
  /\ ui = Idle
  /\ activeSession # 0
  /\ roomID[activeSession] = r
  /\ BeginLeave(activeSession)
  /\ UNCHANGED <<roomID, handler, answerCh, iceRestartCh, client, incoming,
                 answering, restart, applied, gaveUp, brokerVars, wire, spent,
                 refused, lostVars>>

(* Mutant of EndLeave: the broker is not told. *)
EndLeaveQuietly ==
  /\ ui.at = "leaving"
  /\ ui' = Idle
  /\ client' = [client EXCEPT ![ui.j].sig = "closed"]
  /\ UNCHANGED <<roomID, activeSession, handler, answerCh, iceRestartCh,
                 incoming, answering, restart, applied, gaveUp, brokerVars,
                 wire, spent, refused, lostVars>>

(* The peer connection is closed and, if there is a connection, the broker *)
(* is told.                                                                *)
EndLeave ==
  /\ ui.at = "leaving"
  /\ ui' = Idle
  /\ client' = [client EXCEPT ![ui.j].sig = "closed"]
  /\ Send(Msg("leave", roomID[ui.j], ui.j, 0, 0))
  /\ UNCHANGED <<roomID, activeSession, handler, answerCh, iceRestartCh,
                 incoming, answering, restart, applied, gaveUp, brokerVars,
                 spent, refused>>

-----------------------------------------------------------------------------
(* The client's readLoop and handleIncoming. *)

(* What readLoop hands to the voice session. *)
Forwarded == {"answer", "offer"}

ReadLoop ==
  LET m == Head(down) IN
  /\ down # <<>>
  /\ down' = Tail(down)
  /\ incoming' = IF m.kind \in Forwarded /\ handler THEN incoming \cup {m}
                 ELSE incoming
  /\ IF handler THEN UNCHANGED lostVars ELSE Lose({m})
  /\ UNCHANGED <<ui, roomID, activeSession, handler, answerCh, iceRestartCh,
                 client, answering, restart, applied, gaveUp, brokerVars, link,
                 up, spent, refused>>

(* An answer, of whichever join, goes to the active session, unless its    *)
(* channel of one is full.                                                 *)
HandleAnswer(m) ==
  LET s == activeSession IN
  /\ m.kind = "answer"
  /\ incoming' = incoming \ {m}
  /\ answerCh' = IF s # 0 /\ answerCh[s] = 0 THEN [answerCh EXCEPT ![s] = m.j]
                 ELSE answerCh
  /\ UNCHANGED <<ui, roomID, activeSession, handler, iceRestartCh, client,
                 answering, restart, applied, gaveUp, brokerVars, wire, spent,
                 refused, lostVars>>

HandleRestartAnswer(m) ==
  LET s == activeSession IN
  /\ m.kind = "restartAnswer"
  /\ incoming' = incoming \ {m}
  /\ iceRestartCh' = IF s # 0 THEN [iceRestartCh EXCEPT ![s] = TRUE]
                     ELSE iceRestartCh
  /\ UNCHANGED <<ui, roomID, activeSession, handler, answerCh, client, answering,
                 restart, applied, gaveUp, brokerVars, wire, spent, refused,
                 lostVars>>

(* An offer for the room of the active session is answered in a goroutine  *)
(* of its own; any other is dropped.                                       *)
HandleOffer(m) ==
  LET s == activeSession IN
  /\ m.kind = "offer"
  /\ incoming' = incoming \ {m}
  /\ IF s # 0 /\ roomID[s] = m.room
     THEN /\ answering' = answering \cup {[m |-> m, j |-> s, at |-> "set"]}
          /\ UNCHANGED lostVars
     ELSE /\ Lose({m})
          /\ UNCHANGED answering
  /\ UNCHANGED <<ui, roomID, activeSession, handler, answerCh, iceRestartCh,
                 client, restart, applied, gaveUp, brokerVars, wire, spent,
                 refused>>

Goes(a, at) == answering' = (answering \ {a}) \cup {[a EXCEPT !.at = at]}

(* The offer becomes the remote description, or is refused and logged. *)
SetOffer(a) ==
  /\ a.at = "set"
  /\ IF client[a.j].sig \in Takes.remoteOffer
     THEN /\ client' = [client EXCEPT ![a.j] = [sig |-> Becomes.remoteOffer,
                                                ver |-> a.m.v]]
          /\ Goes(a, "answer")
          /\ UNCHANGED refused
     ELSE /\ refused' = refused \cup {a.j}
          /\ answering' = answering \ {a}
          /\ UNCHANGED client
  /\ UNCHANGED <<ui, roomID, activeSession, handler, answerCh, iceRestartCh,
                 incoming, restart, applied, gaveUp, brokerVars, wire, spent,
                 lostVars>>

(* The answer becomes the local description, or is refused and logged. *)
SetAnswer(a) ==
  /\ a.at = "answer"
  /\ IF client[a.j].sig \in Takes.localAnswer
     THEN /\ client' = [client EXCEPT ![a.j].sig = Becomes.localAnswer]
          /\ Goes(a, "send")
          /\ UNCHANGED refused
     ELSE /\ refused' = refused \cup {a.j}
          /\ answering' = answering \ {a}
          /\ UNCHANGED client
  /\ UNCHANGED <<ui, roomID, activeSession, handler, answerCh, iceRestartCh,
                 incoming, restart, applied, gaveUp, brokerVars, wire, spent,
                 lostVars>>

SendAnswer(a) ==
  /\ a.at = "send"
  /\ answering' = answering \ {a}
  /\ Send(Msg("renegAnswer", a.m.room, a.j, 0, a.m.g))
  /\ UNCHANGED <<ui, roomID, activeSession, handler, answerCh, iceRestartCh,
                 client, incoming, restart, applied, gaveUp, brokerVars, spent,
                 refused>>

-----------------------------------------------------------------------------
(* iceRestart. *)

(* The peer connection of a session reports Failed.  A restart that is     *)
(* under way is not begun again.                                           *)
ConnectionFails(j) ==
  /\ applied[j] # 0 /\ client[j].sig # "closed"
  /\ restart[j] = "none"
  /\ Event
  /\ restart' = [restart EXCEPT ![j] = "begun"]
  /\ UNCHANGED <<ui, roomID, activeSession, handler, answerCh, iceRestartCh,
                 client, incoming, answering, applied, gaveUp, brokerVars, wire,
                 refused, lostVars>>

(* Only the active session restarts. *)
RestartOffer(j) ==
  /\ restart[j] = "begun"
  /\ IF activeSession = j /\ client[j].sig \in Takes.localOffer
     THEN /\ client' = [client EXCEPT ![j].sig = Becomes.localOffer]
          /\ restart' = [restart EXCEPT ![j] = "offered"]
          /\ UNCHANGED refused
     ELSE /\ refused' = IF activeSession = j THEN refused \cup {j} ELSE refused
          /\ restart' = [restart EXCEPT ![j] = "none"]
          /\ UNCHANGED client
  /\ UNCHANGED <<ui, roomID, activeSession, handler, answerCh, iceRestartCh,
                 incoming, answering, applied, gaveUp, brokerVars, wire, spent,
                 lostVars>>

RestartSend(j) ==
  /\ restart[j] = "offered"
  /\ restart' = [restart EXCEPT ![j] = IF link THEN "waiting" ELSE "none"]
  /\ Send(Msg("restart", roomID[j], j, 0, 0))
  /\ UNCHANGED <<ui, roomID, activeSession, handler, answerCh, iceRestartCh,
                 client, incoming, answering, applied, gaveUp, brokerVars, spent,
                 refused>>

(* The answer, which completes the restart, or the timeout, which leaves   *)
(* the peer connection with its offer.                                     *)
RestartEnd(j) ==
  /\ restart[j] = "waiting"
  /\ restart' = [restart EXCEPT ![j] = "none"]
  /\ IF iceRestartCh[j] /\ client[j].sig \in Takes.remoteAnswer
     THEN client' = [client EXCEPT ![j].sig = Becomes.remoteAnswer]
     ELSE UNCHANGED client
  /\ iceRestartCh' = [iceRestartCh EXCEPT ![j] = FALSE]
  /\ UNCHANGED <<ui, roomID, activeSession, handler, answerCh, incoming,
                 answering, applied, gaveUp, brokerVars, wire, spent, refused,
                 lostVars>>

-----------------------------------------------------------------------------
(* The broker's handler of this connection: one RPC at a time. *)

Serve(kind) == /\ serving = Idle
               /\ up # <<>>
               /\ Head(up).kind = kind
               /\ up' = Tail(up)

(* A frame whose signature cannot be checked, because the look-up of the   *)
(* key failed, is logged and dropped.                                      *)
DropFrame ==
  /\ Serve(Head(up).kind)
  /\ Event
  /\ Lose({Head(up)})
  /\ UNCHANGED <<clientVars, brokerVars, link, down, refused>>

(* A goroutine sets out to renegotiate with p, whose track set changes. *)
Renegotiate(p) ==
  /\ renegCount' = renegCount + 1
  /\ renegs' = renegs \cup {[j |-> p, g |-> renegCount + 1, at |-> "create"]}

(* voiceJoin wires the new connection with every participant that is       *)
(* inside.  One of them may be the user's own from an earlier call, whose  *)
(* leave was lost: it is given a track and renegotiated like the others.   *)
Wired(p) == IF p = 0 THEN broker ELSE [broker EXCEPT ![p].tracks = @ + 1]
WireOwn(p) == IF p = 0 THEN UNCHANGED <<renegs, renegCount>> ELSE Renegotiate(p)

(* voiceJoin up to the unlocking of the room: the participant is entered.  *)
(* The client has offered one section of sound, so its answer carries the  *)
(* tracks of none or one that is inside; with more, some are left for the  *)
(* next renegotiation, and the newcomer sets out for none.                 *)
EnterRoom ==
  LET m == Head(up)
      p == participant[m.room] IN
  /\ Serve("join")
  /\ participant' = [participant EXCEPT ![m.room] = m.j]
  /\ \E n \in {0, 1} :
       /\ IF n = 1 THEN Event ELSE UNCHANGED spent
       /\ broker' = [Wired(p) EXCEPT ![m.j].sig = "stable", ![m.j].tracks = @ + n]
       /\ short' = IF n = 0 THEN short \ {p} ELSE (short \ {p}) \cup {m.j}
  /\ WireOwn(p)
  /\ serving' = [at |-> "join", j |-> m.j]
  /\ UNCHANGED <<clientVars, link, down, refused, lostVars>>

(* No peer connection can be made, or no track: voiceJoin returns with an  *)
(* error and nothing is answered, but whom it has wired stays wired.       *)
JoinFails ==
  LET m == Head(up) IN
  /\ Serve("join")
  /\ Event
  /\ unjoined' = unjoined \cup {m.j}
  /\ \E p \in {0, participant[m.room]} :
       /\ broker' = Wired(p)
       /\ short' = short \ {p}
       /\ WireOwn(p)
  /\ UNCHANGED <<clientVars, serving, participant, link, down, refused, missed, unleft>>

(* The client's offer becomes the remote description and is to be answered *)
(* by what; or it is refused, logged and never answered, as it always is   *)
(* if a renegotiation has made an offer in the meantime.                   *)
TakeOffer(j, what) ==
  \/ /\ broker[j].sig \in Takes.remoteOffer
     /\ broker' = [broker EXCEPT ![j].sig = Becomes.remoteOffer]
     /\ serving' = [at |-> what, j |-> j]
     /\ UNCHANGED <<spent, refused>>
  \/ /\ IF broker[j].sig \in Takes.remoteOffer THEN Event ELSE UNCHANGED spent
     /\ serving' = Idle
     /\ refused' = refused \cup {j}
     /\ UNCHANGED broker

TakeJoinOffer ==
  /\ serving.at = "join"
  /\ TakeOffer(serving.j, "answer")
  /\ UNCHANGED <<clientVars, participant, renegs, renegCount, short, wire, lostVars>>

(* getVoiceParticipant: whichever of the user's connections is inside. *)
getVoiceParticipant(r) == participant[r]

(* voiceICERestart. *)
TakeRestartOffer ==
  LET p == getVoiceParticipant(Head(up).room) IN
  /\ Serve("restart")
  /\ IF p = 0 THEN UNCHANGED <<broker, serving, spent, refused>>
     ELSE TakeOffer(p, "restartAnswer")
  /\ UNCHANGED <<clientVars, participant, renegs, renegCount, short, link, down, lostVars>>

(* Mutant of PushAnswer: a restart is answered like a join. *)
PushAnswerToAll ==
  LET j == serving.j IN
  /\ serving.at \in {"answer", "restartAnswer"}
  /\ serving' = Idle
  /\ broker' = [broker EXCEPT ![j].sig = Becomes.localAnswer]
  /\ Push(Msg("answer", roomID[j], j, 0, 0))
  /\ UNCHANGED <<clientVars, participant, renegs, renegCount, short, refused>>

(* The answer becomes the local description and is sent. *)
PushAnswer ==
  LET j == serving.j IN
  /\ serving.at \in {"answer", "restartAnswer"}
  /\ serving' = Idle
  /\ broker' = [broker EXCEPT ![j].sig = Becomes.localAnswer]
  /\ Push(Msg(serving.at, roomID[j], j, 0, 0))
  /\ UNCHANGED <<clientVars, participant, renegs, renegCount, short, refused>>

(* The answer cannot be made or set: the offer stays open at the broker    *)
(* and nothing is sent.                                                    *)
AnswerFails ==
  /\ serving.at \in {"answer", "restartAnswer"}
  /\ Event
  /\ serving' = Idle
  /\ refused' = refused \cup {serving.j}
  /\ UNCHANGED <<clientVars, participant, broker, renegs, renegCount, short, wire, lostVars>>

(* voiceLeave. *)
LeaveRoom ==
  LET m == Head(up)
      p == participant[m.room] IN
  /\ Serve("leave")
  /\ participant' = [participant EXCEPT ![m.room] = 0]
  /\ broker' = IF p = 0 THEN broker ELSE [broker EXCEPT ![p].sig = "closed"]
  /\ UNCHANGED <<clientVars, serving, renegs, renegCount, short, link, down, spent, refused,
                 lostVars>>

(* voiceRenegAnswer: the answer goes to whichever participant is inside.   *)
ApplyAnswer ==
  LET p == getVoiceParticipant(Head(up).room) IN
  /\ Serve("renegAnswer")
  /\ IF p # 0 /\ broker[p].sig \in Takes.remoteAnswer
     THEN /\ broker' = [broker EXCEPT ![p].sig = Becomes.remoteAnswer]
          /\ UNCHANGED refused
     ELSE /\ refused' = refused \cup ({p} \ {0})
          /\ UNCHANGED broker
  /\ UNCHANGED <<clientVars, serving, participant, renegs, renegCount, short, link, down,
                 spent, lostVars>>

-----------------------------------------------------------------------------
(* Renegotiation. *)

(* Another user joins or leaves the call of r: the track set changes and a *)
(* goroutine sets out to renegotiate.                                      *)
TracksChange(r) ==
  LET p == participant[r] IN
  /\ p # 0
  /\ Event
  /\ broker' = [broker EXCEPT ![p].tracks = @ + 1]
  /\ short' = short \ {p}
  /\ Renegotiate(p)
  /\ UNCHANGED <<clientVars, serving, participant, wire, refused, lostVars>>

(* Mutant of CreateOffer: while an offer is open, a change waits for       *)
(* another one.                                                            *)
CreateOfferIfStable(n) ==
  LET b == broker[n.j] IN
  /\ n.at = "create"
  /\ IF b.sig = "stable"
     THEN /\ broker' = [broker EXCEPT ![n.j].sig = Becomes.localOffer,
                                      ![n.j].ver = b.tracks]
          /\ renegs' = (renegs \ {n}) \cup {[n EXCEPT !.at = "gather"]}
     ELSE /\ renegs' = renegs \ {n}
          /\ UNCHANGED broker
  /\ UNCHANGED <<clientVars, serving, participant, renegCount, short, wire, spent, refused,
                 lostVars>>

(* An offer of the present track set becomes the local description; or it  *)
(* is refused and logged, as it may be whenever the connection is not      *)
(* stable.                                                                 *)
CreateOffer(n) ==
  LET b == broker[n.j] IN
  /\ n.at = "create"
  /\ \/ /\ b.sig \in Takes.localOffer
        /\ broker' = [broker EXCEPT ![n.j].sig = Becomes.localOffer,
                                    ![n.j].ver = b.tracks]
        /\ renegs' = (renegs \ {n}) \cup {[n EXCEPT !.at = "gather"]}
        /\ UNCHANGED <<spent, refused>>
     \/ /\ IF b.sig = "stable" THEN Event ELSE UNCHANGED spent
        /\ renegs' = renegs \ {n}
        /\ refused' = refused \cup {n.j}
        /\ UNCHANGED broker
  /\ UNCHANGED <<clientVars, serving, participant, renegCount, short, wire, lostVars>>

(* What is sent is the local description of that moment. *)
PushOffer(n) ==
  /\ n.at = "gather"
  /\ renegs' = renegs \ {n}
  /\ Push(Msg("offer", roomID[n.j], n.j, broker[n.j].ver, n.g))
  /\ UNCHANGED <<clientVars, serving, participant, broker, renegCount, short, refused>>

-----------------------------------------------------------------------------
(* The WebSocket is lost, with what is under way on it; the broker keeps   *)
(* the participant.                                                        *)
LoseLink ==
  /\ Event
  /\ link
  /\ link' = FALSE
  /\ up' = <<>> /\ down' = <<>>
  /\ Lose({up[i] : i \in DOMAIN up} \cup {down[i] : i \in DOMAIN down})
  /\ UNCHANGED <<clientVars, brokerVars, refused>>

Ui == SendJoin \/ Activate \/ Register \/ TakeAnswer \/ Timeout \/ EndLeave
Goroutines ==
  \/ ReadLoop
  \/ \E m \in incoming : HandleAnswer(m) \/ HandleRestartAnswer(m) \/ HandleOffer(m)
  \/ \E a \in answering : SetOffer(a) \/ SetAnswer(a) \/ SendAnswer(a)
  \/ \E j \in Join : RestartOffer(j) \/ RestartSend(j) \/ RestartEnd(j)
Broker == \/ DropFrame \/ EnterRoom \/ JoinFails \/ TakeJoinOffer \/ TakeRestartOffer
          \/ PushAnswer \/ AnswerFails \/ LeaveRoom \/ ApplyAnswer
          \/ \E n \in renegs : CreateOffer(n) \/ PushOffer(n)

Next == \/ \E r \in Room : BeginJoin(r) \/ Leave(r) \/ TracksChange(r)
        \/ \E j \in Join : ConnectionFails(j)
        \/ Ui \/ Goroutines \/ Broker \/ LoseLink

Spec == Init /\ [][Next]_vars

(* Join and Leave run on, their timers included, and so do the broker and  *)
(* the messages; the user owes nothing.                                    *)
FairSpec == Spec /\ WF_vars(Ui) /\ WF_vars(Goroutines) /\ WF_vars(Broker)

-----------------------------------------------------------------------------
(* Properties. *)

(* Every peer connection that is not closed is the active session's, or    *)
(* belongs to the Join or Leave that is running: no path out of Join or    *)
(* Leave forgets one.                                                      *)
NoneForgotten ==
  \A j \in Join : client[j].sig \notin {"none", "closed"} => j \in {activeSession, ui.j}

(* A session is completed by the answer to its own offer, unless an        *)
(* earlier join had timed out: its late answer is then taken for the one   *)
(* awaited, and from there on every join may be one answer behind.         *)
AnswerIsOwn ==
  \A j \in Join : applied[j] \notin {0, j} =>
    applied[j] < j /\ \E i \in gaveUp : i <= applied[j]

(* Nothing is under way. *)
AtRest == /\ ui = Idle /\ incoming = {} /\ answering = {} /\ renegs = {}
          /\ \A j \in Join : restart[j] = "none"
          /\ serving = Idle /\ up = <<>> /\ down = <<>>

(* At rest, client and broker agree on the call the user is in.  The       *)
(* broker keeps no participant of a call that was left or given up, unless *)
(* it never served that very call's leave (the frame was dropped, or went  *)
(* down with the WebSocket); and it has the one of the active session,     *)
(* unless it never entered that one.                                       *)
CallsAgree ==
  AtRest =>
    /\ \A r \in Room : participant[r] \in {0, activeSession} \cup unleft
    /\ activeSession # 0 => \/ participant[roomID[activeSession]] = activeSession
                            \/ activeSession \in unjoined

(* At rest, the session of a call has the broker's present track set       *)
(* unless, in this call, the broker never entered the participant, a       *)
(* description was refused, an offer or the answer to one was lost         *)
(* (dropped by either side, or gone with the WebSocket), or the answer to  *)
(* the join could not carry the tracks of all who were inside and nobody   *)
(* has come or gone since.                                                 *)
DeafnessHasCause ==
  \A j \in Join :
    AtRest /\ activeSession = j /\ client[j].ver # broker[j].tracks =>
      j \in unjoined \cup refused \cup missed \cup short

(* In the end no join that was given up has left its participant at the    *)
(* broker, but for one whose own leave the broker never served.            *)
GivenUpIsUndone ==
  <>[](\A j \in gaveUp, r \in Room : participant[r] = j => j \in unleft)
=============================================================================
