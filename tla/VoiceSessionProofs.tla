------------------------- MODULE VoiceSessionProofs -------------------------
(***************************************************************************)
(* Proofs about one client's voice calls: no peer connection is forgotten, *)
(* an answer is only taken for another join after a timeout, and with      *)
(* nothing under way client and broker agree on the call unless the        *)
(* broker never served its join or its leave, and the client has the       *)
(* broker's track set unless one of the causes named in DeafnessHasCause   *)
(* keeps it from it.                                                       *)
(***************************************************************************)
EXTENDS VoiceSession, TLAPS

(* The newest join. *)
Top == spent.join

(* Whatever is numbered by a join came with one that was begun. *)
Begun ==
  /\ \A j \in Join : j <= Top => roomID[j] \in Room
  /\ \A j \in Join : Top < j => client[j].sig = "none" /\ applied[j] = 0
  /\ \A j \in Join : restart[j] # "none" => applied[j] # 0
  /\ ui.j <= Top /\ activeSession <= Top /\ serving.j <= Top
  /\ serving.at # "idle" => serving.j # 0
  /\ \A r \in Room : participant[r] <= Top
  /\ \A a \in answering : a.j <= Top
  /\ \A n \in renegs : n.j <= Top
  /\ \A i \in DOMAIN up : up[i].j <= Top
  /\ \A g \in gaveUp : g <= Top

(* Between its offer and its answer, Join works on the newest call; the    *)
(* call is the active session from Activate on.                            *)
Joining == ui.at \in {"offered", "sent", "active", "waiting"}
UiInOrder ==
  /\ Joining => /\ ui.j = Top /\ applied[ui.j] = 0
                /\ client[ui.j].sig = "have-local-offer"
  /\ ui.at \in {"offered", "sent", "leaving"} => activeSession = 0
  /\ ui.at \in {"active", "waiting"} => activeSession = ui.j

Shape == TypeOK /\ Begun /\ UiInOrder

(* The joins that messages of one kind in a queue belong to; whether there *)
(* is at most one of them.                                                 *)
Js(q, kind) == {q[i].j : i \in {n \in DOMAIN q : q[n].kind = kind}}
Only(q, kind) == \A i, n \in DOMAIN q : q[i].kind = kind /\ q[n].kind = kind => i = n

(* Where the answer to a join may be: asked for, being made, sent, handed  *)
(* to handleIncoming, in a channel.                                        *)
Made == {j \in {serving.j} : serving.at \in {"join", "answer"}}
Handed == {m \in incoming : m.kind = "answer"}
InCh == {s \in Join : answerCh[s] # 0}
Awaited == Js(up, "join") \cup Made \cup Js(down, "answer")
           \cup {m.j : m \in Handed} \cup {answerCh[s] : s \in InCh}
Stage(n) == \/ n = 1 /\ Js(up, "join") # {}
            \/ n = 2 /\ Made # {}
            \/ n = 3 /\ Js(down, "answer") # {}
            \/ n = 4 /\ Handed # {}
            \/ n = 5 /\ InCh # {}

Single ==
  /\ \A a, b \in 1 .. 5 : Stage(a) /\ Stage(b) => a = b
  /\ Only(up, "join") /\ Only(down, "answer")
  /\ \A m, n \in Handed : m = n
  /\ \A s, t \in InCh : s = t

(* Every answer under way is to the running Join, unless a join was given  *)
(* up, and as long as none was there is at most one.                       *)
Waiting == ui.at \in {"sent", "active", "waiting"}
Excused(k) == \E g \in gaveUp : g <= k
Answers ==
  /\ \A k \in Awaited : k <= Top /\ (Excused(k) \/ (Waiting /\ k = Top))
  /\ gaveUp = {} => Single

(* The call the client is in, until the broker has been told otherwise.    *)
Call == IF ui.at \in {"sent", "active", "waiting", "leaving"} THEN ui.j
        ELSE activeSession

(* What the client tells the broker of its calls, a join's begin and end,  *)
(* and the order it does so in: the later join later, its end last.        *)
Word(m) == m.kind \in {"join", "leave"}
Precedes(kind, j, m) == Word(m) => j < m.j \/ (j = m.j /\ kind = "join" /\ m.kind = "leave")
Before(kind, j, q) == \A i \in DOMAIN q : Precedes(kind, j, q[i])
InOrder(q) ==
  \A i, n \in DOMAIN q : i < n /\ Word(q[i]) => Precedes(q[i].kind, q[i].j, q[n])

(* Each is about the room of its join, and whoever is inside was entered   *)
(* before anything that the broker is yet to hear.                         *)
Housed ==
  /\ \A i \in DOMAIN up : Word(up[i]) => up[i].room = roomID[up[i].j]
  /\ \A r \in Room : participant[r] # 0 => /\ roomID[participant[r]] = r
                                          /\ Before("join", participant[r], up)

(* Whoever is inside, or will be, is of the call, or the broker has yet to *)
(* hear of the end, or never will.                                         *)
LetGo ==
  /\ \A p \in Js(up, "join") : p = Call \/ p \in unleft \cup Js(up, "leave")
  /\ \A r \in Room : participant[r] \in {0, Call} \cup unleft \cup Js(up, "leave")

(* The call is the newest join; its participant is inside, or will be, or  *)
(* never will.                                                             *)
Entered ==
  Call # 0 => /\ Call = Top /\ Call \notin Js(up, "leave")
              /\ \/ participant[roomID[Call]] = Call
                 \/ Call \in Js(up, "join") \cup unjoined

(* Of a join that has not been sent the broker knows nothing. *)
Unsent ==
  ui.at = "offered" => /\ Top \notin Js(up, "join") \cup Js(up, "leave")
                       /\ \A r \in Room : participant[r] # Top

Told == InOrder(up) /\ Housed /\ LetGo /\ Entered /\ Unsent

IInv == Shape /\ NoneForgotten /\ AnswerIsOwn /\ Answers /\ Told

-----------------------------------------------------------------------------
(* Types. *)

UiType == [at : {"idle", "offered", "sent", "active", "waiting", "leaving"}, j : 0 .. MaxJoin]
Peer == [sig : Signalling, ver : Nat]
BrokerPeer == [sig : Signalling, ver : Nat, tracks : Nat]
Answering == [m : Message, j : Join, at : {"set", "answer", "send"}]
Reneg == [j : Join, g : Nat, at : {"create", "gather"}]
Serving == [at : {"idle", "join", "answer", "restartAnswer"}, j : 0 .. MaxJoin]
Spent == [join : 0 .. MaxJoin, event : 0 .. MaxEvent]
Losses == missed \subseteq Join /\ unjoined \subseteq Join /\ unleft \subseteq Join

LEMMA Bounds == MaxJoin \in Nat /\ MaxEvent \in Nat /\ NoRoom \notin Room
BY SessionAssumption

LEMMA Numbers ==
  /\ \A j \in Join : j \in Nat /\ j # 0 /\ j \in 0 .. MaxJoin
  /\ \A j \in 0 .. MaxJoin : j \in Nat /\ (j # 0 => j \in Join)
  /\ 0 \in 0 .. MaxJoin /\ 0 \in 0 .. MaxEvent /\ 0 \in Nat
BY Bounds DEF Join

LEMMA Types ==
  ASSUME TypeOK
  PROVE  /\ ui \in UiType /\ (ui.at = "idle" <=> ui.j = 0)
         /\ roomID \in [Join -> Room \cup {NoRoom}]
         /\ activeSession \in 0 .. MaxJoin
         /\ answerCh \in [Join -> 0 .. MaxJoin] /\ applied \in [Join -> 0 .. MaxJoin]
         /\ iceRestartCh \in [Join -> BOOLEAN]
         /\ client \in [Join -> Peer]
         /\ incoming \subseteq Message
         /\ answering \subseteq Answering
         /\ restart \in [Join -> {"none", "begun", "offered", "waiting"}]
         /\ up \in Seq(Message) /\ down \in Seq(Message)
         /\ serving \in Serving
         /\ participant \in [Room -> 0 .. MaxJoin]
         /\ broker \in [Join -> BrokerPeer]
         /\ renegs \subseteq Reneg
         /\ spent \in Spent
         /\ renegCount \in Nat /\ short \subseteq Join
         /\ refused \subseteq Join /\ gaveUp \subseteq Join /\ Losses
BY DEF TypeOK, UiType, Peer, Answering, Serving, BrokerPeer, Reneg, Spent, Losses

LEMMA MakeTypes ==
  ASSUME handler \in BOOLEAN /\ link \in BOOLEAN,
         ui \in UiType /\ (ui.at = "idle" <=> ui.j = 0),
         roomID \in [Join -> Room \cup {NoRoom}],
         activeSession \in 0 .. MaxJoin,
         answerCh \in [Join -> 0 .. MaxJoin] /\ applied \in [Join -> 0 .. MaxJoin],
         iceRestartCh \in [Join -> BOOLEAN],
         client \in [Join -> Peer],
         incoming \subseteq Message,
         answering \subseteq Answering,
         restart \in [Join -> {"none", "begun", "offered", "waiting"}],
         up \in Seq(Message) /\ down \in Seq(Message),
         serving \in Serving,
         participant \in [Room -> 0 .. MaxJoin],
         broker \in [Join -> BrokerPeer],
         renegs \subseteq Reneg,
         spent \in Spent,
         renegCount \in Nat /\ short \subseteq Join,
         refused \subseteq Join /\ gaveUp \subseteq Join /\ Losses
  PROVE  TypeOK
BY DEF TypeOK, UiType, Peer, Answering, Serving, BrokerPeer, Reneg, Spent, Losses

LEMMA MsgType ==
  ASSUME NEW k \in {"join", "leave", "renegAnswer", "restart", "answer", "offer",
                    "restartAnswer"},
         NEW r \in Room, NEW j \in Join, NEW v \in Nat, NEW g \in Nat
  PROVE  /\ Msg(k, r, j, v, g) \in Message
         /\ Msg(k, r, j, v, g).kind = k /\ Msg(k, r, j, v, g).room = r
         /\ Msg(k, r, j, v, g).j = j
BY DEF Msg, Message

LEMMA MessageType ==
  ASSUME NEW m \in Message
  PROVE  /\ m.room \in Room /\ m.j \in Join /\ m.v \in Nat /\ m.g \in Nat
         /\ m.j \in Nat /\ m.j # 0 /\ m.j \in 0 .. MaxJoin
BY Numbers DEF Message

(* The numbers that name joins. *)
LEMMA Order ==
  ASSUME TypeOK
  PROVE  /\ Top \in Nat /\ Top \in 0 .. MaxJoin
         /\ ui.j \in Nat /\ activeSession \in Nat /\ serving.j \in Nat
         /\ ui.j \in 0 .. MaxJoin /\ serving.j \in 0 .. MaxJoin
         /\ ui.at # "idle" => ui.j \in Join
         /\ spent.event \in Nat
<1>1. ui \in UiType /\ (ui.at = "idle" <=> ui.j = 0) /\ spent \in Spent /\ serving \in Serving
      /\ activeSession \in 0 .. MaxJoin
  BY Types
<1>2. /\ ui.j \in 0 .. MaxJoin /\ serving.j \in 0 .. MaxJoin /\ Top \in 0 .. MaxJoin
      /\ spent.event \in 0 .. MaxEvent
  BY <1>1 DEF UiType, Spent, Serving, Top
<1>3. QED
  BY <1>1, <1>2, Bounds, Numbers

LEMMA QueueTypes ==
  ASSUME NEW q \in Seq(Message), NEW m \in Message
  PROVE  /\ Append(q, m) \in Seq(Message) /\ Len(q) \in Nat
         /\ DOMAIN Append(q, m) = DOMAIN q \cup {Len(q) + 1} /\ Len(q) + 1 \notin DOMAIN q
         /\ \A i \in DOMAIN q : Append(q, m)[i] = q[i] /\ i < Len(q) + 1 /\ q[i] \in Message
         /\ Append(q, m)[Len(q) + 1] = m
         /\ q # <<>> => /\ Tail(q) \in Seq(Message) /\ Head(q) = q[1] /\ Head(q) \in Message
                        /\ 1 \in DOMAIN q
                        /\ \A i \in DOMAIN Tail(q) : /\ Tail(q)[i] = q[i + 1]
                                                     /\ i + 1 \in DOMAIN q /\ i + 1 # 1
                        /\ \A i \in DOMAIN q : i # 1 => /\ i - 1 \in DOMAIN Tail(q)
                                                        /\ Tail(q)[i - 1] = q[i]
                                                        /\ i - 1 + 1 = i
                        /\ DOMAIN q \subseteq Nat /\ DOMAIN Tail(q) \subseteq Nat
<1>1. /\ Append(q, m) \in Seq(Message) /\ Len(q) \in Nat /\ DOMAIN q = 1 .. Len(q)
      /\ Len(Append(q, m)) = Len(q) + 1
      /\ DOMAIN Append(q, m) = 1 .. Len(q) + 1
      /\ \A i \in 1 .. Len(q) : Append(q, m)[i] = q[i] /\ q[i] \in Message
      /\ Append(q, m)[Len(q) + 1] = m
  OBVIOUS
<1>2. /\ DOMAIN Append(q, m) = DOMAIN q \cup {Len(q) + 1} /\ Len(q) + 1 \notin DOMAIN q
      /\ \A i \in DOMAIN q : i < Len(q) + 1
  BY <1>1
<1>3. ASSUME q # <<>>
      PROVE  /\ Tail(q) \in Seq(Message) /\ Head(q) = q[1] /\ Head(q) \in Message
             /\ 1 \in DOMAIN q
             /\ \A i \in DOMAIN Tail(q) : /\ Tail(q)[i] = q[i + 1]
                                          /\ i + 1 \in DOMAIN q /\ i + 1 # 1
             /\ \A i \in DOMAIN q : i # 1 => /\ i - 1 \in DOMAIN Tail(q)
                                             /\ Tail(q)[i - 1] = q[i]
                                             /\ i - 1 + 1 = i
             /\ DOMAIN q \subseteq Nat /\ DOMAIN Tail(q) \subseteq Nat
  <2>1. /\ Len(q) # 0 /\ Tail(q) \in Seq(Message) /\ Head(q) = q[1]
        /\ Len(Tail(q)) = Len(q) - 1 /\ DOMAIN Tail(q) = 1 .. Len(q) - 1
        /\ \A i \in 1 .. Len(q) - 1 : Tail(q)[i] = q[i + 1]
    BY <1>3
  <2>2. 1 \in DOMAIN q /\ Head(q) \in Message
    BY <1>1, <2>1
  <2>3. \A i \in DOMAIN Tail(q) : i + 1 \in DOMAIN q /\ i + 1 # 1
    BY <1>1, <2>1
  <2>4. \A i \in DOMAIN q : i # 1 => i - 1 \in DOMAIN Tail(q) /\ i - 1 + 1 = i
    BY <1>1, <2>1
  <2>5. QED
    BY <1>1, <2>1, <2>2, <2>3, <2>4
<1>4. QED
  BY <1>1, <1>2, <1>3

-----------------------------------------------------------------------------
(* What the parts of steps do. *)

LEMMA Sigs ==
  /\ Takes.localOffer = {"stable", "have-local-offer"}
  /\ Takes.remoteOffer = {"stable", "have-remote-offer"}
  /\ Takes.localAnswer = {"have-remote-offer"} /\ Takes.remoteAnswer = {"have-local-offer"}
  /\ Becomes.localOffer = "have-local-offer" /\ Becomes.remoteOffer = "have-remote-offer"
  /\ Becomes.localAnswer = "stable" /\ Becomes.remoteAnswer = "stable"
  /\ Signalling = {"none", "stable", "have-local-offer", "have-remote-offer", "closed"}
BY DEF Takes, Becomes, Signalling

LEMMA SigSet ==
  ASSUME TypeOK, NEW j \in Join, NEW s \in Signalling,
         client' = [client EXCEPT ![j].sig = s]
  PROVE  /\ client' \in [Join -> Peer] /\ client'[j].sig = s
         /\ \A i \in Join : i # j => client'[i] = client[i]
<1>1. client \in [Join -> Peer]
  BY Types
<1>2. PICK p : p = [client[j] EXCEPT !.sig = s]
  OBVIOUS
<1>3. p \in Peer /\ p.sig = s
  BY <1>1, <1>2 DEF Peer
<1>4. client' = [client EXCEPT ![j] = p]
  BY <1>2
<1>5. QED
  BY <1>1, <1>3, <1>4

LEMMA BrokerSigSet ==
  ASSUME TypeOK, NEW j \in Join, NEW s \in Signalling,
         broker' = [broker EXCEPT ![j].sig = s]
  PROVE  /\ broker' \in [Join -> BrokerPeer]
         /\ \A i \in Join : broker'[i].tracks = broker[i].tracks
<1>1. broker \in [Join -> BrokerPeer]
  BY Types
<1>2. PICK p : p = [broker[j] EXCEPT !.sig = s]
  OBVIOUS
<1>3. p \in BrokerPeer /\ p.tracks = broker[j].tracks
  BY <1>1, <1>2 DEF BrokerPeer
<1>4. broker' = [broker EXCEPT ![j] = p]
  BY <1>2
<1>5. QED
  BY <1>1, <1>3, <1>4

(* What fails or is done by others leaves the number of joins alone. *)
LEMMA Events ==
  ASSUME TypeOK, Event \/ UNCHANGED spent
  PROVE  spent' \in Spent /\ Top' = Top
<1>1. spent \in Spent /\ MaxEvent \in Nat
  BY Types, Bounds
<1>2. CASE Event
  <2>1. spent.event < MaxEvent /\ spent' = [spent EXCEPT !.event = @ + 1]
    BY <1>2 DEF Event
  <2>2. spent.event + 1 \in 0 .. MaxEvent
    BY <1>1, <2>1 DEF Spent
  <2>3. QED
    BY <1>1, <2>1, <2>2 DEF Spent, Top
<1>3. CASE UNCHANGED spent
  BY <1>1, <1>3 DEF Top
<1>4. QED
  BY <1>2, <1>3

(* What is lost is only ever added to. *)
Grown == missed \subseteq missed' /\ unjoined \subseteq unjoined' /\ unleft \subseteq unleft'

LEMMA Loses ==
  ASSUME TypeOK, NEW ms \in SUBSET Message, Lose(ms) \/ UNCHANGED lostVars
  PROVE  Losses' /\ Grown
<1>1. Losses
  BY Types
<1>2. \A kinds : JoinsOf(ms, kinds) \subseteq Join
  BY MessageType DEF JoinsOf
<1>3. QED
  BY <1>1, <1>2 DEF Lose, lostVars, Losses, Grown

LEMMA Sends ==
  ASSUME TypeOK, NEW m \in Message, Send(m)
  PROVE  /\ link' = link /\ down' = down /\ up' \in Seq(Message)
         /\ link => up' = Append(up, m)
         /\ ~link => up' = up
         /\ Losses' /\ Grown
         /\ m.j <= Top /\ (\A i \in DOMAIN up : up[i].j <= Top) =>
              \A i \in DOMAIN up' : up'[i].j <= Top
<1>1. up \in Seq(Message)
  BY Types
<1>2. up' \in {up, Append(up, m)} /\ link' = link /\ down' = down
      /\ (link => up' = Append(up, m)) /\ (~link => up' = up)
  BY DEF Send
<1>3. up' \in Seq(Message)
  BY <1>1, <1>2
<1>4. ASSUME m.j <= Top, \A i \in DOMAIN up : up[i].j <= Top, NEW i \in DOMAIN up'
      PROVE  up'[i].j <= Top
  <2>1. /\ DOMAIN Append(up, m) = DOMAIN up \cup {Len(up) + 1}
        /\ \A n \in DOMAIN up : Append(up, m)[n] = up[n]
        /\ Append(up, m)[Len(up) + 1] = m
    BY <1>1, QueueTypes
  <2>2. QED
    BY <1>2, <1>4, <2>1
<1>5. Losses' /\ Grown
  <2>1. {m} \in SUBSET Message
    OBVIOUS
  <2>2. QED
    BY <2>1, Loses DEF Send
<1>6. QED
  BY <1>2, <1>3, <1>4, <1>5

LEMMA Pushes ==
  ASSUME TypeOK, NEW m \in Message, Push(m)
  PROVE  /\ link' = link /\ up' = up /\ down' \in Seq(Message)
         /\ down' \in {down, Append(down, m)}
         /\ Losses' /\ Grown /\ spent' \in Spent /\ Top' = Top
<1>1. down \in Seq(Message) /\ {m} \in SUBSET Message
  BY Types
<1>2. Losses' /\ Grown
  BY <1>1, Loses DEF Push
<1>3. spent' \in Spent /\ Top' = Top
  BY Events DEF Push
<1>4. QED
  BY <1>1, <1>2, <1>3 DEF Push

LEMMA Serves ==
  ASSUME TypeOK, Begun, NEW k, Serve(k)
  PROVE  /\ serving = Idle /\ up # <<>> /\ Head(up).kind = k /\ up' = Tail(up)
         /\ up' \in Seq(Message) /\ Head(up) \in Message /\ Head(up).j <= Top
         /\ \A i \in DOMAIN up' : up'[i].j <= Top
<1>1. up \in Seq(Message)
  BY Types
<1>2. serving = Idle /\ up # <<>> /\ Head(up).kind = k /\ up' = Tail(up)
  BY DEF Serve
<1>3. Head(up) \in Message /\ up' \in Seq(Message)
  BY <1>1, <1>2
<1>4. QED
  BY <1>1, <1>2, <1>3, QueueTypes DEF Begun

-----------------------------------------------------------------------------
(* Typing and numbering, and that no peer connection is forgotten. *)

Sound == Shape /\ NoneForgotten

LEMMA InitSound == Init => Sound
<1> SUFFICES ASSUME Init PROVE Sound
  OBVIOUS
<1>1. TypeOK
  <2>1. ui \in UiType /\ serving \in Serving /\ (ui.at = "idle" <=> ui.j = 0)
    BY Numbers DEF Init, Idle, UiType, Serving
  <2>2. client \in [Join -> Peer] /\ broker \in [Join -> BrokerPeer] /\ spent \in Spent
    BY Numbers, Sigs DEF Init, Peer, BrokerPeer, Spent
  <2>3. /\ answerCh \in [Join -> 0 .. MaxJoin] /\ applied \in [Join -> 0 .. MaxJoin]
        /\ participant \in [Room -> 0 .. MaxJoin] /\ activeSession \in 0 .. MaxJoin
        /\ up \in Seq(Message) /\ down \in Seq(Message)
    BY Numbers DEF Init
  <2>4. QED
    BY <2>1, <2>2, <2>3, MakeTypes, Numbers DEF Init, Losses
<1>2. Begun
  BY Numbers DEF Init, Begun, Idle, Top
<1>3. UiInOrder /\ NoneForgotten
  BY DEF Init, Idle, UiInOrder, Joining, NoneForgotten
<1>4. QED
  BY <1>1, <1>2, <1>3 DEF Sound, Shape

(* A step of anything but the user interface. *)
LEMMA BesideUi ==
  ASSUME Sound, TypeOK',
         UNCHANGED <<ui, roomID, activeSession, applied, gaveUp>>, Top' = Top,
         \A j \in Join :
           \/ client'[j].sig = client[j].sig
           \/ /\ client[j].sig \notin {"none", "closed"}
              /\ client[j].sig # "have-local-offer" \/ applied[j] # 0,
         \A j \in Join : restart'[j] # "none" => applied[j] # 0,
         serving'.j <= Top, serving'.at # "idle" => serving'.j # 0,
         \A r \in Room : participant'[r] <= Top,
         \A a \in answering' : a.j <= Top,
         \A n \in renegs' : n.j <= Top,
         \A i \in DOMAIN up' : up'[i].j <= Top
  PROVE  Sound'
<1>1. Shape /\ NoneForgotten /\ TypeOK
  BY DEF Sound, Shape
<1>2. Begun'
  BY <1>1 DEF Shape, Begun
<1>3. UiInOrder'
  <2>1. Joining' = Joining
    BY DEF Joining
  <2>2. Joining => ui.j \in Join
    BY <1>1, Order DEF Joining
  <2>3. QED
    BY <1>1, <2>1, <2>2 DEF Shape, UiInOrder
<1>4. NoneForgotten'
  BY <1>1 DEF NoneForgotten
<1>5. QED
  BY <1>2, <1>3, <1>4 DEF Sound, Shape

(* What Begun says in the state before. *)
LEMMA BegunFacts ==
  ASSUME Sound
  PROVE  /\ TypeOK /\ Begun
         /\ \A j \in Join : restart[j] # "none" => applied[j] # 0
         /\ serving.j <= Top /\ (serving.at # "idle" => serving.j # 0)
         /\ \A r \in Room : participant[r] <= Top
         /\ \A a \in answering : a.j <= Top
         /\ \A n \in renegs : n.j <= Top
         /\ \A i \in DOMAIN up : up[i].j <= Top
         /\ \A j \in Join : j <= Top => roomID[j] \in Room
         /\ link \in BOOLEAN /\ handler \in BOOLEAN /\ Losses
         /\ renegCount \in Nat /\ short \subseteq Join
BY DEF Sound, Shape, Begun, TypeOK, Losses

(* The client's read loop and handleIncoming. *)
LEMMA IncomingSound ==
  ASSUME Sound,
         \/ ReadLoop
         \/ \E m \in incoming : HandleAnswer(m) \/ HandleRestartAnswer(m) \/ HandleOffer(m)
  PROVE  Sound'
<1>1. TypeOK /\ Begun
  BY BegunFacts
<1>2. /\ UNCHANGED <<ui, roomID, activeSession, applied, gaveUp, client, restart, broker,
                     serving, participant, renegs, renegCount, short, up, spent, link, handler,
                     refused>>
      /\ Top' = Top
  BY DEF ReadLoop, HandleAnswer, HandleRestartAnswer, HandleOffer, clientVars, brokerVars,
         wire, Top
<1>3. incoming \subseteq Message /\ down \in Seq(Message) /\ Losses
      /\ answerCh \in [Join -> 0 .. MaxJoin] /\ iceRestartCh \in [Join -> BOOLEAN]
      /\ answering \subseteq Answering /\ activeSession \in 0 .. MaxJoin
  BY <1>1, Types
<1>4. ASSUME TypeOK', \A a \in answering' : a.j <= Top PROVE Sound'
  BY <1>2, <1>4, BegunFacts, BesideUi
<1>5. CASE ReadLoop
  <2>1. UNCHANGED <<answerCh, iceRestartCh, answering>>
    BY <1>5 DEF ReadLoop
  <2>2. /\ down # <<>> /\ down' = Tail(down)
        /\ incoming' \in {incoming, incoming \cup {Head(down)}}
        /\ Lose({Head(down)}) \/ UNCHANGED lostVars
    BY <1>5 DEF ReadLoop
  <2>3. Head(down) \in Message /\ Tail(down) \in Seq(Message)
    BY <1>3, <2>2
  <2>4. {Head(down)} \in SUBSET Message
    BY <2>3
  <2>5. incoming' \subseteq Message /\ Losses' /\ down' \in Seq(Message)
    BY <1>1, <1>3, <2>2, <2>3, <2>4, Loses
  <2>6. TypeOK'
    BY <1>1, <1>2, <2>1, <2>5 DEF TypeOK, Answering, Losses
  <2>7. QED
    BY <1>4, <2>1, <2>6, BegunFacts
<1>6. ASSUME NEW m \in incoming, HandleAnswer(m) PROVE Sound'
  <2>1. UNCHANGED <<iceRestartCh, answering, down, missed, unjoined, unleft>>
    BY <1>6 DEF HandleAnswer, wire, lostVars
  <2>2. /\ incoming' = incoming \ {m}
        /\ \/ answerCh' = answerCh
           \/ activeSession # 0 /\ answerCh' = [answerCh EXCEPT ![activeSession] = m.j]
    BY <1>6 DEF HandleAnswer
  <2>3. m.j \in 0 .. MaxJoin
    BY <1>3, MessageType
  <2>4. answerCh' \in [Join -> 0 .. MaxJoin] /\ incoming' \subseteq Message
    BY <1>3, <2>2, <2>3
  <2>5. TypeOK'
    BY <1>1, <1>2, <2>1, <2>4 DEF TypeOK, Answering
  <2>6. QED
    BY <1>4, <2>1, <2>5, BegunFacts
<1>7. ASSUME NEW m \in incoming, HandleRestartAnswer(m) PROVE Sound'
  <2>1. UNCHANGED <<answerCh, answering, down, missed, unjoined, unleft>>
    BY <1>7 DEF HandleRestartAnswer, wire, lostVars
  <2>2. /\ incoming' = incoming \ {m}
        /\ \/ iceRestartCh' = iceRestartCh
           \/ iceRestartCh' = [iceRestartCh EXCEPT ![activeSession] = TRUE]
    BY <1>7 DEF HandleRestartAnswer
  <2>3. iceRestartCh' \in [Join -> BOOLEAN] /\ incoming' \subseteq Message
    BY <1>3, <2>2
  <2>4. TypeOK'
    BY <1>1, <1>2, <2>1, <2>3 DEF TypeOK, Answering
  <2>5. QED
    BY <1>4, <2>1, <2>4, BegunFacts
<1>8. ASSUME NEW m \in incoming, HandleOffer(m) PROVE Sound'
  <2>1. UNCHANGED <<answerCh, iceRestartCh, down>>
    BY <1>8 DEF HandleOffer, wire
  <2>2. PICK a : a = [m |-> m, j |-> activeSession, at |-> "set"]
    OBVIOUS
  <2>3. /\ incoming' = incoming \ {m}
        /\ \/ activeSession # 0 /\ answering' = answering \cup {a}
           \/ answering' = answering
        /\ Lose({m}) \/ UNCHANGED lostVars
    BY <1>8, <2>2 DEF HandleOffer
  <2>4. m \in Message /\ m.j \in Join
    BY <1>3, MessageType
  <2>5. activeSession # 0 => activeSession \in Join /\ a \in Answering
    BY <1>3, <2>2, <2>4, Numbers DEF Answering
  <2>6. a.j = activeSession /\ activeSession <= Top
    BY <1>1, <2>2 DEF Begun
  <2>7. answering' \subseteq Answering /\ Losses' /\ incoming' \subseteq Message
    <3>1. {m} \in SUBSET Message
      BY <2>4
    <3>2. QED
      BY <1>1, <1>3, <2>3, <2>4, <2>5, <3>1, Loses
  <2>8. TypeOK'
    BY <1>1, <1>2, <2>1, <2>7 DEF TypeOK, Answering, Losses
  <2>9. \A x \in answering' : x.j <= Top
    BY <2>3, <2>6, BegunFacts
  <2>10. QED
    BY <1>4, <2>8, <2>9
<1>9. QED
  BY <1>5, <1>6, <1>7, <1>8

(* The goroutines that answer offers. *)
LEMMA AnsweringSound ==
  ASSUME Sound, NEW a \in answering, SetOffer(a) \/ SetAnswer(a) \/ SendAnswer(a)
  PROVE  Sound'
<1>1. TypeOK /\ Begun
  BY BegunFacts
<1>2. /\ UNCHANGED <<ui, roomID, activeSession, applied, gaveUp, restart, broker, answerCh,
                     iceRestartCh, incoming, serving, participant, renegs, renegCount, short,
                     spent, link, handler, down>>
      /\ Top' = Top
  BY DEF SetOffer, SetAnswer, SendAnswer, Send, brokerVars, wire, Top
<1>3. answering \subseteq Answering /\ a \in Answering /\ refused \subseteq Join
      /\ client \in [Join -> Peer] /\ up \in Seq(Message)
  BY <1>1, Types
<1>4. /\ a.j \in Join /\ a.m \in Message /\ a.j <= Top
      /\ \A at \in {"set", "answer", "send"} :
           [a EXCEPT !.at = at] \in Answering /\ [a EXCEPT !.at = at].j = a.j
  BY <1>3, BegunFacts DEF Answering
<1>5. ASSUME answering' \subseteq Answering, refused' = refused \/ refused' = refused \cup {a.j},
             client' \in [Join -> Peer], up' \in Seq(Message), Losses',
             \A i \in DOMAIN up' : up'[i].j <= Top,
             \A x \in answering' : x.j <= Top,
             \A j \in Join : \/ client'[j].sig = client[j].sig
                             \/ /\ client[j].sig \notin {"none", "closed"}
                                /\ client[j].sig # "have-local-offer"
      PROVE  Sound'
  <2>1. refused' \subseteq Join
    BY <1>3, <1>4, <1>5
  <2>2. TypeOK'
    BY <1>1, <1>2, <1>5, <2>1 DEF TypeOK, Answering, Peer, Losses
  <2>3. QED
    BY <1>2, <1>5, <2>2, BegunFacts, BesideUi
<1>6. ASSUME NEW at \in {"set", "answer", "send"}, Goes(a, at)
      PROVE  answering' \subseteq Answering /\ \A x \in answering' : x.j <= Top
  BY <1>3, <1>4, <1>6, BegunFacts DEF Goes
<1>7. answering \ {a} \subseteq Answering /\ \A x \in answering \ {a} : x.j <= Top
  BY <1>3, BegunFacts
<1>8. CASE SetOffer(a)
  <2>1. up' = up /\ Losses'
    BY <1>8, BegunFacts DEF SetOffer, wire, lostVars, Losses
  <2>2. CASE client[a.j].sig \in Takes.remoteOffer
    <3>1. PICK p : p = [sig |-> Becomes.remoteOffer, ver |-> a.m.v]
      OBVIOUS
    <3>2. /\ client' = [client EXCEPT ![a.j] = p] /\ Goes(a, "answer") /\ refused' = refused
      BY <1>8, <2>2, <3>1 DEF SetOffer
    <3>3. p \in Peer
      BY <1>4, <3>1, Sigs, MessageType DEF Peer
    <3>4. client \in [Join -> Peer] /\ client' \in [Join -> Peer]
      BY <1>1, <1>4, <3>2, <3>3, Types
    <3>5. \A j \in Join : j # a.j => client'[j] = client[j]
      BY <3>2, <3>4
    <3>6. client[a.j].sig \in {"stable", "have-remote-offer"}
      BY <2>2, Sigs
    <3>7. QED
      BY <1>3, <1>5, <1>6, <2>1, <3>2, <3>4, <3>5, <3>6, BegunFacts
  <2>3. CASE client[a.j].sig \notin Takes.remoteOffer
    <3>1. client' = client /\ refused' = refused \cup {a.j} /\ answering' = answering \ {a}
      BY <1>8, <2>3 DEF SetOffer
    <3>2. QED
      BY <1>3, <1>5, <1>7, <2>1, <3>1, BegunFacts
  <2>4. QED
    BY <2>2, <2>3
<1>9. CASE SetAnswer(a)
  <2>1. up' = up /\ Losses'
    BY <1>9, BegunFacts DEF SetAnswer, wire, lostVars, Losses
  <2>2. CASE client[a.j].sig \in Takes.localAnswer
    <3>1. /\ client' = [client EXCEPT ![a.j].sig = "stable"] /\ Goes(a, "send")
          /\ refused' = refused
      BY <1>9, <2>2, Sigs DEF SetAnswer
    <3>2. "stable" \in Signalling /\ client[a.j].sig = "have-remote-offer"
      BY <2>2, Sigs
    <3>3. client' \in [Join -> Peer] /\ \A j \in Join : j # a.j => client'[j] = client[j]
      BY <1>1, <1>4, <3>1, <3>2, SigSet
    <3>4. QED
      BY <1>3, <1>5, <1>6, <2>1, <3>1, <3>2, <3>3, BegunFacts
  <2>3. CASE client[a.j].sig \notin Takes.localAnswer
    <3>1. client' = client /\ refused' = refused \cup {a.j} /\ answering' = answering \ {a}
      BY <1>9, <2>3 DEF SetAnswer
    <3>2. QED
      BY <1>3, <1>5, <1>7, <2>1, <3>1, BegunFacts
  <2>4. QED
    BY <2>2, <2>3
<1>10. CASE SendAnswer(a)
  <2>1. PICK m : m = Msg("renegAnswer", a.m.room, a.j, 0, a.m.g)
    OBVIOUS
  <2>2. m \in Message /\ m.j = a.j
    <3>1. a.m.room \in Room /\ a.m.g \in Nat
      BY <1>4, MessageType
    <3>2. QED
      BY <1>4, <2>1, <3>1 DEF Msg, Message
  <2>3. Send(m) /\ client' = client /\ refused' = refused /\ answering' = answering \ {a}
    BY <1>10, <2>1 DEF SendAnswer
  <2>4. up' \in Seq(Message) /\ Losses' /\ \A i \in DOMAIN up' : up'[i].j <= Top
    BY <1>1, <1>4, <2>2, <2>3, Sends, BegunFacts
  <2>5. QED
    BY <1>3, <1>5, <1>7, <2>3, <2>4
<1>11. QED
  BY <1>8, <1>9, <1>10

(* A join that has been answered was begun. *)
LEMMA AppliedBegun ==
  ASSUME Sound, NEW j \in Join, applied[j] # 0
  PROVE  j <= Top /\ roomID[j] \in Room
<1>1. Top \in Nat /\ j \in Nat /\ ~(Top < j)
  BY Order, Numbers DEF Sound, Shape, Begun
<1>2. j <= Top
  BY <1>1
<1>3. QED
  BY <1>2, BegunFacts

(* iceRestart. *)
LEMMA RestartSound ==
  ASSUME Sound, NEW j \in Join,
         ConnectionFails(j) \/ RestartOffer(j) \/ RestartSend(j) \/ RestartEnd(j)
  PROVE  Sound'
<1>1. TypeOK /\ Begun
  BY BegunFacts
<1>2. UNCHANGED <<ui, roomID, activeSession, applied, gaveUp, broker, answerCh, incoming,
                  answering, serving, participant, renegs, renegCount, short, link, handler, down>>
  BY DEF ConnectionFails, RestartOffer, RestartSend, RestartEnd, Send, brokerVars, wire
<1>3. /\ restart \in [Join -> {"none", "begun", "offered", "waiting"}]
      /\ client \in [Join -> Peer] /\ up \in Seq(Message) /\ spent \in Spent
      /\ refused \subseteq Join /\ iceRestartCh \in [Join -> BOOLEAN]
  BY <1>1, Types
<1>4. /\ applied[j] # 0
      /\ \E s \in {"none", "begun", "offered", "waiting"} : restart' = [restart EXCEPT ![j] = s]
  <2>1. CASE ConnectionFails(j)
    BY <2>1 DEF ConnectionFails
  <2>2. restart[j] # "none" => applied[j] # 0
    BY BegunFacts
  <2>3. CASE RestartOffer(j)
    BY <2>2, <2>3 DEF RestartOffer
  <2>4. CASE RestartSend(j)
    BY <2>2, <2>4 DEF RestartSend
  <2>5. CASE RestartEnd(j)
    BY <2>2, <2>5 DEF RestartEnd
  <2>6. QED
    BY <2>1, <2>3, <2>4, <2>5
<1>5. /\ restart' \in [Join -> {"none", "begun", "offered", "waiting"}]
      /\ \A i \in Join : restart'[i] # "none" => applied[i] # 0
  BY <1>3, <1>4, BegunFacts
<1>6. ASSUME client' \in [Join -> Peer], up' \in Seq(Message), refused' \subseteq Join,
             iceRestartCh' \in [Join -> BOOLEAN], spent' \in Spent,
             Top' = Top, Losses',
             \A i \in DOMAIN up' : up'[i].j <= Top,
             \A i \in Join : \/ client'[i].sig = client[i].sig
                             \/ i = j /\ client[i].sig \notin {"none", "closed"}
      PROVE  Sound'
  <2>1. TypeOK'
    BY <1>1, <1>2, <1>5, <1>6 DEF TypeOK, Peer, Spent, Losses
  <2>2. QED
    BY <1>2, <1>4, <1>5, <1>6, <2>1, BegunFacts, BesideUi
<1>7. CASE ConnectionFails(j)
  <2>1. UNCHANGED <<client, up, refused, iceRestartCh>> /\ Event /\ Losses'
    BY <1>7, BegunFacts DEF ConnectionFails, wire, lostVars, Losses
  <2>2. spent' \in Spent /\ Top' = Top
    BY <1>1, <2>1, Events
  <2>3. QED
    BY <1>3, <1>6, <2>1, <2>2, BegunFacts
<1>8. CASE RestartOffer(j)
  <2>1. UNCHANGED <<up, iceRestartCh, spent>> /\ Top' = Top /\ Losses'
    BY <1>8, BegunFacts DEF RestartOffer, wire, Top, lostVars, Losses
  <2>2. CASE activeSession = j /\ client[j].sig \in Takes.localOffer
    <3>1. client' = [client EXCEPT ![j].sig = "have-local-offer"] /\ refused' = refused
      BY <1>8, <2>2, Sigs DEF RestartOffer
    <3>2. "have-local-offer" \in Signalling /\ client[j].sig \in {"stable", "have-local-offer"}
      BY <2>2, Sigs
    <3>3. client' \in [Join -> Peer] /\ \A i \in Join : i # j => client'[i] = client[i]
      BY <1>1, <3>1, <3>2, SigSet
    <3>4. QED
      BY <1>3, <1>6, <2>1, <3>1, <3>2, <3>3, BegunFacts
  <2>3. CASE ~(activeSession = j /\ client[j].sig \in Takes.localOffer)
    <3>1. client' = client /\ refused' \in {refused, refused \cup {j}}
      BY <1>8, <2>3 DEF RestartOffer
    <3>2. QED
      BY <1>3, <1>6, <2>1, <3>1, BegunFacts
  <2>4. QED
    BY <2>2, <2>3
<1>9. CASE RestartSend(j)
  <2>1. PICK m : m = Msg("restart", roomID[j], j, 0, 0)
    OBVIOUS
  <2>2. m \in Message /\ m.j = j /\ j <= Top
    BY <1>4, <2>1, AppliedBegun, MsgType, Numbers
  <2>3. UNCHANGED <<client, iceRestartCh, spent, refused>> /\ Top' = Top /\ Send(m)
    BY <1>9, <2>1 DEF RestartSend, Top
  <2>4. up' \in Seq(Message) /\ Losses' /\ \A i \in DOMAIN up' : up'[i].j <= Top
    BY <1>1, <2>2, <2>3, Sends, BegunFacts
  <2>5. QED
    BY <1>3, <1>6, <2>3, <2>4
<1>10. CASE RestartEnd(j)
  <2>1. UNCHANGED <<up, spent, refused>> /\ Top' = Top /\ Losses'
        /\ iceRestartCh' = [iceRestartCh EXCEPT ![j] = FALSE]
    BY <1>10, BegunFacts DEF RestartEnd, wire, Top, lostVars, Losses
  <2>2. iceRestartCh' \in [Join -> BOOLEAN]
    BY <1>3, <2>1
  <2>3. CASE iceRestartCh[j] /\ client[j].sig \in Takes.remoteAnswer
    <3>1. client' = [client EXCEPT ![j].sig = "stable"]
      BY <1>10, <2>3, Sigs DEF RestartEnd
    <3>2. "stable" \in Signalling /\ client[j].sig = "have-local-offer"
      BY <2>3, Sigs
    <3>3. client' \in [Join -> Peer] /\ \A i \in Join : i # j => client'[i] = client[i]
      BY <1>1, <3>1, <3>2, SigSet
    <3>4. QED
      BY <1>3, <1>6, <2>1, <2>2, <3>2, <3>3, BegunFacts
  <2>4. CASE ~(iceRestartCh[j] /\ client[j].sig \in Takes.remoteAnswer)
    <3>1. client' = client
      BY <1>10, <2>4 DEF RestartEnd
    <3>2. QED
      BY <1>3, <1>6, <2>1, <2>2, <3>1, BegunFacts
  <2>5. QED
    BY <2>3, <2>4
<1>11. QED
  BY <1>7, <1>8, <1>9, <1>10

(* What the broker's steps leave alone. *)
BrokerOnly == UNCHANGED <<clientVars, link>>

(* A step of the broker. *)
LEMMA BrokerStep ==
  ASSUME Sound, BrokerOnly, refused' \subseteq Join,
         up' \in Seq(Message), down' \in Seq(Message), serving' \in Serving,
         participant' \in [Room -> 0 .. MaxJoin], broker' \in [Join -> BrokerPeer],
         renegs' \subseteq Reneg, renegCount' \in Nat, short' \subseteq Join,
         Losses', spent' \in Spent, Top' = Top,
         serving'.j <= Top, serving'.at # "idle" => serving'.j # 0,
         \A r \in Room : participant'[r] <= Top,
         \A n \in renegs' : n.j <= Top,
         \A i \in DOMAIN up' : up'[i].j <= Top
  PROVE  Sound'
<1>1. UNCHANGED <<ui, roomID, activeSession, handler, answerCh, iceRestartCh, client, incoming,
                  answering, restart, applied, gaveUp, link>>
  BY DEF BrokerOnly, clientVars
<1>2. TypeOK'
  BY <1>1, BegunFacts DEF TypeOK, Serving, BrokerPeer, Reneg, Spent, Losses
<1>3. QED
  BY <1>1, <1>2, BegunFacts, BesideUi

LEMMA BrokerTypes ==
  ASSUME Sound
  PROVE  /\ TypeOK /\ refused \subseteq Join /\ up \in Seq(Message) /\ down \in Seq(Message)
         /\ serving \in Serving /\ participant \in [Room -> 0 .. MaxJoin]
         /\ broker \in [Join -> BrokerPeer] /\ renegs \subseteq Reneg /\ spent \in Spent
         /\ serving.j <= Top /\ (serving.at # "idle" => serving.j \in Join)
         /\ Idle \in Serving /\ Idle.j <= Top /\ Idle.at = "idle"
         /\ 0 <= Top /\ renegCount \in Nat /\ short \subseteq Join /\ Losses
         /\ (\A n \in renegs : n.j <= Top)
<1>1. TypeOK /\ Begun /\ serving \in Serving
  BY BegunFacts, Types
<1>2. serving.j \in 0 .. MaxJoin /\ Top \in Nat /\ serving.j <= Top
      /\ (serving.at # "idle" => serving.j # 0)
  BY <1>1, Order, BegunFacts
<1>3. Idle \in Serving /\ Idle.j = 0 /\ Idle.at = "idle"
  BY Numbers DEF Idle, Serving
<1>4. serving.at # "idle" => serving.j \in Join
  BY <1>2, Numbers
<1>5. QED
  BY <1>1, <1>2, <1>3, <1>4, Types, BegunFacts

LEMMA TakeOfferEffect ==
  ASSUME Sound, NEW j \in Join, j <= Top, NEW what \in {"answer", "restartAnswer"},
         TakeOffer(j, what)
  PROVE  /\ broker' \in [Join -> BrokerPeer]
         /\ serving' \in Serving /\ serving'.j <= Top
         /\ (serving'.at # "idle" => serving'.j # 0)
         /\ refused' \subseteq Join /\ spent' \in Spent /\ Top' = Top
         /\ serving' = Idle \/ (serving'.at = what /\ serving'.j = j)
<1>1. CASE /\ broker' = [broker EXCEPT ![j].sig = Becomes.remoteOffer]
           /\ serving' = [at |-> what, j |-> j]
           /\ UNCHANGED <<spent, refused>>
  <2>1. /\ broker' = [broker EXCEPT ![j].sig = "have-remote-offer"]
        /\ serving' = [at |-> what, j |-> j] /\ refused' = refused /\ spent' = spent
    BY <1>1, Sigs
  <2>2. "have-remote-offer" \in Signalling
    BY Sigs
  <2>3. serving' \in Serving
    BY <2>1, Numbers DEF Serving
  <2>4. QED
    BY <2>1, <2>2, <2>3, BrokerTypes, BrokerSigSet, Numbers DEF Top
<1>2. CASE /\ Event \/ UNCHANGED spent
           /\ serving' = Idle /\ refused' = refused \cup {j} /\ broker' = broker
  BY <1>2, BrokerTypes, Events
<1>3. QED
  BY <1>1, <1>2 DEF TakeOffer

(* A track is added to the broker's peer connection of p. *)
LEMMA TracksSet ==
  ASSUME NEW b \in [Join -> BrokerPeer], NEW p \in Join, NEW n \in Nat
  PROVE  /\ [b EXCEPT ![p].tracks = @ + n] \in [Join -> BrokerPeer]
         /\ [b EXCEPT ![p].tracks = @ + n][p] = [b[p] EXCEPT !.tracks = @ + n]
         /\ \A j \in Join : j # p => [b EXCEPT ![p].tracks = @ + n][j] = b[j]
<1>1. PICK c : c = [b[p] EXCEPT !.tracks = @ + n]
  OBVIOUS
<1>2. b[p] \in BrokerPeer
  OBVIOUS
<1>3. b[p].tracks + n \in Nat
  BY <1>2 DEF BrokerPeer
<1>4. c \in BrokerPeer
  BY <1>1, <1>2, <1>3 DEF BrokerPeer
<1>5. [b EXCEPT ![p].tracks = @ + n] = [b EXCEPT ![p] = c]
  BY <1>1
<1>6. QED
  BY <1>1, <1>4, <1>5

LEMMA RenegTypes ==
  ASSUME Sound, NEW p \in Join, p <= Top, Renegotiate(p)
  PROVE  /\ renegs' \subseteq Reneg /\ (\A n \in renegs' : n.j <= Top)
         /\ renegCount' \in Nat
<1>1. renegCount \in Nat /\ renegCount' = renegCount + 1
  BY BrokerTypes DEF Renegotiate
<1>2. PICK n : n = [j |-> p, g |-> renegCount + 1, at |-> "create"]
  OBVIOUS
<1>3. n \in Reneg /\ n.j = p /\ renegs' = renegs \cup {n}
  BY <1>1, <1>2 DEF Reneg, Renegotiate
<1>4. QED
  BY <1>1, <1>3, BrokerTypes

LEMMA WiredTypes ==
  ASSUME Sound, NEW p \in 0 .. MaxJoin, p <= Top
  PROVE  /\ Wired(p) \in [Join -> BrokerPeer]
         /\ WireOwn(p) => /\ renegs' \subseteq Reneg /\ (\A n \in renegs' : n.j <= Top)
                          /\ renegCount' \in Nat
<1>1. CASE p = 0
  BY <1>1, BrokerTypes DEF Wired, WireOwn
<1>2. CASE p # 0
  <2>1. p \in Join
    BY <1>2, Numbers
  <2>2. Wired(p) = [broker EXCEPT ![p].tracks = @ + 1]
    BY <1>2 DEF Wired
  <2>3. 1 \in Nat /\ broker \in [Join -> BrokerPeer]
    BY BrokerTypes
  <2>4. Wired(p) \in [Join -> BrokerPeer]
    BY <2>1, <2>2, <2>3, TracksSet
  <2>5. WireOwn(p) => Renegotiate(p)
    BY <1>2 DEF WireOwn
  <2>6. QED
    BY <2>1, <2>4, <2>5, RenegTypes
<1>3. QED
  BY <1>1, <1>2

LEMMA EnteredTypes ==
  ASSUME NEW w \in [Join -> BrokerPeer], NEW j \in Join, NEW n \in {0, 1}
  PROVE  [w EXCEPT ![j].sig = "stable", ![j].tracks = @ + n] \in [Join -> BrokerPeer]
<1>1. PICK c : c = [w[j] EXCEPT !.sig = "stable", !.tracks = @ + n]
  OBVIOUS
<1>2. w[j] \in BrokerPeer /\ "stable" \in Signalling
  BY Sigs
<1>3. w[j].tracks + n \in Nat
  BY <1>2 DEF BrokerPeer
<1>4. c \in BrokerPeer
  BY <1>1, <1>2, <1>3 DEF BrokerPeer
<1>5. [w EXCEPT ![j].sig = "stable", ![j].tracks = @ + n] = [w EXCEPT ![j] = c]
  BY <1>1
<1>6. QED
  BY <1>4, <1>5

(* The broker's handler. *)
LEMMA HandlerSound ==
  ASSUME Sound,
         \/ DropFrame \/ EnterRoom \/ JoinFails \/ TakeJoinOffer \/ TakeRestartOffer
         \/ PushAnswer \/ AnswerFails \/ LeaveRoom \/ ApplyAnswer
  PROVE  Sound'
<1>1. TypeOK /\ Begun
  BY BegunFacts
<1>2. BrokerOnly
  BY DEF DropFrame, EnterRoom, JoinFails, TakeJoinOffer, TakeRestartOffer, PushAnswer,
         AnswerFails, LeaveRoom, ApplyAnswer, Push, BrokerOnly, wire
<1>3. ASSUME refused' \subseteq Join,
             up' \in Seq(Message), down' \in Seq(Message), serving' \in Serving,
             participant' \in [Room -> 0 .. MaxJoin], broker' \in [Join -> BrokerPeer],
             renegs' \subseteq Reneg, renegCount' \in Nat, short' \subseteq Join,
             Losses', spent' \in Spent, Top' = Top,
             serving'.j <= Top, serving'.at # "idle" => serving'.j # 0,
             \A r \in Room : participant'[r] <= Top,
             \A n \in renegs' : n.j <= Top,
             \A i \in DOMAIN up' : up'[i].j <= Top
      PROVE  Sound'
  BY <1>2, <1>3, BrokerStep
<1>4. CASE EnterRoom
  <2>1. Serve("join")
    BY <1>4 DEF EnterRoom
  <2>2. PICK m, p : m = Head(up) /\ p = participant[m.room]
    OBVIOUS
  <2>3. m \in Message /\ m.j <= Top /\ up' \in Seq(Message) /\ \A i \in DOMAIN up' : up'[i].j <= Top
    BY <1>1, <2>1, <2>2, Serves
  <2>4. m.room \in Room /\ m.j \in Join /\ m.j \in 0 .. MaxJoin /\ m.j # 0
    BY <2>3, MessageType
  <2>5. PICK n \in {0, 1} :
          /\ IF n = 1 THEN Event ELSE UNCHANGED spent
          /\ broker' = [Wired(p) EXCEPT ![m.j].sig = "stable", ![m.j].tracks = @ + n]
          /\ short' = IF n = 0 THEN short \ {p} ELSE (short \ {p}) \cup {m.j}
    BY <1>4, <2>2 DEF EnterRoom
  <2>6. /\ participant' = [participant EXCEPT ![m.room] = m.j]
        /\ serving' = [at |-> "join", j |-> m.j]
        /\ WireOwn(p)
        /\ UNCHANGED <<refused, down, missed, unjoined, unleft>>
    BY <1>4, <2>2 DEF EnterRoom, lostVars
  <2>7. serving' \in Serving /\ serving'.j = m.j
    BY <2>4, <2>6 DEF Serving
  <2>8. participant' \in [Room -> 0 .. MaxJoin] /\ \A r \in Room : participant'[r] <= Top
    BY <2>3, <2>4, <2>6, BrokerTypes, BegunFacts
  <2>9. p \in 0 .. MaxJoin /\ p <= Top
    BY <2>2, <2>4, BrokerTypes, BegunFacts
  <2>10. /\ Wired(p) \in [Join -> BrokerPeer] /\ renegs' \subseteq Reneg
         /\ (\A q \in renegs' : q.j <= Top) /\ renegCount' \in Nat
    BY <2>6, <2>9, WiredTypes
  <2>11. broker' \in [Join -> BrokerPeer]
    BY <2>4, <2>5, <2>10, EnteredTypes
  <2>12. spent' \in Spent /\ Top' = Top
    BY <1>1, <2>5, Events
  <2>13. short' \subseteq Join
    BY <2>4, <2>5, BrokerTypes
  <2>14. Losses'
    BY <2>6, BrokerTypes DEF Losses
  <2>15. QED
    BY <1>3, <2>3, <2>4, <2>6, <2>7, <2>8, <2>10, <2>11, <2>12, <2>13, <2>14, BrokerTypes
<1>5. CASE TakeJoinOffer
  <2>1. /\ serving.at = "join" /\ TakeOffer(serving.j, "answer")
        /\ UNCHANGED <<participant, up, down, renegs, renegCount, short, missed, unjoined, unleft>>
    BY <1>5 DEF TakeJoinOffer, wire, lostVars
  <2>2. serving.j \in Join /\ serving.j <= Top
    BY <2>1, BrokerTypes
  <2>3. Losses'
    BY <2>1, BrokerTypes DEF Losses
  <2>4. QED
    BY <1>3, <2>1, <2>2, <2>3, TakeOfferEffect, BrokerTypes, BegunFacts
<1>6. CASE TakeRestartOffer
  <2>1. /\ Serve("restart")
        /\ UNCHANGED <<participant, down, renegs, renegCount, short, missed, unjoined, unleft>>
    BY <1>6 DEF TakeRestartOffer, lostVars
  <2>2. PICK p : p = participant[Head(up).room]
    OBVIOUS
  <2>3. /\ p = 0 => UNCHANGED <<broker, serving, spent, refused>>
        /\ p # 0 => TakeOffer(p, "restartAnswer")
    BY <1>6, <2>2 DEF TakeRestartOffer, getVoiceParticipant
  <2>4. /\ up' \in Seq(Message) /\ \A i \in DOMAIN up' : up'[i].j <= Top
        /\ Head(up) \in Message
    BY <1>1, <2>1, Serves
  <2>5. p \in 0 .. MaxJoin /\ p <= Top
    BY <2>2, <2>4, MessageType, BrokerTypes, BegunFacts
  <2>6. Losses'
    BY <2>1, BrokerTypes DEF Losses
  <2>7. CASE p = 0
    BY <1>3, <2>1, <2>3, <2>4, <2>6, <2>7, BrokerTypes, BegunFacts DEF Top
  <2>8. CASE p # 0
    <3>1. p \in Join
      BY <2>5, <2>8, Numbers
    <3>2. QED
      BY <1>3, <2>1, <2>3, <2>4, <2>5, <2>6, <2>8, <3>1, TakeOfferEffect, BrokerTypes, BegunFacts
  <2>9. QED
    BY <2>7, <2>8
<1>7. CASE PushAnswer
  <2>1. PICK m : m = Msg(serving.at, roomID[serving.j], serving.j, 0, 0)
    OBVIOUS
  <2>2. /\ serving.at \in {"answer", "restartAnswer"} /\ Push(m) /\ serving' = Idle
        /\ broker' = [broker EXCEPT ![serving.j].sig = "stable"]
        /\ UNCHANGED <<participant, refused, renegs, renegCount, short>>
    BY <1>7, <2>1, Sigs DEF PushAnswer
  <2>3. serving.j \in Join /\ serving.j <= Top
    BY <2>2, BrokerTypes
  <2>4. m \in Message
    BY <2>1, <2>2, <2>3, MsgType, Numbers, BegunFacts
  <2>5. up' = up /\ down' \in Seq(Message) /\ Losses' /\ spent' \in Spent /\ Top' = Top
    BY <1>1, <2>2, <2>4, Pushes
  <2>6. broker' \in [Join -> BrokerPeer]
    BY <1>1, <2>2, <2>3, Sigs, BrokerSigSet
  <2>7. QED
    BY <1>3, <2>2, <2>5, <2>6, BrokerTypes, BegunFacts
<1>8. CASE LeaveRoom
  <2>1. PICK r, p : r = Head(up).room /\ p = participant[r]
    OBVIOUS
  <2>2. /\ Serve("leave") /\ participant' = [participant EXCEPT ![r] = 0]
        /\ p = 0 => broker' = broker
        /\ p # 0 => broker' = [broker EXCEPT ![p].sig = "closed"]
        /\ UNCHANGED <<serving, down, refused, renegs, renegCount, short, spent,
                       missed, unjoined, unleft>>
    BY <1>8, <2>1 DEF LeaveRoom, lostVars
  <2>3. /\ up' \in Seq(Message) /\ \A i \in DOMAIN up' : up'[i].j <= Top
        /\ Head(up) \in Message
    BY <1>1, <2>2, Serves
  <2>4. r \in Room /\ p \in 0 .. MaxJoin
    BY <2>1, <2>3, MessageType, BrokerTypes
  <2>5. participant' \in [Room -> 0 .. MaxJoin] /\ \A q \in Room : participant'[q] <= Top
    BY <2>2, <2>4, BrokerTypes, BegunFacts, Numbers
  <2>6. p # 0 => p \in Join
    BY <2>4, Numbers
  <2>7. broker' \in [Join -> BrokerPeer]
    BY <1>1, <2>2, <2>6, Sigs, BrokerSigSet, BrokerTypes
  <2>8. Losses' /\ Top' = Top
    BY <2>2, BrokerTypes DEF Losses, Top
  <2>9. QED
    BY <1>3, <2>2, <2>3, <2>5, <2>7, <2>8, BrokerTypes, BegunFacts
<1>9. CASE ApplyAnswer
  <2>1. PICK p : p = participant[Head(up).room]
    OBVIOUS
  <2>2. /\ Serve("renegAnswer")
        /\ UNCHANGED <<serving, participant, down, renegs, renegCount, short, spent,
                       missed, unjoined, unleft>>
        /\ \/ p # 0 /\ broker' = [broker EXCEPT ![p].sig = "stable"] /\ refused' = refused
           \/ broker' = broker /\ refused' = refused \cup ({p} \ {0})
    BY <1>9, <2>1, Sigs DEF ApplyAnswer, getVoiceParticipant, lostVars
  <2>3. /\ up' \in Seq(Message) /\ \A i \in DOMAIN up' : up'[i].j <= Top
        /\ Head(up) \in Message
    BY <1>1, <2>2, Serves
  <2>4. p \in 0 .. MaxJoin
    BY <2>1, <2>3, MessageType, BrokerTypes
  <2>5. p # 0 => p \in Join
    BY <2>4, Numbers
  <2>6. refused' \subseteq Join
    BY <2>2, <2>5, BrokerTypes
  <2>7. broker' \in [Join -> BrokerPeer]
    BY <1>1, <2>2, <2>5, Sigs, BrokerSigSet, BrokerTypes
  <2>8. Losses' /\ Top' = Top
    BY <2>2, BrokerTypes DEF Losses, Top
  <2>9. QED
    BY <1>3, <2>2, <2>3, <2>6, <2>7, <2>8, BrokerTypes, BegunFacts
<1>10. CASE DropFrame
  <2>1. /\ Serve(Head(up).kind) /\ Event /\ Lose({Head(up)})
        /\ UNCHANGED <<serving, participant, broker, renegs, renegCount, short, down, refused>>
    BY <1>10 DEF DropFrame, brokerVars
  <2>2. /\ up' \in Seq(Message) /\ \A i \in DOMAIN up' : up'[i].j <= Top
        /\ {Head(up)} \in SUBSET Message
    BY <1>1, <2>1, Serves
  <2>3. Losses' /\ spent' \in Spent /\ Top' = Top
    BY <1>1, <2>1, <2>2, Loses, Events
  <2>4. QED
    BY <1>3, <2>1, <2>2, <2>3, BrokerTypes, BegunFacts
<1>11. CASE JoinFails
  <2>1. PICK m : m = Head(up)
    OBVIOUS
  <2>2. /\ Serve("join") /\ Event /\ unjoined' = unjoined \cup {m.j}
        /\ UNCHANGED <<serving, participant, down, refused, missed, unleft>>
    BY <1>11, <2>1 DEF JoinFails
  <2>3. PICK p \in {0, participant[m.room]} :
          broker' = Wired(p) /\ short' = short \ {p} /\ WireOwn(p)
    BY <1>11, <2>1 DEF JoinFails
  <2>4. m \in Message /\ up' \in Seq(Message) /\ \A i \in DOMAIN up' : up'[i].j <= Top
    BY <1>1, <2>1, <2>2, Serves
  <2>5. m.room \in Room /\ m.j \in Join
    BY <2>4, MessageType
  <2>6. p \in 0 .. MaxJoin /\ p <= Top
    BY <2>3, <2>5, BrokerTypes, BegunFacts, Numbers
  <2>7. /\ broker' \in [Join -> BrokerPeer] /\ renegs' \subseteq Reneg
        /\ (\A q \in renegs' : q.j <= Top) /\ renegCount' \in Nat
    BY <2>3, <2>6, WiredTypes
  <2>8. Losses' /\ short' \subseteq Join
    BY <2>2, <2>3, <2>5, BrokerTypes DEF Losses
  <2>9. spent' \in Spent /\ Top' = Top
    BY <1>1, <2>2, Events
  <2>10. QED
    BY <1>3, <2>2, <2>4, <2>7, <2>8, <2>9, BrokerTypes, BegunFacts
<1>12. CASE AnswerFails
  <2>1. /\ serving.at \in {"answer", "restartAnswer"} /\ Event /\ serving' = Idle
        /\ refused' = refused \cup {serving.j}
        /\ UNCHANGED <<participant, broker, renegs, renegCount, short, up, down,
                       missed, unjoined, unleft>>
    BY <1>12 DEF AnswerFails, wire, lostVars
  <2>2. refused' \subseteq Join
    BY <2>1, BrokerTypes
  <2>3. Losses' /\ spent' \in Spent /\ Top' = Top
    BY <1>1, <2>1, BrokerTypes, Events DEF Losses
  <2>4. QED
    BY <1>3, <2>1, <2>2, <2>3, BrokerTypes, BegunFacts
<1>13. QED
  BY <1>4, <1>5, <1>6, <1>7, <1>8, <1>9, <1>10, <1>11, <1>12

(* Renegotiation, and the loss of the WebSocket. *)
LEMMA RenegSound ==
  ASSUME Sound,
         \/ \E r \in Room : TracksChange(r)
         \/ \E n \in renegs : CreateOffer(n) \/ PushOffer(n)
  PROVE  Sound'
<1>1. TypeOK /\ Begun
  BY BegunFacts
<1>2. BrokerOnly /\ UNCHANGED <<serving, participant, up>>
  BY DEF TracksChange, CreateOffer, PushOffer, Push, BrokerOnly, wire
<1>3. ASSUME refused' \subseteq Join, down' \in Seq(Message), broker' \in [Join -> BrokerPeer],
             renegs' \subseteq Reneg, spent' \in Spent, Top' = Top,
             renegCount' \in Nat, short' \subseteq Join, Losses',
             \A n \in renegs' : n.j <= Top
      PROVE  Sound'
  BY <1>1, <1>2, <1>3, BrokerTypes, BrokerStep, BegunFacts
<1>4. ASSUME NEW r \in Room, TracksChange(r) PROVE Sound'
  <2>1. PICK p : p = participant[r]
    OBVIOUS
  <2>2. /\ p # 0 /\ Event /\ Renegotiate(p)
        /\ broker' = [broker EXCEPT ![p].tracks = @ + 1]
        /\ short' = short \ {p}
        /\ UNCHANGED <<refused, down, missed, unjoined, unleft>>
    BY <1>4, <2>1 DEF TracksChange, wire, lostVars
  <2>3. p \in Join /\ p <= Top
    BY <2>1, <2>2, BrokerTypes, BegunFacts, Numbers
  <2>4. 1 \in Nat /\ broker \in [Join -> BrokerPeer]
    BY BrokerTypes
  <2>5. broker' \in [Join -> BrokerPeer]
    BY <2>2, <2>3, <2>4, TracksSet
  <2>6. /\ renegs' \subseteq Reneg /\ (\A n \in renegs' : n.j <= Top)
        /\ renegCount' \in Nat
    BY <2>2, <2>3, RenegTypes
  <2>7. spent' \in Spent /\ Top' = Top /\ Losses' /\ short' \subseteq Join
    BY <1>1, <2>2, Events, BrokerTypes DEF Losses
  <2>8. QED
    BY <1>3, <2>2, <2>5, <2>6, <2>7, BrokerTypes
<1>5. ASSUME NEW n \in renegs, CreateOffer(n) PROVE Sound'
  <2>1. n \in Reneg /\ n.j \in Join /\ n.j <= Top
        /\ [n EXCEPT !.at = "gather"] \in Reneg /\ [n EXCEPT !.at = "gather"].j = n.j
    BY BrokerTypes, BegunFacts DEF Reneg
  <2>2. PICK b : b = [broker[n.j] EXCEPT !.sig = "have-local-offer", !.ver = broker[n.j].tracks]
    OBVIOUS
  <2>3. /\ UNCHANGED <<down, renegCount, short, missed, unjoined, unleft>>
        /\ Event \/ UNCHANGED spent
        /\ \/ /\ broker' = [broker EXCEPT ![n.j] = b] /\ refused' = refused
              /\ renegs' = (renegs \ {n}) \cup {[n EXCEPT !.at = "gather"]}
           \/ /\ renegs' = renegs \ {n} /\ refused' = refused \cup {n.j} /\ broker' = broker
    <3>1. [broker EXCEPT ![n.j].sig = "have-local-offer", ![n.j].ver = broker[n.j].tracks]
          = [broker EXCEPT ![n.j] = b]
      BY <2>1, <2>2, BrokerTypes
    <3>2. QED
      BY <1>5, <3>1, Sigs DEF CreateOffer, wire, lostVars
  <2>4. b \in BrokerPeer
    <3>1. broker[n.j] \in BrokerPeer /\ "have-local-offer" \in Signalling
      BY <2>1, Sigs, BrokerTypes
    <3>2. QED
      BY <2>2, <3>1 DEF BrokerPeer
  <2>5. broker' \in [Join -> BrokerPeer]
    BY <2>1, <2>3, <2>4, BrokerTypes
  <2>6. renegs' \subseteq Reneg /\ (\A m \in renegs' : m.j <= Top) /\ refused' \subseteq Join
    BY <2>1, <2>3, BrokerTypes, BegunFacts
  <2>7. Top' = Top /\ spent' \in Spent /\ Losses'
    BY <1>1, <2>3, Events, BrokerTypes DEF Losses
  <2>8. QED
    BY <1>3, <2>3, <2>5, <2>6, <2>7, BrokerTypes
<1>6. ASSUME NEW n \in renegs, PushOffer(n) PROVE Sound'
  <2>1. PICK m : m = Msg("offer", roomID[n.j], n.j, broker[n.j].ver, n.g)
    OBVIOUS
  <2>2. Push(m) /\ renegs' = renegs \ {n} /\ UNCHANGED <<broker, refused, renegCount, short>>
    BY <1>6, <2>1 DEF PushOffer
  <2>3. n.j \in Join /\ n.j <= Top /\ n.g \in Nat
    BY BrokerTypes, BegunFacts DEF Reneg
  <2>4. broker[n.j].ver \in Nat /\ roomID[n.j] \in Room
    BY <2>3, BrokerTypes, BegunFacts DEF BrokerPeer
  <2>5. m \in Message
    BY <2>1, <2>3, <2>4, MsgType
  <2>6. down' \in Seq(Message) /\ Top' = Top /\ spent' \in Spent /\ Losses'
    BY <1>1, <2>2, <2>5, Pushes
  <2>7. QED
    BY <1>1, <1>3, <2>2, <2>6, BrokerTypes, BegunFacts
<1>7. QED
  BY <1>4, <1>5, <1>6

LEMMA LoseSound ==
  ASSUME Sound, LoseLink
  PROVE  Sound'
<1>1. TypeOK /\ Begun
  BY BegunFacts
<1>2. /\ UNCHANGED <<ui, roomID, activeSession, handler, answerCh, iceRestartCh, client, incoming,
                     answering, restart, applied, gaveUp, refused, serving,
                     participant, broker, renegs, renegCount, short>>
      /\ link' = FALSE /\ up' = <<>> /\ down' = <<>> /\ Event
      /\ Lose({up[i] : i \in DOMAIN up} \cup {down[i] : i \in DOMAIN down})
  BY DEF LoseLink, clientVars, brokerVars
<1>3. up' \in Seq(Message) /\ down' \in Seq(Message) /\ DOMAIN up' = {}
  BY <1>2
<1>4. {up[i] : i \in DOMAIN up} \cup {down[i] : i \in DOMAIN down} \in SUBSET Message
  BY <1>1, Types
<1>5. Losses' /\ spent' \in Spent /\ Top' = Top
  BY <1>1, <1>2, <1>4, Loses, Events
<1>6. TypeOK'
  BY <1>1, <1>2, <1>3, <1>5 DEF TypeOK, Losses, Spent
<1>7. QED
  BY <1>2, <1>3, <1>5, <1>6, BegunFacts, BesideUi

-----------------------------------------------------------------------------
(* The same of Join and Leave. *)

LEMMA UiTypes ==
  ASSUME Sound
  PROVE  /\ TypeOK /\ ui \in UiType /\ (ui.at = "idle" <=> ui.j = 0)
         /\ roomID \in [Join -> Room \cup {NoRoom}]
         /\ activeSession \in 0 .. MaxJoin /\ activeSession <= Top /\ ui.j <= Top
         /\ ui.j \in 0 .. MaxJoin
         /\ (ui.at # "idle" => ui.j \in Join /\ roomID[ui.j] \in Room)
         /\ (activeSession # 0 => activeSession \in Join)
         /\ answerCh \in [Join -> 0 .. MaxJoin] /\ applied \in [Join -> 0 .. MaxJoin]
         /\ client \in [Join -> Peer] /\ up \in Seq(Message) /\ spent \in Spent
         /\ gaveUp \subseteq Join /\ (\A g \in gaveUp : g <= Top)
         /\ Idle \in UiType /\ Idle.j = 0 /\ Idle.at = "idle"
         /\ Top \in Nat /\ 0 <= Top /\ link \in BOOLEAN /\ handler \in BOOLEAN
         /\ \A j \in Join : Top < j => client[j].sig = "none" /\ applied[j] = 0
<1>1. TypeOK /\ Begun
  BY BegunFacts
<1>2. Idle \in UiType /\ Idle.j = 0 /\ Idle.at = "idle"
  BY Numbers DEF Idle, UiType
<1>3. activeSession # 0 => activeSession \in Join
  BY <1>1, Types, Numbers
<1>4. Top \in Nat /\ 0 <= Top
  BY <1>1, Order
<1>5. /\ activeSession <= Top /\ ui.j <= Top /\ (\A g \in gaveUp : g <= Top)
      /\ \A j \in Join : Top < j => client[j].sig = "none" /\ applied[j] = 0
  BY <1>1 DEF Begun
<1>6. ui.j \in 0 .. MaxJoin /\ (ui.at # "idle" => ui.j \in Join /\ roomID[ui.j] \in Room)
  BY <1>1, <1>5, Order, BegunFacts
<1>7. QED
  BY <1>1, <1>2, <1>3, <1>4, <1>5, <1>6, Types, BegunFacts

(* What the user interface leaves alone. *)
UiOnly == /\ UNCHANGED <<iceRestartCh, incoming, answering, restart, brokerVars, link, down,
                         refused>>
          /\ Losses'

LEMMA UiStep ==
  ASSUME Sound, UiOnly, UNCHANGED <<roomID, spent>>,
         handler' \in BOOLEAN, ui' \in UiType, ui'.at = "idle" <=> ui'.j = 0,
         activeSession' \in 0 .. MaxJoin, answerCh' \in [Join -> 0 .. MaxJoin],
         applied' \in [Join -> 0 .. MaxJoin], client' \in [Join -> Peer],
         up' \in Seq(Message), gaveUp' \subseteq Join,
         \A j \in Join : Top < j => client'[j].sig = "none" /\ applied'[j] = 0,
         \A j \in Join : applied[j] # 0 => applied'[j] # 0,
         ui'.j <= Top, activeSession' <= Top,
         \A g \in gaveUp' : g <= Top,
         \A i \in DOMAIN up' : up'[i].j <= Top,
         UiInOrder', NoneForgotten'
  PROVE  Sound'
<1>1. /\ UNCHANGED <<roomID, spent, iceRestartCh, incoming, answering, restart, serving,
                     participant, broker, renegs, renegCount, short, link, down, refused>>
      /\ Top' = Top /\ Losses'
  BY DEF UiOnly, brokerVars, Top
<1>2. TypeOK'
  BY <1>1, BegunFacts DEF TypeOK, UiType, Peer, Losses
<1>3. Begun'
  BY <1>1, BegunFacts DEF Begun
<1>4. QED
  BY <1>2, <1>3 DEF Sound, Shape

LEMMA BeginJoinSound ==
  ASSUME Sound, NEW r \in Room, BeginJoin(r)
  PROVE  Sound'
<1>1. PICK j : j = spent.join + 1
  OBVIOUS
<1>2. /\ ui = Idle /\ j \in Join /\ activeSession = 0
      /\ spent' = [spent EXCEPT !.join = j] /\ ui' = [at |-> "offered", j |-> j]
      /\ roomID' = [roomID EXCEPT ![j] = r]
      /\ client' = [client EXCEPT ![j].sig = "have-local-offer"]
  BY <1>1 DEF BeginJoin
<1>3. UNCHANGED <<activeSession, handler, answerCh, iceRestartCh, incoming, answering, restart,
                  applied, gaveUp, serving, participant, broker, renegs, renegCount, short, link,
                  up, down, refused, missed, unjoined, unleft>>
  BY DEF BeginJoin, brokerVars, wire, lostVars
<1>4. /\ TypeOK /\ j \in Nat /\ j \in 0 .. MaxJoin /\ j # 0 /\ Top \in Nat /\ j = Top + 1
      /\ "have-local-offer" \in Signalling
  BY <1>1, <1>2, UiTypes, Numbers, Sigs DEF Top
<1>5. /\ client' \in [Join -> Peer] /\ client'[j].sig = "have-local-offer"
      /\ \A i \in Join : i # j => client'[i] = client[i]
  BY <1>2, <1>4, SigSet
<1>6. spent' \in Spent /\ Top' = Top + 1
  BY <1>2, <1>4, UiTypes DEF Spent, Top
<1>7. ui' \in UiType /\ ui'.at = "offered" /\ ui'.j = j
  BY <1>2, <1>4 DEF UiType
<1>8. roomID' \in [Join -> Room \cup {NoRoom}] /\ roomID'[j] = r
      /\ \A i \in Join : i # j => roomID'[i] = roomID[i]
  BY <1>2, UiTypes
<1>9. TypeOK'
  BY <1>3, <1>4, <1>5, <1>6, <1>7, <1>8 DEF TypeOK, UiType, Peer, Spent
<1>10. \A n \in Nat : (n <= Top => n <= Top + 1) /\ (n <= Top + 1 => n <= Top \/ n = j)
                      /\ (Top + 1 < n => Top < n /\ n # j)
  BY <1>4
<1>11. Begun'
  <2>1. \A i \in Join : i <= Top' => roomID'[i] \in Room
    BY <1>6, <1>8, <1>10, Numbers, BegunFacts
  <2>2. \A i \in Join : Top' < i => client'[i].sig = "none" /\ applied'[i] = 0
    BY <1>3, <1>5, <1>6, <1>10, Numbers, UiTypes
  <2>3. /\ \A i \in Join : restart'[i] # "none" => applied'[i] # 0
        /\ serving'.at # "idle" => serving'.j # 0
    BY <1>3, <1>6, BegunFacts
  <2>4. ui'.j <= Top' /\ activeSession' <= Top' /\ serving'.j <= Top'
    BY <1>2, <1>3, <1>4, <1>6, <1>7, <1>10, Order, BegunFacts
  <2>5. /\ \A q \in Room : participant[q] \in Nat /\ participant[q] <= Top
        /\ \A a \in answering : a.j \in Nat /\ a.j <= Top
        /\ \A n \in renegs : n.j \in Nat /\ n.j <= Top
        /\ \A i \in DOMAIN up : up[i].j \in Nat /\ up[i].j <= Top
        /\ \A g \in gaveUp : g \in Nat /\ g <= Top
    <3>1. \A q \in Room : participant[q] \in Nat
      BY <1>4, Types, Numbers
    <3>2. \A a \in answering : a.j \in Nat
      BY <1>4, Types, Numbers DEF Answering
    <3>3. \A n \in renegs : n.j \in Nat
      BY <1>4, Types, Numbers DEF Reneg
    <3>4. \A i \in DOMAIN up : up[i].j \in Nat
      BY <1>4, UiTypes, QueueTypes, MessageType
    <3>5. QED
      BY <3>1, <3>2, <3>3, <3>4, UiTypes, Numbers, BegunFacts
  <2>6. /\ \A q \in Room : participant'[q] <= Top'
        /\ \A a \in answering' : a.j <= Top'
        /\ \A n \in renegs' : n.j <= Top'
        /\ \A i \in DOMAIN up' : up'[i].j <= Top'
        /\ \A g \in gaveUp' : g <= Top'
    BY <1>3, <1>6, <1>10, <2>5
  <2>7. QED
    BY <2>1, <2>2, <2>3, <2>4, <2>6 DEF Begun
<1>12. UiInOrder'
  <2>1. Top < j
    BY <1>4
  <2>2. applied'[j] = 0
    BY <1>2, <1>3, <2>1, UiTypes
  <2>3. QED
    BY <1>2, <1>3, <1>4, <1>5, <1>6, <1>7, <2>2 DEF UiInOrder, Joining
<1>13. NoneForgotten'
  BY <1>2, <1>3, <1>5, <1>7, UiTypes, Numbers DEF NoneForgotten, Sound
<1>14. QED
  BY <1>9, <1>11, <1>12, <1>13 DEF Sound, Shape

LEMMA OrderFacts ==
  ASSUME Sound
  PROVE  /\ Joining => ui.j = Top /\ applied[ui.j] = 0 /\ client[ui.j].sig = "have-local-offer"
         /\ ui.at \in {"offered", "sent", "leaving"} => activeSession = 0
         /\ ui.at \in {"active", "waiting"} => activeSession = ui.j
         /\ \A j \in Join : client[j].sig \notin {"none", "closed"} => j \in {activeSession, ui.j}
BY DEF Sound, Shape, UiInOrder, NoneForgotten

LEMMA UiSteps ==
  ASSUME TypeOK, NEW at \in {"sent", "active", "waiting"}, ui.at # "idle",
         ui' = [ui EXCEPT !.at = at]
  PROVE  ui' \in UiType /\ ui'.at = at /\ ui'.j = ui.j /\ ui'.j # 0
BY Types DEF UiType

(* The peer connection of a call is closed. *)
LEMMA Closes ==
  ASSUME Sound, NEW j \in Join, j <= Top, client' = [client EXCEPT ![j].sig = "closed"]
  PROVE  /\ client' \in [Join -> Peer] /\ client'[j].sig = "closed"
         /\ \A i \in Join : i # j => client'[i] = client[i]
         /\ \A i \in Join : Top < i => client'[i].sig = "none"
<1>1. "closed" \in Signalling /\ TypeOK
  BY Sigs, UiTypes
<1>2. /\ client' \in [Join -> Peer] /\ client'[j].sig = "closed"
      /\ \A i \in Join : i # j => client'[i] = client[i]
  BY <1>1, SigSet
<1>3. ~(Top < j)
  BY UiTypes, Numbers
<1>4. QED
  BY <1>2, <1>3, UiTypes

LEMMA SendJoinSound ==
  ASSUME Sound, SendJoin
  PROVE  Sound'
<1>1. PICK j, m : j = ui.j /\ m = Msg("join", roomID[j], j, 0, 0)
  OBVIOUS
<1>2. /\ ui.at = "offered" /\ Send(m)
      /\ ui' = IF link THEN [ui EXCEPT !.at = "sent"] ELSE Idle
      /\ client' = IF link THEN client ELSE [client EXCEPT ![j].sig = "closed"]
      /\ UNCHANGED <<roomID, activeSession, handler, answerCh, applied, gaveUp, spent>>
  BY <1>1 DEF SendJoin
<1>4. j \in Join /\ j <= Top /\ roomID[j] \in Room /\ TypeOK /\ activeSession = 0 /\ ui.at # "idle"
  BY <1>1, <1>2, UiTypes, OrderFacts
<1>5. m \in Message /\ m.j = j
  BY <1>1, <1>4, MsgType, Numbers
<1>6. up' \in Seq(Message) /\ Losses' /\ \A i \in DOMAIN up' : up'[i].j <= Top
  BY <1>2, <1>4, <1>5, Sends, BegunFacts
<1>3. UiOnly
  BY <1>6 DEF SendJoin, Send, UiOnly
<1>7. CASE link
  <2>1. ui' = [ui EXCEPT !.at = "sent"] /\ client' = client
    BY <1>2, <1>7
  <2>2. ui' \in UiType /\ ui'.at = "sent" /\ ui'.j = j /\ j # 0
    BY <1>1, <1>4, <2>1, UiSteps
  <2>3. UiInOrder' /\ NoneForgotten'
    BY <1>1, <1>2, <1>4, <2>1, <2>2, OrderFacts, UiTypes
       DEF UiInOrder, NoneForgotten, Joining, Top
  <2>4. QED
    BY <1>2, <1>3, <1>4, <1>6, <2>1, <2>2, <2>3, UiTypes, UiStep
<1>8. CASE ~link
  <2>1. ui' = Idle /\ client' = [client EXCEPT ![j].sig = "closed"]
    BY <1>2, <1>8
  <2>2. /\ client' \in [Join -> Peer] /\ client'[j].sig = "closed"
        /\ \A i \in Join : i # j => client'[i] = client[i]
        /\ \A i \in Join : Top < i => client'[i].sig = "none"
    BY <1>4, <2>1, Closes
  <2>3. UiInOrder'
    BY <2>1, UiTypes DEF UiInOrder, Joining
  <2>4. NoneForgotten'
    BY <1>1, <1>4, <2>2, OrderFacts, Numbers DEF NoneForgotten
  <2>5. QED
    BY <1>2, <1>3, <1>4, <1>6, <2>1, <2>2, <2>3, <2>4, UiTypes, UiStep
<1>9. QED
  BY <1>7, <1>8

LEMMA ActivateSound ==
  ASSUME Sound, Activate \/ Register
  PROVE  Sound'
<1>1. /\ UiOnly /\ UNCHANGED <<roomID, answerCh, client, applied, gaveUp, spent, up>>
      /\ handler' \in BOOLEAN /\ Top' = Top
  BY UiTypes, BegunFacts DEF Activate, Register, UiOnly, wire, Top, lostVars, Losses
<1>2. /\ ui.at \in {"sent", "active"} /\ activeSession' = ui.j
      /\ \/ ui' = [ui EXCEPT !.at = "active"]
         \/ ui' = [ui EXCEPT !.at = "waiting"]
  BY OrderFacts DEF Activate, Register
<1>3. ui' \in UiType /\ ui'.at \in {"active", "waiting"} /\ ui'.j = ui.j /\ ui.j # 0
  BY <1>2, UiTypes, UiSteps
<1>4. ui.j <= Top /\ ui.j \in Join /\ ui.j \in 0 .. MaxJoin
  BY <1>2, UiTypes
<1>5. activeSession \in {0, ui.j}
  BY <1>2, OrderFacts
<1>6. Joining
  BY <1>2 DEF Joining
<1>7. UiInOrder'
  BY <1>1, <1>2, <1>3, <1>4, <1>6, OrderFacts DEF UiInOrder, Joining
<1>8. NoneForgotten'
  BY <1>1, <1>2, <1>3, <1>5, OrderFacts, Numbers DEF NoneForgotten
<1>9. QED
  BY <1>1, <1>2, <1>3, <1>4, <1>7, <1>8, UiTypes, BegunFacts, UiStep

(* Leaving a call begins: the active session's or the running Join's. *)
LEMMA BeginLeaveSound ==
  ASSUME Sound, NEW j \in Join, j <= Top, BeginLeave(j), UiOnly,
         UNCHANGED <<roomID, spent, handler, applied, client, up>>,
         answerCh' \in [Join -> 0 .. MaxJoin],
         gaveUp' \subseteq Join, \A g \in gaveUp' : g <= Top,
         activeSession = j, ui.j \in {0, j}
  PROVE  Sound'
<1>1. ui' = [at |-> "leaving", j |-> j] /\ activeSession' = 0
  BY DEF BeginLeave
<1>2. ui' \in UiType /\ ui'.at = "leaving" /\ ui'.j = j /\ j # 0
  BY <1>1, Numbers DEF UiType
<1>3. UiInOrder'
  BY <1>1, <1>2 DEF UiInOrder, Joining
<1>4. NoneForgotten'
  BY <1>1, <1>2, OrderFacts, Numbers DEF NoneForgotten
<1>5. QED
  BY <1>1, <1>2, <1>3, <1>4, Numbers, UiTypes, BegunFacts, UiStep

LEMMA TakeAnswerSound ==
  ASSUME Sound, TakeAnswer \/ Timeout \/ \E r \in Room : Leave(r)
  PROVE  Sound'
<1>1. CASE TakeAnswer
  <2>1. PICK j : j = ui.j
    OBVIOUS
  <2>2. /\ ui.at = "waiting" /\ answerCh[j] # 0 /\ answerCh' = [answerCh EXCEPT ![j] = 0]
        /\ UNCHANGED <<roomID, handler, gaveUp, up, spent>> /\ UiOnly
    BY <1>1, <2>1, BegunFacts DEF TakeAnswer, UiOnly, wire, lostVars, Losses
  <2>3. j \in Join /\ j <= Top /\ activeSession = j /\ Joining
    BY <2>1, <2>2, UiTypes, OrderFacts DEF Joining
  <2>4. answerCh' \in [Join -> 0 .. MaxJoin]
    BY <2>2, UiTypes, Numbers
  <2>5. CASE BeginLeave(j) /\ UNCHANGED <<client, applied>>
    BY <2>1, <2>2, <2>3, <2>4, <2>5, UiTypes, BeginLeaveSound
  <2>6. CASE /\ client' = [client EXCEPT ![j].sig = Becomes.remoteAnswer]
             /\ applied' = [applied EXCEPT ![j] = answerCh[j]]
             /\ ui' = Idle
             /\ UNCHANGED activeSession
    <3>1. client' = [client EXCEPT ![j].sig = "stable"] /\ "stable" \in Signalling
      BY <2>6, Sigs
    <3>2. /\ client' \in [Join -> Peer]
          /\ \A i \in Join : i # j => client'[i] = client[i]
      BY <2>3, <3>1, UiTypes, SigSet
    <3>3. /\ applied' \in [Join -> 0 .. MaxJoin] /\ applied'[j] # 0
          /\ \A i \in Join : i # j => applied'[i] = applied[i]
      BY <2>2, <2>3, <2>6, UiTypes
    <3>4. ~(Top < j)
      BY <2>3, UiTypes, Numbers
    <3>5. \A i \in Join : Top < i => client'[i].sig = "none" /\ applied'[i] = 0
      BY <3>2, <3>3, <3>4, UiTypes
    <3>6. \A i \in Join : applied[i] # 0 => applied'[i] # 0
      BY <3>3
    <3>7. UiInOrder'
      BY <2>6, UiTypes DEF UiInOrder, Joining
    <3>8. NoneForgotten'
      BY <2>1, <2>3, <2>6, <3>2, OrderFacts DEF NoneForgotten
    <3>9. QED
      BY <2>2, <2>3, <2>4, <2>6, <3>2, <3>3, <3>5, <3>6, <3>7, <3>8, UiTypes, BegunFacts, UiStep
  <2>7. QED
    BY <1>1, <2>1, <2>5, <2>6 DEF TakeAnswer
<1>2. CASE Timeout
  <2>1. PICK j : j = ui.j
    OBVIOUS
  <2>2. /\ ui.at = "waiting" /\ BeginLeave(j) /\ gaveUp' = gaveUp \cup {j}
        /\ UNCHANGED <<roomID, handler, answerCh, client, applied, up, spent>> /\ UiOnly
    BY <1>2, <2>1, BegunFacts DEF Timeout, UiOnly, wire, lostVars, Losses
  <2>3. j \in Join /\ j <= Top /\ activeSession = j
    BY <2>1, <2>2, UiTypes, OrderFacts
  <2>4. gaveUp' \subseteq Join /\ \A g \in gaveUp' : g <= Top
    BY <2>2, <2>3, UiTypes
  <2>5. QED
    BY <2>1, <2>2, <2>3, <2>4, UiTypes, BeginLeaveSound
<1>3. ASSUME NEW r \in Room, Leave(r) PROVE Sound'
  <2>1. PICK j : j = activeSession
    OBVIOUS
  <2>2. /\ ui = Idle /\ j # 0 /\ BeginLeave(j)
        /\ UNCHANGED <<roomID, handler, answerCh, client, applied, gaveUp, up, spent>> /\ UiOnly
    BY <1>3, <2>1, BegunFacts DEF Leave, UiOnly, wire, lostVars, Losses
  <2>3. j \in Join /\ j <= Top /\ ui.j = 0
    BY <2>1, <2>2, UiTypes
  <2>4. QED
    BY <2>1, <2>2, <2>3, UiTypes, BeginLeaveSound
<1>4. QED
  BY <1>1, <1>2, <1>3

LEMMA EndLeaveSound ==
  ASSUME Sound, EndLeave
  PROVE  Sound'
<1>1. PICK j, m : j = ui.j /\ m = Msg("leave", roomID[j], j, 0, 0)
  OBVIOUS
<1>2. /\ ui.at = "leaving" /\ Send(m) /\ ui' = Idle
      /\ client' = [client EXCEPT ![j].sig = "closed"]
      /\ UNCHANGED <<roomID, activeSession, handler, answerCh, applied, gaveUp, spent>>
  BY <1>1 DEF EndLeave
<1>4. j \in Join /\ j <= Top /\ roomID[j] \in Room /\ TypeOK /\ activeSession = 0
  BY <1>1, <1>2, UiTypes, OrderFacts
<1>5. m \in Message /\ m.j = j
  BY <1>1, <1>4, MsgType, Numbers
<1>6. up' \in Seq(Message) /\ Losses' /\ \A i \in DOMAIN up' : up'[i].j <= Top
  BY <1>2, <1>4, <1>5, Sends, BegunFacts
<1>3. UiOnly
  BY <1>6 DEF EndLeave, Send, UiOnly
<1>7. /\ client' \in [Join -> Peer] /\ client'[j].sig = "closed"
      /\ \A i \in Join : i # j => client'[i] = client[i]
      /\ \A i \in Join : Top < i => client'[i].sig = "none"
  BY <1>2, <1>4, Closes
<1>8. UiInOrder'
  BY <1>2, UiTypes DEF UiInOrder, Joining
<1>9. NoneForgotten'
  BY <1>1, <1>4, <1>7, OrderFacts, Numbers DEF NoneForgotten
<1>10. QED
  BY <1>2, <1>3, <1>4, <1>6, <1>7, <1>8, <1>9, UiTypes, UiStep

LEMMA NextSound ==
  ASSUME Sound, [Next]_vars
  PROVE  Sound'
<1>1. CASE Next
  <2>1. ASSUME NEW r \in Room, BeginJoin(r) \/ Leave(r) \/ TracksChange(r) PROVE Sound'
    BY <2>1, BeginJoinSound, TakeAnswerSound, RenegSound
  <2>2. ASSUME NEW j \in Join, ConnectionFails(j) PROVE Sound'
    BY <2>2, RestartSound
  <2>3. CASE Ui
    BY <2>3, SendJoinSound, ActivateSound, TakeAnswerSound, EndLeaveSound DEF Ui
  <2>4. CASE Goroutines
    BY <2>4, IncomingSound, AnsweringSound, RestartSound DEF Goroutines
  <2>5. CASE Broker
    BY <2>5, HandlerSound, RenegSound DEF Broker
  <2>6. CASE LoseLink
    BY <2>6, LoseSound
  <2>7. QED
    BY <1>1, <2>1, <2>2, <2>3, <2>4, <2>5, <2>6 DEF Next
<1>2. CASE UNCHANGED vars
  <2>1. /\ UNCHANGED <<ui, roomID, activeSession, handler, answerCh, iceRestartCh, client, incoming,
                       answering, restart, applied, gaveUp, serving, participant, broker, renegs,
                       renegCount, short, link, up, down, spent, refused, missed, unjoined,
                       unleft>>
        /\ Top' = Top
    BY <1>2 DEF vars, clientVars, brokerVars, wire, lostVars, Top
  <2>2. TypeOK'
    BY <2>1, BegunFacts DEF TypeOK
  <2>3. QED
    BY <2>1, <2>2, BegunFacts, BesideUi
<1>3. QED
  BY <1>1, <1>2

-----------------------------------------------------------------------------
(* Where the answer to a join is. *)

LEMMA JsAppend ==
  ASSUME NEW q \in Seq(Message), NEW m \in Message, NEW k
  PROVE  /\ m.kind # k => /\ Js(Append(q, m), k) = Js(q, k)
                          /\ Only(q, k) => Only(Append(q, m), k)
         /\ m.kind = k => /\ Js(Append(q, m), k) = Js(q, k) \cup {m.j}
                          /\ Js(q, k) = {} => Only(Append(q, m), k)
<1>1. PICK p, n : p = Append(q, m) /\ n = Len(q) + 1
  OBVIOUS
<1>2. /\ DOMAIN p = DOMAIN q \cup {n} /\ n \notin DOMAIN q /\ p[n] = m
      /\ \A i \in DOMAIN q : p[i] = q[i]
  BY <1>1, QueueTypes
<1>3. CASE m.kind # k
  <2>1. Js(p, k) = Js(q, k)
    BY <1>2, <1>3 DEF Js
  <2>2. Only(q, k) => Only(p, k)
    BY <1>2, <1>3 DEF Only
  <2>3. QED
    BY <1>1, <1>3, <2>1, <2>2
<1>4. CASE m.kind = k
  <2>1. Js(p, k) = Js(q, k) \cup {m.j}
    BY <1>2, <1>4 DEF Js
  <2>2. Js(q, k) = {} => \A i \in DOMAIN q : q[i].kind # k
    BY DEF Js
  <2>3. Js(q, k) = {} => Only(p, k)
    BY <1>2, <1>4, <2>2 DEF Only
  <2>4. QED
    BY <1>1, <1>4, <2>1, <2>3
<1>5. QED
  BY <1>3, <1>4

LEMMA JsTail ==
  ASSUME NEW q \in Seq(Message), q # <<>>, NEW k
  PROVE  /\ Only(q, k) => Only(Tail(q), k)
         /\ Head(q).kind # k => Js(Tail(q), k) = Js(q, k)
         /\ Head(q).kind = k => /\ Js(Tail(q), k) \subseteq Js(q, k)
                                /\ Head(q).j \in Js(q, k)
                                /\ Only(q, k) => Js(Tail(q), k) = {}
<1>1. PICK p : p = Tail(q)
  OBVIOUS
<1>2. /\ Head(q) = q[1] /\ 1 \in DOMAIN q /\ Head(q) \in Message
      /\ \A i \in DOMAIN p : p[i] = q[i + 1] /\ i + 1 \in DOMAIN q /\ i + 1 # 1
      /\ \A i \in DOMAIN q : i # 1 => i - 1 \in DOMAIN p /\ p[i - 1] = q[i] /\ i - 1 + 1 = i
      /\ DOMAIN p \subseteq Nat
  <2>1. Head(q) \in Message
    OBVIOUS
  <2>2. QED
    BY <1>1, <2>1, QueueTypes
<1>3. Only(q, k) => Only(p, k)
  <2>1. ASSUME Only(q, k), NEW i \in DOMAIN p, NEW n \in DOMAIN p, p[i].kind = k, p[n].kind = k
        PROVE  i = n
    <3>1. i + 1 = n + 1
      BY <1>2, <2>1 DEF Only
    <3>2. i \in Nat /\ n \in Nat
      BY <1>2
    <3>3. QED
      BY <3>1, <3>2
  <2>2. QED
    BY <2>1 DEF Only
<1>4. Js(p, k) \subseteq Js(q, k)
  <2>1. SUFFICES ASSUME NEW j \in Js(p, k) PROVE j \in Js(q, k)
    OBVIOUS
  <2>2. PICK i \in DOMAIN p : p[i].kind = k /\ p[i].j = j
    BY DEF Js
  <2>3. i + 1 \in DOMAIN q /\ q[i + 1].kind = k /\ q[i + 1].j = j
    BY <1>2, <2>2
  <2>4. QED
    BY <2>3 DEF Js
<1>5. CASE Head(q).kind # k
  <2>1. ASSUME NEW j \in Js(q, k) PROVE j \in Js(p, k)
    <3>1. PICK i \in DOMAIN q : q[i].kind = k /\ q[i].j = j
      BY DEF Js
    <3>2. i - 1 \in DOMAIN p /\ p[i - 1].kind = k /\ p[i - 1].j = j
      BY <1>2, <1>5, <3>1
    <3>3. QED
      BY <3>2 DEF Js
  <2>2. QED
    BY <1>1, <1>3, <1>4, <1>5, <2>1
<1>6. CASE Head(q).kind = k
  <2>1. Head(q).j \in Js(q, k)
    BY <1>2, <1>6 DEF Js
  <2>2. ASSUME Only(q, k) PROVE Js(p, k) = {}
    <3>1. \A i \in DOMAIN p : p[i].kind # k
      BY <1>2, <1>6, <2>2 DEF Only
    <3>2. QED
      BY <3>1 DEF Js
  <2>3. QED
    BY <1>1, <1>3, <1>4, <1>6, <2>1, <2>2
<1>7. QED
  BY <1>5, <1>6

(* Steps of the queues that concern no answer. *)
Still(q, p, k) ==
  \/ p = q
  \/ \E m \in Message : m.kind # k /\ p = Append(q, m)
  \/ q # <<>> /\ Head(q).kind # k /\ p = Tail(q)

LEMMA StillSame ==
  ASSUME NEW q \in Seq(Message), NEW p, NEW k, Still(q, p, k)
  PROVE  Js(p, k) = Js(q, k) /\ (Only(q, k) => Only(p, k))
<1>1. CASE p = q
  BY <1>1
<1>2. ASSUME NEW m \in Message, m.kind # k, p = Append(q, m)
      PROVE  Js(p, k) = Js(q, k) /\ (Only(q, k) => Only(p, k))
  BY <1>2, JsAppend
<1>3. CASE q # <<>> /\ Head(q).kind # k /\ p = Tail(q)
  BY <1>3, JsTail
<1>4. QED
  BY <1>1, <1>2, <1>3 DEF Still

LEMMA AnswersShrink ==
  ASSUME Answers, gaveUp' = gaveUp, Top' = Top, Waiting => Waiting',
         Awaited' \subseteq Awaited, gaveUp = {} => Single'
  PROVE  Answers'
BY DEF Answers, Excused

LEMMA AnswersSame ==
  ASSUME Answers, gaveUp' = gaveUp, Top' = Top, Waiting => Waiting',
         up \in Seq(Message), down \in Seq(Message),
         Still(up, up', "join"), Still(down, down', "answer"),
         Made' = Made, Handed' = Handed, answerCh' = answerCh
  PROVE  Answers'
<1>1. /\ Js(up', "join") = Js(up, "join") /\ (Only(up, "join") => Only(up', "join"))
      /\ Js(down', "answer") = Js(down, "answer")
      /\ (Only(down, "answer") => Only(down', "answer"))
  BY StillSame
<1>2. InCh' = InCh
  BY DEF InCh
<1>3. Awaited' = Awaited
  BY <1>1, <1>2 DEF Awaited
<1>4. \A n \in 1 .. 5 : Stage(n)' <=> Stage(n)
  BY <1>1, <1>2 DEF Stage
<1>5. gaveUp = {} => Single'
  BY <1>1, <1>2, <1>4 DEF Answers, Single
<1>6. QED
  BY <1>3, <1>5, AnswersShrink

(* With one answer under way, and at stage n, there is none elsewhere. *)
LEMMA Elsewhere ==
  ASSUME Single, NEW n \in 1 .. 5, Stage(n)
  PROVE  /\ n # 1 => Js(up, "join") = {}
         /\ n # 2 => Made = {}
         /\ n # 3 => Js(down, "answer") = {}
         /\ n # 4 => Handed = {}
         /\ n # 5 => InCh = {}
<1>1. \A a \in 1 .. 5 : Stage(a) => a = n
  BY DEF Single
<1>2. 1 \in 1 .. 5 /\ 2 \in 1 .. 5 /\ 3 \in 1 .. 5 /\ 4 \in 1 .. 5 /\ 5 \in 1 .. 5
  OBVIOUS
<1>3. QED
  BY <1>1, <1>2 DEF Stage

(* A single stage makes Single. *)
LEMMA OnlyNone ==
  ASSUME NEW q, NEW k, Js(q, k) = {}
  PROVE  Only(q, k)
BY DEF Js, Only

(* Most steps leave every answer where it is. *)
LEMMA RestingAnswers ==
  ASSUME Sound, Answers,
         \/ \E j \in Join : \/ ConnectionFails(j) \/ RestartOffer(j) \/ RestartSend(j)
                            \/ RestartEnd(j)
         \/ \E a \in answering : SetOffer(a) \/ SetAnswer(a) \/ SendAnswer(a)
         \/ Activate \/ Register \/ EndLeave
         \/ \E r \in Room : Leave(r) \/ TracksChange(r)
         \/ \E n \in renegs : CreateOffer(n) \/ PushOffer(n)
         \/ TakeRestartOffer \/ LeaveRoom \/ ApplyAnswer
         \/ \E m \in incoming : HandleRestartAnswer(m) \/ HandleOffer(m)
         \/ UNCHANGED vars
  PROVE  Answers'
<1>1. TypeOK /\ up \in Seq(Message) /\ down \in Seq(Message) /\ Begun
  BY BrokerTypes, BegunFacts
<1>2. ASSUME gaveUp' = gaveUp, spent'.join = spent.join, Waiting => Waiting', answerCh' = answerCh,
             Still(up, up', "join"), Still(down, down', "answer"),
             serving' = serving \/ (serving = Idle /\ serving'.at \in {"idle", "restartAnswer"}),
             incoming' = incoming \/ \E m \in incoming : /\ m.kind # "answer"
                                                         /\ incoming' = incoming \ {m}
      PROVE  Answers'
  <2>1. Made' = Made
    <3>1. CASE serving' = serving
      BY <3>1 DEF Made
    <3>2. CASE serving = Idle /\ serving'.at \in {"idle", "restartAnswer"}
      BY <3>2 DEF Made, Idle
    <3>3. QED
      BY <1>2, <3>1, <3>2
  <2>2. Handed' = Handed
    BY <1>2 DEF Handed
  <2>3. Top' = Top
    BY <1>2 DEF Top
  <2>4. QED
    BY <1>1, <1>2, <2>1, <2>2, <2>3, AnswersSame
<1>3. Still(up, up, "join") /\ Still(down, down, "answer")
  BY DEF Still
<1>4. ASSUME NEW m \in Message, m.kind # "join", Send(m)
      PROVE  Still(up, up', "join") /\ Still(down, down', "answer")
  BY <1>4 DEF Send, Still
<1>5. ASSUME NEW j \in Join,
             ConnectionFails(j) \/ RestartOffer(j) \/ RestartSend(j) \/ RestartEnd(j)
      PROVE  Answers'
  <2>0. spent'.join = spent.join
    <3>1. Event \/ UNCHANGED spent
      BY <1>5 DEF ConnectionFails, RestartOffer, RestartSend, RestartEnd
    <3>2. QED
      BY <1>1, <3>1, Events DEF Top
  <2>1. /\ UNCHANGED <<gaveUp, ui, answerCh, serving, incoming, down>>
        /\ spent'.join = spent.join /\ (Waiting => Waiting')
    BY <1>5, <2>0
       DEF ConnectionFails, RestartOffer, RestartSend, RestartEnd, Send, wire, Waiting, brokerVars
  <2>2. CASE UNCHANGED up
    BY <1>2, <1>3, <2>1, <2>2
  <2>3. CASE RestartSend(j)
    <3>1. PICK m : m = Msg("restart", roomID[j], j, 0, 0)
      OBVIOUS
    <3>2. applied[j] # 0 /\ Send(m)
      BY <2>3, <3>1, BegunFacts DEF RestartSend
    <3>3. roomID[j] \in Room
      BY <3>2, AppliedBegun
    <3>4. m \in Message /\ m.kind = "restart"
      BY <3>1, <3>3, MsgType, Numbers
    <3>5. QED
      BY <1>2, <1>4, <2>1, <3>2, <3>4
  <2>4. QED
    BY <1>5, <2>2, <2>3 DEF ConnectionFails, RestartOffer, RestartEnd, wire
<1>6. ASSUME NEW a \in answering, SetOffer(a) \/ SetAnswer(a) \/ SendAnswer(a)
      PROVE  Answers'
  <2>1. /\ UNCHANGED <<gaveUp, ui, answerCh, serving, incoming, down>>
        /\ spent'.join = spent.join /\ (Waiting => Waiting')
    BY <1>6 DEF SetOffer, SetAnswer, SendAnswer, Send, wire, Waiting, brokerVars
  <2>2. CASE UNCHANGED up
    BY <1>2, <1>3, <2>1, <2>2
  <2>3. CASE SendAnswer(a)
    <3>1. PICK m : m = Msg("renegAnswer", a.m.room, a.j, 0, a.m.g)
      OBVIOUS
    <3>2. a.m \in Message /\ a.j \in Join
      BY <1>1, Types DEF Answering
    <3>3. m \in Message /\ m.kind = "renegAnswer"
      BY <3>1, <3>2, MsgType, MessageType, Numbers
    <3>4. Send(m)
      BY <2>3, <3>1 DEF SendAnswer
    <3>5. QED
      BY <1>2, <1>4, <2>1, <3>3, <3>4
  <2>4. QED
    BY <1>6, <2>2, <2>3 DEF SetOffer, SetAnswer, wire
<1>7. CASE Activate \/ Register \/ EndLeave \/ \E r \in Room : Leave(r)
  <2>1. /\ UNCHANGED <<gaveUp, answerCh, serving, incoming, down>>
        /\ spent'.join = spent.join
    BY <1>7 DEF Activate, Register, EndLeave, Leave, Send, wire, brokerVars
  <2>2. Waiting => Waiting'
    <3>1. CASE Activate \/ Register
      <4>1. ui' = [ui EXCEPT !.at = "active"] \/ ui' = [ui EXCEPT !.at = "waiting"]
        BY <3>1 DEF Activate, Register
      <4>2. ui \in UiType
        BY <1>1, Types
      <4>3. ui'.at \in {"active", "waiting"}
        BY <4>1, <4>2 DEF UiType
      <4>4. QED
        BY <4>3 DEF Waiting
    <3>2. CASE EndLeave \/ \E r \in Room : Leave(r)
      BY <3>2 DEF EndLeave, Leave, Idle, Waiting
    <3>3. QED
      BY <1>7, <3>1, <3>2
  <2>3. CASE UNCHANGED up
    BY <1>2, <1>3, <2>1, <2>2, <2>3
  <2>4. CASE EndLeave
    <3>1. PICK m : m = Msg("leave", roomID[ui.j], ui.j, 0, 0)
      OBVIOUS
    <3>2. ui.j \in Join /\ roomID[ui.j] \in Room /\ Send(m)
      BY <2>4, <3>1, UiTypes DEF EndLeave
    <3>3. m \in Message /\ m.kind = "leave"
      BY <3>1, <3>2, MsgType, Numbers
    <3>4. QED
      BY <1>2, <1>4, <2>1, <2>2, <3>2, <3>3
  <2>5. QED
    BY <1>7, <2>3, <2>4 DEF Activate, Register, Leave, wire
<1>8. CASE \/ \E r \in Room : TracksChange(r)
           \/ \E n \in renegs : CreateOffer(n) \/ PushOffer(n)
  <2>1. /\ UNCHANGED <<gaveUp, ui, answerCh, serving, incoming, up>>
        /\ spent'.join = spent.join /\ (Waiting => Waiting')
    BY <1>1, <1>8, Types
       DEF TracksChange, CreateOffer, PushOffer, Push, wire, Waiting, clientVars, Spent, Event
  <2>2. CASE UNCHANGED down
    BY <1>2, <1>3, <2>1, <2>2
  <2>3. ASSUME NEW n \in renegs, PushOffer(n) PROVE Answers'
    <3>1. PICK m : m = Msg("offer", roomID[n.j], n.j, broker[n.j].ver, n.g)
      OBVIOUS
    <3>2. n.j \in Join /\ n.j <= Top /\ n.g \in Nat
      BY BrokerTypes, BegunFacts DEF Reneg
    <3>3. broker[n.j].ver \in Nat /\ roomID[n.j] \in Room
      BY <3>2, BrokerTypes, BegunFacts DEF BrokerPeer
    <3>4. m \in Message /\ m.kind = "offer" /\ Push(m)
      BY <2>3, <3>1, <3>2, <3>3, MsgType DEF PushOffer
    <3>5. Still(down, down', "answer")
      BY <3>4 DEF Push, Still
    <3>6. QED
      BY <1>2, <1>3, <2>1, <3>5
  <2>4. QED
    BY <1>8, <2>2, <2>3 DEF TracksChange, CreateOffer, wire
<1>9. CASE TakeRestartOffer \/ LeaveRoom \/ ApplyAnswer
  <2>1. /\ UNCHANGED <<gaveUp, ui, answerCh, incoming, down>>
        /\ (Waiting => Waiting')
    BY <1>9 DEF TakeRestartOffer, LeaveRoom, ApplyAnswer, clientVars, Waiting
  <2>2. PICK k \in {"restart", "leave", "renegAnswer"} : Serve(k)
    BY <1>9 DEF TakeRestartOffer, LeaveRoom, ApplyAnswer
  <2>3. Still(up, up', "join")
    BY <2>2 DEF Serve, Still
  <2>4. serving' = serving \/ (serving = Idle /\ serving'.at \in {"idle", "restartAnswer"})
    <3>1. CASE LeaveRoom \/ ApplyAnswer
      BY <3>1 DEF LeaveRoom, ApplyAnswer
    <3>2. CASE TakeRestartOffer
      <4>1. PICK p : p = getVoiceParticipant(Head(up).room)
        OBVIOUS
      <4>2. serving = Idle /\ (serving' = serving \/ TakeOffer(p, "restartAnswer"))
        BY <3>2, <4>1 DEF TakeRestartOffer, Serve
      <4>3. QED
        BY <4>2 DEF TakeOffer, Idle
    <3>3. QED
      BY <1>9, <3>1, <3>2
  <2>5. spent'.join = spent.join
    <3>1. Event => spent'.join = spent.join
      BY <1>1, Types DEF Event, Spent
    <3>2. CASE LeaveRoom \/ ApplyAnswer
      BY <3>2 DEF LeaveRoom, ApplyAnswer
    <3>3. CASE TakeRestartOffer
      BY <3>1, <3>3 DEF TakeRestartOffer, TakeOffer
    <3>4. QED
      BY <1>9, <3>2, <3>3
  <2>6. QED
    BY <1>2, <1>3, <2>1, <2>3, <2>4, <2>5
<1>10. ASSUME NEW m \in incoming, HandleRestartAnswer(m) \/ HandleOffer(m) PROVE Answers'
  <2>1. /\ UNCHANGED <<gaveUp, ui, answerCh, serving, up, down>>
        /\ spent'.join = spent.join /\ (Waiting => Waiting')
        /\ m.kind # "answer" /\ incoming' = incoming \ {m}
    BY <1>10 DEF HandleRestartAnswer, HandleOffer, wire, brokerVars, Waiting
  <2>2. QED
    BY <1>2, <1>3, <2>1
<1>11. CASE UNCHANGED vars
  <2>1. /\ UNCHANGED <<gaveUp, ui, answerCh, serving, up, down, incoming, spent>>
        /\ (Waiting => Waiting')
    BY <1>11 DEF vars, clientVars, brokerVars, wire, Waiting
  <2>2. QED
    BY <1>2, <1>3, <2>1
<1>12. QED
  BY <1>5, <1>6, <1>7, <1>8, <1>9, <1>10, <1>11

(* A Join begins: nothing moves, and its number is new. *)
LEMMA BeginJoinAnswers ==
  ASSUME Sound, Answers, NEW r \in Room, BeginJoin(r)
  PROVE  Answers'
<1>1. /\ UNCHANGED <<answerCh, incoming, gaveUp, serving, up, down>> /\ ~Waiting
      /\ spent'.join = spent.join + 1
  BY UiTypes DEF BeginJoin, brokerVars, wire, Waiting, Idle, Spent
<1>2. Awaited' = Awaited /\ Made' = Made /\ Handed' = Handed /\ InCh' = InCh
  BY <1>1 DEF Awaited, Made, Handed, InCh
<1>3. Single => Single'
  BY <1>1, <1>2 DEF Single, Stage
<1>4. \A k \in Awaited : k <= Top /\ Excused(k)
  BY <1>1 DEF Answers
<1>5. \A k \in Awaited : k \in Nat
  <2>1. \A j \in Js(up, "join") : j \in Nat
    BY UiTypes, QueueTypes, MessageType DEF Js
  <2>2. \A j \in Js(down, "answer") : j \in Nat
    BY BrokerTypes, QueueTypes, MessageType DEF Js
  <2>3. (\A j \in Made : j \in Nat) /\ (\A s \in InCh : answerCh[s] \in Nat)
    BY UiTypes, BrokerTypes, Numbers, Order DEF Made, InCh
  <2>4. \A m \in Handed : m.j \in Nat
    BY UiTypes, Types, MessageType DEF Handed
  <2>5. QED
    BY <2>1, <2>2, <2>3, <2>4 DEF Awaited
<1>6. \A k \in Awaited : k <= Top'
  BY <1>1, <1>4, <1>5, UiTypes DEF Top
<1>7. QED
  BY <1>1, <1>2, <1>3, <1>4, <1>6 DEF Answers, Excused

(* The offer is sent: with no join given up, no answer was under way. *)
LEMMA SendJoinAnswers ==
  ASSUME Sound, Answers, SendJoin
  PROVE  Answers'
<1>1. PICK j, m : j = ui.j /\ m = Msg("join", roomID[j], j, 0, 0)
  OBVIOUS
<1>2. /\ ui.at = "offered" /\ Send(m) /\ ~Waiting
      /\ ui' = IF link THEN [ui EXCEPT !.at = "sent"] ELSE Idle
      /\ UNCHANGED <<answerCh, gaveUp, spent, incoming, serving>>
      /\ Top' = Top
  BY <1>1 DEF SendJoin, Waiting, brokerVars, Top
<1>3. j \in Join /\ j = Top /\ j <= Top /\ roomID[j] \in Room /\ TypeOK /\ up \in Seq(Message)
      /\ down \in Seq(Message)
  BY <1>1, <1>2, UiTypes, BrokerTypes, OrderFacts DEF Joining
<1>4. m \in Message /\ m.j = j /\ m.kind = "join"
  BY <1>1, <1>3, MsgType, Numbers
<1>5. down' = down /\ Made' = Made /\ Handed' = Handed /\ InCh' = InCh
  BY <1>2 DEF Send, Made, Handed, InCh
<1>6. CASE ~link
  <2>1. up' = up
    BY <1>2, <1>6 DEF Send
  <2>2. QED
    BY <1>2, <1>3, <1>5, <2>1, AnswersSame DEF Still
<1>7. CASE link
  <2>1. up' = Append(up, m) /\ Waiting'
    BY <1>2, <1>7, UiTypes DEF Send, Waiting, UiType
  <2>2. Js(up', "join") = Js(up, "join") \cup {j}
        /\ (Js(up, "join") = {} => Only(up', "join"))
    BY <1>3, <1>4, <2>1, JsAppend
  <2>3. Awaited' = Awaited \cup {j}
    BY <1>2, <1>5, <2>2 DEF Awaited
  <2>4. \A k \in Awaited' : k <= Top /\ (Excused(k) \/ k = Top)
    BY <1>2, <1>3, <2>3 DEF Answers
  <2>5. ASSUME gaveUp = {} PROVE Single'
    <3>1. Awaited = {}
      BY <1>2, <2>5 DEF Answers, Excused
    <3>2. /\ Js(up, "join") = {} /\ Made = {} /\ Js(down, "answer") = {} /\ Handed = {} /\ InCh = {}
      BY <3>1 DEF Awaited
    <3>3. Only(up', "join") /\ Only(down', "answer")
      BY <1>5, <2>2, <3>2, OnlyNone
    <3>4. /\ Made' = {} /\ Js(down', "answer") = {} /\ Handed' = {} /\ InCh' = {}
      BY <1>5, <3>2
    <3>5. \A n \in 1 .. 5 : Stage(n)' => n = 1
      BY <3>4 DEF Stage
    <3>6. QED
      BY <3>3, <3>4, <3>5 DEF Single
  <2>6. QED
    BY <1>2, <2>1, <2>4, <2>5 DEF Answers, Excused
<1>8. QED
  BY <1>6, <1>7

(* The user interface takes the answer, or gives up. *)
LEMMA WaitingAnswers ==
  ASSUME Sound, Answers, TakeAnswer \/ Timeout
  PROVE  Answers'
<1>1. PICK j : j = ui.j
  OBVIOUS
<1>2. /\ ui.at = "waiting" /\ UNCHANGED <<spent, incoming, serving, up, down>> /\ Top' = Top
  BY DEF TakeAnswer, Timeout, wire, brokerVars, Top
<1>3. j \in Join /\ j = Top /\ Top \in Nat
  BY <1>1, <1>2, UiTypes, OrderFacts DEF Joining
<1>4. CASE TakeAnswer
  <2>1. answerCh[j] # 0 /\ answerCh' = [answerCh EXCEPT ![j] = 0] /\ gaveUp' = gaveUp
    BY <1>1, <1>4 DEF TakeAnswer
  <2>2. InCh' \subseteq InCh /\ j \notin InCh' /\ j \in InCh
        /\ \A s \in InCh' : answerCh'[s] = answerCh[s]
    BY <1>3, <2>1, UiTypes DEF InCh
  <2>3. Awaited' \subseteq Awaited
    BY <1>2, <2>2 DEF Awaited, Made, Handed
  <2>4. CASE gaveUp = {}
    <3>1. Single /\ Stage(5) /\ 5 \in 1 .. 5
      BY <2>2, <2>4 DEF Answers, Stage
    <3>2. Js(up, "join") = {} /\ Made = {} /\ Js(down, "answer") = {} /\ Handed = {}
      BY <3>1, Elsewhere
    <3>3. InCh' = {}
      BY <2>2, <3>1 DEF Single
    <3>4. Awaited' = {}
      BY <1>2, <3>2, <3>3 DEF Awaited, Made, Handed
    <3>5. Only(up', "join") /\ Only(down', "answer") /\ Made' = {} /\ Handed' = {}
      BY <1>2, <3>2, OnlyNone DEF Made, Handed
    <3>6. \A n \in 1 .. 5 : ~Stage(n)'
      BY <1>2, <3>2, <3>3, <3>5 DEF Stage
    <3>7. Single'
      BY <3>3, <3>5, <3>6 DEF Single
    <3>8. QED
      BY <3>4, <3>7 DEF Answers
  <2>5. CASE gaveUp # {}
    <3>1. Excused(Top)
      BY <2>5, UiTypes DEF Excused
    <3>2. \A k \in Awaited : k <= Top /\ Excused(k)
      BY <3>1 DEF Answers
    <3>3. QED
      BY <1>2, <2>1, <2>3, <2>5, <3>2 DEF Answers, Excused
  <2>6. QED
    BY <2>4, <2>5
<1>5. CASE Timeout
  <2>1. gaveUp' = gaveUp \cup {j} /\ answerCh' = answerCh
    BY <1>1, <1>5 DEF Timeout
  <2>2. Awaited' = Awaited
    BY <1>2, <2>1 DEF Awaited, Made, Handed, InCh
  <2>3. j <= j
    BY <1>3
  <2>4. \A k \in Awaited : k <= Top /\ Excused(k)'
    BY <1>3, <2>1, <2>3 DEF Answers, Excused
  <2>5. QED
    BY <1>2, <2>1, <2>2, <2>4 DEF Answers
<1>6. QED
  BY <1>4, <1>5

(* The client's read loop hands the answer on. *)
LEMMA ReadLoopAnswers ==
  ASSUME Sound, Answers, ReadLoop
  PROVE  Answers'
<1>1. PICK m : m = Head(down)
  OBVIOUS
<1>2. /\ down # <<>> /\ down' = Tail(down)
      /\ incoming' = incoming \/ incoming' = incoming \cup {m}
      /\ UNCHANGED <<ui, answerCh, gaveUp, spent, serving, up>> /\ Top' = Top
      /\ (Waiting => Waiting')
  BY <1>1 DEF ReadLoop, brokerVars, Top, Waiting
<1>3. up \in Seq(Message) /\ down \in Seq(Message)
  BY BrokerTypes
<1>4. Made' = Made /\ InCh' = InCh
  BY <1>2 DEF Made, InCh
<1>5. CASE m.kind # "answer"
  <2>1. Handed' = Handed
    BY <1>2, <1>5 DEF Handed
  <2>2. Still(up, up', "join") /\ Still(down, down', "answer")
    BY <1>1, <1>2, <1>5 DEF Still
  <2>3. QED
    BY <1>2, <1>3, <1>4, <2>1, <2>2, AnswersSame
<1>6. CASE m.kind = "answer"
  <2>1. /\ Js(down', "answer") \subseteq Js(down, "answer") /\ m.j \in Js(down, "answer")
        /\ Only(down, "answer") => Js(down', "answer") = {}
    BY <1>1, <1>2, <1>3, <1>6, JsTail
  <2>2. Handed' \subseteq Handed \cup {m}
    BY <1>2 DEF Handed
  <2>3. Awaited' \subseteq Awaited
    BY <1>2, <1>4, <2>1, <2>2 DEF Awaited
  <2>4. ASSUME gaveUp = {} PROVE Single'
    <3>1. Single /\ Stage(3) /\ 3 \in 1 .. 5
      BY <2>1, <2>4 DEF Answers, Stage
    <3>2. Js(up, "join") = {} /\ Made = {} /\ Handed = {} /\ InCh = {} /\ Only(down, "answer")
      BY <3>1, Elsewhere DEF Single
    <3>3. Js(up', "join") = {} /\ Made' = {} /\ InCh' = {} /\ Js(down', "answer") = {}
      BY <1>2, <1>4, <2>1, <3>2
    <3>4. Only(up', "join") /\ Only(down', "answer")
      BY <3>3, OnlyNone
    <3>5. \A n \in 1 .. 5 : Stage(n)' => n = 4
      BY <3>3 DEF Stage
    <3>6. QED
      BY <2>2, <3>2, <3>3, <3>4, <3>5 DEF Single
  <2>5. QED
    BY <1>2, <2>3, <2>4, AnswersShrink
<1>7. QED
  BY <1>5, <1>6

(* handleIncoming puts the answer into the active session's channel. *)
LEMMA HandleAnswerAnswers ==
  ASSUME Sound, Answers, NEW m \in incoming, HandleAnswer(m)
  PROVE  Answers'
<1>1. PICK s : s = activeSession
  OBVIOUS
<1>2. /\ m.kind = "answer" /\ incoming' = incoming \ {m}
      /\ answerCh' = IF s # 0 /\ answerCh[s] = 0 THEN [answerCh EXCEPT ![s] = m.j] ELSE answerCh
      /\ UNCHANGED <<ui, gaveUp, spent, serving, up, down>> /\ Top' = Top
      /\ (Waiting => Waiting')
  BY <1>1 DEF HandleAnswer, brokerVars, wire, Top, Waiting
<1>3. m \in Handed /\ Handed' = Handed \ {m} /\ Made' = Made /\ answerCh \in [Join -> 0 .. MaxJoin]
  BY <1>2, UiTypes DEF Handed, Made
<1>4. \A x \in InCh' : \/ x \in InCh /\ answerCh'[x] = answerCh[x]
                       \/ x = s /\ answerCh'[x] = m.j
  BY <1>2, <1>3 DEF InCh
<1>5. Awaited' \subseteq Awaited
  BY <1>2, <1>3, <1>4 DEF Awaited
<1>6. ASSUME gaveUp = {} PROVE Single'
  <2>1. Single /\ Stage(4) /\ 4 \in 1 .. 5
    BY <1>3, <1>6 DEF Answers, Stage
  <2>2. Js(up, "join") = {} /\ Made = {} /\ InCh = {} /\ Js(down, "answer") = {}
    BY <2>1, Elsewhere
  <2>3. Handed' = {}
    BY <1>3, <2>1 DEF Single
  <2>4. Js(up', "join") = {} /\ Made' = {} /\ Js(down', "answer") = {}
    BY <1>2, <1>3, <2>2
  <2>5. Only(up', "join") /\ Only(down', "answer")
    BY <2>4, OnlyNone
  <2>6. \A x, y \in InCh' : x = y
    BY <1>4, <2>2
  <2>7. \A n \in 1 .. 5 : Stage(n)' => n = 5
    BY <2>3, <2>4 DEF Stage
  <2>8. QED
    BY <2>3, <2>5, <2>6, <2>7 DEF Single
<1>7. QED
  BY <1>2, <1>5, <1>6, AnswersShrink

(* The broker takes the offer and answers it. *)
LEMMA ServingAnswers ==
  ASSUME Sound, Answers, EnterRoom \/ TakeJoinOffer \/ PushAnswer
  PROVE  Answers'
<1>1. /\ UNCHANGED <<ui, answerCh, incoming, gaveUp>> /\ (Waiting => Waiting')
      /\ Event \/ UNCHANGED spent
  BY DEF EnterRoom, TakeJoinOffer, PushAnswer, clientVars, Waiting, TakeOffer, Push
<1>2. up \in Seq(Message) /\ down \in Seq(Message) /\ TypeOK /\ Top' = Top
  BY <1>1, BrokerTypes, Events
<1>3. Handed' = Handed /\ InCh' = InCh
  BY <1>1 DEF Handed, InCh
<1>4. CASE EnterRoom
  <2>1. PICK m : m = Head(up)
    OBVIOUS
  <2>2. /\ up # <<>> /\ m.kind = "join" /\ up' = Tail(up) /\ down' = down
        /\ serving'.at = "join" /\ serving'.j = m.j
    BY <1>4, <2>1 DEF EnterRoom, Serve
  <2>3. /\ Js(up', "join") \subseteq Js(up, "join") /\ m.j \in Js(up, "join")
        /\ Only(up, "join") => Js(up', "join") = {}
    BY <1>2, <2>1, <2>2, JsTail
  <2>4. Made' = {m.j}
    BY <2>2 DEF Made
  <2>5. Awaited' \subseteq Awaited
    BY <1>1, <1>3, <2>2, <2>3, <2>4 DEF Awaited
  <2>6. ASSUME gaveUp = {} PROVE Single'
    <3>1. Single /\ Stage(1) /\ 1 \in 1 .. 5
      BY <2>3, <2>6 DEF Answers, Stage
    <3>2. Js(down, "answer") = {} /\ Handed = {} /\ InCh = {} /\ Only(up, "join")
      BY <3>1, Elsewhere DEF Single
    <3>3. Js(up', "join") = {} /\ Js(down', "answer") = {} /\ Handed' = {} /\ InCh' = {}
      BY <1>3, <2>2, <2>3, <3>2
    <3>4. Only(up', "join") /\ Only(down', "answer")
      BY <3>3, OnlyNone
    <3>5. \A n \in 1 .. 5 : Stage(n)' => n = 2
      BY <3>3 DEF Stage
    <3>6. QED
      BY <3>3, <3>4, <3>5 DEF Single
  <2>7. QED
    BY <1>1, <1>2, <2>5, <2>6, AnswersShrink
<1>5. CASE TakeJoinOffer
  <2>1. serving.at = "join" /\ TakeOffer(serving.j, "answer") /\ up' = up /\ down' = down
    BY <1>5 DEF TakeJoinOffer, wire
  <2>2. Made = {serving.j} /\ Made' \subseteq {serving.j}
    BY <2>1 DEF Made, TakeOffer, Idle
  <2>3. Awaited' \subseteq Awaited
    BY <1>1, <1>3, <2>1, <2>2 DEF Awaited
  <2>4. ASSUME Single PROVE Single'
    <3>1. \A n \in 1 .. 5 : Stage(n)' => Stage(n)
      BY <1>3, <2>1, <2>2 DEF Stage
    <3>2. QED
      BY <1>3, <2>1, <2>4, <3>1 DEF Single
  <2>5. QED
    BY <1>1, <1>2, <2>3, <2>4, AnswersShrink DEF Answers
<1>6. CASE PushAnswer
  <2>1. PICK m : m = Msg(serving.at, roomID[serving.j], serving.j, 0, 0)
    OBVIOUS
  <2>2. /\ serving.at \in {"answer", "restartAnswer"} /\ Push(m) /\ serving' = Idle
    BY <1>6, <2>1 DEF PushAnswer
  <2>3. serving.j \in Join /\ serving.j <= Top
    BY <2>2, BrokerTypes
  <2>4. m \in Message /\ m.kind = serving.at /\ m.j = serving.j
    BY <2>1, <2>2, <2>3, MsgType, Numbers, BegunFacts
  <2>5. up' = up /\ Made' = {} /\ down' \in {down, Append(down, m)}
    BY <2>2 DEF Push, Made, Idle
  <2>6. CASE serving.at = "restartAnswer"
    <3>1. Made = {}
      BY <2>6 DEF Made
    <3>2. Still(up, up', "join") /\ Still(down, down', "answer")
      BY <2>4, <2>5, <2>6 DEF Still
    <3>3. QED
      BY <1>1, <1>2, <1>3, <2>5, <3>1, <3>2, AnswersSame
  <2>7. CASE serving.at = "answer"
    <3>1. Made = {serving.j}
      BY <2>7 DEF Made
    <3>2. /\ Js(down', "answer") \subseteq Js(down, "answer") \cup {serving.j}
          /\ Js(down, "answer") = {} => Only(down', "answer")
      <4>1. CASE down' = down
        BY <4>1, OnlyNone
      <4>2. CASE down' = Append(down, m)
        <5>1. m.kind = "answer"
          BY <2>4, <2>7
        <5>2. /\ Js(Append(down, m), "answer") = Js(down, "answer") \cup {m.j}
              /\ Js(down, "answer") = {} => Only(Append(down, m), "answer")
          BY <1>2, <2>4, <5>1, JsAppend
        <5>3. QED
          BY <2>4, <4>2, <5>2
      <4>3. QED
        BY <2>5, <4>1, <4>2
    <3>3. Awaited' \subseteq Awaited
      BY <1>1, <1>3, <2>5, <3>1, <3>2 DEF Awaited
    <3>4. ASSUME gaveUp = {} PROVE Single'
      <4>1. Single /\ Stage(2) /\ 2 \in 1 .. 5
        BY <3>1, <3>4 DEF Answers, Stage
      <4>2. Js(up, "join") = {} /\ Handed = {} /\ InCh = {} /\ Js(down, "answer") = {}
        BY <4>1, Elsewhere
      <4>3. Js(up', "join") = {} /\ Handed' = {} /\ InCh' = {} /\ Only(down', "answer")
            /\ Only(up', "join")
        BY <1>3, <2>5, <3>2, <4>2, OnlyNone
      <4>4. \A n \in 1 .. 5 : Stage(n)' => n = 3
        BY <2>5, <4>3 DEF Stage
      <4>5. QED
        BY <4>3, <4>4 DEF Single
    <3>5. QED
      BY <1>1, <1>2, <3>3, <3>4, AnswersShrink
  <2>8. QED
    BY <2>2, <2>6, <2>7
<1>7. QED
  BY <1>4, <1>5, <1>6

(* An offer is dropped, or its answer fails: none is under way any more. *)
LEMMA FailingAnswers ==
  ASSUME Sound, Answers, DropFrame \/ JoinFails \/ AnswerFails
  PROVE  Answers'
<1>1. /\ UNCHANGED <<ui, answerCh, incoming, gaveUp, down>> /\ (Waiting => Waiting') /\ Event
      /\ \/ serving' = serving /\ up # <<>> /\ up' = Tail(up)
         \/ serving' = Idle /\ up' = up
  BY DEF DropFrame, JoinFails, AnswerFails, clientVars, brokerVars, wire, Waiting, Serve
<1>2. up \in Seq(Message) /\ Top' = Top
  BY <1>1, BrokerTypes, Events
<1>3. Handed' = Handed /\ InCh' = InCh
  BY <1>1 DEF Handed, InCh
<1>4. Js(up', "join") \subseteq Js(up, "join") /\ (Only(up, "join") => Only(up', "join"))
  BY <1>1, <1>2, JsTail
<1>5. Made' \subseteq Made
  BY <1>1 DEF Made, Idle
<1>6. Awaited' \subseteq Awaited
  BY <1>1, <1>3, <1>4, <1>5 DEF Awaited
<1>7. ASSUME Single PROVE Single'
  <2>1. \A n \in 1 .. 5 : Stage(n)' => Stage(n)
    BY <1>1, <1>3, <1>4, <1>5 DEF Stage
  <2>2. QED
    BY <1>1, <1>3, <1>4, <1>7, <2>1 DEF Single
<1>8. QED
  BY <1>1, <1>2, <1>6, <1>7, AnswersShrink DEF Answers

LEMMA LoseAnswers ==
  ASSUME Sound, Answers, LoseLink
  PROVE  Answers'
<1>1. /\ UNCHANGED <<ui, answerCh, incoming, gaveUp, serving>> /\ Event
      /\ (Waiting => Waiting') /\ up' = <<>> /\ down' = <<>>
  BY DEF LoseLink, clientVars, brokerVars, Waiting
<1>2. Top' = Top
  BY <1>1, BrokerTypes, Events
<1>3. Handed' = Handed /\ InCh' = InCh /\ Made' = Made
  BY <1>1 DEF Handed, InCh, Made
<1>4. DOMAIN up' = {} /\ DOMAIN down' = {}
  BY <1>1
<1>5. Js(up', "join") = {} /\ Js(down', "answer") = {} /\ Only(up', "join") /\ Only(down', "answer")
  BY <1>4 DEF Js, Only
<1>6. Awaited' \subseteq Awaited
  BY <1>1, <1>3, <1>5 DEF Awaited
<1>7. ASSUME Single PROVE Single'
  <2>1. \A n \in 1 .. 5 : Stage(n)' => Stage(n)
    BY <1>3, <1>5 DEF Stage
  <2>2. QED
    BY <1>3, <1>5, <1>7, <2>1 DEF Single
<1>8. QED
  BY <1>2, <1>1, <1>6, <1>7, AnswersShrink DEF Answers

LEMMA NextAnswers ==
  ASSUME Sound, Answers, [Next]_vars
  PROVE  Answers'
<1>1. ASSUME NEW r \in Room, BeginJoin(r) \/ Leave(r) \/ TracksChange(r) PROVE Answers'
  BY <1>1, BeginJoinAnswers, RestingAnswers
<1>2. CASE Ui
  BY <1>2, SendJoinAnswers, RestingAnswers, WaitingAnswers DEF Ui
<1>3. CASE Goroutines
  BY <1>3, ReadLoopAnswers, HandleAnswerAnswers, RestingAnswers DEF Goroutines
<1>4. CASE Broker
  BY <1>4, ServingAnswers, FailingAnswers, RestingAnswers DEF Broker
<1>5. ASSUME NEW j \in Join, ConnectionFails(j) PROVE Answers'
  BY <1>5, RestingAnswers
<1>6. QED
  BY <1>1, <1>2, <1>3, <1>4, <1>5, LoseAnswers, RestingAnswers DEF Next

(* The one step that counts an answer. *)
LEMMA NextOwn ==
  ASSUME Sound, Answers, AnswerIsOwn, [Next]_vars
  PROVE  AnswerIsOwn'
<1>1. ASSUME applied' = applied, gaveUp \subseteq gaveUp' PROVE AnswerIsOwn'
  BY <1>1 DEF AnswerIsOwn
<1>2. CASE TakeAnswer
  <2>1. PICK j, k : j = ui.j /\ k = answerCh[j]
    OBVIOUS
  <2>2. /\ ui.at = "waiting" /\ k # 0 /\ gaveUp' = gaveUp
        /\ applied' = applied \/ applied' = [applied EXCEPT ![j] = k]
    BY <1>2, <2>1 DEF TakeAnswer
  <2>3. j \in Join /\ j = Top /\ Top \in Nat /\ applied \in [Join -> 0 .. MaxJoin]
        /\ k \in 0 .. MaxJoin /\ k \in Nat
    BY <2>1, <2>2, UiTypes, OrderFacts, Numbers DEF Joining
  <2>4. k \in Awaited
    BY <2>1, <2>2, <2>3 DEF Awaited, InCh
  <2>5. k <= Top /\ (Excused(k) \/ k = Top)
    BY <2>4 DEF Answers
  <2>6. k # j => k < j /\ \E i \in gaveUp : i <= k
    BY <2>3, <2>5 DEF Excused
  <2>7. CASE applied' = [applied EXCEPT ![j] = k]
    <3>1. applied'[j] = k /\ \A i \in Join : i # j => applied'[i] = applied[i]
      BY <2>3, <2>7
    <3>2. QED
      BY <2>2, <2>6, <3>1 DEF AnswerIsOwn
  <2>8. QED
    BY <1>1, <2>2, <2>7
<1>3. CASE UNCHANGED vars
  BY <1>1, <1>3 DEF vars, clientVars
<1>4. ASSUME NEW r \in Room, BeginJoin(r) \/ Leave(r) \/ TracksChange(r)
      PROVE  applied' = applied /\ gaveUp' = gaveUp
  BY <1>4 DEF BeginJoin, Leave, TracksChange, clientVars
<1>5. ASSUME SendJoin \/ Activate \/ Register \/ Timeout \/ EndLeave
      PROVE  applied' = applied /\ gaveUp \subseteq gaveUp'
  BY <1>5 DEF SendJoin, Activate, Register, Timeout, EndLeave
<1>6. ASSUME Goroutines PROVE applied' = applied /\ gaveUp' = gaveUp
  BY <1>6 DEF Goroutines, ReadLoop, HandleAnswer, HandleRestartAnswer, HandleOffer, SetOffer,
              SetAnswer, SendAnswer, RestartOffer, RestartSend, RestartEnd
<1>7. ASSUME Broker PROVE applied' = applied /\ gaveUp' = gaveUp
  BY <1>7 DEF Broker, DropFrame, EnterRoom, JoinFails, TakeJoinOffer, TakeRestartOffer,
              PushAnswer, AnswerFails, LeaveRoom, ApplyAnswer, CreateOffer, PushOffer, clientVars
<1>8. ASSUME LoseLink PROVE applied' = applied /\ gaveUp' = gaveUp
  BY <1>8 DEF LoseLink, clientVars
<1>9. ASSUME NEW j \in Join, ConnectionFails(j) PROVE applied' = applied /\ gaveUp' = gaveUp
  BY <1>9 DEF ConnectionFails
<1>10. QED
  BY <1>1, <1>2, <1>3, <1>4, <1>5, <1>6, <1>7, <1>8, <1>9 DEF Next, Ui

-----------------------------------------------------------------------------
(* What the broker has been told. *)

LEMMA JsHead ==
  ASSUME NEW q \in Seq(Message), q # <<>>, NEW k
  PROVE  /\ Js(q, k) \subseteq Js(Tail(q), k) \cup {Head(q).j}
         /\ Js(Tail(q), k) \subseteq Js(q, k)
         /\ Head(q).kind = k => Head(q).j \in Js(q, k)
         /\ Head(q).kind # k => Js(Tail(q), k) = Js(q, k)
<1>1. PICK p : p = Tail(q)
  OBVIOUS
<1>2. /\ Head(q) = q[1]
      /\ \A i \in DOMAIN q : i # 1 => i - 1 \in DOMAIN p /\ p[i - 1] = q[i]
  <2>1. Head(q) \in Message
    OBVIOUS
  <2>2. QED
    BY <1>1, <2>1, QueueTypes
<1>3. Js(q, k) \subseteq Js(p, k) \cup {Head(q).j}
  <2>1. SUFFICES ASSUME NEW j \in Js(q, k), j # Head(q).j PROVE j \in Js(p, k)
    OBVIOUS
  <2>2. PICK i \in DOMAIN q : q[i].kind = k /\ q[i].j = j
    BY DEF Js
  <2>3. i - 1 \in DOMAIN p /\ p[i - 1].kind = k /\ p[i - 1].j = j
    BY <1>2, <2>1, <2>2
  <2>4. QED
    BY <2>3 DEF Js
<1>4. QED
  BY <1>1, <1>3, JsTail

(* A word joins the queue, or leaves it. *)
LEMMA WordsAppend ==
  ASSUME NEW q \in Seq(Message), NEW m \in Message
  PROVE  /\ InOrder(q) /\ (\A i \in DOMAIN q : Word(q[i]) => Precedes(q[i].kind, q[i].j, m)) =>
              InOrder(Append(q, m))
         /\ \A kind, j : Before(kind, j, q) /\ Precedes(kind, j, m) =>
              Before(kind, j, Append(q, m))
<1>1. PICK p, n : p = Append(q, m) /\ n = Len(q) + 1
  OBVIOUS
<1>2. /\ DOMAIN p = DOMAIN q \cup {n} /\ n \notin DOMAIN q /\ p[n] = m
      /\ \A i \in DOMAIN q : p[i] = q[i] /\ i < n /\ i \in Nat
      /\ n \in Nat
  BY <1>1, QueueTypes
<1>3. ASSUME InOrder(q), \A i \in DOMAIN q : Word(q[i]) => Precedes(q[i].kind, q[i].j, m)
      PROVE  InOrder(p)
  <2>1. SUFFICES ASSUME NEW i \in DOMAIN p, NEW h \in DOMAIN p, i < h, Word(p[i])
                 PROVE  Precedes(p[i].kind, p[i].j, p[h])
    BY DEF InOrder
  <2>2. i \in DOMAIN q
    BY <1>2, <2>1
  <2>3. CASE h = n
    BY <1>2, <1>3, <2>1, <2>2, <2>3
  <2>4. CASE h \in DOMAIN q
    BY <1>2, <1>3, <2>1, <2>2, <2>4 DEF InOrder
  <2>5. QED
    BY <1>2, <2>3, <2>4
<1>4. \A kind, j : Before(kind, j, q) /\ Precedes(kind, j, m) => Before(kind, j, p)
  BY <1>2 DEF Before
<1>5. QED
  BY <1>1, <1>3, <1>4

LEMMA WordsTail ==
  ASSUME NEW q \in Seq(Message), q # <<>>
  PROVE  /\ InOrder(q) => /\ InOrder(Tail(q))
                          /\ Word(Head(q)) => Before(Head(q).kind, Head(q).j, Tail(q))
         /\ \A kind, j : Before(kind, j, q) => /\ Before(kind, j, Tail(q))
                                               /\ Precedes(kind, j, Head(q))
         /\ \A i \in DOMAIN Tail(q) : \E n \in DOMAIN q : Tail(q)[i] = q[n]
         /\ \E n \in DOMAIN q : Head(q) = q[n]
<1>1. PICK p : p = Tail(q)
  OBVIOUS
<1>2. /\ Head(q) = q[1] /\ 1 \in DOMAIN q /\ DOMAIN p \subseteq Nat
      /\ \A i \in DOMAIN p : p[i] = q[i + 1] /\ i + 1 \in DOMAIN q /\ i + 1 # 1
  <2>1. Head(q) \in Message
    OBVIOUS
  <2>2. QED
    BY <1>1, <2>1, QueueTypes
<1>3. \A i \in DOMAIN p : 1 < i + 1
  <2>1. SUFFICES ASSUME NEW i \in DOMAIN p PROVE 1 < i + 1
    OBVIOUS
  <2>2. i \in Nat /\ i + 1 # 1
    BY <1>2
  <2>3. QED
    BY <2>2
<1>4. ASSUME InOrder(q) PROVE InOrder(p)
  <2>1. SUFFICES ASSUME NEW i \in DOMAIN p, NEW h \in DOMAIN p, i < h, Word(p[i])
                 PROVE  Precedes(p[i].kind, p[i].j, p[h])
    BY DEF InOrder
  <2>2. i + 1 < h + 1
    BY <1>2, <2>1
  <2>3. QED
    BY <1>2, <1>4, <2>1, <2>2 DEF InOrder
<1>5. ASSUME InOrder(q), Word(Head(q)) PROVE Before(Head(q).kind, Head(q).j, p)
  BY <1>2, <1>3, <1>5 DEF InOrder, Before
<1>6. \A kind, j : Before(kind, j, q) => Before(kind, j, p) /\ Precedes(kind, j, Head(q))
  BY <1>2 DEF Before
<1>7. QED
  BY <1>1, <1>2, <1>4, <1>5, <1>6

(* A step that tells the broker of no call, though something it was told   *)
(* may be lost.                                                            *)
LEMMA ToldStays ==
  ASSUME Sound, Told, UNCHANGED <<roomID, participant>>, Call' = Call, Top' = Top, Grown,
         ui'.at = "offered" => ui.at = "offered",
         InOrder(up'),
         \A i \in DOMAIN up' : Word(up'[i]) => \E n \in DOMAIN up : up'[i] = up[n],
         \A k \in {"join", "leave"} : Js(up', k) \subseteq Js(up, k),
         Js(up, "join") \subseteq Js(up', "join") \cup unjoined',
         Js(up, "leave") \subseteq Js(up', "leave") \cup unleft'
  PROVE  Told'
<1>1. Housed'
  <2>1. \A i \in DOMAIN up' : Word(up'[i]) => up'[i].room = roomID[up'[i].j]
    BY DEF Told, Housed
  <2>2. \A kind, j : Before(kind, j, up) => Before(kind, j, up')
    BY DEF Before, Precedes
  <2>3. QED
    BY <2>1, <2>2 DEF Told, Housed
<1>2. LetGo'
  BY DEF Told, LetGo, Grown
<1>3. Entered'
  BY DEF Told, Entered, Grown
<1>4. Unsent'
  BY DEF Told, Unsent
<1>5. QED
  BY <1>1, <1>2, <1>3, <1>4 DEF Told

(* The queue has lost its head, or gained what is no word. *)
LEMMA ToldQuietly ==
  ASSUME Sound, Told, UNCHANGED <<roomID, participant>>, Call' = Call, Top' = Top, Grown,
         ui'.at = "offered" => ui.at = "offered",
         \/ up' = up
         \/ \E m \in Message : ~Word(m) /\ up' = Append(up, m)
         \/ /\ up # <<>> /\ up' = Tail(up)
            /\ Head(up).kind = "join" => Head(up).j \in unjoined'
            /\ Head(up).kind = "leave" => Head(up).j \in unleft'
  PROVE  Told'
<1>1. up \in Seq(Message) /\ InOrder(up)
  BY UiTypes DEF Told
<1>2. CASE up' = up
  BY <1>1, <1>2, ToldStays
<1>3. ASSUME NEW m \in Message, ~Word(m), up' = Append(up, m)
      PROVE  Told'
  <2>1. \A k \in {"join", "leave"} : Js(up', k) = Js(up, k)
    BY <1>1, <1>3, JsAppend DEF Word
  <2>2. InOrder(up')
    BY <1>1, <1>3, WordsAppend DEF Precedes
  <2>3. \A i \in DOMAIN up' : Word(up'[i]) => \E n \in DOMAIN up : up'[i] = up[n]
    BY <1>1, <1>3, QueueTypes
  <2>4. QED
    BY <2>1, <2>2, <2>3, ToldStays
<1>4. CASE /\ up # <<>> /\ up' = Tail(up)
           /\ Head(up).kind = "join" => Head(up).j \in unjoined'
           /\ Head(up).kind = "leave" => Head(up).j \in unleft'
  <2>1. InOrder(up') /\ \A i \in DOMAIN up' : \E n \in DOMAIN up : up'[i] = up[n]
    BY <1>1, <1>4, WordsTail
  <2>2. /\ \A k \in {"join", "leave"} : Js(up', k) \subseteq Js(up, k)
        /\ Js(up, "join") \subseteq Js(up', "join") \cup unjoined'
        /\ Js(up, "leave") \subseteq Js(up', "leave") \cup unleft'
    BY <1>1, <1>4, JsHead
  <2>3. QED
    BY <2>1, <2>2, ToldStays
<1>5. QED
  BY <1>2, <1>3, <1>4

(* Join and Leave go on with the call they are about. *)
LEMMA CallSame ==
  ASSUME Sound, Told,
         Activate \/ Register \/ TakeAnswer \/ Timeout \/ \E r \in Room : Leave(r)
  PROVE  Told'
<1>1. UNCHANGED <<link, up, participant, roomID, lostVars>> /\ Top' = Top
  BY DEF Activate, Register, TakeAnswer, Timeout, Leave, wire, brokerVars, Top
<1>2. Grown
  BY <1>1 DEF Grown, lostVars
<1>3. ASSUME Call' = Call, ui'.at # "offered" PROVE Told'
  BY <1>1, <1>2, <1>3, ToldQuietly
<1>4. CASE Activate \/ Register
  <2>1. ui.at \in {"sent", "active"}
        /\ (ui' = [ui EXCEPT !.at = "active"] \/ ui' = [ui EXCEPT !.at = "waiting"])
    BY <1>4 DEF Activate, Register
  <2>2. ui'.at \in {"active", "waiting"} /\ ui'.j = ui.j
    BY <2>1, UiTypes, UiSteps
  <2>3. QED
    BY <1>3, <2>1, <2>2 DEF Call
<1>5. CASE \E r \in Room : Leave(r)
  <2>1. ui = Idle /\ ui' = [at |-> "leaving", j |-> activeSession]
    BY <1>5 DEF Leave, BeginLeave
  <2>2. Call = activeSession /\ Call' = activeSession /\ ui'.at # "offered"
    BY <2>1 DEF Call, Idle
  <2>3. QED
    BY <1>3, <2>2
<1>6. CASE TakeAnswer \/ Timeout
  <2>1. /\ ui.at = "waiting"
        /\ \/ ui' = Idle /\ activeSession' = activeSession
           \/ ui' = [at |-> "leaving", j |-> ui.j]
    BY <1>6 DEF TakeAnswer, Timeout, BeginLeave
  <2>2. activeSession = ui.j
    BY <2>1, OrderFacts
  <2>3. Call = ui.j /\ Call' = ui.j /\ ui'.at # "offered"
    BY <2>1, <2>2 DEF Call, Idle
  <2>4. QED
    BY <1>3, <2>3
<1>7. QED
  BY <1>4, <1>5, <1>6

(* The words under way are of joins that were begun. *)
LEMMA WordsBegun ==
  ASSUME Sound
  PROVE  /\ \A k : \A p \in Js(up, k) : p \in Join /\ p \in Nat /\ p # 0 /\ p <= Top
         /\ \A i \in DOMAIN up : up[i] \in Message /\ up[i].j \in Join /\ up[i].j <= Top
         /\ \A r \in Room : participant[r] \in Nat /\ participant[r] <= Top
<1>1. up \in Seq(Message) /\ (\A i \in DOMAIN up : up[i].j <= Top)
  BY UiTypes, BegunFacts
<1>2. \A i \in DOMAIN up : up[i] \in Message
  BY <1>1, QueueTypes
<1>3. \A i \in DOMAIN up : up[i].j \in Join
  BY <1>2, MessageType
<1>4. \A k : \A p \in Js(up, k) : p \in Join /\ p <= Top
  BY <1>1, <1>3 DEF Js
<1>5. \A r \in Room : participant[r] \in 0 .. MaxJoin /\ participant[r] <= Top
  BY BrokerTypes, BegunFacts
<1>6. QED
  BY <1>2, <1>1, <1>3, <1>4, <1>5, Numbers

LEMMA CallRoom ==
  ASSUME Sound, Call # 0
  PROVE  Call \in Join /\ roomID[Call] \in Room
<1>1. CASE Call = ui.j /\ ui.at # "idle"
  BY <1>1, UiTypes
<1>2. CASE Call = activeSession
  <2>1. Call \in Join /\ Call <= Top
    BY <1>2, UiTypes
  <2>2. QED
    BY <2>1, BegunFacts
<1>3. QED
  BY <1>1, <1>2 DEF Call

(* A join begins: nothing has been said of it. *)
LEMMA BeginJoinTold ==
  ASSUME Sound, Told, NEW r \in Room, BeginJoin(r)
  PROVE  Told'
<1>1. /\ UNCHANGED <<activeSession, up, participant, lostVars>>
      /\ activeSession = 0 /\ ui = Idle /\ ui' = [at |-> "offered", j |-> Top + 1]
      /\ Top + 1 \in Join /\ roomID' = [roomID EXCEPT ![Top + 1] = r]
  BY DEF BeginJoin, wire, brokerVars, Top
<1>2. Top' = Top + 1
  <2>1. spent \in Spent /\ spent' = [spent EXCEPT !.join = Top + 1]
    BY UiTypes DEF BeginJoin, Top
  <2>2. QED
    BY <2>1 DEF Spent, Top
<1>3. Call = 0 /\ Call' = 0 /\ Top \in Nat
  BY <1>1, UiTypes DEF Call, Idle
<1>4. \A j \in Join : j <= Top => roomID'[j] = roomID[j] /\ j # Top + 1
  <2>1. roomID \in [Join -> Room \cup {NoRoom}]
    BY UiTypes
  <2>2. \A j \in Join : j <= Top => j # Top + 1
    BY <1>3, Numbers
  <2>3. QED
    BY <1>1, <2>1, <2>2
<1>5. \A q \in Room : participant[q] # 0 => participant[q] \in Join /\ participant[q] <= Top
  BY BrokerTypes, WordsBegun, Numbers
<1>6. Housed'
  <2>1. \A i \in DOMAIN up : roomID'[up[i].j] = roomID[up[i].j]
    BY <1>4, WordsBegun
  <2>2. \A q \in Room : participant[q] # 0 => roomID'[participant[q]] = roomID[participant[q]]
    BY <1>4, <1>5
  <2>3. QED
    BY <1>1, <2>1, <2>2 DEF Told, Housed
<1>7. LetGo' /\ Entered'
  BY <1>1, <1>3 DEF Told, LetGo, Entered, lostVars
<1>8. Unsent'
  <2>1. \A k : Top + 1 \notin Js(up, k)
    BY <1>3, <1>4, WordsBegun
  <2>2. \A q \in Room : participant[q] # Top + 1
    BY <1>3, WordsBegun
  <2>3. QED
    BY <1>1, <1>2, <2>1, <2>2 DEF Unsent
<1>9. QED
  BY <1>1, <1>6, <1>7, <1>8 DEF Told

(* Join tells the broker of the call... *)
LEMMA SendJoinTold ==
  ASSUME Sound, Told, SendJoin
  PROVE  Told'
<1>1. PICK m : m = Msg("join", roomID[ui.j], ui.j, 0, 0)
  OBVIOUS
<1>2. /\ ui.at = "offered" /\ Send(m)
      /\ ui' = IF link THEN [ui EXCEPT !.at = "sent"] ELSE Idle
      /\ UNCHANGED <<roomID, activeSession, participant, spent>>
  BY <1>1 DEF SendJoin, brokerVars
<1>3. ui.j \in Join /\ roomID[ui.j] \in Room /\ activeSession = 0 /\ up \in Seq(Message)
      /\ ui.j = Top /\ Top \in Nat /\ Top # 0
  BY <1>2, UiTypes, OrderFacts, Numbers DEF Joining
<1>4. m \in Message /\ m.kind = "join" /\ m.room = roomID[Top] /\ m.j = Top
  BY <1>1, <1>3, MsgType, Numbers
<1>5. Grown /\ Top' = Top /\ Call = 0
  BY <1>2, <1>3, <1>4, Sends, UiTypes DEF Top, Call
<1>6. CASE ~link
  <2>1. ui' = Idle /\ up' = up
    BY <1>2, <1>6 DEF Send
  <2>2. Call' = 0 /\ ui'.at # "offered"
    BY <1>2, <1>3, <2>1 DEF Call, Idle
  <2>3. QED
    BY <1>2, <1>5, <2>1, <2>2, ToldQuietly
<1>7. CASE link
  <2>1. up' = Append(up, m) /\ UNCHANGED lostVars /\ ui' = [ui EXCEPT !.at = "sent"]
    BY <1>2, <1>7 DEF Send
  <2>2. ui'.at = "sent" /\ ui'.j = Top /\ Call' = Top
    BY <1>2, <1>3, <2>1, UiTypes, UiSteps DEF Call
  <2>3. Js(up', "join") = Js(up, "join") \cup {Top} /\ Js(up', "leave") = Js(up, "leave")
    <3>1. Js(Append(up, m), "join") = Js(up, "join") \cup {m.j}
      BY <1>3, <1>4, JsAppend
    <3>2. Js(Append(up, m), "leave") = Js(up, "leave")
      BY <1>3, <1>4, JsAppend
    <3>3. QED
      BY <1>4, <2>1, <3>1, <3>2
  <2>4. Unsent
    BY DEF Told
  <2>5. \A i \in DOMAIN up : Word(up[i]) => up[i].j < Top
    <3>1. SUFFICES ASSUME NEW i \in DOMAIN up, Word(up[i]) PROVE up[i].j < Top
      OBVIOUS
    <3>2. up[i].j \in Js(up, "join") \cup Js(up, "leave")
      BY <3>1 DEF Word, Js
    <3>3. up[i].j # Top /\ up[i].j <= Top /\ up[i].j \in Nat
      BY <1>2, <2>4, <3>2, WordsBegun DEF Unsent
    <3>4. QED
      BY <1>3, <3>3
  <2>6. \A r \in Room : participant[r] < Top
    <3>1. SUFFICES ASSUME NEW r \in Room PROVE participant[r] < Top
      OBVIOUS
    <3>2. participant[r] # Top /\ participant[r] <= Top /\ participant[r] \in Nat
      BY <1>2, <2>4, WordsBegun DEF Unsent
    <3>3. QED
      BY <1>3, <3>2
  <2>7. InOrder(up')
    BY <1>3, <1>4, <2>1, <2>5, WordsAppend DEF Told, Precedes
  <2>8. Housed'
    <3>1. \A i \in DOMAIN up' : Word(up'[i]) => up'[i].room = roomID[up'[i].j]
      BY <1>3, <1>4, <2>1, QueueTypes DEF Told, Housed
    <3>2. ASSUME NEW r \in Room, participant[r] # 0
          PROVE  roomID[participant[r]] = r /\ Before("join", participant[r], up')
      <4>1. roomID[participant[r]] = r /\ Before("join", participant[r], up)
        BY <3>2 DEF Told, Housed
      <4>2. Precedes("join", participant[r], m)
        BY <1>4, <2>6 DEF Precedes
      <4>3. QED
        BY <1>3, <1>4, <2>1, <4>1, <4>2, WordsAppend
    <3>3. QED
      BY <1>2, <3>1, <3>2 DEF Housed
  <2>9. LetGo'
    <3>1. /\ \A p \in Js(up, "join") : p # 0
          /\ \A p \in Js(up, "join") : p = 0 \/ p \in unleft \cup Js(up, "leave")
          /\ \A r \in Room : participant[r] \in {0, 0} \cup unleft \cup Js(up, "leave")
      BY <1>5, WordsBegun DEF Told, LetGo
    <3>2. QED
      BY <1>2, <2>1, <2>2, <2>3, <3>1 DEF LetGo, lostVars
  <2>10. Entered'
    BY <1>2, <1>5, <2>2, <2>3, <2>4 DEF Entered, Unsent
  <2>11. Unsent'
    BY <2>2 DEF Unsent
  <2>12. QED
    BY <2>7, <2>8, <2>9, <2>10, <2>11 DEF Told
<1>8. QED
  BY <1>6, <1>7

(* ... and Leave of its end. *)
LEMMA EndLeaveTold ==
  ASSUME Sound, Told, EndLeave
  PROVE  Told'
<1>1. PICK m : m = Msg("leave", roomID[ui.j], ui.j, 0, 0)
  OBVIOUS
<1>2. /\ ui.at = "leaving" /\ Send(m) /\ ui' = Idle
      /\ UNCHANGED <<roomID, activeSession, participant, spent>>
  BY <1>1 DEF EndLeave, brokerVars
<1>3. ui.j \in Join /\ roomID[ui.j] \in Room /\ activeSession = 0 /\ up \in Seq(Message)
      /\ ui.j # 0
  BY <1>2, UiTypes, OrderFacts, Numbers
<1>4. Call = ui.j /\ Call' = 0 /\ Top' = Top /\ ui'.at = "idle"
  BY <1>2, <1>3 DEF Call, Idle, Top
<1>5. Call = Top /\ Call \notin Js(up, "leave") /\ Top \in Nat
  BY <1>3, <1>4, UiTypes DEF Told, Entered
<1>6. m \in Message /\ m.kind = "leave" /\ m.room = roomID[Top] /\ m.j = Top
  BY <1>1, <1>3, <1>4, <1>5, MsgType, Numbers
<1>7. Grown
  BY <1>2, <1>6, Sends, UiTypes
<1>8. \/ up' = Append(up, m)
      \/ up' = up /\ Top \in unleft'
  <2>1. CASE link
    BY <1>2, <2>1 DEF Send
  <2>2. CASE ~link
    <3>1. Lose({m}) /\ up' = up
      BY <1>2, <2>2 DEF Send
    <3>2. Top \in JoinsOf({m}, {"leave"})
      BY <1>6 DEF JoinsOf
    <3>3. QED
      BY <3>1, <3>2 DEF Lose
  <2>3. QED
    BY <2>1, <2>2
<1>9. InOrder(up') /\ Housed'
  <2>1. CASE up' = up
    BY <1>2, <2>1 DEF Told, Housed
  <2>2. CASE up' = Append(up, m)
    <3>1. ASSUME NEW i \in DOMAIN up, Word(up[i]) PROVE Precedes(up[i].kind, up[i].j, m)
      <4>1. up[i].j \in Nat /\ up[i].j <= Top
        BY WordsBegun, Numbers
      <4>2. up[i].j # Top \/ up[i].kind = "join"
        BY <1>5, <3>1 DEF Word, Js
      <4>3. QED
        BY <1>5, <1>6, <4>1, <4>2 DEF Precedes
    <3>2. InOrder(up')
      BY <1>3, <1>6, <2>2, <3>1, WordsAppend DEF Told
    <3>3. \A i \in DOMAIN up' : Word(up'[i]) => up'[i].room = roomID[up'[i].j]
      BY <1>3, <1>6, <2>2, QueueTypes DEF Told, Housed
    <3>4. ASSUME NEW r \in Room, participant[r] # 0
          PROVE  roomID[participant[r]] = r /\ Before("join", participant[r], up')
      <4>1. roomID[participant[r]] = r /\ Before("join", participant[r], up)
        BY <3>4 DEF Told, Housed
      <4>2. Precedes("join", participant[r], m)
        BY <1>5, <1>6, WordsBegun DEF Precedes
      <4>3. QED
        BY <1>3, <1>6, <2>2, <4>1, <4>2, WordsAppend
    <3>5. QED
      BY <1>2, <3>2, <3>3, <3>4 DEF Housed
  <2>3. QED
    BY <1>8, <2>1, <2>2
<1>10. /\ Js(up', "join") = Js(up, "join") /\ Js(up, "leave") \subseteq Js(up', "leave")
       /\ Top \in Js(up', "leave") \cup unleft'
  <2>1. Js(Append(up, m), "join") = Js(up, "join")
    BY <1>3, <1>6, JsAppend
  <2>2. Js(Append(up, m), "leave") = Js(up, "leave") \cup {m.j}
    BY <1>3, <1>6, JsAppend
  <2>3. QED
    BY <1>6, <1>8, <2>1, <2>2
<1>11. LetGo'
  <2>1. unleft \cup Js(up, "leave") \cup {Top} \subseteq unleft' \cup Js(up', "leave")
    BY <1>7, <1>10 DEF Grown
  <2>2. \A p \in Js(up', "join") : p \in unleft' \cup Js(up', "leave")
    BY <1>5, <1>10, <2>1 DEF Told, LetGo
  <2>3. \A r \in Room : participant[r] \in {0} \cup unleft' \cup Js(up', "leave")
    BY <1>5, <2>1 DEF Told, LetGo
  <2>4. QED
    BY <1>2, <1>4, <2>2, <2>3 DEF LetGo
<1>12. Entered' /\ Unsent'
  BY <1>4 DEF Entered, Unsent
<1>13. QED
  BY <1>9, <1>11, <1>12 DEF Told

(* The broker does as it was told: the participant is entered... *)
LEMMA EnterRoomTold ==
  ASSUME Sound, Told, EnterRoom
  PROVE  Told'
<1>1. PICK m : m = Head(up)
  OBVIOUS
<1>2. /\ up # <<>> /\ up' = Tail(up) /\ m.kind = "join" /\ up \in Seq(Message)
      /\ participant' = [participant EXCEPT ![m.room] = m.j]
      /\ UNCHANGED <<ui, activeSession, roomID, lostVars>>
      /\ participant \in [Room -> 0 .. MaxJoin] /\ m \in Message
  <2>1. /\ up # <<>> /\ up' = Tail(up) /\ m.kind = "join"
        /\ participant' = [participant EXCEPT ![m.room] = m.j]
        /\ UNCHANGED <<ui, activeSession, roomID, lostVars>>
    BY <1>1 DEF EnterRoom, Serve, clientVars
  <2>2. up \in Seq(Message) /\ participant \in [Room -> 0 .. MaxJoin]
    BY BrokerTypes
  <2>3. m \in Message
    BY <1>1, <2>1, <2>2, QueueTypes
  <2>4. QED
    BY <2>1, <2>2, <2>3
<1>3. Call' = Call /\ Top' = Top
  <2>1. Event \/ UNCHANGED spent
    BY DEF EnterRoom
  <2>2. QED
    BY <1>2, <2>1, Events, BrokerTypes DEF Call
<1>4. /\ Js(up', "leave") = Js(up, "leave") /\ Js(up', "join") \subseteq Js(up, "join")
      /\ Js(up, "join") \subseteq Js(up', "join") \cup {m.j} /\ m.j \in Js(up, "join")
  BY <1>1, <1>2, JsHead
<1>5. /\ m.room \in Room /\ m.j \in Nat /\ m.j <= Top /\ Top \in Nat
      /\ m.room = roomID[m.j]
  <2>1. \E n \in DOMAIN up : m = up[n]
    BY <1>1, <1>2, WordsTail
  <2>2. m.room = roomID[m.j]
    BY <1>2, <2>1 DEF Told, Housed, Word
  <2>3. QED
    BY <1>2, <1>4, <2>2, MessageType, WordsBegun, UiTypes
<1>6. /\ participant'[m.room] = m.j
      /\ \A r \in Room : r # m.room => participant'[r] = participant[r]
  BY <1>2, <1>5
<1>7. /\ InOrder(up') /\ Before("join", m.j, up')
      /\ \A kind, j : Before(kind, j, up) => Before(kind, j, up') /\ Precedes(kind, j, m)
      /\ \A i \in DOMAIN up' : \E n \in DOMAIN up : up'[i] = up[n]
  BY <1>1, <1>2, WordsTail DEF Told, Word
<1>8. Housed'
  <2>1. \A i \in DOMAIN up' : Word(up'[i]) => up'[i].room = roomID[up'[i].j]
    BY <1>7 DEF Told, Housed
  <2>2. \A r \in Room : participant'[r] # 0 => /\ roomID[participant'[r]] = r
                                               /\ Before("join", participant'[r], up')
    BY <1>5, <1>6, <1>7 DEF Told, Housed
  <2>3. QED
    BY <1>2, <2>1, <2>2 DEF Housed
<1>9. LetGo'
  <2>1. m.j \in {0, Call} \cup unleft \cup Js(up, "leave")
    BY <1>4 DEF Told, LetGo
  <2>2. \A r \in Room : participant'[r] \in {0, Call} \cup unleft \cup Js(up, "leave")
    BY <1>6, <2>1 DEF Told, LetGo
  <2>3. QED
    BY <1>2, <1>3, <1>4, <2>2 DEF Told, LetGo, lostVars
<1>10. Entered'
  <2>1. SUFFICES ASSUME Call # 0
                 PROVE  \/ participant'[roomID[Call]] = Call
                        \/ Call \in Js(up', "join") \cup unjoined
    BY <1>2, <1>3, <1>4 DEF Told, Entered, lostVars
  <2>2. CASE Call = m.j
    BY <1>5, <1>6, <2>2
  <2>3. CASE Call # m.j /\ participant[roomID[Call]] = Call
    <3>1. Call = Top
      BY <2>1 DEF Told, Entered
    <3>2. roomID[Call] \in Room
      BY <2>1, CallRoom
    <3>3. Precedes("join", Call, m)
      BY <1>7, <2>1, <2>3, <3>2 DEF Told, Housed
    <3>4. FALSE
      BY <1>2, <1>5, <2>3, <3>1, <3>3 DEF Precedes, Word
    <3>5. QED
      BY <3>4
  <2>4. QED
    BY <1>4, <2>1, <2>2, <2>3 DEF Told, Entered
<1>11. Unsent'
  <2>1. SUFFICES ASSUME ui.at = "offered"
                 PROVE  /\ Top \notin Js(up', "join") \cup Js(up', "leave")
                        /\ \A r \in Room : participant'[r] # Top
    BY <1>2, <1>3 DEF Unsent
  <2>2. Unsent
    BY DEF Told
  <2>3. QED
    BY <1>4, <1>6, <2>1, <2>2 DEF Unsent
<1>12. QED
  BY <1>7, <1>8, <1>9, <1>10, <1>11 DEF Told

(* ... and let go. *)
LEMMA LeaveRoomTold ==
  ASSUME Sound, Told, LeaveRoom
  PROVE  Told'
<1>1. PICK m : m = Head(up)
  OBVIOUS
<1>2. /\ up # <<>> /\ up' = Tail(up) /\ m.kind = "leave" /\ up \in Seq(Message)
      /\ participant' = [participant EXCEPT ![m.room] = 0]
      /\ UNCHANGED <<ui, activeSession, roomID, lostVars, spent>>
      /\ participant \in [Room -> 0 .. MaxJoin] /\ m \in Message
  <2>1. /\ up # <<>> /\ up' = Tail(up) /\ m.kind = "leave"
        /\ participant' = [participant EXCEPT ![m.room] = 0]
        /\ UNCHANGED <<ui, activeSession, roomID, lostVars, spent>>
    BY <1>1 DEF LeaveRoom, Serve, clientVars
  <2>2. up \in Seq(Message) /\ participant \in [Room -> 0 .. MaxJoin]
    BY BrokerTypes
  <2>3. m \in Message
    BY <1>1, <2>1, <2>2, QueueTypes
  <2>4. QED
    BY <2>1, <2>2, <2>3
<1>3. Call' = Call /\ Top' = Top
  BY <1>2 DEF Call, Top
<1>4. /\ Js(up', "join") = Js(up, "join") /\ Js(up', "leave") \subseteq Js(up, "leave")
      /\ Js(up, "leave") \subseteq Js(up', "leave") \cup {m.j} /\ m.j \in Js(up, "leave")
  BY <1>1, <1>2, JsHead
<1>5. /\ m.room \in Room /\ m.j \in Nat /\ m.j <= Top /\ Top \in Nat
      /\ m.room = roomID[m.j]
  <2>1. \E n \in DOMAIN up : m = up[n]
    BY <1>1, <1>2, WordsTail
  <2>2. m.room = roomID[m.j]
    BY <1>2, <2>1 DEF Told, Housed, Word
  <2>3. QED
    BY <1>2, <1>4, <2>2, MessageType, WordsBegun, UiTypes
<1>6. /\ participant'[m.room] = 0
      /\ \A r \in Room : r # m.room => participant'[r] = participant[r]
  BY <1>2, <1>5
<1>7. /\ InOrder(up') /\ Before("leave", m.j, up')
      /\ \A kind, j : Before(kind, j, up) => Before(kind, j, up') /\ Precedes(kind, j, m)
      /\ \A i \in DOMAIN up' : \E n \in DOMAIN up : up'[i] = up[n]
  BY <1>1, <1>2, WordsTail DEF Told, Word
<1>8. Housed'
  <2>1. \A i \in DOMAIN up' : Word(up'[i]) => up'[i].room = roomID[up'[i].j]
    BY <1>7 DEF Told, Housed
  <2>2. \A r \in Room : participant'[r] # 0 => /\ roomID[participant'[r]] = r
                                               /\ Before("join", participant'[r], up')
    BY <1>5, <1>6, <1>7 DEF Told, Housed
  <2>3. QED
    BY <1>2, <2>1, <2>2 DEF Housed
<1>9. LetGo'
  <2>1. m.j \notin Js(up', "join")
    <3>1. SUFFICES ASSUME NEW i \in DOMAIN up', up'[i].kind = "join", up'[i].j = m.j
                   PROVE  FALSE
      BY DEF Js
    <3>2. Precedes("leave", m.j, up'[i])
      BY <1>7 DEF Before
    <3>3. QED
      BY <1>5, <3>1, <3>2 DEF Precedes, Word
  <2>2. \A r \in Room : participant'[r] # 0 => participant'[r] # m.j /\ participant'[r] = participant[r]
    BY <1>5, <1>6 DEF Told, Housed
  <2>3. QED
    BY <1>2, <1>3, <1>4, <2>1, <2>2 DEF Told, LetGo, lostVars
<1>10. Entered'
  <2>1. SUFFICES ASSUME Call # 0
                 PROVE  \/ participant'[roomID[Call]] = Call
                        \/ Call \in Js(up', "join") \cup unjoined
    BY <1>2, <1>3, <1>4 DEF Told, Entered, lostVars
  <2>2. Call = Top /\ Call \notin Js(up, "leave")
    BY <2>1 DEF Told, Entered
  <2>3. CASE participant[roomID[Call]] = Call
    <3>1. roomID[Call] \in Room
      BY <2>1, CallRoom
    <3>2. Precedes("join", Call, m)
      BY <1>7, <2>1, <2>3, <3>1 DEF Told, Housed
    <3>3. FALSE
      BY <1>2, <1>4, <1>5, <2>2, <3>2 DEF Precedes, Word
    <3>4. QED
      BY <3>3
  <2>4. QED
    BY <1>4, <2>1, <2>3 DEF Told, Entered
<1>11. Unsent'
  BY <1>2, <1>3, <1>4, <1>6, WordsBegun, UiTypes DEF Told, Unsent
<1>12. QED
  BY <1>7, <1>8, <1>9, <1>10, <1>11 DEF Told

(* A word that is not served is lost. *)
LEMMA HeadLost ==
  ASSUME Sound, Told, DropFrame \/ JoinFails
  PROVE  Told'
<1>1. /\ UNCHANGED <<ui, roomID, activeSession, participant>> /\ Event
      /\ up # <<>> /\ up' = Tail(up)
  BY DEF DropFrame, JoinFails, clientVars, brokerVars, Serve
<1>2. Call' = Call /\ Top' = Top
  BY <1>1, Events, BrokerTypes DEF Call
<1>3. up \in Seq(Message) /\ Head(up) \in Message
  BY <1>1, BrokerTypes, QueueTypes
<1>4. CASE DropFrame
  <2>1. Lose({Head(up)})
    BY <1>4 DEF DropFrame
  <2>2. Grown
    <3>1. {Head(up)} \in SUBSET Message
      BY <1>3
    <3>2. QED
      BY <2>1, <3>1, Loses, BrokerTypes
  <2>3. /\ Head(up).kind = "join" => Head(up).j \in unjoined'
        /\ Head(up).kind = "leave" => Head(up).j \in unleft'
    BY <2>1 DEF Lose, JoinsOf
  <2>4. QED
    BY <1>1, <1>2, <2>2, <2>3, ToldQuietly
<1>5. CASE JoinFails
  <2>1. Head(up).kind = "join" /\ unjoined' = unjoined \cup {Head(up).j}
        /\ UNCHANGED <<missed, unleft>>
    BY <1>5 DEF JoinFails, Serve
  <2>2. QED
    BY <1>1, <1>2, <2>1, ToldQuietly DEF Grown
<1>6. QED
  BY <1>4, <1>5

LEMMA LoseLinkTold ==
  ASSUME Sound, Told, LoseLink
  PROVE  Told'
<1>1. PICK ms : ms = {up[i] : i \in DOMAIN up} \cup {down[i] : i \in DOMAIN down}
  OBVIOUS
<1>2. /\ UNCHANGED <<ui, roomID, activeSession, participant>> /\ Event
      /\ up' = <<>> /\ Lose(ms)
  BY <1>1 DEF LoseLink, clientVars, brokerVars
<1>3. Call' = Call /\ Top' = Top
  BY <1>2, Events, BrokerTypes DEF Call
<1>4. DOMAIN up' = {}
  BY <1>2
<1>5. InOrder(up') /\ \A k : Js(up', k) = {}
  BY <1>4 DEF InOrder, Js
<1>6. Js(up, "join") \subseteq unjoined' /\ Js(up, "leave") \subseteq unleft'
  <2>1. \A k : Js(up, k) \subseteq JoinsOf(ms, {k})
    BY <1>1 DEF Js, JoinsOf
  <2>2. QED
    BY <1>2, <2>1 DEF Lose
<1>7. Grown
  BY <1>2 DEF Lose, Grown
<1>8. QED
  BY <1>2, <1>3, <1>4, <1>5, <1>6, <1>7, ToldStays

(* What the broker's steps lose of what it sends. *)
LEMMA PushGrows ==
  ASSUME NEW m, Push(m)
  PROVE  Grown /\ up' = up /\ (Event \/ UNCHANGED spent)
BY DEF Push, Lose, Grown, lostVars

(* Everything else says nothing of calls. *)
LEMMA QuietTold ==
  ASSUME Sound, Told,
         \/ \E j \in Join : ConnectionFails(j)
         \/ Goroutines
         \/ \E r \in Room : TracksChange(r)
         \/ \E n \in renegs : CreateOffer(n) \/ PushOffer(n)
         \/ TakeJoinOffer \/ PushAnswer \/ AnswerFails \/ TakeRestartOffer \/ ApplyAnswer
         \/ UNCHANGED vars
  PROVE  Told'
<1>1. UNCHANGED <<ui, roomID, activeSession, participant>>
  BY DEF ConnectionFails, Goroutines, ReadLoop, HandleAnswer, HandleRestartAnswer, HandleOffer,
         SetOffer, SetAnswer, SendAnswer, RestartOffer, RestartSend, RestartEnd, TracksChange,
         CreateOffer, PushOffer, TakeJoinOffer, PushAnswer, AnswerFails, TakeRestartOffer,
         ApplyAnswer, vars, clientVars, brokerVars
<1>2. Call' = Call
  BY <1>1 DEF Call
<1>3. ASSUME Event \/ UNCHANGED spent, Grown,
             \/ up' = up
             \/ \E m \in Message : ~Word(m) /\ up' = Append(up, m)
             \/ up # <<>> /\ ~Word(Head(up)) /\ up' = Tail(up)
      PROVE  Told'
  <2>1. Top' = Top
    BY <1>3, Events, BrokerTypes
  <2>2. QED
    BY <1>1, <1>2, <1>3, <2>1, ToldQuietly DEF Word
<1>4. ASSUME NEW m \in Message, m.kind \in {"renegAnswer", "restart"}, Send(m), UNCHANGED spent
      PROVE  Told'
  <2>1. ~Word(m)
    BY <1>4 DEF Word
  <2>2. Grown
    BY <1>4, Sends, UiTypes
  <2>3. up' = up \/ up' = Append(up, m)
    BY <1>4 DEF Send
  <2>4. QED
    BY <1>3, <1>4, <2>1, <2>2, <2>3
<1>5. ASSUME NEW a \in answering, SendAnswer(a) PROVE Told'
  <2>1. PICK m : m = Msg("renegAnswer", a.m.room, a.j, 0, a.m.g)
    OBVIOUS
  <2>2. a.m.room \in Room /\ a.m.g \in Nat /\ a.j \in Join
    <3>1. a.m \in Message /\ a.j \in Join
      BY UiTypes, Types DEF Answering
    <3>2. QED
      BY <3>1, MessageType
  <2>3. m \in Message /\ m.kind = "renegAnswer"
    BY <2>1, <2>2, MsgType, Numbers
  <2>4. Send(m) /\ UNCHANGED spent
    BY <1>5, <2>1 DEF SendAnswer
  <2>5. QED
    BY <1>4, <2>3, <2>4
<1>6. ASSUME NEW j \in Join, RestartSend(j) PROVE Told'
  <2>1. PICK m : m = Msg("restart", roomID[j], j, 0, 0)
    OBVIOUS
  <2>2. applied[j] # 0 /\ Send(m) /\ UNCHANGED spent
    BY <1>6, <2>1, BegunFacts DEF RestartSend
  <2>3. roomID[j] \in Room
    BY <2>2, AppliedBegun
  <2>4. m \in Message /\ m.kind = "restart"
    BY <2>1, <2>3, MsgType, Numbers
  <2>5. QED
    BY <1>4, <2>2, <2>4
<1>7. CASE TakeRestartOffer \/ ApplyAnswer
  <2>1. up # <<>> /\ Head(up).kind \in {"restart", "renegAnswer"} /\ up' = Tail(up)
        /\ UNCHANGED lostVars
    BY <1>7 DEF TakeRestartOffer, ApplyAnswer, Serve
  <2>2. Event \/ UNCHANGED spent
    BY <1>7 DEF TakeRestartOffer, ApplyAnswer, TakeOffer
  <2>3. ~Word(Head(up)) /\ Grown
    BY <2>1 DEF Word, Grown, lostVars
  <2>4. QED
    BY <1>3, <2>1, <2>2, <2>3
<1>8. ASSUME UNCHANGED <<up, lostVars>>, Event \/ UNCHANGED spent PROVE Told'
  BY <1>3, <1>8 DEF Grown, lostVars
<1>9. ASSUME NEW m, UNCHANGED <<up, spent>>, Lose({m}) PROVE Told'
  BY <1>3, <1>9 DEF Grown, Lose
<1>10. CASE ReadLoop \/ \E m \in incoming : HandleOffer(m)
  <2>1. /\ UNCHANGED <<up, spent>>
        /\ UNCHANGED lostVars \/ \E m : Lose({m})
    BY <1>10 DEF ReadLoop, HandleOffer, wire
  <2>2. QED
    BY <1>8, <1>9, <2>1
<1>11. CASE Goroutines
  <2>1. CASE \/ \E m \in incoming : HandleAnswer(m) \/ HandleRestartAnswer(m)
             \/ \E a \in answering : SetOffer(a) \/ SetAnswer(a)
             \/ \E j \in Join : RestartOffer(j) \/ RestartEnd(j)
    <3>1. UNCHANGED <<up, lostVars, spent>>
      BY <2>1 DEF HandleAnswer, HandleRestartAnswer, SetOffer, SetAnswer, RestartOffer, RestartEnd,
                  wire
    <3>2. QED
      BY <1>8, <3>1
  <2>2. QED
    BY <1>5, <1>6, <1>10, <1>11, <2>1 DEF Goroutines
<1>12. CASE \/ \E j \in Join : ConnectionFails(j)
            \/ \E r \in Room : TracksChange(r)
            \/ \E n \in renegs : CreateOffer(n)
            \/ TakeJoinOffer \/ AnswerFails \/ UNCHANGED vars
  <2>1. UNCHANGED <<up, lostVars>> /\ (Event \/ UNCHANGED spent)
    BY <1>12 DEF ConnectionFails, TracksChange, CreateOffer, TakeJoinOffer, TakeOffer, AnswerFails,
                 vars, wire
  <2>2. QED
    BY <1>8, <2>1
<1>13. CASE PushAnswer \/ \E n \in renegs : PushOffer(n)
  <2>1. \E m : Push(m)
    BY <1>13 DEF PushAnswer, PushOffer
  <2>2. QED
    BY <1>3, <2>1, PushGrows
<1>14. QED
  BY <1>7, <1>11, <1>12, <1>13

LEMMA NextTold ==
  ASSUME Sound, Told, [Next]_vars
  PROVE  Told'
<1>1. CASE Ui
  BY <1>1, SendJoinTold, EndLeaveTold, CallSame DEF Ui
<1>2. CASE Broker
  BY <1>2, EnterRoomTold, LeaveRoomTold, HeadLost, QuietTold DEF Broker
<1>3. CASE LoseLink
  BY <1>3, LoseLinkTold
<1>4. ASSUME NEW r \in Room, BeginJoin(r) \/ Leave(r) \/ TracksChange(r) PROVE Told'
  BY <1>4, BeginJoinTold, CallSame, QuietTold
<1>5. CASE Goroutines
  BY <1>5, QuietTold
<1>6. ASSUME NEW j \in Join, ConnectionFails(j) PROVE Told'
  BY <1>6, QuietTold
<1>7. CASE UNCHANGED vars
  BY <1>7, QuietTold
<1>8. QED
  BY <1>1, <1>2, <1>3, <1>4, <1>5, <1>6, <1>7 DEF Next

-----------------------------------------------------------------------------
LEMMA InitHolds == Init => IInv
<1> SUFFICES ASSUME Init PROVE IInv
  OBVIOUS
<1>1. Sound
  BY InitSound
<1>2. AnswerIsOwn
  BY DEF Init, AnswerIsOwn
<1>3. Answers
  <2>1. Made = {} /\ Handed = {} /\ InCh = {} /\ DOMAIN up = {} /\ DOMAIN down = {}
    BY DEF Init, Idle, Made, Handed, InCh
  <2>2. Js(up, "join") = {} /\ Js(down, "answer") = {}
    BY <2>1 DEF Js
  <2>3. Awaited = {}
    BY <2>1, <2>2 DEF Awaited
  <2>4. Only(up, "join") /\ Only(down, "answer") /\ \A n \in 1 .. 5 : ~Stage(n)
    BY <2>1, <2>2, OnlyNone DEF Stage
  <2>5. Single
    BY <2>1, <2>4 DEF Single
  <2>6. QED
    BY <2>3, <2>5 DEF Answers
<1>4. Told
  <2>1. /\ DOMAIN up = {} /\ Call = 0 /\ ui.at = "idle"
        /\ \A r \in Room : participant[r] = 0
    BY DEF Init, Idle, Call
  <2>2. Js(up, "join") = {}
    BY <2>1 DEF Js
  <2>3. QED
    BY <2>1, <2>2 DEF Told, InOrder, Housed, LetGo, Entered, Unsent
<1>5. QED
  BY <1>1, <1>2, <1>3, <1>4 DEF IInv, Sound

(* Every step of the client, the broker and the network keeps the          *)
(* invariant.                                                              *)
LEMMA StepHolds ==
  ASSUME IInv, [Next]_vars
  PROVE  IInv'
<1>1. Sound /\ Answers /\ AnswerIsOwn /\ Told
  BY DEF IInv, Sound
<1>2. Sound' /\ Answers' /\ AnswerIsOwn' /\ Told'
  BY <1>1, NextSound, NextAnswers, NextOwn, NextTold
<1>3. QED
  BY <1>2 DEF IInv, Sound

(* Every reachable state satisfies the invariant. *)
THEOREM Inductive == Spec => []IInv
<1>1. IInv /\ [Next]_vars => IInv'
  BY StepHolds
<1>2. QED
  BY <1>1, InitHolds, PTL DEF Spec

(* Every variable of client, broker and wire keeps its type, however many  *)
(* joins, restarts and track changes there are (the types of voice.go).    *)
THEOREM TypeCorrect == Spec => []TypeOK
<1>1. IInv => TypeOK
  BY DEF IInv, Shape
<1>2. QED
  BY <1>1, Inductive, PTL

(* No way out of Join, Leave or the timeout leaves a peer connection open  *)
(* that is not the active session's (voice.go, Join and Leave).            *)
THEOREM PeersKept == Spec => []NoneForgotten
<1>1. IInv => NoneForgotten
  BY DEF IInv
<1>2. QED
  BY <1>1, Inductive, PTL

(* The answer a Join takes is to its own offer, unless an earlier join had *)
(* timed out (handleIncoming does not look at whose answer it is).         *)
THEOREM OwnAnswers == Spec => []AnswerIsOwn
<1>1. IInv => AnswerIsOwn
  BY DEF IInv
<1>2. QED
  BY <1>1, Inductive, PTL

(* With nothing under way the broker's participants are those of the call  *)
(* the client is in, but for one whose leave the broker never served, and  *)
(* for a call whose join it never entered (Join, Leave, readPump,          *)
(* voiceJoin and voiceLeave).                                              *)
THEOREM CallsAgreeAtRest == Spec => []CallsAgree
<1>1. ASSUME IInv, AtRest
      PROVE  /\ \A r \in Room : participant[r] \in {0, activeSession} \cup unleft
             /\ activeSession # 0 => \/ participant[roomID[activeSession]] = activeSession
                                     \/ activeSession \in unjoined
  <2>1. up = <<>> /\ ui = Idle /\ Told
    BY <1>1 DEF AtRest, IInv
  <2>2. Call = activeSession /\ DOMAIN up = {}
    BY <2>1 DEF Call, Idle
  <2>3. Js(up, "join") = {} /\ Js(up, "leave") = {}
    BY <2>2 DEF Js
  <2>4. QED
    BY <2>1, <2>2, <2>3 DEF Told, LetGo, Entered
<1>2. IInv => CallsAgree
  BY <1>1 DEF CallsAgree
<1>3. QED
  BY <1>2, Inductive, PTL

-----------------------------------------------------------------------------
(* What the active session has been sent of the broker's track set.        *)

(* The offers on their way to handleIncoming's goroutines and the answers  *)
(* to them on their way back.                                              *)
In(q, kind) == {q[i] : i \in {n \in DOMAIN q : q[n].kind = kind}}
Offers == In(down, "offer") \cup {m \in incoming : m.kind = "offer"}
Replies == In(up, "renegAnswer")

(* A renegotiation's number is on its call of renegotiateVoice, and then   *)
(* on what came of it.                                                     *)
Out == {m.g : m \in Offers} \cup {a.m.g : a \in answering} \cup {m.g : m \in Replies}
Numbered ==
  /\ \A n \in renegs : n.g \notin Out /\ n.g <= renegCount
  /\ \A n, o \in renegs : n.g = o.g => n = o
  /\ \A g \in Out : g <= renegCount

(* An answer is sent to the room of its call. *)
Placed == /\ \A a \in answering : a.m.room = roomID[a.j]
          /\ \A m \in Replies : m.room = roomID[m.j]

(* The offer of a join is sent before any answer to a renegotiation. *)
Turns(q) ==
  \A i, h \in DOMAIN q :
    i < h /\ q[i].kind = "renegAnswer" /\ q[h].kind = "join" => q[i].j # q[h].j
InTurn ==
  /\ Turns(up)
  /\ ui.at = "offered" => /\ \A m \in Replies : m.j # ui.j
                          /\ \A a \in answering : a.j # ui.j

(* Nothing has come of a join that was not begun. *)
Open(j) == broker[j].sig = "have-local-offer"
Unborn ==
  /\ \A m \in Offers : m.j <= Top
  /\ \A j \in Join : Top < j => /\ client[j].ver = 0 /\ ~Open(j)
                                /\ broker[j].ver = 0 /\ broker[j].tracks = 0

(* The call the client is in, or is making. *)
Live == IF Joining THEN ui.j ELSE IF ui.at = "idle" THEN activeSession ELSE 0

(* The renegotiations under way whose answer will come back as the call's. *)
Tokens(j) ==
  {n.g : n \in {n \in renegs : n.at = "gather" /\ n.j = j}}
  \cup {m.g : m \in {m \in Offers : m.j = j}}
  \cup {a.m.g : a \in {a \in answering : a.j = j}}
  \cup {m.g : m \in {m \in Replies : m.j = j}}

(* They are all the call's own, and carry what the broker offered last. *)
Own(j) ==
  /\ \A m \in Offers : IF m.j = j THEN m.v = broker[j].ver ELSE m.g \notin Tokens(j)
  /\ \A n \in renegs : n.j # j => n.g \notin Tokens(j)
  /\ \A a \in answering :
       a.j = j => (IF a.at = "set" THEN a.m.v ELSE client[j].ver) = broker[j].ver
  /\ \A m \in Replies : m.j = j => client[j].ver = broker[j].ver

(* The broker has offered the present track set, or is about to, unless    *)
(* the answer to the join was too short for it; while its offer is open an *)
(* answer is under way, and if there is only one it is to that offer; with *)
(* no offer open and none under way the client has it.                     *)
Follows(j) ==
  /\ (\A n \in renegs : n.j = j => n.at # "create") /\ j \notin short =>
       broker[j].ver = broker[j].tracks
  /\ Open(j) => Tokens(j) # {}
  /\ ~Open(j) /\ Tokens(j) = {} => client[j].ver = broker[j].ver
  /\ Open(j) /\ (\A g, h \in Tokens(j) : g = h) => Own(j)
Amiss == unjoined \cup refused \cup missed
Followed == Live # 0 /\ Live \notin Amiss => Follows(Live)

Hears == Numbered /\ Placed /\ InTurn /\ Unborn /\ Followed

-----------------------------------------------------------------------------

LEMMA InAppend ==
  ASSUME NEW q \in Seq(Message), NEW m \in Message, NEW k
  PROVE  /\ In(q, k) \subseteq Message
         /\ m.kind = k => In(Append(q, m), k) = In(q, k) \cup {m}
         /\ m.kind # k => In(Append(q, m), k) = In(q, k)
<1>1. PICK p, n : p = Append(q, m) /\ n = Len(q) + 1
  OBVIOUS
<1>2. /\ DOMAIN p = DOMAIN q \cup {n} /\ n \notin DOMAIN q /\ p[n] = m
      /\ \A i \in DOMAIN q : p[i] = q[i] /\ q[i] \in Message
  BY <1>1, QueueTypes
<1>3. m.kind = k => In(p, k) = In(q, k) \cup {m}
  BY <1>2 DEF In
<1>4. m.kind # k => In(p, k) = In(q, k)
  BY <1>2 DEF In
<1>5. In(q, k) \subseteq Message
  BY <1>2 DEF In
<1>6. QED
  BY <1>1, <1>3, <1>4, <1>5

LEMMA InTail ==
  ASSUME NEW q \in Seq(Message), q # <<>>, NEW k
  PROVE  /\ Head(q).kind # k => In(Tail(q), k) = In(q, k)
         /\ Head(q).kind = k => In(q, k) = In(Tail(q), k) \cup {Head(q)}
<1>1. PICK p : p = Tail(q)
  OBVIOUS
<1>2. /\ Head(q) = q[1] /\ 1 \in DOMAIN q /\ Head(q) \in Message
      /\ \A i \in DOMAIN p : p[i] = q[i + 1] /\ i + 1 \in DOMAIN q /\ i + 1 # 1
      /\ \A i \in DOMAIN q : i # 1 => i - 1 \in DOMAIN p /\ p[i - 1] = q[i]
  <2>1. Head(q) \in Message
    OBVIOUS
  <2>2. QED
    BY <1>1, <2>1, QueueTypes
<1>3. In(p, k) \subseteq In(q, k)
  <2>1. SUFFICES ASSUME NEW m \in In(p, k) PROVE m \in In(q, k)
    OBVIOUS
  <2>2. PICK i \in DOMAIN p : p[i].kind = k /\ p[i] = m
    BY DEF In
  <2>3. i + 1 \in DOMAIN q /\ q[i + 1].kind = k /\ q[i + 1] = m
    BY <1>2, <2>2
  <2>4. QED
    BY <2>3 DEF In
<1>4. ASSUME NEW m \in In(q, k), m # Head(q) PROVE m \in In(p, k)
  <2>1. PICK i \in DOMAIN q : q[i].kind = k /\ q[i] = m
    BY DEF In
  <2>2. i - 1 \in DOMAIN p /\ p[i - 1].kind = k /\ p[i - 1] = m
    BY <1>2, <1>4, <2>1
  <2>3. QED
    BY <2>2 DEF In
<1>5. Head(q).kind = k => Head(q) \in In(q, k)
  BY <1>2 DEF In
<1>6. \A m \in In(q, k) : m.kind = k
  BY DEF In
<1>7. QED
  BY <1>1, <1>3, <1>4, <1>5, <1>6

LEMMA InSame ==
  ASSUME NEW q \in Seq(Message), NEW p, NEW k, Still(q, p, k)
  PROVE  In(p, k) = In(q, k)
<1>1. CASE p = q
  BY <1>1
<1>2. ASSUME NEW m \in Message, m.kind # k, p = Append(q, m)
      PROVE  In(p, k) = In(q, k)
  BY <1>2, InAppend
<1>3. CASE q # <<>> /\ Head(q).kind # k /\ p = Tail(q)
  BY <1>3, InTail
<1>4. QED
  BY <1>1, <1>2, <1>3 DEF Still

(* The messages that matter, and their types. *)
LEMMA StreamTypes ==
  ASSUME Sound
  PROVE  /\ Offers \subseteq Message /\ Replies \subseteq Message
         /\ \A m \in Offers : m.kind = "offer"
         /\ \A m \in Replies : m.kind = "renegAnswer" /\ m.j <= Top
         /\ \A m \in Offers \cup Replies :
              m.j \in Join /\ m.v \in Nat /\ m.g \in Nat
         /\ \A a \in answering : /\ a.m \in Message /\ a.j \in Join /\ a.m.g \in Nat
                                 /\ a.at \in {"set", "answer", "send"} /\ a.j <= Top
         /\ \A n \in renegs : /\ n.j \in Join /\ n.g \in Nat /\ n.at \in {"create", "gather"}
                              /\ n.j <= Top
         /\ renegCount \in Nat /\ Top \in Nat
<1>1. /\ TypeOK /\ Begun /\ up \in Seq(Message) /\ down \in Seq(Message)
      /\ incoming \subseteq Message /\ answering \subseteq Answering /\ renegs \subseteq Reneg
      /\ renegCount \in Nat /\ Top \in Nat /\ \A i \in DOMAIN up : up[i].j <= Top
      /\ (\A a \in answering : a.j <= Top) /\ (\A n \in renegs : n.j <= Top)
  BY BegunFacts, Types, Order
<1>2. /\ \A i \in DOMAIN up : up[i] \in Message
      /\ \A i \in DOMAIN down : down[i] \in Message
  BY <1>1
<1>3. Offers \subseteq Message /\ \A m \in Offers : m.kind = "offer"
  BY <1>1, <1>2 DEF Offers, In
<1>4. Replies \subseteq Message /\ \A m \in Replies : m.kind = "renegAnswer" /\ m.j <= Top
  BY <1>1, <1>2 DEF Replies, In
<1>5. ASSUME NEW m \in Message PROVE m.j \in Join /\ m.v \in Nat /\ m.g \in Nat
  BY <1>5, MessageType, Bounds
<1>6. ASSUME NEW a \in answering
      PROVE  /\ a.m \in Message /\ a.j \in Join /\ a.m.g \in Nat
             /\ a.at \in {"set", "answer", "send"} /\ a.j <= Top
  <2>1. a.m \in Message /\ a.j \in Join /\ a.at \in {"set", "answer", "send"}
    BY <1>1, <1>6 DEF Answering
  <2>2. QED
    BY <1>1, <1>5, <2>1
<1>7. ASSUME NEW n \in renegs
      PROVE n.j \in Join /\ n.g \in Nat /\ n.at \in {"create", "gather"} /\ n.j <= Top
  BY <1>1, <1>7, Bounds DEF Reneg
<1>8. QED
  BY <1>1, <1>3, <1>4, <1>5, <1>6, <1>7

LEMMA LiveFacts ==
  ASSUME Sound
  PROVE  /\ Live # 0 => Live \in Join /\ Live <= Top /\ activeSession \in {0, Live}
         /\ Live # 0 /\ ~(Call = Live) => ui.at = "offered" /\ Live = ui.j
<1>1. /\ ui.at # "idle" => ui.j \in Join
      /\ ui.at = "idle" => ui.j = 0
      /\ activeSession # 0 => activeSession \in Join
      /\ activeSession <= Top /\ ui.j <= Top
  BY UiTypes
<1>2. ui.at \in {"idle", "offered", "sent", "active", "waiting", "leaving"}
  BY UiTypes DEF UiType
<1>3. /\ ui.at \in {"offered", "sent"} => activeSession = 0
      /\ ui.at \in {"active", "waiting"} => activeSession = ui.j
  BY OrderFacts
<1>4. CASE Joining
  <2>1. Live = ui.j /\ ui.at \in {"offered", "sent", "active", "waiting"}
    BY <1>4 DEF Live, Joining
  <2>2. activeSession \in {0, ui.j} /\ (ui.at # "offered" => Call = ui.j)
    BY <1>3, <2>1 DEF Call
  <2>3. QED
    BY <1>1, <2>1, <2>2
<1>5. CASE ui.at = "idle"
  BY <1>1, <1>5 DEF Live, Joining, Call
<1>6. CASE ui.at = "leaving"
  BY <1>6 DEF Live, Joining
<1>7. QED
  BY <1>2, <1>4, <1>5, <1>6 DEF Joining

(* No token is made and no version changes. *)
Calm ==
  /\ Offers' = Offers /\ Replies' = Replies
  /\ UNCHANGED <<answering, renegs, renegCount, short>> /\ Top' = Top
  /\ \A j \in Join : client'[j].ver = client[j].ver
  /\ \A j \in Join : /\ broker'[j].ver = broker[j].ver /\ broker'[j].tracks = broker[j].tracks
                     /\ Open(j)' => Open(j)
  /\ Amiss \subseteq Amiss'

LEMMA CalmNumbered ==
  ASSUME Numbered, Offers' = Offers, Replies' = Replies, UNCHANGED <<answering, renegs, renegCount>>
  PROVE  Numbered'
<1>1. Out' = Out
  BY DEF Out
<1>2. QED
  BY <1>1 DEF Numbered

LEMMA CalmFollowed ==
  ASSUME Sound, Followed, Calm, Live' \in {0, Live}
  PROVE  Followed'
<1> SUFFICES ASSUME Live' # 0, Live' \notin Amiss' PROVE Follows(Live)'
  BY DEF Followed
<1>1. PICK j : j = Live
  OBVIOUS
<1>2. j \in Join /\ Live' = j /\ j \notin Amiss
  BY <1>1, LiveFacts DEF Calm
<1>3. Follows(j)
  BY <1>1, <1>2 DEF Followed
<1>4. Tokens(j)' = Tokens(j)
  BY DEF Calm, Tokens
<1>5. /\ (Open(j)' => Open(j)) /\ client'[j].ver = client[j].ver
      /\ broker'[j].ver = broker[j].ver /\ broker'[j].tracks = broker[j].tracks
  BY <1>2 DEF Calm
<1>6. Own(j) => Own(j)'
  BY <1>4, <1>5 DEF Calm, Own
<1>7. Follows(j)'
  BY <1>3, <1>4, <1>5, <1>6 DEF Follows, Calm
<1>8. QED
  BY <1>2, <1>7

LEMMA CalmHears ==
  ASSUME Sound, Hears, Calm, Live' \in {0, Live}, roomID' = roomID, InTurn'
  PROVE  Hears'
<1>1. Numbered'
  BY CalmNumbered DEF Hears, Calm
<1>2. Placed'
  BY DEF Hears, Calm, Placed
<1>3. Unborn'
  BY DEF Hears, Calm, Unborn
<1>4. Followed'
  BY CalmFollowed DEF Hears
<1>5. QED
  BY <1>1, <1>2, <1>3, <1>4 DEF Hears

LEMMA TurnsAppend ==
  ASSUME NEW q \in Seq(Message), NEW m \in Message, Turns(q),
         m.kind = "join" => \A x \in In(q, "renegAnswer") : x.j # m.j
  PROVE  Turns(Append(q, m))
<1>1. PICK p, n : p = Append(q, m) /\ n = Len(q) + 1
  OBVIOUS
<1>2. /\ DOMAIN p = DOMAIN q \cup {n} /\ n \notin DOMAIN q /\ p[n] = m
      /\ \A i \in DOMAIN q : p[i] = q[i] /\ i < n
      /\ DOMAIN q \subseteq Nat /\ n \in Nat
  BY <1>1, QueueTypes
<1>3. ASSUME NEW i \in DOMAIN p, NEW h \in DOMAIN p,
             i < h, p[i].kind = "renegAnswer", p[h].kind = "join"
      PROVE  p[i].j # p[h].j
  <2>1. i \in DOMAIN q
    BY <1>2, <1>3
  <2>2. CASE h \in DOMAIN q
    BY <1>2, <1>3, <2>1, <2>2 DEF Turns
  <2>3. CASE h = n
    <3>1. p[i] \in In(q, "renegAnswer") /\ m.kind = "join" /\ p[h] = m
      BY <1>2, <1>3, <2>1, <2>3 DEF In
    <3>2. QED
      BY <3>1
  <2>4. QED
    BY <1>2, <2>2, <2>3
<1>4. QED
  BY <1>1, <1>3 DEF Turns

LEMMA TurnsTail ==
  ASSUME NEW q \in Seq(Message), q # <<>>, Turns(q)
  PROVE  Turns(Tail(q))
<1>1. PICK p : p = Tail(q)
  OBVIOUS
<1>2. /\ \A i \in DOMAIN p : p[i] = q[i + 1] /\ i + 1 \in DOMAIN q
      /\ DOMAIN p \subseteq Nat
  <2>1. Head(q) \in Message
    OBVIOUS
  <2>2. QED
    BY <1>1, <2>1, QueueTypes
<1>3. ASSUME NEW i \in DOMAIN p, NEW h \in DOMAIN p,
             i < h, p[i].kind = "renegAnswer", p[h].kind = "join"
      PROVE  p[i].j # p[h].j
  <2>1. i + 1 < h + 1
    BY <1>2, <1>3
  <2>2. QED
    BY <1>2, <1>3, <2>1 DEF Turns
<1>4. QED
  BY <1>1, <1>3 DEF Turns

LEMMA ClientSig ==
  ASSUME TypeOK, NEW j \in Join, NEW s, client' = [client EXCEPT ![j].sig = s]
  PROVE  \A i \in Join : client'[i].ver = client[i].ver
<1>1. client \in [Join -> Peer]
  BY Types
<1>2. PICK p : p = [client[j] EXCEPT !.sig = s]
  OBVIOUS
<1>3. p.ver = client[j].ver
  BY <1>1, <1>2 DEF Peer
<1>4. client' = [client EXCEPT ![j] = p]
  BY <1>2
<1>5. QED
  BY <1>1, <1>3, <1>4

LEMMA BrokerSig ==
  ASSUME TypeOK, NEW j \in Join, NEW s, broker' = [broker EXCEPT ![j].sig = s]
  PROVE  /\ broker'[j].sig = s
         /\ \A i \in Join : i # j => broker'[i] = broker[i]
         /\ \A i \in Join : broker'[i].ver = broker[i].ver /\ broker'[i].tracks = broker[i].tracks
         /\ s # "have-local-offer" => \A i \in Join : Open(i)' => Open(i)
<1>1. broker \in [Join -> BrokerPeer]
  BY Types
<1>2. PICK p : p = [broker[j] EXCEPT !.sig = s]
  OBVIOUS
<1>3. p.ver = broker[j].ver /\ p.tracks = broker[j].tracks /\ p.sig = s
  BY <1>1, <1>2 DEF BrokerPeer
<1>4. broker' = [broker EXCEPT ![j] = p]
  BY <1>2
<1>5. QED
  BY <1>1, <1>3, <1>4 DEF Open

(* A step of the queues that concerns no renegotiation. *)
LEMMA StreamsSame ==
  ASSUME Sound, Still(up, up', "renegAnswer"), Still(down, down', "offer"),
         \A m : m.kind = "offer" => (m \in incoming' <=> m \in incoming)
  PROVE  Offers' = Offers /\ Replies' = Replies
<1>1. up \in Seq(Message) /\ down \in Seq(Message)
  BY BrokerTypes
<1>2. In(up', "renegAnswer") = In(up, "renegAnswer") /\ In(down', "offer") = In(down, "offer")
  BY <1>1, InSame
<1>3. QED
  BY <1>2 DEF Offers, Replies

(* Steps beside the user interface that leave the renegotiations alone. *)
LEMMA BesideHears ==
  ASSUME Sound, Hears,
         UNCHANGED <<ui, activeSession, roomID, answering, renegs, renegCount, short>>,
         Top' = Top,
         \A m : m.kind = "offer" => (m \in incoming' <=> m \in incoming),
         Still(down, down', "offer"),
         \/ up' = up
         \/ \E m \in Message : m.kind \notin {"join", "renegAnswer"} /\ up' = Append(up, m)
         \/ up # <<>> /\ Head(up).kind # "renegAnswer" /\ up' = Tail(up),
         \A j \in Join : client'[j].ver = client[j].ver,
         \A j \in Join : /\ broker'[j].ver = broker[j].ver /\ broker'[j].tracks = broker[j].tracks
                         /\ Open(j)' => Open(j),
         Amiss \subseteq Amiss'
  PROVE  Hears'
<1>1. up \in Seq(Message) /\ Turns(up)
  BY BrokerTypes DEF Hears, InTurn
<1>2. Still(up, up', "renegAnswer")
  BY DEF Still
<1>3. Offers' = Offers /\ Replies' = Replies
  BY <1>2, StreamsSame
<1>4. Turns(up')
  BY <1>1, TurnsAppend, TurnsTail
<1>5. InTurn'
  BY <1>3, <1>4 DEF Hears, InTurn
<1>6. Live' = Live
  BY DEF Live, Joining
<1>7. Calm
  BY <1>3 DEF Calm
<1>8. QED
  BY <1>5, <1>6, <1>7, CalmHears

(* The client's other goroutines. *)
LEMMA ClientHears ==
  ASSUME Sound, Hears,
         \/ \E m \in incoming : HandleAnswer(m) \/ HandleRestartAnswer(m)
         \/ \E j \in Join : ConnectionFails(j) \/ RestartOffer(j) \/ RestartSend(j) \/ RestartEnd(j)
         \/ UNCHANGED vars
  PROVE  Hears'
<1>1. TypeOK /\ down \in Seq(Message) /\ up \in Seq(Message)
  BY BrokerTypes
<1>2. /\ UNCHANGED <<ui, activeSession, roomID, answering, renegs, renegCount, short, broker, down>>
      /\ Top' = Top /\ Amiss \subseteq Amiss'
  <2>1. UNCHANGED <<ui, activeSession, roomID, answering, renegs, renegCount, short, broker>>
        /\ refused \subseteq refused' /\ (Event \/ UNCHANGED spent)
    BY DEF HandleAnswer, HandleRestartAnswer, ConnectionFails, RestartOffer, RestartSend,
           RestartEnd, vars, clientVars, brokerVars
  <2>2. down' = down /\ Grown
    BY DEF HandleAnswer, HandleRestartAnswer, ConnectionFails, RestartOffer, RestartSend,
           RestartEnd, vars, wire, Send, Lose, lostVars, Grown
  <2>3. QED
    BY <1>1, <2>1, <2>2, Events DEF Amiss, Grown
<1>3. Still(down, down', "offer")
  BY <1>2 DEF Still
<1>4. \A m : m.kind = "offer" => (m \in incoming' <=> m \in incoming)
  BY DEF HandleAnswer, HandleRestartAnswer, ConnectionFails, RestartOffer, RestartSend,
         RestartEnd, vars, clientVars
<1>5. \A j \in Join : client'[j].ver = client[j].ver
  <2>1. client' = client \/ \E j \in Join, s \in Signalling : client' = [client EXCEPT ![j].sig = s]
    <3>1. Becomes.localOffer \in Signalling /\ Becomes.remoteAnswer \in Signalling
      BY Sigs
    <3>2. QED
      BY <3>1 DEF HandleAnswer, HandleRestartAnswer, ConnectionFails, RestartOffer, RestartSend,
           RestartEnd, vars, clientVars
  <2>2. QED
    BY <1>1, <2>1, ClientSig
<1>6. \/ up' = up
      \/ \E m \in Message : m.kind \notin {"join", "renegAnswer"} /\ up' = Append(up, m)
  <2>1. ASSUME NEW j \in Join, RestartSend(j)
        PROVE  \/ up' = up
               \/ \E m \in Message : m.kind \notin {"join", "renegAnswer"} /\ up' = Append(up, m)
    <3>1. PICK m : m = Msg("restart", roomID[j], j, 0, 0)
      OBVIOUS
    <3>2. applied[j] # 0 /\ Send(m)
      BY <2>1, <3>1, BegunFacts DEF RestartSend
    <3>3. roomID[j] \in Room
      BY <3>2, AppliedBegun
    <3>4. m \in Message
      BY <3>1, <3>3, MsgType, Numbers
    <3>5. m.kind = "restart"
      BY <3>1 DEF Msg
    <3>6. QED
      BY <3>2, <3>4, <3>5 DEF Send
  <2>2. QED
    BY <2>1 DEF HandleAnswer, HandleRestartAnswer, ConnectionFails, RestartOffer,
           RestartEnd, vars, wire
<1>7. QED
  BY <1>2, <1>3, <1>4, <1>5, <1>6, BesideHears DEF Open

LEMMA WiredEffect ==
  ASSUME Sound, NEW p \in 0 .. MaxJoin
  PROVE  \A j \in Join : /\ Wired(p)[j].ver = broker[j].ver /\ Wired(p)[j].sig = broker[j].sig
                         /\ j # p => Wired(p)[j] = broker[j]
<1>1. CASE p = 0
  BY <1>1 DEF Wired
<1>2. CASE p # 0
  <2>1. p \in Join /\ broker \in [Join -> BrokerPeer] /\ 1 \in Nat
    BY <1>2, Numbers, BrokerTypes
  <2>2. PICK b : b = [broker[p] EXCEPT !.tracks = @ + 1]
    OBVIOUS
  <2>3. b.ver = broker[p].ver /\ b.sig = broker[p].sig
    BY <2>1, <2>2 DEF BrokerPeer
  <2>4. Wired(p) = [broker EXCEPT ![p] = b]
    BY <1>2, <2>2 DEF Wired
  <2>5. Wired(p)[p] = b /\ \A j \in Join : j # p => Wired(p)[j] = broker[j]
    BY <2>1, <2>4
  <2>6. QED
    BY <2>3, <2>5
<1>3. QED
  BY <1>1, <1>2

LEMMA EnteredEffect ==
  ASSUME NEW w \in [Join -> BrokerPeer], NEW j \in Join, NEW n,
         broker' = [w EXCEPT ![j].sig = "stable", ![j].tracks = @ + n]
  PROVE  /\ \A i \in Join : broker'[i].ver = w[i].ver
         /\ \A i \in Join : i # j => broker'[i] = w[i]
         /\ broker'[j].sig = "stable"
         /\ n = 0 => broker'[j].tracks = w[j].tracks
<1>1. PICK c : c = [w[j] EXCEPT !.sig = "stable", !.tracks = @ + n]
  OBVIOUS
<1>2. w[j] \in BrokerPeer
  OBVIOUS
<1>3. c.sig = "stable" /\ c.ver = w[j].ver /\ c.tracks = w[j].tracks + n
  BY <1>1, <1>2 DEF BrokerPeer
<1>4. n = 0 => c.tracks = w[j].tracks
  BY <1>2, <1>3 DEF BrokerPeer
<1>5. broker' = [w EXCEPT ![j] = c]
  BY <1>1
<1>6. QED
  BY <1>3, <1>4, <1>5

(* Tokens are numbers that were given out. *)
LEMMA TokenBound ==
  ASSUME Sound, Numbered, NEW j
  PROVE  /\ \A g \in Tokens(j) : g <= renegCount /\ g \in Nat
         /\ \A n \in renegs : n.at = "create" => n.g \notin Tokens(j)
<1>1. \A g \in Tokens(j) : g \in Out \/ \E n \in renegs : n.at = "gather" /\ n.g = g
  BY DEF Tokens, Out
<1>2. \A g \in Out : g <= renegCount /\ g \in Nat
  BY StreamTypes DEF Numbered, Out
<1>3. \A n \in renegs : n.g <= renegCount /\ n.g \in Nat
  BY StreamTypes DEF Numbered
<1>4. ASSUME NEW n \in renegs, n.at = "create" PROVE n.g \notin Tokens(j)
  BY <1>1, <1>4 DEF Numbered
<1>5. QED
  BY <1>1, <1>2, <1>3, <1>4

(* A goroutine that sets out takes a new number. *)
LEMMA NewNumber ==
  ASSUME Sound, Numbered, NEW p, Renegotiate(p), Offers' = Offers, Replies' = Replies,
         answering' = answering
  PROVE  Numbered'
<1>1. PICK g, n : g = renegCount + 1 /\ n = [j |-> p, g |-> g, at |-> "create"]
  OBVIOUS
<1>2. renegCount' = g /\ renegs' = renegs \cup {n} /\ n.g = g
  BY <1>1 DEF Renegotiate
<1>3. Out' = Out
  BY DEF Out
<1>4. \A x \in Out : x <= renegCount /\ x \in Nat
  BY StreamTypes DEF Numbered, Out
<1>5. \A o \in renegs : o.g <= renegCount /\ o.g \in Nat /\ o.g \notin Out
  BY StreamTypes DEF Numbered
<1>6. /\ \A x \in Out : x <= g /\ x # g
      /\ \A o \in renegs : o.g <= g /\ o.g # g
      /\ g <= g
  BY <1>1, <1>4, <1>5, StreamTypes
<1>7. \A o, q \in renegs' : o.g = q.g => o = q
  BY <1>2, <1>6 DEF Numbered
<1>8. QED
  BY <1>2, <1>3, <1>5, <1>6, <1>7 DEF Numbered

(* Tracks change, of p's connection and of those that are left short, and  *)
(* for p a renegotiation sets out.                                         *)
LEMMA WiredHears ==
  ASSUME Sound, Hears, NEW p \in 0 .. MaxJoin, p <= Top, WireOwn(p),
         UNCHANGED <<ui, activeSession, roomID, client, answering>>,
         Offers' = Offers, Replies' = Replies, Turns(up'), Top' = Top, Amiss \subseteq Amiss',
         \A j \in Join : broker'[j].ver = broker[j].ver /\ (Open(j)' => Open(j)),
         \A j \in Join : j # p => \/ j \in short'
                                  \/ broker'[j].tracks = broker[j].tracks /\ j \notin short,
         \A j \in Join : Top < j => broker'[j].tracks = broker[j].tracks
  PROVE  Hears'
<1>1. /\ renegs \subseteq renegs'
      /\ \A o \in renegs' : o \in renegs \/ (/\ o.j = p /\ o.at = "create"
                                             /\ o.g = renegCount + 1)
      /\ p # 0 => \E o \in renegs' : o.j = p /\ o.at = "create"
  <2>1. CASE p = 0
    BY <2>1 DEF WireOwn
  <2>2. CASE p # 0
    <3>1. PICK n : n = [j |-> p, g |-> renegCount + 1, at |-> "create"]
      OBVIOUS
    <3>2. renegs' = renegs \cup {n} /\ n.j = p /\ n.at = "create" /\ n.g = renegCount + 1
      BY <2>2, <3>1 DEF WireOwn, Renegotiate
    <3>3. QED
      BY <3>2
  <2>3. QED
    BY <2>1, <2>2
<1>2. Numbered'
  <2>1. CASE p = 0
    BY <2>1, CalmNumbered DEF Hears, WireOwn
  <2>2. CASE p # 0
    BY <2>2, NewNumber DEF Hears, WireOwn
  <2>3. QED
    BY <2>1, <2>2
<1>3. Placed' /\ InTurn' /\ Live' = Live
  BY DEF Hears, Placed, InTurn, Live, Joining
<1>4. Unborn'
  BY DEF Hears, Unborn
<1>5. Followed'
  <2>1. SUFFICES ASSUME Live # 0, Live \notin Amiss PROVE Follows(Live)'
    BY <1>3 DEF Followed
  <2>2. PICK j \in Join : j = Live
    BY <2>1, LiveFacts
  <2>3. Follows(j)
    BY <2>1, <2>2 DEF Hears, Followed
  <2>4. {o \in renegs : o.at = "gather" /\ o.j = j}' = {o \in renegs : o.at = "gather" /\ o.j = j}
    BY <1>1
  <2>5. Tokens(j)' = Tokens(j)
    BY <2>4 DEF Tokens
  <2>6. renegCount + 1 \notin Tokens(j)
    <3>1. \A x \in Tokens(j) : x <= renegCount /\ x \in Nat
      BY TokenBound DEF Hears
    <3>2. QED
      BY <3>1, StreamTypes
  <2>7. Own(j) => Own(j)'
    BY <1>1, <2>5, <2>6 DEF Own
  <2>8. ASSUME \A o \in renegs' : o.j = j => o.at # "create", j \notin short'
        PROVE  broker'[j].ver = broker'[j].tracks
    <3>1. p # j
      BY <1>1, <2>2, <2>8, Numbers
    <3>2. broker'[j].tracks = broker[j].tracks /\ j \notin short
      BY <2>8, <3>1
    <3>3. \A o \in renegs : o.j = j => o.at # "create"
      BY <1>1, <2>8
    <3>4. QED
      BY <2>3, <3>2, <3>3 DEF Follows
  <2>9. ASSUME ~Open(j)', Tokens(j) = {} PROVE client[j].ver = broker[j].ver
    BY <2>3, <2>9 DEF Follows
  <2>10. Follows(j)'
    BY <2>3, <2>5, <2>7, <2>8, <2>9 DEF Follows
  <2>11. QED
    BY <1>3, <2>2, <2>10
<1>6. QED
  BY <1>2, <1>3, <1>4, <1>5 DEF Hears

(* Another user's coming or going sets a renegotiation off. *)
LEMMA TracksHears ==
  ASSUME Sound, Hears, NEW r \in Room, TracksChange(r)
  PROVE  Hears'
<1>1. PICK p : p = participant[r]
  OBVIOUS
<1>2. /\ p # 0 /\ Event /\ Renegotiate(p) /\ short' = short \ {p}
      /\ broker' = [broker EXCEPT ![p].tracks = @ + 1]
      /\ UNCHANGED <<ui, activeSession, roomID, client, answering, incoming, up, down, refused,
                     lostVars>>
      /\ Offers' = Offers /\ Replies' = Replies
  BY <1>1 DEF TracksChange, clientVars, wire, Offers, Replies
<1>3. p \in 0 .. MaxJoin /\ p <= Top /\ p \in Join /\ Top' = Top
  <2>1. p \in 0 .. MaxJoin /\ p <= Top
    BY <1>1, BrokerTypes, BegunFacts
  <2>2. QED
    BY <1>2, <2>1, Numbers, Events, BrokerTypes
<1>4. /\ \A j \in Join : broker'[j].ver = broker[j].ver /\ (Open(j)' => Open(j))
      /\ \A j \in Join : j # p => broker'[j].tracks = broker[j].tracks
  <2>1. broker' = Wired(p)
    BY <1>2 DEF Wired
  <2>2. QED
    BY <1>3, <2>1, WiredEffect DEF Open
<1>5. \A j \in Join : Top < j => j # p
  BY <1>3, StreamTypes, Numbers
<1>6. WireOwn(p) /\ Turns(up') /\ Amiss' = Amiss
  BY <1>2 DEF WireOwn, Hears, InTurn, Amiss, lostVars
<1>7. \A j \in Join : j # p => j \in short' \/ j \notin short
  BY <1>2
<1>8. QED
  BY <1>2, <1>3, <1>4, <1>5, <1>6, <1>7, WiredHears

(* What is lost of the call's own offers and answers leaves it amiss. *)
LEMMA LostHears ==
  ASSUME Sound, Hears,
         UNCHANGED <<ui, activeSession, roomID, client, broker, renegCount, short>>,
         Offers' \subseteq Offers, Replies' \subseteq Replies,
         answering' \subseteq answering, renegs' \subseteq renegs,
         \A m \in Offers : m \in Offers' \/ m.j \in missed',
         \A m \in Replies : m \in Replies' \/ m.j \in missed',
         \A a \in answering : a \in answering' \/ a.j \in missed',
         \A n \in renegs : n \in renegs' \/ n.j \in missed',
         Turns(up'), Top' = Top, Amiss \subseteq Amiss'
  PROVE  Hears'
<1>1. Out' \subseteq Out
  BY DEF Out
<1>2. Numbered'
  BY <1>1 DEF Hears, Numbered
<1>3. Placed' /\ InTurn' /\ Unborn' /\ Live' = Live
  BY DEF Hears, Placed, InTurn, Unborn, Open, Live, Joining
<1>4. Followed'
  <2>1. SUFFICES ASSUME Live # 0, Live \notin Amiss, Live \notin missed' PROVE Follows(Live)'
    BY <1>3 DEF Followed, Amiss
  <2>2. PICK j : j = Live
    OBVIOUS
  <2>3. Follows(j)
    BY <2>1, <2>2 DEF Hears, Followed
  <2>4. /\ {m \in Offers : m.j = j}' = {m \in Offers : m.j = j}
        /\ {m \in Replies : m.j = j}' = {m \in Replies : m.j = j}
        /\ {a \in answering : a.j = j}' = {a \in answering : a.j = j}
        /\ {n \in renegs : n.j = j}' = {n \in renegs : n.j = j}
    BY <2>1, <2>2
  <2>5. {n \in renegs : n.at = "gather" /\ n.j = j}' = {n \in renegs : n.at = "gather" /\ n.j = j}
    BY <2>1, <2>2
  <2>6. Tokens(j)' = Tokens(j)
    BY <2>4, <2>5 DEF Tokens
  <2>7. Own(j) => Own(j)'
    BY <2>6 DEF Own
  <2>8. (\A n \in renegs' : n.j = j => n.at # "create") =>
           \A n \in renegs : n.j = j => n.at # "create"
    BY <2>1, <2>2
  <2>9. Follows(j)'
    BY <2>3, <2>6, <2>7, <2>8 DEF Follows, Open
  <2>10. QED
    BY <1>3, <2>2, <2>9
<1>5. QED
  BY <1>2, <1>3, <1>4 DEF Hears

(* The WebSocket is gone and what was on it. *)
LEMMA LoseHears ==
  ASSUME Sound, Hears, LoseLink
  PROVE  Hears'
<1>1. PICK ms : ms = {up[i] : i \in DOMAIN up} \cup {down[i] : i \in DOMAIN down}
  OBVIOUS
<1>2. /\ up' = <<>> /\ down' = <<>> /\ Event /\ Lose(ms)
      /\ UNCHANGED <<ui, activeSession, roomID, client, incoming, answering, broker, renegs,
                     renegCount, short, refused>>
  BY <1>1 DEF LoseLink, clientVars, brokerVars
<1>3. Top' = Top
  BY <1>2, Events, BrokerTypes
<1>4. Replies' = {} /\ Offers' = {m \in incoming : m.kind = "offer"} /\ DOMAIN up' = {}
  BY <1>2 DEF Replies, Offers, In
<1>5. /\ \A m \in Replies : m \in ms /\ m.kind = "renegAnswer"
      /\ \A m \in Offers : m \in Offers' \/ (m \in ms /\ m.kind = "offer")
  BY <1>1, <1>4 DEF Replies, Offers, In
<1>6. \A m \in ms : m.kind \in {"offer", "renegAnswer"} => m.j \in missed'
  BY <1>2 DEF Lose, JoinsOf
<1>7. Offers' \subseteq Offers /\ Turns(up') /\ Amiss \subseteq Amiss'
  BY <1>2, <1>4 DEF Offers, Turns, Lose, Amiss
<1>8. QED
  BY <1>2, <1>3, <1>4, <1>5, <1>6, <1>7, LostHears

(* A frame is dropped. *)
LEMMA DropHears ==
  ASSUME Sound, Hears, DropFrame
  PROVE  Hears'
<1>1. PICK m : m = Head(up)
  OBVIOUS
<1>2. /\ up # <<>> /\ up' = Tail(up) /\ Event /\ Lose({m})
      /\ UNCHANGED <<ui, activeSession, roomID, client, incoming, answering, broker, renegs,
                     renegCount, short, down, refused>>
  BY <1>1 DEF DropFrame, Serve, clientVars, brokerVars
<1>3. Top' = Top /\ up \in Seq(Message) /\ Offers' = Offers
  BY <1>2, Events, BrokerTypes DEF Offers
<1>4. /\ m.kind # "renegAnswer" => Replies' = Replies
      /\ m.kind = "renegAnswer" => Replies = Replies' \cup {m}
  BY <1>1, <1>2, <1>3, InTail DEF Replies
<1>5. m.kind = "renegAnswer" => m.j \in missed'
  BY <1>2 DEF Lose, JoinsOf
<1>6. Turns(up') /\ Amiss \subseteq Amiss'
  BY <1>2, <1>3, TurnsTail DEF Hears, InTurn, Lose, Amiss
<1>7. QED
  BY <1>2, <1>3, <1>4, <1>5, <1>6, LostHears

(* A join is served, or comes to nothing. *)
LEMMA JoinHears ==
  ASSUME Sound, Hears, EnterRoom \/ JoinFails
  PROVE  Hears'
<1>1. PICK m : m = Head(up)
  OBVIOUS
<1>2. /\ Serve("join")
      /\ Event \/ UNCHANGED spent
      /\ UNCHANGED <<ui, activeSession, roomID, client, incoming, answering, down, refused, missed>>
      /\ unjoined \subseteq unjoined'
  BY DEF EnterRoom, JoinFails, clientVars, lostVars
<1>3. /\ up # <<>> /\ up' = Tail(up) /\ m.kind = "join" /\ m \in Message /\ up \in Seq(Message)
      /\ m.j <= Top
  <2>1. TypeOK /\ Begun /\ Serve("join") /\ up \in Seq(Message)
    BY <1>2, BrokerTypes, BegunFacts
  <2>2. /\ up # <<>> /\ Head(up).kind = "join" /\ up' = Tail(up)
        /\ Head(up) \in Message /\ Head(up).j <= Top
    BY <2>1, Serves
  <2>3. QED
    BY <1>1, <2>1, <2>2
<1>4. m.room \in Room /\ m.j \in Join /\ Top' = Top /\ Offers' = Offers /\ 0 <= Top
  BY <1>2, <1>3, MessageType, Events, BrokerTypes DEF Offers
<1>5. Replies' = Replies /\ Turns(up') /\ Amiss \subseteq Amiss'
  BY <1>1, <1>2, <1>3, InTail, TurnsTail DEF Replies, Hears, InTurn, Amiss
<1>6. ASSUME NEW p \in 0 .. MaxJoin, p <= Top, WireOwn(p),
             \A j \in Join : broker'[j].ver = broker[j].ver /\ (Open(j)' => Open(j)),
             \A j \in Join : j # p => \/ j \in short'
                                      \/ broker'[j].tracks = broker[j].tracks /\ j \notin short,
             \A j \in Join : Top < j => broker'[j].tracks = broker[j].tracks
      PROVE  Hears'
  BY <1>2, <1>4, <1>5, <1>6, WiredHears
<1>7. participant[m.room] \in 0 .. MaxJoin /\ participant[m.room] <= Top
  BY <1>4, BrokerTypes, BegunFacts
<1>8. \A i \in Join : i <= Top => \A j \in Join : Top < j => j # i
  BY StreamTypes, Numbers
<1>9. \A j \in Join : Top < j => j \notin {0, m.j, participant[m.room]}
  <2>1. SUFFICES ASSUME NEW j \in Join, Top < j PROVE j \notin {0, m.j, participant[m.room]}
    OBVIOUS
  <2>2. j \in Nat /\ j # 0 /\ Top \in Nat /\ m.j \in Nat /\ participant[m.room] \in Nat
    BY <1>3, <1>7, MessageType, StreamTypes, Numbers
  <2>3. QED
    BY <1>3, <1>7, <2>1, <2>2
<1>10. CASE EnterRoom
  <2>1. PICK p : p = participant[m.room]
    OBVIOUS
  <2>2. PICK n \in {0, 1} :
          /\ broker' = [Wired(p) EXCEPT ![m.j].sig = "stable", ![m.j].tracks = @ + n]
          /\ short' = IF n = 0 THEN short \ {p} ELSE (short \ {p}) \cup {m.j}
    BY <1>1, <1>10, <2>1 DEF EnterRoom
  <2>3. WireOwn(p) /\ p \in 0 .. MaxJoin /\ p <= Top
    BY <1>1, <1>7, <1>10, <2>1 DEF EnterRoom
  <2>4. Wired(p) \in [Join -> BrokerPeer]
    BY <2>3, WiredTypes
  <2>5. /\ \A j \in Join : broker'[j].ver = Wired(p)[j].ver
        /\ \A j \in Join : j # m.j => broker'[j] = Wired(p)[j]
        /\ broker'[m.j].sig = "stable"
        /\ n = 0 => broker'[m.j].tracks = Wired(p)[m.j].tracks
    BY <1>4, <2>2, <2>4, EnteredEffect
  <2>6. \A j \in Join : broker'[j].ver = broker[j].ver /\ (Open(j)' => Open(j))
    <3>1. SUFFICES ASSUME NEW j \in Join
                   PROVE  broker'[j].ver = broker[j].ver /\ (Open(j)' => Open(j))
      OBVIOUS
    <3>2. Wired(p)[j].ver = broker[j].ver /\ Wired(p)[j].sig = broker[j].sig
      BY <2>3, WiredEffect
    <3>3. QED
      BY <2>5, <3>2 DEF Open
  <2>7. \A j \in Join : j # p => \/ j \in short'
                                 \/ broker'[j].tracks = broker[j].tracks /\ j \notin short
    <3>1. SUFFICES ASSUME NEW j \in Join, j # p, j \notin short'
                   PROVE  broker'[j].tracks = broker[j].tracks /\ j \notin short
      OBVIOUS
    <3>2. Wired(p)[j] = broker[j] /\ j \notin short /\ (n = 0 \/ j # m.j)
      BY <2>2, <2>3, <3>1, WiredEffect
    <3>3. QED
      BY <2>5, <3>2
  <2>8. \A j \in Join : Top < j => broker'[j].tracks = broker[j].tracks
    <3>1. SUFFICES ASSUME NEW j \in Join, Top < j PROVE broker'[j].tracks = broker[j].tracks
      OBVIOUS
    <3>2. j # m.j /\ j # p
      BY <1>9, <2>1, <3>1
    <3>3. QED
      BY <2>3, <2>5, <3>2, WiredEffect
  <2>9. QED
    BY <1>6, <2>3, <2>6, <2>7, <2>8
<1>11. CASE JoinFails
  <2>1. PICK p \in {0, participant[m.room]} :
          broker' = Wired(p) /\ short' = short \ {p} /\ WireOwn(p)
    BY <1>1, <1>11 DEF JoinFails
  <2>2. p \in 0 .. MaxJoin /\ p <= Top
    BY <1>4, <1>7, <2>1, Numbers
  <2>3. \A j \in Join : /\ broker'[j].ver = broker[j].ver /\ broker'[j].sig = broker[j].sig
                        /\ j # p => broker'[j] = broker[j]
    BY <2>1, <2>2, WiredEffect
  <2>4. \A j \in Join : Top < j => broker'[j].tracks = broker[j].tracks
    BY <1>9, <2>1, <2>3
  <2>5. \A j \in Join : j # p => j \in short' \/ j \notin short
    BY <2>1
  <2>6. QED
    BY <1>6, <2>1, <2>2, <2>3, <2>4, <2>5 DEF Open
<1>12. QED
  BY <1>10, <1>11

(* The broker's handler, but for joins and for answers to its offers. *)
LEMMA HandlerHears ==
  ASSUME Sound, Hears,
         TakeJoinOffer \/ TakeRestartOffer \/ PushAnswer \/ AnswerFails \/ LeaveRoom
  PROVE  Hears'
<1>1. /\ TypeOK /\ Begun /\ down \in Seq(Message) /\ up \in Seq(Message)
      /\ participant \in [Room -> 0 .. MaxJoin]
  BY BrokerTypes, BegunFacts
<1>2. /\ UNCHANGED <<ui, activeSession, roomID, answering, renegs, renegCount, short, incoming,
                     client>>
      /\ Top' = Top /\ Grown
  <2>1. UNCHANGED <<ui, activeSession, roomID, answering, renegs, renegCount, short, incoming, client>>
    BY DEF TakeJoinOffer, TakeRestartOffer, PushAnswer, AnswerFails, LeaveRoom, clientVars
  <2>2. (Event \/ UNCHANGED spent) /\ Grown
    <3>1. CASE PushAnswer
      BY <3>1, PushGrows DEF PushAnswer
    <3>2. CASE TakeJoinOffer \/ TakeRestartOffer \/ AnswerFails \/ LeaveRoom
      BY <3>2 DEF TakeJoinOffer, TakeRestartOffer, AnswerFails, LeaveRoom, TakeOffer, Grown, lostVars
    <3>3. QED
      BY <3>1, <3>2
  <2>3. QED
    BY <2>1, <2>2, Events, BrokerTypes
<1>3. Still(down, down', "offer")
  <2>1. CASE PushAnswer
    <3>1. PICK m : m = Msg(serving.at, roomID[serving.j], serving.j, 0, 0)
      OBVIOUS
    <3>2. serving.at \in {"answer", "restartAnswer"} /\ Push(m)
      BY <2>1, <3>1 DEF PushAnswer
    <3>3. serving.j \in Join /\ roomID[serving.j] \in Room
      BY <3>2, BrokerTypes, BegunFacts
    <3>4. m \in Message /\ m.kind # "offer"
      BY <3>1, <3>2, <3>3, MsgType, Numbers
    <3>5. QED
      BY <3>2, <3>4 DEF Push, Still
  <2>2. QED
    BY <2>1 DEF TakeJoinOffer, TakeRestartOffer, AnswerFails, LeaveRoom, Still, wire
<1>4. \/ up' = up
      \/ up # <<>> /\ Head(up).kind # "renegAnswer" /\ up' = Tail(up)
  BY DEF TakeJoinOffer, TakeRestartOffer, PushAnswer, AnswerFails, LeaveRoom, Serve, Push, wire
<1>5. ASSUME NEW s, s # "have-local-offer",
             \/ broker' = broker \/ \E j \in Join : broker' = [broker EXCEPT ![j].sig = s]
      PROVE  \A j \in Join : /\ broker'[j].ver = broker[j].ver /\ broker'[j].tracks = broker[j].tracks
                             /\ Open(j)' => Open(j)
  BY <1>1, <1>5, BrokerSig DEF Open
<1>6. ASSUME NEW j \in Join, NEW what, TakeOffer(j, what)
      PROVE  /\ broker' = broker \/ broker' = [broker EXCEPT ![j].sig = "have-remote-offer"]
             /\ refused \subseteq refused'
  BY <1>6, Sigs DEF TakeOffer
<1>7. ASSUME refused \subseteq refused',
             \A j \in Join : /\ broker'[j].ver = broker[j].ver /\ broker'[j].tracks = broker[j].tracks
                             /\ Open(j)' => Open(j)
      PROVE  Hears'
  <2>1. Amiss \subseteq Amiss'
    BY <1>2, <1>7 DEF Amiss, Grown
  <2>2. QED
    BY <1>2, <1>3, <1>4, <1>7, <2>1, BesideHears
<1>8. ASSUME NEW r \in Room, participant[r] # 0 PROVE participant[r] \in Join
  BY <1>1, <1>8, Numbers
<1>9. CASE TakeJoinOffer
  <2>1. serving.j \in Join /\ TakeOffer(serving.j, "answer")
    BY <1>9, BrokerTypes DEF TakeJoinOffer
  <2>2. QED
    BY <1>5, <1>6, <1>7, <2>1
<1>10. CASE TakeRestartOffer
  <2>1. Serve("restart") /\ Head(up) \in Message
    BY <1>1, <1>10, Serves DEF TakeRestartOffer
  <2>2. PICK p : p = participant[Head(up).room]
    OBVIOUS
  <2>3. /\ p = 0 => broker' = broker /\ refused' = refused
        /\ p # 0 => p \in Join /\ TakeOffer(p, "restartAnswer")
    BY <1>8, <1>10, <2>1, <2>2, MessageType DEF TakeRestartOffer, getVoiceParticipant
  <2>4. QED
    BY <1>5, <1>6, <1>7, <2>3
<1>11. CASE AnswerFails
  <2>1. broker' = broker /\ refused \subseteq refused'
    BY <1>11 DEF AnswerFails
  <2>2. QED
    BY <1>7, <2>1 DEF Open
<1>12. CASE PushAnswer
  <2>1. serving.j \in Join /\ broker' = [broker EXCEPT ![serving.j].sig = "stable"]
        /\ refused' = refused
    BY <1>12, BrokerTypes, Sigs DEF PushAnswer
  <2>2. QED
    BY <1>5, <1>7, <2>1
<1>13. CASE LeaveRoom
  <2>1. Serve("leave") /\ Head(up) \in Message /\ refused' = refused
    BY <1>1, <1>13, Serves DEF LeaveRoom
  <2>2. PICK p : p = participant[Head(up).room]
    OBVIOUS
  <2>3. p # 0 => p \in Join
    BY <1>8, <2>1, <2>2, MessageType
  <2>4. broker' = broker \/ (p # 0 /\ broker' = [broker EXCEPT ![p].sig = "closed"])
    BY <1>13, <2>2 DEF LeaveRoom
  <2>5. QED
    BY <1>5, <1>7, <2>1, <2>3, <2>4
<1>14. QED
  BY <1>9, <1>10, <1>11, <1>12, <1>13

(* Join and Leave, once the join has begun. *)
LEMMA UiHears ==
  ASSUME Sound, Hears, Ui \/ \E r \in Room : Leave(r)
  PROVE  Hears'
<1>1. /\ TypeOK /\ down \in Seq(Message) /\ up \in Seq(Message) /\ Turns(up)
  BY BrokerTypes DEF Hears, InTurn
<1>2. /\ UNCHANGED <<roomID, answering, renegs, renegCount, short, incoming, broker, down, refused,
                     spent>>
      /\ Top' = Top /\ Amiss \subseteq Amiss'
  <2>1. UNCHANGED <<roomID, answering, renegs, renegCount, short, incoming, broker, refused, spent>>
    BY DEF Ui, Leave, SendJoin, Activate, Register, TakeAnswer, Timeout, EndLeave, brokerVars
  <2>2. down' = down /\ Grown
    BY DEF Ui, Leave, SendJoin, Activate, Register, TakeAnswer, Timeout, EndLeave, wire, Send, Lose,
           lostVars, Grown
  <2>3. QED
    BY <2>1, <2>2 DEF Amiss, Grown, Top
<1>3. ui.at \in {"idle", "offered", "sent", "active", "waiting", "leaving"}
  BY UiTypes DEF UiType
<1>4. /\ Live' \in {0, Live} /\ ui'.at # "offered"
  <2>1. CASE SendJoin \/ Activate \/ Register
    <3>1. /\ ui.at # "idle" /\ ui.at # "leaving"
          /\ \/ ui' = Idle /\ activeSession' = 0
             \/ \E at \in {"sent", "active", "waiting"} : ui' = [ui EXCEPT !.at = at]
      <4>1. ui.at = "offered" => activeSession = 0
        BY OrderFacts
      <4>2. QED
        BY <2>1, <4>1 DEF SendJoin, Activate, Register
    <3>2. Live = ui.j
      BY <1>3, <3>1 DEF Live, Joining
    <3>3. CASE ui' = Idle /\ activeSession' = 0
      BY <3>3 DEF Live, Joining, Idle
    <3>4. ASSUME NEW at \in {"sent", "active", "waiting"}, ui' = [ui EXCEPT !.at = at]
          PROVE  Live' \in {0, Live} /\ ui'.at # "offered"
      <4>1. ui'.at = at /\ ui'.j = ui.j
        BY <1>1, <3>1, <3>4, UiSteps
      <4>2. QED
        BY <3>2, <4>1 DEF Live, Joining
    <3>5. QED
      BY <3>1, <3>3, <3>4
  <2>2. CASE TakeAnswer
    <3>1. /\ ui.at = "waiting"
          /\ \/ ui' = Idle /\ activeSession' = activeSession
             \/ ui'.at = "leaving"
      BY <2>2 DEF TakeAnswer, BeginLeave
    <3>2. activeSession = ui.j
      BY <3>1, OrderFacts
    <3>3. QED
      BY <3>1, <3>2 DEF Live, Joining, Idle
  <2>3. CASE Timeout \/ \E r \in Room : Leave(r)
    <3>1. ui'.at = "leaving"
      BY <2>3 DEF Timeout, Leave, BeginLeave
    <3>2. QED
      BY <3>1 DEF Live, Joining
  <2>4. CASE EndLeave
    <3>1. ui' = Idle /\ activeSession' = 0
      BY <2>4, OrderFacts DEF EndLeave
    <3>2. QED
      BY <3>1 DEF Live, Joining, Idle
  <2>5. QED
    BY <2>1, <2>2, <2>3, <2>4 DEF Ui
<1>5. \A j \in Join : client'[j].ver = client[j].ver
  <2>1. client' = client \/ \E s : client' = [client EXCEPT ![ui.j].sig = s] /\ ui.at # "idle"
    BY DEF Ui, Leave, SendJoin, Activate, Register, TakeAnswer, Timeout, EndLeave
  <2>2. ui.at # "idle" => ui.j \in Join
    BY UiTypes
  <2>3. QED
    BY <1>1, <2>1, <2>2, ClientSig
<1>6. Turns(up') /\ Replies' = Replies /\ Offers' = Offers
  <2>1. ASSUME SendJoin \/ EndLeave
        PROVE  \/ up' = up
               \/ \E m \in Message :
                    /\ m.kind = "leave" \/ (m.kind = "join" /\ \A x \in Replies : x.j # m.j)
                    /\ up' = Append(up, m)
    <3>1. PICK k, m : /\ k = (IF ui.at = "offered" THEN "join" ELSE "leave")
                      /\ m = Msg(k, roomID[ui.j], ui.j, 0, 0)
      OBVIOUS
    <3>2. ui.at \in {"offered", "leaving"} /\ Send(m)
      BY <2>1, <3>1 DEF SendJoin, EndLeave
    <3>3. ui.j \in Join /\ roomID[ui.j] \in Room
      BY <3>2, UiTypes
    <3>4. m \in Message /\ m.kind = k /\ m.j = ui.j
      BY <3>1, <3>3, MsgType, Numbers
    <3>5. m.kind = "leave" \/ (m.kind = "join" /\ \A x \in Replies : x.j # m.j)
      BY <3>1, <3>4 DEF Hears, InTurn
    <3>6. QED
      BY <3>2, <3>4, <3>5 DEF Send
  <2>2. \/ up' = up
        \/ \E m \in Message :
             /\ m.kind = "leave" \/ (m.kind = "join" /\ \A x \in Replies : x.j # m.j)
             /\ up' = Append(up, m)
    BY <2>1 DEF Ui, Leave, Activate, Register, TakeAnswer, Timeout, wire
  <2>3. Still(up, up', "renegAnswer") /\ Still(down, down', "offer")
    BY <1>2, <2>2 DEF Still
  <2>4. Turns(up')
    BY <1>1, <2>2, TurnsAppend DEF Replies
  <2>5. QED
    BY <1>2, <2>3, <2>4, StreamsSame
<1>7. InTurn'
  BY <1>4, <1>6 DEF InTurn
<1>8. Calm
  BY <1>2, <1>5, <1>6 DEF Calm, Open
<1>9. QED
  BY <1>2, <1>4, <1>7, <1>8, CalmHears

(* A new call starts with nothing. *)
LEMMA BeginJoinHears ==
  ASSUME Sound, Hears, NEW r \in Room, BeginJoin(r)
  PROVE  Hears'
<1>1. PICK j : j = spent.join + 1
  OBVIOUS
<1>2. /\ j \in Join /\ ui' = [at |-> "offered", j |-> j] /\ roomID' = [roomID EXCEPT ![j] = r]
      /\ client' = [client EXCEPT ![j].sig = "have-local-offer"]
      /\ spent' = [spent EXCEPT !.join = j]
      /\ UNCHANGED <<answering, renegs, renegCount, short, incoming, broker, up, down>>
  BY <1>1 DEF BeginJoin, brokerVars, wire
<1>3. TypeOK /\ Top \in Nat /\ j = Top + 1 /\ roomID \in [Join -> Room \cup {NoRoom}]
  BY <1>1, UiTypes DEF Top
<1>4. Top' = j
  BY <1>2, <1>3, Types DEF Spent, Top
<1>5. Offers' = Offers /\ Replies' = Replies
  BY <1>2 DEF Offers, Replies
<1>6. /\ \A m \in Offers \cup Replies : m.j \in Join /\ m.j # j /\ m.j <= Top
      /\ \A a \in answering : a.j \in Join /\ a.j # j
      /\ \A n \in renegs : n.j # j
  <2>1. \A i \in Join : i <= Top => i # j
    BY <1>3, Numbers
  <2>2. QED
    BY <2>1, StreamTypes DEF Hears, Unborn
<1>7. Numbered'
  BY <1>2, <1>4, <1>5, CalmNumbered DEF Hears
<1>8. Placed'
  BY <1>2, <1>3, <1>5, <1>6 DEF Hears, Placed
<1>9. InTurn'
  BY <1>2, <1>5, <1>6 DEF Hears, InTurn
<1>10. \A i \in Join : client'[i].ver = client[i].ver
  BY <1>2, <1>3, ClientSig
<1>11. Unborn'
  <2>1. \A m \in Offers : m.j <= Top'
    BY <1>3, <1>4, <1>6, Numbers
  <2>2. \A i \in Join : Top' < i => Top < i
    BY <1>3, <1>4, Numbers
  <2>3. QED
    BY <1>2, <1>5, <1>10, <2>1, <2>2 DEF Hears, Unborn, Open
<1>12. Followed'
  <2>1. Live' = j
    BY <1>2 DEF Live, Joining
  <2>2. Tokens(j)' = {}
    BY <1>2, <1>5, <1>6 DEF Tokens
  <2>3. Top < j
    BY <1>3
  <2>4. client'[j].ver = 0 /\ ~Open(j)' /\ broker'[j].ver = 0 /\ broker'[j].tracks = 0
    BY <1>2, <1>10, <2>3 DEF Hears, Unborn, Open
  <2>5. Follows(j)'
    BY <2>2, <2>4 DEF Follows
  <2>6. QED
    BY <2>1, <2>5 DEF Followed
<1>13. QED
  BY <1>7, <1>8, <1>9, <1>11, <1>12 DEF Hears

(* The read loop hands an offer on, or drops it. *)
LEMMA ReadLoopHears ==
  ASSUME Sound, Hears, ReadLoop
  PROVE  Hears'
<1>1. PICK m : m = Head(down)
  OBVIOUS
<1>2. /\ down # <<>> /\ down' = Tail(down)
      /\ incoming' = IF m.kind \in Forwarded /\ handler THEN incoming \cup {m} ELSE incoming
      /\ IF handler THEN UNCHANGED lostVars ELSE Lose({m})
      /\ UNCHANGED <<ui, roomID, activeSession, client, answering, broker, renegs, renegCount, short,
                     up, refused>>
      /\ Top' = Top
  BY <1>1 DEF ReadLoop, brokerVars, Top
<1>3. down \in Seq(Message)
  BY BrokerTypes
<1>4. Replies' = Replies
  BY <1>2 DEF Replies
<1>5. CASE m.kind # "offer"
  <2>1. \A x : x.kind = "offer" => (x \in incoming' <=> x \in incoming)
    BY <1>2, <1>5
  <2>2. Still(down, down', "offer") /\ Amiss \subseteq Amiss'
    BY <1>1, <1>2, <1>5 DEF Still, Lose, lostVars, Amiss
  <2>3. QED
    BY <1>2, <2>1, <2>2, BesideHears DEF Open
<1>6. CASE m.kind = "offer"
  <2>1. In(down, "offer") = In(down', "offer") \cup {m}
    BY <1>1, <1>2, <1>3, <1>6, InTail
  <2>2. CASE handler
    <3>1. incoming' = incoming \cup {m} /\ UNCHANGED lostVars
      BY <1>2, <1>6, <2>2 DEF Forwarded
    <3>2. Offers' = Offers
      BY <1>6, <2>1, <3>1 DEF Offers
    <3>3. Calm
      BY <1>2, <1>4, <3>1, <3>2 DEF Calm, Open, Amiss, lostVars
    <3>4. Live' = Live /\ InTurn'
      BY <1>2, <1>4 DEF Live, Joining, Hears, InTurn
    <3>5. QED
      BY <1>2, <3>3, <3>4, CalmHears
  <2>3. CASE ~handler
    <3>1. incoming' = incoming /\ Lose({m})
      BY <1>2, <2>3
    <3>2. Offers' \subseteq Offers /\ Offers \subseteq Offers' \cup {m}
      BY <2>1, <3>1 DEF Offers
    <3>3. m.j \in missed'
      BY <1>6, <3>1 DEF Lose, JoinsOf
    <3>4. Amiss \subseteq Amiss' /\ Turns(up')
      BY <1>2, <3>1 DEF Lose, Amiss, Hears, InTurn
    <3>5. QED
      BY <1>2, <1>4, <3>2, <3>3, <3>4, LostHears
  <2>4. QED
    BY <2>2, <2>3, BegunFacts
<1>7. QED
  BY <1>5, <1>6

(* An offer is taken up by the active session or dropped. *)
LEMMA HandleOfferHears ==
  ASSUME Sound, Hears, NEW m \in incoming, HandleOffer(m)
  PROVE  Hears'
<1>1. PICK s, a : s = activeSession /\ a = [m |-> m, j |-> s, at |-> "set"]
  OBVIOUS
<1>2. /\ m.kind = "offer" /\ incoming' = incoming \ {m}
      /\ UNCHANGED <<ui, roomID, activeSession, client, broker, renegs, renegCount, short, up, down,
                     refused>>
      /\ Top' = Top /\ Replies' = Replies
  BY DEF HandleOffer, brokerVars, wire, Top, Replies
<1>3. m \in Offers /\ Offers' \subseteq Offers /\ Offers \subseteq Offers' \cup {m}
  BY <1>2 DEF Offers
<1>4. CASE ~(s # 0 /\ roomID[s] = m.room)
  <2>1. Lose({m}) /\ answering' = answering
    BY <1>1, <1>4 DEF HandleOffer
  <2>2. m.j \in missed'
    BY <1>2, <2>1 DEF Lose, JoinsOf
  <2>3. Amiss \subseteq Amiss' /\ Turns(up')
    BY <1>2, <2>1 DEF Lose, Amiss, Hears, InTurn
  <2>4. QED
    BY <1>2, <1>3, <2>1, <2>2, <2>3, LostHears
<1>5. CASE s # 0 /\ roomID[s] = m.room
  <2>1. answering' = answering \cup {a} /\ Amiss' = Amiss
    BY <1>1, <1>2, <1>5 DEF HandleOffer, lostVars, Amiss
  <2>2. a.m = m /\ a.j = s /\ a.at = "set"
    BY <1>1
  <2>3. Out' \subseteq Out
    BY <1>2, <1>3, <2>1, <2>2 DEF Out
  <2>4. Numbered' /\ Placed' /\ Unborn'
    BY <1>2, <1>3, <1>5, <2>1, <2>2, <2>3 DEF Hears, Numbered, Placed, Unborn, Open
  <2>5. ui.at # "offered"
    BY <1>1, <1>5, OrderFacts
  <2>6. InTurn' /\ Live' = Live
    BY <1>2, <2>5 DEF Hears, InTurn, Live, Joining
  <2>7. Followed'
    <3>1. SUFFICES ASSUME Live # 0, Live \notin Amiss PROVE Follows(Live)'
      BY <1>2, <2>1, <2>6 DEF Followed
    <3>2. s = Live
      BY <1>1, <1>5, <3>1, LiveFacts
    <3>3. Follows(s)
      BY <3>1, <3>2 DEF Hears, Followed
    <3>4. Tokens(s)' = Tokens(s) \cup {m.g}
      <4>1. {x.m.g : x \in {x \in answering : x.j = s}}'
              = {x.m.g : x \in {x \in answering : x.j = s}} \cup {m.g}
        BY <2>1, <2>2
      <4>2. /\ {x.g : x \in {x \in Offers : x.j = s}}' \subseteq {x.g : x \in {x \in Offers : x.j = s}}
            /\ {x.g : x \in {x \in Offers : x.j = s}}
                 \subseteq {x.g : x \in {x \in Offers : x.j = s}}' \cup {m.g}
        BY <1>3
      <4>3. QED
        BY <1>2, <4>1, <4>2 DEF Tokens
    <3>5. m.j = s => m.g \in Tokens(s)
      BY <1>3 DEF Tokens
    <3>6. ASSUME Open(s), \A g, h \in Tokens(s)' : g = h PROVE Own(s)'
      <4>1. Own(s) /\ Tokens(s) # {}
        BY <3>3, <3>4, <3>6 DEF Follows
      <4>2. m.g \in Tokens(s)
        BY <3>4, <3>6, <4>1
      <4>3. m.j = s /\ m.v = broker[s].ver
        BY <1>3, <4>1, <4>2 DEF Own
      <4>4. Tokens(s)' = Tokens(s)
        BY <3>4, <4>2
      <4>5. \A x \in answering' :
              x.j = s => (IF x.at = "set" THEN x.m.v ELSE client[s].ver) = broker[s].ver
        BY <2>1, <2>2, <4>1, <4>3 DEF Own
      <4>6. QED
        BY <1>2, <1>3, <4>1, <4>4, <4>5 DEF Own
    <3>7. Follows(s)'
      BY <1>2, <3>3, <3>4, <3>6 DEF Follows, Open
    <3>8. QED
      BY <2>6, <3>2, <3>7
  <2>8. QED
    BY <2>4, <2>6, <2>7 DEF Hears
<1>6. QED
  BY <1>4, <1>5

(* The goroutine of an offer makes it the remote description, or the       *)
(* answer the local one.                                                   *)
LEMMA AnsweringHears ==
  ASSUME Sound, Hears, NEW a \in answering, SetOffer(a) \/ SetAnswer(a)
  PROVE  Hears'
<1>1. PICK at, b : /\ at = (IF a.at = "set" THEN "answer" ELSE "send")
                   /\ b = [a EXCEPT !.at = at]
  OBVIOUS
<1>2. /\ UNCHANGED <<ui, roomID, activeSession, incoming, broker, renegs, renegCount, short, up, down,
                     lostVars>>
      /\ Top' = Top /\ Replies' = Replies /\ Offers' = Offers
  BY DEF SetOffer, SetAnswer, brokerVars, wire, Top, Replies, Offers
<1>3. /\ TypeOK /\ a.j \in Join /\ a.j <= Top /\ client \in [Join -> Peer]
      /\ a.at \in {"set", "answer", "send"} /\ a \in Answering
  BY StreamTypes, BegunFacts, Types
<1>4. b.m = a.m /\ b.j = a.j /\ b.at = at
  BY <1>1, <1>3 DEF Answering
<1>5. /\ a.at \in {"set", "answer"} /\ answering' \subseteq answering \cup {b}
      /\ refused \subseteq refused'
      /\ \/ /\ answering' = (answering \ {a}) \cup {b}
            /\ \/ a.at = "answer" /\ \A i \in Join : client'[i].ver = client[i].ver
               \/ /\ a.at = "set" /\ client'[a.j].ver = a.m.v
                  /\ \A i \in Join : i # a.j => client'[i].ver = client[i].ver
         \/ answering' = answering \ {a} /\ client' = client /\ a.j \in refused'
  <2>1. CASE SetOffer(a)
    <3>1. a.at = "set" /\ at = "answer"
      BY <1>1, <2>1 DEF SetOffer
    <3>2. CASE client[a.j].sig \in Takes.remoteOffer
      <4>1. /\ client' = [client EXCEPT ![a.j] = [sig |-> Becomes.remoteOffer, ver |-> a.m.v]]
            /\ answering' = (answering \ {a}) \cup {b} /\ refused' = refused
        BY <1>1, <2>1, <3>1, <3>2 DEF SetOffer, Goes
      <4>2. /\ client'[a.j].ver = a.m.v
            /\ \A i \in Join : i # a.j => client'[i] = client[i]
        BY <1>3, <4>1
      <4>3. QED
        BY <3>1, <4>1, <4>2
    <3>3. CASE client[a.j].sig \notin Takes.remoteOffer
      BY <2>1, <3>1, <3>3 DEF SetOffer
    <3>4. QED
      BY <3>2, <3>3
  <2>2. CASE SetAnswer(a)
    <3>1. a.at = "answer" /\ at = "send"
      BY <1>1, <2>2 DEF SetAnswer
    <3>2. CASE client[a.j].sig \in Takes.localAnswer
      <4>1. /\ client' = [client EXCEPT ![a.j].sig = Becomes.localAnswer]
            /\ answering' = (answering \ {a}) \cup {b} /\ refused' = refused
        BY <1>1, <2>2, <3>1, <3>2 DEF SetAnswer, Goes
      <4>2. \A i \in Join : client'[i].ver = client[i].ver
        BY <1>3, <4>1, ClientSig
      <4>3. QED
        BY <3>1, <4>1, <4>2
    <3>3. CASE client[a.j].sig \notin Takes.localAnswer
      BY <2>2, <3>1, <3>3 DEF SetAnswer
    <3>4. QED
      BY <3>2, <3>3
  <2>3. QED
    BY <2>1, <2>2
<1>6. Out' \subseteq Out
  BY <1>2, <1>4, <1>5 DEF Out
<1>7. Numbered' /\ Placed'
  BY <1>2, <1>4, <1>5, <1>6 DEF Hears, Numbered, Placed
<1>8. InTurn' /\ Live' = Live
  BY <1>2, <1>4, <1>5 DEF Hears, InTurn, Live, Joining
<1>9. Unborn'
  <2>1. ~(Top < a.j)
    BY <1>3, StreamTypes, Numbers
  <2>2. \A i \in Join : Top < i => client'[i].ver = client[i].ver
    BY <1>5, <2>1
  <2>3. QED
    BY <1>2, <2>2 DEF Hears, Unborn, Open
<1>10. Followed'
  <2>1. SUFFICES ASSUME Live # 0, Live \notin Amiss' PROVE Follows(Live)'
    BY <1>8 DEF Followed
  <2>2. PICK j \in Join : j = Live
    BY <2>1, LiveFacts
  <2>3. Follows(j) /\ j \notin refused'
    BY <1>2, <1>5, <2>1, <2>2 DEF Hears, Followed, Amiss, lostVars
  <2>4. {x.m.g : x \in {x \in answering : x.j = j}}' = {x.m.g : x \in {x \in answering : x.j = j}}
    <3>1. CASE a.j # j
      <4>1. {x \in answering : x.j = j}' = {x \in answering : x.j = j}
        BY <1>4, <1>5, <3>1
      <4>2. QED
        BY <4>1
    <3>2. CASE a.j = j
      <4>1. answering' = (answering \ {a}) \cup {b}
        BY <1>5, <2>3, <3>2
      <4>2. QED
        BY <1>4, <3>2, <4>1
    <3>3. QED
      BY <3>1, <3>2
  <2>5. Tokens(j)' = Tokens(j)
    BY <1>2, <2>4 DEF Tokens
  <2>6. a.j = j => Tokens(j) # {}
    BY DEF Tokens
  <2>7. client'[j].ver = client[j].ver \/ a.j = j
    BY <1>5
  <2>8. Own(j) => Own(j)'
    <3>1. ASSUME Own(j), a.j = j PROVE client'[j].ver = broker[j].ver
      BY <1>5, <2>3, <3>1 DEF Own
    <3>2. ASSUME Own(j), a.j # j PROVE Own(j)'
      <4>1. {x \in answering : x.j = j}' = {x \in answering : x.j = j}
        BY <1>4, <1>5, <3>2
      <4>2. QED
        BY <1>2, <2>5, <2>7, <3>2, <4>1 DEF Own
    <3>3. ASSUME Own(j), a.j = j PROVE Own(j)'
      <4>1. \A x \in answering' :
              x.j = j => (IF x.at = "set" THEN x.m.v ELSE client'[j].ver) = broker[j].ver
        <5>1. b.at # "set" /\ client'[j].ver = broker[j].ver
          BY <1>1, <1>4, <3>1, <3>3
        <5>2. \A x \in answering : x.j = j /\ x.at = "set" => x.m.v = broker[j].ver
          BY <3>3 DEF Own
        <5>3. QED
          BY <1>5, <5>1, <5>2
      <4>2. QED
        BY <1>2, <2>5, <3>1, <3>3, <4>1 DEF Own
    <3>4. QED
      BY <3>2, <3>3
  <2>9. Follows(j)'
    BY <1>2, <2>3, <2>5, <2>6, <2>7, <2>8 DEF Follows, Open
  <2>10. QED
    BY <1>8, <2>2, <2>9
<1>11. QED
  BY <1>7, <1>8, <1>9, <1>10 DEF Hears

(* An answer goes from its goroutine to the queue. *)
LEMMA AnswerSent ==
  ASSUME Sound, Hears, NEW a \in answering, NEW m, a.at = "send",
         m.room = a.m.room, m.j = a.j, m.g = a.m.g,
         answering' = answering \ {a}, Replies' = Replies \cup {m}, Offers' = Offers,
         UNCHANGED <<ui, activeSession, roomID, client, broker, renegs, renegCount, short>>,
         Turns(up'), Top' = Top, Amiss' = Amiss
  PROVE  Hears'
<1>1. Out' \subseteq Out
  BY DEF Out
<1>2. Numbered' /\ Placed'
  BY <1>1 DEF Hears, Numbered, Placed
<1>3. InTurn' /\ Live' = Live /\ Unborn'
  BY DEF Hears, InTurn, Live, Joining, Unborn, Open
<1>4. Followed'
  <2>1. SUFFICES ASSUME Live # 0, Live \notin Amiss PROVE Follows(Live)'
    BY <1>3 DEF Followed
  <2>2. PICK j \in Join : j = Live
    BY <2>1, LiveFacts
  <2>3. Follows(j)
    BY <2>1, <2>2 DEF Hears, Followed
  <2>4. Tokens(j)' = Tokens(j)
    <3>1. PICK A, R, A1, R1 :
            /\ A = {x.m.g : x \in {x \in answering : x.j = j}}
            /\ R = {x.g : x \in {x \in Replies : x.j = j}}
            /\ A1 = {x.m.g : x \in {x \in answering' : x.j = j}}
            /\ R1 = {x.g : x \in {x \in Replies' : x.j = j}}
      OBVIOUS
    <3>2. CASE a.j # j
      <4>1. A1 = A /\ R1 = R
        BY <3>1, <3>2
      <4>2. QED
        BY <3>1, <4>1 DEF Tokens
    <3>3. CASE a.j = j
      <4>1. A1 \subseteq A /\ A \subseteq A1 \cup {a.m.g} /\ R1 = R \cup {a.m.g} /\ a.m.g \in A
        BY <3>1, <3>3
      <4>2. A1 \cup R1 = A \cup R
        BY <4>1
      <4>3. QED
        BY <3>1, <4>2 DEF Tokens
    <3>4. QED
      BY <3>2, <3>3
  <2>5. Own(j) => Own(j)'
    <3>1. ASSUME Own(j), a.j = j PROVE client[j].ver = broker[j].ver
      BY <3>1 DEF Own
    <3>2. QED
      BY <2>4, <3>1 DEF Own
  <2>6. Follows(j)'
    BY <2>3, <2>4, <2>5 DEF Follows, Open
  <2>7. QED
    BY <1>3, <2>2, <2>6
<1>5. QED
  BY <1>2, <1>3, <1>4 DEF Hears

(* The answer is sent. *)
LEMMA SendAnswerHears ==
  ASSUME Sound, Hears, NEW a \in answering, SendAnswer(a)
  PROVE  Hears'
<1>1. PICK m : m = Msg("renegAnswer", a.m.room, a.j, 0, a.m.g)
  OBVIOUS
<1>2. /\ a.at = "send" /\ answering' = answering \ {a} /\ Send(m)
      /\ UNCHANGED <<ui, roomID, activeSession, client, incoming, broker, renegs, renegCount, short,
                     down, refused>>
      /\ Top' = Top /\ Offers' = Offers
  BY <1>1 DEF SendAnswer, brokerVars, Send, Top, Offers
<1>3. /\ a.j \in Join /\ a.m \in Message /\ up \in Seq(Message)
      /\ a.m.room \in Room /\ a.m.g \in Nat
  BY StreamTypes, BrokerTypes, MessageType
<1>4. /\ m \in Message /\ m.kind = "renegAnswer" /\ m.room = a.m.room /\ m.j = a.j /\ m.g = a.m.g
  <2>1. m \in Message /\ m.kind = "renegAnswer" /\ m.room = a.m.room /\ m.j = a.j
    BY <1>1, <1>3, MsgType, Numbers
  <2>2. m.g = a.m.g
    BY <1>1 DEF Msg
  <2>3. QED
    BY <2>1, <2>2
<1>5. CASE ~link
  <2>1. up' = up /\ Lose({m}) /\ Replies' = Replies
    BY <1>2, <1>5 DEF Send, Replies
  <2>2. a.j \in missed'
    BY <1>4, <2>1 DEF Lose, JoinsOf
  <2>3. Amiss \subseteq Amiss' /\ Turns(up')
    BY <1>2, <2>1 DEF Lose, Amiss, Hears, InTurn
  <2>4. QED
    BY <1>2, <2>1, <2>2, <2>3, LostHears
<1>6. CASE link
  <2>1. up' = Append(up, m) /\ UNCHANGED lostVars
    BY <1>2, <1>6 DEF Send
  <2>2. Replies' = Replies \cup {m}
    BY <1>3, <1>4, <2>1, InAppend DEF Replies
  <2>3. Turns(up')
    BY <1>3, <1>4, <2>1, TurnsAppend DEF Hears, InTurn
  <2>4. Amiss' = Amiss
    BY <1>2, <2>1 DEF Amiss, lostVars
  <2>5. QED
    BY <1>2, <1>4, <2>2, <2>3, <2>4, AnswerSent
<1>7. QED
  BY <1>5, <1>6, BegunFacts

(* The broker offers its present track set, or is refused. *)
LEMMA CreateOfferHears ==
  ASSUME Sound, Hears, NEW n \in renegs, CreateOffer(n)
  PROVE  Hears'
<1>1. PICK b : b = [n EXCEPT !.at = "gather"]
  OBVIOUS
<1>2. /\ n.at = "create"
      /\ UNCHANGED <<ui, roomID, activeSession, client, incoming, answering, up, down, renegCount,
                     short, lostVars>>
      /\ Event \/ UNCHANGED spent
      /\ Offers' = Offers /\ Replies' = Replies /\ Out' = Out
  BY DEF CreateOffer, clientVars, wire, Offers, Replies, Out
<1>3. Top' = Top
  BY <1>2, Events, BrokerTypes
<1>4. TypeOK /\ n \in Reneg /\ n.j \in Join /\ n.j <= Top /\ broker \in [Join -> BrokerPeer]
  BY BrokerTypes, StreamTypes
<1>5. b.j = n.j /\ b.g = n.g /\ b.at = "gather"
  BY <1>1, <1>4 DEF Reneg
<1>6. /\ refused \subseteq refused'
      /\ \/ /\ renegs' = (renegs \ {n}) \cup {b}
            /\ broker'[n.j].ver = broker[n.j].tracks /\ broker'[n.j].tracks = broker[n.j].tracks
            /\ Open(n.j)'
            /\ \A i \in Join : i # n.j => broker'[i] = broker[i]
         \/ renegs' = renegs \ {n} /\ broker' = broker /\ n.j \in refused'
  <2>1. CASE /\ renegs' = renegs \ {n} /\ broker' = broker
             /\ refused' = refused \cup {n.j}
    BY <2>1
  <2>2. CASE /\ broker' = [broker EXCEPT ![n.j].sig = Becomes.localOffer,
                                         ![n.j].ver = broker[n.j].tracks]
             /\ renegs' = (renegs \ {n}) \cup {b} /\ refused' = refused
    <3>1. PICK c : c = [broker[n.j] EXCEPT !.sig = Becomes.localOffer, !.ver = broker[n.j].tracks]
      OBVIOUS
    <3>2. c.ver = broker[n.j].tracks /\ c.tracks = broker[n.j].tracks /\ c.sig = "have-local-offer"
      BY <1>4, <3>1, Sigs DEF BrokerPeer
    <3>3. broker' = [broker EXCEPT ![n.j] = c]
      BY <2>2, <3>1
    <3>4. broker'[n.j] = c /\ \A i \in Join : i # n.j => broker'[i] = broker[i]
      BY <1>4, <3>3
    <3>5. QED
      BY <2>2, <3>2, <3>4 DEF Open
  <2>3. QED
    BY <1>1, <2>1, <2>2 DEF CreateOffer
<1>7. renegs' \subseteq (renegs \ {n}) \cup {b}
  BY <1>6
<1>8. Numbered'
  BY <1>2, <1>5, <1>7 DEF Hears, Numbered
<1>9. Placed' /\ InTurn' /\ Live' = Live
  BY <1>2 DEF Hears, Placed, InTurn, Live, Joining
<1>10. Unborn'
  <2>1. ~(Top < n.j)
    BY <1>4, StreamTypes, Numbers
  <2>2. \A i \in Join : Top < i => broker'[i] = broker[i]
    BY <1>6, <2>1
  <2>3. QED
    BY <1>2, <1>3, <2>2 DEF Hears, Unborn, Open
<1>11. Followed'
  <2>1. SUFFICES ASSUME Live # 0, Live \notin Amiss' PROVE Follows(Live)'
    BY <1>9 DEF Followed
  <2>2. PICK j \in Join : j = Live
    BY <2>1, LiveFacts
  <2>3. Follows(j) /\ j \notin refused'
    BY <1>2, <1>6, <2>1, <2>2 DEF Hears, Followed, Amiss, lostVars
  <2>4. n.g \notin Tokens(j)
    BY <1>2, TokenBound DEF Hears
  <2>5. CASE n.j # j
    <3>1. /\ {o \in renegs : o.at = "gather" /\ o.j = j}' = {o \in renegs : o.at = "gather" /\ o.j = j}
          /\ (\A o \in renegs' : o.j = j => o.at # "create") =>
               \A o \in renegs : o.j = j => o.at # "create"
      BY <1>5, <1>6, <2>5
    <3>2. Tokens(j)' = Tokens(j)
      BY <1>2, <3>1 DEF Tokens
    <3>3. broker'[j] = broker[j]
      BY <1>6, <2>5
    <3>4. Own(j) => Own(j)'
      BY <1>2, <1>5, <1>7, <2>4, <3>2, <3>3 DEF Own
    <3>5. Follows(j)'
      BY <1>2, <2>3, <3>1, <3>2, <3>3, <3>4 DEF Follows, Open
    <3>6. QED
      BY <1>9, <2>2, <3>5
  <2>6. CASE n.j = j
    <3>1. renegs' = (renegs \ {n}) \cup {b} /\ broker'[j].ver = broker'[j].tracks /\ Open(j)'
      BY <1>6, <2>3, <2>6
    <3>2. {o.g : o \in {o \in renegs : o.at = "gather" /\ o.j = j}}'
            = {o.g : o \in {o \in renegs : o.at = "gather" /\ o.j = j}} \cup {n.g}
      BY <1>2, <1>5, <2>6, <3>1
    <3>3. Tokens(j)' = Tokens(j) \cup {n.g}
      BY <1>2, <3>2 DEF Tokens
    <3>4. ASSUME \A g, h \in Tokens(j)' : g = h PROVE Own(j)'
      <4>1. Tokens(j) = {} /\ Tokens(j)' = {n.g}
        BY <2>4, <3>3, <3>4
      <4>2. /\ \A m \in Offers : m.j # j
            /\ \A a \in answering : a.j # j
            /\ \A m \in Replies : m.j # j
        <5>1. /\ \A m \in Offers : m.j = j => m.g \in Tokens(j)
              /\ \A a \in answering : a.j = j => a.m.g \in Tokens(j)
              /\ \A m \in Replies : m.j = j => m.g \in Tokens(j)
          BY DEF Tokens
        <5>2. QED
          BY <4>1, <5>1
      <4>3. \A m \in Offers : m.g # n.g
        BY DEF Hears, Numbered, Out
      <4>4. \A o \in renegs' : o.j # j => o.g # n.g
        BY <1>5, <1>7, <2>6 DEF Hears, Numbered
      <4>5. QED
        BY <1>2, <4>1, <4>2, <4>3, <4>4 DEF Own
    <3>5. Follows(j)'
      BY <3>1, <3>3, <3>4 DEF Follows
    <3>6. QED
      BY <1>9, <2>2, <3>5
  <2>7. QED
    BY <2>5, <2>6
<1>12. QED
  BY <1>8, <1>9, <1>10, <1>11 DEF Hears

(* An offer goes from its goroutine to the client. *)
LEMMA OfferPushed ==
  ASSUME Sound, Hears, NEW n \in renegs, NEW m \in Message, n.at = "gather",
         m.j = n.j, m.v = broker[n.j].ver, m.g = n.g, n.j <= Top,
         renegs' = renegs \ {n}, Offers' = Offers \cup {m}, Replies' = Replies,
         UNCHANGED <<ui, activeSession, roomID, client, answering, broker, up, renegCount, short>>,
         Top' = Top, Amiss' = Amiss
  PROVE  Hears'
<1>1. Out' \subseteq Out \cup {n.g}
  BY DEF Out
<1>2. Numbered'
  BY <1>1 DEF Hears, Numbered
<1>3. Placed' /\ InTurn' /\ Live' = Live
  BY DEF Hears, Placed, InTurn, Live, Joining
<1>4. Unborn'
  BY DEF Hears, Unborn, Open
<1>5. Followed'
  <2>1. SUFFICES ASSUME Live # 0, Live \notin Amiss PROVE Follows(Live)'
    BY <1>3 DEF Followed
  <2>2. PICK j \in Join : j = Live
    BY <2>1, LiveFacts
  <2>3. Follows(j)
    BY <2>1, <2>2 DEF Hears, Followed
  <2>4. PICK A, R, A1, R1 :
          /\ A = {x.g : x \in {x \in renegs : x.at = "gather" /\ x.j = j}}
          /\ R = {x.g : x \in {x \in Offers : x.j = j}}
          /\ A1 = {x.g : x \in {x \in renegs' : x.at = "gather" /\ x.j = j}}
          /\ R1 = {x.g : x \in {x \in Offers' : x.j = j}}
    OBVIOUS
  <2>5. A1 \cup R1 = A \cup R
    <3>1. CASE n.j # j
      BY <2>4, <3>1
    <3>2. CASE n.j = j
      <4>1. A1 \subseteq A /\ A \subseteq A1 \cup {n.g} /\ R1 = R \cup {n.g} /\ n.g \in A
        BY <2>4, <3>2
      <4>2. QED
        BY <4>1
    <3>3. QED
      BY <3>1, <3>2
  <2>6. Tokens(j)' = Tokens(j)
    BY <2>4, <2>5 DEF Tokens
  <2>7. Own(j) => Own(j)'
    <3>1. ASSUME Own(j), n.j # j PROVE m.g \notin Tokens(j)
      BY <3>1 DEF Own
    <3>2. \A x \in Offers' : Own(j) => IF x.j = j THEN x.v = broker[j].ver ELSE x.g \notin Tokens(j)
      BY <3>1 DEF Own
    <3>3. QED
      BY <2>6, <3>2 DEF Own
  <2>8. (\A o \in renegs' : o.j = j => o.at # "create") =>
           \A o \in renegs : o.j = j => o.at # "create"
    OBVIOUS
  <2>9. Follows(j)'
    BY <2>3, <2>6, <2>7, <2>8 DEF Follows, Open
  <2>10. QED
    BY <1>3, <2>2, <2>9
<1>6. QED
  BY <1>2, <1>3, <1>4, <1>5 DEF Hears

(* What is pushed is the local description of that moment. *)
LEMMA PushOfferHears ==
  ASSUME Sound, Hears, NEW n \in renegs, PushOffer(n)
  PROVE  Hears'
<1>1. PICK m : m = Msg("offer", roomID[n.j], n.j, broker[n.j].ver, n.g)
  OBVIOUS
<1>2. /\ n.at = "gather" /\ renegs' = renegs \ {n} /\ Push(m)
      /\ UNCHANGED <<ui, roomID, activeSession, client, incoming, answering, broker, up, renegCount,
                     short, refused>>
      /\ Top' = Top /\ Replies' = Replies
  <2>1. /\ n.at = "gather" /\ renegs' = renegs \ {n} /\ Push(m)
        /\ UNCHANGED <<ui, roomID, activeSession, client, incoming, answering, broker, renegCount,
                       short, refused>>
    BY <1>1 DEF PushOffer, clientVars
  <2>2. up' = up /\ Top' = Top
    BY <2>1, PushGrows, Events, BrokerTypes
  <2>3. QED
    BY <2>1, <2>2 DEF Replies
<1>3. /\ n \in Reneg /\ n.j \in Join /\ n.j <= Top /\ broker \in [Join -> BrokerPeer]
      /\ down \in Seq(Message) /\ roomID[n.j] \in Room
  BY BrokerTypes, StreamTypes, BegunFacts
<1>4. m \in Message /\ m.kind = "offer" /\ m.j = n.j /\ m.v = broker[n.j].ver /\ m.g = n.g
  <2>1. n.g \in Nat /\ broker[n.j].ver \in Nat
    BY <1>3 DEF Reneg, BrokerPeer
  <2>2. m \in Message /\ m.kind = "offer" /\ m.j = n.j
    BY <1>1, <1>3, <2>1, MsgType
  <2>3. m.v = broker[n.j].ver /\ m.g = n.g
    BY <1>1 DEF Msg
  <2>4. QED
    BY <2>2, <2>3
<1>5. CASE down' = down /\ Lose({m})
  <2>1. Offers' = Offers
    BY <1>2, <1>5 DEF Offers
  <2>2. n.j \in missed'
    BY <1>4, <1>5 DEF Lose, JoinsOf
  <2>3. Amiss \subseteq Amiss' /\ Turns(up')
    BY <1>2, <1>5 DEF Lose, Amiss, Hears, InTurn
  <2>4. QED
    BY <1>2, <2>1, <2>2, <2>3, LostHears
<1>6. CASE down' = Append(down, m) /\ UNCHANGED lostVars
  <2>1. In(down', "offer") = In(down, "offer") \cup {m}
    BY <1>3, <1>4, <1>6, InAppend
  <2>2. Offers' = Offers \cup {m} /\ Amiss' = Amiss
    BY <1>2, <1>6, <2>1 DEF Offers, Amiss, lostVars
  <2>3. QED
    BY <1>2, <1>3, <1>4, <2>2, OfferPushed
<1>7. QED
  BY <1>2, <1>5, <1>6 DEF Push

(* The answer to the call's renegotiation finds the call's participant:    *)
(* its join has been served, and no other is served before its leave.      *)
LEMMA AnswerFinds ==
  ASSUME Sound, Told, Hears, Live # 0, Live \notin unjoined, Serve("renegAnswer"),
         Head(up).j = Live
  PROVE  participant[Head(up).room] = Live
<1>1. PICK m, j : m = Head(up) /\ j = Live
  OBVIOUS
<1>2. /\ up # <<>> /\ up \in Seq(Message) /\ m \in Message /\ m.kind = "renegAnswer" /\ m.j = j
      /\ m = up[1] /\ 1 \in DOMAIN up /\ DOMAIN up \subseteq Nat
  <2>1. up # <<>> /\ up \in Seq(Message) /\ m.kind = "renegAnswer" /\ m \in Message
    BY <1>1, BegunFacts, BrokerTypes, Serves
  <2>2. QED
    BY <1>1, <2>1, QueueTypes
<1>3. m \in Replies
  BY <1>2 DEF Replies, In
<1>4. m.room = roomID[j]
  BY <1>2, <1>3 DEF Hears, Placed
<1>5. Call = j /\ j # 0
  BY <1>1, <1>2, <1>3, LiveFacts DEF Hears, InTurn
<1>6. j \notin Js(up, "join")
  <2>1. SUFFICES ASSUME NEW i \in DOMAIN up, up[i].kind = "join", up[i].j = j PROVE FALSE
    BY DEF Js
  <2>2. i # 1 /\ i \in 1 .. Len(up)
    BY <1>2, <2>1
  <2>3. 1 < i
    BY <2>2
  <2>4. QED
    BY <1>2, <2>1, <2>3 DEF Hears, InTurn, Turns
<1>7. QED
  BY <1>1, <1>4, <1>5, <1>6 DEF Told, Entered

(* An answer closes the offer of the participant it finds. *)
LEMMA ApplyHears ==
  ASSUME Sound, Told, Hears, ApplyAnswer
  PROVE  Hears'
<1>1. PICK m, p : m = Head(up) /\ p = participant[m.room]
  OBVIOUS
<1>2. /\ Serve("renegAnswer")
      /\ UNCHANGED <<ui, roomID, activeSession, client, incoming, answering, renegs, renegCount, short,
                     down, lostVars>>
      /\ Top' = Top /\ Offers' = Offers
      /\ \/ /\ p # 0 /\ Open(p)
            /\ broker' = [broker EXCEPT ![p].sig = "stable"] /\ refused' = refused
         \/ broker' = broker /\ refused' = refused \cup ({p} \ {0})
  BY <1>1, Sigs DEF ApplyAnswer, getVoiceParticipant, clientVars, Offers, Top, Open
<1>3. /\ TypeOK /\ Begun /\ up \in Seq(Message) /\ participant \in [Room -> 0 .. MaxJoin]
      /\ up # <<>> /\ up' = Tail(up) /\ m.kind = "renegAnswer" /\ m \in Message
  BY <1>1, <1>2, BegunFacts, BrokerTypes, Serves
<1>4. p # 0 => p \in Join
  BY <1>1, <1>3, MessageType, Numbers
<1>5. Replies = Replies' \cup {m}
  BY <1>1, <1>3, InTail DEF Replies
<1>6. Turns(up')
  BY <1>3, TurnsTail DEF Hears, InTurn
<1>7. /\ \A i \in Join : broker'[i].ver = broker[i].ver /\ broker'[i].tracks = broker[i].tracks
      /\ \A i \in Join : Open(i)' => Open(i)
      /\ \A i \in Join : i # p => broker'[i] = broker[i]
  BY <1>2, <1>3, <1>4, BrokerSig DEF Open
<1>8. Out' \subseteq Out
  BY <1>2, <1>5 DEF Out
<1>9. Numbered' /\ Placed' /\ InTurn' /\ Live' = Live
  BY <1>2, <1>5, <1>6, <1>8 DEF Hears, Numbered, Placed, InTurn, Live, Joining
<1>10. Unborn'
  BY <1>2, <1>7 DEF Hears, Unborn
<1>11. Followed'
  <2>1. SUFFICES ASSUME Live # 0, Live \notin Amiss' PROVE Follows(Live)'
    BY <1>9 DEF Followed
  <2>2. PICK j \in Join : j = Live
    BY <2>1, LiveFacts
  <2>3. Follows(j) /\ j \notin refused' /\ j \notin unjoined
    BY <1>2, <2>1, <2>2 DEF Hears, Followed, Amiss, lostVars
  <2>4. m.j = j => p = j
    BY <1>1, <1>2, <2>1, <2>2, <2>3, AnswerFinds
  <2>5. p = j => ~Open(j)'
    <3>1. ASSUME p = j PROVE broker'[j].sig = "stable"
      BY <1>2, <1>3, <1>4, <2>2, <2>3, <3>1, BrokerSig, Numbers
    <3>2. QED
      BY <3>1 DEF Open
  <2>6. Tokens(j)' \subseteq Tokens(j) /\ Tokens(j) \subseteq Tokens(j)' \cup {m.g}
    BY <1>2, <1>5 DEF Tokens
  <2>7. m.j # j => Tokens(j)' = Tokens(j)
    <3>1. ASSUME m.j # j PROVE {x \in Replies : x.j = j}' = {x \in Replies : x.j = j}
      BY <1>5, <3>1
    <3>2. QED
      BY <1>2, <3>1 DEF Tokens
  <2>8. Own(j) /\ Tokens(j)' = Tokens(j) => Own(j)'
    BY <1>2, <1>5, <1>7, <2>2 DEF Own
  <2>9. CASE m.j # j
    <3>1. Follows(j)'
      BY <1>2, <1>7, <2>3, <2>7, <2>8, <2>9 DEF Follows
    <3>2. QED
      BY <1>9, <2>2, <3>1
  <2>10. CASE m.j = j
    <3>1. ~Open(j)' /\ p = j
      BY <2>4, <2>5, <2>10
    <3>2. ASSUME Tokens(j)' = {} PROVE client[j].ver = broker[j].ver
      <4>1. \A g, h \in Tokens(j) : g = h
        BY <2>6, <3>2
      <4>2. Open(j)
        BY <1>2, <2>2, <2>3, <3>1, Numbers
      <4>3. Own(j)
        BY <2>3, <4>1, <4>2 DEF Follows
      <4>4. QED
        BY <1>5, <2>10, <4>3 DEF Own
    <3>3. Follows(j)'
      BY <1>2, <1>7, <2>3, <3>1, <3>2 DEF Follows
    <3>4. QED
      BY <1>9, <2>2, <3>3
  <2>11. QED
    BY <2>9, <2>10
<1>12. QED
  BY <1>9, <1>10, <1>11 DEF Hears

LEMMA NextHears ==
  ASSUME Sound, Told, Hears, [Next]_vars
  PROVE  Hears'
<1>1. ASSUME NEW r \in Room, BeginJoin(r) \/ Leave(r) \/ TracksChange(r) PROVE Hears'
  BY <1>1, BeginJoinHears, UiHears, TracksHears
<1>2. CASE Ui
  BY <1>2, UiHears
<1>3. CASE Goroutines
  BY <1>3, ReadLoopHears, ClientHears, HandleOfferHears, AnsweringHears, SendAnswerHears
     DEF Goroutines
<1>4. CASE Broker
  BY <1>4, DropHears, JoinHears, HandlerHears, ApplyHears, CreateOfferHears, PushOfferHears DEF Broker
<1>5. CASE LoseLink
  BY <1>5, LoseHears
<1>6. CASE UNCHANGED vars
  BY <1>6, ClientHears
<1>7. ASSUME NEW j \in Join, ConnectionFails(j) PROVE Hears'
  BY <1>7, ClientHears
<1>8. QED
  BY <1>1, <1>2, <1>3, <1>4, <1>5, <1>6, <1>7 DEF Next

LEMMA InitHears == Init => Hears
<1> SUFFICES ASSUME Init PROVE Hears
  OBVIOUS
<1>1. Offers = {} /\ Replies = {} /\ answering = {} /\ renegs = {} /\ DOMAIN up = {}
  BY DEF Init, Offers, Replies, In
<1>2. Out = {}
  BY <1>1 DEF Out
<1>3. Numbered /\ Placed
  BY <1>1, <1>2 DEF Numbered, Placed
<1>4. InTurn
  BY <1>1 DEF InTurn, Turns
<1>5. Unborn
  BY <1>1 DEF Init, Unborn, Open
<1>6. Live = 0
  BY DEF Init, Idle, Live, Joining
<1>7. QED
  BY <1>3, <1>4, <1>5, <1>6 DEF Hears, Followed

(* At rest, an active session that lacks the broker's track set was never  *)
(* entered at the broker, had a description refused, missed an offer or an *)
(* answer to one, which either side dropped or the WebSocket took with it, *)
(* or was left short by the answer to its join (voiceJoin,                 *)
(* renegotiateVoice, trySend, handleIncoming and voiceRenegAnswer).        *)
THEOREM DeafnessExplained == Spec => []DeafnessHasCause
<1>1. IInv /\ Hears /\ [Next]_vars => (IInv /\ Hears)'
  <2>1. IInv => Sound /\ Told
    BY DEF IInv, Sound
  <2>2. QED
    BY <2>1, StepHolds, NextHears
<1>2. IInv /\ Hears => DeafnessHasCause
  <2>1. SUFFICES ASSUME IInv, Hears, AtRest, NEW j \in Join, activeSession = j,
                        j \notin unjoined \cup refused \cup missed \cup short
                 PROVE  client[j].ver = broker[j].tracks
    BY DEF DeafnessHasCause
  <2>2. Live = j /\ j # 0
    BY <2>1, Numbers DEF AtRest, Idle, Live, Joining
  <2>3. Follows(j)
    BY <2>1, <2>2 DEF Hears, Followed, Amiss
  <2>4. Offers = {} /\ Replies = {} /\ answering = {} /\ renegs = {}
    BY <2>1 DEF AtRest, Offers, Replies, In
  <2>5. Tokens(j) = {}
    BY <2>4 DEF Tokens
  <2>6. QED
    BY <2>1, <2>3, <2>4, <2>5 DEF Follows
<1>3. QED
  BY <1>1, <1>2, InitHolds, InitHears, PTL DEF Spec
=============================================================================
