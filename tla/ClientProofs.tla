---------------------------- MODULE ClientProofs ----------------------------
(***************************************************************************)
(* Proofs about the terminal client: whoever logs in, selects and sends in *)
(* whatever order, the inbox of the connection is served, messages open    *)
(* unless a named race has moved the key chain or their sender's count had *)
(* gone back, own keys are those of the labels, and the screen follows the *)
(* session.                                                                *)
(***************************************************************************)
EXTENDS Client, NatLemmas, SequenceTheorems, TLAPS

Now == spent.login

(* Counters stay within what was sent. *)
Counted ==
  /\ count <= spent.message
  /\ \A r \in Room :
       /\ Len(stored[r]) <= passed[r] /\ passed[r] <= Len(sent[r])
       /\ Len(sent[r]) <= spent.message

(* The connection, if any, is the newest, and its read loop runs; what is  *)
(* numbered by a login came with one that was made.                        *)
LoginsInOrder ==
  /\ conn \in {0, Now}
  /\ conn # 0 => loop[conn].at \in {"reading", "holding"}
  /\ \A g \in Login : Now < g => net[g] = <<>> /\ inbox[g] = <<>> /\ loop[g].at = "none"
  /\ \A g \in Login : loop[g].at = "holding" => loop[g].m \in Message
  /\ \A m \in mail : m.kind = "connected" => m.n \in Login /\ m.n <= Now
  /\ \A s \in Slot : waiter[s].at # "free" => s <= Now
  /\ \A s \in Slot : waiter[s].at = "waiting" =>
       waiter[s].g \in Login /\ waiter[s].g <= Now
  /\ \A s \in Slot : waiter[s].at = "taken" =>
       waiter[s].g \in Login /\ waiter[s].g <= Now /\ waiter[s].m \in Message

Shape == TypeOK /\ Counted /\ LoginsInOrder

LEMMA Steps ==
  ASSUME Next
  PROVE  \/ Connect \/ ConnectFails \/ Say \/ MapRace
         \/ \E r \in Room, inList \in BOOLEAN : SelectRoom(r, inList)
         \/ \E r \in Room : SelectFails(r) \/ Store(r) \/ Hear(r)
         \/ \E m \in mail : UpdateSelected(m) \/ UpdateConnected(m)
         \/ \E g \in Login : ReadMessage(g) \/ HandOver(g) \/ LoopEnds(g)
         \/ \E s \in Slot : TakeMessage(s) \/ Decrypt(s) \/ UpdateMessage(s)
BY DEF Next, User, handleEnter, handlePasswordSubmit, CompleteLogin, ExecCommand,
       roomSelectCmd, EnterInList, Outside, Runs, Update, Reading, Waiter, Slot

LEMMA KeyBound ==
  ASSUME NEW b \in Nat, NEW c \in 0 .. b, NEW n \in 0 .. b
  PROVE  /\ GetUserKey(c, n) \in 0 .. b /\ c <= GetUserKey(c, n)
         /\ n <= GetUserKey(c, n) /\ GetUserKey(c, n) \in {c, n}
BY DEF GetUserKey

LEMMA Bounds == MaxLogin \in Nat /\ MaxSelect \in Nat /\ MaxMessage \in Nat
BY ClientAssumption

(* What is used up of the bounds. *)
Spent == [login : 0 .. MaxLogin, select : 0 .. MaxSelect,
          failed : 0 .. MaxSelect, message : 0 .. MaxMessage]

LEMMA SpentType ==
  ASSUME TypeOK
  PROVE  /\ spent \in Spent
         /\ spent.login \in Nat /\ spent.select \in Nat
         /\ spent.failed \in Nat /\ spent.message \in Nat
<1>1. spent \in Spent
  BY DEF TypeOK, Spent
<1>2. QED
  BY <1>1, Bounds DEF Spent

LEMMA SpendMessage ==
  ASSUME TypeOK, spent.message < MaxMessage, spent' = [spent EXCEPT !.message = @ + 1]
  PROVE  /\ spent' \in Spent /\ spent'.message = spent.message + 1
         /\ spent'.login = spent.login /\ spent'.select = spent.select
         /\ spent.message + 1 \in 0 .. MaxMessage
<1>1. spent.message + 1 \in 0 .. MaxMessage
  BY SpentType, Bounds
<1>2. QED
  BY <1>1, SpentType DEF Spent

LEMMA SpendLogin ==
  ASSUME TypeOK, spent.login + 1 \in Login, spent' = [spent EXCEPT !.login = spent.login + 1]
  PROVE  /\ spent' \in Spent /\ spent'.login = spent.login + 1
         /\ spent'.message = spent.message /\ spent'.select = spent.select
         /\ spent.login + 1 \in 0 .. MaxLogin
<1>1. spent.login + 1 \in 0 .. MaxLogin
  BY SpentType, Bounds DEF Login
<1>2. QED
  BY <1>1, SpentType DEF Spent

LEMMA SpendSelect ==
  ASSUME TypeOK, spent.select + 1 + spent.failed <= MaxSelect,
         spent' = [spent EXCEPT !.select = spent.select + 1]
  PROVE  /\ spent' \in Spent /\ spent'.login = spent.login
         /\ spent'.message = spent.message /\ spent'.select = spent.select + 1
<1>1. spent.select + 1 \in 0 .. MaxSelect
  BY SpentType, Bounds
<1>2. QED
  BY <1>1, SpentType DEF Spent

LEMMA SpendFailed ==
  ASSUME TypeOK, spent.select + spent.failed < MaxSelect,
         spent' = [spent EXCEPT !.failed = @ + 1]
  PROVE  /\ spent' \in Spent /\ spent'.login = spent.login
         /\ spent'.message = spent.message /\ spent'.select = spent.select
<1>1. spent.failed + 1 \in 0 .. MaxSelect
  BY SpentType, Bounds
<1>2. QED
  BY <1>1, SpentType DEF Spent

(* Mail, and a new message in it. *)
Mail == [kind : {"connected", "selected"}, n : Nat, room : Room \cup {NoRoom}]

LEMMA NewMail ==
  ASSUME TypeOK, NEW k \in {"connected", "selected"}, NEW i \in Nat,
         NEW r \in Room \cup {NoRoom},
         mail' = mail \cup {[kind |-> k, n |-> i, room |-> r]}
  PROVE  mail' \subseteq Mail
<1>1. mail \subseteq Mail
  BY DEF TypeOK, Mail
<1>2. [kind |-> k, n |-> i, room |-> r] \in Mail
  BY DEF Mail
<1>3. QED
  BY <1>1, <1>2

(* The lengths the counters are about. *)
LEMMA Lengths ==
  ASSUME TypeOK, NEW r \in Room
  PROVE  /\ Len(sent[r]) \in Nat /\ Len(stored[r]) \in Nat
         /\ passed[r] \in 0 .. MaxMessage /\ passed[r] \in Nat
         /\ count \in 0 .. MaxMessage /\ count \in Nat
<1>1. sent[r] \in Seq(Own) /\ stored[r] \in Seq(Own) /\ passed[r] \in 0 .. MaxMessage
      /\ count \in 0 .. MaxMessage
  BY DEF TypeOK
<1>2. QED
  BY <1>1, Bounds

-----------------------------------------------------------------------------
LEMMA InitShape == Init => Shape
<1> SUFFICES ASSUME Init PROVE Shape
  OBVIOUS
<1>1. TypeOK
  <2>1. 0 \in 0 .. MaxMessage /\ 0 \in 0 .. MaxLogin /\ 0 \in 0 .. MaxSelect
    BY Bounds
  <2>2. chain \in [Room -> [own : 0 .. MaxMessage, other : Nat]] /\ spent \in Spent
    BY <2>1 DEF Init, NewChain, Spent
  <2>3. /\ loop \in [Login -> [at : {"none", "reading", "holding", "ended"},
                               m : Message \cup {NoMessage}]]
        /\ waiter \in [Slot -> [at : {"free", "waiting", "taken", "done"},
                                g : 0 .. MaxLogin, m : Message \cup {NoMessage}]]
    BY <2>1 DEF Init, Free
  <2>4. /\ net \in [Login -> Seq(Message)] /\ inbox \in [Login -> Seq(Message)]
        /\ \A g \in Login : Len(inbox[g]) <= ChanCap
        /\ sent \in [Room -> Seq(Own)] /\ stored \in [Room -> Seq(Own)]
    BY ClientAssumption DEF Init
  <2>5. /\ passed \in [Room -> 0 .. MaxMessage] /\ said \in [Room -> Nat]
        /\ theirs \in [Room -> Nat]
    <3>1. \A r \in Room : Before[r] \in Nat
      BY ClientAssumption
    <3>2. \A r \in Room : (IF Before[r] = 0 THEN 0 ELSE Before[r] - 1) \in Nat
      BY <3>1
    <3>3. QED
      BY <2>1, <3>2, ClientAssumption DEF Init
  <2>6. QED
    BY <2>1, <2>2, <2>3, <2>4, <2>5 DEF Init, TypeOK, Spent
<1>2. Counted
  BY DEF Init, Counted
<1>3. LoginsInOrder
  BY DEF Init, LoginsInOrder, Free
<1>4. QED
  BY <1>1, <1>2, <1>3 DEF Shape

LEMMA SelectShape ==
  ASSUME Shape, NEW r \in Room, NEW inList \in BOOLEAN, SelectRoom(r, inList)
  PROVE  Shape'
<1> USE DEF Shape
<1>1. SentMessageCount(r) \in 0 .. MaxMessage /\ SentMessageCount(r) <= spent.message
  <2>1. Len(stored[r]) <= passed[r] /\ passed[r] <= Len(sent[r]) /\ Len(sent[r]) <= spent.message
    BY DEF Counted
  <2>2. spent.message \in 0 .. MaxMessage
    BY SpentType DEF Spent
  <2>3. Len(stored[r]) \in Nat /\ passed[r] \in Nat /\ Len(sent[r]) \in Nat
    BY Lengths
  <2>4. Len(stored[r]) \in 0 .. MaxMessage /\ Len(stored[r]) <= spent.message
    BY <2>1, <2>2, <2>3, Bounds
  <2>5. QED
    BY <2>4 DEF SentMessageCount
<1>2. /\ spent' \in Spent /\ spent'.message = spent.message /\ spent'.login = spent.login
      /\ spent.select + 1 \in Nat
  BY SpendSelect, SpentType DEF SelectRoom
<1>3. /\ UNCHANGED <<alive, conn, chain, net, loop, inbox, waiter, uiRoom, sent, passed,
                     stored, said, theirs, crossed, twins, overtaken>>
      /\ roomID' = r /\ count' = SentMessageCount(r) /\ tick' \in {r, tick}
      /\ mail' = mail \cup {[kind |-> "selected", n |-> spent.select + 1, room |-> r]}
      /\ lagged' \in {lagged, lagged \cup {r}}
  BY DEF SelectRoom, broker, peer
<1>4. misticked' \in BOOLEAN
  BY DEF SelectRoom
<1>5. mail' \subseteq Mail
  BY <1>2, <1>3, NewMail
<1>6. TypeOK'
  BY <1>1, <1>2, <1>3, <1>4, <1>5 DEF TypeOK, Spent, Mail
<1>7. Counted'
  BY <1>1, <1>2, <1>3 DEF Counted
<1>8. LoginsInOrder'
  BY <1>2, <1>3 DEF LoginsInOrder, Now
<1>9. QED
  BY <1>6, <1>7, <1>8

LEMMA SayShape == ASSUME Shape, Say PROVE Shape'
<1> USE DEF Shape
<1>1. PICK key, r, m : /\ key = GetUserKey(SessionChain.own, count) /\ r = roomID
                       /\ m = Sealed(SessionChain.own, count)
  OBVIOUS
<1>2. /\ r \in Room /\ spent.message < MaxMessage
      /\ chain' = [chain EXCEPT ![r].own = key]
      /\ sent' = [sent EXCEPT ![r] = Append(@, m)]
      /\ count' = count + 1
      /\ spent' = [spent EXCEPT !.message = @ + 1]
      /\ UNCHANGED <<alive, conn, roomID, net, loop, inbox, waiter, mail, uiRoom, tick,
                     passed, stored, said, theirs, crossed, twins, lagged, overtaken, misticked>>
  BY <1>1 DEF Say, TypeOK, broker, peer, histories
<1>3. /\ spent' \in Spent /\ spent'.message = spent.message + 1
      /\ spent'.login = spent.login /\ spent.message + 1 \in 0 .. MaxMessage
  BY <1>2, SpendMessage
<1>4. chain[r].own \in 0 .. MaxMessage /\ count \in 0 .. MaxMessage
  BY <1>2 DEF TypeOK
<1>5. key \in 0 .. MaxMessage
  BY <1>1, <1>4, KeyBound, Bounds DEF SessionChain
<1>6. m \in Own
  BY <1>1, <1>4, <1>5 DEF Sealed, Own
<1>7. count' \in 0 .. MaxMessage /\ count' <= spent'.message
  <2>1. count <= spent.message
    BY DEF Counted
  <2>2. QED
    BY <1>2, <1>3, <1>4, <2>1, SpentType, Bounds
<1>8. sent' \in [Room -> Seq(Own)] /\ chain' \in [Room -> [own : 0 .. MaxMessage, other : Nat]]
  <2>1. /\ sent \in [Room -> Seq(Own)]
        /\ chain \in [Room -> [own : 0 .. MaxMessage, other : Nat]]
    BY DEF TypeOK
  <2>2. /\ sent' = [sent EXCEPT ![r] = Append(sent[r], m)] /\ r \in Room
        /\ chain' = [chain EXCEPT ![r] = [chain[r] EXCEPT !.own = key]]
    BY <1>2
  <2>3. Append(sent[r], m) \in Seq(Own)
    BY <1>6, <2>1, <2>2
  <2>4. sent' \in [Room -> Seq(Own)]
    BY <2>1, <2>2, <2>3
  <2>5. [chain[r] EXCEPT !.own = key] \in [own : 0 .. MaxMessage, other : Nat]
    BY <1>5, <2>1, <2>2
  <2>6. chain' \in [Room -> [own : 0 .. MaxMessage, other : Nat]]
    BY <2>1, <2>2, <2>5
  <2>7. QED
    BY <2>4, <2>6
<1>9. TypeOK'
  BY <1>2, <1>3, <1>7, <1>8 DEF TypeOK, Spent
<1>10. ASSUME NEW q \in Room
       PROVE  Len(sent'[q]) >= Len(sent[q]) /\ Len(sent'[q]) <= spent'.message
  <2>1. Len(sent[q]) <= spent.message /\ sent[q] \in Seq(Own)
    BY DEF Counted, TypeOK
  <2>2. CASE q = r
    <3>1. sent'[q] = Append(sent[q], m)
      BY <1>2, <2>2 DEF TypeOK
    <3>2. Len(sent'[q]) = Len(sent[q]) + 1
      BY <1>6, <2>1, <3>1
    <3>3. QED
      BY <1>3, <2>1, <3>2, SpentType, Lengths
  <2>3. CASE q # r
    <3>1. sent'[q] = sent[q]
      BY <1>2, <2>3 DEF TypeOK
    <3>2. QED
      BY <1>3, <2>1, <3>1, SpentType, Lengths
  <2>4. QED
    BY <2>2, <2>3
<1>11. Counted'
  <2>1. \A q \in Room : Len(stored[q]) <= passed[q] /\ passed[q] <= Len(sent[q])
    BY DEF Counted
  <2>2. \A q \in Room : Len(sent'[q]) \in Nat
    BY <1>8
  <2>3. \A q \in Room : passed[q] <= Len(sent'[q])
    BY <1>10, <2>1, <2>2, Lengths
  <2>4. QED
    BY <1>2, <1>7, <1>10, <2>1, <2>3 DEF Counted
<1>12. LoginsInOrder'
  BY <1>2, <1>3 DEF LoginsInOrder, Now
<1>13. QED
  BY <1>9, <1>11, <1>12

LEMMA StoreShape ==
  ASSUME Shape, NEW r \in Room, Store(r)
  PROVE  Shape'
<1> USE DEF Shape
<1>1. PICK n, m : n = passed[r] + 1 /\ m = sent[r][n]
  OBVIOUS
<1>2. /\ passed[r] < Len(sent[r]) /\ passed' = [passed EXCEPT ![r] = n]
      /\ stored' = stored \/ stored' = [stored EXCEPT ![r] = Append(@, m)]
      /\ UNCHANGED <<alive, conn, roomID, count, chain, net, loop, inbox, waiter, mail,
                     uiRoom, tick, sent, said, theirs, spent, crossed, twins, lagged, overtaken,
                     misticked>>
  BY <1>1 DEF peer, Store, session, histories
<1>3. Len(sent[r]) <= spent.message /\ spent.message \in 0 .. MaxMessage
  BY SpentType DEF Counted, Spent
<1>4. n \in 0 .. MaxMessage /\ n <= Len(sent[r]) /\ n \in 1 .. Len(sent[r])
  BY <1>1, <1>2, <1>3, Lengths, Bounds
<1>5. m \in Own
  BY <1>1, <1>4 DEF TypeOK
<1>6. stored' \in [Room -> Seq(Own)] /\ passed' \in [Room -> 0 .. MaxMessage]
  <2>1. stored \in [Room -> Seq(Own)] /\ passed \in [Room -> 0 .. MaxMessage]
    BY DEF TypeOK
  <2>2. Append(stored[r], m) \in Seq(Own)
    BY <1>5, <2>1
  <2>3. stored' = stored \/ stored' = [stored EXCEPT ![r] = Append(stored[r], m)]
    BY <1>2
  <2>4. stored' \in [Room -> Seq(Own)]
    BY <2>1, <2>2, <2>3
  <2>5. passed' \in [Room -> 0 .. MaxMessage]
    BY <1>2, <1>4, <2>1
  <2>6. QED
    BY <2>4, <2>5
<1>7. TypeOK'
  BY <1>2, <1>6 DEF TypeOK
<1>8. ASSUME NEW q \in Room
      PROVE  Len(stored'[q]) <= passed'[q] /\ passed'[q] <= Len(sent[q])
  <2>1. Len(stored[q]) <= passed[q] /\ passed[q] <= Len(sent[q]) /\ stored[q] \in Seq(Own)
    BY DEF Counted, TypeOK
  <2>2. CASE q = r
    <3>1. passed'[q] = n /\ (stored'[q] = stored[q] \/ stored'[q] = Append(stored[q], m))
      BY <1>2, <2>2 DEF TypeOK
    <3>2. Len(stored'[q]) \in {Len(stored[q]), Len(stored[q]) + 1}
      BY <1>5, <2>1, <3>1
    <3>3. QED
      BY <1>1, <1>4, <2>1, <2>2, <3>1, <3>2, Lengths
  <2>3. CASE q # r
    <3>1. passed'[q] = passed[q] /\ stored'[q] = stored[q]
      BY <1>2, <2>3 DEF TypeOK
    <3>2. QED
      BY <2>1, <3>1
  <2>4. QED
    BY <2>2, <2>3
<1>9. Counted'
  BY <1>2, <1>8 DEF Counted
<1>10. LoginsInOrder'
  BY <1>2 DEF LoginsInOrder, Now
<1>11. QED
  BY <1>7, <1>9, <1>10

(* What is heard of the other user: a message labelled n or, from a chain  *)
(* at c that is further, under a later key.                                *)
Heard(r, n, c) == [room |-> r, label |-> n, key |-> GetUserKey(c, n), behind |-> n + 1 < said[r]]

LEMMA HeardType ==
  ASSUME Shape, NEW r \in Room, NEW n \in 0 .. said[r], NEW c \in {0, theirs[r]}
  PROVE  /\ Heard(r, n, c) \in Message /\ Heard(r, n, c).room = r /\ Heard(r, n, c).label = n
         /\ Heard(r, n, c).key = GetUserKey(c, n) /\ (Heard(r, n, c).behind \/ said[r] <= n + 1)
         /\ n \in Nat /\ c \in Nat /\ GetUserKey(c, n) \in Nat /\ said[r] \in Nat /\ n <= said[r]
<1>1. said[r] \in Nat /\ theirs[r] \in Nat
  BY DEF Shape, TypeOK
<1>2. n \in Nat /\ c \in Nat /\ n <= said[r]
  BY <1>1
<1>3. GetUserKey(c, n) \in Nat /\ (n + 1 < said[r]) \in BOOLEAN
  BY <1>2 DEF GetUserKey
<1>4. Heard(r, n, c).behind \/ said[r] <= n + 1
  <2>1. n + 1 < said[r] \/ said[r] <= n + 1
    BY <1>1, <1>2
  <2>2. Heard(r, n, c).behind = (n + 1 < said[r])
    BY DEF Heard
  <2>3. QED
    BY <2>1, <2>2, Zenon
<1>5. QED
  BY <1>1, <1>2, <1>3, <1>4 DEF Heard, Message

LEMMA HearShape ==
  ASSUME Shape, NEW r \in Room, Hear(r)
  PROVE  Shape'
<1> USE DEF Shape
<1>1. PICK n \in 0 .. said[r], c \in {0, theirs[r]} :
        /\ said' = IF n = said[r] THEN [said EXCEPT ![r] = n + 1] ELSE said
        /\ theirs' = [theirs EXCEPT ![r] = GetUserKey(c, n)]
        /\ \/ conn # 0 /\ net' = [net EXCEPT ![conn] = Append(net[conn], Heard(r, n, c))]
           \/ net' = net
  BY DEF Hear, Heard
<1> DEFINE b == Heard(r, n, c)
<1>2. b \in Message /\ n \in Nat /\ GetUserKey(c, n) \in Nat
  BY HeardType
<1> HIDE DEF b
<1>3. /\ net' = net \/ (conn # 0 /\ net' = [net EXCEPT ![conn] = Append(net[conn], b)])
      /\ spent.message < MaxMessage /\ spent' = [spent EXCEPT !.message = @ + 1]
      /\ UNCHANGED <<alive, conn, roomID, count, chain, loop, inbox, waiter, mail, uiRoom,
                     tick, sent, passed, stored, crossed, twins, lagged, overtaken,
                     misticked>>
  BY <1>1 DEF Hear, session, broker, histories, b
<1>4. net' \in [Login -> Seq(Message)] /\ \A g \in Login : g # conn => net'[g] = net[g]
  <2>1. net \in [Login -> Seq(Message)]
    BY DEF TypeOK
  <2>2. CASE net' = net
    BY <2>1, <2>2
  <2>3. CASE conn # 0 /\ net' = [net EXCEPT ![conn] = Append(net[conn], b)]
    <3>1. conn \in Login /\ net' = [net EXCEPT ![conn] = Append(net[conn], b)]
      <4>1. conn \in 0 .. MaxLogin
        BY DEF TypeOK
      <4>2. conn \in Login
        BY <2>3, <4>1, Bounds DEF Login
      <4>3. QED
        BY <1>3, <2>3, <4>2
    <3>2. Append(net[conn], b) \in Seq(Message)
      BY <1>2, <2>1, <3>1
    <3>3. QED
      BY <2>1, <3>1, <3>2
  <2>4. QED
    BY <1>3, <2>2, <2>3
<1>5. said' \in [Room -> Nat] /\ theirs' \in [Room -> Nat]
  <2>1. said \in [Room -> Nat] /\ theirs \in [Room -> Nat]
    BY DEF TypeOK
  <2>2. n + 1 \in Nat
    BY <1>2
  <2>3. QED
    BY <1>1, <1>2, <2>1, <2>2
<1>6. /\ spent' \in Spent /\ spent'.message = spent.message + 1 /\ spent'.login = spent.login
  BY <1>3, SpendMessage
<1>7. TypeOK'
  BY <1>3, <1>4, <1>5, <1>6 DEF TypeOK, Spent
<1>8. Counted'
  <2>1. \A q \in Room : Len(sent[q]) <= spent'.message
    BY <1>6, Lengths, SpentType DEF Counted
  <2>2. count <= spent'.message
    BY <1>6, SpentType DEF Counted, TypeOK
  <2>3. QED
    BY <1>3, <2>1, <2>2 DEF Counted
<1>9. LoginsInOrder'
  <2>1. conn \in {0, Now} /\ Now \in Nat /\ Login \subseteq Nat
    BY SpentType DEF LoginsInOrder, Now, Login
  <2>2. \A g \in Login : Now < g => net'[g] = <<>>
    BY <1>4, <2>1 DEF LoginsInOrder
  <2>3. QED
    BY <1>3, <1>6, <2>2 DEF LoginsInOrder, Now
<1>10. QED
  BY <1>7, <1>8, <1>9

LEMMA ConnectShape ==
  ASSUME Shape, Connect
  PROVE  Shape'
<1> USE DEF Shape
<1>1. PICK g : g = spent.login + 1
  OBVIOUS
<1>2. /\ g \in Login /\ spent' = [spent EXCEPT !.login = g]
      /\ conn' = g /\ roomID' = NoRoom /\ count' = 0
      /\ chain' = [r \in Room |-> NewChain] /\ crossed' = {}
      /\ loop' = [loop EXCEPT ![g].at = "reading"]
      /\ mail' = mail \cup {[kind |-> "connected", n |-> g, room |-> NoRoom]}
      /\ UNCHANGED <<alive, net, inbox, waiter, uiRoom, tick, sent, passed, stored, said, theirs,
                     twins, lagged, overtaken, misticked>>
  BY <1>1 DEF Connect, broker, peer
<1>3. /\ spent' \in Spent /\ spent'.login = g /\ spent'.message = spent.message
      /\ g \in 0 .. MaxLogin
  BY <1>1, <1>2, SpendLogin
<1>4. Now = g - 1 /\ Now' = g /\ Now \in Nat /\ g \in Nat /\ g # 0 /\ Login \subseteq Nat
  BY <1>1, <1>3, SpentType DEF Now, Login
<1>5. /\ loop' \in [Login -> [at : {"none", "reading", "holding", "ended"},
                              m : Message \cup {NoMessage}]]
      /\ loop'[g].at = "reading" /\ \A h \in Login : h # g => loop'[h] = loop[h]
  <2>1. loop \in [Login -> [at : {"none", "reading", "holding", "ended"},
                            m : Message \cup {NoMessage}]]
    BY DEF TypeOK
  <2>2. QED
    BY <1>2, <2>1
<1>6. mail' \subseteq Mail
  BY <1>2, <1>4, NewMail
<1>7. chain' \in [Room -> [own : 0 .. MaxMessage, other : Nat]] /\ 0 \in 0 .. MaxMessage
  BY <1>2, Bounds DEF NewChain
<1>8. TypeOK'
  BY <1>2, <1>3, <1>5, <1>6, <1>7 DEF TypeOK, Spent, Mail
<1>9. Counted'
  BY <1>2, <1>3, SpentType DEF Counted
<1>10. LoginsInOrder'
  <2>1. \A h \in Nat : h <= Now => h <= g
    BY <1>4
  <2>2. \A h \in Login : g < h => Now < h /\ h # g
    BY <1>4
  <2>3. \A m \in mail' : m.kind = "connected" => m.n \in Login /\ m.n <= g
    BY <1>2, <1>4, <2>1 DEF LoginsInOrder
  <2>4. \A h \in Login : loop'[h].at = "holding" => loop'[h].m \in Message
    BY <1>5 DEF LoginsInOrder
  <2>5. conn' \in {0, g} /\ loop'[conn'].at \in {"reading", "holding"}
    BY <1>2, <1>5
  <2>6. \A h \in Login : g < h => net'[h] = <<>> /\ inbox'[h] = <<>> /\ loop'[h].at = "none"
    BY <1>2, <1>5, <2>2 DEF LoginsInOrder
  <2>7. \A s \in Slot :
          /\ waiter'[s].at # "free" => s <= g
          /\ waiter'[s].at = "waiting" => waiter'[s].g \in Login /\ waiter'[s].g <= g
          /\ waiter'[s].at = "taken" => /\ waiter'[s].g \in Login /\ waiter'[s].g <= g
                                        /\ waiter'[s].m \in Message
    BY <1>2, <1>4, <2>1 DEF LoginsInOrder, Slot
  <2>8. QED
    BY <1>4, <2>3, <2>4, <2>5, <2>6, <2>7 DEF LoginsInOrder
<1>11. QED
  BY <1>8, <1>9, <1>10

LEMMA EndedSession ==
  ASSUME EndSession
  PROVE  /\ conn' = 0 /\ roomID' = NoRoom /\ count' = 0 /\ crossed' = {}
         /\ chain' = [r \in Room |-> NewChain]
         /\ chain' \in [Room -> [own : 0 .. MaxMessage, other : Nat]]
         /\ 0 \in 0 .. MaxMessage /\ 0 \in 0 .. MaxLogin
BY Bounds DEF EndSession, NewChain

LEMMA ConnectFailsShape ==
  ASSUME Shape, ConnectFails
  PROVE  Shape'
<1> USE DEF Shape
<1>1. UNCHANGED <<alive, net, loop, inbox, waiter, mail, uiRoom, tick, sent, passed, stored,
                  said, theirs, spent, twins, lagged, overtaken, misticked>>
  BY DEF ConnectFails, broker, peer
<1>2. EndSession
  BY DEF ConnectFails
<1>3. TypeOK'
  BY <1>1, <1>2, EndedSession DEF TypeOK
<1>4. Counted'
  BY <1>1, <1>2, EndedSession, SpentType DEF Counted
<1>5. LoginsInOrder'
  BY <1>1, <1>2, EndedSession DEF LoginsInOrder, Now
<1>6. QED
  BY <1>3, <1>4, <1>5

-----------------------------------------------------------------------------
(* The read loops and the waiters. *)

Loop == [at : {"none", "reading", "holding", "ended"}, m : Message \cup {NoMessage}]
Wait == [at : {"free", "waiting", "taken", "done"}, g : 0 .. MaxLogin,
         m : Message \cup {NoMessage}]

LEMMA PathTypes ==
  ASSUME TypeOK
  PROVE  /\ net \in [Login -> Seq(Message)] /\ inbox \in [Login -> Seq(Message)]
         /\ loop \in [Login -> Loop] /\ waiter \in [Slot -> Wait]
         /\ mail \subseteq Mail
         /\ chain \in [Room -> [own : 0 .. MaxMessage, other : Nat]]
BY DEF TypeOK, Loop, Wait, Mail

(* What a step of the path of messages leaves alone. *)
Rest == <<alive, conn, roomID, count, uiRoom, tick, sent, passed, stored, said, theirs, spent,
          lagged, overtaken, misticked>>

LEMMA PathShape ==
  ASSUME Shape, UNCHANGED Rest,
         net' \in [Login -> Seq(Message)], inbox' \in [Login -> Seq(Message)],
         \A g \in Login : Len(inbox'[g]) <= ChanCap,
         loop' \in [Login -> Loop], waiter' \in [Slot -> Wait], mail' \subseteq mail,
         chain' \in [Room -> [own : 0 .. MaxMessage, other : Nat]],
         crossed' \subseteq Room, twins' \in BOOLEAN,
         conn # 0 => loop'[conn].at \in {"reading", "holding"},
         \A g \in Login : Now < g => net'[g] = <<>> /\ inbox'[g] = <<>> /\ loop'[g].at = "none",
         \A g \in Login : loop'[g].at = "holding" => loop'[g].m \in Message,
         \A s \in Slot :
           \/ waiter'[s] = waiter[s]
           \/ waiter'[s].at = "free"
           \/ waiter'[s].at = "done" /\ s <= Now
           \/ waiter'[s].at = "waiting" /\ waiter'[s].g \in Login /\ waiter'[s].g <= Now /\ s <= Now
           \/ /\ waiter'[s].at = "taken" /\ waiter'[s].g \in Login /\ waiter'[s].g <= Now
              /\ waiter'[s].m \in Message /\ s <= Now
  PROVE  Shape'
<1> USE DEF Shape, Rest
<1>1. mail' \subseteq Mail
  BY PathTypes
<1>2. TypeOK'
  BY <1>1 DEF TypeOK, Loop, Wait, Mail
<1>3. Counted'
  BY DEF Counted
<1>4. LoginsInOrder'
  <2>1. \A m \in mail' : m.kind = "connected" => m.n \in Login /\ m.n <= Now
    BY DEF LoginsInOrder
  <2>2. \A s \in Slot :
          /\ waiter'[s].at # "free" => s <= Now
          /\ waiter'[s].at = "waiting" => waiter'[s].g \in Login /\ waiter'[s].g <= Now
          /\ waiter'[s].at = "taken" => /\ waiter'[s].g \in Login /\ waiter'[s].g <= Now
                                        /\ waiter'[s].m \in Message
    BY DEF LoginsInOrder
  <2>3. QED
    BY <2>1, <2>2 DEF LoginsInOrder, Now
<1>5. QED
  BY <1>2, <1>3, <1>4

LEMMA ConnFacts ==
  ASSUME Shape
  PROVE  /\ Now \in Nat /\ Login \subseteq Nat /\ Slot = Login /\ conn \in {0, Now}
         /\ \A g \in Login : Len(inbox[g]) <= ChanCap
         /\ \A g \in Login : loop[g].at = "holding" => loop[g].m \in Message
         /\ conn # 0 => conn \in Login /\ loop[conn].at \in {"reading", "holding"}
<1>1. conn \in 0 .. MaxLogin
  BY DEF Shape, TypeOK
<1>2. conn # 0 => conn \in Login
  BY <1>1, Bounds DEF Login
<1>3. Now \in Nat /\ Login \subseteq Nat /\ Slot = Login
  BY SpentType DEF Shape, Now, Login, Slot
<1>4. \A g \in Login : Len(inbox[g]) <= ChanCap
  BY DEF Shape, TypeOK
<1>5. QED
  BY <1>2, <1>3, <1>4 DEF Shape, LoginsInOrder

LEMMA ReadShape ==
  ASSUME Shape, NEW g \in Login, ReadMessage(g) \/ HandOver(g)
  PROVE  Shape'
<1>1. TypeOK
  BY DEF Shape
<1>2. UNCHANGED Rest /\ UNCHANGED <<waiter, mail, chain, crossed, twins>>
  BY DEF ReadMessage, HandOver, Rest, session, broker, peer, histories
<1>3. crossed \subseteq Room /\ twins \in BOOLEAN
  BY <1>1 DEF TypeOK
<1>4. \A s \in Slot : waiter'[s] = waiter[s]
  BY <1>2
<1>5. CASE ReadMessage(g)
  <2>1. PICK b : b = Head(net[g])
    OBVIOUS
  <2>2. /\ loop[g].at = "reading" /\ net[g] # <<>> /\ inbox' = inbox
        /\ loop' = [loop EXCEPT ![g] = [at |-> "holding", m |-> b]]
        /\ net' = [net EXCEPT ![g] = Tail(net[g])]
    BY <1>5, <2>1 DEF ReadMessage
  <2>3. b \in Message /\ Tail(net[g]) \in Seq(Message)
    BY <1>1, <2>1, <2>2, PathTypes
  <2>4. loop' \in [Login -> Loop] /\ net' \in [Login -> Seq(Message)]
    BY <1>1, <2>2, <2>3, PathTypes DEF Loop
  <2>5. \A h \in Login : loop'[h] = IF h = g THEN [at |-> "holding", m |-> b] ELSE loop[h]
    BY <1>1, <2>2, PathTypes
  <2>6. \A h \in Login : h # g => net'[h] = net[h]
    BY <1>1, <2>2, PathTypes
  <2>7. ~(Now < g)
    BY <2>2 DEF Shape, LoginsInOrder
  <2>8. \A h \in Login : Now < h => net'[h] = <<>> /\ inbox'[h] = <<>> /\ loop'[h].at = "none"
    BY <2>2, <2>5, <2>6, <2>7 DEF Shape, LoginsInOrder
  <2>9. conn # 0 => loop'[conn].at \in {"reading", "holding"}
    BY <2>5, ConnFacts
  <2>10. \A h \in Login : loop'[h].at = "holding" => loop'[h].m \in Message
    BY <2>3, <2>5, ConnFacts
  <2>11. QED
    BY <1>1, <1>2, <1>3, <1>4, <2>2, <2>4, <2>8, <2>9, <2>10, PathTypes, PathShape, ConnFacts
<1>6. CASE HandOver(g)
  <2>1. PICK b : b = loop[g].m
    OBVIOUS
  <2>2. /\ loop[g].at = "holding" /\ Len(inbox[g]) < ChanCap /\ net' = net
        /\ loop' = [loop EXCEPT ![g] = [at |-> "reading", m |-> NoMessage]]
        /\ inbox' = [inbox EXCEPT ![g] = Append(inbox[g], b)]
    BY <1>6, <2>1 DEF HandOver
  <2>3. b \in Message
    BY <2>1, <2>2, ConnFacts
  <2>4. inbox[g] \in Seq(Message)
    BY <1>1, PathTypes
  <2>5. Append(inbox[g], b) \in Seq(Message) /\ Len(Append(inbox[g], b)) <= ChanCap
    BY <2>2, <2>3, <2>4, ClientAssumption
  <2>6. loop' \in [Login -> Loop] /\ inbox' \in [Login -> Seq(Message)]
    BY <1>1, <2>2, <2>5, PathTypes DEF Loop
  <2>7. \A h \in Login : loop'[h] = IF h = g THEN [at |-> "reading", m |-> NoMessage] ELSE loop[h]
    BY <1>1, <2>2, PathTypes
  <2>8. \A h \in Login : inbox'[h] = IF h = g THEN Append(inbox[g], b) ELSE inbox[h]
    BY <1>1, <2>2, PathTypes
  <2>9. ~(Now < g)
    BY <2>2 DEF Shape, LoginsInOrder
  <2>10. \A h \in Login : Now < h => net'[h] = <<>> /\ inbox'[h] = <<>> /\ loop'[h].at = "none"
    BY <2>2, <2>7, <2>8, <2>9 DEF Shape, LoginsInOrder
  <2>11. conn # 0 => loop'[conn].at \in {"reading", "holding"}
    BY <2>7, ConnFacts
  <2>12. \A h \in Login : loop'[h].at = "holding" => loop'[h].m \in Message
    BY <2>7, ConnFacts
  <2>13. \A h \in Login : Len(inbox'[h]) <= ChanCap
    BY <2>5, <2>8, ConnFacts
  <2>14. QED
    BY <1>1, <1>2, <1>3, <1>4, <2>2, <2>6, <2>10, <2>11, <2>12, <2>13, PathTypes, PathShape
<1>7. QED
  BY <1>5, <1>6

LEMMA LoopEndsShape ==
  ASSUME Shape, NEW g \in Login, LoopEnds(g)
  PROVE  Shape'
<1>1. TypeOK
  BY DEF Shape
<1>2. /\ loop[g].at = "reading"
      /\ loop' = [loop EXCEPT ![g] = [loop[g] EXCEPT !.at = "ended"]]
      /\ net' = [net EXCEPT ![g] = <<>>]
      /\ UNCHANGED <<alive, inbox, waiter, mail, uiRoom, tick, sent, passed, stored, said, theirs,
                     spent, twins, lagged, overtaken, misticked>>
  BY DEF LoopEnds, broker, peer
<1>3. loop' \in [Login -> Loop] /\ net' \in [Login -> Seq(Message)]
  <2>1. loop \in [Login -> Loop] /\ net \in [Login -> Seq(Message)]
    BY <1>1, PathTypes
  <2>2. PICK l : l = [loop[g] EXCEPT !.at = "ended"]
    OBVIOUS
  <2>3. l \in Loop
    BY <2>1, <2>2 DEF Loop
  <2>4. loop' = [loop EXCEPT ![g] = l] /\ net' = [net EXCEPT ![g] = <<>>]
    BY <1>2, <2>2
  <2>5. QED
    BY <2>1, <2>3, <2>4
<1>4. \A h \in Login : /\ h # g => loop'[h] = loop[h] /\ net'[h] = net[h]
                       /\ loop'[h].m = loop[h].m /\ loop'[g].at = "ended" /\ net'[g] = <<>>
  <2>1. /\ loop \in [Login -> Loop] /\ net \in [Login -> Seq(Message)]
        /\ loop' = [loop EXCEPT ![g] = [loop[g] EXCEPT !.at = "ended"]]
        /\ net' = [net EXCEPT ![g] = <<>>]
    BY <1>1, <1>2, PathTypes
  <2>2. [loop[g] EXCEPT !.at = "ended"].at = "ended"
        /\ [loop[g] EXCEPT !.at = "ended"].m = loop[g].m
    BY <2>1 DEF Loop
  <2>3. loop'[g] = [loop[g] EXCEPT !.at = "ended"] /\ net'[g] = <<>>
    BY <2>1
  <2>4. \A h \in Login : h # g => loop'[h] = loop[h] /\ net'[h] = net[h]
    BY <2>1
  <2>5. QED
    BY <2>2, <2>3, <2>4
<1>5. ~(Now < g)
  BY <1>2 DEF Shape, LoginsInOrder
<1>6. \A h \in Login : Now < h => net'[h] = <<>> /\ inbox'[h] = <<>> /\ loop'[h].at = "none"
  BY <1>2, <1>4, <1>5 DEF Shape, LoginsInOrder
<1>7. \A h \in Login : loop'[h].at = "holding" => loop'[h].m \in Message
  BY <1>4, ConnFacts
<1>8. CASE conn = g
  <2>1. EndSession
    BY <1>8 DEF LoopEnds
  <2>2. TypeOK'
    BY <1>1, <1>2, <1>3, <2>1, EndedSession DEF TypeOK, Loop
  <2>3. Counted'
    BY <1>1, <1>2, <2>1, EndedSession, SpentType DEF Counted, Shape
  <2>4. LoginsInOrder'
    BY <1>2, <1>6, <1>7, <2>1, EndedSession DEF LoginsInOrder, Now, Shape
  <2>5. QED
    BY <2>2, <2>3, <2>4 DEF Shape
<1>9. CASE conn # g
  <2>1. UNCHANGED <<conn, roomID, count, chain, crossed>>
    BY <1>9 DEF LoopEnds, session
  <2>2. UNCHANGED Rest
    BY <1>2, <2>1 DEF Rest
  <2>3. conn # 0 => loop'[conn].at \in {"reading", "holding"}
    BY <1>4, <1>9, ConnFacts
  <2>4. crossed' \subseteq Room /\ twins' \in BOOLEAN
    BY <1>1, <1>2, <2>1 DEF TypeOK
  <2>5. \A s \in Slot : waiter'[s] = waiter[s]
    BY <1>2
  <2>6. QED
    BY <1>1, <1>2, <1>3, <1>6, <1>7, <2>1, <2>2, <2>3, <2>4, <2>5, PathTypes, PathShape,
       ConnFacts
<1>10. QED
  BY <1>8, <1>9

LEMMA WaiterShape ==
  ASSUME Shape, NEW s \in Slot, TakeMessage(s) \/ Decrypt(s) \/ UpdateMessage(s)
  PROVE  Shape'
<1>1. TypeOK
  BY DEF Shape
<1>2. waiter[s].at # "free" /\ s \in Login /\ s <= Now /\ Now \in Login
  <2>1. waiter[s].at # "free"
    BY DEF TakeMessage, Decrypt, UpdateMessage
  <2>2. s <= Now /\ Now \in 0 .. MaxLogin
    BY <1>1, <2>1, SpentType DEF Shape, LoginsInOrder, Now, Spent
  <2>3. QED
    BY <2>1, <2>2, Bounds DEF Slot, Login
<1>3. UNCHANGED Rest /\ UNCHANGED <<net, loop, mail, twins>>
  BY DEF TakeMessage, Decrypt, UpdateMessage, Rest, session, broker, peer, histories
<1>4. crossed \subseteq Room /\ twins \in BOOLEAN
  BY <1>1 DEF TypeOK
<1>5. ASSUME NEW w \in Wait, waiter' = [waiter EXCEPT ![s] = w],
             \/ w.at = "free" \/ w.at = "done"
             \/ w.at = "waiting" /\ w.g \in Login /\ w.g <= Now
             \/ w.at = "taken" /\ w.g \in Login /\ w.g <= Now /\ w.m \in Message,
             inbox' \in [Login -> Seq(Message)], \A g \in Login : Len(inbox'[g]) <= ChanCap,
             \A g \in Login : Now < g => inbox'[g] = <<>>,
             chain' \in [Room -> [own : 0 .. MaxMessage, other : Nat]],
             crossed' \subseteq Room
      PROVE  Shape'
  <2>1. waiter' \in [Slot -> Wait]
    BY <1>1, <1>5, PathTypes
  <2>2. \A t \in Slot : waiter'[t] = IF t = s THEN w ELSE waiter[t]
    BY <1>1, <1>5, PathTypes
  <2>3. \A t \in Slot :
           \/ waiter'[t] = waiter[t]
           \/ waiter'[t].at = "free"
           \/ waiter'[t].at = "done" /\ t <= Now
           \/ waiter'[t].at = "waiting" /\ waiter'[t].g \in Login /\ waiter'[t].g <= Now /\ t <= Now
           \/ /\ waiter'[t].at = "taken" /\ waiter'[t].g \in Login /\ waiter'[t].g <= Now
              /\ waiter'[t].m \in Message /\ t <= Now
    BY <1>2, <1>5, <2>2
  <2>4. \A g \in Login : Now < g => net'[g] = <<>> /\ inbox'[g] = <<>> /\ loop'[g].at = "none"
    BY <1>3, <1>5 DEF Shape, LoginsInOrder
  <2>5. conn # 0 => loop'[conn].at \in {"reading", "holding"}
    BY <1>3, ConnFacts
  <2>6. \A g \in Login : loop'[g].at = "holding" => loop'[g].m \in Message
    BY <1>3, ConnFacts
  <2>7. QED
    BY <1>1, <1>3, <1>4, <1>5, <2>1, <2>3, <2>4, <2>5, <2>6, PathTypes, PathShape
<1>6. /\ \A g \in Login : Len(inbox[g]) <= ChanCap
      /\ \A g \in Login : Now < g => inbox[g] = <<>>
  BY ConnFacts DEF Shape, LoginsInOrder
<1>7. NoMessage \in Message \cup {NoMessage} /\ 0 \in 0 .. MaxLogin /\ Now \in 0 .. MaxLogin
  BY <1>2, Bounds DEF Login
<1>8. CASE TakeMessage(s)
  <2>1. PICK w : w = waiter[s]
    OBVIOUS
  <2>2. w \in Wait /\ w.at = "waiting" /\ w.g \in Login /\ w.g <= Now
    BY <1>1, <1>8, <2>1, PathTypes DEF TakeMessage, Shape, LoginsInOrder
  <2>3. UNCHANGED <<chain, crossed>>
    BY <1>8 DEF TakeMessage, session, histories
  <2>4. CASE inbox[w.g] # <<>> /\ inbox' = [inbox EXCEPT ![w.g] = Tail(inbox[w.g])]
             /\ waiter' = [waiter EXCEPT ![s] = [w EXCEPT !.at = "taken",
                                                          !.m = Head(inbox[w.g])]]
    <3>1. inbox[w.g] \in Seq(Message)
      BY <1>1, <2>2, PathTypes
    <3>2. /\ Head(inbox[w.g]) \in Message /\ Tail(inbox[w.g]) \in Seq(Message)
          /\ Len(Tail(inbox[w.g])) <= ChanCap
      BY <1>6, <2>2, <2>4, <3>1, ClientAssumption
    <3>3. PICK v : v = [w EXCEPT !.at = "taken", !.m = Head(inbox[w.g])]
      OBVIOUS
    <3>4. v \in Wait /\ v.at = "taken" /\ v.g = w.g /\ v.m \in Message
      BY <2>2, <3>2, <3>3 DEF Wait
    <3>5. inbox' \in [Login -> Seq(Message)]
      BY <1>1, <2>2, <2>4, <3>2, PathTypes
    <3>6. \A g \in Login : inbox'[g] = IF g = w.g THEN Tail(inbox[w.g]) ELSE inbox[g]
      BY <1>1, <2>4, PathTypes
    <3>7. \A g \in Login : Now < g => g # w.g
      BY <2>2, ConnFacts
    <3>8. /\ \A g \in Login : Len(inbox'[g]) <= ChanCap
          /\ \A g \in Login : Now < g => inbox'[g] = <<>>
      BY <1>6, <3>2, <3>6, <3>7
    <3>9. chain' \in [Room -> [own : 0 .. MaxMessage, other : Nat]] /\ crossed' \subseteq Room
      BY <1>1, <1>4, <2>3, PathTypes
    <3>10. waiter' = [waiter EXCEPT ![s] = v]
      BY <2>4, <3>3
    <3>11. QED
      BY <1>5, <2>2, <3>4, <3>5, <3>8, <3>9, <3>10
  <2>5. CASE waiter' = [waiter EXCEPT ![s] = Free] /\ UNCHANGED inbox
    <3>1. Free \in Wait /\ Free.at = "free"
      BY <1>7 DEF Free, Wait
    <3>2. QED
      BY <1>1, <1>4, <1>5, <1>6, <2>3, <2>5, <3>1, PathTypes
  <2>6. QED
    BY <1>8, <2>1, <2>4, <2>5 DEF TakeMessage
<1>9. CASE Decrypt(s)
  <2>1. PICK n, r : n = GetUserKey(chain[r].other, waiter[s].m.label) /\ r = roomID
    OBVIOUS
  <2>2. /\ waiter[s].at = "taken" /\ UNCHANGED inbox
        /\ waiter' = [waiter EXCEPT ![s] = [Free EXCEPT !.at = "done"]]
    BY <1>9 DEF Decrypt
  <2>3. [Free EXCEPT !.at = "done"] \in Wait /\ [Free EXCEPT !.at = "done"].at = "done"
    BY <1>7 DEF Free, Wait
  <2>4. chain' \in [Room -> [own : 0 .. MaxMessage, other : Nat]] /\ crossed' \subseteq Room
    <3>1. CASE r = NoRoom
      BY <1>1, <1>4, <1>9, <2>1, <3>1, PathTypes DEF Decrypt
    <3>2. CASE r # NoRoom
      <4>1. r \in Room
        BY <1>1, <2>1, <3>2 DEF TypeOK
      <4>2. waiter[s].m \in Message
        BY <2>2 DEF Shape, LoginsInOrder
      <4>3. n \in Nat
        BY <1>1, <2>1, <4>1, <4>2, PathTypes DEF GetUserKey, Message
      <4>4. chain' = [chain EXCEPT ![r] = [chain[r] EXCEPT !.other = n]]
            /\ crossed' \in {crossed, crossed \cup {r}}
        BY <1>9, <2>1, <3>2 DEF Decrypt
      <4>5. [chain[r] EXCEPT !.other = n] \in [own : 0 .. MaxMessage, other : Nat]
        BY <1>1, <4>1, <4>3, PathTypes
      <4>6. chain' \in [Room -> [own : 0 .. MaxMessage, other : Nat]]
        BY <1>1, <4>1, <4>4, <4>5, PathTypes
      <4>7. QED
        BY <1>4, <4>1, <4>4, <4>6
    <3>3. QED
      BY <3>1, <3>2
  <2>5. QED
    BY <1>1, <1>5, <1>6, <2>2, <2>3, <2>4, PathTypes
<1>10. CASE UpdateMessage(s)
  <2>1. waiter' = [waiter EXCEPT ![s] = Waiting(Now)] /\ UNCHANGED <<inbox, chain, crossed>>
    BY <1>10 DEF UpdateMessage, Now, session, histories
  <2>2. Waiting(Now) \in Wait /\ Waiting(Now).at = "waiting" /\ Waiting(Now).g = Now
    BY <1>7 DEF Waiting, Wait
  <2>3. Now <= Now
    BY ConnFacts
  <2>4. /\ inbox' \in [Login -> Seq(Message)]
        /\ chain' \in [Room -> [own : 0 .. MaxMessage, other : Nat]]
        /\ crossed' \subseteq Room
    BY <1>1, <1>4, <2>1, PathTypes
  <2>5. /\ \A g \in Login : Len(inbox'[g]) <= ChanCap
        /\ \A g \in Login : Now < g => inbox'[g] = <<>>
    BY <1>6, <2>1
  <2>6. QED
    BY <1>2, <1>5, <2>1, <2>2, <2>3, <2>4, <2>5
<1>11. QED
  BY <1>8, <1>9, <1>10

LEMMA UpdateShape ==
  ASSUME Shape, NEW m \in mail, UpdateSelected(m) \/ UpdateConnected(m)
  PROVE  Shape'
<1>1. TypeOK
  BY DEF Shape
<1>2. CASE UpdateSelected(m)
  <2>1. /\ UNCHANGED <<alive, conn, roomID, count, chain, net, loop, inbox, waiter, sent,
                       passed, stored, said, theirs, spent, crossed, twins, lagged>>
        /\ mail' = mail \ {m} /\ uiRoom' = m.room /\ tick' = m.room /\ misticked' = FALSE
    BY <1>2 DEF UpdateSelected, session, broker, peer
  <2>2. overtaken' \in BOOLEAN
    BY <1>2 DEF UpdateSelected
  <2>3. m.room \in Room \cup {NoRoom}
    BY <1>1, PathTypes DEF Mail
  <2>4. mail' \subseteq Mail
    BY <1>1, <2>1, PathTypes
  <2>5. TypeOK'
    BY <1>1, <2>1, <2>2, <2>3, <2>4 DEF TypeOK, Mail
  <2>6. Counted'
    BY <2>1 DEF Shape, Counted
  <2>7. LoginsInOrder'
    BY <2>1 DEF Shape, LoginsInOrder, Now
  <2>8. QED
    BY <2>5, <2>6, <2>7 DEF Shape
<1>3. CASE UpdateConnected(m)
  <2>1. /\ UNCHANGED Rest /\ UNCHANGED <<net, loop, inbox, chain, crossed>>
        /\ m.kind = "connected" /\ mail' = mail \ {m}
        /\ waiter' = [waiter EXCEPT ![m.n] = Waiting(Now)]
    BY <1>3 DEF UpdateConnected, Rest, session, broker, peer, Now
  <2>2. twins' \in BOOLEAN
    BY <1>3 DEF UpdateConnected
  <2>3. m.n \in Login /\ m.n <= Now
    BY <2>1 DEF Shape, LoginsInOrder
  <2>4. Now \in Login /\ Now \in 0 .. MaxLogin
    BY <1>1, <2>3, SpentType, Bounds DEF Now, Spent, Login
  <2>5. Waiting(Now) \in Wait /\ Waiting(Now).at = "waiting" /\ Waiting(Now).g = Now
    BY <2>4 DEF Waiting, Wait
  <2>6. waiter' \in [Slot -> Wait] /\ m.n \in Slot
    BY <1>1, <2>1, <2>3, <2>5, PathTypes, ConnFacts
  <2>7. \A s \in Slot : waiter'[s] = IF s = m.n THEN Waiting(Now) ELSE waiter[s]
    BY <1>1, <2>1, PathTypes
  <2>8. \A s \in Slot :
          \/ waiter'[s] = waiter[s]
          \/ waiter'[s].at = "waiting" /\ waiter'[s].g \in Login /\ waiter'[s].g <= Now /\ s <= Now
    BY <2>3, <2>4, <2>5, <2>7, ConnFacts
  <2>9. /\ \A g \in Login : Len(inbox'[g]) <= ChanCap
        /\ \A g \in Login : loop'[g].at = "holding" => loop'[g].m \in Message
        /\ conn # 0 => loop'[conn].at \in {"reading", "holding"}
    BY <2>1, ConnFacts
  <2>10. \A g \in Login : Now < g => net'[g] = <<>> /\ inbox'[g] = <<>> /\ loop'[g].at = "none"
    BY <2>1 DEF Shape, LoginsInOrder
  <2>11. crossed' \subseteq Room
    BY <1>1, <2>1 DEF TypeOK
  <2>12. QED
    BY <1>1, <2>1, <2>2, <2>6, <2>8, <2>9, <2>10, <2>11, PathTypes, PathShape
<1>4. QED
  BY <1>2, <1>3

LEMMA NextShape == ASSUME Shape, [Next]_vars PROVE Shape'
<1>1. CASE UNCHANGED vars
  <2>1. UNCHANGED <<alive, conn, roomID, count, chain, net, loop, inbox, waiter, mail, uiRoom,
                    tick, sent, passed, stored, said, theirs, spent, crossed, twins, lagged,
                    overtaken, misticked>>
    BY <1>1 DEF vars, session, broker, peer, histories
  <2>2. TypeOK'
    BY <2>1 DEF Shape, TypeOK
  <2>3. Counted' /\ LoginsInOrder'
    BY <2>1 DEF Shape, Counted, LoginsInOrder, Now
  <2>4. QED
    BY <2>2, <2>3 DEF Shape
<1>2. CASE MapRace
  <2>1. /\ UNCHANGED <<conn, roomID, count, chain, net, loop, inbox, waiter, mail, uiRoom,
                       tick, sent, passed, stored, said, theirs, spent, crossed, twins, lagged,
                       overtaken, misticked>>
        /\ alive' = FALSE
    BY <1>2 DEF MapRace, session, broker, peer, histories
  <2>2. TypeOK'
    BY <2>1 DEF Shape, TypeOK
  <2>3. Counted' /\ LoginsInOrder'
    BY <2>1 DEF Shape, Counted, LoginsInOrder, Now
  <2>4. QED
    BY <2>2, <2>3 DEF Shape
<1>3. ASSUME NEW r \in Room, SelectFails(r) PROVE Shape'
  <2>1. /\ UNCHANGED <<alive, conn, roomID, count, chain, net, loop, inbox, waiter, mail,
                       uiRoom, sent, passed, stored, said, theirs, crossed, twins, lagged,
                       overtaken>>
        /\ tick' = r /\ misticked' = TRUE
    BY <1>3 DEF SelectFails, session, broker, peer
  <2>2. /\ spent' \in Spent /\ spent'.login = spent.login /\ spent'.message = spent.message
    BY <1>3, SpendFailed DEF SelectFails, Shape
  <2>3. TypeOK'
    BY <2>1, <2>2 DEF Shape, TypeOK, Spent
  <2>4. Counted' /\ LoginsInOrder'
    BY <2>1, <2>2 DEF Shape, Counted, LoginsInOrder, Now
  <2>5. QED
    BY <2>3, <2>4 DEF Shape
<1>4. QED
  BY <1>1, <1>2, <1>3, Steps, ConnectShape, ConnectFailsShape, SayShape, SelectShape,
     StoreShape, HearShape, UpdateShape, ReadShape, LoopEndsShape, WaiterShape

-----------------------------------------------------------------------------
(* The rest of the inductive invariant. *)

(* Own messages of a room without a lag: numbered from 0, none under a key *)
(* that is not its own; the chain and the counter are where they should be. *)
Numbered ==
  \A r \in Room \ lagged :
    /\ \A i \in DOMAIN sent[r] : sent[r][i].label = i - 1 /\ sent[r][i].key = i - 1
    /\ chain[r].own <= Len(sent[r])
    /\ roomID = r => count = Len(sent[r])

(* Update has yet to hear of the last selection, or the screen shows it.   *)
Selecting ==
  /\ \A m \in mail : m.kind = "selected" =>
       /\ m.n <= spent.select
       /\ m.n = spent.select /\ roomID # NoRoom => m.room = roomID
  /\ roomID # NoRoom /\ (\A m \in mail : m.kind = "selected" => m.n # spent.select) =>
       overtaken \/ (uiRoom = roomID /\ (tick = roomID \/ misticked))

(* The messages of a sequence, and of each stage of a connection's path.   *)
Elems(q) == {q[i] : i \in DOMAIN q}
Held(g) == {m \in {loop[g].m} : loop[g].at = "holding"}
Pending(g) == Elems(inbox[g]) \cup Held(g) \cup Elems(net[g])

(* Labels do not go back, but for messages that were behind when they were *)
(* sent: from one set of messages to another, along a sequence.            *)
Precedes(X, Y) ==
  \A x \in X, y \in Y : x.room = y.room /\ ~y.behind => x.label <= y.label
Ascending(q) ==
  \A i, j \in DOMAIN q :
    i < j /\ q[i].room = q[j].room /\ ~q[j].behind => q[i].label <= q[j].label

(* A connection's path keeps the order its messages were sent in...        *)
InStages(g) ==
  /\ Ascending(inbox[g]) /\ Ascending(net[g])
  /\ Precedes(Elems(inbox[g]), Held(g)) /\ Precedes(Held(g), Elems(net[g]))
  /\ Precedes(Elems(inbox[g]), Elems(net[g]))

(* ... and what a waiter has taken comes before all that is left on that   *)
(* path and on later ones.                                                 *)
InLine ==
  /\ \A g \in Login : InStages(g)
  /\ \A g, h \in Login : g < h => Precedes(Pending(g), Pending(h))
  /\ \A s \in Slot, h \in Login : waiter[s].at = "taken" /\ waiter[s].g <= h =>
       Precedes({waiter[s].m}, Pending(h))

(* A message was sent, under the key of its label unless it is behind; and *)
(* no chain of the other user's is further than a label used.              *)
Kept(c, n) == c = 0 \/ c < n
Genuine(m) == m.label < said[m.room] /\ (m.behind \/ m.key = m.label)
AllGenuine ==
  /\ \A r \in Room : Kept(theirs[r], said[r])
  /\ \A g \in Login : \A m \in Pending(g) : Genuine(m)
  /\ \A s \in Slot : waiter[s].at = "taken" => Genuine(waiter[s].m)

(* As long as waiters have never met, there is one at most, and the chain  *)
(* of a room no other room's message has moved is not ahead of what can    *)
(* still be taken there and is not behind.                                 *)
Reachable(h) == h = Now \/ \E s \in Slot : /\ waiter[s].at \in {"waiting", "taken"}
                                           /\ waiter[s].g <= h
Behind ==
  ~twins =>
    /\ \A s, t \in Slot : waiter[s].at # "free" /\ waiter[t].at # "free" => s = t
    /\ \A r \in Room \ crossed :
         /\ Kept(chain[r].other, said[r])
         /\ \A h \in Login : \A m \in Pending(h) :
              Reachable(h) /\ m.room = r /\ ~m.behind => chain[r].other <= m.label
         /\ \A s \in Slot :
              waiter[s].at = "taken" /\ waiter[s].m.room = r /\ ~waiter[s].m.behind =>
              chain[r].other <= waiter[s].m.label

Path == InLine /\ AllGenuine /\ Behind

(* Labels that go up. *)
Rising(s) == /\ \A i \in 1 .. Len(s) : s[i].label \in Nat
             /\ \A i, k \in 1 .. Len(s) : i < k => s[i].label < s[k].label

(* Of messages under the keys of their labels, with labels that go up,     *)
(* every one opens.                                                        *)
Keyed(s) == Rising(s) /\ \A i \in 1 .. Len(s) : s[i].key = s[i].label

(* What is stored of a room that was never selected early: keys of their   *)
(* labels, which go up and are below the broker's place in what was sent.  *)
InRows ==
  \A r \in Room \ lagged : /\ Keyed(stored[r])
                            /\ \A i \in 1 .. Len(stored[r]) : stored[r][i].label < passed[r]

IInv == Shape /\ InboxIsServed /\ Numbered /\ Selecting /\ Path /\ InRows

-----------------------------------------------------------------------------
(* The inbox is served, and the session survives. *)

LEMMA ServedStep ==
  ASSUME Shape, InboxIsServed, Next
  PROVE  InboxIsServed'
<1> USE DEF InboxIsServed
<1>1. /\ conn # 0 => conn = Now /\ conn \in Login /\ loop[conn].at # "ended"
      /\ waiter \in [Slot -> Wait] /\ Slot = Login
  BY ConnFacts, PathTypes DEF Shape
<1>2. CASE Connect
  <2>1. PICK m : m = [kind |-> "connected", n |-> spent.login + 1, room |-> NoRoom]
    OBVIOUS
  <2>2. m \in mail' /\ m.kind = "connected"
    BY <1>2, <2>1 DEF Connect
  <2>3. QED
    BY <2>2
<1>3. CASE /\ conn' \in {0, conn} /\ mail \subseteq mail'
           /\ waiter' = waiter
  BY <1>3
<1>4. ASSUME NEW m \in mail, UpdateSelected(m) PROVE InboxIsServed'
  <2>1. UNCHANGED <<conn, waiter>> /\ mail' = mail \ {m} /\ m.kind # "connected"
    BY <1>4 DEF UpdateSelected, session
  <2>2. QED
    BY <2>1
<1>5. ASSUME NEW m \in mail, UpdateConnected(m) PROVE InboxIsServed'
  <2>1. /\ conn' = conn /\ waiter' = [waiter EXCEPT ![m.n] = Waiting(Now)]
        /\ m.kind = "connected"
    BY <1>5 DEF UpdateConnected, session, Now
  <2>2. m.n \in Slot
    BY <1>1, <2>1 DEF Shape, LoginsInOrder
  <2>3. waiter'[m.n].at = "waiting" /\ waiter'[m.n].g = Now
    BY <1>1, <2>1, <2>2 DEF Waiting
  <2>4. QED
    BY <1>1, <2>1, <2>2, <2>3
<1>6. ASSUME NEW s \in Slot, NEW w, UNCHANGED <<conn, mail>>,
             waiter' = [waiter EXCEPT ![s] = w],
             \/ w.at \in {"taken", "done"}
             \/ w.at = "waiting" /\ w.g = Now
             \/ waiter[s].at = "waiting" /\ (conn # 0 => waiter[s].g # conn)
      PROVE  InboxIsServed'
  <2>1. \A t \in Slot : waiter'[t] = IF t = s THEN w ELSE waiter[t]
    BY <1>1, <1>6
  <2>2. QED
    BY <1>1, <1>6, <2>1
<1>7. ASSUME NEW s \in Slot, TakeMessage(s) \/ Decrypt(s) \/ UpdateMessage(s)
      PROVE  InboxIsServed'
  <2>1. UNCHANGED <<conn, mail>>
    BY <1>7 DEF TakeMessage, Decrypt, UpdateMessage, session
  <2>2. CASE Decrypt(s)
    <3>1. waiter' = [waiter EXCEPT ![s] = [Free EXCEPT !.at = "done"]]
          /\ [Free EXCEPT !.at = "done"].at = "done"
      BY <2>2 DEF Decrypt, Free
    <3>2. QED
      BY <1>6, <2>1, <3>1
  <2>3. CASE UpdateMessage(s)
    <3>1. waiter' = [waiter EXCEPT ![s] = Waiting(Now)]
          /\ Waiting(Now).at = "waiting" /\ Waiting(Now).g = Now
      BY <2>3 DEF UpdateMessage, Waiting, Now
    <3>2. QED
      BY <1>6, <2>1, <3>1
  <2>4. CASE TakeMessage(s)
    <3>1. PICK w : w = waiter[s]
      OBVIOUS
    <3>2. w \in Wait
      BY <1>1, <3>1
    <3>3. CASE waiter' = [waiter EXCEPT ![s] = [w EXCEPT !.at = "taken",
                                                         !.m = Head(inbox[w.g])]]
      <4>1. [w EXCEPT !.at = "taken", !.m = Head(inbox[w.g])].at = "taken"
        BY <3>2 DEF Wait
      <4>2. QED
        BY <1>6, <2>1, <3>3, <4>1
    <3>4. CASE waiter' = [waiter EXCEPT ![s] = Free] /\ loop[w.g].at = "ended"
      <4>1. w.at = "waiting" /\ (conn # 0 => w.g # conn)
        BY <1>1, <2>4, <3>1, <3>4 DEF TakeMessage
      <4>2. QED
        BY <1>6, <2>1, <3>1, <3>4, <4>1
    <3>5. QED
      BY <2>4, <3>1, <3>3, <3>4 DEF TakeMessage
  <2>5. QED
    BY <1>7, <2>2, <2>3, <2>4
<1>8. ASSUME \/ ConnectFails \/ Say \/ MapRace
             \/ \E r \in Room, inList \in BOOLEAN : SelectRoom(r, inList)
             \/ \E r \in Room : SelectFails(r) \/ Store(r) \/ Hear(r)
             \/ \E g \in Login : ReadMessage(g) \/ HandOver(g) \/ LoopEnds(g)
      PROVE  InboxIsServed'
  <2>1. conn' \in {0, conn} /\ mail \subseteq mail' /\ waiter' = waiter
    BY <1>8 DEF ConnectFails, EndSession, Say, MapRace, SelectRoom, SelectFails, Store, Hear,
                ReadMessage, HandOver, LoopEnds, session, histories
  <2>2. QED
    BY <1>3, <2>1
<1>9. QED
  BY <1>2, <1>4, <1>5, <1>7, <1>8, Steps

(* The session is only lost to a login or to its own read loop. *)
SurvivesStep == conn # 0 /\ conn' = 0 => loop'[conn].at = "ended" \/ UNCHANGED loop

LEMMA SessionStep ==
  ASSUME Shape, Next
  PROVE  SurvivesStep
<1> USE DEF SurvivesStep
<1>1. CASE UNCHANGED loop \/ UNCHANGED conn
  BY <1>1
<1>2. CASE Connect
  BY <1>2, SpentType, Bounds DEF Connect, Login, Shape
<1>3. ASSUME NEW g \in Login, LoopEnds(g) PROVE SurvivesStep
  <2>1. CASE conn = g
    <3>1. loop' = [loop EXCEPT ![g].at = "ended"]
      BY <1>3 DEF LoopEnds
    <3>2. loop \in [Login -> Loop]
      BY PathTypes DEF Shape
    <3>3. loop'[g].at = "ended"
      BY <3>1, <3>2 DEF Loop
    <3>4. QED
      BY <2>1, <3>3
  <2>2. CASE conn # g
    BY <1>3, <2>2 DEF LoopEnds, session
  <2>3. QED
    BY <2>1, <2>2
<1>4. ASSUME \/ ConnectFails \/ Say \/ MapRace
             \/ \E r \in Room, inList \in BOOLEAN : SelectRoom(r, inList)
             \/ \E r \in Room : SelectFails(r) \/ Store(r) \/ Hear(r)
             \/ \E m \in mail : UpdateSelected(m) \/ UpdateConnected(m)
             \/ \E g \in Login : ReadMessage(g) \/ HandOver(g)
             \/ \E s \in Slot : TakeMessage(s) \/ Decrypt(s) \/ UpdateMessage(s)
      PROVE  UNCHANGED loop \/ UNCHANGED conn
  BY <1>4 DEF ConnectFails, Say, MapRace, SelectRoom, SelectFails, Store, Hear,
              UpdateSelected, UpdateConnected, ReadMessage, HandOver, TakeMessage, Decrypt,
              UpdateMessage, session, histories
<1>5. QED
  BY <1>1, <1>2, <1>3, <1>4, Steps

-----------------------------------------------------------------------------
(* Own messages and their keys. *)

LEMMA NumberedFrame ==
  ASSUME Shape, Numbered, UNCHANGED <<sent, lagged>>,
         \A r \in Room : chain'[r].own \in {0, chain[r].own},
         roomID' = NoRoom \/ UNCHANGED <<roomID, count>>
  PROVE  Numbered'
<1>1. NoRoom \notin Room /\ \A r \in Room : 0 <= Len(sent[r])
  BY ClientAssumption, Lengths DEF Shape
<1>2. QED
  BY <1>1 DEF Numbered

LEMMA NumberedStep ==
  ASSUME Shape, Numbered, Next
  PROVE  Numbered'
<1>1. chain \in [Room -> [own : 0 .. MaxMessage, other : Nat]] /\ NoRoom \notin Room
  BY PathTypes, ClientAssumption DEF Shape
<1>2. ASSUME EndSession, UNCHANGED <<sent, lagged>> PROVE Numbered'
  <2>1. \A r \in Room : chain'[r].own = 0
    BY <1>2 DEF EndSession, NewChain
  <2>2. QED
    BY <1>2, <2>1, NumberedFrame DEF EndSession
<1>3. CASE Connect
  <2>1. \A r \in Room : chain'[r].own = 0
    BY <1>3 DEF Connect, NewChain
  <2>2. QED
    BY <1>3, <2>1, NumberedFrame DEF Connect
<1>4. CASE ConnectFails
  BY <1>2, <1>4 DEF ConnectFails
<1>5. ASSUME UNCHANGED <<sent, lagged, chain, roomID, count>> PROVE Numbered'
  BY <1>5, NumberedFrame
<1>6. ASSUME NEW g \in Login, LoopEnds(g) PROVE Numbered'
  BY <1>2, <1>5, <1>6 DEF LoopEnds, session
<1>7. ASSUME NEW s \in Slot, Decrypt(s) PROVE Numbered'
  <2>1. UNCHANGED <<sent, lagged, roomID, count>>
    BY <1>7 DEF Decrypt
  <2>2. PICK n : \/ chain' = chain
                 \/ roomID # NoRoom /\ chain' = [chain EXCEPT ![roomID].other = n]
    BY <1>7 DEF Decrypt
  <2>3. \A r \in Room : chain'[r].own = chain[r].own
    BY <1>1, <2>2
  <2>4. QED
    BY <2>1, <2>3, NumberedFrame
<1>8. CASE Say
  <2>1. PICK r, key : r = roomID /\ key = GetUserKey(chain[r].own, count)
    OBVIOUS
  <2>2. PICK m : m = [label |-> count, key |-> key]
    OBVIOUS
  <2>3. /\ roomID' = r /\ lagged' = lagged /\ count' = count + 1 /\ r \in Room
        /\ chain' = [chain EXCEPT ![r].own = key]
        /\ sent' = [sent EXCEPT ![r] = Append(sent[r], m)]
    BY <1>8, <2>1, <2>2 DEF Say, Sealed, SessionChain, histories, Shape, TypeOK
  <2>4. /\ sent \in [Room -> Seq(Own)] /\ count \in Nat /\ chain[r].own \in Nat
        /\ Len(sent[r]) \in Nat
    <3>1. TypeOK /\ r \in Room /\ sent \in [Room -> Seq(Own)]
      BY <2>3 DEF Shape, TypeOK
    <3>2. chain[r].own \in 0 .. MaxMessage
      BY <1>1, <3>1
    <3>3. QED
      BY <3>1, <3>2, Lengths, Bounds
  <2>5. /\ \A q \in Room : q # r => sent'[q] = sent[q] /\ chain'[q].own = chain[q].own
        /\ sent'[r] = Append(sent[r], m) /\ chain'[r].own = key
    BY <1>1, <2>3, <2>4
  <2>6. CASE r \in lagged
    BY <2>3, <2>5, <2>6 DEF Numbered
  <2>7. CASE r \notin lagged
    <3>1. count = Len(sent[r]) /\ chain[r].own <= count
      BY <2>1, <2>3, <2>7 DEF Numbered
    <3>2. key = count
      BY <2>1, <2>4, <3>1 DEF GetUserKey
    <3>3. m \in Own
      BY <2>2, <3>2 DEF Own, Shape, TypeOK
    <3>4. sent[r] \in Seq(Own)
      BY <2>3, <2>4
    <3>5. /\ Len(Append(sent[r], m)) = Len(sent[r]) + 1
          /\ DOMAIN sent[r] = 1 .. Len(sent[r])
          /\ DOMAIN Append(sent[r], m) = 1 .. Len(sent[r]) + 1
          /\ \A i \in 1 .. Len(sent[r]) : Append(sent[r], m)[i] = sent[r][i]
          /\ Append(sent[r], m)[Len(sent[r]) + 1] = m
      BY <3>3, <3>4
    <3>6. \A i \in DOMAIN sent[r] : sent[r][i].label = i - 1 /\ sent[r][i].key = i - 1
      BY <2>3, <2>7 DEF Numbered
    <3>7. m.label = count /\ m.key = count
      BY <2>2, <3>2
    <3>8. \A i \in DOMAIN sent'[r] : sent'[r][i].label = i - 1 /\ sent'[r][i].key = i - 1
      BY <2>4, <2>5, <3>1, <3>5, <3>6, <3>7
    <3>9. chain'[r].own <= Len(sent'[r]) /\ count' = Len(sent'[r])
      BY <2>3, <2>4, <2>5, <3>1, <3>2, <3>5
    <3>10. QED
      BY <2>3, <2>5, <3>8, <3>9 DEF Numbered
  <2>8. QED
    BY <2>6, <2>7
<1>9. ASSUME NEW r \in Room, NEW inList \in BOOLEAN, SelectRoom(r, inList)
      PROVE  Numbered'
  <2>1. /\ UNCHANGED <<sent, chain>> /\ roomID' = r /\ count' = Len(stored[r])
        /\ lagged' = IF Len(stored[r]) < Len(sent[r]) THEN lagged \cup {r} ELSE lagged
    BY <1>9 DEF SelectRoom, SentMessageCount
  <2>2. Len(stored[r]) <= Len(sent[r])
    <3>1. Len(stored[r]) <= passed[r] /\ passed[r] <= Len(sent[r])
      BY DEF Shape, Counted
    <3>2. QED
      BY <3>1, Lengths DEF Shape
  <2>3. r \notin lagged' => count' = Len(sent[r])
    BY <2>1, <2>2, Lengths DEF Shape
  <2>4. QED
    BY <2>1, <2>3 DEF Numbered
<1>10. ASSUME \/ MapRace
              \/ \E r \in Room : SelectFails(r) \/ Store(r) \/ Hear(r)
              \/ \E m \in mail : UpdateSelected(m) \/ UpdateConnected(m)
              \/ \E g \in Login : ReadMessage(g) \/ HandOver(g)
              \/ \E s \in Slot : TakeMessage(s) \/ UpdateMessage(s)
       PROVE  UNCHANGED <<sent, lagged, chain, roomID, count>>
  BY <1>10 DEF MapRace, SelectFails, Store, Hear, UpdateSelected, UpdateConnected,
               ReadMessage, HandOver, TakeMessage, UpdateMessage, session, histories
<1>11. QED
  BY <1>3, <1>4, <1>5, <1>6, <1>7, <1>8, <1>9, <1>10, Steps

-----------------------------------------------------------------------------
(* The selection on the screen. *)

LEMMA SelectingFrame ==
  ASSUME Selecting, UNCHANGED <<uiRoom, overtaken>>, spent'.select = spent.select,
         UNCHANGED <<tick, misticked>> \/ misticked' = TRUE,
         roomID' \in {roomID, NoRoom},
         \A m \in mail' : m.kind = "selected" => m \in mail,
         \A m \in mail : m.kind = "selected" => m \in mail'
  PROVE  Selecting'
BY DEF Selecting

LEMMA SelectingStep ==
  ASSUME Shape, Selecting, Next
  PROVE  Selecting'
<1>1. CASE Connect
  <2>1. PICK m : m = [kind |-> "connected", n |-> spent.login + 1, room |-> NoRoom]
    OBVIOUS
  <2>2. /\ UNCHANGED <<uiRoom, overtaken, tick, misticked>> /\ roomID' = NoRoom
        /\ mail' = mail \cup {m} /\ m.kind # "selected"
    BY <1>1, <2>1 DEF Connect
  <2>3. spent'.select = spent.select
    BY <1>1, SpendLogin DEF Connect, Shape
  <2>4. QED
    BY <2>2, <2>3, SelectingFrame
<1>2. CASE Say
  <2>1. UNCHANGED <<uiRoom, overtaken, tick, misticked, roomID, mail>>
    BY <1>2 DEF Say, histories
  <2>2. spent'.select = spent.select
    BY <1>2, SpendMessage DEF Say, Shape
  <2>3. QED
    BY <2>1, <2>2, SelectingFrame
<1>3. ASSUME NEW r \in Room, Hear(r) PROVE Selecting'
  <2>1. UNCHANGED <<uiRoom, overtaken, tick, misticked, roomID, mail>>
    BY <1>3 DEF Hear, histories, session
  <2>2. spent'.select = spent.select
    BY <1>3, SpendMessage DEF Hear, Shape
  <2>3. QED
    BY <2>1, <2>2, SelectingFrame
<1>4. ASSUME NEW r \in Room, SelectFails(r) PROVE Selecting'
  <2>1. UNCHANGED <<uiRoom, overtaken, roomID, mail>> /\ misticked' = TRUE
    BY <1>4 DEF SelectFails, session
  <2>2. spent'.select = spent.select
    BY <1>4, SpendFailed DEF SelectFails, Shape
  <2>3. QED
    BY <2>1, <2>2, SelectingFrame
<1>5. ASSUME NEW r \in Room, NEW inList \in BOOLEAN, SelectRoom(r, inList)
      PROVE  Selecting'
  <2>1. PICK n, m : /\ n = spent.select + 1
                    /\ m = [kind |-> "selected", n |-> n, room |-> r]
    OBVIOUS
  <2>2. roomID' = r /\ mail' = mail \cup {m}
    BY <1>5, <2>1 DEF SelectRoom
  <2>3. spent'.select = n /\ n \in Nat /\ spent.select \in Nat
    BY <1>5, <2>1, SpendSelect, SpentType DEF SelectRoom, Shape
  <2>4. m \in mail' /\ m.kind = "selected" /\ m.n = n /\ m.room = r
    BY <2>1, <2>2
  <2>5. \A x \in mail : x.n \in Nat
    BY PathTypes DEF Shape, Mail
  <2>6. \A x \in mail : x.kind = "selected" => x.n <= n /\ x.n # n
    BY <2>1, <2>3, <2>5 DEF Selecting
  <2>7. QED
    BY <2>2, <2>3, <2>4, <2>6 DEF Selecting
<1>6. ASSUME NEW m \in mail, UpdateConnected(m) PROVE Selecting'
  <2>1. /\ UNCHANGED <<uiRoom, overtaken, tick, misticked, roomID, spent>>
        /\ mail' = mail \ {m} /\ m.kind = "connected"
    BY <1>6 DEF UpdateConnected, session
  <2>2. QED
    BY <2>1, SelectingFrame
<1>7. ASSUME NEW m \in mail, UpdateSelected(m) PROVE Selecting'
  <2>1. /\ m.kind = "selected" /\ mail' = mail \ {m} /\ uiRoom' = m.room /\ tick' = m.room
        /\ overtaken' = \E n \in m.n + 1 .. spent.select :
                          \A x \in mail : x.kind = "selected" => x.n # n
        /\ UNCHANGED <<spent, roomID>>
    BY <1>7 DEF UpdateSelected, session
  <2>2. m.n \in Nat /\ spent.select \in Nat /\ m.n <= spent.select
    BY <2>1, PathTypes, SpentType DEF Shape, Mail, Selecting
  <2>3. \A x \in mail' : x.kind = "selected" =>
          /\ x.n <= spent.select
          /\ x.n = spent.select /\ roomID # NoRoom => x.room = roomID
    BY <2>1 DEF Selecting
  <2>4. CASE m.n = spent.select
    BY <2>1, <2>3, <2>4 DEF Selecting
  <2>5. CASE m.n # spent.select
    <3>1. ASSUME \A x \in mail' : x.kind = "selected" => x.n # spent.select
          PROVE  overtaken'
      <4>1. \A x \in mail : x.kind = "selected" => x.n # spent.select
        BY <2>1, <2>5, <3>1
      <4>2. spent.select \in m.n + 1 .. spent.select
        BY <2>2, <2>5
      <4>3. QED
        BY <2>1, <4>1, <4>2
    <3>2. QED
      BY <2>1, <2>3, <3>1 DEF Selecting
  <2>6. QED
    BY <2>4, <2>5
<1>8. ASSUME \/ ConnectFails \/ MapRace
             \/ \E r \in Room : Store(r)
             \/ \E g \in Login : ReadMessage(g) \/ HandOver(g) \/ LoopEnds(g)
             \/ \E s \in Slot : TakeMessage(s) \/ Decrypt(s) \/ UpdateMessage(s)
      PROVE  Selecting'
  <2>1. /\ UNCHANGED <<uiRoom, overtaken, tick, misticked, mail, spent>>
        /\ roomID' \in {roomID, NoRoom}
    BY <1>8 DEF ConnectFails, EndSession, MapRace, Store, ReadMessage, HandOver, LoopEnds,
                TakeMessage, Decrypt, UpdateMessage, session, histories
  <2>2. QED
    BY <2>1, SelectingFrame
<1>9. QED
  BY <1>1, <1>2, <1>3, <1>4, <1>5, <1>6, <1>7, <1>8, Steps

-----------------------------------------------------------------------------
(* Sequences of messages. *)

LEMMA TailElems ==
  ASSUME NEW q \in Seq(Message), q # <<>>
  PROVE  /\ Head(q) \in Elems(q) /\ Elems(Tail(q)) \subseteq Elems(q)
         /\ Ascending(q) => Ascending(Tail(q)) /\ Precedes({Head(q)}, Elems(Tail(q)))
<1>1. /\ Len(q) \in Nat /\ Len(q) # 0 /\ DOMAIN q = 1 .. Len(q) /\ Head(q) = q[1]
      /\ Tail(q) \in Seq(Message) /\ Len(Tail(q)) = Len(q) - 1
      /\ DOMAIN Tail(q) = 1 .. Len(q) - 1
      /\ \A i \in 1 .. Len(q) - 1 : Tail(q)[i] = q[i + 1]
  OBVIOUS
<1>2. 1 \in DOMAIN q /\ \A i \in DOMAIN Tail(q) : i + 1 \in DOMAIN q /\ 1 < i + 1
  BY <1>1
<1>3. Head(q) \in Elems(q) /\ Elems(Tail(q)) \subseteq Elems(q)
  BY <1>1, <1>2 DEF Elems
<1>4. ASSUME Ascending(q) PROVE Ascending(Tail(q)) /\ Precedes({Head(q)}, Elems(Tail(q)))
  <2>1. \A i, j \in DOMAIN Tail(q) : i < j => i + 1 < j + 1
    BY <1>1
  <2>2. Ascending(Tail(q))
    BY <1>1, <1>2, <1>4, <2>1 DEF Ascending
  <2>3. Precedes({Head(q)}, Elems(Tail(q)))
    BY <1>1, <1>2, <1>4 DEF Ascending, Precedes, Elems
  <2>4. QED
    BY <2>2, <2>3
<1>5. QED
  BY <1>3, <1>4

LEMMA AppendElems ==
  ASSUME NEW q \in Seq(Message), NEW m \in Message
  PROVE  /\ Elems(Append(q, m)) = Elems(q) \cup {m}
         /\ Ascending(q) /\ Precedes(Elems(q), {m}) => Ascending(Append(q, m))
<1>1. /\ Len(q) \in Nat /\ DOMAIN q = 1 .. Len(q)
      /\ DOMAIN Append(q, m) = 1 .. Len(q) + 1
      /\ \A i \in 1 .. Len(q) : Append(q, m)[i] = q[i]
      /\ Append(q, m)[Len(q) + 1] = m
  OBVIOUS
<1>2. \A i \in DOMAIN Append(q, m) : i \in DOMAIN q \/ i = Len(q) + 1
  BY <1>1
<1>3. DOMAIN q \subseteq DOMAIN Append(q, m) /\ Len(q) + 1 \in DOMAIN Append(q, m)
  BY <1>1
<1>4. Elems(Append(q, m)) = Elems(q) \cup {m}
  BY <1>1, <1>2, <1>3 DEF Elems
<1>5. ASSUME Ascending(q), Precedes(Elems(q), {m}) PROVE Ascending(Append(q, m))
  <2>1. SUFFICES ASSUME NEW i \in DOMAIN Append(q, m), NEW j \in DOMAIN Append(q, m),
                        i < j, Append(q, m)[i].room = Append(q, m)[j].room,
                        ~Append(q, m)[j].behind
                 PROVE  Append(q, m)[i].label <= Append(q, m)[j].label
    BY DEF Ascending
  <2>2. i \in DOMAIN q
    BY <1>1, <2>1
  <2>3. Append(q, m)[i] = q[i] /\ q[i] \in Elems(q)
    BY <1>1, <2>2 DEF Elems
  <2>4. CASE j \in DOMAIN q
    BY <1>1, <1>5, <2>1, <2>2, <2>3, <2>4 DEF Ascending
  <2>5. CASE j = Len(q) + 1
    BY <1>1, <1>5, <2>1, <2>3, <2>5 DEF Precedes
  <2>6. QED
    BY <1>2, <2>4, <2>5
<1>6. QED
  BY <1>4, <1>5

-----------------------------------------------------------------------------
(* The path of messages. *)

LEMMA PendingType ==
  ASSUME Shape
  PROVE  /\ \A g \in Login : /\ Pending(g) \subseteq Message
                             /\ Elems(inbox[g]) \subseteq Pending(g)
                             /\ Held(g) \subseteq Pending(g)
                             /\ Elems(net[g]) \subseteq Pending(g)
                             /\ Now < g => Pending(g) = {}
         /\ \A m \in Message : m.label \in Nat /\ m.room \in Room
         /\ \A s \in Slot : waiter[s].at = "taken" => waiter[s].m \in Message
         /\ \A s \in Slot : waiter[s].at \in {"waiting", "taken"} =>
              waiter[s].g \in Login /\ waiter[s].g <= Now
         /\ Now \in Nat /\ Login \subseteq Nat /\ Slot = Login
         /\ \A r \in Room : chain[r].other \in Nat /\ said[r] \in Nat
<1>1. ASSUME NEW g \in Login PROVE Pending(g) \subseteq Message
  <2>1. inbox[g] \in Seq(Message) /\ net[g] \in Seq(Message)
    BY PathTypes DEF Shape
  <2>2. Elems(inbox[g]) \subseteq Message /\ Elems(net[g]) \subseteq Message
    BY <2>1 DEF Elems
  <2>3. Held(g) \subseteq Message
    BY ConnFacts DEF Held
  <2>4. QED
    BY <2>2, <2>3 DEF Pending
<1>2. ASSUME NEW g \in Login, Now < g PROVE Pending(g) = {}
  <2>1. inbox[g] = <<>> /\ net[g] = <<>> /\ loop[g].at = "none"
    BY <1>2 DEF Shape, LoginsInOrder
  <2>2. QED
    BY <2>1 DEF Pending, Elems, Held
<1>3. \A m \in Message : m.label \in Nat /\ m.room \in Room
  BY DEF Message
<1>4. \A r \in Room : chain[r].other \in Nat /\ said[r] \in Nat
  BY DEF Shape, TypeOK
<1>5. /\ \A s \in Slot : waiter[s].at = "taken" => waiter[s].m \in Message
      /\ \A s \in Slot : waiter[s].at \in {"waiting", "taken"} =>
           waiter[s].g \in Login /\ waiter[s].g <= Now
  BY DEF Shape, LoginsInOrder
<1>6. QED
  BY <1>1, <1>2, <1>3, <1>4, <1>5, ConnFacts DEF Pending

(* A step that brings no message, starts no waiter and moves no chain.     *)
LEMMA PathFrame ==
  ASSUME Shape, Path, UNCHANGED <<said, theirs, waiter, twins>>, Now' \in Nat, Now <= Now',
         \A g \in Login : Pending(g)' \subseteq Pending(g),
         \A g \in Login : InStages(g)',
         \A r \in Room \ crossed' :
           (r \notin crossed /\ chain'[r].other = chain[r].other) \/ chain'[r].other = 0
  PROVE  Path'
<1>1. InLine /\ AllGenuine /\ Behind
  BY DEF Path
<1>2. InLine'
  <2>1. \A g, h \in Login : g < h => Precedes(Pending(g)', Pending(h)')
    BY <1>1 DEF InLine, Precedes
  <2>2. \A s \in Slot, h \in Login : waiter[s].at = "taken" /\ waiter[s].g <= h =>
          Precedes({waiter[s].m}, Pending(h)')
    BY <1>1 DEF InLine, Precedes
  <2>3. QED
    BY <2>1, <2>2 DEF InLine, Precedes
<1>3. AllGenuine'
  <2>1. \A g \in Login : \A m \in Pending(g)' : Genuine(m)
    BY <1>1 DEF AllGenuine
  <2>2. QED
    BY <1>1, <2>1 DEF AllGenuine, Genuine
<1>4. Behind'
  <2>1. SUFFICES ASSUME ~twins PROVE Behind'
    BY DEF Behind
  <2>2. \A s, t \in Slot : waiter[s].at # "free" /\ waiter[t].at # "free" => s = t
    BY <1>1, <2>1 DEF Behind
  <2>3. ASSUME NEW r \in Room \ crossed'
        PROVE  /\ Kept(chain'[r].other, said[r])
               /\ \A h \in Login : \A m \in Pending(h)' :
                    Reachable(h)' /\ m.room = r /\ ~m.behind => chain'[r].other <= m.label
               /\ \A s \in Slot :
                    waiter[s].at = "taken" /\ waiter[s].m.room = r /\ ~waiter[s].m.behind =>
                    chain'[r].other <= waiter[s].m.label
    <3>1. CASE chain'[r].other = 0
      BY <3>1, PendingType DEF Kept
    <3>2. CASE r \notin crossed /\ chain'[r].other = chain[r].other
      <4>1. \A h \in Login : Reachable(h)' => Reachable(h) \/ Now < h
        BY PendingType DEF Reachable
      <4>2. \A h \in Login : \A m \in Pending(h)' : m \in Pending(h) /\ ~(Now < h)
        BY PendingType
      <4>3. QED
        BY <1>1, <2>1, <3>2, <4>1, <4>2 DEF Behind
    <3>3. QED
      BY <2>3, <3>1, <3>2
  <2>4. QED
    BY <2>2, <2>3 DEF Behind
<1>5. QED
  BY <1>2, <1>3, <1>4 DEF Path

LEMMA QuietPath ==
  ASSUME Shape, Path, UNCHANGED <<net, loop, inbox, waiter, said, theirs, twins>>,
         Now' = Now,
         \A r \in Room \ crossed' :
           (r \notin crossed /\ chain'[r].other = chain[r].other) \/ chain'[r].other = 0
  PROVE  Path'
<1>1. \A g \in Login : Pending(g)' \subseteq Pending(g)
  BY DEF Pending, Held
<1>2. \A g \in Login : InStages(g)'
  BY DEF Path, InLine, InStages, Held
<1>3. Now \in Nat
  BY PendingType
<1>4. QED
  BY <1>1, <1>2, <1>3, PathFrame

LEMMA EndedPath ==
  ASSUME EndSession
  PROVE  \A r \in Room \ crossed' : chain'[r].other = 0
BY DEF EndSession, NewChain

LEMMA UserPath ==
  ASSUME Shape, Path,
         \/ ConnectFails \/ Say \/ MapRace
         \/ \E r \in Room, inList \in BOOLEAN : SelectRoom(r, inList)
         \/ \E r \in Room : SelectFails(r) \/ Store(r)
         \/ \E m \in mail : UpdateSelected(m)
  PROVE  Path'
<1>1. CASE ConnectFails
  <2>1. UNCHANGED <<net, loop, inbox, waiter, said, theirs, twins, spent>>
    BY <1>1 DEF peer, ConnectFails
  <2>2. QED
    BY <1>1, <2>1, EndedPath, QuietPath DEF ConnectFails, Now
<1>2. CASE Say
  <2>1. /\ UNCHANGED <<net, loop, inbox, waiter, said, theirs, twins, crossed>>
        /\ chain' = [chain EXCEPT ![roomID].own = GetUserKey(SessionChain.own, count)]
    BY <1>2 DEF peer, Say, histories
  <2>2. Now' = Now
    BY <1>2, SpendMessage DEF Say, Shape, Now
  <2>3. chain \in [Room -> [own : 0 .. MaxMessage, other : Nat]]
    BY PathTypes DEF Shape
  <2>4. \A r \in Room : chain'[r].other = chain[r].other
    BY <2>1, <2>3
  <2>5. QED
    BY <2>1, <2>2, <2>4, QuietPath
<1>3. ASSUME NEW r \in Room, NEW inList \in BOOLEAN, SelectRoom(r, inList)
      PROVE  Path'
  <2>1. UNCHANGED <<net, loop, inbox, waiter, said, theirs, twins, crossed, chain>>
    BY <1>3 DEF peer, SelectRoom
  <2>2. Now' = Now
    BY <1>3, SpendSelect DEF SelectRoom, Shape, Now
  <2>3. QED
    BY <2>1, <2>2, QuietPath
<1>4. ASSUME NEW r \in Room, SelectFails(r) PROVE Path'
  <2>1. UNCHANGED <<net, loop, inbox, waiter, said, theirs, twins, crossed, chain>>
    BY <1>4 DEF peer, SelectFails, session
  <2>2. Now' = Now
    BY <1>4, SpendFailed DEF SelectFails, Shape, Now
  <2>3. QED
    BY <2>1, <2>2, QuietPath
<1>5. ASSUME MapRace \/ (\E r \in Room : Store(r)) \/ \E m \in mail : UpdateSelected(m)
      PROVE  Path'
  <2>1. UNCHANGED <<net, loop, inbox, waiter, said, theirs, twins, crossed, chain, spent>>
    BY <1>5 DEF peer, MapRace, Store, UpdateSelected, session, histories
  <2>2. QED
    BY <2>1, QuietPath DEF Now
<1>6. QED
  BY <1>1, <1>2, <1>3, <1>4, <1>5

LEMMA ConnectPath ==
  ASSUME Shape, Path, Connect
  PROVE  Path'
<1>1. PICK g : g = spent.login + 1
  OBVIOUS
<1>2. /\ UNCHANGED <<said, theirs, waiter, twins, net, inbox>> /\ g \in Login
      /\ spent' = [spent EXCEPT !.login = g]
      /\ loop' = [loop EXCEPT ![g].at = "reading"]
      /\ chain' = [r \in Room |-> NewChain]
  BY <1>1 DEF peer, Connect
<1>3. Now' = Now + 1 /\ g = Now + 1 /\ Now \in Nat
  BY <1>1, <1>2, SpendLogin, SpentType DEF Shape, Now
<1>4. loop[g].at = "none"
  BY <1>2, <1>3 DEF Shape, LoginsInOrder
<1>5. loop'[g].at = "reading" /\ \A h \in Login : h # g => loop'[h] = loop[h]
  BY <1>2, PathTypes DEF Shape, Loop
<1>6. \A h \in Login : Held(h)' = Held(h)
  BY <1>4, <1>5 DEF Held
<1>7. \A h \in Login : Pending(h)' \subseteq Pending(h)
  BY <1>2, <1>6 DEF Pending
<1>8. \A h \in Login : InStages(h)'
  BY <1>2, <1>6 DEF Path, InLine, InStages
<1>9. \A r \in Room : chain'[r].other = 0
  BY <1>2 DEF NewChain
<1>10. QED
  BY <1>2, <1>3, <1>7, <1>8, <1>9, PathFrame

LEMMA LoopPath ==
  ASSUME Shape, Path, NEW g \in Login, ReadMessage(g) \/ HandOver(g) \/ LoopEnds(g)
  PROVE  Path'
<1>1. /\ net \in [Login -> Seq(Message)] /\ inbox \in [Login -> Seq(Message)]
      /\ loop \in [Login -> Loop]
  BY PathTypes DEF Shape
<1>2. /\ UNCHANGED <<said, theirs, waiter, twins, spent>> /\ Now' = Now /\ Now \in Nat
      /\ \A r \in Room \ crossed' :
           (r \notin crossed /\ chain'[r].other = chain[r].other) \/ chain'[r].other = 0
  BY EndedPath, PendingType
     DEF peer, ReadMessage, HandOver, LoopEnds, session, histories, Now
<1>3. \A h \in Login : InStages(h)
  BY DEF Path, InLine
<1>4. ASSUME \A h \in Login : h # g =>
               UNCHANGED <<net[h], inbox[h], loop[h]>>,
             Pending(g)' \subseteq Pending(g), InStages(g)'
      PROVE  Path'
  <2>1. \A h \in Login : h # g => Held(h)' = Held(h)
    BY <1>4 DEF Held
  <2>2. \A h \in Login : Pending(h)' \subseteq Pending(h)
    BY <1>4, <2>1 DEF Pending
  <2>3. \A h \in Login : InStages(h)'
    BY <1>3, <1>4, <2>1 DEF InStages
  <2>4. QED
    BY <1>2, <2>2, <2>3, PathFrame
<1>5. CASE ReadMessage(g)
  <2>1. PICK b : b = Head(net[g])
    OBVIOUS
  <2>2. /\ loop[g].at = "reading" /\ net[g] # <<>> /\ inbox' = inbox
        /\ loop' = [loop EXCEPT ![g] = [at |-> "holding", m |-> b]]
        /\ net' = [net EXCEPT ![g] = Tail(net[g])]
    BY <1>5, <2>1 DEF ReadMessage
  <2>3. /\ loop'[g].at = "holding" /\ loop'[g].m = b /\ net'[g] = Tail(net[g])
        /\ \A h \in Login : h # g => UNCHANGED <<net[h], inbox[h], loop[h]>>
    BY <1>1, <2>2
  <2>4. Held(g)' = {b} /\ Held(g) = {} /\ inbox'[g] = inbox[g]
    BY <2>2, <2>3 DEF Held
  <2>5. net[g] \in Seq(Message)
    BY <1>1
  <2>6. /\ b \in Elems(net[g]) /\ Elems(Tail(net[g])) \subseteq Elems(net[g])
        /\ Ascending(Tail(net[g])) /\ Precedes({b}, Elems(Tail(net[g])))
    BY <1>3, <2>1, <2>2, <2>5, TailElems DEF InStages
  <2>7. Pending(g)' \subseteq Pending(g)
    BY <2>3, <2>4, <2>6 DEF Pending
  <2>8. /\ Precedes(Elems(inbox[g]), {b})
        /\ Precedes(Elems(inbox[g]), Elems(Tail(net[g])))
    BY <1>3, <2>6 DEF InStages, Precedes
  <2>9. InStages(g)'
    BY <1>3, <2>3, <2>4, <2>6, <2>8 DEF InStages
  <2>10. QED
    BY <1>4, <2>3, <2>7, <2>9
<1>6. CASE HandOver(g)
  <2>1. PICK b : b = loop[g].m
    OBVIOUS
  <2>2. /\ loop[g].at = "holding" /\ net' = net
        /\ loop' = [loop EXCEPT ![g] = [at |-> "reading", m |-> NoMessage]]
        /\ inbox' = [inbox EXCEPT ![g] = Append(inbox[g], b)]
    BY <1>6, <2>1 DEF HandOver
  <2>3. /\ loop'[g].at = "reading" /\ inbox'[g] = Append(inbox[g], b)
        /\ \A h \in Login : h # g => UNCHANGED <<net[h], inbox[h], loop[h]>>
    BY <1>1, <2>2
  <2>4. Held(g)' = {} /\ Held(g) = {b} /\ net'[g] = net[g]
    BY <2>1, <2>2, <2>3 DEF Held
  <2>5. inbox[g] \in Seq(Message) /\ b \in Message
    BY <1>1, <2>1, <2>2, ConnFacts
  <2>6. /\ Elems(inbox'[g]) = Elems(inbox[g]) \cup {b}
        /\ Ascending(inbox'[g])
    BY <1>3, <2>3, <2>4, <2>5, AppendElems DEF InStages
  <2>7. Pending(g)' \subseteq Pending(g)
    BY <2>4, <2>6 DEF Pending
  <2>8. Precedes(Elems(inbox'[g]), Elems(net[g]))
    BY <1>3, <2>4, <2>6 DEF InStages, Precedes
  <2>9. Precedes(Elems(inbox'[g]), {}) /\ Precedes({}, Elems(net[g])) /\ Ascending(net[g])
    BY <1>3 DEF InStages, Precedes
  <2>10. InStages(g)'
    BY <2>4, <2>6, <2>8, <2>9 DEF InStages
  <2>11. QED
    BY <1>4, <2>3, <2>7, <2>10
<1>7. CASE LoopEnds(g)
  <2>1. /\ loop[g].at = "reading" /\ inbox' = inbox
        /\ loop' = [loop EXCEPT ![g].at = "ended"] /\ net' = [net EXCEPT ![g] = <<>>]
    BY <1>7 DEF LoopEnds
  <2>2. /\ loop'[g].at = "ended" /\ net'[g] = <<>>
        /\ \A h \in Login : h # g => UNCHANGED <<net[h], inbox[h], loop[h]>>
    BY <1>1, <2>1 DEF Loop
  <2>3. Held(g)' = {} /\ Elems(net'[g]) = {} /\ Ascending(net'[g])
    BY <2>2 DEF Held, Elems, Ascending
  <2>4. Pending(g)' \subseteq Pending(g)
    BY <2>1, <2>3 DEF Pending
  <2>5. InStages(g)'
    BY <1>3, <2>1, <2>3 DEF InStages, Precedes
  <2>6. QED
    BY <1>4, <2>2, <2>4, <2>5
<1>8. QED
  BY <1>5, <1>6, <1>7

LEMMA HearPath ==
  ASSUME Shape, Path, NEW r \in Room, Hear(r)
  PROVE  Path'
<1>1. PICK n \in 0 .. said[r], c \in {0, theirs[r]} :
        /\ said' = IF n = said[r] THEN [said EXCEPT ![r] = n + 1] ELSE said
        /\ theirs' = [theirs EXCEPT ![r] = GetUserKey(c, n)]
        /\ \/ conn # 0 /\ net' = [net EXCEPT ![conn] = Append(net[conn], Heard(r, n, c))]
           \/ net' = net
  BY DEF Hear, Heard
<1>2. PICK b : b = Heard(r, n, c)
  OBVIOUS
<1>3. /\ UNCHANGED <<loop, inbox, waiter, chain, crossed, twins>> /\ Now' = Now
      /\ \/ net' = net
         \/ conn # 0 /\ net' = [net EXCEPT ![conn] = Append(net[conn], b)]
  <2>1. UNCHANGED <<loop, inbox, waiter, chain, crossed, twins>>
    BY DEF Hear, session, histories
  <2>2. Now' = Now
    BY SpendMessage DEF Hear, Shape, Now
  <2>3. QED
    BY <1>1, <1>2, <2>1, <2>2
<1>4. InLine /\ AllGenuine /\ Behind
  BY DEF Path
<1>5. /\ said \in [Room -> Nat] /\ theirs \in [Room -> Nat] /\ net \in [Login -> Seq(Message)]
  BY DEF Shape, TypeOK
<1>6. /\ n \in Nat /\ b \in Message /\ b.room = r /\ b.label = n /\ n <= said[r] /\ said[r] \in Nat
      /\ b.key = GetUserKey(c, n) /\ (b.behind \/ said[r] <= n + 1) /\ c \in Nat
  BY <1>2, HeardType
<1>7. /\ said'[r] = IF n = said[r] THEN n + 1 ELSE said[r]
      /\ \A q \in Room : q # r => said'[q] = said[q]
      /\ theirs'[r] = GetUserKey(c, n) /\ \A q \in Room : q # r => theirs'[q] = theirs[q]
  BY <1>1, <1>5
<1>8. /\ n < said'[r]
      /\ \A q \in Room : said[q] \in Nat /\ said'[q] \in Nat /\ said[q] <= said'[q]
  BY <1>5, <1>6, <1>7
<1>9. Kept(c, said[r])
  BY <1>4 DEF AllGenuine, Kept
<1>10. \A q \in Room : Kept(theirs'[q], said'[q])
  <2>1. Kept(GetUserKey(c, n), said'[r])
    BY <1>6, <1>8, <1>9 DEF Kept, GetUserKey
  <2>2. ASSUME NEW q \in Room, q # r PROVE Kept(theirs'[q], said'[q])
    BY <1>4, <1>7, <2>2 DEF AllGenuine
  <2>3. QED
    BY <1>7, <2>1, <2>2
<1>11. b.behind \/ b.key = b.label
  <2>1. said[r] <= n + 1 => GetUserKey(c, n) = n
    BY <1>6, <1>9 DEF Kept, GetUserKey
  <2>2. QED
    BY <1>6, <2>1
<1>12. \A k \in Nat : k < said[r] /\ ~b.behind => k <= n
  BY <1>6
<1>13. \A g \in Login : Held(g)' = Held(g)
  BY <1>3 DEF Held
<1>14. ASSUME NEW g \in Login
       PROVE  /\ InStages(g)' /\ Pending(g)' \subseteq Pending(g) \cup {b}
              /\ g # conn => Pending(g)' = Pending(g)
  <2>1. InStages(g)
    BY <1>4 DEF InLine
  <2>2. CASE net'[g] = net[g]
    BY <1>3, <1>13, <2>1, <2>2 DEF InStages, Pending
  <2>3. CASE g = conn /\ net' = [net EXCEPT ![g] = Append(net[g], b)]
    <3>1. net[g] \in Seq(Message) /\ net'[g] = Append(net[g], b)
      BY <1>5, <2>3
    <3>2. \A m \in Pending(g) : m.room = r /\ ~b.behind => m.label <= n
      BY <1>4, <1>12, PendingType DEF AllGenuine, Genuine
    <3>3. \A m \in Elems(net[g]) \cup Elems(inbox[g]) \cup Held(g) :
            m.room = r /\ ~b.behind => m.label <= n
      BY <3>2 DEF Pending
    <3>4. Precedes(Elems(net[g]), {b})
      BY <1>6, <3>3 DEF Precedes
    <3>5. Elems(net'[g]) = Elems(net[g]) \cup {b} /\ Ascending(net'[g])
      BY <1>6, <2>1, <3>1, <3>4, AppendElems DEF InStages
    <3>6. Precedes(Elems(inbox[g]), Elems(net'[g])) /\ Precedes(Held(g), Elems(net'[g]))
      BY <1>6, <2>1, <3>3, <3>5 DEF InStages, Precedes
    <3>7. InStages(g)'
      BY <1>3, <1>13, <2>1, <3>5, <3>6 DEF InStages
    <3>8. Pending(g)' \subseteq Pending(g) \cup {b}
      BY <1>3, <1>13, <3>5 DEF Pending
    <3>9. QED
      BY <2>3, <3>7, <3>8
  <2>4. CASE g # conn
    <3>1. net'[g] = net[g]
      BY <1>3, <1>5, <2>4
    <3>2. QED
      BY <1>3, <1>13, <2>2, <3>1 DEF Pending
  <2>5. CASE g = conn
    <3>1. net' = net \/ net' = [net EXCEPT ![g] = Append(net[g], b)]
      BY <1>3, <2>5
    <3>2. QED
      BY <2>2, <2>3, <2>5, <3>1
  <2>6. QED
    BY <2>4, <2>5
<1>15. \A g \in Login : \A m \in Pending(g) : m.room = r /\ ~b.behind => m.label <= n
  BY <1>4, <1>12, PendingType DEF AllGenuine, Genuine
<1>16. \A g, h \in Login : g < h => Precedes(Pending(g)', Pending(h)')
  <2>1. SUFFICES ASSUME NEW g \in Login, NEW h \in Login, g < h
                 PROVE  Precedes(Pending(g)', Pending(h)')
    OBVIOUS
  <2>2. Precedes(Pending(g), Pending(h))
    BY <1>4, <2>1 DEF InLine
  <2>3. CASE g = conn
    <3>1. 0 \notin Login /\ conn \in {0, Now}
      BY ConnFacts DEF Login
    <3>2. g = Now /\ Now < h /\ h # conn
      BY <2>1, <2>3, <3>1, ConnFacts
    <3>3. Pending(h) = {}
      BY <3>2, PendingType
    <3>4. Pending(h)' = {}
      BY <1>14, <3>2, <3>3
    <3>5. QED
      BY <3>4 DEF Precedes
  <2>4. CASE g # conn
    <3>1. Pending(g)' = Pending(g) /\ Pending(h)' \subseteq Pending(h) \cup {b}
      BY <1>14, <2>4
    <3>2. QED
      BY <1>6, <1>15, <2>2, <3>1 DEF Precedes
  <2>5. QED
    BY <2>3, <2>4
<1>17. \A s \in Slot : waiter[s].at = "taken" /\ waiter[s].m.room = r /\ ~b.behind =>
         waiter[s].m.label <= n
  BY <1>4, <1>12, PendingType DEF AllGenuine, Genuine
<1>18. InLine'
  <2>1. \A s \in Slot, h \in Login : waiter[s].at = "taken" /\ waiter[s].g <= h =>
          Precedes({waiter[s].m}, Pending(h)')
    BY <1>4, <1>6, <1>14, <1>17 DEF InLine, Precedes
  <2>2. QED
    BY <1>3, <1>14, <1>16, <2>1 DEF InLine
<1>19. AllGenuine'
  <2>1. ASSUME NEW m \in Message, Genuine(m)
        PROVE  m.label < said'[m.room] /\ (m.behind \/ m.key = m.label)
    <3>1. m.label \in Nat /\ m.room \in Room
      BY PendingType
    <3>2. QED
      BY <1>8, <2>1, <3>1 DEF Genuine
  <2>2. b.label < said'[b.room] /\ (b.behind \/ b.key = b.label)
    BY <1>6, <1>8, <1>11
  <2>3. ASSUME NEW g \in Login, NEW m \in Pending(g)'
        PROVE  m.label < said'[m.room] /\ (m.behind \/ m.key = m.label)
    <3>1. CASE m \in Pending(g)
      BY <1>4, <2>1, <3>1, PendingType DEF AllGenuine
    <3>2. CASE m = b
      BY <2>2, <3>2
    <3>3. QED
      BY <1>14, <2>3, <3>1, <3>2
  <2>4. ASSUME NEW s \in Slot, waiter[s].at = "taken"
        PROVE  waiter[s].m.label < said'[waiter[s].m.room]
               /\ (waiter[s].m.behind \/ waiter[s].m.key = waiter[s].m.label)
    BY <1>4, <2>1, <2>4, PendingType DEF AllGenuine
  <2>5. QED
    BY <1>3, <1>10, <2>3, <2>4 DEF AllGenuine, Genuine
<1>20. Behind'
  <2>1. SUFFICES ASSUME ~twins PROVE Behind'
    BY <1>3 DEF Behind
  <2>2. \A h \in Login : Reachable(h)' => Reachable(h)
    BY <1>3 DEF Reachable
  <2>3. ASSUME NEW q \in Room \ crossed
        PROVE  /\ Kept(chain[q].other, said'[q])
               /\ \A h \in Login : \A m \in Pending(h)' :
                    Reachable(h)' /\ m.room = q /\ ~m.behind => chain[q].other <= m.label
    <3>1. Kept(chain[q].other, said[q]) /\ chain[q].other \in Nat
      BY <1>4, <2>1, PendingType DEF Behind
    <3>2. Kept(chain[q].other, said'[q])
      BY <1>8, <3>1 DEF Kept
    <3>3. ASSUME NEW h \in Login, NEW m \in Pending(h)', Reachable(h)', m.room = q, ~m.behind
          PROVE  chain[q].other <= m.label
      <4>1. CASE m \in Pending(h)
        BY <1>4, <2>1, <2>2, <3>3, <4>1 DEF Behind
      <4>2. CASE m = b
        BY <1>6, <1>12, <3>1, <3>3, <4>2 DEF Kept
      <4>3. QED
        BY <1>14, <3>3, <4>1, <4>2
    <3>4. QED
      BY <3>2, <3>3
  <2>4. QED
    BY <1>3, <1>4, <2>1, <2>3 DEF Behind
<1>21. QED
  BY <1>18, <1>19, <1>20 DEF Path

(* A waiter that has nothing in hand afterwards. *)
LEMMA WaiterFrame ==
  ASSUME Shape, Path, NEW s \in Slot, NEW w \in Wait, w.at # "taken",
         UNCHANGED <<net, loop, inbox, said, theirs>>, waiter' = [waiter EXCEPT ![s] = w]
  PROVE  /\ InLine' /\ AllGenuine'
         /\ \A t \in Slot : waiter'[t] = IF t = s THEN w ELSE waiter[t]
         /\ \A h \in Login : Pending(h)' = Pending(h)
<1>1. \A t \in Slot : waiter'[t] = IF t = s THEN w ELSE waiter[t]
  BY PathTypes DEF Shape
<1>2. \A h \in Login : Pending(h)' = Pending(h) /\ Held(h)' = Held(h)
  BY DEF Pending, Held
<1>3. InLine /\ AllGenuine
  BY DEF Path
<1>4. \A t \in Slot : waiter'[t].at = "taken" => waiter'[t] = waiter[t]
  BY <1>1
<1>5. \A g \in Login : InStages(g)'
  BY <1>2, <1>3 DEF InLine, InStages
<1>6. InLine'
  BY <1>2, <1>3, <1>4, <1>5 DEF InLine
<1>7. AllGenuine'
  BY <1>2, <1>3, <1>4 DEF AllGenuine, Genuine
<1>8. QED
  BY <1>1, <1>2, <1>6, <1>7

LEMMA WaiterWaits ==
  ASSUME Shape, Path, NEW s \in Slot,
         UNCHANGED <<net, loop, inbox, said, theirs, chain, crossed>>, Now' = Now,
         waiter' = [waiter EXCEPT ![s] = Waiting(Now)], Now \in Login,
         \/ waiter[s].at = "done" /\ twins' = twins
         \/ twins' = (twins \/ \E t \in Slot : waiter[t].at # "free")
  PROVE  Path'
<1>1. Waiting(Now) \in Wait /\ Waiting(Now).at = "waiting" /\ Waiting(Now).g = Now
  <2>1. Now \in 0 .. MaxLogin
    BY SpentType DEF Shape, Spent, Now
  <2>2. QED
    BY <2>1 DEF Waiting, Wait
<1>2. /\ InLine' /\ AllGenuine'
      /\ \A t \in Slot : waiter'[t] = IF t = s THEN Waiting(Now) ELSE waiter[t]
      /\ \A h \in Login : Pending(h)' = Pending(h)
  BY <1>1, WaiterFrame
<1>3. Behind'
  <2>1. SUFFICES ASSUME ~twins' PROVE Behind'
    BY DEF Behind
  <2>2. ~twins /\ Behind /\ \A t \in Slot \ {s} : waiter[t].at = "free"
    <3>1. Behind
      BY DEF Path
    <3>2. CASE waiter[s].at = "done" /\ twins' = twins
      <4>1. ~twins
        BY <2>1, <3>2
      <4>2. QED
        BY <3>1, <3>2, <4>1 DEF Behind
    <3>3. CASE twins' = (twins \/ \E t \in Slot : waiter[t].at # "free")
      <4>1. ~(twins \/ \E t \in Slot : waiter[t].at # "free")
        BY <2>1, <3>3
      <4>2. QED
        BY <3>1, <4>1
    <3>4. QED
      BY <3>2, <3>3
  <2>3. \A t, u \in Slot : waiter'[t].at # "free" /\ waiter'[u].at # "free" => t = u
    BY <1>2, <2>2
  <2>4. \A t \in Slot : waiter'[t].at # "taken"
    BY <1>1, <1>2, <2>2
  <2>5. \A h \in Login : Reachable(h)' => h = Now \/ Now <= h
    BY <1>1, <1>2, <2>2 DEF Reachable
  <2>6. \A h \in Login : \A m \in Pending(h) : Reachable(h)' => h = Now
    BY <2>5, PendingType
  <2>7. Reachable(Now)
    BY DEF Reachable
  <2>8. ASSUME NEW r \in Room \ crossed
        PROVE  /\ Kept(chain[r].other, said[r])
               /\ \A h \in Login : \A m \in Pending(h) :
                    Reachable(h)' /\ m.room = r /\ ~m.behind => chain[r].other <= m.label
    BY <2>2, <2>6, <2>7 DEF Behind
  <2>9. QED
    BY <1>2, <2>3, <2>4, <2>8 DEF Behind
<1>4. QED
  BY <1>2, <1>3 DEF Path

LEMMA UpdatePath ==
  ASSUME Shape, Path,
         \/ \E s \in Slot : UpdateMessage(s)
         \/ \E m \in mail : UpdateConnected(m)
  PROVE  Path'
<1>1. ASSUME NEW s \in Slot, UpdateMessage(s) PROVE Path'
  <2>1. /\ UNCHANGED <<net, loop, inbox, said, theirs, chain, crossed, spent, twins>>
        /\ waiter' = [waiter EXCEPT ![s] = Waiting(Now)] /\ waiter[s].at = "done"
    BY <1>1 DEF peer, UpdateMessage, session, histories, Now
  <2>2. s <= Now /\ s \in Login
    BY <2>1, ConnFacts DEF Shape, LoginsInOrder
  <2>3. Now \in Login
    BY <2>2, SpentType, Bounds DEF Shape, Spent, Now, Login
  <2>4. Now' = Now
    BY <2>1 DEF Now
  <2>5. QED
    BY <2>1, <2>3, <2>4, WaiterWaits
<1>2. ASSUME NEW m \in mail, UpdateConnected(m) PROVE Path'
  <2>1. /\ UNCHANGED <<net, loop, inbox, said, theirs, chain, crossed, spent>>
        /\ waiter' = [waiter EXCEPT ![m.n] = Waiting(Now)] /\ m.kind = "connected"
        /\ twins' = (twins \/ \E t \in Slot : waiter[t].at # "free")
    BY <1>2 DEF peer, UpdateConnected, session, Now
  <2>2. m.n <= Now /\ m.n \in Login /\ m.n \in Slot
    BY <2>1, ConnFacts DEF Shape, LoginsInOrder
  <2>3. Now \in Login
    BY <2>2, SpentType, Bounds DEF Shape, Spent, Now, Login
  <2>4. Now' = Now
    BY <2>1 DEF Now
  <2>5. QED
    BY <2>1, <2>2, <2>3, <2>4, WaiterWaits
<1>3. QED
  BY <1>1, <1>2

LEMMA DecryptPath ==
  ASSUME Shape, Path, NEW s \in Slot, Decrypt(s)
  PROVE  Path'
<1>1. PICK w, m : w = [Free EXCEPT !.at = "done"] /\ m = waiter[s].m
  OBVIOUS
<1>2. w \in Wait /\ w.at = "done"
  <2>1. NoMessage \in Message \cup {NoMessage} /\ 0 \in 0 .. MaxLogin
    BY Bounds
  <2>2. QED
    BY <1>1, <2>1 DEF Free, Wait
<1>3. /\ UNCHANGED <<net, loop, inbox, said, theirs, spent, twins>> /\ waiter[s].at = "taken"
      /\ waiter' = [waiter EXCEPT ![s] = w]
  BY <1>1 DEF peer, Decrypt
<1>4. /\ InLine' /\ AllGenuine'
      /\ \A t \in Slot : waiter'[t] = IF t = s THEN w ELSE waiter[t]
      /\ \A h \in Login : Pending(h)' = Pending(h)
  BY <1>2, <1>3, WaiterFrame
<1>5. Behind'
  <2>1. SUFFICES ASSUME ~twins PROVE Behind'
    BY <1>3 DEF Behind
  <2>2. InLine /\ AllGenuine /\ Behind /\ \A t \in Slot \ {s} : waiter[t].at = "free"
    BY <1>3, <2>1 DEF Path, Behind
  <2>3. /\ \A t, u \in Slot : waiter'[t].at # "free" /\ waiter'[u].at # "free" => t = u
        /\ \A t \in Slot : waiter'[t].at \notin {"waiting", "taken"}
    BY <1>2, <1>4, <2>2
  <2>4. \A h \in Login : Reachable(h)' => h = Now
    BY <1>3, <2>3 DEF Reachable, Now
  <2>5. Reachable(Now) /\ waiter[s].g <= Now /\ m \in Message /\ m.label \in Nat
    BY <1>1, <1>3, PendingType DEF Reachable
  <2>6. \A h \in Login : h = Now =>
          \A x \in Pending(h) : x.room = m.room /\ ~x.behind =>
            m.label <= x.label /\ x.label \in Nat
    BY <1>1, <1>3, <2>2, <2>5, PendingType DEF InLine, Precedes
  <2>7. m.label < said[m.room] /\ m.room \in Room
    BY <1>1, <1>3, <2>2, <2>5, PendingType DEF AllGenuine, Genuine
  <2>8. ASSUME NEW r \in Room \ crossed', chain'[r].other = chain[r].other, r \notin crossed
        PROVE  /\ Kept(chain'[r].other, said[r])
               /\ \A h \in Login : \A x \in Pending(h) :
                    h = Now /\ x.room = r /\ ~x.behind => chain'[r].other <= x.label
    BY <2>1, <2>2, <2>5, <2>8 DEF Behind
  <2>9. ASSUME NEW r \in Room \ crossed', r = m.room, chain'[r].other = m.label
        PROVE  /\ Kept(chain'[r].other, said[r])
               /\ \A h \in Login : \A x \in Pending(h) :
                    h = Now /\ x.room = r /\ ~x.behind => chain'[r].other <= x.label
    BY <2>5, <2>6, <2>7, <2>9, PendingType DEF Kept
  <2>10. ASSUME NEW r \in Room \ crossed'
         PROVE  \/ chain'[r].other = chain[r].other /\ r \notin crossed
                \/ r = m.room /\ chain'[r].other = m.label
    <3>1. CASE roomID = NoRoom
      BY <2>10, <3>1 DEF Decrypt
    <3>2. CASE roomID # NoRoom
      <4>1. PICK q, n : q = roomID /\ n = GetUserKey(chain[q].other, m.label)
        OBVIOUS
      <4>2. /\ chain' = [chain EXCEPT ![q].other = n]
            /\ crossed' = IF m.room # q /\ chain[q].other < m.label
                          THEN crossed \cup {q} ELSE crossed
        BY <1>1, <3>2, <4>1 DEF Decrypt, SessionChain
      <4>3. chain \in [Room -> [own : 0 .. MaxMessage, other : Nat]] /\ q \in Room
        BY <3>2, <4>1, PathTypes DEF Shape, TypeOK
      <4>4. chain'[r].other = IF r = q THEN n ELSE chain[r].other
        BY <4>2, <4>3
      <4>5. r \notin crossed
        BY <2>10, <4>2
      <4>6. CASE r # q
        BY <4>4, <4>5, <4>6
      <4>7. CASE r = q /\ m.room # q
        <5>1. ~(chain[q].other < m.label)
          BY <2>10, <4>2, <4>7
        <5>2. n = chain[q].other
          BY <4>1, <5>1 DEF GetUserKey
        <5>3. QED
          BY <4>4, <4>5, <4>7, <5>2
      <4>8. CASE r = q /\ m.room = q
        <5>1. n = chain[q].other \/ n = m.label
          BY <4>1 DEF GetUserKey
        <5>2. QED
          BY <4>4, <4>5, <4>8, <5>1
      <4>9. QED
        BY <4>6, <4>7, <4>8
    <3>3. QED
      BY <3>1, <3>2
  <2>11. ASSUME NEW r \in Room \ crossed'
         PROVE  /\ Kept(chain'[r].other, said[r])
                /\ \A h \in Login : \A x \in Pending(h) :
                     h = Now /\ x.room = r /\ ~x.behind => chain'[r].other <= x.label
    BY <2>8, <2>9, <2>10
  <2>12. QED
    BY <1>3, <1>4, <2>3, <2>4, <2>11 DEF Behind
<1>6. QED
  BY <1>4, <1>5 DEF Path

LEMMA TakePath ==
  ASSUME Shape, Path, NEW s \in Slot, TakeMessage(s)
  PROVE  Path'
<1>1. PICK w, g : w = waiter[s] /\ g = w.g
  OBVIOUS
<1>2. /\ UNCHANGED <<net, loop, said, theirs, spent, twins, chain, crossed>> /\ w.at = "waiting"
  BY <1>1 DEF peer, TakeMessage, session, histories
<1>3. /\ InLine /\ AllGenuine /\ Behind /\ Now' = Now /\ w \in Wait
      /\ g \in Login /\ g <= Now /\ inbox \in [Login -> Seq(Message)]
  BY <1>1, <1>2, PathTypes, PendingType DEF Path, Shape, Now
<1>4. CASE inbox' = inbox /\ waiter' = [waiter EXCEPT ![s] = Free]
  <2>1. Free \in Wait /\ Free.at = "free"
    <3>1. NoMessage \in Message \cup {NoMessage} /\ 0 \in 0 .. MaxLogin
      BY Bounds
    <3>2. QED
      BY <3>1 DEF Free, Wait
  <2>2. /\ InLine' /\ AllGenuine'
        /\ \A t \in Slot : waiter'[t] = IF t = s THEN Free ELSE waiter[t]
        /\ \A h \in Login : Pending(h)' = Pending(h)
    BY <1>2, <1>4, <2>1, WaiterFrame
  <2>3. \A t \in Slot : waiter'[t].at # "free" => waiter'[t] = waiter[t]
    BY <2>1, <2>2
  <2>4. \A h \in Login : Reachable(h)' => Reachable(h)
    BY <1>3, <2>3 DEF Reachable
  <2>5. Behind'
    <3>1. SUFFICES ASSUME ~twins PROVE Behind'
      BY <1>2 DEF Behind
    <3>2. \A t, u \in Slot : waiter'[t].at # "free" /\ waiter'[u].at # "free" => t = u
      BY <1>3, <2>3, <3>1 DEF Behind
    <3>3. \A r \in Room \ crossed :
            /\ Kept(chain[r].other, said[r])
            /\ \A h \in Login : \A m \in Pending(h) :
                 Reachable(h)' /\ m.room = r /\ ~m.behind => chain[r].other <= m.label
            /\ \A t \in Slot :
                 waiter'[t].at = "taken" /\ waiter'[t].m.room = r /\ ~waiter'[t].m.behind =>
                 chain[r].other <= waiter'[t].m.label
      BY <1>3, <2>3, <2>4, <3>1 DEF Behind
    <3>4. QED
      BY <1>2, <2>2, <3>2, <3>3 DEF Behind
  <2>6. QED
    BY <2>2, <2>5 DEF Path
<1>5. CASE /\ inbox[g] # <<>> /\ inbox' = [inbox EXCEPT ![g] = Tail(inbox[g])]
           /\ waiter' = [waiter EXCEPT ![s] = [w EXCEPT !.at = "taken",
                                                        !.m = Head(inbox[g])]]
  <2>1. PICK b, v, q : /\ b = Head(inbox[g]) /\ q = Tail(inbox[g])
                       /\ v = [w EXCEPT !.at = "taken", !.m = b]
    OBVIOUS
  <2>2. v.at = "taken" /\ v.g = g /\ v.m = b
    BY <1>1, <1>3, <2>1 DEF Wait
  <2>3. \A t \in Slot : waiter'[t] = IF t = s THEN v ELSE waiter[t]
    BY <1>5, <2>1, PathTypes DEF Shape
  <2>4. inbox'[g] = q /\ \A h \in Login : h # g => inbox'[h] = inbox[h]
    BY <1>3, <1>5, <2>1
  <2>5. \A h \in Login : Held(h)' = Held(h)
    BY <1>2 DEF Held
  <2>6. InStages(g)
    BY <1>3 DEF InLine
  <2>7. inbox[g] \in Seq(Message)
    BY <1>3
  <2>8. /\ b \in Elems(inbox[g]) /\ Elems(q) \subseteq Elems(inbox[g])
        /\ Ascending(q) /\ Precedes({b}, Elems(q))
    BY <1>5, <2>1, <2>6, <2>7, TailElems DEF InStages
  <2>9. \A h \in Login : Pending(h)' \subseteq Pending(h)
    BY <1>2, <2>4, <2>5, <2>8 DEF Pending
  <2>10. \A h \in Login : InStages(h)'
    <3>1. InStages(g)'
      BY <1>2, <1>3, <2>4, <2>5, <2>6, <2>8 DEF InStages, Precedes
    <3>2. ASSUME NEW h \in Login, h # g PROVE InStages(h)'
      BY <1>2, <1>3, <2>4, <2>5, <3>2 DEF InLine, InStages
    <3>3. QED
      BY <3>1, <3>2
  <2>11. b \in Pending(g) /\ b \in Message
    BY <1>3, <2>8, PendingType
  <2>12. \A h \in Login : g <= h => Precedes({b}, Pending(h)')
    <3>1. Precedes({b}, Pending(g)')
      <4>1. /\ Precedes({b}, Held(g)) /\ Precedes({b}, Elems(net[g]))
        BY <2>6, <2>8 DEF InStages, Precedes
      <4>2. Pending(g)' = Elems(q) \cup Held(g) \cup Elems(net[g])
        BY <1>2, <1>3, <2>4, <2>5 DEF Pending
      <4>3. QED
        BY <2>8, <4>1, <4>2 DEF Precedes
    <3>2. ASSUME NEW h \in Login, g < h PROVE Precedes({b}, Pending(h)')
      <4>1. Precedes(Pending(g), Pending(h))
        BY <1>3, <3>2 DEF InLine
      <4>2. QED
        BY <2>9, <2>11, <4>1 DEF Precedes
    <3>3. \A h \in Login : g <= h => g = h \/ g < h
      BY <1>3, PendingType
    <3>4. QED
      BY <3>1, <3>2, <3>3
  <2>13. InLine'
    <3>1. \A h, i \in Login : h < i => Precedes(Pending(h)', Pending(i)')
      BY <1>3, <2>9 DEF InLine, Precedes
    <3>2. ASSUME NEW t \in Slot, NEW h \in Login, waiter'[t].at = "taken", waiter'[t].g <= h
          PROVE  Precedes({waiter'[t].m}, Pending(h)')
      <4>1. CASE t = s
        BY <2>2, <2>3, <2>12, <3>2, <4>1
      <4>2. CASE t # s
        <5>1. waiter'[t] = waiter[t]
          BY <2>3, <4>2
        <5>2. Precedes({waiter[t].m}, Pending(h))
          BY <1>3, <3>2, <5>1 DEF InLine
        <5>3. QED
          BY <2>9, <5>1, <5>2 DEF Precedes
      <4>3. QED
        BY <4>1, <4>2
    <3>3. QED
      BY <2>10, <3>1, <3>2 DEF InLine
  <2>14. AllGenuine'
    <3>1. Genuine(b)
      BY <1>3, <2>11 DEF AllGenuine
    <3>2. \A h \in Login : \A m \in Pending(h)' : Genuine(m)
      BY <1>3, <2>9 DEF AllGenuine
    <3>3. \A t \in Slot : waiter'[t].at = "taken" => Genuine(waiter'[t].m)
      BY <1>3, <2>2, <2>3, <3>1 DEF AllGenuine
    <3>4. \A r \in Room : Kept(theirs[r], said[r])
      BY <1>3 DEF AllGenuine
    <3>5. QED
      BY <1>2, <3>2, <3>3, <3>4 DEF AllGenuine, Genuine
  <2>15. Behind'
    <3>1. SUFFICES ASSUME ~twins PROVE Behind'
      BY <1>2 DEF Behind
    <3>2. \A t \in Slot : waiter'[t].at # "free" => waiter[t].at # "free"
      BY <1>1, <1>2, <2>3
    <3>3. \A t, u \in Slot : waiter'[t].at # "free" /\ waiter'[u].at # "free" => t = u
      BY <1>3, <3>1, <3>2 DEF Behind
    <3>4. \A h \in Login : Reachable(h)' => Reachable(h)
      BY <1>1, <1>2, <1>3, <2>2, <2>3 DEF Reachable
    <3>5. Reachable(g)
      BY <1>1, <1>2, <1>3, PendingType DEF Reachable
    <3>6. ASSUME NEW r \in Room \ crossed
          PROVE  /\ Kept(chain[r].other, said[r])
                 /\ \A h \in Login : \A m \in Pending(h)' :
                      Reachable(h)' /\ m.room = r /\ ~m.behind => chain[r].other <= m.label
                 /\ \A t \in Slot :
                      waiter'[t].at = "taken" /\ waiter'[t].m.room = r /\ ~waiter'[t].m.behind =>
                      chain[r].other <= waiter'[t].m.label
      <4>1. /\ Kept(chain[r].other, said[r])
            /\ \A h \in Login : \A m \in Pending(h) :
                 Reachable(h) /\ m.room = r /\ ~m.behind => chain[r].other <= m.label
            /\ \A t \in Slot :
                 waiter[t].at = "taken" /\ waiter[t].m.room = r /\ ~waiter[t].m.behind =>
                 chain[r].other <= waiter[t].m.label
        BY <1>3, <3>1 DEF Behind
      <4>2. b.room = r /\ ~b.behind => chain[r].other <= b.label
        BY <1>3, <2>11, <3>5, <4>1
      <4>3. QED
        BY <2>2, <2>3, <2>9, <3>4, <4>1, <4>2
    <3>7. QED
      BY <1>2, <3>3, <3>6 DEF Behind
  <2>16. QED
    BY <2>13, <2>14, <2>15 DEF Path
<1>6. QED
  BY <1>1, <1>4, <1>5 DEF TakeMessage

LEMMA PathStep ==
  ASSUME Shape, Path, Next
  PROVE  Path'
BY Steps, UserPath, ConnectPath, LoopPath, HearPath, UpdatePath, DecryptPath, TakePath

-----------------------------------------------------------------------------
(* What is stored, and what of it can be read again. *)

LEMMA InRowsFrame ==
  ASSUME InRows, UNCHANGED <<passed, stored>>, lagged \subseteq lagged'
  PROVE  InRows'
BY DEF InRows

LEMMA InRowsStep ==
  ASSUME Shape, Numbered, InRows, Next
  PROVE  InRows'
<1>1. ASSUME NEW r \in Room, Store(r) PROVE InRows'
  <2>1. PICK m : m = sent[r][passed[r] + 1]
    OBVIOUS
  <2>2. /\ passed[r] < Len(sent[r]) /\ passed' = [passed EXCEPT ![r] = passed[r] + 1]
        /\ stored' = [stored EXCEPT ![r] = Append(stored[r], m)] \/ stored' = stored
        /\ lagged' = lagged
    BY <1>1, <2>1 DEF Store, histories
  <2>3. /\ sent \in [Room -> Seq(Own)] /\ stored \in [Room -> Seq(Own)]
        /\ passed \in [Room -> 0 .. MaxMessage] /\ passed[r] \in Nat
    <3>1. /\ sent \in [Room -> Seq(Own)] /\ stored \in [Room -> Seq(Own)]
          /\ passed \in [Room -> 0 .. MaxMessage]
      BY DEF Shape, TypeOK
    <3>2. passed[r] \in 0 .. MaxMessage
      BY <3>1
    <3>3. QED
      BY <3>1, <3>2, Bounds
  <2>4. \A q \in Room \ {r} : stored'[q] = stored[q] /\ passed'[q] = passed[q]
    BY <2>2, <2>3
  <2>5. passed'[r] = passed[r] + 1
    BY <2>2, <2>3
  <2>6. ASSUME r \notin lagged
        PROVE  Keyed(stored'[r]) /\ \A i \in 1 .. Len(stored'[r]) : stored'[r][i].label < passed'[r]
    <3>1. /\ Keyed(stored[r])
          /\ \A i \in 1 .. Len(stored[r]) : stored[r][i].label < passed[r]
      BY <2>6 DEF InRows
    <3>2. \A i \in 1 .. Len(stored[r]) : stored[r][i].label \in Nat
      BY <3>1 DEF Keyed, Rising
    <3>3. CASE stored' = stored
      BY <2>3, <2>5, <3>1, <3>2, <3>3
    <3>4. CASE stored' = [stored EXCEPT ![r] = Append(stored[r], m)]
      <4>1. passed[r] + 1 \in DOMAIN sent[r] /\ m \in Own
        <5>1. sent[r] \in Seq(Own) /\ passed[r] + 1 \in 1 .. Len(sent[r])
          BY <2>2, <2>3
        <5>2. QED
          BY <2>1, <5>1
      <4>2. m.label = passed[r] /\ m.key = passed[r]
        BY <2>1, <2>3, <2>6, <4>1 DEF Numbered
      <4>3. /\ stored'[r] = Append(stored[r], m)
            /\ stored[r] \in Seq(Own) /\ Len(stored[r]) \in Nat
        BY <2>3, <3>4
      <4>4. /\ Len(stored'[r]) = Len(stored[r]) + 1
            /\ \A i \in 1 .. Len(stored[r]) : stored'[r][i] = stored[r][i]
            /\ stored'[r][Len(stored[r]) + 1] = m
        BY <4>1, <4>3
      <4>5. ASSUME NEW i \in 1 .. Len(stored'[r])
            PROVE  stored'[r][i].label \in Nat /\ stored'[r][i].key = stored'[r][i].label
        BY <2>3, <3>1, <3>2, <4>2, <4>3, <4>4 DEF Keyed
      <4>6. ASSUME NEW i \in 1 .. Len(stored'[r])
            PROVE  stored'[r][i].label < passed'[r]
        BY <2>3, <2>5, <3>1, <3>2, <4>2, <4>3, <4>4
      <4>7. ASSUME NEW i \in 1 .. Len(stored'[r]), NEW k \in 1 .. Len(stored'[r]), i < k
            PROVE  stored'[r][i].label < stored'[r][k].label
        <5>1. i \in 1 .. Len(stored[r])
          BY <4>3, <4>4, <4>7
        <5>2. CASE k \in 1 .. Len(stored[r])
          BY <3>1, <4>4, <4>7, <5>1, <5>2 DEF Keyed, Rising
        <5>3. CASE k = Len(stored[r]) + 1
          BY <3>1, <4>2, <4>4, <5>1, <5>3
        <5>4. QED
          BY <4>3, <4>4, <5>2, <5>3
      <4>8. QED
        BY <4>5, <4>6, <4>7 DEF Keyed, Rising
    <3>5. QED
      BY <2>2, <3>3, <3>4
  <2>7. QED
    BY <2>2, <2>4, <2>6 DEF InRows
<1>2. ASSUME NEW r \in Room, NEW inList \in BOOLEAN, SelectRoom(r, inList)
      PROVE  InRows'
  BY <1>2, InRowsFrame DEF SelectRoom, broker, peer
<1>3. CASE Connect \/ ConnectFails \/ Say
  BY <1>3, InRowsFrame DEF Connect, ConnectFails, Say, broker, peer, histories
<1>4. ASSUME \/ MapRace
             \/ \E r \in Room : SelectFails(r) \/ Hear(r)
             \/ \E m \in mail : UpdateSelected(m) \/ UpdateConnected(m)
             \/ \E g \in Login : ReadMessage(g) \/ HandOver(g) \/ LoopEnds(g)
             \/ \E s \in Slot : TakeMessage(s) \/ Decrypt(s) \/ UpdateMessage(s)
      PROVE  UNCHANGED <<passed, stored, lagged>>
  BY <1>4 DEF MapRace, SelectFails, Hear, UpdateSelected, UpdateConnected, ReadMessage,
              HandOver, LoopEnds, TakeMessage, Decrypt, UpdateMessage, broker, peer, histories
<1>5. QED
  BY <1>1, <1>2, <1>3, <1>4, InRowsFrame, Steps

(* A new chain, led through them, is at the label of the last of them. *)
LEMMA AfterRising ==
  ASSUME NEW S, NEW s \in Seq(S), Rising(s)
  PROVE  \A i \in 0 .. Len(s) : After(s)[i] = IF i = 0 THEN 0 ELSE s[i].label
<1>1. PICK f : f = [i \in 0 .. Len(s) |-> IF i = 0 THEN 0 ELSE s[i].label]
  OBVIOUS
<1>2. f = [i \in 0 .. Len(s) |-> IF i = 0 THEN 0 ELSE GetUserKey(f[i - 1], s[i].label)]
  <2>1. ASSUME NEW i \in 0 .. Len(s), i # 0 PROVE GetUserKey(f[i - 1], s[i].label) = s[i].label
    <3>1. i \in 1 .. Len(s) /\ i - 1 \in 0 .. Len(s) /\ s[i].label \in Nat
      BY <2>1 DEF Rising
    <3>2. CASE i - 1 = 0
      <4>1. f[i - 1] = 0
        BY <1>1, <3>1, <3>2
      <4>2. QED
        BY <3>1, <4>1 DEF GetUserKey
    <3>3. CASE i - 1 # 0
      <4>1. f[i - 1] = s[i - 1].label /\ i - 1 \in 1 .. Len(s)
        BY <1>1, <3>1, <3>3
      <4>2. s[i - 1].label < s[i].label /\ s[i - 1].label \in Nat
        BY <3>1, <4>1 DEF Rising
      <4>3. QED
        BY <3>1, <4>1, <4>2 DEF GetUserKey
    <3>4. QED
      BY <3>2, <3>3
  <2>2. QED
    BY <1>1, <2>1
<1>3. PICK a : a = After(s)
  OBVIOUS
<1>4. a = [i \in 0 .. Len(s) |-> IF i = 0 THEN 0 ELSE GetUserKey(a[i - 1], s[i].label)]
  BY <1>2, <1>3 DEF After
<1>5. ASSUME NEW i \in 0 .. Len(s) PROVE a[i] = IF i = 0 THEN 0 ELSE GetUserKey(a[i - 1], s[i].label)
  BY <1>4
<1>6. ASSUME NEW i \in 0 .. Len(s) PROVE f[i] = IF i = 0 THEN 0 ELSE GetUserKey(f[i - 1], s[i].label)
  BY <1>2
<1>7. PICK T : T = {i \in 0 .. Len(s) : a[i] # f[i]}
  OBVIOUS
<1>8. CASE T # {}
  <2>1. PICK i \in T : \A k \in T : i <= k
    <3>1. T \subseteq Nat
      BY <1>7
    <3>2. QED
      BY <1>8, <3>1, Least
  <2>2. i \in 0 .. Len(s) /\ a[i] # f[i]
    BY <1>7
  <2>3. i # 0
    BY <1>5, <1>6, <2>2
  <2>4. i - 1 \in 0 .. Len(s) /\ i - 1 \notin T
    BY <1>7, <2>1, <2>2, <2>3
  <2>5. a[i - 1] = f[i - 1]
    BY <1>7, <2>4
  <2>6. QED
    BY <1>5, <1>6, <2>2, <2>3, <2>5
<1>9. CASE T = {}
  BY <1>1, <1>3, <1>7, <1>9
<1>10. QED
  BY <1>8, <1>9

LEMMA RisingOpens ==
  ASSUME NEW S, NEW s \in Seq(S), Keyed(s)
  PROVE  Opened(s) = 1 .. Len(s)
<1>1. ASSUME NEW i \in 1 .. Len(s) PROVE Opens(After(s)[i - 1], s[i])
  <2>1. i - 1 \in 0 .. Len(s) /\ s[i].label \in Nat /\ s[i].key = s[i].label
    BY DEF Keyed, Rising
  <2>2. After(s)[i - 1] = IF i - 1 = 0 THEN 0 ELSE s[i - 1].label
    BY <2>1, AfterRising DEF Keyed
  <2>3. CASE i - 1 = 0
    BY <2>1, <2>2, <2>3 DEF Opens, GetUserKey
  <2>4. CASE i - 1 # 0
    <3>1. i - 1 \in 1 .. Len(s)
      BY <2>4
    <3>2. s[i - 1].label \in Nat /\ s[i - 1].label < s[i].label
      BY <3>1 DEF Keyed, Rising
    <3>3. QED
      BY <2>1, <2>2, <2>4, <3>2 DEF Opens, GetUserKey
  <2>5. QED
    BY <2>3, <2>4
<1>2. QED
  BY <1>1 DEF Opened

(* The latest n messages of s are n of them, and keyed as s is. *)
LEMMA LatestKeyed ==
  ASSUME NEW S, NEW s \in Seq(S), Keyed(s), NEW n \in 0 .. Len(s)
  PROVE  /\ Latest(s, n) \in Seq(S)
         /\ Len(Latest(s, n)) = n
         /\ Keyed(Latest(s, n))
<1>1. PICK k : k = Len(s) - n
  OBVIOUS
<1>2. k \in 0 .. Len(s) /\ n = Len(s) - k /\ Len(s) \in Nat
  BY <1>1
<1>3. Latest(s, n) = SubSeq(s, k + 1, Len(s))
  BY <1>2 DEF Latest
<1>4. Latest(s, n) \in Seq(S) /\ Len(Latest(s, n)) = n
  <2>1. \A i \in 1 .. Len(s) : s[i] \in S
    OBVIOUS
  <2>2. \A i \in k + 1 .. Len(s) : s[i] \in S
    BY <1>2, <2>1
  <2>3. k + 1 \in Int /\ Len(s) \in Int
    BY <1>2
  <2>4. /\ SubSeq(s, k + 1, Len(s)) \in Seq(S)
        /\ Len(SubSeq(s, k + 1, Len(s))) = IF k + 1 <= Len(s) THEN Len(s) - (k + 1) + 1 ELSE 0
    BY <2>2, <2>3, SubSeqProperties
  <2>5. (IF k + 1 <= Len(s) THEN Len(s) - (k + 1) + 1 ELSE 0) = n
    BY <1>2
  <2>6. QED
    BY <1>3, <2>4, <2>5, Zenon
<1>5. ASSUME NEW i \in 1 .. n PROVE k + i \in 1 .. Len(s) /\ Latest(s, n)[i] = s[k + i]
  BY <1>2, <1>3
<1>6. \A i \in 1 .. n : Latest(s, n)[i].label \in Nat /\ Latest(s, n)[i].key = Latest(s, n)[i].label
  BY <1>5 DEF Keyed, Rising
<1>7. ASSUME NEW i \in 1 .. n, NEW j \in 1 .. n, i < j
      PROVE  Latest(s, n)[i].label < Latest(s, n)[j].label
  <2>1. k + i < k + j
    BY <1>2, <1>7
  <2>2. QED
    BY <1>5, <2>1 DEF Keyed, Rising
<1>8. QED
  BY <1>4, <1>6, <1>7 DEF Keyed, Rising

-----------------------------------------------------------------------------
(* The theorems. *)

LEMMA InitIInv == Init => IInv
<1> SUFFICES ASSUME Init PROVE IInv
  OBVIOUS
<1>1. InboxIsServed
  BY DEF Init, InboxIsServed
<1>2. Numbered /\ Selecting
  <2>1. \A r \in Room : sent[r] = <<>> /\ chain[r].own = 0 /\ Len(sent[r]) = 0
    BY DEF Init, NewChain
  <2>2. NoRoom \notin Room /\ roomID = NoRoom /\ mail = {}
    BY ClientAssumption DEF Init
  <2>3. QED
    BY <2>1, <2>2 DEF Numbered, Selecting
<1>3. \A g \in Login : Pending(g) = {} /\ InStages(g)
  <2>1. \A g \in Login : inbox[g] = <<>> /\ net[g] = <<>> /\ loop[g].at = "none"
    BY DEF Init
  <2>2. Elems(<<>>) = {} /\ Ascending(<<>>)
    BY DEF Elems, Ascending
  <2>3. QED
    BY <2>1, <2>2 DEF Pending, InStages, Held, Precedes
<1>4. \A s \in Slot : waiter[s].at = "free"
  BY DEF Init, Free
<1>5. \A r \in Room : Kept(chain[r].other, said[r])
  BY DEF Init, NewChain, Kept
<1>6. \A r \in Room : Kept(theirs[r], said[r])
  <2>1. \A r \in Room : Before[r] \in Nat
    BY ClientAssumption
  <2>2. \A r \in Room : Kept(IF Before[r] = 0 THEN 0 ELSE Before[r] - 1, Before[r])
    BY <2>1 DEF Kept
  <2>3. QED
    BY <2>2 DEF Init
<1>7. Path
  BY <1>3, <1>4, <1>5, <1>6 DEF Path, InLine, AllGenuine, Behind, Precedes
<1>8. InRows
  <2>1. \A r \in Room : Len(stored[r]) = 0
    BY DEF Init
  <2>2. QED
    BY <2>1 DEF InRows, Keyed, Rising
<1>9. QED
  BY <1>1, <1>2, <1>7, <1>8, InitShape DEF IInv

LEMMA Invariance == Spec => []IInv
<1>1. IInv /\ [Next]_vars => IInv'
  <2> SUFFICES ASSUME IInv, [Next]_vars PROVE IInv'
    OBVIOUS
  <2>1. CASE Next
    BY <2>1, NextShape, ServedStep, NumberedStep, SelectingStep, PathStep, InRowsStep
       DEF IInv
  <2>2. CASE UNCHANGED vars
    <3>1. UNCHANGED <<conn, roomID, count, chain, net, loop, inbox, waiter, mail, uiRoom,
                      tick, sent, said, theirs, spent, crossed, twins, lagged, overtaken,
                      misticked>>
      BY <2>2 DEF vars, session, peer, histories
    <3>2. Shape'
      BY <2>2, NextShape DEF IInv
    <3>3. InboxIsServed' /\ Numbered' /\ Selecting'
      BY <3>1 DEF IInv, InboxIsServed, Numbered, Selecting
    <3>4. Path'
      BY <3>1, QuietPath DEF IInv, Now
    <3>5. InRows'
      BY <2>2, InRowsFrame DEF IInv, vars, broker, peer, histories
    <3>6. QED
      BY <3>2, <3>3, <3>4, <3>5 DEF IInv
  <2>3. QED
    BY <2>1, <2>2
<1>2. QED
  BY InitIInv, <1>1, PTL DEF Spec

(* Session, read loops, waiters and keys are well typed, and no channel of *)
(* room messages exceeds its capacity.                                     *)
THEOREM TypeCorrect == Spec => []TypeOK
<1>1. IInv => TypeOK
  BY DEF IInv, Shape
<1>2. QED
  BY <1>1, Invariance, PTL

(* However the goroutines of Update interleave with logins, failures and   *)
(* lost connections, the channel of the current connection has a waiter,   *)
(* or is about to have one.                                                *)
THEOREM InboxServed == Spec => []InboxIsServed
<1>1. IInv => InboxIsServed
  BY DEF IInv
<1>2. QED
  BY <1>1, Invariance, PTL

(* readLoop ends a session only if it is its own: a loop that ends late    *)
(* does not take the session of a newer login away.                        *)
THEOREM SessionKept == Spec => SessionSurvives
<1>1. IInv /\ [Next]_vars =>
        [conn # 0 /\ conn' = 0 => loop'[conn].at = "ended" \/ UNCHANGED loop]_vars
  BY SessionStep DEF IInv, SurvivesStep
<1>2. QED
  BY <1>1, Invariance, PTL DEF Spec, SessionSurvives

(* sendRoomMessageWithType uses each key of a room once, for the message   *)
(* of its label, over any number of logins and selections of rooms whose   *)
(* messages were stored.                                                   *)
THEOREM KeysAreOwn == Spec => []OwnKeys
<1>1. IInv => OwnKeys
  <2> SUFFICES ASSUME IInv PROVE OwnKeys
    OBVIOUS
  <2>1. \A r \in Room \ lagged : \A i \in DOMAIN sent[r] :
          sent[r][i].label = i - 1 /\ sent[r][i].key = i - 1
    BY DEF IInv, Numbered
  <2>2. \A r \in Room : DOMAIN sent[r] = 1 .. Len(sent[r]) /\ Len(sent[r]) \in Nat
    BY DEF IInv, Shape, TypeOK
  <2>3. QED
    BY <2>1, <2>2 DEF OwnKeys
<1>2. QED
  BY <1>1, Invariance, PTL

(* A message of the selected room fails to open only when one of another   *)
(* room moved the chain before, two waiters have run at once, or its       *)
(* sender, after SetSessionRoom had put its count back, gave it a lower    *)
(* label than an earlier one.                                              *)
THEOREM UnreadableOnlyByRace == Spec => []UnreadableHasCause
<1>1. IInv => UnreadableHasCause
  <2> SUFFICES ASSUME IInv, NEW s \in Slot, waiter[s].at = "taken",
                      waiter[s].m.room = roomID, roomID \notin crossed, ~twins,
                      ~waiter[s].m.behind
               PROVE  Opens(SessionChain.other, waiter[s].m)
    BY DEF UnreadableHasCause
  <2>1. Shape /\ AllGenuine /\ Behind
    BY DEF IInv, Path
  <2>2. waiter[s].m \in Message
    BY <2>1, PendingType
  <2>3. waiter[s].m.label \in Nat /\ roomID \in Room
    BY <2>1, <2>2, PendingType
  <2>4. waiter[s].m.key = waiter[s].m.label
    BY <2>1 DEF AllGenuine, Genuine
  <2>5. chain[roomID].other <= waiter[s].m.label /\ chain[roomID].other \in Nat
    BY <2>1, <2>3, PendingType DEF Behind
  <2>6. QED
    BY <2>3, <2>4, <2>5 DEF Opens, GetUserKey, SessionChain
<1>2. QED
  BY <1>1, Invariance, PTL

(* Once Update has heard of every selection, the screen shows the room     *)
(* that messages go to, unless selections overtook each other.             *)
THEOREM SelectionShown == Spec => []SelectionsAgree
<1>1. IInv => SelectionsAgree
  BY DEF IInv, Selecting, SelectionsAgree
<1>2. QED
  BY <1>1, Invariance, PTL

(* The messages a user has sent to a room can be read again as a whole,    *)
(* however many of the latest loadRoomHistory asks for, if the room was    *)
(* never selected before everything sent there was stored.                 *)
THEOREM HistoryReadable == Spec => []HistoryOpens
<1>1. IInv => HistoryOpens
  <2> SUFFICES ASSUME IInv, NEW r \in Room \ lagged, NEW n \in 0 .. Len(stored[r])
               PROVE  Opened(GetRoomMessages(r, n)) = 1 .. n
    BY DEF HistoryOpens
  <2>1. stored[r] \in Seq(Own) /\ Keyed(stored[r])
    BY DEF IInv, Shape, TypeOK, InRows
  <2>2. QED
    BY <2>1, LatestKeyed, RisingOpens DEF GetRoomMessages
<1>2. QED
  BY <1>1, Invariance, PTL
=============================================================================
