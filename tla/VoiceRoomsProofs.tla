-------------------------- MODULE VoiceRoomsProofs --------------------------
(***************************************************************************)
(* Whoever is inside a voice room hears everyone in it and nobody else,    *)
(* and every open connection is accounted for, for any number of users,    *)
(* joins and VoiceRoom objects.                                            *)
(***************************************************************************)
EXTENDS VoiceRooms, TLAPS

(* A participant is its caller's, with an open connection, in one room. *)
CallsInOrder ==
  \A o \in Room, u \in User :
    LET c == participants[o][u] IN
    c # Nil => /\ Caller[c] = u
               /\ pc[c] = "open"
               /\ \A p \in Room : participants[p][u] = c => p = o

(* The participant a request is about is its user's and in no room: not    *)
(* yet, or not any more.                                                   *)
RequestsInOrder ==
  \A u \in User :
    LET c == proc[u].call IN
    /\ proc[u].at \in {"join", "leave", "close", "closeLast"} => proc[u].room \in Room
    /\ c # Nil => /\ Caller[c] = u
                  /\ \A o \in Room : participants[o][u] # c
                  /\ pc[c] = IF proc[u].at = "join" THEN "none" ELSE "open"

(* Tracks follow the membership: from everyone inside, from nobody else. *)
TracksInOrder ==
  \A o \in Room : \A u, v \in User :
    LET tracks == outgoing[participants[o][v]] IN
    participants[o][v] # Nil =>
      /\ u # v /\ participants[o][u] # Nil => u \in tracks
      /\ participants[o][u] = Nil /\ u \notin botched[o] => u \notin tracks

OpenAccounted ==
  \A c \in Call : pc[c] = "open" =>
    \/ Entered(c)
    \/ proc[Caller[c]].call = c /\ proc[Caller[c]].at \in {"close", "closeLast"}
    \/ c \in replaced

IInv == TypeOK /\ CallsInOrder /\ RequestsInOrder /\ TracksInOrder /\ OpenAccounted

LEMMA InitIInv == Init => IInv
BY VoiceAssumption
   DEF Init, IInv, TypeOK, CallsInOrder, RequestsInOrder, TracksInOrder,
       OpenAccounted, Idle, Entered

-----------------------------------------------------------------------------
(* The participants of one room are told apart from all others. *)
LEMMA CallsOf ==
  ASSUME IInv, NEW o \in Room, NEW d
  PROVE  /\ d \in CallsIn(o) <=> \E v \in User : participants[o][v] = d /\ d # Nil
         /\ \A p \in Room, v \in User :
              participants[p][v] # Nil =>
                (participants[p][v] \in CallsIn(o) <=> p = o)
<1>1. d \in CallsIn(o) <=> \E v \in User : participants[o][v] = d /\ d # Nil
  BY DEF CallsIn, Inside
<1>2. ASSUME NEW p \in Room, NEW v \in User, participants[p][v] # Nil
      PROVE  participants[p][v] \in CallsIn(o) <=> p = o
  <2>1. p = o => participants[p][v] \in CallsIn(o)
    BY <1>2 DEF CallsIn, Inside
  <2>2. ASSUME participants[p][v] \in CallsIn(o) PROVE p = o
    <3>1. PICK w \in User : participants[o][w] = participants[p][v]
      BY <2>2 DEF CallsIn, Inside
    <3>2. w = v
      BY <1>2, <3>1 DEF IInv, CallsInOrder
    <3>3. QED
      BY <1>2, <3>1, <3>2 DEF IInv, CallsInOrder
  <2>3. QED
    BY <2>1, <2>2
<1>3. QED
  BY <1>1, <1>2

LEMMA UnwireFacts ==
  ASSUME TypeOK, RequestsInOrder, NEW u \in User, Unwire(u)
  PROVE  LET o == proc[u].room
             c == participants[o][u] IN
         /\ o \in Room /\ c \in Call \cup {Nil}
         /\ UNCHANGED <<voiceRooms, made, pc, replaced>>
         /\ c = Nil => /\ proc' = [proc EXCEPT ![u] = Idle]
                       /\ UNCHANGED <<participants, outgoing, botched>>
         /\ c # Nil => /\ participants' = [participants EXCEPT ![o][u] = Nil]
                       /\ outgoing' = [d \in Call |-> IF d \in CallsIn(o) \ {c}
                                                      THEN outgoing[d] \ {u} ELSE outgoing[d]]
                       /\ botched' = [botched EXCEPT ![o] = @ \ {u}]
                       /\ \E at \in {"close", "closeLast"} :
                            proc' = [proc EXCEPT ![u] =
                                       [at |-> at, room |-> o, call |-> c]]
<1> DEFINE o == proc[u].room
           c == participants[o][u]
<1>1. o \in Room /\ proc[u].at = "leave"
  BY DEF Unwire, RequestsInOrder
<1>2. c \in Call \cup {Nil}
  BY <1>1 DEF TypeOK
<1>3. ASSUME c # Nil
      PROVE  \E at \in {"close", "closeLast"} :
               proc' = [proc EXCEPT ![u] = [at |-> at, room |-> o, call |-> c]]
  <2>1. CASE Inside(o) = {u}
    BY <1>3, <2>1 DEF Unwire
  <2>2. CASE Inside(o) # {u}
    BY <1>3, <2>2 DEF Unwire
  <2>3. QED
    BY <2>1, <2>2
<1>4. QED
  BY <1>1, <1>2, <1>3 DEF Unwire

LEMMA TypeStep == ASSUME IInv, Next PROVE TypeOK'
<1> USE VoiceAssumption DEF IInv
<1>1. ASSUME NEW c \in Call, GetOrCreate(c) PROVE TypeOK'
  <2>1. Caller[c] \in User /\ c # Nil
    OBVIOUS
  <2>2. QED
    BY <1>1, <2>1 DEF GetOrCreate, TypeOK, Idle
<1>2. ASSUME NEW u \in User, NoPC(u) PROVE TypeOK'
  BY <1>2 DEF NoPC, TypeOK, Idle
<1>3. ASSUME NEW u \in User, Wire(u) PROVE TypeOK'
  BY <1>3 DEF Wire, TypeOK, Idle, RequestsInOrder, Inside
<1>4. ASSUME NEW u \in User, WireFails(u) PROVE TypeOK'
  BY <1>4 DEF WireFails, TypeOK, Idle, RequestsInOrder
<1>5. ASSUME NEW u \in User, Leave(u) PROVE TypeOK'
  BY <1>5 DEF Leave, TypeOK, Idle
<1>6. ASSUME NEW u \in User, Unwire(u) PROVE TypeOK'
  <2> DEFINE o == proc[u].room
             c == participants[o][u]
  <2>1. o \in Room /\ c \in Call \cup {Nil}
    BY <1>6, UnwireFacts
  <2>2. CASE c = Nil
    <3>1. /\ proc' = [proc EXCEPT ![u] = Idle]
          /\ UNCHANGED <<voiceRooms, made, participants, outgoing, pc, botched, replaced>>
      BY <1>6, <2>2, UnwireFacts
    <3>2. QED
      BY <3>1 DEF TypeOK, Idle
  <2>3. CASE c # Nil
    <3>1. /\ participants' = [participants EXCEPT ![o][u] = Nil]
          /\ botched' = [botched EXCEPT ![o] = @ \ {u}]
          /\ UNCHANGED <<voiceRooms, made, pc, replaced>>
      BY <1>6, <2>3, UnwireFacts
    <3>2. outgoing' \in [Call -> SUBSET User]
      <4>1. outgoing' = [d \in Call |-> IF d \in CallsIn(o) \ {c}
                                        THEN outgoing[d] \ {u} ELSE outgoing[d]]
        BY <1>6, <2>3, UnwireFacts
      <4>2. QED
        BY <4>1 DEF TypeOK
    <3>3. PICK at \in {"close", "closeLast"} :
            proc' = [proc EXCEPT ![u] = [at |-> at, room |-> o, call |-> c]]
      BY <1>6, <2>3, UnwireFacts
    <3>4. QED
      BY <2>1, <2>3, <3>1, <3>2, <3>3 DEF TypeOK
  <2>4. QED
    BY <2>2, <2>3
<1>7. ASSUME NEW u \in User, ClosePC(u) PROVE TypeOK'
  BY <1>7 DEF ClosePC, TypeOK, Idle
<1>8. ASSUME NEW u \in User, DropRoom(u) PROVE TypeOK'
  BY <1>8 DEF DropRoom, TypeOK, Idle
<1>9. QED
  BY <1>1, <1>2, <1>3, <1>4, <1>5, <1>6, <1>7, <1>8 DEF Next

(* The rest of the invariant, one lemma for each part. *)

LEMMA CallsStep == ASSUME IInv, Next PROVE CallsInOrder'
<1> USE VoiceAssumption DEF IInv
<1>0. TypeOK /\ CallsInOrder /\ RequestsInOrder
  OBVIOUS
<1> HIDE DEF IInv
<1>1. ASSUME NEW c \in Call, GetOrCreate(c) PROVE CallsInOrder'
  BY <1>0, <1>1 DEF GetOrCreate, TypeOK, CallsInOrder
<1>2. ASSUME NEW u \in User, NoPC(u) \/ Leave(u) \/ DropRoom(u) PROVE CallsInOrder'
  BY <1>0, <1>2 DEF NoPC, Leave, DropRoom, CallsInOrder
<1>3. ASSUME NEW u \in User, Wire(u) PROVE CallsInOrder'
  <2> DEFINE o == proc[u].room
             c == proc[u].call
  <2>1. /\ o \in Room /\ c \in Call /\ Caller[c] = u
        /\ \A p \in Room, v \in User : participants[p][v] # c
    BY <1>0, <1>3 DEF Wire, TypeOK, RequestsInOrder, CallsInOrder
  <2>2. /\ participants' = [participants EXCEPT ![o][u] = c]
        /\ pc' = [pc EXCEPT ![c] = "open"]
    BY <1>3 DEF Wire
  <2>3. QED
    BY <1>0, <2>1, <2>2 DEF TypeOK, CallsInOrder
<1>4. ASSUME NEW u \in User, WireFails(u) PROVE CallsInOrder'
  BY <1>0, <1>4 DEF WireFails, TypeOK, CallsInOrder, RequestsInOrder
<1>5. ASSUME NEW u \in User, Unwire(u) PROVE CallsInOrder'
  <2> DEFINE o == proc[u].room
             c == participants[o][u]
  <2>1. UNCHANGED pc /\ o \in Room
    BY <1>0, <1>5, UnwireFacts
  <2>2. participants' \in {participants, [participants EXCEPT ![o][u] = Nil]}
    BY <1>0, <1>5, UnwireFacts
  <2>3. \A p \in Room, v \in User : participants'[p][v] \in {participants[p][v], Nil}
    <3>1. CASE participants' = participants
      BY <3>1
    <3>2. CASE participants' = [participants EXCEPT ![o][u] = Nil]
      BY <1>0, <2>1, <3>2 DEF TypeOK
    <3>3. QED
      BY <2>2, <3>1, <3>2
  <2>4. QED
    BY <1>0, <2>1, <2>3 DEF CallsInOrder
<1>6. ASSUME NEW u \in User, ClosePC(u) PROVE CallsInOrder'
  BY <1>0, <1>6 DEF ClosePC, TypeOK, CallsInOrder, RequestsInOrder
<1>7. QED
  BY <1>1, <1>2, <1>3, <1>4, <1>5, <1>6 DEF Next

LEMMA RequestsStep == ASSUME IInv, Next PROVE RequestsInOrder'
<1> USE VoiceAssumption DEF IInv
<1>0. TypeOK /\ CallsInOrder /\ RequestsInOrder
  OBVIOUS
<1> HIDE DEF IInv
<1>1. ASSUME NEW c \in Call, GetOrCreate(c) PROVE RequestsInOrder'
  <2> DEFINE u == Caller[c]
  <2>1. u \in User /\ c # Nil /\ pc[c] = "unused"
    BY <1>1 DEF GetOrCreate
  <2>2. PICK o \in Room : proc' = [proc EXCEPT ![u] = [at |-> "join", room |-> o, call |-> c]]
    BY <1>0, <1>1 DEF GetOrCreate, TypeOK
  <2>3. \A p \in Room, v \in User : participants[p][v] # c
    BY <1>0, <2>1 DEF CallsInOrder
  <2>4. \A v \in User : proc[v].call # c
    BY <1>0, <2>1 DEF RequestsInOrder
  <2>5. pc' = [pc EXCEPT ![c] = "none"] /\ UNCHANGED participants
    BY <1>1 DEF GetOrCreate
  <2>6. QED
    BY <1>0, <2>1, <2>2, <2>3, <2>4, <2>5 DEF TypeOK, RequestsInOrder
<1>2. ASSUME NEW u \in User, NoPC(u) \/ DropRoom(u) PROVE RequestsInOrder'
  <2>1. proc' = [proc EXCEPT ![u] = Idle] /\ UNCHANGED <<participants, pc>>
    BY <1>2 DEF NoPC, DropRoom
  <2>2. QED
    BY <1>0, <2>1 DEF TypeOK, RequestsInOrder, Idle
<1>3. ASSUME NEW u \in User, Leave(u) PROVE RequestsInOrder'
  BY <1>0, <1>3 DEF Leave, TypeOK, RequestsInOrder, Idle
<1>4. ASSUME NEW u \in User, Wire(u) PROVE RequestsInOrder'
  <2> DEFINE o == proc[u].room
             c == proc[u].call
  <2>1. o \in Room /\ c \in Call /\ Caller[c] = u
    BY <1>0, <1>4 DEF Wire, TypeOK, RequestsInOrder
  <2>2. /\ participants' = [participants EXCEPT ![o][u] = c]
        /\ pc' = [pc EXCEPT ![c] = "open"]
        /\ proc' = [proc EXCEPT ![u] = Idle]
    BY <1>4 DEF Wire
  <2>3. \A v \in User \ {u} : proc[v].call # Nil => proc[v].call # c
    BY <1>0, <2>1 DEF RequestsInOrder
  <2>4. QED
    BY <1>0, <2>1, <2>2, <2>3 DEF TypeOK, RequestsInOrder, Idle
<1>5. ASSUME NEW u \in User, WireFails(u) PROVE RequestsInOrder'
  <2> DEFINE c == proc[u].call
  <2>1. c \in Call /\ Caller[c] = u
    BY <1>0, <1>5 DEF WireFails, TypeOK, RequestsInOrder
  <2>2. /\ pc' = [pc EXCEPT ![c] = "closed"]
        /\ proc' = [proc EXCEPT ![u] = Idle]
        /\ UNCHANGED participants
    BY <1>5 DEF WireFails
  <2>3. \A v \in User \ {u} : proc[v].call # Nil => proc[v].call # c
    BY <1>0, <2>1 DEF RequestsInOrder
  <2>4. QED
    BY <1>0, <2>1, <2>2, <2>3 DEF TypeOK, RequestsInOrder, Idle
<1>6. ASSUME NEW u \in User, Unwire(u) PROVE RequestsInOrder'
  <2> DEFINE o == proc[u].room
             c == participants[o][u]
  <2>1. o \in Room /\ c \in Call \cup {Nil} /\ UNCHANGED pc
    BY <1>0, <1>6, UnwireFacts
  <2>2. CASE c = Nil
    <3>1. proc' = [proc EXCEPT ![u] = Idle] /\ UNCHANGED participants
      BY <1>0, <1>6, <2>2, UnwireFacts
    <3>2. QED
      BY <1>0, <2>1, <3>1 DEF TypeOK, RequestsInOrder, Idle
  <2>3. CASE c # Nil
    <3>1. participants' = [participants EXCEPT ![o][u] = Nil]
      BY <1>0, <1>6, <2>3, UnwireFacts
    <3>2. PICK at \in {"close", "closeLast"} :
            proc' = [proc EXCEPT ![u] = [at |-> at, room |-> o, call |-> c]]
      BY <1>0, <1>6, <2>3, UnwireFacts
    <3>3. Caller[c] = u /\ pc[c] = "open" /\ \A p \in Room : participants[p][u] = c => p = o
      BY <1>0, <2>1, <2>3 DEF CallsInOrder
    <3>4. \A p \in Room, v \in User : participants'[p][v] \in {participants[p][v], Nil}
      BY <1>0, <2>1, <3>1 DEF TypeOK
    <3>5. \A p \in Room : participants'[p][u] # c
      BY <1>0, <2>1, <2>3, <3>1, <3>3 DEF TypeOK
    <3>6. QED
      BY <1>0, <2>1, <3>2, <3>3, <3>4, <3>5 DEF TypeOK, RequestsInOrder
  <2>4. QED
    BY <2>2, <2>3
<1>7. ASSUME NEW u \in User, ClosePC(u) PROVE RequestsInOrder'
  <2> DEFINE c == proc[u].call
  <2>1. c \in Call /\ Caller[c] = u
    BY <1>0, <1>7 DEF ClosePC, TypeOK, RequestsInOrder
  <2>2. PICK at \in {"idle", "drop"} :
          /\ pc' = [pc EXCEPT ![c] = "closed"]
          /\ proc' = [proc EXCEPT ![u] = [at |-> at, room |-> Nil, call |-> Nil]]
          /\ UNCHANGED participants
    BY <1>7 DEF ClosePC, Idle
  <2>3. \A v \in User \ {u} : proc[v].call # Nil => proc[v].call # c
    BY <1>0, <2>1 DEF RequestsInOrder
  <2>4. QED
    BY <1>0, <2>1, <2>2, <2>3 DEF TypeOK, RequestsInOrder
<1>8. QED
  BY <1>1, <1>2, <1>3, <1>4, <1>5, <1>6, <1>7 DEF Next

LEMMA TracksStep == ASSUME IInv, Next PROVE TracksInOrder'
<1> USE VoiceAssumption
<1>0. TypeOK /\ CallsInOrder /\ RequestsInOrder /\ TracksInOrder
  BY DEF IInv
<1>1. ASSUME NEW c \in Call, GetOrCreate(c) PROVE TracksInOrder'
  BY <1>0, <1>1 DEF GetOrCreate, TracksInOrder
<1>2. ASSUME NEW u \in User, NoPC(u) \/ Leave(u) \/ ClosePC(u) \/ DropRoom(u)
      PROVE  TracksInOrder'
  BY <1>0, <1>2 DEF NoPC, Leave, ClosePC, DropRoom, TracksInOrder
<1>3. ASSUME NEW u \in User, Wire(u) PROVE TracksInOrder'
  <2> DEFINE o == proc[u].room
             c == proc[u].call
  <2>1. /\ o \in Room /\ c \in Call
        /\ \A p \in Room, v \in User : participants[p][v] # c
    BY <1>0, <1>3 DEF Wire, TypeOK, RequestsInOrder, CallsInOrder
  <2>2. /\ participants' = [participants EXCEPT ![o][u] = c]
        /\ outgoing' = [d \in Call |-> IF d = c THEN Inside(o)
                                       ELSE IF d \in CallsIn(o) THEN outgoing[d] \cup {u}
                                       ELSE outgoing[d]]
        /\ UNCHANGED botched
    BY <1>3 DEF Wire
  <2>3. SUFFICES ASSUME NEW p \in Room, NEW w \in User, NEW v \in User,
                        participants'[p][v] # Nil
                 PROVE  LET tracks == outgoing'[participants'[p][v]] IN
                        /\ w # v /\ participants'[p][w] # Nil => w \in tracks
                        /\ participants'[p][w] = Nil /\ w \notin botched'[p] => w \notin tracks
    BY DEF TracksInOrder
  <2>4. CASE p = o /\ v = u
    <3>1. participants'[p][v] = c /\ outgoing'[c] = Inside(o)
      BY <1>0, <2>1, <2>2, <2>4 DEF TypeOK
    <3>2. w # u => participants'[p][w] = participants[o][w]
      BY <1>0, <2>1, <2>2, <2>4 DEF TypeOK
    <3>3. QED
      BY <2>1, <2>4, <3>1, <3>2 DEF Inside
  <2>5. CASE p = o /\ v # u
    <3> DEFINE d == participants[o][v]
    <3>1. participants'[p][v] = d /\ d \in Call /\ d # c
      BY <1>0, <2>1, <2>2, <2>3, <2>5 DEF TypeOK
    <3>2. outgoing'[d] = outgoing[d] \cup {u}
      BY <2>2, <2>3, <2>5, <3>1 DEF CallsIn, Inside
    <3>3. participants'[p][w] = IF w = u THEN c ELSE participants[o][w]
      BY <1>0, <2>1, <2>2, <2>5 DEF TypeOK
    <3>4. QED
      BY <1>0, <2>1, <2>2, <2>3, <2>5, <3>1, <3>2, <3>3 DEF TracksInOrder
  <2>6. CASE p # o
    <3> DEFINE d == participants[p][v]
    <3>1. participants'[p] = participants[p] /\ d \in Call /\ d # c /\ d # Nil
      BY <1>0, <2>1, <2>2, <2>3, <2>6 DEF TypeOK
    <3>2. d \notin CallsIn(o)
      BY <2>1, <2>6, <3>1, CallsOf
    <3>3. QED
      BY <1>0, <2>2, <2>3, <3>1, <3>2 DEF TracksInOrder
  <2>7. QED
    BY <2>4, <2>5, <2>6
<1>4. ASSUME NEW u \in User, WireFails(u) PROVE TracksInOrder'
  <2> DEFINE o == proc[u].room
  <2>1. o \in Room /\ UNCHANGED participants
    BY <1>0, <1>4 DEF WireFails, RequestsInOrder
  <2>2. PICK wired \in SUBSET CallsIn(o) :
          /\ outgoing' = [d \in Call |-> IF d \in wired THEN outgoing[d] \cup {u}
                                         ELSE outgoing[d]]
          /\ botched' = [botched EXCEPT ![o] = IF wired = {} THEN @ ELSE @ \cup {u}]
    BY <1>4 DEF WireFails
  <2>3. SUFFICES ASSUME NEW p \in Room, NEW w \in User, NEW v \in User,
                        participants[p][v] # Nil
                 PROVE  LET tracks == outgoing'[participants[p][v]] IN
                        /\ w # v /\ participants[p][w] # Nil => w \in tracks
                        /\ participants[p][w] = Nil /\ w \notin botched'[p] => w \notin tracks
    BY <2>1 DEF TracksInOrder
  <2> DEFINE d == participants[p][v]
  <2>4. d \in Call
    BY <1>0, <2>3 DEF TypeOK
  <2>5. CASE d \in wired
    <3>1. p = o
      BY <2>1, <2>3, <2>5, CallsOf
    <3>2. botched'[p] = botched[p] \cup {u} /\ outgoing'[d] = outgoing[d] \cup {u}
      BY <1>0, <2>1, <2>2, <2>4, <2>5, <3>1 DEF TypeOK
    <3>3. QED
      BY <1>0, <2>3, <3>2 DEF TracksInOrder
  <2>6. CASE d \notin wired
    <3>1. botched[p] \subseteq botched'[p] /\ outgoing'[d] = outgoing[d]
      BY <1>0, <2>1, <2>2, <2>4, <2>6 DEF TypeOK
    <3>2. QED
      BY <1>0, <2>3, <3>1 DEF TracksInOrder
  <2>7. QED
    BY <2>5, <2>6
<1>5. ASSUME NEW u \in User, Unwire(u) PROVE TracksInOrder'
  <2> DEFINE o == proc[u].room
             c == participants[o][u]
  <2>1. o \in Room /\ c \in Call \cup {Nil}
    BY <1>0, <1>5, UnwireFacts
  <2>2. CASE c = Nil
    <3>1. UNCHANGED <<participants, outgoing, botched>>
      BY <1>0, <1>5, <2>2, UnwireFacts
    <3>2. QED
      BY <1>0, <3>1 DEF TracksInOrder
  <2>3. CASE c # Nil
    <3>1. /\ participants' = [participants EXCEPT ![o][u] = Nil]
          /\ botched' = [botched EXCEPT ![o] = @ \ {u}]
      BY <1>0, <1>5, <2>3, UnwireFacts
    <3>2. outgoing' = [d \in Call |-> IF d \in CallsIn(o) \ {c}
                                      THEN outgoing[d] \ {u} ELSE outgoing[d]]
      BY <1>0, <1>5, <2>3, UnwireFacts
    <3>3. SUFFICES ASSUME NEW p \in Room, NEW w \in User, NEW v \in User,
                          participants'[p][v] # Nil
                   PROVE  LET tracks == outgoing'[participants'[p][v]] IN
                          /\ w # v /\ participants'[p][w] # Nil => w \in tracks
                          /\ participants'[p][w] = Nil /\ w \notin botched'[p] => w \notin tracks
      BY DEF TracksInOrder
    <3> DEFINE d == participants[p][v]
    <3>4. /\ participants'[p][v] = d /\ d \in Call /\ d # Nil
          /\ ~(p = o /\ v = u)
      BY <1>0, <2>1, <3>1, <3>3 DEF TypeOK
    <3>5. CASE p = o
      <4>1. d \in CallsIn(o) /\ d # c
        BY <1>0, <2>1, <2>3, <3>4, <3>5 DEF CallsIn, Inside, CallsInOrder
      <4>2. outgoing'[d] = outgoing[d] \ {u} /\ botched'[p] = botched[p] \ {u}
        BY <1>0, <2>1, <3>1, <3>2, <3>4, <3>5, <4>1 DEF TypeOK
      <4>3. participants'[p][w] = IF w = u THEN Nil ELSE participants[p][w]
        BY <1>0, <2>1, <3>1, <3>5 DEF TypeOK
      <4>4. QED
        BY <1>0, <3>4, <4>2, <4>3 DEF TracksInOrder
    <3>6. CASE p # o
      <4>1. d \notin CallsIn(o)
        BY <2>1, <3>4, <3>6, CallsOf
      <4>2. outgoing'[d] = outgoing[d] /\ botched'[p] = botched[p] /\ participants'[p] = participants[p]
        BY <1>0, <2>1, <3>1, <3>2, <3>4, <3>6, <4>1 DEF TypeOK
      <4>3. QED
        BY <1>0, <3>4, <4>2 DEF TracksInOrder
    <3>7. QED
      BY <3>5, <3>6
  <2>4. QED
    BY <2>2, <2>3
<1>6. QED
  BY <1>1, <1>2, <1>3, <1>4, <1>5 DEF Next

LEMMA OpenStep == ASSUME IInv, Next PROVE OpenAccounted'
<1> USE VoiceAssumption
<1>0. TypeOK /\ CallsInOrder /\ RequestsInOrder /\ OpenAccounted
  BY DEF IInv
<1>1. ASSUME NEW c \in Call, GetOrCreate(c) PROVE OpenAccounted'
  <2>1. PICK o \in Room : proc' = [proc EXCEPT ![Caller[c]] =
                                     [at |-> "join", room |-> o, call |-> c]]
    BY <1>0, <1>1 DEF GetOrCreate, TypeOK
  <2>2. /\ proc[Caller[c]].at = "idle" /\ pc' = [pc EXCEPT ![c] = "none"]
        /\ UNCHANGED <<participants, replaced>>
    BY <1>1 DEF GetOrCreate, Idle
  <2>3. QED
    BY <1>0, <2>1, <2>2 DEF TypeOK, OpenAccounted, Entered
<1>2. ASSUME NEW u \in User, NoPC(u) \/ Leave(u) \/ DropRoom(u) PROVE OpenAccounted'
  <2>1. /\ proc[u].at \notin {"close", "closeLast"}
        /\ \A v \in User \ {u} : proc'[v] = proc[v]
        /\ UNCHANGED <<participants, pc, replaced>>
    BY <1>0, <1>2 DEF NoPC, Leave, DropRoom, TypeOK, Idle
  <2>2. QED
    BY <1>0, <2>1 DEF TypeOK, OpenAccounted, Entered
<1>3. ASSUME NEW u \in User, Wire(u) PROVE OpenAccounted'
  <2>1. PICK o \in Room, c \in Call : /\ o = proc[u].room /\ c = proc[u].call
                                      /\ Caller[c] = u /\ proc[u].at = "join"
    BY <1>0, <1>3 DEF Wire, TypeOK, RequestsInOrder
  <2> DEFINE e == participants[o][u]
  <2>2. /\ participants' = [participants EXCEPT ![o][u] = c]
        /\ pc' = [pc EXCEPT ![c] = "open"]
        /\ replaced' = replaced \cup ({e} \ {Nil})
        /\ proc' = [proc EXCEPT ![u] = Idle]
    BY <1>3, <2>1 DEF Wire
  <2>3. Entered(c)'
    <3>1. participants'[o][Caller[c]] = c
      BY <1>0, <2>1, <2>2 DEF TypeOK
    <3>2. QED
      BY <2>1, <3>1 DEF Entered
  <2>4. ASSUME NEW d \in Call, d # c, d # e, Entered(d) PROVE Entered(d)'
    <3>1. PICK p \in Room : participants[p][Caller[d]] = d
      BY <2>4 DEF Entered
    <3>2. participants'[p][Caller[d]] = d
      BY <1>0, <2>1, <2>2, <2>4, <3>1 DEF TypeOK
    <3>3. QED
      BY <3>2 DEF Entered
  <2>5. \A v \in User \ {u} : proc'[v] = proc[v]
    BY <1>0, <2>2 DEF TypeOK
  <2>6. SUFFICES ASSUME NEW d \in Call, d # c, pc'[d] = "open"
                 PROVE  \/ Entered(d)'
                        \/ /\ proc'[Caller[d]].call = d
                           /\ proc'[Caller[d]].at \in {"close", "closeLast"}
                        \/ d \in replaced'
    BY <2>3 DEF OpenAccounted
  <2>7. pc[d] = "open"
    BY <1>0, <2>1, <2>2, <2>6 DEF TypeOK
  <2>8. CASE d = e
    BY <2>2, <2>8
  <2>9. CASE d # e
    <3>1. CASE Entered(d)
      BY <2>4, <2>6, <2>9, <3>1
    <3>2. CASE ~Entered(d)
      BY <1>0, <2>1, <2>2, <2>5, <2>7, <3>2 DEF OpenAccounted
    <3>3. QED
      BY <3>1, <3>2
  <2>10. QED
    BY <2>8, <2>9
<1>4. ASSUME NEW u \in User, WireFails(u) PROVE OpenAccounted'
  <2>1. /\ proc[u].at = "join" /\ pc' = [pc EXCEPT ![proc[u].call] = "closed"]
        /\ proc' = [proc EXCEPT ![u] = Idle]
        /\ UNCHANGED <<participants, replaced>>
    BY <1>4 DEF WireFails
  <2>2. QED
    BY <1>0, <2>1 DEF TypeOK, OpenAccounted, Entered
<1>5. ASSUME NEW u \in User, Unwire(u) PROVE OpenAccounted'
  <2> DEFINE o == proc[u].room
             c == participants[o][u]
  <2>1. /\ o \in Room /\ c \in Call \cup {Nil} /\ UNCHANGED <<pc, replaced>>
        /\ proc[u].at = "leave"
    BY <1>0, <1>5, UnwireFacts DEF Unwire
  <2>2. CASE c = Nil
    <3>1. proc' = [proc EXCEPT ![u] = Idle] /\ UNCHANGED participants
      BY <1>0, <1>5, <2>2, UnwireFacts
    <3>2. QED
      BY <1>0, <2>1, <3>1 DEF TypeOK, OpenAccounted, Entered
  <2>3. CASE c # Nil
    <3>1. participants' = [participants EXCEPT ![o][u] = Nil]
      BY <1>0, <1>5, <2>3, UnwireFacts
    <3>2. PICK at \in {"close", "closeLast"} :
            proc' = [proc EXCEPT ![u] = [at |-> at, room |-> o, call |-> c]]
      BY <1>0, <1>5, <2>3, UnwireFacts
    <3>3. Caller[c] = u /\ c \in Call
      BY <1>0, <2>1, <2>3 DEF CallsInOrder
    <3>4. proc'[u].call = c /\ proc'[u].at \in {"close", "closeLast"}
      BY <1>0, <3>2 DEF TypeOK
    <3>5. ASSUME NEW d \in Call, d # c, Entered(d) PROVE Entered(d)'
      <4>1. PICK p \in Room : participants[p][Caller[d]] = d
        BY <3>5 DEF Entered
      <4>2. participants'[p][Caller[d]] = d
        BY <1>0, <2>1, <3>1, <3>5, <4>1 DEF TypeOK
      <4>3. QED
        BY <4>2 DEF Entered
    <3>6. \A v \in User \ {u} : proc'[v] = proc[v]
      BY <1>0, <3>2 DEF TypeOK
    <3>7. QED
      BY <1>0, <2>1, <3>3, <3>4, <3>5, <3>6 DEF TypeOK, OpenAccounted
  <2>4. QED
    BY <2>2, <2>3
<1>6. ASSUME NEW u \in User, ClosePC(u) PROVE OpenAccounted'
  <2>1. /\ pc' = [pc EXCEPT ![proc[u].call] = "closed"]
        /\ \A v \in User \ {u} : proc'[v] = proc[v]
        /\ UNCHANGED <<participants, replaced>>
    BY <1>0, <1>6 DEF ClosePC, TypeOK, Idle
  <2>2. QED
    BY <1>0, <2>1 DEF TypeOK, OpenAccounted, Entered
<1>7. QED
  BY <1>1, <1>2, <1>3, <1>4, <1>5, <1>6 DEF Next

LEMMA NextIInv == ASSUME IInv, [Next]_vars PROVE IInv'
<1>1. CASE Next
  BY <1>1, TypeStep, CallsStep, RequestsStep, TracksStep, OpenStep DEF IInv
<1>2. CASE UNCHANGED vars
  BY <1>2 DEF vars, IInv, TypeOK, CallsInOrder, RequestsInOrder, TracksInOrder,
              OpenAccounted, Entered
<1>3. QED
  BY <1>1, <1>2

LEMMA Invariance == Spec => []IInv
BY InitIInv, NextIInv, PTL DEF Spec

-----------------------------------------------------------------------------
(* Registry, rooms, tracks, connections and requests are well typed, and a *)
(* request has a participant exactly while it is about one.                *)
THEOREM TypeCorrect == Spec => []TypeOK
<1>1. IInv => TypeOK
  BY DEF IInv
<1>2. QED
  BY <1>1, Invariance, PTL

(* However joins, repeated joins, leaves and failed joins of any number of *)
(* users interleave, forwardVoiceTrack relays everyone inside a room to    *)
(* everyone else in it.                                                    *)
THEOREM InsideIsHeard == Spec => []EveryoneIsHeard
<1>1. IInv => EveryoneIsHeard
  BY DEF IInv, TracksInOrder, EveryoneIsHeard, Recipients, Inside
<1>2. QED
  BY <1>1, Invariance, PTL

(* forwardVoiceTrack relays nobody who has left, even while their          *)
(* connection is still open, but for those whose join failed half way.     *)
THEOREM OutsideIsSilent == Spec => []LeaverIsSilent
<1>1. IInv => LeaverIsSilent
  BY DEF IInv, TracksInOrder, LeaverIsSilent, Recipients, Inside
<1>2. QED
  BY <1>1, Invariance, PTL

(* No track is added to a closed connection, and voiceJoin and voiceLeave  *)
(* forget an open one only when a user joins again without leaving.        *)
THEOREM NoneLeaks == Spec => []ConnectionsAccounted
<1>1. IInv => ConnectionsAccounted
  <2> SUFFICES ASSUME IInv, NEW c \in Call
               PROVE  /\ Entered(c) => pc[c] = "open"
                      /\ pc[c] = "open" =>
                           \/ Entered(c)
                           \/ /\ proc[Caller[c]].call = c
                              /\ proc[Caller[c]].at \in {"close", "closeLast"}
                           \/ c \in replaced
    BY DEF ConnectionsAccounted
  <2>1. Entered(c) => pc[c] = "open"
    BY VoiceAssumption DEF IInv, CallsInOrder, Entered
  <2>2. QED
    BY <2>1 DEF IInv, OpenAccounted
<1>2. QED
  BY <1>1, Invariance, PTL
=============================================================================
