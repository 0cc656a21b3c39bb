----------------------------- MODULE VoiceRooms -----------------------------
(***************************************************************************)
(* Who is in a voice call and who hears whom: voiceJoin and voiceLeave of  *)
(* broker/core/voice.go for one room id (different ids share nothing).     *)
(*                                                                         *)
(* The registry voiceRooms and each VoiceRoom have a lock of their own, so *)
(* a join looks the room up in one critical section and enters it in       *)
(* another, and a leave takes its user out in one and drops the emptied    *)
(* room from the registry in another.  A VoiceRoom and a participant are   *)
(* objects with an identity: a join that finds no room makes a new one,    *)
(* and every join makes a new participant.  The voice requests of one user *)
(* run one after another: a connection's handler runs one RPC at a time,   *)
(* and a user has one connection at a time (Presence).  No user has to     *)
(* leave before joining again: a client that crashed does not, and the end *)
(* of its WebSocket leaves the call untouched.                             *)
(***************************************************************************)
CONSTANTS User,
          Call,      \* participants: one for each voice_join received
          Caller,    \* the user of each
          Room,      \* VoiceRoom objects
          Nil,       \* no room, no participant
          MayFail    \* whether WebRTC calls may fail

ASSUME VoiceAssumption == /\ Caller \in [Call -> User]
                          /\ Nil \notin Call \cup Room
                          /\ MayFail \in BOOLEAN

VARIABLES voiceRooms,    \* Broker.voiceRooms at the room id
          made,          \* the VoiceRoom objects made so far
          participants,  \* VoiceRoom.Participants
          outgoing,      \* VoiceParticipant.Outgoing and Senders: their keys
          pc,            \* the peer connection of each participant
          proc,          \* the voice request each user's handler is running
          botched,       \* history: users whose join failed half way, per room
          replaced       \* history: participants overwritten by a later join

vars == <<voiceRooms, made, participants, outgoing, pc, proc, botched, replaced>>

Idle == [at |-> "idle", room |-> Nil, call |-> Nil]

TypeOK ==
  /\ voiceRooms \in Room \cup {Nil}
  /\ made \subseteq Room
  /\ participants \in [Room -> [User -> Call \cup {Nil}]]
  /\ outgoing \in [Call -> SUBSET User]
  /\ pc \in [Call -> {"unused", "none", "open", "closed"}]
  /\ proc \in [User -> [at : {"idle", "join", "leave", "close", "closeLast", "drop"},
                        room : Room \cup {Nil}, call : Call \cup {Nil}]]
  /\ \A u \in User : proc[u].at \in {"join", "close", "closeLast"}
                      <=> proc[u].call # Nil
  /\ botched \in [Room -> SUBSET User]
  /\ replaced \subseteq Call

Init ==
  /\ voiceRooms = Nil
  /\ made = {}
  /\ participants = [o \in Room |-> [u \in User |-> Nil]]
  /\ outgoing = [c \in Call |-> {}]
  /\ pc = [c \in Call |-> "unused"]
  /\ proc = [u \in User |-> Idle]
  /\ botched = [o \in Room |-> {}]
  /\ replaced = {}

Inside(o) == {u \in User : participants[o][u] # Nil}
CallsIn(o) == {participants[o][u] : u \in Inside(o)}

-----------------------------------------------------------------------------
(* voiceJoin. *)

(* getOrCreateVoiceRoom, under the registry lock. *)
GetOrCreate(c) ==
  /\ pc[c] = "unused"
  /\ proc[Caller[c]] = Idle
  /\ \E o \in IF voiceRooms # Nil THEN {voiceRooms} ELSE Room \ made :
       /\ voiceRooms' = o
       /\ made' = made \cup {o}
       /\ proc' = [proc EXCEPT ![Caller[c]] = [at |-> "join", room |-> o, call |-> c]]
  /\ pc' = [pc EXCEPT ![c] = "none"]
  /\ UNCHANGED <<participants, outgoing, botched, replaced>>

(* newVoicePC fails. *)
NoPC(u) ==
  /\ MayFail
  /\ proc[u].at = "join"
  /\ proc' = [proc EXCEPT ![u] = Idle]
  /\ UNCHANGED <<voiceRooms, made, participants, outgoing, pc, botched, replaced>>

(* Mutant of Wire: the new participant gets no tracks of the others. *)
WireOneWay(u) ==
  LET c == proc[u].call
      o == proc[u].room IN
  /\ proc[u].at = "join"
  /\ outgoing' = [d \in Call |-> IF d \in CallsIn(o) THEN outgoing[d] \cup {u}
                                 ELSE outgoing[d]]
  /\ participants' = [participants EXCEPT ![o][u] = c]
  /\ pc' = [pc EXCEPT ![c] = "open"]
  /\ replaced' = replaced \cup ({participants[o][u]} \ {Nil})
  /\ proc' = [proc EXCEPT ![u] = Idle]
  /\ UNCHANGED <<voiceRooms, made, botched>>

(* Under the room's lock: a track each way between the new participant and *)
(* everyone inside, the user's own earlier participant included, and then  *)
(* the entry.  What follows, up to the answer, is the new connection's     *)
(* own, and the participant stays whether or not it succeeds.              *)
Wire(u) ==
  LET c == proc[u].call
      o == proc[u].room IN
  /\ proc[u].at = "join"
  /\ outgoing' = [d \in Call |-> IF d = c THEN Inside(o)
                                 ELSE IF d \in CallsIn(o) THEN outgoing[d] \cup {u}
                                 ELSE outgoing[d]]
  /\ participants' = [participants EXCEPT ![o][u] = c]
  /\ pc' = [pc EXCEPT ![c] = "open"]
  /\ replaced' = replaced \cup ({participants[o][u]} \ {Nil})
  /\ proc' = [proc EXCEPT ![u] = Idle]
  /\ UNCHANGED <<voiceRooms, made, botched>>

(* Mutant of WireFails: the new connection is not closed. *)
WireFailsOpen(u) ==
  LET c == proc[u].call
      o == proc[u].room IN
  /\ MayFail
  /\ proc[u].at = "join"
  /\ CallsIn(o) # {}
  /\ pc' = [pc EXCEPT ![c] = "open"]
  /\ proc' = [proc EXCEPT ![u] = Idle]
  /\ UNCHANGED <<voiceRooms, made, participants, outgoing, botched, replaced>>

(* A track cannot be added: the new connection is closed and the join      *)
(* given up, with the tracks already added to some of the others in place. *)
WireFails(u) ==
  LET c == proc[u].call
      o == proc[u].room IN
  /\ MayFail
  /\ proc[u].at = "join"
  /\ \E wired \in SUBSET CallsIn(o) :
       /\ wired # CallsIn(o)
       /\ outgoing' = [d \in Call |-> IF d \in wired THEN outgoing[d] \cup {u}
                                      ELSE outgoing[d]]
       /\ botched' = [botched EXCEPT ![o] = IF wired = {} THEN @ ELSE @ \cup {u}]
  /\ pc' = [pc EXCEPT ![c] = "closed"]
  /\ proc' = [proc EXCEPT ![u] = Idle]
  /\ UNCHANGED <<voiceRooms, made, participants, replaced>>

-----------------------------------------------------------------------------
(* voiceLeave. *)

(* The room is looked up under the registry lock; if there is none the     *)
(* leave is over.                                                          *)
Leave(u) ==
  /\ proc[u] = Idle
  /\ voiceRooms # Nil
  /\ proc' = [proc EXCEPT ![u] = [at |-> "leave", room |-> voiceRooms, call |-> Nil]]
  /\ UNCHANGED <<voiceRooms, made, participants, outgoing, pc, botched, replaced>>

(* Mutant of Unwire: the others keep their tracks of the user who leaves.  *)
UnwireNoTracks(u) ==
  LET o == proc[u].room
      c == participants[o][u] IN
  /\ proc[u].at = "leave"
  /\ c # Nil
  /\ participants' = [participants EXCEPT ![o][u] = Nil]
  /\ botched' = [botched EXCEPT ![o] = @ \ {u}]
  /\ proc' = [proc EXCEPT ![u] =
       [at |-> IF Inside(o) = {u} THEN "closeLast" ELSE "close",
        room |-> o, call |-> c]]
  /\ UNCHANGED <<voiceRooms, made, outgoing, pc, replaced>>

(* Under the room's lock: the user is taken out, with the track everyone   *)
(* else had for them.  A user who is not inside has nothing to leave.      *)
Unwire(u) ==
  LET o == proc[u].room
      c == participants[o][u] IN
  /\ proc[u].at = "leave"
  /\ IF c = Nil
     THEN /\ proc' = [proc EXCEPT ![u] = Idle]
          /\ UNCHANGED <<participants, outgoing, botched>>
     ELSE /\ participants' = [participants EXCEPT ![o][u] = Nil]
          /\ outgoing' = [d \in Call |-> IF d \in CallsIn(o) \ {c}
                                         THEN outgoing[d] \ {u} ELSE outgoing[d]]
          /\ botched' = [botched EXCEPT ![o] = @ \ {u}]
          /\ proc' = [proc EXCEPT ![u] =
               [at |-> IF Inside(o) = {u} THEN "closeLast" ELSE "close",
                room |-> o, call |-> c]]
  /\ UNCHANGED <<voiceRooms, made, pc, replaced>>

(* The participant's connection is closed; a leave that left nobody inside *)
(* goes on to drop the room.                                               *)
ClosePC(u) ==
  /\ proc[u].at \in {"close", "closeLast"}
  /\ pc' = [pc EXCEPT ![proc[u].call] = "closed"]
  /\ proc' = [proc EXCEPT ![u] =
       IF proc[u].at = "closeLast" THEN [at |-> "drop", room |-> Nil, call |-> Nil]
       ELSE Idle]
  /\ UNCHANGED <<voiceRooms, made, participants, outgoing, botched, replaced>>

(* The registry entry is deleted, whatever room it holds by now. *)
DropRoom(u) ==
  /\ proc[u].at = "drop"
  /\ voiceRooms' = Nil
  /\ proc' = [proc EXCEPT ![u] = Idle]
  /\ UNCHANGED <<made, participants, outgoing, pc, botched, replaced>>

-----------------------------------------------------------------------------
Next == \/ \E c \in Call : GetOrCreate(c)
        \/ \E u \in User : \/ NoPC(u) \/ Wire(u) \/ WireFails(u)
                           \/ Leave(u) \/ Unwire(u) \/ ClosePC(u) \/ DropRoom(u)

Spec == Init /\ [][Next]_vars

-----------------------------------------------------------------------------
(* Properties. *)

(* forwardVoiceTrack: whom the audio of user u in room o is relayed to.    *)
Recipients(o, u) ==
  {v \in Inside(o) \ {u} : u \in outgoing[participants[o][v]]}

(* Everyone inside a room is heard by everyone else in it, however joins,  *)
(* repeated joins, leaves and joins that fail half way interleave.         *)
EveryoneIsHeard ==
  \A o \in Room : \A u \in Inside(o) : Recipients(o, u) = Inside(o) \ {u}

(* Whoever is not inside a room is not relayed to anyone in it, although   *)
(* their connection may still be open, unless a join of theirs failed half *)
(* way and they have not joined and left since.                            *)
LeaverIsSilent ==
  \A o \in Room : \A u \in User \ (Inside(o) \cup botched[o]) :
    Recipients(o, u) = {}

Entered(c) == \E o \in Room : participants[o][Caller[c]] = c

(* No participant inside a room has a closed connection, so no track is    *)
(* ever added to one; and an open connection is a participant's, or its    *)
(* leave is about to close it, or its user joined again without leaving:   *)
(* the only way a connection is forgotten.                                 *)
ConnectionsAccounted ==
  \A c \in Call :
    /\ Entered(c) => pc[c] = "open"
    /\ pc[c] = "open" =>
         \/ Entered(c)
         \/ proc[Caller[c]].call = c /\ proc[Caller[c]].at \in {"close", "closeLast"}
         \/ c \in replaced

(* All the participants of a call are in one VoiceRoom.                    *)
OneRoom ==
  \A o, p \in Room : Inside(o) # {} /\ Inside(p) # {} => o = p
=============================================================================
