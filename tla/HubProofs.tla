----------------------------- MODULE HubProofs -----------------------------
(***************************************************************************)
(* The registry of the hub is exact and implements Presence, for any       *)
(* number of users, connections and pushing goroutines; and the blocking   *)
(* send of handleEcho loses no echo answer while the connection's writer   *)
(* lives, whatever other goroutines put on the same channel.               *)
(***************************************************************************)
EXTENDS Hub, TLAPS

(* A handler is inside sendToClient exactly while its push is under way,   *)
(* a push holds a pointer exactly between lookup and send, and a writer    *)
(* that is writing holds a message.                                        *)
PushInSync ==
  /\ \A c \in Conn : handler[c] = "push" <=> push[c].at # "off"
  /\ \A p \in Pusher : push[p].at = "send" <=> push[p].ptr \in Conn
  /\ \A c \in Conn : writer[c] = "write" => hand[c] # <<>>

IInv == TypeOK /\ RegistryExact /\ RefusedIsSilent /\ PushInSync

States == {"idle", "upgraded", "refused", "reading", "echo", "parked", "push",
           "removing", "done"}

LEMMA InitIInv == Init => IInv
<1> SUFFICES ASSUME Init PROVE IInv
  OBVIOUS
<1> USE HubAssumption DEF Init
<1>1. TypeOK
  BY DEF TypeOK, Idle, Message
<1>2. RegistryExact
  BY DEF RegistryExact, Registered
<1>3. RefusedIsSilent
  BY DEF RefusedIsSilent, Idle
<1>4. PushInSync
  BY DEF PushInSync, Idle, Pusher
<1>5. QED
  BY <1>1, <1>2, <1>3, <1>4 DEF IInv

PushState == [at : {"off", "loop", "send"}, left : SUBSET User,
              ptr : Conn \cup {NoConn}]

Unpointed(x) == x.at = "loop" /\ x.ptr = NoConn

(* An announcement starts one notifier, without a pointer. *)
LEMMA Announced ==
  ASSUME TypeOK, NEW c \in Conn, NEW event \in {"join", "leave"},
         Announce(c, event)
  PROVE  /\ push' \in [Pusher -> PushState]
         /\ \A d \in Conn : push'[d] = push[d]
         /\ \A p \in Pusher : push'[p] = push[p] \/ Unpointed(push'[p])
<1>1. PICK users \in {CoMember[Owner[c]], {}} :
        push' = [push EXCEPT ![<<c, event>>] = Reach(users)]
  BY DEF Announce
<1>2. Reach(users) \in PushState /\ Unpointed(Reach(users))
  BY HubAssumption DEF Reach, PushState, Unpointed
<1>3. <<c, event>> \in Notifier
  BY DEF Notifier
<1>4. <<c, event>> \in Pusher /\ \A d \in Conn : d # <<c, event>> /\ d \in Pusher
  BY <1>3, HubAssumption DEF Pusher, Notifier
<1>5. push \in [Pusher -> PushState]
  BY DEF TypeOK, PushState
<1>6. push' \in [Pusher -> PushState]
  BY <1>1, <1>2, <1>5
<1>7. \A p \in Pusher : push'[p] = IF p = <<c, event>> THEN Reach(users) ELSE push[p]
  BY <1>1, <1>5
<1>8. QED
  BY <1>2, <1>4, <1>6, <1>7

(* Steps that only start pushes without a pointer keep PushInSync; steps   *)
(* that also bring no connection back to before its registration keep      *)
(* RefusedIsSilent.                                                        *)
LEMMA SyncKept ==
  ASSUME PushInSync,
         \A d \in Conn : push'[d] = push[d],
         \A d \in Conn : handler'[d] = "push" <=> handler[d] = "push",
         \A p \in Pusher : push'[p] = push[p] \/ Unpointed(push'[p]),
         \A d \in Conn : writer'[d] = "write" => hand'[d] # <<>>
  PROVE  PushInSync'
<1>1. \A d \in Conn : handler'[d] = "push" <=> push'[d].at # "off"
  BY DEF PushInSync
<1>2. \A p \in Pusher : push'[p].at = "send" <=> push'[p].ptr \in Conn
  BY HubAssumption DEF PushInSync, Unpointed
<1>3. QED
  BY <1>1, <1>2 DEF PushInSync

Early == {"idle", "upgraded", "refused"}

LEMMA SilentKept ==
  ASSUME RefusedIsSilent,
         \A p \in Pusher : push'[p] = push[p] \/ Unpointed(push'[p]),
         \A d \in Conn : handler'[d] \in Early =>
           /\ handler[d] \in Early
           /\ writer'[d] = writer[d]
           /\ sendq'[d] = sendq[d]
  PROVE  RefusedIsSilent'
<1>1. \A p \in Pusher : push'[p].ptr = push[p].ptr \/ push'[p].ptr = NoConn
  BY DEF Unpointed
<1>2. \A d \in Conn : handler'[d] \in Early =>
        writer'[d] = "none" /\ sendq'[d] = <<>>
  BY DEF RefusedIsSilent, Early
<1>3. ASSUME NEW d \in Conn, handler'[d] \in Early, NEW p \in Pusher
      PROVE  push'[p].ptr # d
  <2>1. push[p].ptr # d /\ NoConn # d
    BY <1>3, HubAssumption DEF RefusedIsSilent, Early
  <2>2. QED
    BY <2>1, <1>1
<1>4. QED
  BY <1>2, <1>3 DEF RefusedIsSilent, Early

-----------------------------------------------------------------------------
LEMMA TypeStep == TypeOK /\ PushInSync /\ [Next]_vars => TypeOK'
<1> SUFFICES ASSUME TypeOK, PushInSync, [Next]_vars PROVE TypeOK'
  OBVIOUS
<1> USE HubAssumption
<1>1. CASE UNCHANGED vars
  BY <1>1 DEF TypeOK, vars
<1>2. ASSUME NEW c \in Conn, Upgrade(c) PROVE TypeOK'
  BY <1>2 DEF TypeOK, Upgrade
<1>3. ASSUME NEW c \in Conn, ClientGone(c) PROVE TypeOK'
  BY <1>3 DEF TypeOK, ClientGone
<1>4. ASSUME NEW c \in Conn, AddClient(c) PROVE TypeOK'
  <2>1. push' \in [Pusher -> PushState]
    BY <1>4, Announced DEF AddClient
  <2>2. QED
    BY <1>4, <2>1 DEF TypeOK, AddClient, PushState
<1>5. ASSUME NEW c \in Conn, RefuseClient(c) PROVE TypeOK'
  BY <1>5 DEF TypeOK, RefuseClient
<1>6. ASSUME NEW c \in Conn, RemoveClient(c) PROVE TypeOK'
  <2>1. push' \in [Pusher -> PushState]
    BY <1>6, Announced DEF RemoveClient
  <2>2. QED
    BY <1>6, <2>1 DEF TypeOK, RemoveClient, PushState
<1>7. ASSUME NEW c \in Conn, NEW rpc \in Rpc, ReadFrame(c, rpc) PROVE TypeOK'
  <2>1. /\ handler' \in [Conn -> States]
        /\ asked' \in [Conn -> Nat]
        /\ echoRead' \in [Conn -> Nat]
    BY <1>7 DEF TypeOK, ReadFrame, AllRpc, States
  <2>2. push' \in [Pusher -> PushState]
    <3>1. push \in [Pusher -> PushState]
      BY DEF TypeOK, PushState
    <3>2. CASE rpc = "push"
      <4>1. PICK users \in SUBSET User :
              push' = [push EXCEPT ![c] = Reach(users)]
        BY <1>7, <3>2 DEF ReadFrame
      <4>2. Reach(users) \in PushState
        BY DEF Reach, PushState
      <4>3. QED
        BY <4>1, <4>2, <3>1
    <3>3. CASE rpc # "push"
      BY <1>7, <3>1, <3>3 DEF ReadFrame
    <3>4. QED
      BY <3>2, <3>3
  <2>3. QED
    BY <1>7, <2>1, <2>2 DEF TypeOK, ReadFrame, States, PushState
<1>8. ASSUME NEW c \in Conn, EchoSend(c) \/ EchoPark(c) PROVE TypeOK'
  <2>1. CASE EchoSend(c)
    <3>1. sendq' = [sendq EXCEPT ![c] = Append(sendq[c], echoRead[c])]
      BY <2>1 DEF EchoSend
    <3>2. /\ Append(sendq[c], echoRead[c]) \in Seq(Nat)
          /\ Len(Append(sendq[c], echoRead[c])) <= SendCap
      BY <2>1 DEF TypeOK, EchoSend, Message
    <3>3. /\ sendq' \in [Conn -> Seq(Nat)]
          /\ \A d \in Conn : Len(sendq'[d]) <= SendCap
      BY <3>1, <3>2 DEF TypeOK, Message
    <3>4. handler' \in [Conn -> States]
      BY <2>1 DEF TypeOK, EchoSend, States
    <3>5. UNCHANGED <<clientMap, writer, hand, sock, asked, echoRead, echoed, push>>
      BY <2>1 DEF EchoSend
    <3>6. QED
      BY <3>3, <3>4, <3>5 DEF TypeOK, Message, States
  <2>2. CASE EchoPark(c)
    BY <2>2 DEF TypeOK, EchoPark
  <2>3. QED
    BY <1>8, <2>1, <2>2
<1>9. ASSUME NEW c \in Conn, ReadError(c) PROVE TypeOK'
  BY <1>9 DEF TypeOK, ReadError
<1>10. ASSUME NEW c \in Conn, WriterTake(c) PROVE TypeOK'
  <2>1. /\ sendq[c] \in Seq(Nat) /\ sendq[c] # <<>> /\ echoRead[c] \in Nat
    BY <1>10 DEF TypeOK, WriterTake, Message
  <2>2. /\ Head(sendq[c]) \in Nat /\ Tail(sendq[c]) \in Seq(Nat)
        /\ Append(Tail(sendq[c]), echoRead[c]) \in Seq(Nat)
        /\ Len(Append(Tail(sendq[c]), echoRead[c])) = Len(sendq[c])
        /\ Len(Tail(sendq[c])) <= Len(sendq[c])
    BY <2>1
  <2>3. hand' \in [Conn -> Seq(Nat)]
    <3>1. hand' = [hand EXCEPT ![c] = <<Head(sendq[c])>>]
      BY <1>10 DEF WriterTake
    <3>2. <<Head(sendq[c])>> \in Seq(Nat)
      BY <2>2
    <3>3. QED
      BY <3>1, <3>2 DEF TypeOK, Message
  <2>4. /\ sendq' \in [Conn -> Seq(Nat)] /\ handler' \in [Conn -> States]
        /\ \A d \in Conn : Len(sendq'[d]) <= Len(sendq[d])
    <3>1. CASE handler[c] = "parked"
      <4>1. /\ handler' = [handler EXCEPT ![c] = "reading"]
            /\ sendq' = [sendq EXCEPT ![c] = Append(Tail(sendq[c]), echoRead[c])]
        BY <1>10, <3>1 DEF WriterTake
      <4>2. sendq \in [Conn -> Seq(Nat)] /\ handler \in [Conn -> States]
        BY DEF TypeOK, States, Message
      <4>3. \A d \in Conn : Len(sendq[d]) \in Nat
        BY <4>2
      <4>4. QED
        BY <4>1, <4>2, <4>3, <2>2 DEF States
    <3>2. CASE handler[c] # "parked"
      <4>1. handler' = handler /\ sendq' = [sendq EXCEPT ![c] = Tail(sendq[c])]
        BY <1>10, <3>2 DEF WriterTake
      <4>2. sendq \in [Conn -> Seq(Nat)] /\ handler \in [Conn -> States]
        BY DEF TypeOK, States, Message
      <4>3. \A d \in Conn : Len(sendq[d]) \in Nat
        BY <4>2
      <4>4. QED
        BY <4>1, <4>2, <4>3, <2>2
    <3>3. QED
      BY <3>1, <3>2
  <2>5. writer' \in [Conn -> {"none", "select", "write", "exited"}]
    <3>1. writer' = [writer EXCEPT ![c] = "write"]
      BY <1>10 DEF WriterTake
    <3>2. QED
      BY <3>1 DEF TypeOK
  <2>6. UNCHANGED <<clientMap, sock, asked, echoRead, echoed, push>>
    BY <1>10 DEF WriterTake
  <2>7. \A d \in Conn : Len(sendq'[d]) <= SendCap
    BY <2>4 DEF TypeOK, Message
  <2>8. QED
    BY <2>3, <2>4, <2>5, <2>6, <2>7 DEF TypeOK, Message, States
<1>11. ASSUME NEW c \in Conn, WriteOk(c) PROVE TypeOK'
  <2>1. hand[c] \in Seq(Nat) /\ hand[c] # <<>>
    BY <1>11 DEF TypeOK, WriteOk, Message, PushInSync
  <2>2. Head(hand[c]) \in Nat
    BY <2>1
  <2>3. QED
    BY <1>11, <2>2 DEF TypeOK, WriteOk, Message
<1>12. ASSUME NEW c \in Conn, WriterExit(c) PROVE TypeOK'
  BY <1>12 DEF TypeOK, WriterExit
<1>13. ASSUME NEW p \in Pusher, NEW u \in User, Lookup(p, u) PROVE TypeOK'
  <2>1. push' \in [Pusher -> [at : {"off", "loop", "send"},
                              left : SUBSET User, ptr : Conn \cup {NoConn}]]
    BY <1>13 DEF TypeOK, Lookup
  <2>2. QED
    BY <1>13, <2>1 DEF TypeOK, Lookup, connVars
<1>14. ASSUME NEW p \in Pusher, TrySend(p) PROVE TypeOK'
  <2>1. push[p].ptr \in Conn
    BY <1>14 DEF TrySend, PushInSync
  <2>2. sendq' \in [Conn -> Seq(Message)]
    BY <1>14, <2>1 DEF TypeOK, TrySend, Message, Note
  <2>3. push' \in [Pusher -> [at : {"off", "loop", "send"},
                              left : SUBSET User, ptr : Conn \cup {NoConn}]]
    BY <1>14 DEF TypeOK, TrySend, Reach
  <2>4. \A d \in Conn : Len(sendq'[d]) <= SendCap
    BY <1>14, <2>1 DEF TypeOK, TrySend, Message, Note
  <2>5. UNCHANGED <<clientMap, connVars>>
    BY <1>14 DEF TrySend
  <2>6. QED
    BY <2>2, <2>3, <2>4, <2>5 DEF TypeOK, connVars
<1>15. ASSUME NEW p \in Pusher, PushEnd(p) PROVE TypeOK'
  BY <1>15 DEF TypeOK, PushEnd, Idle
<1>16. ASSUME NEW q \in Single, NEW u \in User, PushOne(q, u) PROVE TypeOK'
  BY <1>16 DEF TypeOK, PushOne, connVars, Reach, Pusher
<1>17. QED
  BY <1>1, <1>2, <1>3, <1>4, <1>5, <1>6, <1>7, <1>8, <1>9, <1>10, <1>11, <1>12,
     <1>13, <1>14, <1>15, <1>16 DEF Next, Handler, Writer, Push

-----------------------------------------------------------------------------
LEMMA SyncStep == TypeOK /\ PushInSync /\ [Next]_vars => PushInSync'
<1> SUFFICES ASSUME TypeOK, PushInSync, [Next]_vars PROVE PushInSync'
  OBVIOUS
<1> USE HubAssumption DEF TypeOK, PushInSync
<1>1. CASE UNCHANGED vars
  BY <1>1 DEF vars
<1>2. ASSUME NEW c \in Conn, Upgrade(c) PROVE PushInSync'
  BY <1>2 DEF Upgrade
<1>3. ASSUME NEW c \in Conn, ClientGone(c) PROVE PushInSync'
  BY <1>3 DEF ClientGone
<1>4. ASSUME NEW c \in Conn, AddClient(c) PROVE PushInSync'
  <2>1. Announce(c, "join")
    BY <1>4 DEF AddClient
  <2>2. \A d \in Conn : handler'[d] = "push" <=> handler[d] = "push"
    BY <1>4 DEF AddClient
  <2>3. \A d \in Conn : writer'[d] = "write" => hand'[d] # <<>>
    BY <1>4 DEF AddClient
  <2>4. QED
    BY <2>1, <2>2, <2>3, Announced, SyncKept
<1>5. ASSUME NEW c \in Conn, RefuseClient(c) PROVE PushInSync'
  <2>1. \A d \in Conn : handler'[d] = "push" <=> handler[d] = "push"
    BY <1>5 DEF RefuseClient
  <2>2. UNCHANGED <<push, writer, hand>>
    BY <1>5 DEF RefuseClient
  <2>3. QED
    BY <2>1, <2>2, SyncKept
<1>6. ASSUME NEW c \in Conn, RemoveClient(c) PROVE PushInSync'
  <2>1. Announce(c, "leave")
    BY <1>6 DEF RemoveClient
  <2>2. \A d \in Conn : handler'[d] = "push" <=> handler[d] = "push"
    BY <1>6 DEF RemoveClient
  <2>3. \A d \in Conn : writer'[d] = "write" => hand'[d] # <<>>
    BY <1>6 DEF RemoveClient
  <2>4. QED
    BY <2>1, <2>2, <2>3, Announced, SyncKept
<1>7. ASSUME NEW c \in Conn, NEW rpc \in Rpc, ReadFrame(c, rpc) PROVE PushInSync'
  <2>1. CASE rpc = "push"
    <3>1. PICK users \in SUBSET User :
            push' = [push EXCEPT ![c] = Reach(users)]
      BY <1>7, <2>1 DEF ReadFrame
    <3>2. handler' = [handler EXCEPT ![c] = "push"] /\ UNCHANGED <<writer, hand>>
      BY <1>7, <2>1 DEF ReadFrame
    <3>3. \A d \in Conn : handler'[d] = "push" <=> push'[d].at # "off"
      BY <3>1, <3>2 DEF Reach, Pusher
    <3>4. \A p \in Pusher : push'[p].at = "send" <=> push'[p].ptr \in Conn
      BY <3>1 DEF Reach
    <3>5. QED
      BY <3>2, <3>3, <3>4
  <2>2. CASE rpc # "push"
    BY <1>7, <2>2 DEF ReadFrame, AllRpc
  <2>3. QED
    BY <2>1, <2>2
<1>8. ASSUME NEW c \in Conn, EchoSend(c) \/ EchoPark(c) PROVE PushInSync'
  BY <1>8 DEF EchoSend, EchoPark
<1>9. ASSUME NEW c \in Conn, ReadError(c) PROVE PushInSync'
  BY <1>9 DEF ReadError
<1>10. ASSUME NEW c \in Conn, WriterTake(c) PROVE PushInSync'
  BY <1>10 DEF WriterTake
<1>11. ASSUME NEW c \in Conn, WriteOk(c) PROVE PushInSync'
  BY <1>11 DEF WriteOk
<1>12. ASSUME NEW c \in Conn, WriterExit(c) PROVE PushInSync'
  <2>1. /\ writer' = [writer EXCEPT ![c] = "exited"]
        /\ hand' = [hand EXCEPT ![c] = <<>>]
        /\ UNCHANGED <<handler, push>>
    BY <1>12 DEF WriterExit
  <2>2. \A d \in Conn : writer'[d] = "write" => hand'[d] # <<>>
    BY <2>1
  <2>3. QED
    BY <2>1, <2>2, SyncKept
<1>13. ASSUME NEW p \in Pusher, NEW u \in User, Lookup(p, u) PROVE PushInSync'
  BY <1>13 DEF Lookup, connVars, Pusher
<1>14. ASSUME NEW p \in Pusher, TrySend(p) PROVE PushInSync'
  <2>1. /\ push[p].at = "send"
        /\ push' = [push EXCEPT ![p] = Reach(push[p].left)]
        /\ UNCHANGED <<handler, writer, hand>>
    BY <1>14 DEF TrySend, connVars
  <2>2. \A d \in Conn : push'[d].at # "off" <=> push[d].at # "off"
    BY <2>1 DEF Reach, Pusher
  <2>3. \A r \in Pusher : push'[r].at = "send" <=> push'[r].ptr \in Conn
    BY <2>1 DEF Reach
  <2>4. QED
    BY <2>1, <2>2, <2>3
<1>15. ASSUME NEW p \in Pusher, PushEnd(p) PROVE PushInSync'
  BY <1>15 DEF PushEnd, Idle, Pusher
<1>16. ASSUME NEW q \in Single, NEW u \in User, PushOne(q, u) PROVE PushInSync'
  BY <1>16 DEF PushOne, connVars, Reach, Pusher
<1>17. QED
  BY <1>1, <1>2, <1>3, <1>4, <1>5, <1>6, <1>7, <1>8, <1>9, <1>10, <1>11, <1>12,
     <1>13, <1>14, <1>15, <1>16 DEF Next, Handler, Writer, Push

(* Only addClient and removeClient touch the registry; a handler in        *)
(* between moves among the registered states.                              *)
LEMMA RegistryStep ==
  TypeOK /\ PushInSync /\ RegistryExact /\ [Next]_vars => RegistryExact'
<1> SUFFICES ASSUME TypeOK, PushInSync, RegistryExact, [Next]_vars
             PROVE RegistryExact'
  OBVIOUS
<1> USE HubAssumption DEF TypeOK, PushInSync, RegistryExact, Registered
<1>1. CASE UNCHANGED vars
  BY <1>1 DEF vars
<1>2. ASSUME NEW c \in Conn, Upgrade(c) PROVE RegistryExact'
  BY <1>2 DEF Upgrade
<1>3. ASSUME NEW c \in Conn, ClientGone(c) PROVE RegistryExact'
  BY <1>3 DEF ClientGone
<1>4. ASSUME NEW c \in Conn, AddClient(c) PROVE RegistryExact'
  BY <1>4 DEF AddClient
<1>5. ASSUME NEW c \in Conn, RefuseClient(c) PROVE RegistryExact'
  <2>1. \A d \in Conn : Registered(d)' <=> Registered(d)
    BY <1>5 DEF RefuseClient
  <2>2. UNCHANGED clientMap
    BY <1>5 DEF RefuseClient
  <2>3. QED
    BY <2>1, <2>2
<1>6. ASSUME NEW c \in Conn, RemoveClient(c) PROVE RegistryExact'
  BY <1>6 DEF RemoveClient
<1>7. ASSUME NEW c \in Conn, NEW rpc \in Rpc, ReadFrame(c, rpc) PROVE RegistryExact'
  BY <1>7 DEF ReadFrame, AllRpc
<1>8. ASSUME NEW c \in Conn, EchoSend(c) \/ EchoPark(c) PROVE RegistryExact'
  BY <1>8 DEF EchoSend, EchoPark
<1>9. ASSUME NEW c \in Conn, ReadError(c) PROVE RegistryExact'
  BY <1>9 DEF ReadError
<1>10. ASSUME NEW c \in Conn, Writer(c) PROVE RegistryExact'
  BY <1>10 DEF Writer, WriterTake, WriteOk, WriterExit
<1>11. ASSUME NEW p \in Pusher, NEW u \in User, Lookup(p, u) PROVE RegistryExact'
  BY <1>11 DEF Lookup, connVars
<1>12. ASSUME NEW p \in Pusher, TrySend(p) PROVE RegistryExact'
  BY <1>12 DEF TrySend, connVars
<1>13. ASSUME NEW p \in Pusher, PushEnd(p) PROVE RegistryExact'
  BY <1>13 DEF PushEnd
<1>14. ASSUME NEW q \in Single, NEW u \in User, PushOne(q, u)
       PROVE RegistryExact'
  BY <1>14 DEF PushOne, connVars
<1>15. QED
  BY <1>1, <1>2, <1>3, <1>4, <1>5, <1>6, <1>7, <1>8, <1>9, <1>10, <1>11, <1>12,
     <1>13, <1>14 DEF Next, Handler, Push

(* A pointer is only ever taken from the registry, which holds no refused  *)
(* connection, and no connection returns to being refused.                 *)
LEMMA SilentStep == IInv /\ [Next]_vars => RefusedIsSilent'
<1> SUFFICES ASSUME IInv, [Next]_vars PROVE RefusedIsSilent'
  OBVIOUS
<1> USE HubAssumption DEF IInv, TypeOK, RefusedIsSilent
<1>1. CASE UNCHANGED vars
  BY <1>1 DEF vars
<1>2. ASSUME NEW c \in Conn, Upgrade(c) PROVE RefusedIsSilent'
  BY <1>2 DEF Upgrade
<1>3. ASSUME NEW c \in Conn, ClientGone(c) PROVE RefusedIsSilent'
  BY <1>3 DEF ClientGone
<1>4. ASSUME NEW c \in Conn, AddClient(c) PROVE RefusedIsSilent'
  <2>1. Announce(c, "join")
    BY <1>4 DEF AddClient
  <2>2. \A d \in Conn : handler'[d] \in Early =>
          handler[d] \in Early /\ writer'[d] = writer[d] /\ sendq'[d] = sendq[d]
    BY <1>4 DEF AddClient, Early
  <2>3. QED
    BY <2>1, <2>2, Announced, SilentKept
<1>5. ASSUME NEW c \in Conn, RefuseClient(c) PROVE RefusedIsSilent'
  BY <1>5 DEF RefuseClient
<1>6. ASSUME NEW c \in Conn, RemoveClient(c) PROVE RefusedIsSilent'
  <2>1. Announce(c, "leave")
    BY <1>6 DEF RemoveClient
  <2>2. \A d \in Conn : handler'[d] \in Early =>
          handler[d] \in Early /\ writer'[d] = writer[d] /\ sendq'[d] = sendq[d]
    BY <1>6 DEF RemoveClient, Early
  <2>3. QED
    BY <2>1, <2>2, Announced, SilentKept
<1>7. ASSUME NEW c \in Conn, NEW rpc \in Rpc, ReadFrame(c, rpc)
      PROVE RefusedIsSilent'
  <2>1. \A p \in Pusher : push'[p] = push[p] \/ Unpointed(push'[p])
    <3>1. CASE rpc = "push"
      <4>1. PICK users \in SUBSET User :
              push' = [push EXCEPT ![c] = Reach(users)]
        BY <1>7, <3>1 DEF ReadFrame
      <4>2. QED
        BY <4>1 DEF Reach, Unpointed
    <3>2. CASE rpc # "push"
      BY <1>7, <3>2 DEF ReadFrame
    <3>3. QED
      BY <3>1, <3>2
  <2>2. \A d \in Conn : handler'[d] \in Early =>
          handler[d] \in Early /\ writer'[d] = writer[d] /\ sendq'[d] = sendq[d]
    BY <1>7 DEF ReadFrame, AllRpc, Early
  <2>3. QED
    BY <2>1, <2>2, SilentKept
<1>8. ASSUME NEW c \in Conn, EchoSend(c) \/ EchoPark(c) PROVE RefusedIsSilent'
  <2>1. \A d \in Conn : handler'[d] \in Early =>
          handler[d] \in Early /\ writer'[d] = writer[d] /\ sendq'[d] = sendq[d]
    BY <1>8 DEF EchoSend, EchoPark, Early
  <2>2. UNCHANGED push
    BY <1>8 DEF EchoSend, EchoPark
  <2>3. QED
    BY <2>1, <2>2, SilentKept
<1>9. ASSUME NEW c \in Conn, ReadError(c) PROVE RefusedIsSilent'
  BY <1>9 DEF ReadError
<1>10. ASSUME NEW c \in Conn, Writer(c) PROVE RefusedIsSilent'
  <2>1. writer[c] # "none" /\ UNCHANGED push
    BY <1>10 DEF Writer, WriterTake, WriteOk, WriterExit
  <2>2. handler[c] \notin Early
    BY <2>1 DEF Early
  <2>3. \A d \in Conn : d # c =>
          handler'[d] = handler[d] /\ writer'[d] = writer[d] /\ sendq'[d] = sendq[d]
    BY <1>10 DEF Writer, WriterTake, WriteOk, WriterExit
  <2>4. handler'[c] = handler[c] \/ handler'[c] = "reading"
    BY <1>10 DEF Writer, WriterTake, WriteOk, WriterExit
  <2>5. handler'[c] \notin Early
    BY <2>2, <2>4 DEF Early
  <2>6. QED
    BY <2>1, <2>3, <2>5, SilentKept
<1>11. ASSUME NEW p \in Pusher, NEW u \in User, Lookup(p, u)
       PROVE RefusedIsSilent'
  <2>1. \A d \in Conn : clientMap[u] = d =>
          ~(handler[d] \in {"idle", "upgraded", "refused"})
    BY DEF RegistryExact, Registered
  <2>2. UNCHANGED <<handler, writer, sendq>>
    BY <1>11 DEF Lookup, connVars
  <2>3. \A r \in Pusher : push'[r].ptr = push[r].ptr \/ push'[r].ptr = clientMap[u]
    BY <1>11 DEF Lookup
  <2>4. ASSUME NEW d \in Conn, handler'[d] \in Early, NEW r \in Pusher
        PROVE  push'[r].ptr # d
    BY <2>1, <2>2, <2>3, <2>4 DEF Early
  <2>5. QED
    BY <2>2, <2>4 DEF Early
<1>12. ASSUME NEW p \in Pusher, TrySend(p) PROVE RefusedIsSilent'
  <2>1. /\ push[p].ptr \in Conn
        /\ ~(handler[push[p].ptr] \in {"idle", "upgraded", "refused"})
    BY <1>12 DEF TrySend, PushInSync
  <2>2. UNCHANGED <<handler, writer>>
    BY <1>12 DEF TrySend, connVars
  <2>3. \A d \in Conn : d # push[p].ptr => sendq'[d] = sendq[d]
    BY <1>12 DEF TrySend
  <2>4. \A r \in Pusher : push'[r].ptr = push[r].ptr \/ push'[r].ptr = NoConn
    BY <1>12 DEF TrySend, Reach
  <2>5. \A d \in Conn : handler'[d] \in Early => d # push[p].ptr
    BY <2>1, <2>2 DEF Early
  <2>6. \A d \in Conn : handler'[d] \in Early => writer'[d] = "none" /\ sendq'[d] = <<>>
    BY <2>2, <2>3, <2>5 DEF Early
  <2>7. ASSUME NEW d \in Conn, handler'[d] \in Early, NEW r \in Pusher
        PROVE  push'[r].ptr # d
    <3>1. handler[d] \in Early
      BY <2>2, <2>7
    <3>2. push[r].ptr # d
      BY <3>1 DEF Early
    <3>3. NoConn # d
      OBVIOUS
    <3>4. QED
      BY <2>4, <3>2, <3>3
  <2>8. ASSUME NEW d \in Conn, handler'[d] \in {"idle", "upgraded", "refused"}
        PROVE  writer'[d] = "none" /\ sendq'[d] = <<>> /\ \A r \in Pusher : push'[r].ptr # d
    <3>1. handler'[d] \in Early
      BY <2>8 DEF Early
    <3>2. QED
      BY <2>6, <2>7, <3>1
  <2>9. QED
    BY <2>8
<1>13. ASSUME NEW p \in Pusher, PushEnd(p) PROVE RefusedIsSilent'
  BY <1>13 DEF PushEnd, Idle
<1>14. ASSUME NEW q \in Single, NEW u \in User, PushOne(q, u)
       PROVE RefusedIsSilent'
  BY <1>14 DEF PushOne, connVars, Reach, Pusher
<1>15. QED
  BY <1>1, <1>2, <1>3, <1>4, <1>5, <1>6, <1>7, <1>8, <1>9, <1>10, <1>11, <1>12,
     <1>13, <1>14 DEF Next, Handler, Push

LEMMA IInvStep == IInv /\ [Next]_vars => IInv'
  BY TypeStep, SyncStep, RegistryStep, SilentStep DEF IInv

LEMMA Invariance == Spec => []IInv
<1>1. Init => IInv
  BY InitIInv
<1>2. IInv /\ [Next]_vars => IInv'
  BY IInvStep
<1>3. QED
  BY <1>1, <1>2, PTL DEF Spec

-----------------------------------------------------------------------------
(* For any number of connections, users and pushing goroutines: the state  *)
(* of the hub is well typed,                                               *)
THEOREM TypeCorrect == Spec => []TypeOK
  BY Invariance, PTL DEF IInv

(* the registry holds a connection exactly while its handler is between    *)
(* addClient and removeClient, so that a user has one reading handler,     *)
THEOREM RegistryIsExact == Spec => []RegistryExact
  BY Invariance, PTL DEF IInv

(* nothing is ever queued for a connection that was turned away,           *)
THEOREM RefusedStaysSilent == Spec => []RefusedIsSilent
  BY Invariance, PTL DEF IInv

LEMMA PresenceStep == IInv /\ [Next]_vars => [P!PresenceNext]_P!presenceVars
<1> SUFFICES ASSUME IInv, [Next]_vars PROVE [P!PresenceNext]_P!presenceVars
  OBVIOUS
<1> USE HubAssumption DEF IInv, TypeOK
<1>1. CASE UNCHANGED vars
  BY <1>1 DEF vars, P!presenceVars, Spent, Registered
<1>2. ASSUME NEW c \in Conn, Upgrade(c) \/ ClientGone(c)
      PROVE UNCHANGED P!presenceVars
  BY <1>2 DEF Upgrade, ClientGone, P!presenceVars, Spent, Registered
<1>3. ASSUME NEW c \in Conn, AddClient(c) PROVE P!Open(c)
  <2>1. c \notin Spent /\ Spent' = Spent \cup {c}
    BY <1>3 DEF AddClient, Spent, Registered
  <2>2. QED
    BY <1>3, <2>1 DEF AddClient, P!Open
<1>4. ASSUME NEW c \in Conn, RefuseClient(c) PROVE UNCHANGED P!presenceVars
  BY <1>4 DEF RefuseClient, P!presenceVars, Spent, Registered
<1>5. ASSUME NEW c \in Conn, RemoveClient(c) PROVE P!Close(c)
  <2>1. clientMap[Owner[c]] = c
    BY <1>5 DEF RemoveClient, RegistryExact, Registered
  <2>2. Spent' = Spent
    BY <1>5 DEF RemoveClient, Spent, Registered
  <2>3. QED
    BY <1>5, <2>1, <2>2 DEF RemoveClient, P!Close
<1>6. ASSUME NEW c \in Conn, NEW rpc \in Rpc, ReadFrame(c, rpc)
      PROVE UNCHANGED P!presenceVars
  BY <1>6 DEF ReadFrame, AllRpc, P!presenceVars, Spent, Registered
<1>7. ASSUME NEW c \in Conn, EchoSend(c) \/ EchoPark(c) PROVE UNCHANGED P!presenceVars
  <2>1. CASE EchoSend(c)
    BY <2>1 DEF EchoSend, P!presenceVars, Spent, Registered
  <2>2. CASE EchoPark(c)
    BY <2>2 DEF EchoPark, P!presenceVars, Spent, Registered
  <2>3. QED
    BY <1>7, <2>1, <2>2
<1>8. ASSUME NEW c \in Conn, ReadError(c) PROVE UNCHANGED P!presenceVars
  BY <1>8 DEF ReadError, P!presenceVars, Spent, Registered
<1>9. ASSUME NEW c \in Conn, Writer(c) PROVE UNCHANGED P!presenceVars
  BY <1>9 DEF Writer, WriterTake, WriteOk, WriterExit,
              P!presenceVars, Spent, Registered
<1>10. ASSUME NEW p \in Pusher, NEW u \in User, Lookup(p, u)
       PROVE UNCHANGED P!presenceVars
  BY <1>10 DEF Lookup, connVars, P!presenceVars, Spent, Registered
<1>11. ASSUME NEW p \in Pusher, TrySend(p) PROVE UNCHANGED P!presenceVars
  BY <1>11 DEF TrySend, connVars, P!presenceVars, Spent, Registered
<1>12. ASSUME NEW p \in Pusher, PushEnd(p) PROVE UNCHANGED P!presenceVars
  BY <1>12 DEF PushEnd, PushInSync, P!presenceVars, Spent, Registered
<1>13. ASSUME NEW q \in Single, NEW u \in User, PushOne(q, u)
       PROVE UNCHANGED P!presenceVars
  BY <1>13 DEF PushOne, connVars, P!presenceVars, Spent, Registered
<1>14. QED
  BY <1>1, <1>2, <1>3, <1>4, <1>5, <1>6, <1>7, <1>8, <1>9, <1>10, <1>11, <1>12,
     <1>13 DEF Next, Handler, Push, P!PresenceNext

(* and the hub implements Presence: every step of its goroutines opens a   *)
(* session, ends one, or leaves the sessions alone.                        *)
THEOREM HubImplementsPresence == Spec => ImplementsPresence
<1>1. Init => P!PresenceInit
  BY DEF Init, P!PresenceInit, Spent, Registered
<1>2. IInv /\ [Next]_vars => [P!PresenceNext]_P!presenceVars
  BY PresenceStep
<1>3. QED
  BY <1>1, <1>2, Invariance, PTL DEF Spec, ImplementsPresence, P!PresenceSpec

-----------------------------------------------------------------------------
(* Echo answers. *)

(* A sequence of messages, element by element. *)
InBetween(w, lo, hi) ==
  /\ lo <= hi
  /\ \A i \in 1 .. Len(w) : w[i] # 0 => lo < w[i] /\ w[i] <= hi
  /\ \A n \in Nat : lo < n /\ n <= hi => \E i \in 1 .. Len(w) : w[i] = n
  /\ \A i, j \in 1 .. Len(w) : i < j /\ w[j] # 0 => w[i] < w[j]

(* The inductive invariant: one answer in the writer's hand while it       *)
(* writes, none otherwise; nothing asked before there is a writer.         *)
EchoInOrder(c) ==
  /\ writer[c] = "select" => hand[c] = <<>>
  /\ writer[c] = "write" => Len(hand[c]) = 1
  /\ writer[c] = "none" => handler[c] \in Early
  /\ handler[c] \in Early => hand[c] = <<>> /\ echoRead[c] = 0 /\ echoed[c] = 0
  /\ handler[c] \in {"echo", "parked"} => echoRead[c] > 0
  /\ writer[c] \in {"select", "write"} => InBetween(Waiting(c), echoed[c], Given(c))

EInv == IInv /\ \A c \in Conn : EchoInOrder(c)

-----------------------------------------------------------------------------
(* Sequences of messages. *)

LEMMA Element ==
  ASSUME NEW w \in Seq(Nat), NEW i \in 1 .. Len(w) PROVE w[i] \in Nat
OBVIOUS

LEMMA BetweenEmpty == InBetween(<<>>, 0, 0)
BY DEF InBetween

LEMMA AddNote ==
  ASSUME NEW w \in Seq(Nat), NEW lo \in Nat, NEW hi \in Int, InBetween(w, lo, hi)
  PROVE  InBetween(Append(w, 0), lo, hi)
<1>1. /\ Len(Append(w, 0)) = Len(w) + 1 /\ Append(w, 0)[Len(w) + 1] = 0
      /\ \A i \in 1 .. Len(w) : Append(w, 0)[i] = w[i]
  OBVIOUS
<1>2. \A i \in 1 .. Len(w) + 1 : i \in 1 .. Len(w) \/ i = Len(w) + 1
  OBVIOUS
<1>3. \A n \in Nat : lo < n /\ n <= hi => \E i \in 1 .. Len(w) + 1 : Append(w, 0)[i] = n
  BY <1>1 DEF InBetween
<1>4. QED
  BY <1>1, <1>2, <1>3 DEF InBetween

LEMMA AddEcho ==
  ASSUME NEW w \in Seq(Nat), NEW lo \in Nat, NEW e \in Nat \ {0}, InBetween(w, lo, e - 1)
  PROVE  InBetween(Append(w, e), lo, e)
<1>1. /\ Len(Append(w, e)) = Len(w) + 1 /\ Append(w, e)[Len(w) + 1] = e
      /\ \A i \in 1 .. Len(w) : Append(w, e)[i] = w[i]
  OBVIOUS
<1>2. \A i \in 1 .. Len(w) + 1 : i \in 1 .. Len(w) \/ i = Len(w) + 1
  OBVIOUS
<1>3. \A i \in 1 .. Len(w) : w[i] < e
  BY Element DEF InBetween
<1>4. ASSUME NEW n \in Nat, lo < n, n <= e
      PROVE  \E i \in 1 .. Len(w) + 1 : Append(w, e)[i] = n
  <2>1. CASE n = e
    BY <1>1, <2>1
  <2>2. CASE n # e
    <3>1. n <= e - 1
      BY <1>4, <2>2
    <3>2. PICK i \in 1 .. Len(w) : w[i] = n
      BY <1>4, <3>1 DEF InBetween
    <3>3. QED
      BY <1>1, <3>2
  <2>3. QED
    BY <2>1, <2>2
<1>5. \A i \in 1 .. Len(w) + 1 : Append(w, e)[i] # 0 =>
        lo < Append(w, e)[i] /\ Append(w, e)[i] <= e
  BY <1>1, <1>2, <1>3, Element DEF InBetween
<1>6. \A i, j \in 1 .. Len(w) + 1 : i < j /\ Append(w, e)[j] # 0 =>
        Append(w, e)[i] < Append(w, e)[j]
  BY <1>1, <1>2, <1>3 DEF InBetween
<1>7. lo <= e
  BY DEF InBetween
<1>8. QED
  BY <1>1, <1>4, <1>5, <1>6, <1>7 DEF InBetween

(* The first message is a note or the next echo answer. *)
LEMMA DropFirst ==
  ASSUME NEW w \in Seq(Nat), NEW lo \in Nat, NEW hi \in Int, w # <<>>, InBetween(w, lo, hi)
  PROVE  InBetween(Tail(w), IF Head(w) = 0 THEN lo ELSE Head(w), hi)
<1>1. /\ Len(Tail(w)) = Len(w) - 1 /\ Head(w) = w[1] /\ Head(w) \in Nat /\ Len(w) >= 1
      /\ \A i \in 1 .. Len(w) - 1 : Tail(w)[i] = w[i + 1] /\ i + 1 \in 1 .. Len(w)
  OBVIOUS
<1>2. \A i, j \in 1 .. Len(w) - 1 : i < j /\ Tail(w)[j] # 0 => Tail(w)[i] < Tail(w)[j]
  BY <1>1 DEF InBetween
<1>3. \A i \in 2 .. Len(w) : i - 1 \in 1 .. Len(w) - 1 /\ Tail(w)[i - 1] = w[i]
  BY <1>1
<1>4. CASE Head(w) = 0
  <2>1. \A i \in 1 .. Len(w) - 1 : Tail(w)[i] # 0 => lo < Tail(w)[i] /\ Tail(w)[i] <= hi
    BY <1>1 DEF InBetween
  <2>2. ASSUME NEW n \in Nat, lo < n, n <= hi
        PROVE  \E i \in 1 .. Len(w) - 1 : Tail(w)[i] = n
    <3>1. PICK i \in 1 .. Len(w) : w[i] = n
      BY <2>2 DEF InBetween
    <3>2. i \in 2 .. Len(w)
      BY <1>1, <1>4, <2>2, <3>1
    <3>3. QED
      BY <1>3, <3>1, <3>2
  <2>3. QED
    BY <1>1, <1>2, <1>4, <2>1, <2>2 DEF InBetween
<1>5. CASE Head(w) # 0
  <2>1. 1 \in 1 .. Len(w) /\ lo < Head(w) /\ Head(w) <= hi
    BY <1>1, <1>5 DEF InBetween
  <2>2. \A i \in 1 .. Len(w) - 1 : Tail(w)[i] # 0 => Head(w) < Tail(w)[i] /\ Tail(w)[i] <= hi
    BY <1>1, <2>1 DEF InBetween
  <2>3. ASSUME NEW n \in Nat, Head(w) < n, n <= hi
        PROVE  \E i \in 1 .. Len(w) - 1 : Tail(w)[i] = n
    <3>1. lo < n
      BY <1>1, <2>1, <2>3
    <3>2. PICK i \in 1 .. Len(w) : w[i] = n
      BY <2>3, <3>1 DEF InBetween
    <3>3. i \in 2 .. Len(w)
      BY <1>1, <2>3, <3>2
    <3>4. QED
      BY <1>3, <3>2, <3>3
  <2>4. QED
    BY <1>1, <1>2, <1>5, <2>1, <2>2, <2>3 DEF InBetween
<1>6. QED
  BY <1>4, <1>5

LEMMA ConcatFacts ==
  ASSUME NEW h \in Seq(Nat), NEW s \in Seq(Nat)
  PROVE  /\ h \o s \in Seq(Nat) /\ Len(h \o s) = Len(h) + Len(s)
         /\ \A i \in 1 .. Len(h) + Len(s) :
              (h \o s)[i] = IF i <= Len(h) THEN h[i] ELSE s[i - Len(h)]
OBVIOUS

LEMMA HandFirst ==
  ASSUME NEW h \in Seq(Nat), NEW s \in Seq(Nat), Len(h) = 1
  PROVE  /\ h \o s \in Seq(Nat) /\ h \o s # <<>> /\ Head(h \o s) = Head(h)
         /\ Tail(h \o s) = s
<1>1. /\ h \o s \in Seq(Nat) /\ Len(h \o s) = Len(h) + Len(s)
      /\ \A i \in 1 .. Len(h) + Len(s) :
           (h \o s)[i] = IF i <= Len(h) THEN h[i] ELSE s[i - Len(h)]
  BY ConcatFacts
<1>2. Tail(h \o s) \in Seq(Nat) /\ Len(Tail(h \o s)) = Len(s)
  BY <1>1
<1>3. \A i \in 1 .. Len(s) : Tail(h \o s)[i] = s[i]
  BY <1>1
<1>4. QED
  BY <1>1, <1>2, <1>3

LEMMA HeadTail ==
  ASSUME NEW s \in Seq(Nat), s # <<>>
  PROVE  /\ <<Head(s)>> \o Tail(s) = s /\ Tail(s) \in Seq(Nat) /\ Head(s) \in Nat
         /\ <<Head(s)>> \in Seq(Nat) /\ Len(<<Head(s)>>) = 1
OBVIOUS

LEMMA NoHand == ASSUME NEW s \in Seq(Nat) PROVE <<>> \o s = s /\ <<>> \in Seq(Nat)
OBVIOUS

LEMMA AppendLast ==
  ASSUME NEW h \in Seq(Nat), NEW s \in Seq(Nat), NEW n \in Nat
  PROVE  h \o Append(s, n) = Append(h \o s, n)
OBVIOUS

LEMMA BetweenIsLossless ==
  ASSUME NEW w \in Seq(Nat), NEW lo \in Nat, NEW hi \in Int, InBetween(w, lo, hi)
  PROVE  EchoesBetween(w, lo, hi)
<1>1. DOMAIN w = 1 .. Len(w)
  OBVIOUS
<1>2. {w[i] : i \in DOMAIN w} \ {0} \subseteq lo + 1 .. hi
  BY <1>1, Element DEF InBetween
<1>3. ASSUME NEW n \in lo + 1 .. hi PROVE n \in {w[i] : i \in DOMAIN w} \ {0}
  <2>1. n \in Nat /\ lo < n /\ n <= hi /\ n # 0
    OBVIOUS
  <2>2. QED
    BY <1>1, <2>1 DEF InBetween
<1>4. QED
  BY <1>1, <1>2, <1>3 DEF EchoesBetween, InBetween, Note

-----------------------------------------------------------------------------
(* The steps. *)

(* What a connection's echo answers depend on. *)
Untouched(c) ==
  /\ writer'[c] = writer[c] /\ hand'[c] = hand[c] /\ sendq'[c] = sendq[c]
  /\ echoRead'[c] = echoRead[c] /\ echoed'[c] = echoed[c]
  /\ handler'[c] \in {"echo", "parked"} <=> handler[c] \in {"echo", "parked"}
  /\ handler'[c] \in Early <=> handler[c] \in Early

LEMMA UntouchedStep ==
  ASSUME NEW c \in Conn, EchoInOrder(c), Untouched(c) PROVE EchoInOrder(c)'
BY DEF Untouched, EchoInOrder, Waiting, Given

LEMMA EchoTypes ==
  ASSUME IInv, NEW c \in Conn
  PROVE  /\ hand[c] \in Seq(Nat) /\ sendq[c] \in Seq(Nat) /\ Waiting(c) \in Seq(Nat)
         /\ echoRead[c] \in Nat /\ echoed[c] \in Nat /\ Given(c) \in Int
BY DEF IInv, TypeOK, Message, Waiting, Given

LEMMA HandlerStep ==
  ASSUME EInv, NEW c \in Conn, Upgrade(c) \/ ClientGone(c) \/ Handler(c), NEW d \in Conn
  PROVE  EchoInOrder(d)'
<1> USE DEF EInv, Early
<1>1. EchoInOrder(d) /\ EchoInOrder(c) /\ TypeOK
  BY DEF IInv
<1>2. CASE \/ Upgrade(c) \/ ClientGone(c) \/ RefuseClient(c) \/ RemoveClient(c)
           \/ EchoPark(c) \/ ReadError(c)
  <2>1. UNCHANGED <<writer, hand, sendq, echoRead, echoed>>
    BY <1>2 DEF Upgrade, ClientGone, RefuseClient, RemoveClient, EchoPark, ReadError
  <2>2. /\ handler'[d] \in {"echo", "parked"} <=> handler[d] \in {"echo", "parked"}
        /\ handler'[d] \in Early <=> handler[d] \in Early
    BY <1>1, <1>2 DEF Upgrade, ClientGone, RefuseClient, RemoveClient, EchoPark,
                      ReadError, TypeOK
  <2>3. QED
    BY <1>1, <2>1, <2>2, UntouchedStep DEF Untouched
<1>3. CASE AddClient(c)
  <2>1. CASE d = c
    <3>1. handler[c] \in Early
      BY <1>3 DEF AddClient
    <3>2. hand[c] = <<>> /\ echoRead[c] = 0 /\ echoed[c] = 0 /\ sendq[c] = <<>>
      BY <1>1, <3>1 DEF EchoInOrder, IInv, RefusedIsSilent
    <3>3. /\ writer'[c] = "select" /\ handler'[c] = "reading"
          /\ UNCHANGED <<hand, sendq, echoRead, echoed>>
      BY <1>1, <1>3 DEF AddClient, TypeOK
    <3>4. Waiting(c)' = <<>> /\ Given(c)' = 0 /\ echoed'[c] = 0
      BY <3>2, <3>3 DEF Waiting, Given
    <3>5. InBetween(Waiting(c), echoed[c], Given(c))'
      BY <3>4, BetweenEmpty DEF InBetween
    <3>6. QED
      BY <2>1, <3>2, <3>3, <3>5 DEF EchoInOrder
  <2>2. CASE d # c
    <3>1. Untouched(d)
      BY <1>1, <1>3, <2>2 DEF AddClient, TypeOK, Untouched
    <3>2. QED
      BY <1>1, <3>1, UntouchedStep
  <2>3. QED
    BY <2>1, <2>2
<1>4. CASE EchoSend(c)
  <2>1. CASE d = c
    <3>1. PICK e, w : e = echoRead[c] /\ w = Waiting(c)
      OBVIOUS
    <3>2. /\ handler[c] = "echo" /\ handler'[c] = "reading"
          /\ sendq'[c] = Append(sendq[c], e)
          /\ UNCHANGED <<writer, hand, echoRead, echoed>>
      BY <1>1, <1>4, <3>1 DEF EchoSend, TypeOK
    <3>3. /\ w \in Seq(Nat) /\ e \in Nat \ {0} /\ Given(c) = e - 1 /\ Given(c)' = e
      BY <1>1, <3>1, <3>2, EchoTypes DEF EchoInOrder, Given
    <3>4. Waiting(c)' = Append(w, e)
      <4>1. hand[c] \o Append(sendq[c], e) = Append(hand[c] \o sendq[c], e)
        BY <3>3, EchoTypes, AppendLast
      <4>2. Waiting(c)' = hand[c] \o Append(sendq[c], e)
        BY <3>2 DEF Waiting
      <4>3. w = hand[c] \o sendq[c]
        BY <3>1 DEF Waiting
      <4>4. QED
        BY <4>1, <4>2, <4>3
    <3>5. ASSUME writer[c] \in {"select", "write"}
          PROVE  InBetween(Waiting(c), echoed[c], Given(c))'
      <4>1. InBetween(w, echoed[c], e - 1)
        BY <1>1, <3>1, <3>3, <3>5 DEF EchoInOrder
      <4>2. InBetween(Append(w, e), echoed[c], e)
        BY <3>3, <4>1, EchoTypes, AddEcho
      <4>3. QED
        BY <3>2, <3>3, <3>4, <4>2 DEF InBetween
    <3>6. QED
      BY <1>1, <2>1, <3>2, <3>5 DEF EchoInOrder
  <2>2. CASE d # c
    <3>1. Untouched(d)
      BY <1>1, <1>4, <2>2 DEF EchoSend, TypeOK, Untouched
    <3>2. QED
      BY <1>1, <3>1, UntouchedStep
  <2>3. QED
    BY <2>1, <2>2
<1>5. ASSUME NEW rpc \in Rpc, ReadFrame(c, rpc) PROVE EchoInOrder(d)'
  <2>1. rpc \in {"quiet", "push", "echo"}
    BY HubAssumption DEF AllRpc
  <2>2. CASE d = c /\ rpc = "echo"
    <3>1. /\ handler[c] = "reading" /\ handler'[c] = "echo"
          /\ echoRead'[c] = echoRead[c] + 1
          /\ UNCHANGED <<writer, hand, sendq, echoed>>
      BY <1>1, <1>5, <2>2 DEF ReadFrame, TypeOK
    <3>2. Waiting(c)' = Waiting(c) /\ Given(c)' = Given(c) /\ echoRead'[c] > 0
      <4>1. echoRead[c] \in Nat
        BY EchoTypes
      <4>2. echoRead'[c] > 0
        BY <3>1, <4>1
      <4>3. Given(c) = echoRead[c]
        BY <3>1 DEF Given
      <4>4. Given(c)' = echoRead'[c] - 1
        BY <3>1 DEF Given
      <4>5. Given(c)' = Given(c)
        BY <3>1, <4>1, <4>3, <4>4
      <4>6. Waiting(c)' = Waiting(c)
        BY <3>1 DEF Waiting
      <4>7. QED
        BY <4>2, <4>5, <4>6
    <3>3. QED
      BY <1>1, <2>2, <3>1, <3>2 DEF EchoInOrder, InBetween
  <2>3. CASE ~(d = c /\ rpc = "echo")
    <3>1. Untouched(d)
      BY <1>1, <1>5, <2>1, <2>3 DEF ReadFrame, TypeOK, Untouched
    <3>2. QED
      BY <1>1, <3>1, UntouchedStep
  <2>4. QED
    BY <2>2, <2>3
<1>6. QED
  BY <1>2, <1>3, <1>4, <1>5 DEF Handler

LEMMA WriterStep ==
  ASSUME EInv, NEW c \in Conn, Writer(c), NEW d \in Conn
  PROVE  EchoInOrder(d)'
<1> USE DEF EInv, Early
<1>1. EchoInOrder(d) /\ EchoInOrder(c) /\ TypeOK
  BY DEF IInv
<1>2. handler[c] \notin Early
  BY DEF IInv, RefusedIsSilent, Writer, WriterTake, WriteOk, WriterExit
<1>3. CASE d # c
  <2>1. Untouched(d)
    BY <1>1, <1>3 DEF Writer, WriterTake, WriteOk, WriterExit, TypeOK, Untouched
  <2>2. QED
    BY <1>1, <2>1, UntouchedStep
<1>4. CASE d = c /\ WriterTake(c)
  <2>1. PICK e, s : e = echoRead[c] /\ s = sendq[c]
    OBVIOUS
  <2>2. /\ writer[c] = "select" /\ s # <<>> /\ writer'[c] = "write"
        /\ hand'[c] = <<Head(s)>> /\ UNCHANGED <<echoRead, echoed>>
    BY <1>1, <1>4, <2>1 DEF WriterTake, TypeOK
  <2>3. /\ s \in Seq(Nat) /\ e \in Nat /\ hand[c] = <<>> /\ Waiting(c) = s
        /\ InBetween(s, echoed[c], Given(c))
    BY <1>1, <2>1, <2>2, EchoTypes, NoHand DEF EchoInOrder, Waiting
  <2>4. /\ <<Head(s)>> \o Tail(s) = s /\ Tail(s) \in Seq(Nat)
        /\ <<Head(s)>> \in Seq(Nat) /\ Len(<<Head(s)>>) = 1
    BY <2>2, <2>3, HeadTail
  <2>5. CASE handler[c] = "parked"
    <3>1. handler'[c] = "reading" /\ sendq'[c] = Append(Tail(s), e)
      BY <1>1, <1>4, <2>1, <2>5 DEF WriterTake, TypeOK
    <3>2. Waiting(c)' = Append(s, e) /\ Given(c)' = e /\ Given(c) = e - 1 /\ e > 0
      BY <1>1, <2>1, <2>2, <2>3, <2>4, <2>5, <3>1, AppendLast DEF Waiting, Given, EchoInOrder
    <3>3. InBetween(Append(s, e), echoed[c], e)
      BY <2>3, <3>2, AddEcho, EchoTypes
    <3>4. InBetween(Waiting(c), echoed[c], Given(c))'
      BY <2>2, <3>2, <3>3 DEF InBetween
    <3>5. QED
      BY <1>4, <2>2, <2>4, <3>1, <3>4 DEF EchoInOrder
  <2>6. CASE handler[c] # "parked"
    <3>1. handler'[c] = handler[c] /\ sendq'[c] = Tail(s)
      BY <1>1, <1>4, <2>1, <2>6 DEF WriterTake, TypeOK
    <3>2. Waiting(c)' = s /\ Given(c)' = Given(c)
      BY <2>2, <2>4, <3>1 DEF Waiting, Given
    <3>3. InBetween(Waiting(c), echoed[c], Given(c))'
      BY <2>2, <2>3, <3>2 DEF InBetween
    <3>4. QED
      BY <1>1, <1>2, <1>4, <2>2, <2>4, <3>1, <3>3 DEF EchoInOrder
  <2>7. QED
    BY <2>5, <2>6
<1>5. CASE d = c /\ WriteOk(c)
  <2>1. PICK h, s : h = hand[c] /\ s = sendq[c]
    OBVIOUS
  <2>2. /\ writer[c] = "write" /\ writer'[c] = "select" /\ hand'[c] = <<>>
        /\ echoed'[c] = IF h = <<Note>> THEN echoed[c] ELSE Head(h)
        /\ UNCHANGED <<handler, sendq, echoRead>>
    BY <1>1, <1>5, <2>1 DEF WriteOk, TypeOK
  <2>3. /\ h \in Seq(Nat) /\ s \in Seq(Nat) /\ Len(h) = 1
        /\ InBetween(h \o s, echoed[c], Given(c))
    BY <1>1, <2>1, <2>2, EchoTypes DEF EchoInOrder, Waiting
  <2>4. h = <<Note>> <=> Head(h) = 0
    BY <2>3 DEF Note
  <2>5. InBetween(s, IF Head(h) = 0 THEN echoed[c] ELSE Head(h), Given(c))
    <3>1. PICK w, lo, hi : w = h \o s /\ lo = echoed[c] /\ hi = Given(c)
      OBVIOUS
    <3>2. w \in Seq(Nat) /\ w # <<>> /\ Head(w) = Head(h) /\ Tail(w) = s
      BY <2>3, <3>1, HandFirst
    <3>3. lo \in Nat /\ hi \in Int /\ InBetween(w, lo, hi)
      BY <2>3, <3>1, EchoTypes
    <3>4. InBetween(Tail(w), IF Head(w) = 0 THEN lo ELSE Head(w), hi)
      BY <3>2, <3>3, DropFirst
    <3>5. QED
      BY <3>1, <3>2, <3>4
  <2>6. echoed'[c] = IF Head(h) = 0 THEN echoed[c] ELSE Head(h)
    BY <2>2, <2>4
  <2>7. Waiting(c)' = s /\ Given(c)' = Given(c)
    BY <2>1, <2>2, <2>3, NoHand DEF Waiting, Given
  <2>8. InBetween(Waiting(c), echoed[c], Given(c))'
    BY <2>5, <2>6, <2>7 DEF InBetween
  <2>9. QED
    BY <1>1, <1>2, <1>5, <2>2, <2>8 DEF EchoInOrder
<1>6. CASE d = c /\ WriterExit(c)
  <2>1. writer'[c] = "exited" /\ UNCHANGED <<handler, echoRead>>
    BY <1>1, <1>6 DEF WriterExit, TypeOK
  <2>2. QED
    BY <1>1, <1>2, <1>6, <2>1 DEF EchoInOrder
<1>7. QED
  BY <1>3, <1>4, <1>5, <1>6 DEF Writer

LEMMA PushStep ==
  ASSUME EInv, NEW p \in Pusher, Push(p), NEW d \in Conn
  PROVE  EchoInOrder(d)'
<1> USE DEF EInv, Early
<1>1. EchoInOrder(d) /\ TypeOK /\ PushInSync
  BY DEF IInv
<1>2. CASE TrySend(p)
  <2>1. PICK c : c = push[p].ptr
    OBVIOUS
  <2>2. /\ c \in Conn /\ handler[c] \notin Early
        /\ sendq' = IF Len(sendq[c]) < SendCap
                    THEN [sendq EXCEPT ![c] = Append(@, Note)] ELSE sendq
        /\ UNCHANGED <<handler, writer, hand, echoRead, echoed>>
    BY <1>1, <1>2, <2>1 DEF TrySend, PushInSync, IInv, RefusedIsSilent, connVars
  <2>3. CASE sendq'[d] = sendq[d]
    <3>1. Untouched(d)
      BY <2>2, <2>3 DEF Untouched
    <3>2. QED
      BY <1>1, <3>1, UntouchedStep
  <2>4. CASE sendq'[d] # sendq[d]
    <3>1. d = c /\ sendq'[d] = Append(sendq[d], 0)
      BY <1>1, <2>2, <2>4 DEF TypeOK, Note
    <3>2. Waiting(d)' = Append(Waiting(d), 0) /\ Given(d)' = Given(d)
      <4>1. hand[d] \o Append(sendq[d], 0) = Append(hand[d] \o sendq[d], 0)
        BY EchoTypes, AppendLast
      <4>2. Waiting(d)' = hand[d] \o Append(sendq[d], 0)
        BY <2>2, <3>1 DEF Waiting
      <4>3. Given(d)' = Given(d)
        BY <2>2 DEF Given
      <4>4. QED
        BY <4>1, <4>2, <4>3 DEF Waiting
    <3>3. writer[d] \in {"select", "write"} =>
            InBetween(Append(Waiting(d), 0), echoed[d], Given(d))
      BY <1>1, EchoTypes, AddNote DEF EchoInOrder
    <3>4. writer[d] \in {"select", "write"} => InBetween(Waiting(d), echoed[d], Given(d))'
      BY <2>2, <3>2, <3>3 DEF InBetween
    <3>5. QED
      BY <1>1, <2>2, <3>1, <3>4 DEF EchoInOrder
  <2>5. QED
    BY <2>3, <2>4
<1>3. CASE PushEnd(p)
  <2>1. UNCHANGED <<writer, hand, sendq, echoRead, echoed>>
    BY <1>3 DEF PushEnd
  <2>2. CASE p = d
    <3>1. handler[d] = "push" /\ handler'[d] = "reading"
      BY <1>1, <1>3, <2>2 DEF PushEnd, PushInSync, TypeOK
    <3>2. QED
      BY <1>1, <2>1, <3>1, UntouchedStep DEF Untouched
  <2>3. CASE p # d
    <3>1. handler'[d] = handler[d]
      BY <1>1, <1>3, <2>3 DEF PushEnd, TypeOK
    <3>2. QED
      BY <1>1, <2>1, <3>1, UntouchedStep DEF Untouched
  <2>4. QED
    BY <2>2, <2>3
<1>4. ASSUME NEW u \in User, Lookup(p, u) PROVE EchoInOrder(d)'
  <2>1. Untouched(d)
    BY <1>4 DEF Lookup, connVars, Untouched
  <2>2. QED
    BY <1>1, <2>1, UntouchedStep
<1>5. QED
  BY <1>2, <1>3, <1>4 DEF Push

(* handleEcho's answers are lost only with the connection's writer. *)
THEOREM EchoesKept == Spec => []EchoLossless
<1>1. Init => EInv
  <2> SUFFICES ASSUME Init PROVE EInv
    OBVIOUS
  <2>1. \A c \in Conn : EchoInOrder(c)
    BY DEF Init, EchoInOrder, Early
  <2>2. QED
    BY <2>1, InitIInv DEF EInv
<1>2. EInv /\ [Next]_vars => EInv'
  <2> SUFFICES ASSUME EInv, [Next]_vars PROVE EInv'
    OBVIOUS
  <2>1. IInv'
    BY IInvStep DEF EInv
  <2>2. ASSUME NEW d \in Conn PROVE EchoInOrder(d)'
    <3>1. ASSUME UNCHANGED <<handler, writer, hand, sendq, echoRead, echoed>>
          PROVE  EchoInOrder(d)'
      BY <3>1, UntouchedStep DEF EInv, Untouched
    <3>2. CASE UNCHANGED vars
      BY <3>1, <3>2 DEF vars
    <3>3. ASSUME NEW q \in Single, NEW u \in User, PushOne(q, u) PROVE EchoInOrder(d)'
      BY <3>1, <3>3 DEF PushOne, connVars
    <3>4. QED
      BY <3>2, <3>3, HandlerStep, WriterStep, PushStep DEF Next
  <2>3. QED
    BY <2>1, <2>2 DEF EInv
<1>3. EInv => EchoLossless
  <2> SUFFICES ASSUME EInv, NEW c \in Conn, writer[c] \in {"select", "write"}
               PROVE  EchoesBetween(Waiting(c), echoed[c], Given(c))
    BY DEF EchoLossless
  <2>1. InBetween(Waiting(c), echoed[c], Given(c))
    BY DEF EInv, EchoInOrder
  <2>2. QED
    BY <2>1, EchoTypes, BetweenIsLossless DEF EInv
<1>4. QED
  BY <1>1, <1>2, <1>3, PTL DEF Spec
=============================================================================
