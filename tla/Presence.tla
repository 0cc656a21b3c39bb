------------------------------ MODULE Presence ------------------------------
(***************************************************************************)
(* What the broker promises about WebSocket sessions, whatever its         *)
(* goroutines do: a user has at most one session at a time, a session is   *)
(* never taken over by a newer connection, it ends only by itself, and a   *)
(* connection carries at most one session in its life.  Broker.clientMap   *)
(* (broker/core/broker.go) is the only state other parts of the broker     *)
(* rely on, so this is the interface between the connection hub (module    *)
(* Hub, which implements it) and message delivery (module Delivery, which  *)
(* is built on it).                                                        *)
(***************************************************************************)
CONSTANTS User,     \* registered users
          Conn,     \* WebSocket connections, one per successful upgrade
          Owner,    \* the user a connection authenticated as
          NoConn    \* the nil entry of clientMap

ASSUME PresenceAssumption == /\ Owner \in [Conn -> User]
                             /\ NoConn \notin Conn

VARIABLES session,  \* the connection each user is reached through, if any
          spent     \* connections that have had their session, or have it

presenceVars == <<session, spent>>

PresenceTypeOK == /\ session \in [User -> Conn \cup {NoConn}]
                  /\ spent \subseteq Conn

PresenceInit == /\ session = [u \in User |-> NoConn]
                /\ spent = {}

Open(c) == /\ c \notin spent
           /\ session[Owner[c]] = NoConn
           /\ session' = [session EXCEPT ![Owner[c]] = c]
           /\ spent' = spent \cup {c}

Close(c) == /\ session[Owner[c]] = c
            /\ session' = [session EXCEPT ![Owner[c]] = NoConn]
            /\ UNCHANGED spent

PresenceNext == \E c \in Conn : Open(c) \/ Close(c)

PresenceSpec == PresenceInit /\ [][PresenceNext]_presenceVars
=============================================================================
