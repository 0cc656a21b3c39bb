--------------------------- MODULE DeliveryProofs ---------------------------
(***************************************************************************)
(* Proofs about module Delivery: each sender's messages reach clients and  *)
(* history in order and at most once, no counter runs ahead, and the       *)
(* module implements Conversation.                                         *)
(***************************************************************************)
EXTENDS Delivery, FiniteSetTheorems, TLAPS

(* Every message of A comes before every one of B from the same sender. *)
Prec(A, B) == \A a \in A : \A b \in B : a.from = b.from => a.k < b.k

Active(c) == job[c].at # "read"

(* What user v has received, or is to receive on the connection in use. *)
Seen(v) == {m \in Message : \/ m \in ToSet(got[v])
                            \/ \E d \in Conn : session[v] = d /\ m \in ToSet(sendq[d])}

InStore == ToSet(stored) \cup ToSet(writing) \cup ToSet(queue)

(* The handler of c still may offer its message to v. *)
Pending(c, v) == \/ v \in ToSet(job[c].left)
                 \/ job[c].at = "send" /\ job[c].ptr = session[v]

-----------------------------------------------------------------------------
(* The inductive invariant. *)

ConnInOrder(c) ==
  /\ c \notin spent => inbox[c] = <<>> /\ sendq[c] = <<>> /\ job[c] = Reading
  /\ IsInjective(job[c].left)
  /\ Active(c) => /\ session[Owner[c]] = c
                  /\ job[c].msg \in Message /\ job[c].msg.from = Owner[c]
  /\ job[c].at = "send" => /\ job[c].ptr \in spent
                           /\ Owner[job[c].ptr] \notin ToSet(job[c].left)
  /\ \A m \in ToSet(inbox[c]) : m.from = Owner[c]

UserInOrder(u) ==
  /\ session[u] # NoConn => session[u] \in spent /\ Owner[session[u]] = u
  /\ link[u] # NoConn => link[u] \in spent /\ Owner[link[u]] = u

(* Every message anywhere is one its sender has sent. *)
WasSaid(m) == m.k <= Len(said[m.from])
AllSaid ==
  /\ \A c \in Conn : /\ \A m \in ToSet(inbox[c]) \cup ToSet(sendq[c]) : WasSaid(m)
                     /\ Active(c) => WasSaid(job[c].msg)
  /\ \A u \in User : \A m \in ToSet(got[u]) : WasSaid(m)
  /\ \A m \in InStore : WasSaid(m)

(* What a client has received comes before what its connection holds. *)
ClientOrder(v) ==
  /\ InSendOrder(got[v])
  /\ \A d \in Conn : session[v] = d => /\ InSendOrder(sendq[d])
                                       /\ Prec(ToSet(got[v]), ToSet(sendq[d]))

(* The history comes before the row in hand, and that before the queue. *)
StoreOrder ==
  /\ InSendOrder(stored) /\ InSendOrder(queue) /\ Len(writing) <= 1
  /\ Prec(ToSet(stored), ToSet(writing))
  /\ Prec(ToSet(stored), ToSet(queue))
  /\ Prec(ToSet(writing), ToSet(queue))

(* The message of an RPC comes after everything delivered and stored. *)
JobOrder(c) ==
  Active(c) =>
    /\ Prec(InStore, {job[c].msg})
    /\ \A v \in User : \A m \in Seen(v) :
         m.from = job[c].msg.from =>
           /\ m.k <= job[c].msg.k
           /\ Pending(c, v) => m.k < job[c].msg.k

(* Frames not yet read come after all of these. *)
InboxOrder(c) ==
  session[Owner[c]] = c =>
    /\ InSendOrder(inbox[c])
    /\ Prec(InStore, ToSet(inbox[c]))
    /\ \A v \in User : Prec(Seen(v), ToSet(inbox[c]))
    /\ Active(c) => Prec({job[c].msg}, ToSet(inbox[c]))

IInv ==
  /\ TypeOK
  /\ IsInjective(members)
  /\ \A c \in Conn : ConnInOrder(c)
  /\ \A u \in User : UserInOrder(u)
  /\ AllSaid
  /\ \A v \in User : ClientOrder(v)
  /\ StoreOrder
  /\ \A c \in Conn : JobOrder(c)
  /\ \A c \in Conn : InboxOrder(c)
  /\ CounterNotAhead

-----------------------------------------------------------------------------
(* Sequences. *)

LEMMA AppendFacts ==
  ASSUME NEW S, NEW s \in Seq(S), NEW e \in S
  PROVE  /\ Append(s, e) \in Seq(S) /\ Len(Append(s, e)) = Len(s) + 1
         /\ \A i \in 1 .. Len(s) : Append(s, e)[i] = s[i]
         /\ Append(s, e)[Len(s) + 1] = e
         /\ ToSet(Append(s, e)) = ToSet(s) \cup {e}
<1>1. /\ Append(s, e) \in Seq(S) /\ Len(Append(s, e)) = Len(s) + 1
      /\ \A i \in 1 .. Len(s) : Append(s, e)[i] = s[i]
      /\ Append(s, e)[Len(s) + 1] = e
  OBVIOUS
<1>2. DOMAIN s = 1 .. Len(s) /\ DOMAIN Append(s, e) = 1 .. Len(s) + 1
  BY <1>1
<1>3. ToSet(Append(s, e)) \subseteq ToSet(s) \cup {e}
  BY <1>1, <1>2 DEF ToSet
<1>4. ToSet(s) \subseteq ToSet(Append(s, e))
  BY <1>1, <1>2 DEF ToSet
<1>5. e \in ToSet(Append(s, e))
  BY <1>1, <1>2 DEF ToSet
<1>6. QED
  BY <1>1, <1>3, <1>4, <1>5

LEMMA TailFacts ==
  ASSUME NEW S, NEW s \in Seq(S), s # <<>>
  PROVE  /\ Tail(s) \in Seq(S) /\ Len(Tail(s)) = Len(s) - 1
         /\ \A i \in 1 .. Len(s) - 1 : Tail(s)[i] = s[i + 1]
         /\ Head(s) \in S /\ Head(s) = s[1] /\ Len(s) >= 1
         /\ ToSet(s) = ToSet(Tail(s)) \cup {Head(s)}
<1>1. /\ Tail(s) \in Seq(S) /\ Len(Tail(s)) = Len(s) - 1
      /\ \A i \in 1 .. Len(s) - 1 : Tail(s)[i] = s[i + 1]
      /\ Head(s) \in S /\ Head(s) = s[1] /\ Len(s) >= 1
  OBVIOUS
<1>2. DOMAIN s = 1 .. Len(s) /\ DOMAIN Tail(s) = 1 .. Len(s) - 1
  BY <1>1
<1>3. ToSet(Tail(s)) \subseteq ToSet(s)
  BY <1>1, <1>2 DEF ToSet
<1>4. Head(s) \in ToSet(s)
  BY <1>1, <1>2 DEF ToSet
<1>5. ASSUME NEW i \in 1 .. Len(s), i # 1 PROVE s[i] \in ToSet(Tail(s))
  <2>1. i - 1 \in 1 .. Len(s) - 1 /\ Tail(s)[i - 1] = s[i]
    BY <1>1, <1>5
  <2>2. QED
    BY <2>1, <1>2 DEF ToSet
<1>6. ToSet(s) \subseteq ToSet(Tail(s)) \cup {Head(s)}
  BY <1>1, <1>2, <1>5 DEF ToSet
<1>7. QED
  BY <1>1, <1>3, <1>4, <1>6

LEMMA Elements == ASSUME NEW S, NEW s \in Seq(S) PROVE ToSet(s) \subseteq S
BY DEF ToSet

LEMMA EmptyFacts == ToSet(<<>>) = {} /\ InSendOrder(<<>>) /\ IsInjective(<<>>)
BY DEF ToSet, InSendOrder, IsInjective

LEMMA InOrderMember ==
  ASSUME NEW S, NEW s \in Seq(S), NEW i \in 1 .. Len(s) PROVE s[i] \in ToSet(s) /\ s[i] \in S
BY DEF ToSet

LEMMA OrderAppend ==
  ASSUME NEW s \in Seq(Message), NEW m \in Message, InSendOrder(s), Prec(ToSet(s), {m})
  PROVE  InSendOrder(Append(s, m))
<1>1. \A i \in 1 .. Len(s) : s[i].from = m.from => s[i].k < m.k
  BY InOrderMember DEF Prec
<1>2. QED
  BY <1>1, AppendFacts DEF InSendOrder

LEMMA OrderTail ==
  ASSUME NEW s \in Seq(Message), s # <<>>, InSendOrder(s)
  PROVE  InSendOrder(Tail(s)) /\ Prec({Head(s)}, ToSet(Tail(s)))
<1>1. InSendOrder(Tail(s))
  BY TailFacts DEF InSendOrder
<1>2. \A i \in 1 .. Len(s) - 1 :
        Head(s).from = Tail(s)[i].from => Head(s).k < Tail(s)[i].k
  BY TailFacts DEF InSendOrder
<1>3. \A m \in ToSet(Tail(s)) : \E i \in 1 .. Len(s) - 1 : m = Tail(s)[i]
  BY TailFacts DEF ToSet
<1>4. QED
  BY <1>1, <1>2, <1>3 DEF Prec

LEMMA OrderConcat ==
  ASSUME NEW s \in Seq(Message), NEW w \in Seq(Message), InSendOrder(s), InSendOrder(w),
         Prec(ToSet(s), ToSet(w))
  PROVE  InSendOrder(s \o w) /\ ToSet(s \o w) = ToSet(s) \cup ToSet(w)
<1>1. /\ s \o w \in Seq(Message) /\ Len(s \o w) = Len(s) + Len(w)
      /\ \A i \in 1 .. Len(s) + Len(w) :
           (s \o w)[i] = IF i <= Len(s) THEN s[i] ELSE w[i - Len(s)]
  OBVIOUS
<1>2. InSendOrder(s \o w)
  <2> SUFFICES ASSUME NEW i \in 1 .. Len(s) + Len(w), NEW j \in 1 .. Len(s) + Len(w),
                      i < j, (s \o w)[i].from = (s \o w)[j].from
               PROVE  (s \o w)[i].k < (s \o w)[j].k
    BY <1>1 DEF InSendOrder
  <2>1. CASE j <= Len(s)
    BY <1>1, <2>1 DEF InSendOrder
  <2>2. CASE i > Len(s)
    <3>1. i - Len(s) \in 1 .. Len(w) /\ j - Len(s) \in 1 .. Len(w) /\ i - Len(s) < j - Len(s)
      BY <2>2
    <3>2. (s \o w)[i] = w[i - Len(s)] /\ (s \o w)[j] = w[j - Len(s)]
      BY <1>1, <2>2
    <3>3. QED
      BY <3>1, <3>2 DEF InSendOrder
  <2>3. CASE i <= Len(s) /\ j > Len(s)
    <3>1. i \in 1 .. Len(s) /\ j - Len(s) \in 1 .. Len(w)
      BY <2>3
    <3>2. (s \o w)[i] = s[i] /\ (s \o w)[j] = w[j - Len(s)]
      BY <1>1, <2>3
    <3>3. s[i] \in ToSet(s) /\ w[j - Len(s)] \in ToSet(w)
      BY <3>1, InOrderMember
    <3>4. QED
      BY <3>2, <3>3 DEF Prec
  <2>4. QED
    BY <2>1, <2>2, <2>3
<1>3. \A i \in 1 .. Len(s) + Len(w) : (s \o w)[i] \in ToSet(s) \cup ToSet(w)
  <2> TAKE i \in 1 .. Len(s) + Len(w)
  <2>1. CASE i <= Len(s)
    BY <1>1, <2>1, InOrderMember
  <2>2. CASE i > Len(s)
    <3>1. i - Len(s) \in 1 .. Len(w)
      BY <2>2
    <3>2. QED
      BY <1>1, <2>2, <3>1, InOrderMember
  <2>3. QED
    BY <2>1, <2>2
<1>4. \A i \in 1 .. Len(s) : (s \o w)[i] = s[i]
  BY <1>1
<1>5. ToSet(s \o w) \subseteq ToSet(s) \cup ToSet(w)
  BY <1>1, <1>3 DEF ToSet
<1>6. ToSet(s) \subseteq ToSet(s \o w)
  BY <1>1, <1>4 DEF ToSet
<1>7. ToSet(w) \subseteq ToSet(s \o w)
  <2> SUFFICES ASSUME NEW i \in 1 .. Len(w) PROVE w[i] \in ToSet(s \o w)
    BY DEF ToSet
  <2>1. Len(s) + i \in 1 .. Len(s \o w) /\ ~(Len(s) + i <= Len(s))
    BY <1>1
  <2>2. (s \o w)[Len(s) + i] = w[i]
    BY <1>1, <2>1
  <2>3. QED
    BY <1>1, <2>1, <2>2, InOrderMember
<1>8. QED
  BY <1>2, <1>5, <1>6, <1>7

LEMMA InjectiveTail ==
  ASSUME NEW s \in Seq(User), s # <<>>, IsInjective(s)
  PROVE  IsInjective(Tail(s)) /\ Head(s) \notin ToSet(Tail(s))
<1>1. \A i, j \in 1 .. Len(s) : s[i] = s[j] => i = j
  BY DEF IsInjective
<1>2. DOMAIN Tail(s) = 1 .. Len(s) - 1
  BY TailFacts
<1>3. \A i, j \in 1 .. Len(s) - 1 : Tail(s)[i] = Tail(s)[j] => i = j
  BY <1>1, TailFacts
<1>4. \A i \in 1 .. Len(s) - 1 : Tail(s)[i] # Head(s)
  BY <1>1, TailFacts
<1>5. QED
  BY <1>2, <1>3, <1>4 DEF IsInjective, ToSet

LEMMA InjectiveAppend ==
  ASSUME NEW s \in Seq(User), NEW u \in User, IsInjective(s), ~Contains(s, u)
  PROVE  IsInjective(Append(s, u))
<1>1. \A i, j \in 1 .. Len(s) : s[i] = s[j] => i = j
  BY DEF IsInjective
<1>2. \A i \in 1 .. Len(s) : s[i] # u
  BY DEF Contains
<1>3. DOMAIN Append(s, u) = 1 .. Len(s) + 1
  BY AppendFacts
<1>4. \A i, j \in 1 .. Len(s) + 1 : Append(s, u)[i] = Append(s, u)[j] => i = j
  BY <1>1, <1>2, AppendFacts
<1>5. QED
  BY <1>3, <1>4 DEF IsInjective

(* Rows of one sender, in order and none beyond n, are at most n. *)
LEMMA FewRows ==
  ASSUME NEW s \in Seq(Message), InSendOrder(s), NEW u \in User, NEW n \in Nat,
         \A m \in ToSet(s) : m.from = u => m.k <= n
  PROVE  Cardinality({i \in DOMAIN s : s[i].from = u}) \in 0 .. n
<1> DEFINE D == {i \in DOMAIN s : s[i].from = u}
           f == [i \in D |-> s[i].k]
<1>1. DOMAIN s = 1 .. Len(s) /\ \A i \in 1 .. Len(s) : s[i] \in Message /\ s[i] \in ToSet(s)
  BY InOrderMember
<1>2. \A i \in D : s[i].k \in 1 .. n
  BY <1>1 DEF Message
<1>3. \A i, j \in D : s[i].k = s[j].k => i = j
  <2> TAKE i, j \in D
  <2>1. i \in 1 .. Len(s) /\ j \in 1 .. Len(s) /\ s[i].from = s[j].from
    BY <1>1
  <2>2. s[i].k \in Nat /\ s[j].k \in Nat
    BY <1>1, <2>1 DEF Message
  <2>3. (i < j => s[i].k < s[j].k) /\ (j < i => s[j].k < s[i].k)
    BY <2>1 DEF InSendOrder
  <2>4. QED
    BY <2>1, <2>2, <2>3
<1>4. f \in Injection(D, 1 .. n)
  BY <1>2, <1>3 DEF Injection, IsInjective
<1>5. IsFiniteSet(1 .. n) /\ Cardinality(1 .. n) = n
  BY FS_Interval
<1>6. IsFiniteSet(D) /\ Cardinality(D) <= Cardinality(1 .. n)
  BY <1>4, <1>5, FS_Injection
<1>7. Cardinality(D) \in Nat
  BY <1>6, FS_CardinalityType
<1>8. QED
  BY <1>5, <1>6, <1>7

-----------------------------------------------------------------------------
(* What several steps have in common. *)

LEMMA SeenFacts ==
  ASSUME IInv
  PROVE  \A v \in User : Seen(v) \subseteq Message /\ \A m \in Seen(v) : WasSaid(m)
BY DEF IInv, TypeOK, Seen, AllSaid

LEMMA StoreFacts ==
  ASSUME TypeOK
  PROVE  InStore \subseteq Message
BY Elements DEF TypeOK, InStore

(* No two connections of a user have a message in hand or frames to read. *)
LEMMA OneConnection ==
  ASSUME NEW c \in Conn, NEW d \in Conn, c # d,
         session[Owner[c]] = c, session[Owner[d]] = d
  PROVE  Owner[c] # Owner[d]
OBVIOUS

(* Nothing new is received or stored. *)
LEMMA Fewer ==
  ASSUME IInv, job' = job, inbox' = inbox, InStore' \subseteq InStore,
         \A v \in User : Seen(v)' \subseteq Seen(v),
         \A c \in Conn : session'[Owner[c]] = c =>
                           session[Owner[c]] = c \/ (inbox[c] = <<>> /\ ~Active(c)),
         \A c \in Conn : \A v \in User : Active(c) /\ Pending(c, v)' => Pending(c, v)
  PROVE  \A c \in Conn : JobOrder(c)' /\ InboxOrder(c)'
<1> TAKE c \in Conn
<1>1. Active(c)' = Active(c)
  BY DEF Active
<1>2. JobOrder(c)'
  BY <1>1 DEF IInv, JobOrder, Prec
<1>3. InboxOrder(c)'
  <2> SUFFICES ASSUME session'[Owner[c]] = c PROVE InboxOrder(c)'
    BY DEF InboxOrder
  <2>1. CASE session[Owner[c]] = c
    BY <1>1, <2>1 DEF IInv, InboxOrder, Prec, InSendOrder
  <2>2. CASE inbox[c] = <<>> /\ ~Active(c)
    BY <1>1, <2>2, EmptyFacts DEF InboxOrder, Prec, InSendOrder
  <2>3. QED
    BY <2>1, <2>2
<1>4. QED
  BY <1>2, <1>3

LEMMA SameClients ==
  ASSUME IInv, UNCHANGED <<session, got, sendq>>
  PROVE  \A v \in User : Seen(v)' = Seen(v) /\ ClientOrder(v)'
BY DEF IInv, Seen, ClientOrder, InSendOrder, Prec

LEMMA SameStore ==
  ASSUME IInv, UNCHANGED <<stored, writing, queue>>
  PROVE  InStore' = InStore /\ StoreOrder'
BY DEF IInv, InStore, StoreOrder, InSendOrder, Prec

LEMMA SameConns ==
  ASSUME IInv, UNCHANGED <<session, spent, inbox, job, sendq>>
  PROVE  \A c \in Conn : ConnInOrder(c)'
BY DEF IInv, ConnInOrder, Active, IsInjective

LEMMA SameSaid ==
  ASSUME IInv, UNCHANGED <<said, inbox, job, sendq, got, stored, writing, queue>>
  PROVE  AllSaid'
BY DEF IInv, AllSaid, WasSaid, Active, InStore

LEMMA SameRest ==
  ASSUME IInv, UNCHANGED <<session, job, inbox, sendq, got, stored, writing, queue>>
  PROVE  \A c \in Conn : JobOrder(c)' /\ InboxOrder(c)'
<1>1. \A c \in Conn : \A v \in User : Pending(c, v)' = Pending(c, v)
  BY DEF Pending
<1>2. QED
  BY <1>1, SameClients, SameStore, Fewer

LEMMA InitIInv == Init => IInv
<1> SUFFICES ASSUME Init PROVE IInv
  OBVIOUS
<1> USE EmptyFacts
<1>1. TypeOK
  BY DeliveryAssumption DEF Init, TypeOK, PresenceInit, PresenceTypeOK, NoRoom, Reading
<1>2. IsInjective(members)
  BY DeliveryAssumption DEF Init
<1>3. \A c \in Conn : ConnInOrder(c)
  BY DEF Init, PresenceInit, ConnInOrder, Active, Reading
<1>4. \A u \in User : UserInOrder(u)
  BY DEF Init, PresenceInit, UserInOrder
<1>5. AllSaid
  BY DEF Init, AllSaid, Active, Reading, InStore
<1>6. \A v \in User : ClientOrder(v)
  BY DEF Init, ClientOrder, Prec
<1>7. StoreOrder
  BY DEF Init, StoreOrder, Prec
<1>8. \A c \in Conn : JobOrder(c)
  BY DEF Init, JobOrder, Active, Reading
<1>9. \A c \in Conn : InboxOrder(c)
  BY DEF Init, InboxOrder, Prec, Active, Reading
<1>10. CounterNotAhead
  BY DEF Init, CounterNotAhead
<1>11. QED
  BY <1>1, <1>2, <1>3, <1>4, <1>5, <1>6, <1>7, <1>8, <1>9, <1>10 DEF IInv

-----------------------------------------------------------------------------
(* The client's steps. *)

LEMMA ConnectStep == ASSUME IInv, NEW c \in Conn, Connect(c) PROVE IInv'
<1> DEFINE u == Owner[c]
<1> USE PresenceAssumption
<1>1. /\ c \notin spent /\ session[u] = NoConn /\ u \in User
      /\ session' = [session EXCEPT ![u] = c] /\ spent' = spent \cup {c}
      /\ link' = [link EXCEPT ![u] = c] /\ count' = [count EXCEPT ![u] = NoRoom]
      /\ UNCHANGED <<selected, said, got, inbox, job, sendq, members, storeVars>>
  BY DEF Connect, Open
<1>2. UNCHANGED <<queue, writing, stored, restarts, lost>>
  BY <1>1 DEF storeVars, faults
<1>3. inbox[c] = <<>> /\ sendq[c] = <<>> /\ ~Active(c) /\ job[c] = Reading
  BY <1>1 DEF IInv, ConnInOrder, Active, Reading
<1>4. TypeOK'
  BY <1>1, <1>2 DEF IInv, TypeOK, PresenceTypeOK
<1>5. IsInjective(members')
  BY <1>1 DEF IInv
<1>6. ASSUME NEW d \in Conn PROVE ConnInOrder(d)'
  <2>1. session[Owner[d]] = d => session'[Owner[d]] = d
    BY <1>1 DEF IInv, TypeOK, PresenceTypeOK
  <2>2. Active(d)' = Active(d) /\ (d \notin spent' => d \notin spent)
    BY <1>1 DEF Active
  <2>3. QED
    BY <1>1, <2>1, <2>2 DEF IInv, ConnInOrder
<1>7. ASSUME NEW v \in User PROVE UserInOrder(v)'
  BY <1>1 DEF IInv, TypeOK, PresenceTypeOK, UserInOrder
<1>8. AllSaid'
  BY <1>1, <1>2, SameSaid
<1>9. ASSUME NEW v \in User PROVE Seen(v)' \subseteq Seen(v) /\ ClientOrder(v)'
  <2>1. ASSUME NEW d \in Conn, session'[v] = d
        PROVE  session[v] = d \/ (d = c /\ ToSet(sendq[d]) = {} /\ InSendOrder(sendq[d]))
    BY <1>1, <1>3, <2>1, EmptyFacts DEF IInv, TypeOK, PresenceTypeOK
  <2>2. QED
    BY <1>1, <2>1 DEF IInv, Seen, ClientOrder, InSendOrder, Prec
<1>10. InStore' = InStore /\ StoreOrder'
  BY <1>2, SameStore
<1>11. ASSUME NEW d \in Conn, NEW v \in User, Active(d), Pending(d, v)' PROVE Pending(d, v)
  <2>1. CASE v \in ToSet(job[d].left)
    BY <2>1 DEF Pending
  <2>2. CASE job[d].at = "send" /\ job[d].ptr = session'[v]
    <3>1. job[d].ptr # c
      BY <1>1, <2>2 DEF IInv, ConnInOrder
    <3>2. session'[v] = session[v]
      BY <1>1, <2>2, <3>1 DEF IInv, TypeOK, PresenceTypeOK
    <3>3. QED
      BY <2>2, <3>2 DEF Pending
  <2>3. QED
    BY <1>1, <1>11, <2>1, <2>2 DEF Pending
<1>12. \A d \in Conn : session'[Owner[d]] = d =>
                          session[Owner[d]] = d \/ (inbox[d] = <<>> /\ ~Active(d))
  BY <1>1, <1>3 DEF IInv, TypeOK, PresenceTypeOK
<1>13. \A d \in Conn : JobOrder(d)' /\ InboxOrder(d)'
  BY <1>1, <1>9, <1>10, <1>11, <1>12, Fewer
<1>14. CounterNotAhead'
  BY <1>1 DEF IInv, TypeOK, CounterNotAhead
<1>15. QED
  BY <1>4, <1>5, <1>6, <1>7, <1>8, <1>9, <1>10, <1>13, <1>14 DEF IInv

LEMMA HangUpStep == ASSUME IInv, NEW u \in User, HangUp(u) PROVE IInv'
<1>1. /\ link' = [link EXCEPT ![u] = NoConn] /\ count' = [count EXCEPT ![u] = NoRoom]
      /\ UNCHANGED <<session, spent, selected, said, got, inbox, job, sendq, members,
                     queue, writing, stored, restarts, lost>>
  BY DEF HangUp, storeVars, faults
<1>2. TypeOK'
  BY <1>1 DEF IInv, TypeOK, PresenceTypeOK
<1>3. \A v \in User : UserInOrder(v)'
  BY <1>1 DEF IInv, TypeOK, UserInOrder
<1>4. CounterNotAhead'
  BY <1>1 DEF IInv, TypeOK, CounterNotAhead
<1>5. IsInjective(members')
  BY <1>1 DEF IInv
<1>6. QED
  BY <1>1, <1>2, <1>3, <1>4, <1>5, SameClients, SameStore, SameConns, SameSaid, SameRest DEF IInv

LEMMA SelectRoomStep == ASSUME IInv, NEW u \in User, SelectRoom(u) PROVE IInv'
<1>1. /\ selected' = [selected EXCEPT ![u] = @ + 1]
      /\ count' = [count EXCEPT ![u] = StoredFrom(u)]
      /\ UNCHANGED <<session, spent, link, said, got, inbox, job, sendq, members,
                     queue, writing, stored, restarts, lost>>
  BY DEF SelectRoom, storeVars, faults
<1>2. Len(said[u]) \in Nat
  BY DEF IInv, TypeOK
<1>3. \A m \in ToSet(stored) : m.from = u => m.k <= Len(said[u])
  BY DEF IInv, AllSaid, InStore, WasSaid
<1>4. StoredFrom(u) \in 0 .. Len(said[u])
  BY <1>2, <1>3, FewRows DEF IInv, TypeOK, StoreOrder, StoredFrom
<1>5. TypeOK'
  <2>1. StoredFrom(u) \in Nat
    BY <1>2, <1>4
  <2>2. count' \in [User -> Nat \cup {NoRoom}] /\ selected' \in [User -> Nat]
    BY <1>1, <2>1 DEF IInv, TypeOK
  <2>3. QED
    BY <1>1, <2>2 DEF IInv, TypeOK, PresenceTypeOK
<1>6. \A v \in User : UserInOrder(v)'
  BY <1>1 DEF IInv, UserInOrder
<1>7. CounterNotAhead'
  BY <1>1, <1>4 DEF IInv, TypeOK, CounterNotAhead
<1>8. IsInjective(members')
  BY <1>1 DEF IInv
<1>9. QED
  BY <1>1, <1>5, <1>6, <1>7, <1>8, SameClients, SameStore, SameConns, SameSaid, SameRest DEF IInv

LEMMA AcceptInviteStep == ASSUME IInv, NEW u \in User, AcceptInvite(u) PROVE IInv'
<1>1. /\ ~Contains(members, u) /\ members' = Append(members, u)
      /\ UNCHANGED <<session, spent, link, selected, count, said, got, inbox, job, sendq,
                     queue, writing, stored, restarts, lost>>
  BY DEF AcceptInvite, clientVars, storeVars, faults
<1>2. TypeOK'
  BY <1>1 DEF IInv, TypeOK, PresenceTypeOK
<1>3. IsInjective(members')
  BY <1>1, InjectiveAppend DEF IInv, TypeOK
<1>4. (\A v \in User : UserInOrder(v)') /\ CounterNotAhead'
  BY <1>1 DEF IInv, UserInOrder, CounterNotAhead
<1>5. QED
  BY <1>1, <1>2, <1>3, <1>4, SameClients, SameStore, SameConns, SameSaid, SameRest DEF IInv

LEMMA SayStep == ASSUME IInv, NEW u \in User, Say(u) PROVE IInv'
<1> USE PresenceAssumption
<1>1. PICK c, m : c = link[u] /\ m = [from |-> u, k |-> Len(said[u]) + 1]
  OBVIOUS
<1>2. /\ c # NoConn /\ count[u] # NoRoom
      /\ said' = [said EXCEPT ![u] = Append(@, count[u])]
      /\ count' = [count EXCEPT ![u] = @ + 1]
      /\ inbox' = IF session[u] = c THEN [inbox EXCEPT ![c] = Append(@, m)] ELSE inbox
      /\ UNCHANGED <<session, spent, link, selected, got, job, sendq, members,
                     queue, writing, stored, restarts, lost>>
  BY <1>1 DEF Say, storeVars, faults
<1>3. /\ c \in Conn /\ c \in spent /\ Owner[c] = u
      /\ count[u] \in Nat /\ said[u] \in Seq(Nat) /\ Len(said[u]) \in Nat
      /\ inbox \in [Conn -> Seq(Message)]
  BY <1>1, <1>2 DEF IInv, TypeOK, PresenceTypeOK, UserInOrder
<1>4. m \in Message /\ m.from = u /\ m.k = Len(said[u]) + 1
  BY <1>1, <1>3 DEF Message
<1>5. /\ said' \in [User -> Seq(Nat)] /\ Len(said'[u]) = Len(said[u]) + 1
      /\ \A v \in User : v # u => said'[v] = said[v]
  BY <1>2, <1>3 DEF IInv, TypeOK
<1>6. \A x \in Message : WasSaid(x) => WasSaid(x)' /\ (x.from = m.from => x.k < m.k)
  BY <1>3, <1>4, <1>5 DEF WasSaid, Message
<1>7. /\ inbox' \in [Conn -> Seq(Message)]
      /\ \A d \in Conn : inbox'[d] # inbox[d] =>
           d = c /\ session[u] = c /\ inbox'[d] = Append(inbox[d], m)
  BY <1>2, <1>3, <1>4
<1>8. \A d \in Conn : ToSet(inbox[d]) \subseteq Message /\ \A x \in ToSet(inbox[d]) : WasSaid(x)
  BY <1>3, Elements DEF IInv, AllSaid
<1>9. \A d \in Conn : /\ ToSet(inbox'[d]) \subseteq ToSet(inbox[d]) \cup {m}
                      /\ d # c => inbox'[d] = inbox[d]
  <2> TAKE d \in Conn
  <2>1. ToSet(Append(inbox[d], m)) = ToSet(inbox[d]) \cup {m}
    BY <1>3, <1>4, AppendFacts
  <2>2. QED
    BY <1>7, <2>1
<1>10. TypeOK'
  <2>1. count' \in [User -> Nat \cup {NoRoom}]
    <3>1. count \in [User -> Nat \cup {NoRoom}]
      BY DEF IInv, TypeOK
    <3>2. count[u] + 1 \in Nat
      BY <1>3
    <3>3. QED
      BY <1>2, <3>1, <3>2
  <2>2. QED
    BY <1>2, <1>5, <1>7, <2>1 DEF IInv, TypeOK, PresenceTypeOK
<1>11. IsInjective(members')
  BY <1>2 DEF IInv
<1>12. ASSUME NEW d \in Conn PROVE ConnInOrder(d)'
  <2>1. Active(d)' = Active(d)
    BY <1>2 DEF Active
  <2>2. d \notin spent => inbox'[d] = inbox[d]
    BY <1>3, <1>9
  <2>3. \A x \in ToSet(inbox'[d]) : x.from = Owner[d]
    BY <1>3, <1>4, <1>9 DEF IInv, ConnInOrder
  <2>4. QED
    BY <1>2, <2>1, <2>2, <2>3 DEF IInv, ConnInOrder
<1>13. \A v \in User : UserInOrder(v)'
  BY <1>2 DEF IInv, UserInOrder
<1>14. AllSaid'
  <2>1. WasSaid(m)'
    BY <1>3, <1>4, <1>5 DEF WasSaid
  <2>2. ASSUME NEW d \in Conn PROVE \A x \in ToSet(inbox'[d]) : WasSaid(x)'
    BY <1>6, <1>8, <1>9, <2>1
  <2>3. ASSUME NEW d \in Conn PROVE \A x \in ToSet(sendq'[d]) : WasSaid(x)'
    BY <1>2, <1>6, Elements DEF IInv, TypeOK, AllSaid
  <2>4. ASSUME NEW d \in Conn, Active(d)' PROVE WasSaid(job[d].msg)'
    <3>1. Active(d) /\ job'[d].msg = job[d].msg
      BY <1>2, <2>4 DEF Active
    <3>2. job[d].msg \in Message /\ WasSaid(job[d].msg)
      BY <3>1 DEF IInv, AllSaid, ConnInOrder
    <3>3. PICK x \in Message : x = job[d].msg
      BY <3>2
    <3>4. WasSaid(x)'
      BY <1>6, <3>2, <3>3
    <3>5. QED
      BY <3>1, <3>3, <3>4
  <2>5. ASSUME NEW v \in User PROVE \A x \in ToSet(got'[v]) : WasSaid(x)'
    BY <1>2, <1>6, Elements DEF IInv, TypeOK, AllSaid
  <2>6. \A x \in InStore : WasSaid(x)'
    BY <1>6, StoreFacts DEF IInv, AllSaid
  <2>7. InStore' = InStore
    BY <1>2, SameStore
  <2>8. QED
    BY <2>2, <2>3, <2>4, <2>5, <2>6, <2>7 DEF AllSaid
<1>15. /\ \A v \in User : Seen(v)' = Seen(v) /\ ClientOrder(v)'
       /\ InStore' = InStore /\ StoreOrder'
  BY <1>2, SameClients, SameStore
<1>16. ASSUME NEW d \in Conn PROVE JobOrder(d)'
  BY <1>2, <1>15 DEF IInv, JobOrder, Active, Pending, Prec
<1>17. ASSUME NEW d \in Conn PROVE InboxOrder(d)'
  <2> SUFFICES ASSUME session[Owner[d]] = d PROVE InboxOrder(d)'
    BY <1>2 DEF InboxOrder
  <2>1. /\ InSendOrder(inbox[d]) /\ Prec(InStore, ToSet(inbox[d]))
        /\ \A v \in User : Prec(Seen(v), ToSet(inbox[d]))
        /\ Active(d) => Prec({job[d].msg}, ToSet(inbox[d]))
    BY DEF IInv, InboxOrder
  <2>2. Prec(ToSet(inbox[d]), {m})
    BY <1>6, <1>8 DEF Prec
  <2>3. Prec(InStore, {m})
    BY <1>6, StoreFacts DEF IInv, AllSaid, Prec
  <2>4. \A v \in User : Prec(Seen(v), {m})
    BY <1>6, SeenFacts DEF Prec
  <2>5. Active(d) => Prec({job[d].msg}, {m})
    <3> SUFFICES ASSUME Active(d) PROVE Prec({job[d].msg}, {m})
      OBVIOUS
    <3>1. job[d].msg \in Message /\ WasSaid(job[d].msg)
      BY DEF IInv, AllSaid, ConnInOrder
    <3>2. QED
      BY <1>6, <3>1 DEF Prec
  <2>6. InSendOrder(inbox'[d])
    <3>1. InSendOrder(Append(inbox[d], m))
      BY <1>3, <1>4, <2>1, <2>2, OrderAppend
    <3>2. QED
      BY <1>7, <2>1, <3>1
  <2>7. /\ Prec(InStore, ToSet(inbox'[d]))
        /\ \A v \in User : Prec(Seen(v), ToSet(inbox'[d]))
        /\ Active(d) => Prec({job[d].msg}, ToSet(inbox'[d]))
    BY <1>9, <2>1, <2>3, <2>4, <2>5 DEF Prec
  <2>8. InSendOrder(inbox[d])'
    BY <2>6 DEF InSendOrder
  <2>9. Active(d)' = Active(d) /\ job'[d] = job[d]
    BY <1>2 DEF Active
  <2>10. \A v \in User : Prec(Seen(v), ToSet(inbox[d]))'
    BY <1>15, <2>7 DEF Prec
  <2>11. Prec(InStore, ToSet(inbox[d]))' /\ (Active(d)' => Prec({job[d].msg}, ToSet(inbox[d]))')
    BY <1>15, <2>7, <2>9 DEF Prec
  <2>12. QED
    BY <2>8, <2>10, <2>11 DEF InboxOrder
<1>18. CounterNotAhead'
  <2>1. count[u] <= Len(said[u]) /\ count'[u] = count[u] + 1
    BY <1>2, <1>3 DEF IInv, TypeOK, CounterNotAhead
  <2>2. count'[u] <= Len(said'[u])
    BY <1>3, <1>5, <2>1
  <2>3. \A v \in User : v # u => count'[v] = count[v] /\ said'[v] = said[v]
    BY <1>2, <1>5 DEF IInv, TypeOK
  <2>4. QED
    BY <2>2, <2>3 DEF IInv, CounterNotAhead
<1>19. QED
  BY <1>10, <1>11, <1>12, <1>13, <1>14, <1>15, <1>16, <1>17, <1>18 DEF IInv

-----------------------------------------------------------------------------
(* The handler's steps.  Each has one message of connection c in hand. *)

(* Only what c has in hand or to read changes, and nothing arrives. *)
LEMMA OtherConns ==
  ASSUME IInv, NEW c \in Conn, UNCHANGED <<session, got, sendq>>, InStore' = InStore,
         \A d \in Conn \ {c} : job'[d] = job[d] /\ inbox'[d] = inbox[d]
  PROVE  \A d \in Conn \ {c} : JobOrder(d)' /\ InboxOrder(d)'
<1> TAKE d \in Conn \ {c}
<1>1. Active(d)' = Active(d) /\ \A v \in User : Pending(d, v)' = Pending(d, v)
  BY DEF Active, Pending
<1>2. \A v \in User : Seen(v)' = Seen(v)
  BY SameClients
<1>3. JobOrder(d)'
  BY <1>1, <1>2 DEF IInv, JobOrder, Prec
<1>4. InboxOrder(d)'
  BY <1>1, <1>2 DEF IInv, InboxOrder, Prec, InSendOrder
<1>5. QED
  BY <1>3, <1>4

LEMMA ReadMessageStep == ASSUME IInv, NEW c \in Conn, ReadMessage(c) PROVE IInv'
<1> USE PresenceAssumption
<1>1. PICK m : m = Head(inbox[c])
  OBVIOUS
<1>2. /\ session[Owner[c]] = c /\ ~Active(c) /\ inbox[c] # <<>>
      /\ inbox' = [inbox EXCEPT ![c] = Tail(@)]
      /\ job' = [job EXCEPT ![c] =
           [at |-> "fan", msg |-> m, left |-> members, ptr |-> NoConn]]
      /\ UNCHANGED <<session, spent, link, selected, count, said, got, sendq, members,
                     queue, writing, stored, restarts, lost>>
  BY <1>1 DEF ReadMessage, ListRoomMembers, Active, clientVars, storeVars, faults
<1>3. /\ inbox \in [Conn -> Seq(Message)] /\ members \in Seq(User) /\ Owner[c] \in User
      /\ \A d \in Conn \ {c} : job'[d] = job[d] /\ inbox'[d] = inbox[d]
      /\ inbox'[c] = Tail(inbox[c])
      /\ job'[c] = [at |-> "fan", msg |-> m, left |-> members, ptr |-> NoConn]
  BY <1>2 DEF IInv, TypeOK
<1>4. /\ m \in Message /\ m \in ToSet(inbox[c]) /\ Tail(inbox[c]) \in Seq(Message)
      /\ ToSet(Tail(inbox[c])) \subseteq ToSet(inbox[c])
  BY <1>1, <1>2, <1>3, TailFacts
<1>5. /\ InSendOrder(inbox[c]) /\ Prec(InStore, ToSet(inbox[c]))
      /\ \A v \in User : Prec(Seen(v), ToSet(inbox[c]))
  BY <1>2 DEF IInv, InboxOrder
<1>6. TypeOK'
  <2>1. inbox' \in [Conn -> Seq(Message)]
    BY <1>2, <1>3, <1>4
  <2>2. job' \in [Conn -> [at : {"read", "fan", "send"}, msg : {<<>>} \cup Message,
                           left : Seq(User), ptr : Conn \cup {NoConn}]]
    BY <1>2, <1>3, <1>4 DEF IInv, TypeOK
  <2>3. QED
    BY <1>2, <2>1, <2>2 DEF IInv, TypeOK, PresenceTypeOK
<1>7. IsInjective(members')
  BY <1>2 DEF IInv
<1>8. ASSUME NEW d \in Conn PROVE ConnInOrder(d)'
  <2>1. CASE d = c
    <3>1. c \in spent
      BY <1>2, <1>3 DEF IInv, UserInOrder
    <3>2. m.from = Owner[c] /\ \A x \in ToSet(inbox'[c]) : x.from = Owner[c]
      BY <1>3, <1>4 DEF IInv, ConnInOrder
    <3>3. IsInjective(members)
      BY DEF IInv
    <3>4. IsInjective(job[c].left)'
      BY <1>3, <3>3 DEF IsInjective
    <3>5. QED
      BY <1>2, <1>3, <1>4, <2>1, <3>1, <3>2, <3>4 DEF ConnInOrder
  <2>2. CASE d # c
    BY <1>2, <1>3, <2>2 DEF IInv, ConnInOrder, Active, IsInjective
  <2>3. QED
    BY <2>1, <2>2
<1>9. \A v \in User : UserInOrder(v)'
  BY <1>2 DEF IInv, UserInOrder
<1>10. /\ \A v \in User : Seen(v)' = Seen(v) /\ ClientOrder(v)'
       /\ InStore' = InStore /\ StoreOrder'
  BY <1>2, SameClients, SameStore
<1>11. AllSaid'
  <2>1. ASSUME NEW d \in Conn PROVE /\ \A x \in ToSet(inbox'[d]) : WasSaid(x)
                                    /\ Active(d)' => WasSaid(job'[d].msg)
    <3>1. CASE d = c
      <4>1. \A x \in ToSet(inbox[c]) : WasSaid(x)
        BY DEF IInv, AllSaid
      <4>2. job'[c].msg = m /\ WasSaid(m)
        BY <1>3, <1>4, <4>1
      <4>3. \A x \in ToSet(inbox'[c]) : WasSaid(x)
        BY <1>3, <1>4, <4>1
      <4>4. QED
        BY <3>1, <4>2, <4>3
    <3>2. CASE d # c
      BY <1>3, <3>2 DEF IInv, AllSaid, Active
    <3>3. QED
      BY <3>1, <3>2
  <2>2. QED
    BY <1>2, <1>10, <2>1 DEF IInv, AllSaid, WasSaid
<1>12. JobOrder(c)'
  <2>1. Prec(InStore, {m}) /\ \A v \in User : Prec(Seen(v), {m})
    BY <1>4, <1>5 DEF Prec
  <2>2. \A v \in User : \A x \in Seen(v) : x.from = m.from => x.k <= m.k /\ x.k < m.k
    BY <1>4, <2>1, SeenFacts DEF Prec, Message
  <2>3. QED
    BY <1>3, <1>10, <2>1, <2>2 DEF JobOrder, Prec
<1>13. InboxOrder(c)'
  <2>1. InSendOrder(Tail(inbox[c])) /\ Prec({m}, ToSet(Tail(inbox[c])))
    BY <1>1, <1>2, <1>3, <1>5, OrderTail
  <2>2. /\ Prec(InStore, ToSet(Tail(inbox[c])))
        /\ \A v \in User : Prec(Seen(v), ToSet(Tail(inbox[c])))
    BY <1>4, <1>5 DEF Prec
  <2>3. InSendOrder(inbox[c])' /\ job'[c].msg = m
    <3>1. InSendOrder(inbox'[c])
      BY <1>3, <2>1
    <3>2. InSendOrder(inbox[c])'
      BY <3>1 DEF InSendOrder
    <3>3. QED
      BY <1>3, <3>2
  <2>4. Prec({job[c].msg}, ToSet(inbox[c]))'
    BY <1>3, <2>1, <2>3 DEF Prec
  <2>5. Prec(InStore, ToSet(inbox[c]))' /\ \A v \in User : Prec(Seen(v), ToSet(inbox[c]))'
    BY <1>3, <1>10, <2>2 DEF Prec
  <2>6. QED
    BY <2>3, <2>4, <2>5 DEF InboxOrder
<1>14. \A d \in Conn : JobOrder(d)' /\ InboxOrder(d)'
  BY <1>2, <1>3, <1>10, <1>12, <1>13, OtherConns
<1>15. CounterNotAhead'
  BY <1>2 DEF IInv, CounterNotAhead
<1>16. QED
  BY <1>6, <1>7, <1>8, <1>9, <1>10, <1>11, <1>14, <1>15 DEF IInv

LEMMA ReadFailsStep == ASSUME IInv, NEW c \in Conn, ReadFails(c) PROVE IInv'
<1>1. /\ session[Owner[c]] = c /\ ~Active(c) /\ inbox[c] # <<>>
      /\ inbox' = [inbox EXCEPT ![c] = Tail(@)]
      /\ UNCHANGED <<session, spent, link, selected, count, said, got, job, sendq, members,
                     queue, writing, stored, restarts, lost>>
  BY DEF ReadFails, Active, clientVars, storeVars, faults
<1>2. /\ inbox \in [Conn -> Seq(Message)]
      /\ \A d \in Conn \ {c} : job'[d] = job[d] /\ inbox'[d] = inbox[d]
      /\ inbox'[c] = Tail(inbox[c]) /\ job'[c] = job[c]
  BY <1>1 DEF IInv, TypeOK
<1>3. /\ Tail(inbox[c]) \in Seq(Message)
      /\ ToSet(Tail(inbox[c])) \subseteq ToSet(inbox[c])
  BY <1>1, <1>2, TailFacts
<1>4. TypeOK'
  <2>1. inbox' \in [Conn -> Seq(Message)]
    BY <1>1, <1>2, <1>3
  <2>2. QED
    BY <1>1, <2>1 DEF IInv, TypeOK, PresenceTypeOK
<1>5. IsInjective(members') /\ (\A v \in User : UserInOrder(v)') /\ CounterNotAhead'
  BY <1>1 DEF IInv, UserInOrder, CounterNotAhead
<1>6. ASSUME NEW d \in Conn PROVE ConnInOrder(d)'
  <2>1. /\ ToSet(inbox'[d]) \subseteq ToSet(inbox[d])
        /\ inbox[d] = <<>> => inbox'[d] = <<>>
    BY <1>1, <1>2, <1>3
  <2>2. QED
    BY <1>1, <2>1 DEF IInv, ConnInOrder, Active, IsInjective
<1>7. /\ \A v \in User : Seen(v)' = Seen(v) /\ ClientOrder(v)'
      /\ InStore' = InStore /\ StoreOrder'
  BY <1>1, SameClients, SameStore
<1>8. AllSaid'
  <2>1. ASSUME NEW d \in Conn PROVE /\ \A x \in ToSet(inbox'[d]) : WasSaid(x)
                                    /\ Active(d)' => WasSaid(job'[d].msg)
    BY <1>1, <1>2, <1>3 DEF IInv, AllSaid, Active
  <2>2. QED
    BY <1>1, <1>7, <2>1 DEF IInv, AllSaid, WasSaid
<1>9. JobOrder(c)'
  BY <1>1 DEF JobOrder, Active
<1>10. InboxOrder(c)'
  <2>1. /\ InSendOrder(inbox[c]) /\ Prec(InStore, ToSet(inbox[c]))
        /\ \A v \in User : Prec(Seen(v), ToSet(inbox[c]))
    BY <1>1 DEF IInv, InboxOrder
  <2>2. /\ InSendOrder(Tail(inbox[c])) /\ Prec(InStore, ToSet(Tail(inbox[c])))
        /\ \A v \in User : Prec(Seen(v), ToSet(Tail(inbox[c])))
    BY <1>1, <1>2, <1>3, <2>1, OrderTail DEF Prec
  <2>3. QED
    BY <1>1, <1>2, <1>7, <2>2 DEF InboxOrder, Prec, InSendOrder, Active
<1>11. \A d \in Conn : JobOrder(d)' /\ InboxOrder(d)'
  BY <1>1, <1>2, <1>7, <1>9, <1>10, OtherConns
<1>12. QED
  BY <1>4, <1>5, <1>6, <1>7, <1>8, <1>11 DEF IInv

LEMMA FanOutStep == ASSUME IInv, NEW c \in Conn, FanOut(c) PROVE IInv'
<1> USE PresenceAssumption
<1>1. PICK j, u : j = job[c] /\ u = Head(j.left)
  OBVIOUS
<1>2. /\ j.at = "fan" /\ j.left # <<>>
      /\ job' = [job EXCEPT ![c] =
           IF u = j.msg.from \/ session[u] = NoConn
           THEN [j EXCEPT !.left = Tail(@)]
           ELSE [j EXCEPT !.left = Tail(@), !.at = "send", !.ptr = session[u]]]
      /\ UNCHANGED <<session, spent, link, selected, count, said, got, inbox, sendq, members,
                     queue, writing, stored, restarts, lost>>
  BY <1>1 DEF FanOut, clientVars, storeVars, faults
<1>3. j \in [at : {"read", "fan", "send"}, msg : {<<>>} \cup Message,
             left : Seq(User), ptr : Conn \cup {NoConn}]
  BY <1>1 DEF IInv, TypeOK
<1>4. /\ u \in User /\ Tail(j.left) \in Seq(User)
      /\ ToSet(j.left) = ToSet(Tail(j.left)) \cup {u}
      /\ IsInjective(Tail(j.left)) /\ u \notin ToSet(Tail(j.left))
  BY <1>1, <1>2, <1>3, TailFacts, InjectiveTail DEF IInv, ConnInOrder
<1>5. PICK k \in [at : {"fan", "send"}, msg : {<<>>} \cup Message,
                  left : Seq(User), ptr : Conn \cup {NoConn}] :
        /\ job' = [job EXCEPT ![c] = k] /\ k.msg = j.msg /\ k.left = Tail(j.left)
        /\ k.at = "send" => k.ptr = session[u] /\ session[u] # NoConn
  <2>1. CASE u = j.msg.from \/ session[u] = NoConn
    <3>1. [j EXCEPT !.left = Tail(@)] \in [at : {"fan"}, msg : {<<>>} \cup Message,
                                           left : Seq(User), ptr : Conn \cup {NoConn}]
      BY <1>2, <1>3, <1>4
    <3>2. QED
      BY <1>2, <1>3, <2>1, <3>1
  <2>2. CASE ~(u = j.msg.from \/ session[u] = NoConn)
    <3>1. session[u] \in Conn
      BY <1>4, <2>2 DEF IInv, TypeOK, PresenceTypeOK
    <3>2. [j EXCEPT !.left = Tail(@), !.at = "send", !.ptr = session[u]]
             \in [at : {"send"}, msg : {<<>>} \cup Message,
                  left : Seq(User), ptr : Conn \cup {NoConn}]
      BY <1>2, <1>3, <1>4, <3>1
    <3>3. PICK r : r = [j EXCEPT !.left = Tail(@), !.at = "send", !.ptr = session[u]]
      OBVIOUS
    <3>4. r.msg = j.msg /\ r.left = Tail(j.left) /\ r.ptr = session[u]
      BY <1>3, <3>3
    <3>5. job' = [job EXCEPT ![c] = r]
      BY <1>2, <2>2, <3>3
    <3>6. QED
      BY <2>2, <3>2, <3>3, <3>4, <3>5
  <2>3. QED
    BY <2>1, <2>2
<1>6. job'[c] = k /\ \A d \in Conn \ {c} : job'[d] = job[d] /\ inbox'[d] = inbox[d]
  BY <1>2, <1>5 DEF IInv, TypeOK
<1>7. Active(c) /\ Active(c)' /\ job'[c].msg = job[c].msg
  BY <1>1, <1>2, <1>5, <1>6 DEF Active
<1>8. TypeOK'
  <2>1. job' \in [Conn -> [at : {"read", "fan", "send"}, msg : {<<>>} \cup Message,
                           left : Seq(User), ptr : Conn \cup {NoConn}]]
    BY <1>5 DEF IInv, TypeOK
  <2>2. QED
    BY <1>2, <2>1 DEF IInv, TypeOK, PresenceTypeOK
<1>9. IsInjective(members') /\ (\A v \in User : UserInOrder(v)') /\ CounterNotAhead'
  BY <1>2 DEF IInv, UserInOrder, CounterNotAhead
<1>10. ASSUME NEW d \in Conn PROVE ConnInOrder(d)'
  <2>1. CASE d = c
    <3>1. c \in spent
      BY <1>1, <1>2 DEF IInv, ConnInOrder, Reading
    <3>2. k.at = "send" => k.ptr \in spent /\ Owner[k.ptr] \notin ToSet(k.left)
      BY <1>4, <1>5 DEF IInv, UserInOrder
    <3>3. IsInjective(job'[c].left)
      <4>1. job'[c].left = Tail(j.left)
        BY <1>5, <1>6
      <4>2. QED
        BY <1>4, <4>1
    <3>4. /\ session[Owner[c]] = c /\ job[c].msg \in Message /\ job[c].msg.from = Owner[c]
          /\ \A m \in ToSet(inbox[c]) : m.from = Owner[c]
      BY <1>7 DEF IInv, ConnInOrder
    <3>5. IsInjective(job[c].left)'
      BY <3>3 DEF IsInjective
    <3>6. job'[c].at = "send" => job'[c].ptr \in spent' /\ Owner[job'[c].ptr] \notin ToSet(job'[c].left)
      BY <1>2, <1>6, <3>2
    <3>7. c \in spent' /\ session'[Owner[c]] = c
      BY <1>2, <3>1, <3>4
    <3>8. job'[c].msg \in Message /\ job'[c].msg.from = Owner[c]
          /\ \A m \in ToSet(inbox'[c]) : m.from = Owner[c]
      BY <1>2, <1>7, <3>4
    <3>9. QED
      BY <2>1, <3>5, <3>6, <3>7, <3>8 DEF ConnInOrder
  <2>2. CASE d # c
    BY <1>2, <1>6, <2>2 DEF IInv, ConnInOrder, Active, IsInjective
  <2>3. QED
    BY <2>1, <2>2
<1>11. /\ \A v \in User : Seen(v)' = Seen(v) /\ ClientOrder(v)'
       /\ InStore' = InStore /\ StoreOrder'
  BY <1>2, SameClients, SameStore
<1>12. AllSaid'
  <2>1. ASSUME NEW d \in Conn PROVE Active(d)' => WasSaid(job'[d].msg)
    BY <1>6, <1>7 DEF IInv, AllSaid, Active
  <2>2. QED
    BY <1>2, <1>11, <2>1 DEF IInv, AllSaid, WasSaid
<1>13. JobOrder(c)'
  <2>1. ASSUME NEW v \in User, Pending(c, v)' PROVE Pending(c, v)
    <3>1. CASE v \in ToSet(k.left)
      BY <1>1, <1>4, <1>5, <3>1 DEF Pending
    <3>2. CASE k.at = "send" /\ k.ptr = session[v]
      <4>1. v = u
        BY <1>4, <1>5, <3>2 DEF IInv, UserInOrder
      <4>2. QED
        BY <1>1, <1>4, <4>1 DEF Pending
    <3>3. QED
      BY <1>2, <1>6, <2>1, <3>1, <3>2 DEF Pending
  <2>2. QED
    BY <1>7, <1>11, <2>1 DEF IInv, JobOrder, Prec
<1>14. InboxOrder(c)'
  BY <1>2, <1>7, <1>11 DEF IInv, InboxOrder, Prec, InSendOrder
<1>15. \A d \in Conn : JobOrder(d)' /\ InboxOrder(d)'
  BY <1>2, <1>6, <1>11, <1>13, <1>14, OtherConns
<1>16. QED
  BY <1>8, <1>9, <1>10, <1>11, <1>12, <1>15 DEF IInv

LEMMA TrySendStep == ASSUME IInv, NEW c \in Conn, TrySend(c) PROVE IInv'
<1> USE PresenceAssumption
<1>1. PICK m, p : m = job[c].msg /\ p = job[c].ptr
  OBVIOUS
<1>2. /\ job[c].at = "send"
      /\ sendq' = IF Len(sendq[p]) < SendCap
                  THEN [sendq EXCEPT ![p] = Append(@, m)] ELSE sendq
      /\ job' = [job EXCEPT ![c] = [job[c] EXCEPT !.at = "fan", !.ptr = NoConn]]
      /\ UNCHANGED <<session, spent, link, selected, count, said, got, inbox, members,
                     queue, writing, stored, restarts, lost>>
  BY <1>1 DEF TrySend, clientVars, storeVars, faults
<1>3. /\ Active(c) /\ session[Owner[c]] = c /\ m \in Message /\ m.from = Owner[c]
      /\ p \in Conn /\ p \in spent /\ Owner[p] \notin ToSet(job[c].left)
  BY <1>1, <1>2 DEF IInv, TypeOK, PresenceTypeOK, ConnInOrder, Active
<1>4. /\ job[c].left \in Seq(User) /\ sendq \in [Conn -> Seq(Message)]
      /\ Len(sendq[p]) <= SendCap /\ SendCap \in Nat /\ Len(sendq[p]) \in Nat
  <2>1. /\ job[c].left \in Seq(User) /\ sendq \in [Conn -> Seq(Message)]
        /\ Len(sendq[p]) <= SendCap
    BY <1>3 DEF IInv, TypeOK
  <2>2. SendCap \in Nat
    BY DeliveryAssumption
  <2>3. QED
    BY <1>3, <2>1, <2>2
<1>5. PICK k \in [at : {"fan"}, msg : {<<>>} \cup Message,
                  left : Seq(User), ptr : Conn \cup {NoConn}] :
        /\ job' = [job EXCEPT ![c] = k]
        /\ k.at = "fan" /\ k.msg = m /\ k.left = job[c].left
  <2>1. PICK j \in [at : {"read", "fan", "send"}, msg : {<<>>} \cup Message,
                    left : Seq(User), ptr : Conn \cup {NoConn}] : j = job[c]
    BY DEF IInv, TypeOK
  <2>2. PICK k : k = [j EXCEPT !.at = "fan", !.ptr = NoConn]
    OBVIOUS
  <2>3. /\ k \in [at : {"fan"}, msg : {<<>>} \cup Message,
                  left : Seq(User), ptr : Conn \cup {NoConn}]
        /\ k.at = "fan" /\ k.msg = j.msg /\ k.left = j.left
    BY <2>2
  <2>4. QED
    BY <1>1, <1>2, <2>1, <2>2, <2>3
<1>6. job'[c] = k /\ \A d \in Conn \ {c} : job'[d] = job[d] /\ inbox'[d] = inbox[d]
  BY <1>2, <1>5 DEF IInv, TypeOK
<1>7. Active(c)' /\ \A d \in Conn : Active(d)' = Active(d) /\ job'[d].msg = job[d].msg
  BY <1>1, <1>3, <1>5, <1>6 DEF Active
<1>8. /\ sendq' \in [Conn -> Seq(Message)]
      /\ \A d \in Conn : sendq'[d] # sendq[d] =>
           d = p /\ sendq'[d] = Append(sendq[d], m) /\ Len(sendq[p]) < SendCap
  BY <1>2, <1>3, <1>4
<1>9. \A d \in Conn : /\ ToSet(sendq'[d]) \subseteq ToSet(sendq[d]) \cup {m}
                      /\ d # p => sendq'[d] = sendq[d]
  <2> TAKE d \in Conn
  <2>1. ToSet(Append(sendq[d], m)) = ToSet(sendq[d]) \cup {m}
    BY <1>3, <1>4, AppendFacts
  <2>2. QED
    BY <1>8, <2>1
<1>10. \A v \in User : /\ Seen(v)' \subseteq Seen(v) \cup {m}
                       /\ session[v] # p => Seen(v)' \subseteq Seen(v)
  BY <1>2, <1>9 DEF Seen
<1>11. InStore' = InStore /\ StoreOrder'
  BY <1>2, SameStore
<1>12. TypeOK'
  <2>1. job' \in [Conn -> [at : {"read", "fan", "send"}, msg : {<<>>} \cup Message,
                           left : Seq(User), ptr : Conn \cup {NoConn}]]
    <3>1. k \in [at : {"read", "fan", "send"}, msg : {<<>>} \cup Message,
                 left : Seq(User), ptr : Conn \cup {NoConn}]
      BY <1>3, <1>4, <1>5
    <3>2. QED
      BY <1>5, <3>1 DEF IInv, TypeOK
  <2>2. \A d \in Conn : Len(sendq'[d]) <= SendCap
    <3> TAKE d \in Conn
    <3>1. CASE sendq'[d] = sendq[d]
      BY <3>1 DEF IInv, TypeOK
    <3>2. CASE d = p /\ sendq'[d] = Append(sendq[d], m) /\ Len(sendq[p]) < SendCap
      BY <1>3, <1>4, <3>2, AppendFacts
    <3>3. QED
      BY <1>8, <3>1, <3>2
  <2>3. QED
    BY <1>2, <1>8, <2>1, <2>2 DEF IInv, TypeOK, PresenceTypeOK
<1>13. IsInjective(members') /\ (\A v \in User : UserInOrder(v)') /\ CounterNotAhead'
  BY <1>2 DEF IInv, UserInOrder, CounterNotAhead
<1>14. ASSUME NEW d \in Conn PROVE ConnInOrder(d)'
  <2>1. job'[d].left = job[d].left
    BY <1>5, <1>6
  <2>2. d \notin spent => sendq'[d] = sendq[d] /\ job'[d] = job[d]
    BY <1>2, <1>3, <1>6, <1>9 DEF IInv, ConnInOrder, Reading
  <2>3. job'[d].at = "send" => job'[d] = job[d]
    BY <1>5, <1>6
  <2>4. IsInjective(job[d].left)'
    BY <2>1 DEF IInv, ConnInOrder, IsInjective
  <2>5. ConnInOrder(d)
    BY DEF IInv
  <2>6. d \notin spent' => inbox'[d] = <<>> /\ sendq'[d] = <<>> /\ job'[d] = Reading
    BY <1>2, <2>2, <2>5 DEF ConnInOrder
  <2>7. Active(d)' => /\ session'[Owner[d]] = d
                      /\ job'[d].msg \in Message /\ job'[d].msg.from = Owner[d]
    BY <1>2, <1>7, <2>5 DEF ConnInOrder
  <2>8. job'[d].at = "send" => /\ job'[d].ptr \in spent'
                               /\ Owner[job'[d].ptr] \notin ToSet(job'[d].left)
    BY <1>2, <2>3, <2>5 DEF ConnInOrder
  <2>9. \A x \in ToSet(inbox'[d]) : x.from = Owner[d]
    BY <1>2, <2>5 DEF ConnInOrder
  <2>10. QED
    BY <2>4, <2>6, <2>7, <2>8, <2>9 DEF ConnInOrder
<1>15. AllSaid'
  <2>1. WasSaid(m)
    BY <1>1, <1>3 DEF IInv, AllSaid
  <2>2. ASSUME NEW d \in Conn PROVE /\ \A x \in ToSet(inbox'[d]) \cup ToSet(sendq'[d]) : WasSaid(x)
                                    /\ Active(d)' => WasSaid(job'[d].msg)
    BY <1>2, <1>7, <1>9, <2>1 DEF IInv, AllSaid
  <2>3. QED
    BY <1>2, <1>11, <2>2 DEF IInv, AllSaid, WasSaid
<1>16. ASSUME NEW v \in User, session[v] = p PROVE Prec(Seen(v), {m})
  BY <1>1, <1>2, <1>3, <1>16 DEF IInv, JobOrder, Pending, Prec
<1>17. ASSUME NEW v \in User PROVE ClientOrder(v)'
  <2>1. InSendOrder(got[v])'
    BY <1>2 DEF IInv, ClientOrder, InSendOrder
  <2>2. ASSUME NEW d \in Conn, session[v] = d
        PROVE  InSendOrder(sendq'[d]) /\ Prec(ToSet(got[v]), ToSet(sendq'[d]))
    <3>1. InSendOrder(sendq[d]) /\ Prec(ToSet(got[v]), ToSet(sendq[d]))
      BY <2>2 DEF IInv, ClientOrder
    <3>2. CASE sendq'[d] = sendq[d]
      BY <3>1, <3>2
    <3>3. CASE d = p /\ sendq'[d] = Append(sendq[d], m)
      <4>1. ToSet(got[v]) \subseteq Seen(v) /\ ToSet(sendq[d]) \subseteq Seen(v)
        BY <1>4, <2>2, Elements DEF IInv, TypeOK, Seen
      <4>2. Prec(ToSet(got[v]), {m}) /\ Prec(ToSet(sendq[d]), {m})
        BY <1>16, <2>2, <3>3, <4>1 DEF Prec
      <4>3. InSendOrder(sendq'[d])
        BY <1>3, <1>4, <3>1, <3>3, <4>2, OrderAppend
      <4>4. QED
        BY <1>9, <3>1, <4>2, <4>3 DEF Prec
    <3>4. QED
      BY <1>8, <3>2, <3>3
  <2>3. ASSUME NEW d \in Conn, session[v]' = d
        PROVE  InSendOrder(sendq[d])' /\ Prec(ToSet(got[v]), ToSet(sendq[d]))'
    BY <1>2, <2>2, <2>3 DEF InSendOrder, Prec
  <2>4. QED
    BY <2>1, <2>3 DEF ClientOrder
<1>18. ASSUME NEW d \in Conn PROVE JobOrder(d)'
  <2> SUFFICES ASSUME Active(d) PROVE JobOrder(d)'
    BY <1>7 DEF JobOrder
  <2>1. /\ Prec(InStore, {job[d].msg})
        /\ \A v \in User : \A x \in Seen(v) :
             x.from = job[d].msg.from =>
               /\ x.k <= job[d].msg.k
               /\ Pending(d, v) => x.k < job[d].msg.k
    BY DEF IInv, JobOrder
  <2>2. CASE d = c
    <3>1. m.k \in Nat
      BY <1>3 DEF Message
    <3>2. ASSUME NEW v \in User, Pending(c, v)' PROVE Pending(c, v) /\ session[v] # p
      <4>1. v \in ToSet(job[c].left)
        BY <1>5, <1>6, <3>2 DEF Pending
      <4>2. QED
        BY <1>3, <4>1 DEF IInv, UserInOrder, Pending
    <3>3. ASSUME NEW v \in User, NEW x \in Seen(v)', x.from = m.from
          PROVE  x.k <= m.k /\ (Pending(c, v)' => x.k < m.k)
      BY <1>1, <1>10, <2>1, <2>2, <3>1, <3>2, <3>3
    <3>4. QED
      BY <1>1, <1>7, <1>11, <2>1, <2>2, <3>3 DEF JobOrder, Prec
  <2>3. CASE d # c
    <3>1. m.from # job[d].msg.from
      BY <1>3, <2>3 DEF IInv, ConnInOrder
    <3>2. \A v \in User : Pending(d, v)' = Pending(d, v)
      BY <1>2, <1>6, <2>3 DEF Pending
    <3>3. ASSUME NEW v \in User, NEW x \in Seen(v)', x.from = job[d].msg.from
          PROVE  /\ x.k <= job[d].msg.k
                 /\ Pending(d, v)' => x.k < job[d].msg.k
      BY <1>10, <2>1, <3>1, <3>2, <3>3
    <3>4. QED
      BY <1>7, <1>11, <2>1, <3>3 DEF JobOrder, Prec
  <2>4. QED
    BY <2>2, <2>3
<1>19. ASSUME NEW d \in Conn PROVE InboxOrder(d)'
  <2> SUFFICES ASSUME session[Owner[d]] = d PROVE InboxOrder(d)'
    BY <1>2 DEF InboxOrder
  <2>1. /\ InSendOrder(inbox[d]) /\ Prec(InStore, ToSet(inbox[d]))
        /\ \A v \in User : Prec(Seen(v), ToSet(inbox[d]))
        /\ Active(d) => Prec({job[d].msg}, ToSet(inbox[d]))
    BY DEF IInv, InboxOrder
  <2>2. Prec({m}, ToSet(inbox[d]))
    <3>1. CASE d = c
      BY <1>1, <1>3, <2>1, <3>1
    <3>2. CASE d # c
      BY <1>3, <3>2 DEF IInv, ConnInOrder, Prec
    <3>3. QED
      BY <3>1, <3>2
  <2>3. \A v \in User : Prec(Seen(v)', ToSet(inbox[d]))
    BY <1>10, <2>1, <2>2 DEF Prec
  <2>4. QED
    BY <1>2, <1>7, <1>11, <2>1, <2>3 DEF InboxOrder, Prec, InSendOrder
<1>20. QED
  BY <1>11, <1>12, <1>13, <1>14, <1>15, <1>17, <1>18, <1>19 DEF IInv

LEMMA EnqueueStep == ASSUME IInv, NEW c \in Conn, Enqueue(c) PROVE IInv'
<1> USE PresenceAssumption
<1>1. PICK m : m = job[c].msg
  OBVIOUS
<1>2. /\ job[c].at = "fan" /\ job' = [job EXCEPT ![c] = Reading]
      /\ \/ Len(queue) < QueueCap /\ queue' = Append(queue, m) /\ lost' = lost
         \/ queue' = queue /\ lost' = lost \cup {m}
      /\ UNCHANGED <<session, spent, link, selected, count, said, got, inbox, sendq, members,
                     writing, stored, restarts>>
  BY <1>1 DEF Enqueue, clientVars
<1>3. /\ Active(c) /\ session[Owner[c]] = c /\ m \in Message /\ m.from = Owner[c]
      /\ queue \in Seq(Message) /\ QueueCap \in Nat /\ Len(queue) \in Nat
      /\ Len(queue) <= QueueCap
  <2>1. Active(c) /\ ConnInOrder(c)
    BY <1>2 DEF IInv, Active
  <2>2. queue \in Seq(Message) /\ Len(queue) <= QueueCap /\ QueueCap \in Nat
    BY DeliveryAssumption DEF IInv, TypeOK
  <2>3. QED
    BY <1>1, <2>1, <2>2 DEF ConnInOrder
<1>4. job'[c] = Reading /\ \A d \in Conn \ {c} : job'[d] = job[d]
  BY <1>2 DEF IInv, TypeOK
<1>5. ~Active(c)' /\ \A d \in Conn \ {c} : Active(d)' = Active(d) /\ job'[d].msg = job[d].msg
  BY <1>4 DEF Active, Reading
<1>6. /\ queue' = queue \/ queue' = Append(queue, m)
      /\ queue' \in Seq(Message) /\ Len(queue') <= QueueCap
      /\ ToSet(queue') \subseteq ToSet(queue) \cup {m}
  <2>1. /\ Append(queue, m) \in Seq(Message) /\ Len(Append(queue, m)) = Len(queue) + 1
        /\ ToSet(Append(queue, m)) = ToSet(queue) \cup {m}
    BY <1>3, AppendFacts
  <2>2. CASE Len(queue) < QueueCap /\ queue' = Append(queue, m)
    BY <1>3, <2>1, <2>2
  <2>3. CASE queue' = queue
    BY <1>3, <2>3
  <2>4. QED
    BY <1>2, <2>2, <2>3
<1>7. InStore' \subseteq InStore \cup {m}
  BY <1>2, <1>6 DEF InStore
<1>8. TypeOK'
  <2>1. lost' \subseteq Message
    BY <1>2, <1>3 DEF IInv, TypeOK
  <2>2. job' \in [Conn -> [at : {"read", "fan", "send"}, msg : {<<>>} \cup Message,
                           left : Seq(User), ptr : Conn \cup {NoConn}]]
    BY <1>2 DEF IInv, TypeOK, Reading
  <2>3. QED
    BY <1>2, <1>6, <2>1, <2>2 DEF IInv, TypeOK, PresenceTypeOK
<1>9. IsInjective(members') /\ (\A v \in User : UserInOrder(v)') /\ CounterNotAhead'
  BY <1>2 DEF IInv, UserInOrder, CounterNotAhead
<1>10. ASSUME NEW d \in Conn PROVE ConnInOrder(d)'
  <2>1. CASE d = c
    <3>1. IsInjective(job[c].left)'
      BY <1>4 DEF IsInjective, Reading
    <3>2. QED
      BY <1>2, <1>4, <1>5, <2>1, <3>1 DEF IInv, ConnInOrder, Reading
  <2>2. CASE d # c
    BY <1>2, <1>4, <2>2 DEF IInv, ConnInOrder, Active, IsInjective
  <2>3. QED
    BY <2>1, <2>2
<1>11. \A v \in User : Seen(v)' = Seen(v) /\ ClientOrder(v)'
  BY <1>2, SameClients
<1>12. AllSaid'
  <2>1. WasSaid(m)
    BY <1>1, <1>3 DEF IInv, AllSaid
  <2>2. \A d \in Conn : Active(d)' => WasSaid(job'[d].msg)
    BY <1>5 DEF IInv, AllSaid
  <2>3. \A x \in InStore' : WasSaid(x)
    BY <1>7, <2>1 DEF IInv, AllSaid
  <2>4. QED
    BY <1>2, <2>2, <2>3 DEF IInv, AllSaid, WasSaid
<1>13. Prec(InStore, {m})
  BY <1>1, <1>3 DEF IInv, JobOrder
<1>14. StoreOrder'
  <2>1. /\ Prec(ToSet(stored), {m}) /\ Prec(ToSet(writing), {m}) /\ Prec(ToSet(queue), {m})
    BY <1>13 DEF InStore, Prec
  <2>2. InSendOrder(queue')
    BY <1>3, <1>6, <2>1, OrderAppend DEF IInv, StoreOrder
  <2>3. Prec(ToSet(stored), ToSet(queue')) /\ Prec(ToSet(writing), ToSet(queue'))
    BY <1>6, <2>1 DEF IInv, StoreOrder, Prec
  <2>4. QED
    BY <1>2, <2>2, <2>3 DEF IInv, StoreOrder, InSendOrder, Prec
<1>15. ASSUME NEW d \in Conn PROVE JobOrder(d)'
  <2>1. CASE d = c
    BY <1>5, <2>1 DEF JobOrder
  <2>2. CASE d # c /\ Active(d)
    <3>1. m.from # job[d].msg.from
      BY <1>3, <2>2 DEF IInv, ConnInOrder
    <3>2. Prec(InStore', {job[d].msg})
      BY <1>7, <2>2, <3>1 DEF IInv, JobOrder, Prec
    <3>3. \A v \in User : Pending(d, v)' = Pending(d, v)
      BY <1>2, <1>4, <2>2 DEF Pending
    <3>4. QED
      BY <1>5, <1>11, <2>2, <3>2, <3>3 DEF IInv, JobOrder, Prec
  <2>3. CASE d # c /\ ~Active(d)
    BY <1>5, <2>3 DEF JobOrder
  <2>4. QED
    BY <2>1, <2>2, <2>3
<1>16. ASSUME NEW d \in Conn PROVE InboxOrder(d)'
  <2> SUFFICES ASSUME session[Owner[d]] = d PROVE InboxOrder(d)'
    BY <1>2 DEF InboxOrder
  <2>1. /\ InSendOrder(inbox[d]) /\ Prec(InStore, ToSet(inbox[d]))
        /\ \A v \in User : Prec(Seen(v), ToSet(inbox[d]))
        /\ Active(d) => Prec({job[d].msg}, ToSet(inbox[d]))
    BY DEF IInv, InboxOrder
  <2>2. Prec({m}, ToSet(inbox[d]))
    <3>1. CASE d = c
      BY <1>1, <1>3, <2>1, <3>1
    <3>2. CASE d # c
      BY <1>3, <3>2 DEF IInv, ConnInOrder, Prec
    <3>3. QED
      BY <3>1, <3>2
  <2>3. Prec(InStore', ToSet(inbox[d]))
    BY <1>7, <2>1, <2>2 DEF Prec
  <2>4. Active(d)' => Active(d) /\ job'[d].msg = job[d].msg
    BY <1>5
  <2>5. QED
    BY <1>2, <1>11, <2>1, <2>3, <2>4 DEF InboxOrder, Prec, InSendOrder
<1>17. QED
  BY <1>8, <1>9, <1>10, <1>11, <1>12, <1>14, <1>15, <1>16 DEF IInv

LEMMA DisconnectStep == ASSUME IInv, NEW c \in Conn, Disconnect(c) PROVE IInv'
<1> USE PresenceAssumption
<1>1. /\ session[Owner[c]] = c /\ ~Active(c) /\ Owner[c] \in User
      /\ session' = [session EXCEPT ![Owner[c]] = NoConn]
      /\ UNCHANGED <<spent, link, selected, count, said, got, inbox, job, sendq, members,
                     queue, writing, stored, restarts, lost>>
  BY DEF Disconnect, Close, Active, clientVars, storeVars, faults
<1>2. \A v \in User : session'[v] = session[v] \/ session'[v] = NoConn
  BY <1>1 DEF IInv, TypeOK, PresenceTypeOK
<1>3. TypeOK'
  BY <1>1 DEF IInv, TypeOK, PresenceTypeOK
<1>4. IsInjective(members') /\ (\A v \in User : UserInOrder(v)') /\ CounterNotAhead'
  BY <1>1, <1>2 DEF IInv, UserInOrder, CounterNotAhead
<1>5. ASSUME NEW d \in Conn PROVE ConnInOrder(d)'
  <2>1. Active(d) => session'[Owner[d]] = d
    BY <1>1 DEF IInv, TypeOK, PresenceTypeOK, ConnInOrder
  <2>2. QED
    BY <1>1, <2>1 DEF IInv, ConnInOrder, Active, IsInjective
<1>6. AllSaid'
  BY <1>1, SameSaid
<1>7. ASSUME NEW v \in User PROVE Seen(v)' \subseteq Seen(v) /\ ClientOrder(v)'
  BY <1>1, <1>2 DEF IInv, Seen, ClientOrder, InSendOrder, Prec
<1>8. InStore' = InStore /\ StoreOrder'
  BY <1>1, SameStore
<1>9. ASSUME NEW d \in Conn, NEW v \in User, Active(d), Pending(d, v)' PROVE Pending(d, v)
  BY <1>1, <1>2, <1>9 DEF IInv, TypeOK, PresenceTypeOK, ConnInOrder, Pending
<1>10. \A d \in Conn : session'[Owner[d]] = d => session[Owner[d]] = d
  BY <1>2
<1>11. \A d \in Conn : JobOrder(d)' /\ InboxOrder(d)'
  BY <1>1, <1>7, <1>8, <1>9, <1>10, Fewer
<1>12. QED
  BY <1>3, <1>4, <1>5, <1>6, <1>7, <1>8, <1>11 DEF IInv

-----------------------------------------------------------------------------
(* Delivery to the client, and the database writer. *)

LEMMA DeliverStep == ASSUME IInv, NEW c \in Conn, Deliver(c) PROVE IInv'
<1> USE PresenceAssumption
<1>1. PICK u, m : u = Owner[c] /\ m = Head(sendq[c])
  OBVIOUS
<1>2. /\ sendq[c] # <<>> /\ session[u] = c /\ u \in User
      /\ got' = [got EXCEPT ![u] = Append(@, m)]
      /\ sendq' = [sendq EXCEPT ![c] = Tail(@)]
      /\ UNCHANGED <<session, spent, link, selected, count, said, inbox, job, members,
                     queue, writing, stored, restarts, lost>>
  BY <1>1 DEF Deliver, storeVars, faults
<1>3. sendq \in [Conn -> Seq(Message)] /\ got \in [User -> Seq(Message)]
  BY DEF IInv, TypeOK
<1>4. /\ m \in Message /\ Tail(sendq[c]) \in Seq(Message)
      /\ Len(Tail(sendq[c])) <= Len(sendq[c]) /\ Len(Tail(sendq[c])) \in Nat
      /\ ToSet(sendq[c]) = ToSet(Tail(sendq[c])) \cup {m}
  BY <1>1, <1>2, <1>3, TailFacts
<1>5. /\ Append(got[u], m) \in Seq(Message)
      /\ ToSet(Append(got[u], m)) = ToSet(got[u]) \cup {m}
  BY <1>2, <1>3, <1>4, AppendFacts
<1>6. /\ sendq'[c] = Tail(sendq[c]) /\ \A d \in Conn \ {c} : sendq'[d] = sendq[d]
      /\ got'[u] = Append(got[u], m) /\ \A v \in User \ {u} : got'[v] = got[v]
  BY <1>2, <1>3
<1>7. TypeOK'
  <2>1. sendq' \in [Conn -> Seq(Message)] /\ got' \in [User -> Seq(Message)]
    BY <1>2, <1>3, <1>4, <1>5
  <2>2. \A d \in Conn : Len(sendq'[d]) <= SendCap
    <3> TAKE d \in Conn
    <3>1. Len(sendq[d]) <= SendCap /\ Len(sendq[d]) \in Nat /\ SendCap \in Nat
      BY <1>3, DeliveryAssumption DEF IInv, TypeOK
    <3>2. Len(sendq'[d]) <= Len(sendq[d]) /\ Len(sendq'[d]) \in Nat
      <4>1. CASE d = c
        BY <1>4, <1>6, <4>1
      <4>2. CASE d # c
        BY <1>6, <3>1, <4>2
      <4>3. QED
        BY <4>1, <4>2
    <3>3. QED
      BY <3>1, <3>2
  <2>3. QED
    BY <1>2, <2>1, <2>2 DEF IInv, TypeOK, PresenceTypeOK
<1>8. IsInjective(members') /\ (\A v \in User : UserInOrder(v)') /\ CounterNotAhead'
  BY <1>2 DEF IInv, UserInOrder, CounterNotAhead
<1>9. ASSUME NEW d \in Conn PROVE ConnInOrder(d)'
  <2>1. d \notin spent => sendq'[d] = <<>>
    BY <1>2, <1>6 DEF IInv, ConnInOrder, UserInOrder
  <2>2. QED
    BY <1>2, <2>1 DEF IInv, ConnInOrder, Active, IsInjective
<1>10. AllSaid'
  <2>1. \A d \in Conn : ToSet(sendq'[d]) \subseteq ToSet(sendq[d])
    BY <1>4, <1>6
  <2>2. WasSaid(m)
    BY <1>4 DEF IInv, AllSaid
  <2>3. \A v \in User : \A x \in ToSet(got'[v]) : WasSaid(x)
    BY <1>5, <1>6, <2>2 DEF IInv, AllSaid
  <2>4. QED
    BY <1>2, <2>1, <2>3 DEF IInv, AllSaid, WasSaid, Active, InStore
<1>11. ASSUME NEW v \in User PROVE Seen(v)' \subseteq Seen(v)
  <2>1. \A d \in Conn : ToSet(sendq'[d]) \subseteq ToSet(sendq[d])
    BY <1>4, <1>6
  <2>2. \A x \in ToSet(got'[v]) : x \in ToSet(got[v]) \/ (v = u /\ x = m)
    BY <1>5, <1>6
  <2>3. QED
    BY <1>2, <1>4, <2>1, <2>2 DEF Seen
<1>12. ASSUME NEW v \in User PROVE ClientOrder(v)'
  <2>1. /\ InSendOrder(got[v])
        /\ \A d \in Conn : session[v] = d => /\ InSendOrder(sendq[d])
                                             /\ Prec(ToSet(got[v]), ToSet(sendq[d]))
    BY DEF IInv, ClientOrder
  <2>2. CASE v = u
    <3>1. InSendOrder(sendq[c]) /\ Prec(ToSet(got[u]), ToSet(sendq[c]))
      BY <1>2, <2>1, <2>2
    <3>2. InSendOrder(got'[u])
      <4>1. Prec(ToSet(got[u]), {m})
        BY <1>4, <3>1 DEF Prec
      <4>2. QED
        BY <1>2, <1>3, <1>4, <1>6, <2>1, <2>2, <4>1, OrderAppend
    <3>3. InSendOrder(sendq'[c]) /\ Prec({m}, ToSet(sendq'[c]))
      BY <1>1, <1>2, <1>3, <1>6, <3>1, OrderTail
    <3>4. Prec(ToSet(got'[u]), ToSet(sendq'[c]))
      BY <1>4, <1>5, <1>6, <3>1, <3>3 DEF Prec
    <3>5. InSendOrder(got[v])'
      BY <2>2, <3>2 DEF InSendOrder
    <3>6. ASSUME NEW d \in Conn, session'[v] = d
          PROVE  InSendOrder(sendq[d])' /\ Prec(ToSet(got[v]), ToSet(sendq[d]))'
      <4>1. d = c
        BY <1>2, <2>2, <3>6
      <4>2. QED
        BY <2>2, <3>3, <3>4, <4>1 DEF InSendOrder, Prec
    <3>7. QED
      BY <3>5, <3>6 DEF ClientOrder
  <2>3. CASE v # u
    <3>1. session[v] # c
      BY <1>1, <1>2, <2>3 DEF IInv, UserInOrder, TypeOK
    <3>2. QED
      BY <1>2, <1>6, <2>1, <2>3, <3>1 DEF ClientOrder, InSendOrder, Prec
  <2>4. QED
    BY <2>2, <2>3
<1>13. InStore' = InStore /\ StoreOrder'
  BY <1>2, SameStore
<1>14. \A d \in Conn : JobOrder(d)' /\ InboxOrder(d)'
  <2>1. \A d \in Conn : \A v \in User : Active(d) /\ Pending(d, v)' => Pending(d, v)
    BY <1>2 DEF Pending
  <2>2. QED
    BY <1>2, <1>11, <1>13, <2>1, Fewer
<1>15. QED
  BY <1>7, <1>8, <1>9, <1>10, <1>12, <1>13, <1>14 DEF IInv

(* The writer moves payloads on, and touches nothing else. *)
LEMMA StoreStep ==
  ASSUME IInv, InStore' \subseteq InStore, StoreOrder',
         queue' \in Seq(Message) /\ Len(queue') <= QueueCap,
         writing' \in Seq(Message), stored' \in Seq(Message), lost' \subseteq Message,
         UNCHANGED <<session, spent, link, selected, count, said, got, inbox, job, sendq,
                     members, restarts>>
  PROVE  IInv'
<1>1. TypeOK'
  BY DEF IInv, TypeOK, PresenceTypeOK
<1>2. IsInjective(members') /\ (\A v \in User : UserInOrder(v)') /\ CounterNotAhead'
  BY DEF IInv, UserInOrder, CounterNotAhead
<1>3. \A c \in Conn : ConnInOrder(c)'
  BY SameConns
<1>4. AllSaid'
  BY DEF IInv, AllSaid, WasSaid, Active
<1>5. \A v \in User : Seen(v)' = Seen(v) /\ ClientOrder(v)'
  BY SameClients
<1>6. \A c \in Conn : JobOrder(c)' /\ InboxOrder(c)'
  <2>1. \A c \in Conn : \A v \in User : Active(c) /\ Pending(c, v)' => Pending(c, v)
    BY DEF Pending
  <2>2. QED
    BY <1>5, <2>1, Fewer
<1>7. QED
  BY <1>1, <1>2, <1>3, <1>4, <1>5, <1>6 DEF IInv

LEMMA WriterStep == ASSUME IInv, Writer PROVE IInv'
<1> USE EmptyFacts
<1>1. /\ queue \in Seq(Message) /\ writing \in Seq(Message) /\ stored \in Seq(Message)
      /\ lost \subseteq Message /\ Len(queue) <= QueueCap /\ Len(queue) \in Nat
      /\ QueueCap \in Nat
  BY DeliveryAssumption DEF IInv, TypeOK
<1>2. /\ InSendOrder(stored) /\ InSendOrder(queue) /\ Len(writing) <= 1
      /\ Prec(ToSet(stored), ToSet(writing)) /\ Prec(ToSet(stored), ToSet(queue))
      /\ Prec(ToSet(writing), ToSet(queue))
  BY DEF IInv, StoreOrder
<1>3. CASE WriterTake
  <2>1. PICK m : m = Head(queue)
    OBVIOUS
  <2>2. /\ writing = <<>> /\ queue # <<>> /\ writing' = <<m>> /\ queue' = Tail(queue)
        /\ UNCHANGED <<session, spent, link, selected, count, said, got, inbox, job, sendq,
                       members, stored, restarts, lost>>
    BY <1>3, <2>1 DEF WriterTake, clientVars, faults
  <2>3. /\ m \in Message /\ queue' \in Seq(Message) /\ Len(queue') <= QueueCap
        /\ ToSet(queue) = ToSet(queue') \cup {m}
        /\ InSendOrder(queue') /\ Prec({m}, ToSet(queue'))
    BY <1>1, <1>2, <2>1, <2>2, TailFacts, OrderTail
  <2>4. /\ writing' \in Seq(Message) /\ Len(writing') = 1 /\ ToSet(writing') = {m}
    BY <2>2, <2>3 DEF ToSet
  <2>5. InStore' \subseteq InStore
    BY <2>2, <2>3, <2>4 DEF InStore
  <2>6. Prec(ToSet(stored), {m}) /\ Prec(ToSet(stored), ToSet(queue'))
    BY <1>2, <2>3 DEF Prec
  <2>7. StoreOrder'
    BY <1>2, <2>2, <2>3, <2>4, <2>6 DEF StoreOrder, InSendOrder, Prec
  <2>8. QED
    BY <1>1, <2>2, <2>3, <2>4, <2>5, <2>7, StoreStep
<1>4. CASE WriterInsert
  <2>1. /\ stored' = stored \/ stored' = stored \o writing
        /\ writing' = <<>>
        /\ UNCHANGED <<session, spent, link, selected, count, said, got, inbox, job, sendq,
                       members, queue, restarts, lost>>
    BY <1>4 DEF WriterInsert, clientVars, faults
  <2>2. InSendOrder(writing)
    BY <1>1, <1>2 DEF InSendOrder
  <2>3. stored \o writing \in Seq(Message) /\ InSendOrder(stored \o writing)
        /\ ToSet(stored \o writing) = ToSet(stored) \cup ToSet(writing)
    BY <1>1, <1>2, <2>2, OrderConcat
  <2>4. stored' \in Seq(Message) /\ InSendOrder(stored')
        /\ ToSet(stored') \subseteq ToSet(stored) \cup ToSet(writing)
    BY <1>1, <1>2, <2>1, <2>3
  <2>5. InStore' \subseteq InStore
    BY <2>1, <2>4 DEF InStore
  <2>6. Prec(ToSet(stored'), ToSet(queue))
    BY <1>2, <2>4 DEF Prec
  <2>7. StoreOrder'
    BY <1>2, <2>1, <2>4, <2>6 DEF StoreOrder, InSendOrder, Prec
  <2>8. QED
    BY <1>1, <2>1, <2>4, <2>5, <2>7, StoreStep
<1>5. CASE WriterFails
  <2>1. /\ writing' = <<>> /\ lost' = lost \cup ToSet(writing)
        /\ UNCHANGED <<session, spent, link, selected, count, said, got, inbox, job, sendq,
                       members, queue, stored, restarts>>
    BY <1>5 DEF WriterFails, clientVars
  <2>2. lost' \subseteq Message
    BY <1>1, <2>1, Elements
  <2>3. InStore' \subseteq InStore
    BY <2>1 DEF InStore
  <2>4. StoreOrder'
    BY <1>2, <2>1 DEF StoreOrder, InSendOrder, Prec
  <2>5. QED
    BY <1>1, <2>1, <2>2, <2>3, <2>4, StoreStep
<1>6. QED
  BY <1>3, <1>4, <1>5 DEF Writer

LEMMA RestartStep == ASSUME IInv, Restart PROVE IInv'
<1> USE EmptyFacts, PresenceAssumption
<1>1. PICK w \in {<<>>, writing} :
        /\ stored' = stored \o w
        /\ lost' = lost \cup (Handled \ ToSet(w))
  BY DEF Restart
<1>2. /\ restarts < MaxRestart /\ restarts' = restarts + 1
      /\ session' = [u \in User |-> NoConn] /\ inbox' = [c \in Conn |-> <<>>]
      /\ job' = [c \in Conn |-> Reading] /\ sendq' = [c \in Conn |-> <<>>]
      /\ queue' = <<>> /\ writing' = <<>>
      /\ UNCHANGED <<spent, link, selected, count, said, got, members>>
  BY DEF Restart, clientVars
<1>3. /\ writing \in Seq(Message) /\ stored \in Seq(Message) /\ queue \in Seq(Message)
      /\ InSendOrder(stored) /\ Len(writing) <= 1 /\ Prec(ToSet(stored), ToSet(writing))
  BY DEF IInv, TypeOK, StoreOrder
<1>4. w \in Seq(Message) /\ InSendOrder(w) /\ Prec(ToSet(stored), ToSet(w))
      /\ ToSet(w) \subseteq ToSet(writing)
  <2>1. CASE w = <<>>
    BY <2>1 DEF Prec
  <2>2. CASE w = writing
    <3>1. InSendOrder(writing)
      BY <1>3 DEF InSendOrder
    <3>2. QED
      BY <1>3, <2>2, <3>1
  <2>3. QED
    BY <1>1, <2>1, <2>2
<1>5. /\ stored' \in Seq(Message) /\ InSendOrder(stored')
      /\ ToSet(stored') \subseteq ToSet(stored) \cup ToSet(writing)
  BY <1>1, <1>3, <1>4, OrderConcat
<1>6. InStore' \subseteq InStore
  BY <1>2, <1>5 DEF InStore
<1>7. TypeOK'
  <2>1. Handled \subseteq Message
    BY <1>3, Elements DEF IInv, TypeOK, Handled
  <2>2. lost' \subseteq Message
    BY <1>1, <2>1 DEF IInv, TypeOK
  <2>3. restarts' \in 0 .. MaxRestart
    BY <1>2, DeliveryAssumption DEF IInv, TypeOK
  <2>4. Len(queue') <= QueueCap /\ \A c \in Conn : Len(sendq'[c]) <= SendCap
    BY <1>2, DeliveryAssumption
  <2>5. job' \in [Conn -> [at : {"read", "fan", "send"}, msg : {<<>>} \cup Message,
                           left : Seq(User), ptr : Conn \cup {NoConn}]]
    BY <1>2 DEF Reading
  <2>6. QED
    BY <1>2, <1>5, <2>2, <2>3, <2>4, <2>5 DEF IInv, TypeOK, PresenceTypeOK
<1>8. IsInjective(members') /\ (\A v \in User : UserInOrder(v)') /\ CounterNotAhead'
  BY <1>2 DEF IInv, UserInOrder, CounterNotAhead
<1>9. \A c \in Conn : /\ inbox'[c] = <<>> /\ sendq'[c] = <<>> /\ job'[c] = Reading
                      /\ ~Active(c)' /\ session'[Owner[c]] # c
  BY <1>2 DEF Active, Reading
<1>10. \A c \in Conn : ConnInOrder(c)'
  BY <1>9 DEF ConnInOrder, IsInjective, Reading
<1>11. AllSaid'
  BY <1>2, <1>6, <1>9 DEF IInv, AllSaid, WasSaid
<1>12. \A v \in User : ClientOrder(v)'
  BY <1>2 DEF IInv, ClientOrder, InSendOrder, Prec
<1>13. StoreOrder'
  BY <1>2, <1>5 DEF StoreOrder, InSendOrder, Prec
<1>14. \A c \in Conn : JobOrder(c)' /\ InboxOrder(c)'
  BY <1>9 DEF JobOrder, InboxOrder
<1>15. QED
  BY <1>7, <1>8, <1>10, <1>11, <1>12, <1>13, <1>14 DEF IInv

-----------------------------------------------------------------------------
(* The theorems. *)

LEMMA Invariance == Spec => []IInv
<1>1. IInv /\ [Next]_vars => IInv'
  <2> SUFFICES ASSUME IInv, [Next]_vars PROVE IInv'
    OBVIOUS
  <2>1. ASSUME NEW c \in Conn, Connect(c) \/ Handler(c) \/ Disconnect(c) \/ Deliver(c)
        PROVE  IInv'
    BY <2>1, ConnectStep, ReadMessageStep, ReadFailsStep, FanOutStep, TrySendStep,
       EnqueueStep, DisconnectStep, DeliverStep DEF Handler
  <2>2. ASSUME NEW u \in User, HangUp(u) \/ SelectRoom(u) \/ Say(u) \/ AcceptInvite(u)
        PROVE  IInv'
    BY <2>2, HangUpStep, SelectRoomStep, SayStep, AcceptInviteStep
  <2>3. CASE UNCHANGED vars
    <3>1. UNCHANGED <<session, spent, link, selected, count, said, got, inbox, job, sendq,
                      members, queue, writing, stored, restarts, lost>>
      BY <2>3 DEF vars, clientVars, storeVars, faults
    <3>2. InStore' \subseteq InStore /\ StoreOrder'
      BY <3>1, SameStore
    <3>3. QED
      BY <3>1, <3>2, StoreStep DEF IInv, TypeOK
  <2>4. QED
    BY <2>1, <2>2, <2>3, WriterStep, RestartStep DEF Next
<1>2. QED
  BY InitIInv, <1>1, PTL DEF Spec

(* The clients, handlers and tables of sendRoomMessage are well typed, and *)
(* no channel exceeds its capacity.                                        *)
THEOREM TypeCorrect == Spec => []TypeOK
<1>1. IInv => TypeOK
  BY DEF IInv
<1>2. QED
  BY <1>1, Invariance, PTL

(* sendRoomMessage keeps each sender's order at every client, over all the *)
(* connections of both and restarts of the broker.                         *)
THEOREM OrderAtClients == Spec => []PerSenderOrder
<1>1. IInv => PerSenderOrder
  BY DEF IInv, ClientOrder, PerSenderOrder
<1>2. QED
  BY <1>1, Invariance, PTL

(* The database writer keeps that order in room_messages. *)
THEOREM OrderInHistory == Spec => []HistoryInOrder
<1>1. IInv => HistoryInOrder
  BY DEF IInv, StoreOrder, HistoryInOrder
<1>2. QED
  BY <1>1, Invariance, PTL

(* SetSessionRoom never takes a counter from ahead of what was sent. *)
THEOREM CounterBehind == Spec => []CounterNotAhead
<1>1. IInv => CounterNotAhead
  BY DEF IInv
<1>2. QED
  BY <1>1, Invariance, PTL

-----------------------------------------------------------------------------
(* Delivery implements Conversation. *)

(* Whatever is under way to a user is from another one, and the user has   *)
(* joined.                                                                 *)
Joined == ToSet(members)
Addressed ==
  \A c \in Conn :
    /\ ToSet(job[c].left) \subseteq Joined
    /\ job[c].at = "send" => Owner[job[c].ptr] \in Joined \ {job[c].msg.from}
    /\ \A m \in ToSet(sendq[c]) : Owner[c] \in Joined \ {m.from}

LEMMA AddressedFrame ==
  ASSUME Addressed, Joined \subseteq Joined',
         \A c \in Conn : job'[c] \in {job[c], Reading} /\ ToSet(sendq'[c]) \subseteq ToSet(sendq[c])
  PROVE  Addressed'
BY EmptyFacts DEF Addressed, Reading

LEMMA AddressedStep ==
  ASSUME IInv, Addressed, [Next]_vars
  PROVE  Addressed'
<1> USE PresenceAssumption
<1>1. /\ sendq \in [Conn -> Seq(Message)] /\ members \in Seq(User)
      /\ job \in [Conn -> [at : {"read", "fan", "send"}, msg : {<<>>} \cup Message,
                           left : Seq(User), ptr : Conn \cup {NoConn}]]
  BY DEF IInv, TypeOK
<1>2. ASSUME UNCHANGED <<job, sendq, members>> PROVE Addressed'
  BY <1>2, AddressedFrame DEF Joined
<1>3. ASSUME NEW u \in User, AcceptInvite(u) PROVE Addressed'
  <2>1. members' = Append(members, u) /\ UNCHANGED <<job, sendq>>
    BY <1>3 DEF AcceptInvite
  <2>2. Joined \subseteq Joined'
    BY <1>1, <2>1, AppendFacts DEF Joined
  <2>3. QED
    BY <2>1, <2>2, AddressedFrame
<1>4. ASSUME NEW c \in Conn, ReadMessage(c) PROVE Addressed'
  <2>1. /\ job' = [job EXCEPT ![c] = [at |-> "fan", msg |-> Head(inbox[c]),
                                      left |-> members, ptr |-> NoConn]]
        /\ UNCHANGED <<sendq, members>>
    BY <1>4 DEF ReadMessage, ListRoomMembers
  <2>2. job'[c].left = members /\ job'[c].at = "fan"
    BY <1>1, <2>1
  <2>3. \A d \in Conn \ {c} : job'[d] = job[d]
    BY <1>1, <2>1
  <2>4. QED
    BY <2>1, <2>2, <2>3 DEF Addressed, Joined
<1>5. ASSUME NEW c \in Conn, FanOut(c) PROVE Addressed'
  <2>1. PICK j, u : j = job[c] /\ u = Head(j.left)
    OBVIOUS
  <2>2. /\ j.at = "fan" /\ j.left # <<>>
        /\ job' = [job EXCEPT ![c] =
             IF u = j.msg.from \/ session[u] = NoConn
             THEN [j EXCEPT !.left = Tail(@)]
             ELSE [j EXCEPT !.left = Tail(@), !.at = "send", !.ptr = session[u]]]
        /\ UNCHANGED <<sendq, members>>
    BY <1>5, <2>1 DEF FanOut
  <2>3. j \in [at : {"read", "fan", "send"}, msg : {<<>>} \cup Message,
               left : Seq(User), ptr : Conn \cup {NoConn}]
    BY <1>1, <2>1
  <2>4. u \in User /\ ToSet(j.left) = ToSet(Tail(j.left)) \cup {u}
    BY <2>1, <2>2, <2>3, TailFacts
  <2>5. ToSet(j.left) \subseteq Joined
    BY <2>1 DEF Addressed
  <2>6. ToSet(job'[c].left) \subseteq Joined
    <3>1. job'[c].left = Tail(j.left)
      BY <1>1, <2>2, <2>3
    <3>2. QED
      BY <2>4, <2>5, <3>1
  <2>7. job'[c].at = "send" => Owner[job'[c].ptr] \in Joined \ {job'[c].msg.from}
    <3>1. CASE u = j.msg.from \/ session[u] = NoConn
      <4>1. job'[c].at = "fan"
        BY <1>1, <2>2, <2>3, <3>1
      <4>2. QED
        BY <4>1
    <3>2. CASE u # j.msg.from /\ session[u] # NoConn
      <4>1. job'[c].ptr = session[u] /\ job'[c].msg = j.msg
        BY <1>1, <2>2, <2>3, <3>2
      <4>2. Owner[session[u]] = u
        BY <2>4, <3>2 DEF IInv, UserInOrder
      <4>3. QED
        BY <2>4, <2>5, <3>2, <4>1, <4>2
    <3>3. QED
      BY <3>1, <3>2
  <2>8. \A d \in Conn \ {c} : job'[d] = job[d]
    BY <1>1, <2>2
  <2>9. Joined' = Joined
    BY <2>2 DEF Joined
  <2>10. QED
    BY <2>2, <2>6, <2>7, <2>8, <2>9 DEF Addressed
<1>6. ASSUME NEW c \in Conn, TrySend(c) PROVE Addressed'
  <2>1. PICK j, p, m : j = job[c] /\ p = j.ptr /\ m = j.msg
    OBVIOUS
  <2>2. /\ j.at = "send" /\ UNCHANGED members
        /\ sendq' = IF Len(sendq[p]) < SendCap
                    THEN [sendq EXCEPT ![p] = Append(sendq[p], m)] ELSE sendq
        /\ job' = [job EXCEPT ![c] = [j EXCEPT !.at = "fan", !.ptr = NoConn]]
    BY <1>6, <2>1 DEF TrySend
  <2>3. /\ j \in [at : {"read", "fan", "send"}, msg : {<<>>} \cup Message,
                  left : Seq(User), ptr : Conn \cup {NoConn}]
        /\ m \in Message /\ p \in Conn
    BY <1>1, <2>1, <2>2 DEF IInv, TypeOK, PresenceTypeOK, ConnInOrder, Active
  <2>4. job'[c].left = j.left /\ job'[c].at = "fan"
    BY <1>1, <2>2, <2>3
  <2>5. \A d \in Conn \ {c} : job'[d] = job[d]
    BY <1>1, <2>2
  <2>6. Owner[p] \in Joined \ {m.from}
    BY <2>1, <2>2 DEF Addressed
  <2>7. ASSUME NEW d \in Conn, NEW x \in ToSet(sendq'[d])
        PROVE  x \in ToSet(sendq[d]) \/ (d = p /\ x = m)
    <3>1. sendq[p] \in Seq(Message)
      BY <1>1, <2>3
    <3>2. ToSet(Append(sendq[p], m)) = ToSet(sendq[p]) \cup {m}
      BY <2>3, <3>1, AppendFacts
    <3>3. sendq'[d] = sendq[d] \/ (d = p /\ sendq'[d] = Append(sendq[p], m))
      BY <1>1, <2>2
    <3>4. QED
      BY <2>7, <3>2, <3>3
  <2>8. Joined' = Joined
    BY <2>2 DEF Joined
  <2>9. \A d \in Conn : \A x \in ToSet(sendq'[d]) : Owner[d] \in Joined \ {x.from}
    BY <2>6, <2>7 DEF Addressed
  <2>10. ASSUME NEW d \in Conn
         PROVE  /\ ToSet(job'[d].left) \subseteq Joined
                /\ job'[d].at = "send" => Owner[job'[d].ptr] \in Joined \ {job'[d].msg.from}
    <3>1. CASE d = c
      BY <2>1, <2>4, <3>1 DEF Addressed
    <3>2. CASE d # c
      BY <2>5, <3>2 DEF Addressed
    <3>3. QED
      BY <3>1, <3>2
  <2>11. QED
    BY <2>8, <2>9, <2>10 DEF Addressed
<1>7. ASSUME NEW c \in Conn, Enqueue(c) PROVE Addressed'
  <2>1. job' = [job EXCEPT ![c] = Reading] /\ UNCHANGED <<sendq, members>>
    BY <1>7 DEF Enqueue
  <2>2. \A d \in Conn : job'[d] \in {job[d], Reading}
    BY <1>1, <2>1
  <2>3. QED
    BY <2>1, <2>2, AddressedFrame DEF Joined
<1>8. ASSUME NEW c \in Conn, Deliver(c) PROVE Addressed'
  <2>1. /\ sendq[c] # <<>> /\ sendq' = [sendq EXCEPT ![c] = Tail(sendq[c])]
        /\ UNCHANGED <<job, members>>
    BY <1>8 DEF Deliver
  <2>2. \A d \in Conn : ToSet(sendq'[d]) \subseteq ToSet(sendq[d])
    <3>1. ToSet(Tail(sendq[c])) \subseteq ToSet(sendq[c])
      <4>1. sendq[c] \in Seq(Message)
        BY <1>1
      <4>2. QED
        BY <2>1, <4>1, TailFacts
    <3>2. QED
      BY <1>1, <2>1, <3>1
  <2>3. QED
    BY <2>1, <2>2, AddressedFrame DEF Joined
<1>9. CASE Restart
  <2>1. /\ job' = [c \in Conn |-> Reading] /\ sendq' = [c \in Conn |-> <<>>]
        /\ UNCHANGED members
    BY <1>9 DEF Restart
  <2>2. \A c \in Conn : job'[c] = Reading /\ ToSet(sendq'[c]) = {}
    BY <2>1, EmptyFacts
  <2>3. QED
    BY <2>1, <2>2, AddressedFrame DEF Joined
<1>10. ASSUME \/ \E c \in Conn : Connect(c) \/ Disconnect(c) \/ ReadFails(c)
              \/ \E u \in User : HangUp(u) \/ SelectRoom(u) \/ Say(u)
              \/ Writer \/ UNCHANGED vars
       PROVE  UNCHANGED <<job, sendq, members>>
  BY <1>10 DEF Connect, Disconnect, ReadFails, HangUp, SelectRoom, Say, Writer, WriterTake,
               WriterInsert, WriterFails, vars
<1>11. QED
  BY <1>2, <1>3, <1>4, <1>5, <1>6, <1>7, <1>8, <1>9, <1>10 DEF Next, Handler

(* A message that was said is one Conversation speaks of. *)
LEMMA SaidMessage ==
  ASSUME TypeOK, NEW m \in Message, WasSaid(m)
  PROVE  \E s \in User : \E k \in 1 .. Len(said[s]) : m = [from |-> s, k |-> k]
<1>1. m.from \in User /\ m.k \in Nat \ {0} /\ m = [from |-> m.from, k |-> m.k]
  BY DEF Message
<1>2. Len(said[m.from]) \in Nat
  BY <1>1 DEF TypeOK
<1>3. m.k \in 1 .. Len(said[m.from])
  BY <1>1, <1>2 DEF WasSaid
<1>4. QED
  BY <1>1, <1>3

(* The row that gets into the history. *)
LEMMA RowIsKept ==
  ASSUME IInv, writing # <<>>, ~KeyTaken(Head(writing)), stored' = stored \o writing,
         UNCHANGED <<said, got, members>>
  PROVE  R!ConversationNext
<1>1. PICK m : m = Head(writing)
  OBVIOUS
<1>2. /\ writing \in Seq(Message) /\ stored \in Seq(Message) /\ Len(writing) <= 1
      /\ Prec(ToSet(stored), ToSet(writing))
  BY DEF IInv, TypeOK, StoreOrder
<1>3. m \in Message /\ Len(writing) = 1 /\ writing[1] = m
  <2>1. m \in Message /\ m = writing[1] /\ Len(writing) >= 1
    BY <1>1, <1>2, TailFacts
  <2>2. Len(writing) \in Nat /\ Len(writing) <= 1
    BY <1>2
  <2>3. Len(writing) = 1
    <3>1. PICK n : n = Len(writing)
      OBVIOUS
    <3>2. n \in Nat /\ n <= 1 /\ n >= 1
      BY <2>1, <2>2, <3>1
    <3>3. QED
      BY <3>1, <3>2
  <2>4. QED
    BY <2>1, <2>3
<1>4. stored \o writing = Append(stored, m)
  <2>1. writing = <<m>>
    BY <1>2, <1>3
  <2>2. QED
    BY <1>2, <2>1
<1>5. m \in ToSet(writing)
  BY <1>2, <1>3, InOrderMember
<1>6. WasSaid(m)
  BY <1>5 DEF IInv, AllSaid, InStore
<1>7. \A i \in DOMAIN stored : stored[i] \in ToSet(stored)
  BY DEF ToSet
<1>8. R!Follows(m, stored)
  BY <1>2, <1>5, <1>7 DEF R!Follows, Prec
<1>9. \A i \in DOMAIN stored : stored[i].from = m.from => R!Number(stored[i]) # R!Number(m)
  BY <1>1, <1>7 DEF KeyTaken, Counter, R!Number
<1>10. R!Keep(m)
  BY <1>4, <1>8, <1>9 DEF R!Keep
<1>11. QED
  BY <1>3, <1>6, <1>10, SaidMessage DEF IInv, R!ConversationNext

LEMMA ConversationStep ==
  ASSUME IInv, Addressed, [Next]_vars
  PROVE  [R!ConversationNext]_R!conversation
<1> USE PresenceAssumption
<1>1. ASSUME UNCHANGED <<said, got, stored, members>> PROVE UNCHANGED R!conversation
  BY <1>1 DEF R!conversation
<1>2. ASSUME NEW u \in User, AcceptInvite(u) PROVE R!Enter(u)
  <2>1. /\ ~Contains(members, u) /\ members' = Append(members, u) /\ members \in Seq(User)
        /\ UNCHANGED <<said, got, stored>>
    BY <1>2 DEF AcceptInvite, clientVars, storeVars, IInv, TypeOK
  <2>2. ToSet(members') = ToSet(members) \cup {u} /\ u \notin ToSet(members)
    BY <2>1, AppendFacts DEF Contains, ToSet
  <2>3. QED
    BY <2>1, <2>2 DEF R!Enter
<1>3. ASSUME NEW u \in User, Say(u) PROVE R!Utter(u)
  <2>1. /\ count[u] # NoRoom /\ said' = [said EXCEPT ![u] = Append(@, count[u])]
        /\ UNCHANGED <<got, stored, members>>
    BY <1>3 DEF Say, storeVars
  <2>2. count[u] \in Nat /\ count[u] <= Len(said[u]) /\ Len(said[u]) \in Nat
    BY <2>1 DEF IInv, TypeOK, CounterNotAhead
  <2>3. count[u] \in 0 .. Len(said[u])
    BY <2>2
  <2>4. QED
    BY <2>1, <2>3 DEF R!Utter
<1>4. ASSUME NEW c \in Conn, Deliver(c) PROVE R!ConversationNext
  <2>1. PICK u, m : u = Owner[c] /\ m = Head(sendq[c])
    OBVIOUS
  <2>2. /\ sendq[c] # <<>> /\ session[u] = c /\ u \in User /\ sendq[c] \in Seq(Message)
        /\ got' = [got EXCEPT ![u] = Append(@, m)]
        /\ UNCHANGED <<said, stored, members>>
    BY <1>4, <2>1 DEF Deliver, storeVars, IInv, TypeOK
  <2>3. m \in Message /\ m \in ToSet(sendq[c])
    BY <2>1, <2>2, TailFacts
  <2>4. WasSaid(m)
    BY <2>3 DEF IInv, AllSaid
  <2>5. u \in ToSet(members) \ {m.from}
    BY <2>1, <2>3 DEF Addressed, Joined
  <2>6. Prec(ToSet(got[u]), ToSet(sendq[c]))
    BY <2>2 DEF IInv, ClientOrder
  <2>7. R!Follows(m, got[u])
    <3>1. \A i \in DOMAIN got[u] : got[u][i] \in ToSet(got[u])
      BY DEF ToSet
    <3>2. QED
      BY <2>3, <2>6, <3>1 DEF R!Follows, Prec
  <2>8. R!Reach(m, u)
    BY <2>2, <2>5, <2>7 DEF R!Reach
  <2>9. QED
    BY <2>2, <2>3, <2>4, <2>8, SaidMessage DEF IInv, R!ConversationNext
<1>5. CASE WriterInsert
  <2>1. /\ writing # <<>> /\ UNCHANGED <<said, got, members>>
        /\ stored' = IF KeyTaken(Head(writing)) THEN stored ELSE stored \o writing
    BY <1>5 DEF WriterInsert, clientVars
  <2>2. CASE KeyTaken(Head(writing))
    BY <1>1, <2>1, <2>2
  <2>3. CASE ~KeyTaken(Head(writing))
    BY <2>1, <2>3, RowIsKept
  <2>4. QED
    BY <2>2, <2>3
<1>6. CASE Restart
  <2>1. PICK w \in {<<>>} \cup {w \in {writing} : w # <<>> /\ ~KeyTaken(Head(w))} :
          stored' = stored \o w
    BY <1>6 DEF Restart
  <2>2. UNCHANGED <<said, got, members>>
    BY <1>6 DEF Restart, clientVars
  <2>3. CASE w = <<>>
    <3>1. stored' = stored
      BY <2>1, <2>3 DEF IInv, TypeOK
    <3>2. QED
      BY <1>1, <2>2, <3>1
  <2>4. CASE w = writing /\ writing # <<>> /\ ~KeyTaken(Head(writing))
    BY <2>1, <2>2, <2>4, RowIsKept
  <2>5. QED
    BY <2>1, <2>3, <2>4
<1>7. ASSUME \/ \E c \in Conn : \/ Connect(c) \/ Disconnect(c) \/ ReadMessage(c) \/ ReadFails(c)
                                \/ FanOut(c) \/ TrySend(c) \/ Enqueue(c)
             \/ \E u \in User : HangUp(u) \/ SelectRoom(u)
             \/ WriterTake \/ WriterFails \/ UNCHANGED vars
      PROVE  UNCHANGED <<said, got, stored, members>>
  BY <1>7 DEF Connect, Disconnect, ReadMessage, ReadFails, FanOut, TrySend, Enqueue, HangUp,
              SelectRoom, WriterTake, WriterFails, vars, clientVars, storeVars
<1>8. QED
  BY <1>1, <1>2, <1>3, <1>4, <1>5, <1>6, <1>7 DEF Next, Handler, Writer, R!ConversationNext

(* Clients, handlers, queues and the database writer implement a           *)
(* conversation: what reaches a client or the history was said, once, in   *)
(* its sender's order, and reaches others who have joined.                 *)
THEOREM DeliveryImplementsConversation == Spec => ImplementsConversation
<1>1. Init => R!ConversationInit /\ Addressed
  <2> SUFFICES ASSUME Init PROVE R!ConversationInit /\ Addressed
    OBVIOUS
  <2>1. ToSet(members) \subseteq User
    BY DeliveryAssumption, Elements DEF Init
  <2>2. R!ConversationInit
    BY <2>1 DEF Init, R!ConversationInit
  <2>3. Addressed
    BY EmptyFacts DEF Init, Addressed, Reading
  <2>4. QED
    BY <2>2, <2>3
<1>2. IInv /\ Addressed /\ [Next]_vars => Addressed'
  BY AddressedStep
<1>3. IInv /\ Addressed /\ [Next]_vars => [R!ConversationNext]_R!conversation
  BY ConversationStep
<1>4. QED
  BY <1>1, <1>2, <1>3, Invariance, PTL DEF Spec, ImplementsConversation, R!ConversationSpec
=============================================================================
