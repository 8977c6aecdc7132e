---------------------------- MODULE Debug_proofs ----------------------------
(***************************************************************************)
(* The two ends of the debug connection.                                   *)
(*                                                                         *)
(* The server, for any peers and requests, any number of slots and any     *)
(* limit on the requests of a poll: poll() looks at every client it has,   *)
(* and changes the registry only as the answer to a request says it did.   *)
(*                                                                         *)
(* The tool, for any ports, registries and texts, and however many things  *)
(* go wrong: a selection stands until the user or a refresh that has a     *)
(* reason changes it, and an edit is cleared only when it was stored.      *)
(***************************************************************************)
EXTENDS DebugServer, Debugger, FiniteSetTheorems, FunctionTheorems,
        NaturalsInduction, WellFoundedInduction, TLAPS

Requests == UNION {RequestOf[p] : p \in Peer}

(* A connection that waits to be accepted or has a slot. *)
Present == [at : {"backlog", "client"}, request : Requests, sent : Nat, open : BOOLEAN]

Client == [peer : Peer, buffer : Nat]

Types ==
    /\ net = [p \in Peer |-> net[p]]
    /\ \A p \in Peer : net[p].at \in {"backlog", "client"} => net[p] \in Present
    /\ clients \in Seq(Client)
    /\ pollAt \in [part : {"idle", "serve"}, i : Nat \ {0}, handled : Nat]

(* The slots are the connections that are there, each once. *)
Slots ==
    /\ \A k \in 1..Len(clients) : net[clients[k].peer].at = "client"
    /\ \A p \in Peer : net[p].at = "client" => \E k \in 1..Len(clients) : clients[k].peer = p
    /\ \A j, k \in 1..Len(clients) : clients[j].peer = clients[k].peer => j = k
    /\ Len(clients) <= MaxClients

(* What poll has yet to look at is from its index on. *)
DueFromIndex ==
    /\ pollAt.part = "idle" => due = {}
    /\ pollAt.part = "serve" =>
          \A p : p \in due <=> \E k \in 1..Len(clients) : k >= pollAt.i /\ clients[k].peer = p

SInv == Types /\ Slots /\ DueFromIndex

(* The registry is a table of all the components and entities. *)
Shaped(r) ==
    /\ r = [alive |-> r.alive, table |-> r.table]
    /\ r.table = [c \in Component |-> r.table[c]]
    /\ \A c \in Component : r.table[c] = [e \in Entity \cup {Holder} |-> r.table[c][e]]
----------------------------------------------------------------------------
LEMMA WithoutProperties ==
    ASSUME NEW S, NEW s \in Seq(S), NEW i \in 1..Len(s)
    PROVE  /\ Without(s, i) \in Seq(S)
           /\ Len(Without(s, i)) = Len(s) - 1
           /\ \A k \in 1..Len(s) - 1 :
                 Without(s, i)[k] = IF k < i THEN s[k] ELSE s[k + 1]
<1>1. PICK a : a = SubSeq(s, 1, i - 1)
  OBVIOUS
<1>2. PICK b : b = SubSeq(s, i + 1, Len(s))
  OBVIOUS
<1>3. a \in Seq(S) /\ Len(a) = i - 1 /\ \A k \in 1..i - 1 : a[k] = s[k]
  BY <1>1
<1>4. b \in Seq(S) /\ Len(b) = Len(s) - i /\ \A k \in 1..Len(s) - i : b[k] = s[k + i]
  BY <1>2
<1>5. Without(s, i) = a \o b
  BY <1>1, <1>2 DEF Without
<1> HIDE DEF Without
<1>6. a \o b \in Seq(S) /\ Len(a \o b) = Len(s) - 1
  <2>1. a \in Seq(S) /\ b \in Seq(S)
    BY <1>3, <1>4
  <2>2. a \o b \in Seq(S) /\ Len(a \o b) = Len(a) + Len(b)
    BY <2>1
  <2>3. Len(s) \in Nat
    OBVIOUS
  <2> QED
    BY <1>3, <1>4, <2>2, <2>3
<1>7. ASSUME NEW k \in 1..Len(s) - 1
      PROVE  (a \o b)[k] = IF k < i THEN s[k] ELSE s[k + 1]
  <2>1. CASE k < i
    <3>1. (a \o b)[k] = a[k]
      BY <1>3, <1>4, <2>1
    <3> QED
      BY <1>3, <2>1, <3>1
  <2>2. CASE k >= i
    <3>1. (a \o b)[k] = b[k - (i - 1)]
      BY <1>3, <1>4, <2>2
    <3>2. k - (i - 1) \in 1..Len(s) - i /\ k - (i - 1) + i = k + 1
      BY <2>2
    <3>3. b[k - (i - 1)] = s[k + 1]
      BY <1>4, <3>2
    <3> QED
      BY <2>2, <3>1, <3>3
  <2>3. Len(s) \in Nat /\ i \in Nat /\ k \in Nat
    OBVIOUS
  <2>4. k < i \/ k >= i
    BY <2>3
  <2> QED
    BY <2>1, <2>2, <2>4
<1> QED
  BY <1>5, <1>6, <1>7

LEMMA TypeFacts ==
    ASSUME Types
    PROVE  /\ Len(clients) \in Nat /\ DOMAIN clients = 1..Len(clients)
           /\ \A k \in 1..Len(clients) : clients[k] \in Client /\ clients[k].peer \in Peer
           /\ pollAt.i \in Nat /\ pollAt.i >= 1 /\ pollAt.handled \in Nat
           /\ pollAt.part \in {"idle", "serve"}
<1>1. clients \in Seq(Client)
  BY DEF Types
<1>2. /\ Len(clients) \in Nat /\ DOMAIN clients = 1..Len(clients)
      /\ \A k \in 1..Len(clients) : clients[k] \in Client
  BY <1>1
<1>3. pollAt \in [part : {"idle", "serve"}, i : Nat \ {0}, handled : Nat]
  BY DEF Types
<1> QED
  BY <1>2, <1>3 DEF Client

LEMMA InitSInv == ServerInit => SInv
<1> SUFFICES ASSUME ServerInit PROVE SInv
  OBVIOUS
<1> USE DEF ServerInit, Resting, Over
<1>1. Types
  BY DEF Types
<1>2. Slots
  BY ClientsAssumption DEF Slots
<1>3. DueFromIndex
  BY DEF DueFromIndex
<1> QED
  BY <1>1, <1>2, <1>3 DEF SInv

(* What a peer does changes neither who is connected nor the poll. *)
LEMMA PeerMoves ==
    ASSUME SInv, NEW p \in Peer, NEW n \in Present, net' = [net EXCEPT ![p] = n],
           n.at = "client" <=> net[p].at = "client",
           UNCHANGED <<clients, pollAt, due>>
    PROVE  SInv'
<1>0. Types /\ Slots /\ DueFromIndex
  BY DEF SInv
<1>1. net' = [q \in Peer |-> net'[q]] /\ net'[p] = n
      /\ \A q \in Peer : q # p => net'[q] = net[q]
  BY <1>0 DEF Types
<1>2. Types'
  BY <1>0, <1>1 DEF Types
<1>3. \A q \in Peer : net'[q].at = "client" <=> net[q].at = "client"
  BY <1>1
<1>4. Slots'
  BY <1>0, <1>3, TypeFacts DEF Slots
<1>5. DueFromIndex'
  BY <1>0 DEF DueFromIndex
<1> QED
  BY <1>2, <1>4, <1>5 DEF SInv

LEMMA PeerStepKeeps ==
    ASSUME SInv, PeerStep
    PROVE  SInv'
<1>0. Types
  BY DEF SInv
<1>1. ASSUME NEW p \in Peer, Connect(p) PROVE SInv'
  <2>1. PICK request \in RequestOf[p] : net' = [net EXCEPT ![p] = Connection(request)]
    BY <1>1 DEF Connect
  <2>2. Connection(request) \in Present /\ Connection(request).at = "backlog"
    BY DEF Connection, Present, Requests
  <2>3. net[p].at # "client" /\ UNCHANGED <<clients, pollAt, due>>
    BY <1>1 DEF Connect
  <2>4. PICK n : n = Connection(request)
    OBVIOUS
  <2> QED
    BY <2>1, <2>2, <2>3, <2>4, PeerMoves
<1>2. ASSUME NEW p \in Peer, SendPiece(p) \/ HangUp(p) PROVE SInv'
  <2>1. net[p] \in Present /\ net[p].at = "client"
    BY <1>0, <1>2 DEF SendPiece, HangUp, Types
  <2>2. \E n \in Present : n.at = "client" /\ net' = [net EXCEPT ![p] = n]
    <3>1. CASE SendPiece(p)
      <4>1. PICK n : n = [net[p] EXCEPT !.sent = @ + 1]
        OBVIOUS
      <4>2. n \in Present /\ n.at = "client"
        BY <2>1, <4>1 DEF Present
      <4>3. net' = [net EXCEPT ![p] = n]
        BY <3>1, <4>1 DEF SendPiece
      <4> QED
        BY <4>2, <4>3
    <3>2. CASE HangUp(p)
      <4>1. PICK n : n = [net[p] EXCEPT !.open = FALSE]
        OBVIOUS
      <4>2. n \in Present /\ n.at = "client"
        BY <2>1, <4>1 DEF Present
      <4>3. net' = [net EXCEPT ![p] = n]
        BY <3>2, <4>1 DEF HangUp
      <4> QED
        BY <4>2, <4>3
    <3> QED
      BY <1>2, <3>1, <3>2
  <2>3. UNCHANGED <<clients, pollAt, due>>
    BY <1>2 DEF SendPiece, HangUp
  <2> QED
    BY <2>1, <2>2, <2>3, PeerMoves
<1> QED
  BY <1>1, <1>2 DEF PeerStep
----------------------------------------------------------------------------
(* A client leaves its slot: whoever comes after it moves up under the     *)
(* index.                                                                  *)
LEMMA ClientLeaves ==
    ASSUME SInv, Serving, NEW n, n.at \notin {"backlog", "client"},
           net' = [net EXCEPT ![clients[pollAt.i].peer] = n],
           clients' = Without(clients, pollAt.i), Looked,
           pollAt' \in [part : {"idle", "serve"}, i : Nat \ {0}, handled : Nat],
           pollAt'.part = "serve", pollAt'.i = pollAt.i
    PROVE  SInv'
<1> DEFINE p == clients[pollAt.i].peer
           i == pollAt.i
           L == Len(clients)
<1>0. Types /\ Slots /\ DueFromIndex
  BY DEF SInv
<1>1. i \in 1..L /\ L \in Nat /\ p \in Peer /\ pollAt.part = "serve"
  BY <1>0, TypeFacts DEF Serving
<1>2. /\ clients' \in Seq(Client) /\ Len(clients') = L - 1
      /\ \A k \in 1..L - 1 : clients'[k] = IF k < i THEN clients[k] ELSE clients[k + 1]
  <2>1. clients \in Seq(Client)
    BY <1>0 DEF Types
  <2> QED
    BY <1>1, <2>1, WithoutProperties
<1>3. net' = [q \in Peer |-> net'[q]] /\ net'[p] = n
      /\ \A q \in Peer : q # p => net'[q] = net[q]
  BY <1>0, <1>1 DEF Types
<1>4. due' = due \ {p}
  BY DEF Looked
<1> HIDE DEF p, i, L
<1>5. Types'
  BY <1>0, <1>2, <1>3 DEF Types
<1>6. \A j, k \in 1..L : clients[j].peer = clients[k].peer => j = k
  BY <1>0 DEF Slots, L
<1>7. clients[i].peer = p /\ \A k \in 1..L : clients[k].peer \in Peer
  BY <1>0, TypeFacts DEF i, p, L
<1>8. \A k \in 1..L - 1 : \E j \in 1..L :
         /\ j = (IF k < i THEN k ELSE k + 1) /\ j # i /\ clients'[k] = clients[j]
  BY <1>1, <1>2
<1>9. \A j \in 1..L : j # i => \E k \in 1..L - 1 :
         /\ j = (IF k < i THEN k ELSE k + 1) /\ clients'[k] = clients[j]
  <2> SUFFICES ASSUME NEW j \in 1..L, j # i
               PROVE  \E k \in 1..L - 1 :
                         j = (IF k < i THEN k ELSE k + 1) /\ clients'[k] = clients[j]
    OBVIOUS
  <2>1. CASE j < i
    <3>1. j \in 1..L - 1
      BY <1>1, <2>1
    <3> QED
      BY <1>2, <2>1, <3>1
  <2>2. CASE j > i
    <3>1. j - 1 \in 1..L - 1 /\ ~(j - 1 < i) /\ j - 1 + 1 = j
      BY <1>1, <2>2
    <3> QED
      BY <1>2, <3>1
  <2> QED
    BY <1>1, <2>1, <2>2
<1>10. Slots'
  <2>1. ASSUME NEW k \in 1..L - 1 PROVE net'[clients'[k].peer].at = "client"
    <3>1. PICK j \in 1..L : j # i /\ clients'[k] = clients[j]
      BY <1>8
    <3>2. clients[j].peer # p /\ clients[j].peer \in Peer
      BY <1>1, <1>6, <1>7, <3>1
    <3>3. net[clients[j].peer].at = "client"
      BY <1>0 DEF Slots, L
    <3> QED
      BY <1>3, <3>1, <3>2, <3>3
  <2>2. ASSUME NEW q \in Peer, net'[q].at = "client"
        PROVE  \E k \in 1..L - 1 : clients'[k].peer = q
    <3>1. q # p /\ net[q].at = "client"
      BY <1>3, <2>2
    <3>2. PICK j \in 1..L : clients[j].peer = q
      BY <1>0, <3>1 DEF Slots, L
    <3> QED
      BY <1>7, <1>9, <3>1, <3>2
  <2>3. \A j, k \in 1..L - 1 : clients'[j].peer = clients'[k].peer => j = k
    <3> SUFFICES ASSUME NEW j \in 1..L - 1, NEW k \in 1..L - 1,
                        clients'[j].peer = clients'[k].peer
                 PROVE  j = k
      OBVIOUS
    <3>1. PICK a \in 1..L : a = (IF j < i THEN j ELSE j + 1) /\ clients'[j] = clients[a]
      BY <1>8
    <3>2. PICK b \in 1..L : b = (IF k < i THEN k ELSE k + 1) /\ clients'[k] = clients[b]
      BY <1>8
    <3>3. a = b
      BY <1>6, <3>1, <3>2
    <3> QED
      BY <1>1, <3>1, <3>2, <3>3
  <2>4. L - 1 <= MaxClients
    <3>1. L <= MaxClients
      BY <1>0 DEF Slots, L
    <3> QED
      BY <1>1, <3>1, ClientsAssumption
  <2> QED
    BY <1>2, <2>1, <2>2, <2>3, <2>4 DEF Slots
<1>11. DueFromIndex'
  <2>1. \A q : q \in due <=> \E k \in 1..L : k >= i /\ clients[k].peer = q
    BY <1>0, <1>1 DEF DueFromIndex, L, i
  <2>2. pollAt'.part = "serve" /\ pollAt'.i = i
    BY DEF i
  <2>3. ASSUME NEW q, q \in due'
        PROVE  \E k \in 1..L - 1 : k >= i /\ clients'[k].peer = q
    <3>1. PICK j \in 1..L : j >= i /\ clients[j].peer = q
      BY <1>4, <2>1, <2>3
    <3>2. j # i
      BY <1>4, <1>7, <2>3, <3>1
    <3>3. PICK k \in 1..L - 1 : j = (IF k < i THEN k ELSE k + 1) /\ clients'[k] = clients[j]
      BY <1>9, <3>2
    <3>4. k >= i
      BY <1>1, <3>1, <3>2, <3>3
    <3> QED
      BY <3>1, <3>3, <3>4
  <2>4. ASSUME NEW q, NEW k \in 1..L - 1, k >= i, clients'[k].peer = q
        PROVE  q \in due'
    <3>1. PICK j \in 1..L : j = (IF k < i THEN k ELSE k + 1) /\ j # i /\ clients'[k] = clients[j]
      BY <1>8
    <3>2. j >= i /\ clients[j].peer = q
      BY <1>1, <2>4, <3>1
    <3>3. q # p
      BY <1>1, <1>6, <1>7, <3>1, <3>2
    <3> QED
      BY <1>4, <2>1, <3>2, <3>3
  <2> QED
    BY <1>2, <2>2, <2>3, <2>4 DEF DueFromIndex
<1> QED
  BY <1>5, <1>10, <1>11 DEF SInv

LEMMA DropClientKeeps ==
    ASSUME SInv, DropClient
    PROVE  SInv'
<1>1. PICK n : n = Over("closed")
  OBVIOUS
<1>2. n.at \notin {"backlog", "client"}
  BY <1>1 DEF Over
<1>3. /\ Serving /\ net' = [net EXCEPT ![clients[pollAt.i].peer] = n]
      /\ clients' = Without(clients, pollAt.i) /\ Looked /\ pollAt' = pollAt
  BY <1>1 DEF DropClient
<1>4. /\ pollAt \in [part : {"idle", "serve"}, i : Nat \ {0}, handled : Nat]
      /\ pollAt.part = "serve"
  BY <1>3 DEF SInv, Types, Serving
<1> QED
  BY <1>2, <1>3, <1>4, ClientLeaves

LEMMA AnswerClientKeeps ==
    ASSUME SInv, AnswerClient
    PROVE  SInv'
<1>1. PICK n : n.at = "answered" /\ net' = [net EXCEPT ![clients[pollAt.i].peer] = n]
  <2> DEFINE p == clients[pollAt.i].peer
             result == IF net[p].request.method = "OPTIONS"
                       THEN Unchanged(reg, [kind |-> "options"])
                       ELSE HandleGraphql(reg, net[p].request)
  <2>1. PICK n : n = [at |-> "answered", kind |-> result.answer.kind]
    OBVIOUS
  <2>2. net' = [net EXCEPT ![p] = [at |-> "answered", kind |-> result.answer.kind]]
    BY DEF AnswerClient
  <2>3. n.at = "answered"
    BY <2>1
  <2> HIDE DEF result
  <2>4. net' = [net EXCEPT ![p] = n]
    BY <2>1, <2>2
  <2> QED
    BY <2>3, <2>4
<1>2. n.at \notin {"backlog", "client"}
  BY <1>1
<1>3. /\ Serving /\ clients' = Without(clients, pollAt.i) /\ Looked
      /\ pollAt' = [pollAt EXCEPT !.handled = @ + 1]
  BY DEF AnswerClient
<1>4. /\ pollAt \in [part : {"idle", "serve"}, i : Nat \ {0}, handled : Nat]
      /\ pollAt.part = "serve"
  BY <1>3 DEF SInv, Types, Serving
<1>5. /\ pollAt' \in [part : {"idle", "serve"}, i : Nat \ {0}, handled : Nat]
      /\ pollAt'.part = "serve" /\ pollAt'.i = pollAt.i
  BY <1>3, <1>4
<1> QED
  BY <1>1, <1>2, <1>3, <1>5, ClientLeaves

(* The index moves on over a client that stays. *)
LEMMA KeepClientKeeps ==
    ASSUME SInv, KeepClient
    PROVE  SInv'
<1>0. Types /\ Slots /\ DueFromIndex
  BY DEF SInv
<1>1. /\ Serving /\ clients' = [clients EXCEPT ![pollAt.i] = Filled(clients[pollAt.i])]
      /\ pollAt' = [pollAt EXCEPT !.i = @ + 1]
      /\ due' = due \ {clients[pollAt.i].peer} /\ UNCHANGED net
  BY DEF KeepClient, Looked
<1>2. pollAt.i \in 1..Len(clients) /\ pollAt.part = "serve" /\ Len(clients) \in Nat
  BY <1>0, <1>1, TypeFacts DEF Serving
<1>3. clients[pollAt.i] \in Client /\ net[clients[pollAt.i].peer] \in Present
  BY <1>0, <1>2, TypeFacts DEF Slots, Types
<1>4. PICK c : c = Filled(clients[pollAt.i])
  OBVIOUS
<1>5. c \in Client /\ c.peer = clients[pollAt.i].peer
  BY <1>3, <1>4 DEF Filled, Client, Present
<1>6. /\ clients' \in Seq(Client) /\ Len(clients') = Len(clients)
      /\ \A k \in 1..Len(clients) : clients'[k].peer = clients[k].peer
  BY <1>0, <1>1, <1>2, <1>4, <1>5 DEF Types
<1>7. /\ pollAt' \in [part : {"idle", "serve"}, i : Nat \ {0}, handled : Nat]
      /\ pollAt'.part = "serve" /\ pollAt'.i = pollAt.i + 1
  BY <1>0, <1>1, <1>2 DEF Types
<1>8. Types'
  BY <1>0, <1>1, <1>6, <1>7 DEF Types
<1>9. Slots'
  BY <1>0, <1>1, <1>6 DEF Slots
<1>10. DueFromIndex'
  <2>1. \A q : q \in due <=> \E k \in 1..Len(clients) : k >= pollAt.i /\ clients[k].peer = q
    BY <1>0, <1>2 DEF DueFromIndex
  <2>2. \A k \in 1..Len(clients) : clients[k].peer = clients[pollAt.i].peer => k = pollAt.i
    BY <1>0, <1>2 DEF Slots
  <2>3. \A k \in 1..Len(clients) : k >= pollAt.i + 1 <=> k >= pollAt.i /\ k # pollAt.i
    BY <1>2
  <2>4. \A q : q \in due' <=>
           \E k \in 1..Len(clients) : k >= pollAt.i + 1 /\ clients[k].peer = q
    BY <1>1, <2>1, <2>2, <2>3
  <2> QED
    BY <1>6, <1>7, <2>4 DEF DueFromIndex
<1> QED
  BY <1>8, <1>9, <1>10 DEF SInv

LEMMA EndPollKeeps ==
    ASSUME SInv, EndPoll
    PROVE  SInv'
<1>0. Types /\ Slots /\ DueFromIndex
  BY DEF SInv
<1> USE DEF EndPoll, Resting
<1>1. Types' /\ Slots'
  BY <1>0 DEF Types, Slots
<1>2. \A k \in 1..Len(clients) : ~(k >= pollAt.i)
  BY <1>0, TypeFacts
<1>3. due = {}
  BY <1>0, <1>2 DEF DueFromIndex
<1> QED
  BY <1>1, <1>3 DEF SInv, DueFromIndex
----------------------------------------------------------------------------
(* accept_clients appends the connections it takes, which had no slot. *)
LEMMA StartPollKeeps ==
    ASSUME SInv, NEW order \in [1..Cardinality(Backlog) -> Backlog],
           \A j, k \in 1..Cardinality(Backlog) : j # k => order[j] # order[k],
           StartPoll(order)
    PROVE  SInv'
<1>0. Types /\ Slots /\ DueFromIndex
  BY DEF SInv
<1>1. IsFiniteSet(Backlog) /\ Cardinality(Backlog) \in Nat
  <2>1. Backlog \subseteq Peer
    BY DEF Backlog
  <2> QED
    BY <2>1, PeerAssumption, FS_Subset, FS_CardinalityType
<1>2. order \in Seq(Backlog) /\ Len(order) = Cardinality(Backlog)
  BY <1>1
<1>3. PICK room : room = Least(MaxClients - Len(clients), Len(order))
  OBVIOUS
<1>4. Len(clients) \in Nat /\ Len(clients) <= MaxClients
  BY <1>0, TypeFacts DEF Slots
<1>5. room \in Nat /\ room <= Len(order) /\ Len(clients) + room <= MaxClients
  BY <1>2, <1>3, <1>4, ClientsAssumption, <1>1 DEF Least
<1>6. PICK new : new = Fresh(SubSeq(order, 1, room))
  OBVIOUS
<1>7. /\ new \in Seq(Client) /\ Len(new) = room
      /\ \A k \in 1..room : new[k].peer = order[k]
  <2>1. PICK s : s = SubSeq(order, 1, room)
    OBVIOUS
  <2>2. s \in Seq(Backlog) /\ Len(s) = room /\ \A k \in 1..room : s[k] = order[k]
    BY <1>2, <1>5, <2>1
  <2>3. new = [k \in 1..room |-> [peer |-> s[k], buffer |-> 0]]
    BY <1>6, <2>1, <2>2 DEF Fresh
  <2>4. \A k \in 1..room : [peer |-> s[k], buffer |-> 0] \in Client
    BY <2>2 DEF Client, Backlog
  <2> QED
    BY <1>5, <2>2, <2>3, <2>4
<1> DEFINE accepted == {order[k] : k \in 1..room}
<1>8. /\ clients' = clients \o new
      /\ net' = [p \in Peer |-> IF p \notin Backlog THEN net[p]
                                ELSE IF p \in accepted
                                THEN [net[p] EXCEPT !.at = "client"] ELSE Over("closed")]
      /\ due' = {clients[k].peer : k \in DOMAIN clients} \cup accepted
      /\ pollAt' = [part |-> "serve", i |-> 1, handled |-> 0]
  BY <1>3, <1>6 DEF StartPoll
<1>9. PICK joined : joined = clients \o new
  OBVIOUS
<1>10. /\ joined \in Seq(Client) /\ Len(joined) = Len(clients) + room
       /\ \A k \in 1..Len(clients) : joined[k] = clients[k]
       /\ \A k \in 1..room : joined[Len(clients) + k] = new[k]
  <2>1. clients \in Seq(Client) /\ new \in Seq(Client)
    BY <1>0, <1>7 DEF Types
  <2>2. joined \in Seq(Client) /\ Len(joined) = Len(clients) + Len(new)
    BY <1>9, <2>1
  <2>3. \A k \in 1..Len(clients) : joined[k] = clients[k]
    BY <1>9, <2>1
  <2>4. \A k \in 1..Len(new) : joined[Len(clients) + k] = new[k]
    BY <1>9, <2>1
  <2> QED
    BY <1>7, <2>2, <2>3, <2>4
<1>11. /\ clients' = joined /\ Len(clients') = Len(clients) + room
       /\ \A k \in 1..Len(clients) : clients'[k].peer = clients[k].peer
       /\ \A k \in 1..room : clients'[Len(clients) + k].peer = order[k]
  BY <1>7, <1>8, <1>9, <1>10
<1>12. \A k \in 1..Len(clients) + room :
          \/ k \in 1..Len(clients)
          \/ k - Len(clients) \in 1..room /\ k = Len(clients) + (k - Len(clients))
  BY <1>4, <1>5
<1>13. \A p \in Backlog : p \in Peer /\ net[p].at = "backlog" /\ net[p] \in Present
  BY <1>0 DEF Types, Backlog
<1>14. accepted \subseteq Backlog
  BY <1>1, <1>2, <1>5
<1>15. \A k \in 1..Len(clients) : clients[k].peer \in Peer /\ clients[k].peer \notin Backlog
  BY <1>0, TypeFacts DEF Slots, Backlog
<1> HIDE DEF accepted
<1>16. \A p \in Peer : net'[p].at = "client" <=> net[p].at = "client" \/ p \in accepted
  BY <1>8, <1>13, <1>14 DEF Over, Backlog, Present
<1>17. Types'
  <2>1. net' = [p \in Peer |-> net'[p]]
    BY <1>8
  <2>2. \A p \in Peer : net'[p].at \in {"backlog", "client"} => net'[p] \in Present
    <3> SUFFICES ASSUME NEW p \in Peer, net'[p].at \in {"backlog", "client"}
                 PROVE  net'[p] \in Present
      OBVIOUS
    <3>1. CASE p \notin Backlog
      BY <1>0, <1>8, <3>1 DEF Types
    <3>2. CASE p \in Backlog /\ p \in accepted
      <4>1. net'[p] = [net[p] EXCEPT !.at = "client"]
        BY <1>8, <3>2
      <4> QED
        BY <1>13, <3>2, <4>1 DEF Present
    <3>3. CASE p \in Backlog /\ p \notin accepted
      BY <1>8, <3>3 DEF Over
    <3> QED
      BY <3>1, <3>2, <3>3
  <2> QED
    BY <1>8, <1>10, <1>11, <2>1, <2>2 DEF Types
<1>18. \A p : p \in accepted <=> \E k \in 1..room : order[k] = p
  BY DEF accepted
<1>19. Slots'
  <2>1. ASSUME NEW k \in 1..Len(clients) + room PROVE net'[clients'[k].peer].at = "client"
    <3>1. CASE k \in 1..Len(clients)
      BY <1>0, <1>11, <1>15, <1>16, <3>1 DEF Slots
    <3>2. CASE k - Len(clients) \in 1..room /\ k = Len(clients) + (k - Len(clients))
      <4>1. clients'[k].peer \in accepted
        BY <1>11, <1>18, <3>2
      <4> QED
        BY <1>13, <1>14, <1>16, <4>1
    <3> QED
      BY <1>12, <3>1, <3>2
  <2>2. ASSUME NEW p \in Peer, net'[p].at = "client"
        PROVE  \E k \in 1..Len(clients) + room : clients'[k].peer = p
    <3>1. CASE net[p].at = "client"
      <4>1. PICK k \in 1..Len(clients) : clients[k].peer = p
        BY <1>0, <3>1 DEF Slots
      <4>2. k \in 1..Len(clients) + room
        BY <1>4, <1>5
      <4> QED
        BY <1>11, <4>1, <4>2
    <3>2. CASE p \in accepted
      <4>1. PICK k \in 1..room : order[k] = p
        BY <1>18, <3>2
      <4>2. Len(clients) + k \in 1..Len(clients) + room
        BY <1>4, <1>5
      <4> QED
        BY <1>11, <4>1, <4>2
    <3> QED
      BY <1>16, <2>2, <3>1, <3>2
  <2>3. ASSUME NEW j \in 1..Len(clients) + room, NEW k \in 1..Len(clients) + room,
               clients'[j].peer = clients'[k].peer
        PROVE  j = k
    <3>1. CASE j \in 1..Len(clients) /\ k \in 1..Len(clients)
      BY <1>0, <1>11, <2>3, <3>1 DEF Slots
    <3>2. CASE j \in 1..Len(clients) /\ k \notin 1..Len(clients)
      BY <1>11, <1>12, <1>14, <1>15, <1>18, <2>3, <3>2
    <3>3. CASE j \notin 1..Len(clients) /\ k \in 1..Len(clients)
      BY <1>11, <1>12, <1>14, <1>15, <1>18, <2>3, <3>3
    <3>4. CASE j \notin 1..Len(clients) /\ k \notin 1..Len(clients)
      <4>1. /\ j - Len(clients) \in 1..room /\ k - Len(clients) \in 1..room
            /\ clients'[j].peer = order[j - Len(clients)]
            /\ clients'[k].peer = order[k - Len(clients)]
        BY <1>11, <1>12, <3>4
      <4>2. 1..room \subseteq 1..Cardinality(Backlog)
        BY <1>1, <1>2, <1>5
      <4>3. j - Len(clients) = k - Len(clients)
        BY <2>3, <4>1, <4>2
      <4> QED
        BY <1>4, <1>5, <4>3
    <3> QED
      BY <3>1, <3>2, <3>3, <3>4
  <2> QED
    BY <1>5, <1>11, <2>1, <2>2, <2>3 DEF Slots
<1>20. DueFromIndex'
  <2>1. ASSUME NEW p
        PROVE  p \in due' <=> \E k \in 1..Len(clients) + room : k >= 1 /\ clients'[k].peer = p
    <3>1. p \in due' <=> (\E k \in 1..Len(clients) : clients[k].peer = p) \/ p \in accepted
      BY <1>0, <1>8, TypeFacts
    <3>2. ASSUME NEW k \in 1..Len(clients), clients[k].peer = p
          PROVE  \E m \in 1..Len(clients) + room : m >= 1 /\ clients'[m].peer = p
      <4>1. k \in 1..Len(clients) + room /\ k >= 1
        BY <1>4, <1>5
      <4> QED
        BY <1>11, <3>2, <4>1
    <3>3. ASSUME NEW k \in 1..room, order[k] = p
          PROVE  \E m \in 1..Len(clients) + room : m >= 1 /\ clients'[m].peer = p
      <4>1. Len(clients) + k \in 1..Len(clients) + room /\ Len(clients) + k >= 1
        BY <1>4, <1>5
      <4> QED
        BY <1>11, <3>3, <4>1
    <3>4. ASSUME NEW m \in 1..Len(clients) + room, clients'[m].peer = p
          PROVE  (\E k \in 1..Len(clients) : clients[k].peer = p) \/ p \in accepted
      BY <1>11, <1>12, <1>18, <3>4
    <3> QED
      BY <1>18, <3>1, <3>2, <3>3, <3>4
  <2> QED
    BY <1>8, <1>11, <2>1 DEF DueFromIndex
<1> QED
  BY <1>17, <1>19, <1>20 DEF SInv
LEMMA PollStepKeeps ==
    ASSUME SInv, PollStep
    PROVE  SInv'
<1>1. ASSUME NEW order \in SetToSeqs(Backlog), StartPoll(order) PROVE SInv'
  BY <1>1, StartPollKeeps DEF SetToSeqs
<1> QED
  BY <1>1, DropClientKeeps, AnswerClientKeeps, KeepClientKeeps, EndPollKeeps DEF PollStep

(* The rest of the program touches neither connections nor the poll. *)
LEMMA SInvOfStutter ==
    ASSUME SInv, UNCHANGED <<net, clients, pollAt, due>>
    PROVE  SInv'
BY DEF SInv, Types, Slots, DueFromIndex

LEMMA NextSInv == SInv /\ [ServerNext]_serverVars => SInv'
<1> SUFFICES ASSUME SInv, [ServerNext]_serverVars PROVE SInv'
  OBVIOUS
<1>1. CASE PollStep
  BY <1>1, PollStepKeeps
<1>2. CASE PeerStep
  BY <1>2, PeerStepKeeps
<1>3. ASSUME NEW e \in Entity, ProgramStep(e) PROVE SInv'
  BY <1>3, SInvOfStutter DEF ProgramStep
<1>4. CASE UNCHANGED serverVars
  BY <1>4, SInvOfStutter DEF serverVars
<1> QED
  BY <1>1, <1>2, <1>3, <1>4 DEF ServerNext

LEMMA SInvHolds == ServerSpec => []SInv
BY InitSInv, NextSInv, PTL DEF ServerSpec

(* The slots are in bijection with the connections that have one. *)
LEMMA SlotsCounted ==
    ASSUME SInv
    PROVE  Len(clients) = Cardinality({p \in Peer : net[p].at = "client"})
<1> DEFINE C == {p \in Peer : net[p].at = "client"}
           f == [k \in 1..Len(clients) |-> clients[k].peer]
<1>0. Types /\ Slots
  BY DEF SInv
<1>1. Len(clients) \in Nat
  BY <1>0, TypeFacts
<1>2. f \in [1..Len(clients) -> C]
  BY <1>0, TypeFacts DEF Slots
<1>3. \A j, k \in 1..Len(clients) : f[j] = f[k] => j = k
  BY <1>0 DEF Slots
<1>4. \A p \in C : \E k \in 1..Len(clients) : f[k] = p
  BY <1>0 DEF Slots
<1>5. PICK D : D = 1..Len(clients)
  OBVIOUS
<1>6. IsFiniteSet(D) /\ Cardinality(D) = Len(clients)
  BY <1>1, <1>5, FS_Interval
<1> HIDE DEF f, C
<1>7. /\ f \in [D -> C] /\ \A j, k \in D : f[j] = f[k] => j = k
      /\ \A p \in C : \E k \in D : f[k] = p
  BY <1>2, <1>3, <1>4, <1>5
<1>8. f \in Bijection(D, C)
  BY <1>7, Fun_IsBij
<1>9. ExistsBijection(D, C)
  BY <1>8 DEF ExistsBijection
<1>10. Cardinality(C) = Cardinality(D)
  BY <1>6, <1>9, FS_Bijection
<1> QED
  BY <1>6, <1>10 DEF C

(* poll() looks at each client it found or accepted, although it erases    *)
(* from the vector it walks, and no slot is lost to a connection that is   *)
(* gone or given twice.                                                    *)
THEOREM ClientsExamined == ServerSpec => []EveryClientExamined
<1>1. SInv => EveryClientExamined
  <2> SUFFICES ASSUME SInv PROVE EveryClientExamined
    OBVIOUS
  <2>1. Types /\ Slots /\ DueFromIndex
    BY DEF SInv
  <2>2. \A k \in DOMAIN clients : clients[k].peer \in Peer /\ net[clients[k].peer].at = "client"
    BY <2>1, TypeFacts DEF Slots
  <2>3. {clients[k].peer : k \in DOMAIN clients} = {p \in Peer : net[p].at = "client"}
    BY <2>1, <2>2, TypeFacts DEF Slots
  <2> QED
    BY <2>1, <2>3, SlotsCounted DEF EveryClientExamined, DueFromIndex, Slots
<1> QED
  BY <1>1, SInvHolds, PTL
----------------------------------------------------------------------------
(* One entry of the registry's table is written. *)
LEMMA EntryWritten ==
    ASSUME NEW r, Shaped(r), NEW c \in Component, NEW e, NEW v, NEW s,
           s = [r EXCEPT !.table[c][e] = v]
    PROVE  /\ Shaped(s)
           /\ \A d \in Component : \A x \in Entity \cup {Holder} :
                 s.table[d][x] # r.table[d][x] => d = c /\ x = e
<1>1. s.alive = r.alive /\ s.table = [r.table EXCEPT ![c] = [r.table[c] EXCEPT ![e] = v]]
      /\ s = [alive |-> s.alive, table |-> s.table]
  BY DEF Shaped
<1>2. s.table = [d \in Component |-> s.table[d]]
  BY <1>1 DEF Shaped
<1>3. s.table[c] = [r.table[c] EXCEPT ![e] = v]
      /\ \A d \in Component : d # c => s.table[d] = r.table[d]
  BY <1>1 DEF Shaped
<1>4. /\ s.table[c] = [x \in Entity \cup {Holder} |-> s.table[c][x]]
      /\ \A x \in Entity \cup {Holder} : x # e => s.table[c][x] = r.table[c][x]
  BY <1>3 DEF Shaped
<1>5. \A d \in Component : s.table[d] = [x \in Entity \cup {Holder} |-> s.table[d][x]]
  BY <1>3, <1>4 DEF Shaped
<1> QED
  BY <1>1, <1>2, <1>3, <1>4, <1>5 DEF Shaped

(* What a request does to the registry. *)
Effect(r, request, result) ==
    /\ Shaped(result.reg)
    /\ result.reg # r =>
          /\ result.answer.kind \in {"set", "removed"}
          /\ \A c \in Component : \A e \in Entity \cup {Holder} :
                result.reg.table[c][e] # r.table[c][e] =>
                   c = request.component /\ e \in {request.id, Holder}

LEMMA NoEffect ==
    ASSUME NEW r, Shaped(r), NEW request, NEW answer
    PROVE  Effect(r, request, Unchanged(r, answer))
BY DEF Effect, Unchanged

LEMMA RemoveEffect ==
    ASSUME NEW r, Shaped(r), NEW q, NEW result,
           result = RemoveComponent(r, q.id, q.component)
    PROVE  Effect(r, q, result)
<1>1. CASE result.reg = r
  BY <1>1 DEF Effect
<1>2. CASE result.reg # r
  <2>1. PICK s : s = [r EXCEPT !.table[q.component][q.id] = Missing]
    OBVIOUS
  <2>2. /\ q.component \in Component
        /\ result = [reg |-> s, answer |-> [kind |-> "removed", ok |-> TRUE]]
    BY <1>2, <2>1 DEF RemoveComponent, Unchanged
  <2>3. result.reg = s /\ result.answer.kind = "removed"
    BY <2>2
  <2>4. /\ Shaped(s)
        /\ \A d \in Component : \A x \in Entity \cup {Holder} :
              s.table[d][x] # r.table[d][x] => d = q.component /\ x = q.id
    <3>1. PICK c, e : c = q.component /\ e = q.id
      OBVIOUS
    <3>2. c \in Component /\ s = [r EXCEPT !.table[c][e] = Missing]
      BY <2>1, <2>2, <3>1
    <3>3. /\ Shaped(s)
          /\ \A d \in Component : \A x \in Entity \cup {Holder} :
                s.table[d][x] # r.table[d][x] => d = c /\ x = e
      BY <3>2, EntryWritten
    <3> QED
      BY <3>1, <3>3
  <2> QED
    BY <2>3, <2>4 DEF Effect
<1> QED
  BY <1>1, <1>2

LEMMA SetEffect ==
    ASSUME NEW r, Shaped(r), NEW q, NEW result,
           result = SetComponent(r, q.id, q.component, q.values)
    PROVE  Effect(r, q, result)
<1>1. CASE result.reg = r
  BY <1>1 DEF Effect
<1>2. CASE result.reg # r
  <2>1. PICK holder : holder = IF Info[q.component].kind = "singleton" THEN Holder ELSE q.id
    OBVIOUS
  <2>2. /\ q.component \in Component
        /\ \E v, a : result = [reg |-> [r EXCEPT !.table[q.component][holder] = v],
                               answer |-> [kind |-> "set", value |-> a]]
    BY <1>2, <2>1 DEF SetComponent, Unchanged
  <2>3. PICK v, a : result = [reg |-> [r EXCEPT !.table[q.component][holder] = v],
                              answer |-> [kind |-> "set", value |-> a]]
    BY <2>2
  <2>4. PICK s : s = [r EXCEPT !.table[q.component][holder] = v]
    OBVIOUS
  <2>5. result.reg = s /\ result.answer.kind = "set"
    BY <2>3, <2>4
  <2>6. /\ Shaped(s)
        /\ \A d \in Component : \A x \in Entity \cup {Holder} :
              s.table[d][x] # r.table[d][x] => d = q.component /\ x = holder
    <3>1. PICK c : c = q.component
      OBVIOUS
    <3>2. c \in Component /\ s = [r EXCEPT !.table[c][holder] = v]
      BY <2>2, <2>4, <3>1
    <3>3. /\ Shaped(s)
          /\ \A d \in Component : \A x \in Entity \cup {Holder} :
                s.table[d][x] # r.table[d][x] => d = c /\ x = holder
      BY <3>2, EntryWritten
    <3> QED
      BY <3>1, <3>3
  <2> QED
    BY <2>1, <2>5, <2>6 DEF Effect
<1> QED
  BY <1>1, <1>2

LEMMA RequestEffect ==
    ASSUME NEW r, Shaped(r), NEW q
    PROVE  Effect(r, q, HandleGraphql(r, q))
<1>1. PICK op : op = OperationOf(q.words)
  OBVIOUS
<1>2. CASE op = "removeComponent"
  <2>1. HandleGraphql(r, q) = RemoveComponent(r, q.id, q.component)
    BY <1>1, <1>2 DEF HandleGraphql
  <2> QED
    BY <2>1, RemoveEffect
<1>3. CASE op = "setComponent"
  <2>1. HandleGraphql(r, q) = SetComponent(r, q.id, q.component, q.values)
    BY <1>1, <1>3 DEF HandleGraphql
  <2> QED
    BY <2>1, SetEffect
<1>4. CASE op \notin {"removeComponent", "setComponent"}
  <2>1. \E answer : HandleGraphql(r, q) = Unchanged(r, answer)
    BY <1>1, <1>4 DEF HandleGraphql
  <2> QED
    BY <2>1, NoEffect
<1> QED
  BY <1>2, <1>3, <1>4

LEMMA AnswerEffect ==
    ASSUME SInv, Shaped(reg), AnswerClient
    PROVE  \E p \in Peer :
              /\ net[p].at = "client" /\ net'[p].at = "answered" /\ net[p].open
              /\ Shaped(reg')
              /\ reg' # reg =>
                    /\ net'[p].kind \in {"set", "removed"}
                    /\ \A c \in Component : \A e \in Entity \cup {Holder} :
                          reg'.table[c][e] # reg.table[c][e] =>
                             /\ c = net[p].request.component
                             /\ e \in {net[p].request.id, Holder}
<1>0. Types /\ Slots
  BY DEF SInv
<1>1. PICK p : p = clients[pollAt.i].peer
  OBVIOUS
<1>2. p \in Peer /\ net[p].at = "client"
  BY <1>0, <1>1, TypeFacts DEF AnswerClient, Serving, Slots
<1>3. net[p] \in Present
  BY <1>0, <1>2 DEF Types
<1>4. net[p].open
  <2>1. ReadClient(clients[pollAt.i]) = "open"
    BY DEF AnswerClient, Ready
  <2> QED
    BY <1>1, <2>1 DEF ReadClient
<1>5. PICK result : result = IF net[p].request.method = "OPTIONS"
                             THEN Unchanged(reg, [kind |-> "options"])
                             ELSE HandleGraphql(reg, net[p].request)
  OBVIOUS
<1>6. /\ reg' = result.reg
      /\ net' = [net EXCEPT ![p] = [at |-> "answered", kind |-> result.answer.kind]]
  BY <1>1, <1>5 DEF AnswerClient
<1>7. net'[p] = [at |-> "answered", kind |-> result.answer.kind]
  BY <1>0, <1>2, <1>6 DEF Types
<1>8. Effect(reg, net[p].request, result)
  BY <1>5, NoEffect, RequestEffect
<1> QED
  BY <1>2, <1>4, <1>6, <1>7, <1>8 DEF Effect

LEMMA ProgramShaped ==
    ASSUME Shaped(reg), NEW e, ProgramStep(e)
    PROVE  Shaped(reg')
<1>1. CASE e \in reg.alive
  <2>1. reg' = [alive |-> reg.alive \ {e},
                table |-> [c \in Component |-> [reg.table[c] EXCEPT ![e] = Missing]]]
    BY <1>1 DEF ProgramStep
  <2>2. \A c \in Component : reg'.table[c] = [reg.table[c] EXCEPT ![e] = Missing]
    BY <2>1
  <2>3. \A c \in Component : reg'.table[c] = [x \in Entity \cup {Holder} |-> reg'.table[c][x]]
    BY <2>2 DEF Shaped
  <2> QED
    BY <2>1, <2>3 DEF Shaped
<1>2. CASE e \notin reg.alive
  <2>1. reg' = [reg EXCEPT !.alive = @ \cup {e}]
    BY <1>2 DEF ProgramStep
  <2> QED
    BY <2>1 DEF Shaped
<1> QED
  BY <1>1, <1>2

(* A step that changes the registry is one of the program's, between polls, *)
(* or the answer to a request.                                             *)
LEMMA RegistrySteps ==
    ASSUME SInv, Shaped(reg), [ServerNext]_serverVars
    PROVE  Shaped(reg') /\ (reg' # reg => pollAt.part = "idle" \/ AnswerClient)
<1>1. CASE AnswerClient
  BY <1>1, AnswerEffect
<1>2. ASSUME NEW e \in Entity, ProgramStep(e)
      PROVE  Shaped(reg') /\ pollAt.part = "idle"
  BY <1>2, ProgramShaped DEF ProgramStep
<1>3. CASE PeerStep
  <2>1. reg' = reg
    BY <1>3 DEF PeerStep, Connect, SendPiece, HangUp
  <2> QED
    BY <2>1
<1>4. CASE UNCHANGED serverVars
  <2>1. reg' = reg
    BY <1>4 DEF serverVars
  <2> QED
    BY <2>1
<1>5. ASSUME PollStep, ~AnswerClient PROVE reg' = reg
  BY <1>5 DEF PollStep, StartPoll, DropClient, KeepClient, EndPoll
<1>6. CASE PollStep /\ ~AnswerClient
  <2>1. reg' = reg
    BY <1>5, <1>6
  <2> QED
    BY <2>1
<1> QED
  BY <1>1, <1>2, <1>3, <1>4, <1>6 DEF ServerNext

(* Within a poll the registry changes only by a request whose peer had not *)
(* hung up and that is answered "set" or "removed", and only at the entry  *)
(* the request names: one that is refused has done nothing.                *)
THEOREM MutationsAnswered == ServerSpec => OnlyAnsweredMutations
<1>1. ServerInit => Shaped(reg)
  BY DEF ServerInit, Shaped
<1>2. SInv /\ Shaped(reg) /\ [ServerNext]_serverVars => Shaped(reg)'
  BY RegistrySteps
<1>3. SInv /\ Shaped(reg) /\ [ServerNext]_serverVars =>
        [pollAt.part = "serve" /\ reg' # reg =>
           \E p \in Peer :
              /\ net[p].at = "client" /\ net'[p].at = "answered"
              /\ net[p].open
              /\ net'[p].kind \in {"set", "removed"}
              /\ \A c \in Component : \A e \in Entity \cup {Holder} :
                    reg'.table[c][e] # reg.table[c][e] =>
                       /\ c = net[p].request.component
                       /\ e \in {net[p].request.id, Holder}
        ]_serverVars
  <2> SUFFICES ASSUME SInv, Shaped(reg), [ServerNext]_serverVars,
                      pollAt.part = "serve", reg' # reg
               PROVE  \E p \in Peer :
                         /\ net[p].at = "client" /\ net'[p].at = "answered"
                         /\ net[p].open
                         /\ net'[p].kind \in {"set", "removed"}
                         /\ \A c \in Component : \A e \in Entity \cup {Holder} :
                               reg'.table[c][e] # reg.table[c][e] =>
                                  /\ c = net[p].request.component
                                  /\ e \in {net[p].request.id, Holder}
    OBVIOUS
  <2>1. AnswerClient
    BY RegistrySteps
  <2> QED
    BY <2>1, AnswerEffect
<1> QED
  BY <1>1, <1>2, <1>3, SInvHolds, PTL DEF ServerSpec, OnlyAnsweredMutations
----------------------------------------------------------------------------
(***************************************************************************)
(* The tool.  A detail of the refresh is of the server it asked, which is  *)
(* the one selected when the refresh began or, if that is gone, the first. *)
(***************************************************************************)
DataShape(d) ==
    d = [found |-> d.found, port |-> d.port, tab |-> d.tab, entity |-> d.entity,
         singleton |-> d.singleton, job |-> d.job, entityDetail |-> d.entityDetail,
         jobDetail |-> d.jobDetail]

DataOK == DataShape(data) /\ (data.entity # NoId => data.port \in Port)

TaskShape(t) ==
    /\ t = [part |-> t.part, base |-> t.base, found |-> t.found, port |-> t.port,
            entity |-> t.entity, job |-> t.job, entityDetail |-> t.entityDetail,
            jobDetail |-> t.jobDetail, failed |-> t.failed]
    /\ t.found = [p \in Port |-> t.found[p]]

OfPort(detail, port) == detail # NoId => detail.port = port

TaskOK(t) ==
    /\ TaskShape(t)
    /\ DataShape(t.base)
    /\ IF t.part = "probe" THEN t.entityDetail = NoId /\ t.jobDetail = NoId
       ELSE /\ t.port = Reconciled(t.base, t.found).port
            /\ OfPort(t.entityDetail, t.port)
            /\ OfPort(t.jobDetail, t.port)

RefreshOK == task # NoTask => TaskOK(task)

WorldOK ==
    /\ world = [p \in Port |-> world[p]]
    /\ \A p \in Port : world[p] # Down => IsRegistry(world[p])
    /\ edits \in [Entity -> [DOMAIN FieldType -> Text \cup {Clean}]]

TInv == DataOK /\ RefreshOK /\ WorldOK

LEMMA LeastPort ==
    ASSUME NEW S \in SUBSET Port, S # {}
    PROVE  FirstPort(S) \in S
<1> DEFINE R == {ss \in Nat \X Nat : ss[1] < ss[2]}
<1>1. IsWellFoundedOn(R, Nat)
  BY NatLessThanWellFounded, Zenon DEF OpToRel
<1>2. S \subseteq Nat
  BY PortAssumption
<1> HIDE DEF R
<1>3. PICK n \in S : \A m \in S : ~(<<m, n>> \in R)
  BY <1>1, <1>2, WFMin
<1>4. ASSUME NEW m \in S PROVE n <= m
  <2>1. <<m, n>> \in Nat \X Nat /\ <<m, n>>[1] = m /\ <<m, n>>[2] = n
    BY <1>2
  <2>2. m < n => <<m, n>> \in R
    BY <2>1 DEF R
  <2> QED
    BY <1>2, <1>3, <2>2
<1> QED
  BY <1>4 DEF FirstPort

(* What reconcile_selection makes of port, entity and details.             *)
LEMMA ReconciledParts ==
    ASSUME NEW d, DataShape(d), NEW found
    PROVE  LET r == Reconciled(d, found)
           IN /\ DataShape(r)
              /\ r.port = IF Live(found) = {} THEN NoId
                          ELSE IF Ok(found, d.port) THEN d.port ELSE FirstPort(Live(found))
              /\ r.entity # NoId => r.port \in Port
              /\ Ok(found, d.port) /\ d.entity \in found[d.port].entities
                    => r.entity = d.entity
              /\ r.entityDetail # NoId => r.entityDetail = d.entityDetail /\ r.port = d.port
              /\ r.jobDetail # NoId => r.jobDetail = d.jobDetail /\ r.port = d.port
              /\ Live(found) = {} => r.entity = NoId /\ r.job = NoId
<1> DEFINE r == Reconciled(d, found)
<1> USE DEF DataShape
<1>1. CASE Live(found) = {}
  <2>1. r = [d EXCEPT !.found = found, !.port = NoId, !.entity = NoId, !.singleton = NoId,
                      !.job = NoId, !.entityDetail = NoId, !.jobDetail = NoId]
    BY <1>1 DEF Reconciled
  <2>2. ~Ok(found, d.port)
    BY <1>1 DEF Live, Ok
  <2> HIDE DEF r
  <2>3. /\ r.port = NoId /\ r.entity = NoId /\ r.job = NoId /\ r.entityDetail = NoId
        /\ r.jobDetail = NoId /\ DataShape(r)
    BY <2>1
  <2> QED
    BY <1>1, <2>2, <2>3 DEF r
<1>2. CASE Live(found) # {}
  <2> DEFINE same == Ok(found, d.port)
             port == IF same THEN d.port ELSE FirstPort(Live(found))
             list == found[port]
             lone == Keep(d.singleton, list.singletons, FrontOf(list.singletons))
             ent  == Keep(d.entity, list.entities, FrontEntity(list.entities))
             ed   == IF same /\ d.entity \in list.entities THEN d.entityDetail ELSE NoId
             job  == Keep(d.job, list.jobs, FrontOf(list.jobs))
             jd   == IF same /\ d.job \in list.jobs THEN d.jobDetail ELSE NoId
             tab  == d.tab /\ lone # NoId
  <2>1. r = [found |-> found, port |-> port, tab |-> tab, entity |-> ent, singleton |-> lone,
             job |-> job, entityDetail |-> ed, jobDetail |-> jd]
    BY <1>2 DEF Reconciled
  <2>2. port \in Port
    <3>1. Live(found) \in SUBSET Port /\ (same => d.port \in Port)
      BY DEF Live, Ok
    <3> QED
      BY <1>2, <3>1, LeastPort
  <2>3. same /\ d.entity \in found[d.port].entities => ent = d.entity
    BY DEF Keep
  <2>4. (ed # NoId => ed = d.entityDetail /\ same) /\ (jd # NoId => jd = d.jobDetail /\ same)
    OBVIOUS
  <2> HIDE DEF r, lone, ent, ed, job, jd, tab, list
  <2>5. /\ r.port = port /\ r.entity = ent /\ r.entityDetail = ed /\ r.jobDetail = jd
        /\ DataShape(r)
    BY <2>1
  <2> QED
    BY <1>2, <2>2, <2>3, <2>4, <2>5 DEF r
<1> QED
  BY <1>1, <1>2

LEMMA BegunOK ==
    ASSUME NEW d, DataShape(d)
    PROVE  TaskOK(Begun(d))
BY DEF TaskOK, TaskShape, Begun

LEMMA StartRefreshKeeps ==
    ASSUME RefreshOK, NEW d, DataShape(d), StartRefresh(d)
    PROVE  RefreshOK'
BY BegunOK DEF RefreshOK, StartRefresh

(* The steps of the refresh.                                               *)
LEMMA ProbeKeeps ==
    ASSUME RefreshOK, task.part = "probe", NEW p \in Port, NEW v,
           task' = [task EXCEPT !.found[p] = v]
    PROVE  RefreshOK'
<1>1. TaskOK(task)
  BY DEF RefreshOK, NoTask
<1>2. PICK f : f = [task.found EXCEPT ![p] = v]
  OBVIOUS
<1>3. task' = [task EXCEPT !.found = f]
  BY <1>2
<1>4. f = [q \in Port |-> f[q]]
  BY <1>1, <1>2 DEF TaskOK, TaskShape
<1>5. /\ task'.part = "probe" /\ task'.base = task.base /\ task'.found = f
      /\ task'.entityDetail = task.entityDetail /\ task'.jobDetail = task.jobDetail
      /\ task' = [part |-> task'.part, base |-> task'.base, found |-> task'.found,
                  port |-> task'.port, entity |-> task'.entity, job |-> task'.job,
                  entityDetail |-> task'.entityDetail, jobDetail |-> task'.jobDetail,
                  failed |-> task'.failed]
  BY <1>1, <1>3 DEF TaskOK, TaskShape
<1> QED
  BY <1>1, <1>4, <1>5 DEF RefreshOK, TaskOK, TaskShape

LEMMA DiscoveredKeeps ==
    ASSUME RefreshOK, Discovered
    PROVE  RefreshOK'
<1>1. TaskOK(task) /\ task.part = "probe"
  BY DEF RefreshOK, NoTask, Discovered
<1>2. PICK next : next = Reconciled(task.base, task.found)
  OBVIOUS
<1>3. PICK e : e = IF next.tab THEN NoId ELSE next.entity
  OBVIOUS
<1>4. task' = [task EXCEPT !.part = "entity", !.port = next.port, !.job = next.job, !.entity = e]
  BY <1>2, <1>3 DEF Discovered
<1>5. /\ task'.part = "entity" /\ task'.base = task.base /\ task'.found = task.found
      /\ task'.port = next.port
      /\ task'.entityDetail = task.entityDetail /\ task'.jobDetail = task.jobDetail
      /\ task' = [part |-> task'.part, base |-> task'.base, found |-> task'.found,
                  port |-> task'.port, entity |-> task'.entity, job |-> task'.job,
                  entityDetail |-> task'.entityDetail, jobDetail |-> task'.jobDetail,
                  failed |-> task'.failed]
  BY <1>1, <1>4 DEF TaskOK, TaskShape
<1> QED
  BY <1>1, <1>2, <1>5 DEF RefreshOK, TaskOK, TaskShape, OfPort

(* An answer, or none, to one of the refresh's last requests.              *)
LEMMA FetchKeeps ==
    ASSUME RefreshOK, task.part \in {"entity", "job"},
           NEW part \in {"job", "done"}, NEW ed, NEW jd, NEW failed,
           task' = [task EXCEPT !.part = part, !.entityDetail = ed, !.jobDetail = jd,
                                !.failed = failed],
           OfPort(ed, task.port), OfPort(jd, task.port)
    PROVE  RefreshOK'
<1>1. TaskOK(task)
  BY DEF RefreshOK, NoTask
<1>2. /\ task'.part = part /\ task'.base = task.base /\ task'.found = task.found
      /\ task'.port = task.port /\ task'.entityDetail = ed /\ task'.jobDetail = jd
      /\ task' = [part |-> task'.part, base |-> task'.base, found |-> task'.found,
                  port |-> task'.port, entity |-> task'.entity, job |-> task'.job,
                  entityDetail |-> task'.entityDetail, jobDetail |-> task'.jobDetail,
                  failed |-> task'.failed]
  BY <1>1 DEF TaskOK, TaskShape
<1> QED
  BY <1>1, <1>2 DEF RefreshOK, TaskOK, TaskShape

LEMMA DetailOfPort == \A p, answer : OfPort(Detail(p, answer), p)
BY DEF OfPort, Detail

LEMMA FetchEntityKeeps ==
    ASSUME RefreshOK, FetchEntity
    PROVE  RefreshOK'
<1>1. TaskOK(task) /\ task.part = "entity"
  BY DEF RefreshOK, NoTask, FetchEntity
<1>2. PICK ed, jd, fl : ed = task.entityDetail /\ jd = task.jobDetail /\ fl = task.failed
  OBVIOUS
<1>3. OfPort(ed, task.port) /\ OfPort(jd, task.port)
  BY <1>1, <1>2 DEF TaskOK
<1>4. CASE task' = [task EXCEPT !.part = "job"]
  <2>1. task' = [task EXCEPT !.part = "job", !.entityDetail = ed, !.jobDetail = jd, !.failed = fl]
    BY <1>1, <1>2, <1>4 DEF TaskOK, TaskShape
  <2> QED
    BY <1>1, <1>3, <2>1, FetchKeeps
<1>5. ASSUME NEW answer, task' = [task EXCEPT !.part = "job", !.entityDetail = Detail(task.port, answer)]
      PROVE  RefreshOK'
  <2>1. PICK detail : detail = Detail(task.port, answer)
    OBVIOUS
  <2>2. task' = [task EXCEPT !.part = "job", !.entityDetail = detail, !.jobDetail = jd, !.failed = fl]
    BY <1>1, <1>2, <1>5, <2>1 DEF TaskOK, TaskShape
  <2>3. OfPort(detail, task.port)
    BY <2>1, DetailOfPort
  <2> QED
    BY <1>1, <1>3, <2>2, <2>3, FetchKeeps
<1>6. CASE task' = [task EXCEPT !.part = "done", !.failed = TRUE]
  <2>1. task' = [task EXCEPT !.part = "done", !.entityDetail = ed, !.jobDetail = jd, !.failed = TRUE]
    BY <1>1, <1>2, <1>6 DEF TaskOK, TaskShape
  <2> QED
    BY <1>1, <1>3, <2>1, FetchKeeps
<1> QED
  BY <1>4, <1>5, <1>6 DEF FetchEntity

LEMMA FetchJobKeeps ==
    ASSUME RefreshOK, FetchJob
    PROVE  RefreshOK'
<1>1. TaskOK(task) /\ task.part = "job"
  BY DEF RefreshOK, NoTask, FetchJob
<1>2. PICK ed, jd, fl : ed = task.entityDetail /\ jd = task.jobDetail /\ fl = task.failed
  OBVIOUS
<1>3. OfPort(ed, task.port) /\ OfPort(jd, task.port)
  BY <1>1, <1>2 DEF TaskOK
<1>4. CASE task' = [task EXCEPT !.part = "done"]
  <2>1. task' = [task EXCEPT !.part = "done", !.entityDetail = ed, !.jobDetail = jd, !.failed = fl]
    BY <1>1, <1>2, <1>4 DEF TaskOK, TaskShape
  <2> QED
    BY <1>1, <1>3, <2>1, FetchKeeps
<1>5. ASSUME NEW answer, task' = [task EXCEPT !.part = "done", !.jobDetail = Detail(task.port, answer)]
      PROVE  RefreshOK'
  <2>1. PICK detail : detail = Detail(task.port, answer)
    OBVIOUS
  <2>2. task' = [task EXCEPT !.part = "done", !.entityDetail = ed, !.jobDetail = detail, !.failed = fl]
    BY <1>1, <1>2, <1>5, <2>1 DEF TaskOK, TaskShape
  <2>3. OfPort(detail, task.port)
    BY <2>1, DetailOfPort
  <2> QED
    BY <1>1, <1>3, <2>2, <2>3, FetchKeeps
<1>6. CASE task' = [task EXCEPT !.part = "done", !.failed = TRUE]
  <2>1. task' = [task EXCEPT !.part = "done", !.entityDetail = ed, !.jobDetail = jd, !.failed = TRUE]
    BY <1>1, <1>2, <1>6 DEF TaskOK, TaskShape
  <2> QED
    BY <1>1, <1>3, <2>1, FetchKeeps
<1> QED
  BY <1>4, <1>5, <1>6 DEF FetchJob

LEMMA RefreshStepKeeps ==
    ASSUME RefreshOK, RefreshStep
    PROVE  RefreshOK' /\ UNCHANGED <<data, world, edits>>
<1>1. ASSUME NEW p \in Port, ProbeEntities(p) PROVE RefreshOK'
  <2>1. task.part = "probe" /\ \E v : task' = [task EXCEPT !.found[p] = v]
    BY <1>1 DEF ProbeEntities, Probing
  <2> QED
    BY <2>1, ProbeKeeps
<1>2. ASSUME NEW p \in Port, ProbeRest(p) PROVE RefreshOK'
  <2>1. task.part = "probe" /\ \E v : task' = [task EXCEPT !.found[p] = v]
    BY <1>2 DEF ProbeRest, Probing
  <2> QED
    BY <2>1, ProbeKeeps
<1>3. UNCHANGED <<data, world, edits>>
  BY DEF RefreshStep, ProbeEntities, ProbeRest, Discovered, FetchEntity, FetchJob
<1> QED
  BY <1>1, <1>2, <1>3, DiscoveredKeeps, FetchEntityKeeps, FetchJobKeeps DEF RefreshStep

(* The end of a refresh that has not failed.                               *)
LEMMA Merging ==
    ASSUME TInv, PollRefresh, ~task.failed
    PROVE  LET next == Reconciled(data, task.found)
           IN /\ DataShape(next)
              /\ \E ed \in {next.entityDetail, task.entityDetail} :
                 \E jd \in {next.jobDetail, task.jobDetail} :
                    /\ data' = [next EXCEPT !.entityDetail = ed, !.jobDetail = jd]
                    /\ DataShape(data')
                    /\ data'.port = next.port /\ data'.entity = next.entity
                    /\ data'.entityDetail = ed /\ data'.jobDetail = jd
              /\ task' \in {NoTask, Begun(data')}
<1>1. PICK next : next = Reconciled(data, task.found)
  OBVIOUS
<1>2. DataShape(next)
  BY <1>1, ReconciledParts DEF TInv, DataOK
<1>3. \E ed \in {next.entityDetail, task.entityDetail} :
      \E jd \in {next.jobDetail, task.jobDetail} :
         /\ data' = [next EXCEPT !.entityDetail = ed, !.jobDetail = jd]
         /\ task' \in {NoTask, Begun(data')}
  <2> DEFINE lateEntity == ~next.tab /\ next.entity # NoId /\ task.entity # next.entity
             lateJob    == next.job # NoId /\ task.job # next.job
             ed == IF lateEntity THEN next.entityDetail ELSE task.entityDetail
             jd == IF lateJob THEN next.jobDetail ELSE task.jobDetail
  <2>1. data' = [next EXCEPT !.entityDetail = IF lateEntity THEN @ ELSE task.entityDetail,
                             !.jobDetail = IF lateJob THEN @ ELSE task.jobDetail]
    BY <1>1 DEF PollRefresh
  <2>2. data' = [next EXCEPT !.entityDetail = ed, !.jobDetail = jd]
    BY <2>1
  <2>3. task' \in {NoTask, Begun(data')}
    BY <1>1 DEF PollRefresh
  <2>4. ed \in {next.entityDetail, task.entityDetail} /\ jd \in {next.jobDetail, task.jobDetail}
    OBVIOUS
  <2> HIDE DEF ed, jd
  <2> QED
    BY <2>2, <2>3, <2>4
<1>4. PICK ed \in {next.entityDetail, task.entityDetail}, jd \in {next.jobDetail, task.jobDetail} :
         /\ data' = [next EXCEPT !.entityDetail = ed, !.jobDetail = jd]
         /\ task' \in {NoTask, Begun(data')}
  BY <1>3
<1>5. /\ data'.port = next.port /\ data'.entity = next.entity
      /\ data'.entityDetail = ed /\ data'.jobDetail = jd /\ DataShape(data')
  BY <1>2, <1>4 DEF DataShape
<1> QED
  BY <1>1, <1>2, <1>4, <1>5

LEMMA PollRefreshKeeps ==
    ASSUME TInv, PollRefresh
    PROVE  DataOK' /\ RefreshOK'
<1>1. CASE task.failed
  BY <1>1 DEF PollRefresh, TInv, DataOK, RefreshOK
<1>2. CASE ~task.failed
  <2>1. /\ DataShape(data') /\ task' \in {NoTask, Begun(data')}
        /\ data'.port = Reconciled(data, task.found).port
        /\ data'.entity = Reconciled(data, task.found).entity
    BY <1>2, Merging
  <2>2. data'.entity # NoId => data'.port \in Port
    BY <2>1, ReconciledParts DEF TInv, DataOK
  <2>3. RefreshOK'
    BY <2>1, BegunOK DEF RefreshOK
  <2> QED
    BY <2>1, <2>2, <2>3 DEF DataOK
<1> QED
  BY <1>1, <1>2
----------------------------------------------------------------------------
(* The registries behind the ports.                                        *)
WithEntry(r, c, e, v) == [r EXCEPT !.table[c][e] = v]

LEMMA EntryOfRegistry ==
    ASSUME NEW r, IsRegistry(r), NEW c \in Component, NEW e,
           NEW v, NEW s,
           e \in Entity \cup {Holder} => v \in [DOMAIN Info[c].fields -> Nat] \cup {Missing},
           s = WithEntry(r, c, e, v)
    PROVE  /\ IsRegistry(s)
           /\ e \in Entity \cup {Holder} => s.table[c][e] = v
<1>1. s.alive = r.alive /\ s.table = [r.table EXCEPT ![c] = [r.table[c] EXCEPT ![e] = v]]
      /\ s = [alive |-> s.alive, table |-> s.table]
  BY DEF IsRegistry, WithEntry
<1>2. s.table = [d \in Component |-> s.table[d]]
  BY <1>1 DEF IsRegistry
<1>3. s.table[c] = [r.table[c] EXCEPT ![e] = v]
      /\ \A d \in Component : d # c => s.table[d] = r.table[d]
  BY <1>1 DEF IsRegistry
<1>4. /\ s.table[c] \in [Entity \cup {Holder} -> [DOMAIN Info[c].fields -> Nat] \cup {Missing}]
      /\ e \in Entity \cup {Holder} => s.table[c][e] = v
  <2> PICK V, D, g : /\ V = [DOMAIN Info[c].fields -> Nat] \cup {Missing}
                     /\ D = Entity \cup {Holder} /\ g = r.table[c]
    OBVIOUS
  <2>1. g \in [D -> V] /\ (e \in D => v \in V)
    BY DEF IsRegistry
  <2>2. [g EXCEPT ![e] = v] \in [D -> V] /\ (e \in D => [g EXCEPT ![e] = v][e] = v)
    BY <2>1
  <2> QED
    BY <1>3, <2>2
<1> QED
  BY <1>1, <1>2, <1>3, <1>4 DEF IsRegistry

LEMMA OneWord ==
    ASSUME NEW n \in DOMAIN Operations
    PROVE  OperationOf({Operations[n]}) = Operations[n]
<1>1. DOMAIN Operations = 1 .. 10
  BY DEF Operations
<1>2. \A m \in 1 .. 10 : Operations[m] = Operations[n] => m = n
  BY <1>1 DEF Operations
<1> DEFINE hits == {m \in DOMAIN Operations : Operations[m] \in {Operations[n]}}
<1>3. hits = {n}
  BY <1>1, <1>2
<1>4. (CHOOSE k \in hits : \A m \in hits : k <= m) = n
  <2>1. n \in hits /\ \A m \in hits : n <= m
    BY <1>1, <1>3
  <2> HIDE DEF hits
  <2> QED
    BY <1>3, <2>1
<1> HIDE DEF hits
<1>5. OperationOf({Operations[n]}) = IF hits = {} THEN "unsupported"
                                    ELSE Operations[CHOOSE k \in hits : \A m \in hits : k <= m]
  BY DEF OperationOf, hits
<1> QED
  BY <1>3, <1>4, <1>5

(* What setComponent does with a text that was typed over a field.         *)
LEMMA SetMeans ==
    ASSUME NEW r, IsRegistry(r), NEW e, NEW f \in DOMAIN FieldType, NEW text,
           e \in Entity => text \in Text, NEW result,
           result = HandleGraphql(r, SetRequest(e, f, text))
    PROVE  /\ IsRegistry(result.reg)
           /\ result.answer.kind = "set" =>
                 /\ result.reg.table[Edited][e] # Missing
                 /\ result.reg.table[Edited][e][f]
                       = FieldValue(FieldType[f], Typed(FieldType[f], text))
<1> DEFINE q == SetRequest(e, f, text)
           c == Edited
           n == Typed(FieldType[f], text)
           old == IF r.table[c][e] = Missing THEN Blank(c) ELSE r.table[c][e]
           stored == Written(c, old, q.values)
<1> USE FieldAssumption
<1>1. /\ q.words = {"setComponent"} /\ q.id = e /\ q.component = c
      /\ q.values = [g \in {f} |-> n]
  <2>1. q.words = {"setComponent"} /\ q.id = e /\ q.component = c
    BY DEF SetRequest
  <2>2. q.values = [g \in {f} |-> Typed(FieldType[g], text)]
    BY DEF SetRequest
  <2>3. [g \in {f} |-> Typed(FieldType[g], text)] = [g \in {f} |-> n]
    OBVIOUS
  <2> HIDE DEF q, n
  <2> QED
    BY <2>1, <2>2, <2>3
<1>2. OperationOf(q.words) = "setComponent"
  <2>1. 3 \in DOMAIN Operations /\ Operations[3] = "setComponent"
    BY DEF Operations
  <2> QED
    BY <1>1, <2>1, OneWord
<1>3. result = SetComponent(r, e, c, q.values)
  <2>1. PICK op : op = OperationOf(q.words)
    OBVIOUS
  <2>2. op = "setComponent"
    BY <1>2, <2>1
  <2>3. HandleGraphql(r, q) = SetComponent(r, q.id, q.component, q.values)
    BY <2>1, <2>2 DEF HandleGraphql
  <2> HIDE DEF q
  <2> QED
    BY <1>1, <2>3 DEF q
<1>4. /\ c \in Component /\ Info[c].kind = "value" /\ f \in DOMAIN Info[c].fields
      /\ Missing \notin [DOMAIN Info[c].fields -> Nat]
  BY DEF FieldType
<1>5. ASSUME e \in Entity, FieldFits(FieldType[f], n)
      PROVE  /\ stored \in [DOMAIN Info[c].fields -> Nat]
             /\ stored[f] = FieldValue(FieldType[f], n)
  <2>1. r.table[c][e] \in [DOMAIN Info[c].fields -> Nat] \cup {Missing}
    BY <1>4, <1>5 DEF IsRegistry
  <2>2. old \in [DOMAIN Info[c].fields -> Nat]
    BY <2>1 DEF Blank
  <2>3. stored = [g \in DOMAIN Info[c].fields |->
                     IF g = f THEN FieldValue(FieldType[f], n) ELSE old[g]]
    <3>1. Info[c].fields[f] = FieldType[f]
      BY DEF FieldType
    <3>2. stored = [g \in DOMAIN old |-> IF g \in DOMAIN q.values
                          THEN FieldValue(Info[c].fields[g], q.values[g]) ELSE old[g]]
      BY DEF Written
    <3> HIDE DEF q, old, stored, n
    <3>3. DOMAIN old = DOMAIN Info[c].fields /\ DOMAIN q.values = {f} /\ q.values[f] = n
      BY <1>1, <2>2
    <3> QED
      BY <3>1, <3>2, <3>3
  <2>4. FieldValue(FieldType[f], n) \in Nat
    BY <1>5, NumberAssumption
  <2> HIDE DEF old, stored, n
  <2> QED
    BY <1>4, <2>2, <2>3, <2>4
<1>6. CASE result = Unchanged(r, Error)
  <2>1. result.reg = r /\ result.answer.kind = "error"
    BY <1>6 DEF Unchanged, Error
  <2> QED
    BY <2>1
<1>7. CASE result # Unchanged(r, Error)
  <2>v. Valid(c, q.values) => FieldFits(FieldType[f], n)
    <3>1. Info[c].fields[f] = FieldType[f]
      BY DEF FieldType
    <3>2. Valid(c, q.values) => \A g \in DOMAIN q.values :
                                   FieldFits(Info[c].fields[g], q.values[g])
      BY DEF Valid
    <3> HIDE DEF q, n
    <3>3. DOMAIN q.values = {f} /\ q.values[f] = n
      BY <1>1
    <3> QED
      BY <3>1, <3>2, <3>3
  <2> HIDE DEF q, stored, old, n
  <2>1. PICK s : s = WithEntry(r, c, e, stored)
    OBVIOUS
  <2>2. result.reg = s /\ e \in Entity /\ Valid(c, q.values)
    BY <1>3, <1>4, <1>7, <2>1 DEF SetComponent, WithEntry, IsRegistry, stored, old
  <2>3. e \in Entity \cup {Holder} => stored \in [DOMAIN Info[c].fields -> Nat] \cup {Missing}
    BY <1>5, <2>2, <2>v
  <2> PICK d, x : d = c /\ x = stored
    OBVIOUS
  <2>4. /\ d \in Component /\ s = WithEntry(r, d, e, x)
        /\ e \in Entity \cup {Holder} => x \in [DOMAIN Info[d].fields -> Nat] \cup {Missing}
    BY <1>4, <2>1, <2>3
  <2>5. IsRegistry(s) /\ (e \in Entity \cup {Holder} => s.table[d][e] = x)
    BY <2>4, EntryOfRegistry
  <2> QED
    BY <1>4, <1>5, <2>2, <2>5, <2>v DEF n
<1> QED
  BY <1>6, <1>7

LEMMA RemoveKeeps ==
    ASSUME NEW r, IsRegistry(r), NEW e
    PROVE  IsRegistry(HandleGraphql(r, RemoveRequest(e)).reg)
<1> DEFINE q == RemoveRequest(e)
           c == Edited
<1>1. q.words = {"removeComponent"} /\ q.id = e /\ q.component = c
  BY DEF RemoveRequest
<1>2. OperationOf(q.words) = "removeComponent"
  <2>1. 2 \in DOMAIN Operations /\ Operations[2] = "removeComponent"
    BY DEF Operations
  <2> QED
    BY <1>1, <2>1, OneWord
<1>3. HandleGraphql(r, q) = RemoveComponent(r, e, c)
  <2>1. PICK op : op = OperationOf(q.words)
    OBVIOUS
  <2>2. op = "removeComponent"
    BY <1>2, <2>1
  <2>3. HandleGraphql(r, q) = RemoveComponent(r, q.id, q.component)
    BY <2>1, <2>2 DEF HandleGraphql
  <2> HIDE DEF q
  <2> QED
    BY <1>1, <2>3 DEF q
<1>4. PICK s : s = WithEntry(r, c, e, Missing)
  OBVIOUS
<1>5. RemoveComponent(r, e, c).reg \in {r, s}
  BY <1>4 DEF RemoveComponent, Unchanged, WithEntry
<1>6. IsRegistry(s)
  <2> PICK d, x : d = c /\ x = Missing
    OBVIOUS
  <2>1. /\ d \in Component /\ s = WithEntry(r, d, e, x)
        /\ e \in Entity \cup {Holder} => x \in [DOMAIN Info[d].fields -> Nat] \cup {Missing}
    BY <1>4, FieldAssumption
  <2> QED
    BY <2>1, EntryOfRegistry
<1> QED
  BY <1>3, <1>5, <1>6

LEMMA NotRounded ==
    ASSUME NEW bits, NEW n, n <= 2 ^ bits
    PROVE  Rounded(bits, n) = n
BY DEF Rounded

LEMMA WholePart ==
    ASSUME NEW n \in Nat, NEW one \in Nat \ {0}
    PROVE  (n * one) \div one = n
OBVIOUS

(* What a field can store digit for digit arrives in it digit for digit.   *)
LEMMA FaithfulExact ==
    ASSUME NEW type, NEW text \in Text, Faithful(type, text)
    PROVE  FieldValue(type, Typed(type, text)) = text
<1>1. PICK m, l, h : m = 2 ^ Mantissa /\ l = 2 ^ LongDigits /\ h = 2 ^ FloatMantissa
  OBVIOUS
<1>2. /\ m \in Nat /\ l \in Nat /\ h \in Nat /\ text \in Nat
      /\ h <= m /\ m < l /\ m <= Largest["f64"]
      /\ Largest["f64"] \in Nat /\ One \in Nat \ {0} /\ StringSize \in Nat \ {0}
  BY <1>1, NumberAssumption
<1>3. CASE type = "bool"
  <2>1. text = 0 \/ text = 1
    BY <1>2, <1>3 DEF Faithful
  <2>2. Typed(type, text) = [kind |-> "bool", number |-> text]
    BY <1>3, <2>1 DEF Typed, FloatType
  <2> QED
    BY <1>3, <2>2 DEF FieldValue
<1>4. CASE type = "string"
  <2>1. Typed(type, text) = [kind |-> "string", number |-> text]
    BY <1>4 DEF Typed, FloatType
  <2>2. text < StringSize
    BY <1>4 DEF Faithful
  <2>3. Least(text, StringSize - 1) = text
    BY <1>2, <2>2 DEF Least
  <2> QED
    BY <1>4, <2>1, <2>3 DEF FieldValue
<1>5. CASE type \in FloatType
  <2>1. text <= m /\ Plain(text) /\ (type = "f32" => text <= h)
    BY <1>1, <1>2, <1>5 DEF Faithful, FloatType
  <2>2. Rounded(Mantissa, text) = text
    BY <1>1, <2>1, NotRounded
  <2>3. Typed(type, text) = [kind |-> "plain", number |-> text]
    <3>1. type \notin {"bool", "string"} /\ ~(text > Largest["f64"])
      BY <1>2, <1>5, <2>1 DEF FloatType
    <3> QED
      BY <1>5, <2>1, <2>2, <3>1 DEF Typed
  <2>4. Parsed(Typed(type, text)) = text
    BY <2>3 DEF Parsed
  <2>5. type = "f32" => Rounded(FloatMantissa, text) = text
    BY <1>1, <2>1, NotRounded
  <2> QED
    BY <1>5, <2>4, <2>5 DEF FieldValue, FloatType
<1>6. CASE type \notin FloatType \cup {"bool", "string"}
  <2>1. PICK n \in 0 .. m : text = n * One
    BY <1>1, <1>6 DEF Faithful, FloatType
  <2>2. text \div One = n
    BY <1>2, <2>1, WholePart
  <2>3. Least(n, l - 1) = n
    BY <1>2, <2>1 DEF Least
  <2>4. Typed(type, text) = [kind |-> "integer", number |-> n]
    BY <1>1, <1>6, <2>2, <2>3 DEF Typed, FloatType
  <2>5. Rounded(Mantissa, n) = n
    BY <1>1, <2>1, NotRounded
  <2>6. Parsed(Typed(type, text)) = text
    BY <2>1, <2>4, <2>5 DEF Parsed
  <2> QED
    BY <1>6, <2>6 DEF FieldValue, FloatType
<1> QED
  BY <1>3, <1>4, <1>5, <1>6

LEMMA OutcomeMeans ==
    ASSUME WorldOK, NEW q, NEW o \in Outcomes(q), data.port \in Port
    PROVE  LET result == HandleGraphql(world[data.port], q)
           IN /\ o.world # world => /\ world[data.port] # Down
                                    /\ o.world = [world EXCEPT ![data.port] = result.reg]
              /\ o.kind # "failed" => /\ world[data.port] # Down
                                      /\ o.world = [world EXCEPT ![data.port] = result.reg]
                                      /\ o.kind = result.answer.kind
BY DEF Outcomes

LEMMA WorldWritten ==
    ASSUME WorldOK, NEW p \in Port, NEW r, NEW w, w = [world EXCEPT ![p] = r],
           r # Down => IsRegistry(r)
    PROVE  /\ w = [q \in Port |-> w[q]] /\ w[p] = r
           /\ \A q \in Port : w[q] # Down => IsRegistry(w[q])
<1>1. w = [q \in Port |-> IF q = p THEN r ELSE world[q]]
  BY DEF WorldOK
<1> QED
  BY <1>1 DEF WorldOK

LEMMA SaveKeeps ==
    ASSUME TInv, NEW f \in DOMAIN FieldType, Save(f)
    PROVE  /\ WorldOK' /\ RefreshOK'
           /\ \A e \in Entity : \A g \in DOMAIN FieldType :
                 edits[e][g] # Clean /\ edits'[e][g] = Clean =>
                    /\ world[data.port] # Down
                    /\ world'[data.port].table[Edited][e] # Missing
                    /\ Faithful(FieldType[g], edits[e][g]) =>
                          world'[data.port].table[Edited][e][g] = edits[e][g]
<1> DEFINE x == data.entity
           p == data.port
<1>0. WorldOK /\ RefreshOK /\ DataShape(data)
  BY DEF TInv, DataOK
<1>1. p \in Port
  BY DEF TInv, DataOK, Save, EntityShown
<1>2. PICK o \in Outcomes(SetRequest(x, f, edits[x][f])) :
         /\ world' = o.world
         /\ IF o.kind = "set"
            THEN edits' = [edits EXCEPT ![x][f] = Clean] /\ StartRefresh(data)
            ELSE UNCHANGED <<edits, loading, task>>
  BY DEF Save
<1>3. edits[x][f] # Clean
  BY DEF Save
<1>4. RefreshOK'
  <2>1. CASE o.kind = "set"
    BY <1>0, <1>2, <2>1, StartRefreshKeeps
  <2>2. CASE o.kind # "set"
    BY <1>0, <1>2, <2>2 DEF RefreshOK
  <2> QED
    BY <2>1, <2>2
<1>5. edits' \in [Entity -> [DOMAIN FieldType -> Text \cup {Clean}]]
  BY <1>0, <1>2 DEF WorldOK
<1>6. WorldOK'
  <2>1. CASE world' = world
    BY <1>0, <1>5, <2>1 DEF WorldOK
  <2>2. CASE world' # world
    <3>1. PICK r : r = HandleGraphql(world[p], SetRequest(x, f, edits[x][f])).reg
      OBVIOUS
    <3>2. world[p] # Down /\ world' = [world EXCEPT ![p] = r]
      BY <1>0, <1>1, <1>2, <2>2, <3>1, OutcomeMeans
    <3>3. IsRegistry(r)
      <4>1. IsRegistry(world[p])
        BY <1>0, <1>1, <3>2 DEF WorldOK
      <4>2. x \in Entity => edits[x][f] \in Text
        BY <1>0, <1>3 DEF WorldOK
      <4> HIDE DEF x
      <4> QED
        BY <3>1, <4>1, <4>2, SetMeans
    <3> QED
      BY <1>0, <1>1, <1>5, <3>2, <3>3, WorldWritten DEF WorldOK
  <2> QED
    BY <2>1, <2>2
<1>7. ASSUME NEW e \in Entity, NEW g \in DOMAIN FieldType,
             edits[e][g] # Clean, edits'[e][g] = Clean
      PROVE  /\ world[p] # Down
             /\ world'[p].table[Edited][e] # Missing
             /\ Faithful(FieldType[g], edits[e][g]) =>
                   world'[p].table[Edited][e][g] = edits[e][g]
  <2>1. edits \in [Entity -> [DOMAIN FieldType -> Text \cup {Clean}]]
    BY <1>0 DEF WorldOK
  <2>2. e = x /\ g = f /\ o.kind = "set"
    BY <1>2, <1>7, <2>1
  <2>3. edits[e][g] \in Text
    BY <1>7, <2>1
  <2>4. PICK result : result = HandleGraphql(world[p], SetRequest(x, f, edits[x][f]))
    OBVIOUS
  <2>5. /\ world[p] # Down /\ world' = [world EXCEPT ![p] = result.reg]
        /\ result.answer.kind = "set"
    BY <1>0, <1>1, <1>2, <2>2, <2>4, OutcomeMeans
  <2>6. IsRegistry(world[p])
    BY <1>0, <1>1, <2>5 DEF WorldOK
  <2> HIDE DEF x, p
  <2>7. /\ result.reg.table[Edited][e] # Missing
        /\ result.reg.table[Edited][e][g]
              = FieldValue(FieldType[g], Typed(FieldType[g], edits[e][g]))
    BY <2>2, <2>3, <2>4, <2>5, <2>6, SetMeans
  <2>8. world'[p] = result.reg
    BY <1>0, <1>1, <2>5 DEF WorldOK, p
  <2>9. Faithful(FieldType[g], edits[e][g]) =>
           FieldValue(FieldType[g], Typed(FieldType[g], edits[e][g])) = edits[e][g]
    BY <2>3, FaithfulExact
  <2> QED
    BY <2>5, <2>7, <2>8, <2>9
<1> QED
  BY <1>4, <1>6, <1>7

LEMMA RemoveShownKeeps ==
    ASSUME TInv, RemoveShown
    PROVE  WorldOK' /\ RefreshOK'
<1> DEFINE p == data.port
<1>0. WorldOK /\ RefreshOK /\ DataShape(data)
  BY DEF TInv, DataOK
<1>1. p \in Port
  BY DEF TInv, DataOK, RemoveShown, EntityShown
<1>2. PICK o \in Outcomes(RemoveRequest(data.entity)) :
         /\ world' = o.world
         /\ IF o.kind = "removed" THEN StartRefresh(data) ELSE UNCHANGED <<loading, task>>
  BY DEF RemoveShown
<1>3. edits' = edits
  BY DEF RemoveShown
<1>4. RefreshOK'
  <2>1. CASE o.kind = "removed"
    BY <1>0, <1>2, <2>1, StartRefreshKeeps
  <2>2. CASE o.kind # "removed"
    BY <1>0, <1>2, <2>2 DEF RefreshOK
  <2> QED
    BY <2>1, <2>2
<1>5. CASE world' = world
  BY <1>0, <1>3, <1>4, <1>5 DEF WorldOK
<1>6. CASE world' # world
  <2>1. PICK r : r = HandleGraphql(world[p], RemoveRequest(data.entity)).reg
    OBVIOUS
  <2>2. world[p] # Down /\ world' = [world EXCEPT ![p] = r]
    BY <1>0, <1>1, <1>2, <1>6, <2>1, OutcomeMeans
  <2>3. IsRegistry(r)
    BY <1>0, <1>1, <2>1, <2>2, RemoveKeeps DEF WorldOK
  <2>4. WorldOK'
    BY <1>0, <1>1, <1>3, <2>2, <2>3, WorldWritten DEF WorldOK
  <2> QED
    BY <1>4, <2>4
<1> QED
  BY <1>5, <1>6

LEMMA ChangeKeeps ==
    ASSUME WorldOK, Change
    PROVE  WorldOK'
<1>1. ASSUME NEW p \in Port, ServerStops(p) PROVE WorldOK'
  BY <1>1, WorldWritten DEF ServerStops, WorldOK
<1>2. ASSUME NEW p \in Port, ServerStarts(p) PROVE WorldOK'
  <2>1. IsRegistry(FirstWorld[p])
    BY PortAssumption
  <2>2. edits' = edits /\ world' = [world EXCEPT ![p] = FirstWorld[p]]
    BY <1>2 DEF ServerStarts
  <2> QED
    BY <2>1, <2>2, WorldWritten DEF WorldOK
<1>3. ASSUME NEW p \in Port, NEW e \in Entity, EntityDies(p, e) PROVE WorldOK'
  <2>1. IsRegistry(world[p])
    BY <1>3 DEF EntityDies, WorldOK
  <2>2. PICK r : r = [alive |-> world[p].alive \ {e},
                      table |-> [c \in Component |-> [world[p].table[c] EXCEPT ![e] = Missing]]]
    OBVIOUS
  <2>3. ASSUME NEW c \in Component
        PROVE  r.table[c] \in [Entity \cup {Holder} -> [DOMAIN Info[c].fields -> Nat] \cup {Missing}]
    <3>1. PICK g, V : g = world[p].table[c] /\ V = [DOMAIN Info[c].fields -> Nat] \cup {Missing}
      OBVIOUS
    <3>2. g \in [Entity \cup {Holder} -> V] /\ Missing \in V
      BY <2>1, <3>1 DEF IsRegistry
    <3>3. r.table[c] = [g EXCEPT ![e] = Missing]
      BY <2>2, <3>1
    <3>4. [g EXCEPT ![e] = Missing] \in [Entity \cup {Holder} -> V]
      BY <3>2
    <3> QED
      BY <3>1, <3>3, <3>4
  <2>4. IsRegistry(r)
    BY <2>1, <2>2, <2>3 DEF IsRegistry
  <2>5. edits' = edits /\ world' = [world EXCEPT ![p] = r]
    BY <1>3, <2>2 DEF EntityDies, WorldOK
  <2> QED
    BY <2>4, <2>5, WorldWritten DEF WorldOK
<1> QED
  BY <1>1, <1>2, <1>3 DEF Change

(* Clicks that select.                                                     *)
LEMMA SelectKeeps ==
    ASSUME TInv, NEW d, DataShape(d), d.entity # NoId => d.port \in Port,
           data' = d, StartRefresh(d)
    PROVE  DataOK' /\ RefreshOK'
BY StartRefreshKeeps DEF TInv, DataOK

LEMMA ServerSelected ==
    ASSUME TInv, NEW p \in Port, SelectServer(p)
    PROVE  DataOK' /\ RefreshOK' /\ data'.entityDetail = NoId /\ data'.jobDetail = NoId
<1>1. data' = [data EXCEPT !.port = p, !.entityDetail = NoId, !.jobDetail = NoId]
      /\ StartRefresh(data')
  BY DEF SelectServer
<1>2. /\ DataShape(data') /\ data'.port = p
      /\ data'.entityDetail = NoId /\ data'.jobDetail = NoId
  BY <1>1 DEF TInv, DataOK, DataShape
<1> QED
  BY <1>1, <1>2, SelectKeeps

LEMMA EntitySelected ==
    ASSUME TInv, NEW e \in Entity, SelectEntity(e)
    PROVE  /\ DataOK' /\ RefreshOK' /\ data'.entityDetail = NoId
           /\ data'.jobDetail = data.jobDetail /\ data'.port = data.port
<1>1. data' = [data EXCEPT !.entity = e, !.tab = FALSE, !.entityDetail = NoId]
      /\ StartRefresh(data')
  BY DEF SelectEntity
<1>2. /\ DataShape(data') /\ data'.port = data.port
      /\ data'.entityDetail = NoId /\ data'.jobDetail = data.jobDetail
  BY <1>1 DEF TInv, DataOK, DataShape
<1>3. data.port \in Port
  BY DEF SelectEntity, Listed, Ok
<1> QED
  BY <1>1, <1>2, <1>3, SelectKeeps

LEMMA JobSelected ==
    ASSUME TInv, NEW j \in Job, SelectJob(j)
    PROVE  /\ DataOK' /\ RefreshOK' /\ data'.jobDetail = NoId
           /\ data'.entityDetail = data.entityDetail /\ data'.port = data.port
<1>1. data' = [data EXCEPT !.job = j, !.jobDetail = NoId] /\ StartRefresh(data')
  BY DEF SelectJob
<1>2. /\ DataShape(data') /\ data'.port = data.port
      /\ data'.jobDetail = NoId /\ data'.entityDetail = data.entityDetail
  BY <1>1 DEF TInv, DataOK, DataShape
<1>3. data.port \in Port
  BY DEF SelectJob, Listed, Ok
<1> QED
  BY <1>1, <1>2, <1>3, SelectKeeps

LEMMA TabShown ==
    ASSUME TInv, DrawTabs \/ \E singletons \in BOOLEAN : ShowTab(singletons)
    PROVE  /\ DataOK' /\ RefreshOK' /\ data'.port = data.port
           /\ data'.jobDetail = data.jobDetail /\ data'.entityDetail = data.entityDetail
<1>1. PICK tab : data' = [data EXCEPT !.tab = tab] /\ task' = task
  BY DEF ShowTab, DrawTabs
<1>2. /\ DataShape(data') /\ data'.port = data.port /\ data'.entity = data.entity
      /\ data'.jobDetail = data.jobDetail /\ data'.entityDetail = data.entityDetail
  BY <1>1 DEF TInv, DataOK, DataShape
<1> QED
  BY <1>1, <1>2 DEF TInv, DataOK, RefreshOK

LEMMA EditKeeps ==
    ASSUME WorldOK, NEW f \in DOMAIN FieldType, NEW text \in Text \cup {Clean}, Edit(f, text)
    PROVE  /\ WorldOK'
           /\ \A e \in Entity : \A g \in DOMAIN FieldType :
                 edits[e][g] # Clean /\ edits'[e][g] = Clean => Edit(g, Clean)
<1>1. /\ edits \in [Entity -> [DOMAIN FieldType -> Text \cup {Clean}]]
      /\ edits' = [edits EXCEPT ![data.entity][f] = text]
  BY DEF WorldOK, Edit
<1>2. edits' \in [Entity -> [DOMAIN FieldType -> Text \cup {Clean}]]
  BY <1>1
<1>3. ASSUME NEW e \in Entity, NEW g \in DOMAIN FieldType,
             edits[e][g] # Clean, edits'[e][g] = Clean
      PROVE  g = f /\ text = Clean
  BY <1>1, <1>3
<1> QED
  BY <1>2, <1>3 DEF WorldOK, Edit

LEMMA InitTInv == ToolInit => TInv
<1> SUFFICES ASSUME ToolInit PROVE TInv
  OBVIOUS
<1>1. DataOK
  BY DEF ToolInit, DataOK, DataShape
<1>2. RefreshOK
  BY <1>1, BegunOK DEF ToolInit, RefreshOK, DataOK
<1>3. WorldOK
  BY PortAssumption DEF ToolInit, WorldOK
<1> QED
  BY <1>1, <1>2, <1>3 DEF TInv

LEMMA NextTInv == TInv /\ [ToolNext]_toolVars => TInv'
<1> SUFFICES ASSUME TInv, [ToolNext]_toolVars PROVE TInv'
  OBVIOUS
<1>0. DataOK /\ RefreshOK /\ WorldOK
  BY DEF TInv
<1>d. ASSUME data' = data PROVE DataOK'
  BY <1>0, <1>d DEF DataOK
<1>r. ASSUME task' = task PROVE RefreshOK'
  BY <1>0, <1>r DEF RefreshOK
<1>w. ASSUME world' = world, edits' = edits PROVE WorldOK'
  BY <1>0, <1>w DEF WorldOK
<1>1. CASE RefreshStep
  BY <1>0, <1>1, <1>d, <1>w, RefreshStepKeeps DEF TInv
<1>2. CASE PollRefresh
  <2>1. world' = world /\ edits' = edits
    BY <1>2 DEF PollRefresh
  <2> QED
    BY <1>2, <1>w, <2>1, PollRefreshKeeps DEF TInv
<1>3. CASE AutoRefresh \/ RefreshButton
  <2>1. world' = world /\ edits' = edits /\ data' = data /\ StartRefresh(data)
    BY <1>3 DEF AutoRefresh, RefreshButton
  <2>2. RefreshOK'
    BY <1>0, <2>1, StartRefreshKeeps DEF DataOK
  <2> QED
    BY <1>d, <1>w, <2>1, <2>2 DEF TInv
<1>4. ASSUME NEW p \in Port, SelectServer(p) PROVE TInv'
  <2>1. world' = world /\ edits' = edits
    BY <1>4 DEF SelectServer
  <2> QED
    BY <1>4, <1>w, <2>1, ServerSelected DEF TInv
<1>5. ASSUME NEW e \in Entity, SelectEntity(e) PROVE TInv'
  <2>1. world' = world /\ edits' = edits
    BY <1>5 DEF SelectEntity
  <2> QED
    BY <1>5, <1>w, <2>1, EntitySelected DEF TInv
<1>6. ASSUME NEW j \in Job, SelectJob(j) PROVE TInv'
  <2>1. world' = world /\ edits' = edits
    BY <1>6 DEF SelectJob
  <2> QED
    BY <1>6, <1>w, <2>1, JobSelected DEF TInv
<1>7. ASSUME DrawTabs \/ \E b \in BOOLEAN : ShowTab(b) PROVE TInv'
  <2>1. world' = world /\ edits' = edits
    BY <1>7 DEF ShowTab, DrawTabs
  <2> QED
    BY <1>7, <1>w, <2>1, TabShown DEF TInv
<1>8. ASSUME NEW f \in DOMAIN FieldType, NEW text \in Text \cup {Clean}, Edit(f, text)
      PROVE  TInv'
  <2>1. data' = data /\ task' = task
    BY <1>8 DEF Edit
  <2> QED
    BY <1>0, <1>8, <1>d, <1>r, <2>1, EditKeeps DEF TInv
<1>9. ASSUME NEW f \in DOMAIN FieldType, Save(f) PROVE TInv'
  <2>1. data' = data
    BY <1>9 DEF Save
  <2> QED
    BY <1>9, <1>d, <2>1, SaveKeeps DEF TInv
<1>10. CASE RemoveShown
  <2>1. data' = data
    BY <1>10 DEF RemoveShown
  <2> QED
    BY <1>10, <1>d, <2>1, RemoveShownKeeps DEF TInv
<1>11. CASE Change
  <2>1. data' = data /\ task' = task
    BY <1>11 DEF Change, ServerStops, ServerStarts, EntityDies
  <2> QED
    BY <1>0, <1>11, <1>d, <1>r, <2>1, ChangeKeeps DEF TInv
<1>12. CASE ToggleAuto \/ UNCHANGED toolVars
  BY <1>12, <1>d, <1>r, <1>w DEF ToggleAuto, toolVars, TInv
<1> QED
  BY <1>1, <1>2, <1>3, <1>4, <1>5, <1>6, <1>7, <1>8, <1>9, <1>10, <1>11, <1>12
     DEF ToolNext, Click

LEMMA TInvHolds == ToolSpec => []TInv
BY InitTInv, NextTInv, PTL DEF ToolSpec

LEMMA EditsStay ==
    ASSUME TInv, [ToolNext]_toolVars, \A f \in DOMAIN FieldType : ~Save(f),
           \A f \in DOMAIN FieldType : \A text \in Text \cup {Clean} : ~Edit(f, text)
    PROVE  edits' = edits
BY DEF ToolNext, Click, RefreshStep, ProbeEntities, ProbeRest, Discovered, FetchEntity,
       FetchJob, PollRefresh, AutoRefresh, RefreshButton, ToggleAuto, SelectServer,
       SelectEntity, SelectJob, ShowTab, DrawTabs, RemoveShown, Change, ServerStops,
       ServerStarts, EntityDies, toolVars

(* What the tool shows as saved is stored (save_field): the answer "set"   *)
(* comes from the server that is selected and of the entity the text was   *)
(* typed over, and what the field can store digit for digit is there as it *)
(* was typed; nothing but that and Reset clears an edit.                   *)
THEOREM EditsSaved == ToolSpec => SavedMeansStored
<1>1. ASSUME TInv, [ToolNext]_toolVars, NEW e \in Entity, NEW g \in DOMAIN FieldType,
             edits[e][g] # Clean, edits'[e][g] = Clean
      PROVE  \/ Edit(g, Clean)
             \/ /\ world[data.port] # Down
                /\ world'[data.port].table[Edited][e] # Missing
                /\ Faithful(FieldType[g], edits[e][g]) =>
                      world'[data.port].table[Edited][e][g] = edits[e][g]
  <2>1. ASSUME NEW f \in DOMAIN FieldType, Save(f)
        PROVE  /\ world[data.port] # Down
               /\ world'[data.port].table[Edited][e] # Missing
               /\ Faithful(FieldType[g], edits[e][g]) =>
                     world'[data.port].table[Edited][e][g] = edits[e][g]
    BY <1>1, <2>1, SaveKeeps
  <2>2. ASSUME NEW f \in DOMAIN FieldType, NEW text \in Text \cup {Clean}, Edit(f, text)
        PROVE  Edit(g, Clean)
    BY <1>1, <2>2, EditKeeps DEF TInv
  <2>3. edits' # edits
    BY <1>1
  <2> QED
    BY <1>1, <2>1, <2>2, <2>3, EditsStay
<1>2. TInv /\ [ToolNext]_toolVars =>
        [\A e \in Entity : \A f \in DOMAIN FieldType :
           (edits[e][f] # Clean /\ edits'[e][f] = Clean) =>
              \/ Edit(f, Clean)
              \/ LET stored == world'[data.port].table[Edited][e]
                 IN /\ world[data.port] # Down
                    /\ stored # Missing
                    /\ Faithful(FieldType[f], edits[e][f]) => stored[f] = edits[e][f]]_toolVars
  BY <1>1
<1> QED
  BY <1>2, TInvHolds, PTL DEF ToolSpec, SavedMeansStored

(* A refresh that began with the server that is still selected brings no   *)
(* detail of another one.                                                  *)
LEMMA NothingForeign ==
    ASSUME TInv, PollRefresh, ~Foreign, task.base.port = data.port
    PROVE  ~Foreign'
<1>1. CASE task.failed
  <2>1. data' = data
    BY <1>1 DEF PollRefresh
  <2> QED
    BY <2>1 DEF Foreign
<1>2. CASE ~task.failed
  <2>1. PICK next : next = Reconciled(data, task.found)
    OBVIOUS
  <2>2. PICK ed \in {next.entityDetail, task.entityDetail}, jd \in {next.jobDetail, task.jobDetail} :
           data'.port = next.port /\ data'.entityDetail = ed /\ data'.jobDetail = jd
    BY <1>2, <2>1, Merging
  <2>3. TaskOK(task) /\ task.part = "done" /\ DataShape(data)
    BY DEF TInv, RefreshOK, DataOK, PollRefresh, NoTask
  <2>4. task.port = next.port
    <3>1. /\ task.port = Reconciled(task.base, task.found).port
          /\ DataShape(task.base)
      BY <2>3 DEF TaskOK
    <3> QED
      BY <2>1, <2>3, <3>1, ReconciledParts
  <2>5. OfPort(task.entityDetail, next.port) /\ OfPort(task.jobDetail, next.port)
    BY <2>3, <2>4 DEF TaskOK
  <2>6. OfPort(next.entityDetail, next.port) /\ OfPort(next.jobDetail, next.port)
    <3>1. OfPort(data.entityDetail, data.port) /\ OfPort(data.jobDetail, data.port)
      BY DEF Foreign, OfPort
    <3>2. /\ next.entityDetail # NoId =>
                next.entityDetail = data.entityDetail /\ next.port = data.port
          /\ next.jobDetail # NoId => next.jobDetail = data.jobDetail /\ next.port = data.port
      BY <2>1, <2>3, ReconciledParts
    <3> QED
      BY <3>1, <3>2 DEF OfPort
  <2> QED
    BY <2>2, <2>5, <2>6 DEF OfPort, Foreign
<1> QED
  BY <1>1, <1>2

LEMMA OnlyRefreshIsForeign ==
    ASSUME TInv, [ToolNext]_toolVars, ~Foreign, Foreign'
    PROVE  PollRefresh /\ task.base.port # data.port
<1>1. ASSUME data' = data PROVE FALSE
  BY <1>1 DEF Foreign
<1>2. CASE PollRefresh
  BY <1>2, NothingForeign
<1>3. ASSUME NEW p \in Port, SelectServer(p) PROVE FALSE
  BY <1>3, ServerSelected DEF Foreign
<1>4. ASSUME NEW e \in Entity, SelectEntity(e) PROVE FALSE
  BY <1>4, EntitySelected DEF Foreign
<1>5. ASSUME NEW j \in Job, SelectJob(j) PROVE FALSE
  BY <1>5, JobSelected DEF Foreign
<1>6. ASSUME DrawTabs \/ \E b \in BOOLEAN : ShowTab(b) PROVE FALSE
  BY <1>6, TabShown DEF Foreign
<1>7. \/ RefreshStep \/ AutoRefresh \/ RefreshButton \/ ToggleAuto \/ RemoveShown \/ Change
      \/ UNCHANGED toolVars
      \/ (\E f \in DOMAIN FieldType : Save(f) \/ \E text \in Text \cup {Clean} : Edit(f, text))
      => data' = data
  BY DEF RefreshStep, ProbeEntities, ProbeRest, Discovered, FetchEntity, FetchJob, AutoRefresh,
         RefreshButton, ToggleAuto, Save, RemoveShown, Change, ServerStops, ServerStarts, EntityDies, toolVars, Edit
<1> QED
  BY <1>1, <1>2, <1>3, <1>4, <1>5, <1>6, <1>7 DEF ToolNext, Click

(* The end of a refresh leaves the selection alone (poll_refresh,          *)
(* reconcile_selection), and only one that the user overtook by switching  *)
(* servers brings a detail of another server.                              *)
THEOREM SelectionsStand == ToolSpec => SelectionStands
<1>1. TInv /\ [ToolNext]_toolVars =>
        [/\ data'.entity # data.entity /\ PollRefresh =>
              \/ ~Ok(task.found, data.port)
              \/ data.entity \notin task.found[data.port].entities
         /\ ~Foreign /\ Foreign' => PollRefresh /\ task.base.port # data.port]_toolVars
  <2>1. ASSUME TInv, PollRefresh, Ok(task.found, data.port),
               data.entity \in task.found[data.port].entities
        PROVE  data'.entity = data.entity
    <3>1. CASE task.failed
      BY <2>1, <3>1 DEF PollRefresh
    <3>2. CASE ~task.failed
      <4>1. data'.entity = Reconciled(data, task.found).entity
        BY <2>1, <3>2, Merging
      <4> QED
        BY <2>1, <4>1, ReconciledParts DEF TInv, DataOK
    <3> QED
      BY <3>1, <3>2
  <2> QED
    BY <2>1, OnlyRefreshIsForeign
<1> QED
  BY <1>1, TInvHolds, PTL DEF ToolSpec, SelectionStands
=============================================================================
