---------------------------- MODULE DebugServer ----------------------------
(***************************************************************************)
(* DebugServer::Impl: a listening socket and at most MaxClients client     *)
(* sockets, all nonblocking, served by poll(), which the program calls on  *)
(* the thread that owns the registry.  One step of poll is its accept loop *)
(* or one iteration over the clients; the peers send, hang up and connect  *)
(* between any two.                                                        *)
(*                                                                         *)
(* A request is [words, id, component, values, method, header, length,     *)
(* size]: what DebugProtocol reads, the pieces its header and its declared *)
(* body take, and how many pieces the peer really sends (fewer: it stops   *)
(* in the middle; 0: it says nothing at all).  There is no timeout in the  *)
(* server.                                                                 *)
(***************************************************************************)
EXTENDS DebugProtocol, SequencesExt

CONSTANTS
    Peer,
    RequestOf,       \* RequestOf[p]: the requests peer p makes
    MaxClients,      \* options.max_clients
    MaxPerPoll,      \* options.max_requests_per_poll
    MaxPieces,       \* options.max_request_bytes
    Lasting          \* entities alive from the start that the program keeps

ASSUME PeerAssumption    == IsFiniteSet(Peer)
ASSUME ClientsAssumption == MaxClients \in Nat

VARIABLES
    net,      \* net[p]: where the connection of p is and what passed over it
    clients,  \* clients_: sequence of [peer, buffer]
    pollAt,   \* where poll() is: its part, the index i and the count handled
    reg,      \* the registry
    due       \* history: clients this poll has yet to look at

serverVars == <<net, clients, pollAt, reg, due>>

Resting == [part |-> "idle", i |-> 1, handled |-> 0]

Connection(request) ==
    [at |-> "backlog", request |-> request, sent |-> 0, open |-> TRUE]

Over(at) == [at |-> at]

ServerInit ==
    /\ net = [p \in Peer |-> Over("closed")]
    /\ clients = <<>>
    /\ pollAt = Resting
    /\ reg = [alive |-> Lasting, table |-> [c \in Component |->
                 [e \in Entity \cup {Holder} |-> Missing]]]
    /\ due = {}
----------------------------------------------------------------------------
(* The peers.  One that has been answered, refused or closed may return. *)

Connect(p) ==
    /\ net[p].at \in {"closed", "answered"}
    /\ \E request \in RequestOf[p] : net' = [net EXCEPT ![p] = Connection(request)]
    /\ UNCHANGED <<clients, pollAt, reg, due>>

(* What was sent before the connection was accepted arrives with the first *)
(* piece after it.                                                         *)
SendPiece(p) ==
    /\ net[p].at = "client"
    /\ net[p].open
    /\ net[p].sent < net[p].request.size
    /\ net' = [net EXCEPT ![p].sent = @ + 1]
    /\ UNCHANGED <<clients, pollAt, reg, due>>

(* A peer gives up: its own timeout, or its end. *)
HangUp(p) ==
    /\ net[p].at = "client"
    /\ net[p].open
    /\ net' = [net EXCEPT ![p].open = FALSE]
    /\ UNCHANGED <<clients, pollAt, reg, due>>

(* What the rest of the program does to its entities between polls. *)
ProgramStep(e) ==
    /\ pollAt.part = "idle"
    /\ IF e \in reg.alive
       THEN reg' = [alive |-> reg.alive \ {e},
                    table |-> [c \in Component |-> [reg.table[c] EXCEPT ![e] = Missing]]]
       ELSE /\ \A x \in reg.alive : x.index # e.index
            /\ reg' = [reg EXCEPT !.alive = @ \cup {e}]
    /\ UNCHANGED <<net, clients, pollAt, due>>
----------------------------------------------------------------------------
(* What the buffer of a client holds. *)

HeaderRead(c) == c.buffer >= net[c.peer].request.header

(* request_complete *)
Complete(c) == /\ HeaderRead(c)
               /\ c.buffer >= net[c.peer].request.header + net[c.peer].request.length

(* Mistake: a request as long as the limit is over it. *)
UnderLimit(c) ==
    /\ c.buffer <= MaxPieces
    /\ IF HeaderRead(c)
       THEN net[c.peer].request.header + net[c.peer].request.length < MaxPieces
       ELSE c.buffer < MaxPieces

(* The limit in read_client and request_size_within_limit. *)
WithinLimit(c) ==
    /\ c.buffer <= MaxPieces
    /\ IF HeaderRead(c)
       THEN net[c.peer].request.header + net[c.peer].request.length <= MaxPieces
       ELSE c.buffer < MaxPieces

Filled(c) == [c EXCEPT !.buffer = net[c.peer].sent]

(* Mistake: a peer that has hung up is noticed only when it sent nothing. *)
ReadLate(c) == IF ~WithinLimit(Filled(c)) \/ (~net[c.peer].open /\ Filled(c).buffer = 0)
               THEN "closed" ELSE "open"

(* read_client: everything that has arrived, then the end of the stream if *)
(* the peer closed its side, even after a whole request.                   *)
ReadClient(c) == IF ~WithinLimit(Filled(c)) \/ ~net[c.peer].open THEN "closed" ELSE "open"

Without(s, i) == SubSeq(s, 1, i - 1) \o SubSeq(s, i + 1, Len(s))

Backlog == {p \in Peer : net[p].at = "backlog"}

Fresh(order) == [k \in DOMAIN order |-> [peer |-> order[k], buffer |-> 0]]

(* poll begins with accept_clients: every connection that is waiting, in   *)
(* the order they came; over the limit means closed at once.               *)
StartPoll(order) ==
    /\ pollAt.part = "idle"
    /\ LET room     == Least(MaxClients - Len(clients), Len(order))
           accepted == {order[k] : k \in 1 .. room}
       IN /\ clients' = clients \o Fresh(SubSeq(order, 1, room))
          /\ net' = [p \in Peer |-> IF p \notin Backlog THEN net[p]
                                    ELSE IF p \in accepted
                                    THEN [net[p] EXCEPT !.at = "client"]
                                    ELSE Over("closed")]
          /\ due' = {clients[k].peer : k \in DOMAIN clients} \cup accepted
    /\ pollAt' = [part |-> "serve", i |-> 1, handled |-> 0]
    /\ UNCHANGED reg

Serving == pollAt.part = "serve" /\ pollAt.i \in DOMAIN clients

Looked == due' = due \ {clients[pollAt.i].peer}

DropClient ==
    /\ Serving
    /\ ReadClient(clients[pollAt.i]) = "closed"
    /\ net' = [net EXCEPT ![clients[pollAt.i].peer] = Over("closed")]
    /\ clients' = Without(clients, pollAt.i)
    /\ Looked
    /\ UNCHANGED <<pollAt, reg>>

Ready(c) == ReadClient(c) = "open" /\ Complete(Filled(c))

(* Mistake: the index moves on over the element that took the place. *)
AnswerAndSkip ==
    /\ Serving
    /\ Ready(clients[pollAt.i])
    /\ pollAt.handled < MaxPerPoll
    /\ LET p == clients[pollAt.i].peer
           result == HandleGraphql(reg, net[p].request)
       IN /\ reg' = result.reg
          /\ net' = [net EXCEPT ![p] = [at |-> "answered",
                                         kind |-> result.answer.kind]]
    /\ clients' = Without(clients, pollAt.i)
    /\ pollAt' = [pollAt EXCEPT !.handled = @ + 1, !.i = @ + 1]
    /\ Looked

(* handle_graphql (or the answer to OPTIONS), write_response, close.  What *)
(* reaches the peer may be cut off, because the nonblocking send gives up  *)
(* when the buffer is full: that is the peer's outcome, see Debugger.      *)
AnswerClient ==
    /\ Serving
    /\ Ready(clients[pollAt.i])
    /\ pollAt.handled < MaxPerPoll
    /\ LET p == clients[pollAt.i].peer
           result == IF net[p].request.method = "OPTIONS"
                     THEN Unchanged(reg, [kind |-> "options"])
                     ELSE HandleGraphql(reg, net[p].request)
       IN /\ reg' = result.reg
          /\ net' = [net EXCEPT ![p] = [at |-> "answered",
                                         kind |-> result.answer.kind]]
    /\ clients' = Without(clients, pollAt.i)
    /\ pollAt' = [pollAt EXCEPT !.handled = @ + 1]
    /\ Looked

KeepClient ==
    /\ Serving
    /\ ReadClient(clients[pollAt.i]) = "open"
    /\ ~(Complete(Filled(clients[pollAt.i])) /\ pollAt.handled < MaxPerPoll)
    /\ clients' = [clients EXCEPT ![pollAt.i] = Filled(@)]
    /\ pollAt' = [pollAt EXCEPT !.i = @ + 1]
    /\ Looked
    /\ UNCHANGED <<net, reg>>

EndPoll ==
    /\ pollAt.part = "serve"
    /\ pollAt.i \notin DOMAIN clients
    /\ pollAt' = Resting
    /\ UNCHANGED <<net, clients, reg, due>>
----------------------------------------------------------------------------
PollStep == \/ \E order \in SetToSeqs(Backlog) : StartPoll(order)
            \/ DropClient
            \/ AnswerClient
            \/ KeepClient
            \/ EndPoll

PeerStep == \E p \in Peer : Connect(p) \/ SendPiece(p) \/ HangUp(p)

ServerNext == PollStep \/ PeerStep \/ (\E e \in Entity \ Lasting : ProgramStep(e))

(* The program calls poll again and again, and each call comes to its end. *)
ServerSpec == ServerInit /\ [][ServerNext]_serverVars /\ WF_serverVars(PollStep)
----------------------------------------------------------------------------
(* A request that has arrived whole and is within the limit is answered    *)
(* unless its peer hangs up, however many silent peers hold the other      *)
(* slots and however few requests a poll may handle.                       *)
Arrived(p) ==
    /\ net[p].at = "client"
    /\ net[p].request.size = net[p].request.header + net[p].request.length
    /\ net[p].request.size <= MaxPieces
    /\ net[p].sent = net[p].request.size
    /\ net[p].open

RequestsAnswered ==
    \A p \in Peer : Arrived(p) ~> (net[p].at = "answered" \/ (net[p].at = "client" /\ ~net[p].open))

(* A poll looks at every client it found or accepted, although clients are *)
(* erased from the vector it walks; and every slot belongs to a connection *)
(* that is still there, so no slot is lost to a dead one.                  *)
EveryClientExamined ==
    /\ pollAt.part = "idle" => due = {}
    /\ {clients[k].peer : k \in DOMAIN clients} = {p \in Peer : net[p].at = "client"}
    /\ Len(clients) = Cardinality({p \in Peer : net[p].at = "client"})
    /\ Len(clients) <= MaxClients

(* The registry changes in poll only by a request that the answer calls    *)
(* done, whose peer had not hung up when it was read; and a setComponent   *)
(* that is refused for one of its fields has set none of the others.       *)
OnlyAnsweredMutations ==
    [][pollAt.part = "serve" /\ reg' # reg =>
         \E p \in Peer :
            /\ net[p].at = "client" /\ net'[p].at = "answered"
            /\ net[p].open
            /\ net'[p].kind \in {"set", "removed"}
            /\ \A c \in Component : \A e \in Entity \cup {Holder} :
                  reg'.table[c][e] # reg.table[c][e] =>
                     /\ c = net[p].request.component
                     /\ e \in {net[p].request.id, Holder}
      ]_serverVars
=============================================================================
