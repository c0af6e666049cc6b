---------------------------- MODULE SocketsProofs ----------------------------
(***************************************************************************)
(* Proofs about the sockets, for any number of threads, sockets, ports and *)
(* pipes and for programs that keep to the rules of Orderly.               *)
(***************************************************************************)
EXTENDS Sockets, ListLemmas, FiniteSetTheorems, TLAPS

-----------------------------------------------------------------------------
(* The inductive invariant.                                                *)

(* The record that describes what a thread is blocked in.                  *)
CallType == [op : {"none", "accept", "connect", "read", "write"},
             sock : Socks \cup {NULL},
             on : Socks \cup Pipes \cup {NULL},
             at : {"running", "asleep", "signalled", "expired"},
             admitted : BOOLEAN]

(* A Connect that has not been signalled: its request may be in the queue. *)
Pending(t) == call[t].op = "connect" /\ call[t].at # "signalled"

(* A thread that the ring of the listener's condition variable holds.      *)
Sleeping(t, l) ==
  call[t].op \in {"accept", "connect"} /\ call[t].at = "asleep" /\ call[t].on = l

(* What is true of the sockets and pipes a thread is blocked with.  Accept *)
(* may admit a Connect after its timeout and before it runs again.         *)
CallOK(t) ==
  /\ call[t].op = "accept" =>
       /\ call[t].on \in Socks /\ type[call[t].on] = "SOCKET_LISTENER"
       /\ call[t].sock = NULL /\ call[t].at \in {"asleep", "signalled"}
  /\ call[t].op = "connect" =>
       /\ call[t].on \in Socks /\ call[t].sock \in Socks /\ call[t].at # "running"
  /\ Pending(t) =>
       /\ call[t].on \in open /\ type[call[t].on] = "SOCKET_LISTENER"
       /\ call[t].sock \in open
       /\ ~ call[t].admitted => type[call[t].sock] = "SOCKET_UNBOUND"
       /\ call[t].admitted => call[t].at = "expired" /\ type[call[t].sock] = "SOCKET_PEER"
  /\ call[t].op = "read" =>
       /\ call[t].sock \in open /\ call[t].on \in Pipes
       /\ call[t].on = read_pipe[call[t].sock]
  /\ call[t].op = "write" =>
       /\ call[t].sock \in open /\ call[t].on \in Pipes
       /\ call[t].on = write_pipe[call[t].sock]

CallsOK == \A t \in Threads : CallOK(t)

(* One Accept and one pending Connect at a listener, one Connect by a      *)
(* socket.                                                                 *)
OneOfEach ==
  \A t, u \in Threads :
    /\ call[t].op = "accept" /\ call[u].op = "accept" /\ call[t].on = call[u].on => t = u
    /\ call[t].op = "connect" /\ call[u].op = "connect" /\ call[t].sock = call[u].sock => t = u
    /\ Pending(t) /\ Pending(u) /\ call[t].on = call[u].on => t = u

(* The queue of a listener holds at most the one pending request.          *)
Requests ==
  \A l \in Socks :
    \/ queue[l] = << >>
    \/ \E u \in Threads : queue[l] = <<u>> /\ Pending(u) /\ call[u].on = l /\ ~ call[u].admitted

(* The ring of a condition variable holds the sleepers, each once.         *)
Sleepers ==
  \A l \in Socks :
    /\ IsInjective(req_available[l])
    /\ \A t \in Threads : t \in ToSet(req_available[l]) <=> Sleeping(t, l)

(* An Accept sleeps only while there is nothing for it to do.              *)
AcceptsJustified ==
  \A t \in Threads, l \in Socks :
    Waits(t, "accept", l) => queue[l] = << >> /\ port[l] # NOPORT

(* What a socket of each type refers to.                                   *)
SocketsOK ==
  \A s \in Socks :
    /\ type[s] = "NONE" => s \notin open
    /\ type[s] # "SOCKET_PEER" => read_pipe[s] = NULL /\ write_pipe[s] = NULL
    /\ type[s] = "SOCKET_PEER" =>
         peer[s] \in Socks /\ peer[s] # s /\ type[peer[s]] = "SOCKET_PEER" /\ peer[peer[s]] = s
    /\ type[s] = "SOCKET_LISTENER" /\ s \in open => port[s] \in Ports

(* A pipe is read through one socket and written through its peer.         *)
PointersCrossed ==
  \A s, r \in Socks :
    /\ read_pipe[s] # NULL /\ read_pipe[s] = read_pipe[r] => s = r
    /\ write_pipe[s] # NULL /\ write_pipe[s] = write_pipe[r] => s = r
    /\ read_pipe[s] # NULL /\ write_pipe[r] # NULL =>
         (read_pipe[s] = write_pipe[r] <=> peer[s] = r)

(* What a socket points to is open, or freed if the socket is closed.      *)
PointersLive ==
  /\ \A s \in open : /\ read_pipe[s] # NULL => "reader" \in ends[read_pipe[s]]
                     /\ write_pipe[s] # NULL => "writer" \in ends[write_pipe[s]]
  /\ \A s \in Socks : read_pipe[s] \notin NewPipes /\ write_pipe[s] \notin NewPipes
  /\ \A p \in freed : ends[p] = {}

IInv == /\ TypeOK
        /\ CallsOK
        /\ OneOfEach
        /\ Requests
        /\ Sleepers
        /\ AcceptsJustified
        /\ SocketsOK
        /\ PointersCrossed
        /\ PointersLive
        /\ PortMapExact

-----------------------------------------------------------------------------
(* What the helpers return.                                                *)

(* The ring after kernel_signal.                                           *)
LEMMA RestOnce ==
  ASSUME NEW w \in Seq(Threads), IsInjective(w)
  PROVE  /\ Rest(w) \in Seq(Threads) /\ IsInjective(Rest(w))
         /\ w = << >> => Rest(w) = << >> /\ ToSet(w) = {}
         /\ w # << >> => /\ Head(w) \in Threads /\ Head(w) \in ToSet(w)
                          /\ ToSet(Rest(w)) = ToSet(w) \ {Head(w)}
<1>1. CASE w = << >>
  <2>1. Len(w) = 0 /\ ToSet(w) = {}
    BY <1>1 DEF ToSet
  <2> QED BY <1>1, <2>1 DEF Rest
<1>2. CASE w # << >>
  BY <1>2, TailOnce DEF Rest
<1> QED BY <1>1, <1>2

(* Writing one field of one thread's record gives records again.           *)
LEMMA CallFields ==
  ASSUME NEW c \in [Threads -> CallType], NEW u \in Threads
  PROVE  /\ [c EXCEPT ![u].admitted = TRUE] \in [Threads -> CallType]
         /\ \A a \in {"signalled", "expired"} : [c EXCEPT ![u].at = a] \in [Threads -> CallType]
BY DEF CallType

(* xmalloc returns an SCB that is not in use.                              *)
LEMMA NewSCBFree ==
  ASSUME FreeSCBs # {}
  PROVE  NewSCB \in Socks /\ type[NewSCB] = "NONE"
<1>1. FreeSCBs \subseteq Nat
  BY SocketsAssumption DEF FreeSCBs, Socks
<1>2. \E s \in FreeSCBs : \A r \in FreeSCBs : s <= r
  BY <1>1, NatMin
<1>3. NewSCB \in FreeSCBs
  BY <1>2 DEF NewSCB
<1> QED BY <1>3 DEF FreeSCBs

(* The two pipes of a connection are new and distinct.                     *)
LEMMA NewPipesFree ==
  ASSUME Cardinality(NewPipes) >= 2
  PROVE  NewPipe1 \in NewPipes /\ NewPipe2 \in NewPipes /\ NewPipe1 # NewPipe2
<1>1. NewPipes \subseteq Pipes /\ Pipes \subseteq Nat /\ IsFiniteSet(Pipes)
  BY SocketsAssumption, FS_Interval DEF NewPipes, Pipes
<1>2. IsFiniteSet(NewPipes) /\ Cardinality(NewPipes) \in Nat
  BY <1>1, FS_Subset, FS_CardinalityType
<1>3. NewPipes # {}
  BY <1>2, FS_EmptySet
<1>4. \E p \in NewPipes : \A q \in NewPipes : p <= q
  BY <1>1, <1>3, NatMin
<1>5. NewPipe1 \in NewPipes
  BY <1>4 DEF NewPipe1
<1> DEFINE Others == NewPipes \ {NewPipe1}
<1>6. Others # {} /\ Others \subseteq Nat
  <2>1. Cardinality(Others) = Cardinality(NewPipes) - 1
    BY <1>2, <1>5, FS_RemoveElement
  <2>2. Cardinality(Others) # 0
    BY <1>2, <2>1
  <2> QED BY <1>1, <2>2, FS_EmptySet
<1>7. \E p \in Others : \A q \in Others : p <= q
  <2> HIDE DEF Others
  <2> QED BY <1>6, NatMin
<1>8. NewPipe2 \in Others
  BY <1>7 DEF NewPipe2
<1> QED BY <1>5, <1>8

-----------------------------------------------------------------------------
(* What is kept because the step does not touch it.                        *)

(* A thread without a pending Connect is on no listener's queue.           *)
LEMMA NotQueued ==
  ASSUME IInv, NEW t \in Threads, ~ Pending(t)
  PROVE  \A k \in Socks : queue[k] # <<t>>
<1> SUFFICES ASSUME NEW k \in Socks, queue[k] = <<t>> PROVE FALSE
  OBVIOUS
<1>1. queue[k] # << >>
  OBVIOUS
<1>2. PICK u \in Threads : queue[k] = <<u>> /\ Pending(u)
  BY <1>1 DEF IInv, Requests
<1> QED BY <1>2

(* A step that changes no socket, port or pipe keeps what is said of them. *)
LEMMA SocketFrame ==
  ASSUME IInv, UNCHANGED <<scbVars, open, PORT_MAP, pipeVars>>
  PROVE  SocketsOK' /\ PointersCrossed' /\ PointersLive' /\ PortMapExact'
<1> USE DEF IInv, scbVars, pipeVars
<1>1. SocketsOK' BY DEF SocketsOK
<1>2. PointersCrossed' BY DEF PointersCrossed
<1>3. PointersLive' BY DEF PointersLive, NewPipes
<1>4. PortMapExact' BY DEF PortMapExact
<1> QED BY <1>1, <1>2, <1>3, <1>4

(* A step that changes no call keeps what is said of the calls.            *)
LEMMA CallFrame ==
  ASSUME IInv, UNCHANGED <<call, waitVars>>
  PROVE  OneOfEach' /\ Requests' /\ Sleepers'
<1> USE DEF IInv, waitVars
<1>1. OneOfEach' BY DEF OneOfEach, Pending
<1>2. Requests' BY DEF Requests, Pending
<1>3. Sleepers' BY DEF Sleepers, Sleeping
<1> QED BY <1>1, <1>2, <1>3

-----------------------------------------------------------------------------
(* Opening, listening.                                                     *)

(* sys_Socket: a fresh socket bound to nothing.                            *)
LEMMA SocketStep ==
  ASSUME IInv, NEW p \in 0 .. MAX_PORT + 1, sys_Socket(p)
  PROVE  IInv'
<1>1. PICK n \in Socks : n = NewSCB /\ type[n] = "NONE"
  BY NewSCBFree DEF sys_Socket
<1>2. /\ type' = [type EXCEPT ![n] = "SOCKET_UNBOUND"]
      /\ port' = [port EXCEPT ![n] = p]
      /\ open' = open \cup {n}
      /\ UNCHANGED <<peer, read_pipe, write_pipe, PORT_MAP, queue, req_available, ends, freed, call, wild>>
      /\ p \in Ports \cup {NOPORT}
  BY <1>1, SocketsAssumption DEF sys_Socket, LegalPort, Ports, NOPORT, waitVars, pipeVars
<1>3. n \notin open /\ read_pipe[n] = NULL /\ write_pipe[n] = NULL
  BY <1>1 DEF IInv, SocketsOK
<1>4. TypeOK'
  BY <1>2 DEF IInv, TypeOK, Types
<1>5. CallsOK'
  BY <1>1, <1>2 DEF IInv, TypeOK, CallsOK, CallOK, Pending
<1>6. OneOfEach' /\ Requests' /\ Sleepers'
  BY <1>2, CallFrame DEF waitVars
<1>7. AcceptsJustified'
  BY <1>1, <1>2 DEF IInv, TypeOK, AcceptsJustified, Waits, In, CallsOK, CallOK
<1>8. SocketsOK'
  BY <1>1, <1>2, <1>3 DEF IInv, TypeOK, SocketsOK
<1>9. PointersCrossed'
  BY <1>2 DEF IInv, PointersCrossed
<1>10. PointersLive'
  BY <1>2, <1>3 DEF IInv, PointersLive, NewPipes
<1>11. PortMapExact'
  BY <1>1, <1>2, <1>3 DEF IInv, TypeOK, PortMapExact
<1> QED BY <1>2, <1>4, <1>5, <1>6, <1>7, <1>8, <1>9, <1>10, <1>11 DEF IInv

(* sys_Listen: an unbound socket takes a port that nobody listens on.      *)
LEMMA ListenStep ==
  ASSUME Orderly, IInv, NEW s \in Socks, sys_Listen(s)
  PROVE  IInv'
<1>1. /\ s \in open /\ type[s] = "SOCKET_UNBOUND"
      /\ port[s] \in Ports /\ PORT_MAP[port[s]] = NULL
      /\ \A t \in Threads : call[t].op = "connect" => call[t].sock # s
      /\ type' = [type EXCEPT ![s] = "SOCKET_LISTENER"]
      /\ PORT_MAP' = [PORT_MAP EXCEPT ![port[s]] = s]
      /\ queue' = [queue EXCEPT ![s] = << >>]
      /\ req_available' = [req_available EXCEPT ![s] = << >>]
      /\ UNCHANGED <<port, peer, read_pipe, write_pipe, open, ends, freed, call, wild>>
  BY DEF sys_Listen, QuietListen, pipeVars
<1>2. \A t \in Threads : ~ Sleeping(t, s)
  BY <1>1 DEF IInv, CallsOK, CallOK, Sleeping, Pending
<1>3. TypeOK'
  BY <1>1 DEF IInv, TypeOK, Types
<1>4. CallsOK'
  BY <1>1 DEF IInv, TypeOK, CallsOK, CallOK, Pending
<1>5. OneOfEach'
  BY <1>1 DEF IInv, OneOfEach, Pending
<1>6. Requests'
  BY <1>1 DEF IInv, TypeOK, Requests, Pending
<1>7. Sleepers'
  <2>1. IsInjective(<< >>) /\ ToSet(<< >>) = {}
    BY DEF IsInjective, ToSet
  <2> QED BY <1>1, <1>2, <2>1 DEF IInv, TypeOK, Sleepers, Sleeping
<1>8. AcceptsJustified'
  BY <1>1 DEF IInv, TypeOK, AcceptsJustified, Waits, In
<1>9. SocketsOK'
  BY <1>1 DEF IInv, TypeOK, SocketsOK
<1>10. PointersCrossed'
  BY <1>1 DEF IInv, PointersCrossed
<1>11. PointersLive'
  BY <1>1 DEF IInv, PointersLive, NewPipes
<1>12. PortMapExact'
  BY <1>1, SocketsAssumption DEF IInv, TypeOK, PortMapExact
<1> QED BY <1>1, <1>3, <1>4, <1>5, <1>6, <1>7, <1>8, <1>9, <1>10, <1>11, <1>12 DEF IInv

-----------------------------------------------------------------------------
(* Accept.                                                                 *)

(* Thread t is awake, and the only one in Accept on listener l if it is.   *)
Accepting(t, l) ==
  /\ type[l] = "SOCKET_LISTENER"
  /\ call[t].op \in {"none", "accept"}
  /\ call[t].op = "accept" => call[t].at # "asleep"
  /\ \A u \in Threads : call[u].op = "accept" /\ call[u].on = l => u = t

(* sys_Accept on an empty queue sleeps on the listener.                    *)
LEMMA AcceptWaitsStep ==
  ASSUME IInv, NEW t \in Threads, NEW l \in Socks, Accepting(t, l), AcceptWaits(t, l)
  PROVE  IInv'
<1>1. /\ queue[l] = << >> /\ port[l] # NOPORT
      /\ call' = [call EXCEPT ![t] = Blocked("accept", NULL, l, "asleep")]
      /\ req_available' = [req_available EXCEPT ![l] = Append(@, t)]
      /\ UNCHANGED <<type, port, peer, read_pipe, write_pipe, open, PORT_MAP, queue, ends, freed, wild>>
  BY DEF AcceptWaits, scbVars, pipeVars
<1>2. /\ \A u \in Threads : u # t => call'[u] = call[u]
      /\ call'[t].op = "accept" /\ call'[t].sock = NULL /\ call'[t].on = l
      /\ call'[t].at = "asleep" /\ call'[t].admitted = FALSE
  BY <1>1 DEF IInv, TypeOK, Blocked
<1>3. \A k \in Socks : ~ Sleeping(t, k) /\ ~ Pending(t)
  BY DEF Accepting, Sleeping, Pending
<1>4. TypeOK'
  <2>1. req_available' \in [Socks -> Seq(Threads)]
    BY <1>1 DEF IInv, TypeOK
  <2>2. call' \in [Threads -> CallType]
    BY <1>1 DEF IInv, TypeOK, Blocked, CallType
  <2> QED BY <1>1, <2>1, <2>2 DEF IInv, TypeOK, CallType
<1>5. CallsOK'
  <2> SUFFICES ASSUME NEW u \in Threads PROVE CallOK(u)'
    BY DEF CallsOK
  <2>1. CASE u = t
    BY <1>1, <1>2, <2>1 DEF Accepting, CallOK, Pending
  <2>2. CASE u # t
    BY <1>1, <1>2, <2>2 DEF IInv, CallsOK, CallOK, Pending
  <2> QED BY <2>1, <2>2
<1>6. OneOfEach'
  BY <1>2 DEF IInv, OneOfEach, Pending, Accepting
<1>7. Requests'
  BY <1>1, <1>2, <1>3 DEF IInv, Requests, Pending
<1>8. Sleepers'
  <2>1. t \notin ToSet(req_available[l]) /\ IsInjective(req_available[l]) /\ req_available[l] \in Seq(Threads)
    BY <1>3 DEF IInv, Sleepers, TypeOK
  <2>2. /\ IsInjective(Append(req_available[l], t))
        /\ ToSet(Append(req_available[l], t)) = ToSet(req_available[l]) \cup {t}
    BY <2>1, AppendOnce
  <2>3. /\ req_available'[l] = Append(req_available[l], t)
        /\ \A k \in Socks : k # l => req_available'[k] = req_available[k]
    BY <1>1 DEF IInv, TypeOK
  <2>4. \A u \in Threads, k \in Socks : Sleeping(u, k)' <=> Sleeping(u, k) \/ (u = t /\ k = l)
    BY <1>2, <1>3 DEF Sleeping
  <2> QED BY <2>2, <2>3, <2>4 DEF IInv, Sleepers
<1>9. AcceptsJustified'
  BY <1>1, <1>2 DEF IInv, AcceptsJustified, Waits, In
<1>10. SocketsOK' /\ PointersCrossed' /\ PointersLive' /\ PortMapExact'
  BY <1>1, SocketFrame DEF scbVars, pipeVars
<1> QED BY <1>1, <1>4, <1>5, <1>6, <1>7, <1>8, <1>9, <1>10 DEF IInv

(* A thread that is not asleep returns from its call.                      *)
LEMMA ReturnStep ==
  ASSUME IInv, NEW t \in Threads, \A l \in Socks : ~ Sleeping(t, l),
         call' = [call EXCEPT ![t] = NoCall],
         queue' \in [Socks -> Seq(Threads)],
         \A l \in Socks : \/ queue'[l] = queue[l] /\ queue[l] # <<t>>
                          \/ queue'[l] = << >>,
         wild' \in BOOLEAN,
         UNCHANGED <<scbVars, open, PORT_MAP, req_available, pipeVars>>
  PROVE  IInv'
<1>1. /\ \A u \in Threads : u # t => call'[u] = call[u]
      /\ call'[t] = NoCall /\ call'[t].op = "none"
      /\ UNCHANGED <<type, port, peer, read_pipe, write_pipe, open, PORT_MAP, req_available, ends, freed>>
  BY DEF IInv, TypeOK, NoCall, scbVars, pipeVars
<1>2. TypeOK'
  <2>1. call' \in [Threads -> CallType]
    BY DEF IInv, TypeOK, NoCall, CallType
  <2> QED BY <1>1, <2>1 DEF IInv, TypeOK, CallType
<1>3. CallsOK'
  <2> SUFFICES ASSUME NEW u \in Threads PROVE CallOK(u)'
    BY DEF CallsOK
  <2>1. CASE u = t
    BY <1>1, <2>1 DEF CallOK, Pending
  <2>2. CASE u # t
    BY <1>1, <2>2 DEF IInv, CallsOK, CallOK, Pending
  <2> QED BY <2>1, <2>2
<1>4. OneOfEach'
  BY <1>1 DEF IInv, OneOfEach, Pending
<1>5. Requests'
  BY <1>1 DEF IInv, Requests, Pending
<1>6. Sleepers'
  BY <1>1 DEF IInv, Sleepers, Sleeping
<1>7. AcceptsJustified'
  BY <1>1 DEF IInv, AcceptsJustified, Waits, In
<1>8. SocketsOK' /\ PointersCrossed' /\ PointersLive' /\ PortMapExact'
  BY SocketFrame
<1> QED BY <1>1, <1>2, <1>3, <1>4, <1>5, <1>6, <1>7, <1>8 DEF IInv

(* Accept takes the one request, connects its socket and wakes its thread, *)
(* which is the only one on the condition variable unless its timeout has  *)
(* taken it off.                                                           *)
LEMMA AdmitStep ==
  ASSUME Orderly, IInv, NEW t \in Threads, NEW l \in Socks, Accepting(t, l), Admit(t, l)
  PROVE  IInv'
<1>1. PICK u \in Threads : queue[l] = <<u>> /\ Pending(u) /\ call[u].on = l /\ ~ call[u].admitted
  BY DEF IInv, Requests, Admit
<1>2. Head(queue[l]) = u /\ Tail(queue[l]) = << >>
  BY <1>1
<1>3. u # t /\ call[u].at \in {"asleep", "expired"} /\ ~ Pending(t)
  BY <1>1 DEF Accepting, Pending, IInv, CallsOK, CallOK, TypeOK
<1>4. PICK client \in Socks : client = call[u].sock /\ client \in open /\ type[client] = "SOCKET_UNBOUND"
  BY <1>1 DEF IInv, CallsOK, CallOK, Pending
<1>5. PICK server \in Socks : server = NewSCB /\ type[server] = "NONE"
  BY NewSCBFree DEF Admit
<1>6. PICK p1 \in Pipes, p2 \in Pipes :
        /\ p1 = NewPipe1 /\ p2 = NewPipe2 /\ p1 # p2
        /\ p1 \in NewPipes /\ p2 \in NewPipes
  <2>1. NewPipes \subseteq Pipes
    BY DEF NewPipes
  <2> QED BY <2>1, NewPipesFree DEF Admit
<1>7. /\ req_available[l] = << >> => call[u].at = "expired"
      /\ req_available[l] # << >> => Head(req_available[l]) = u /\ call[u].at = "asleep"
      /\ Rest(req_available[l]) \in Seq(Threads) /\ IsInjective(Rest(req_available[l]))
      /\ \A v \in Threads : v \notin ToSet(Rest(req_available[l]))
      /\ \A v \in Threads : Sleeping(v, l) => v = u
  <2>1. req_available[l] \in Seq(Threads) /\ IsInjective(req_available[l])
    BY DEF IInv, TypeOK, Sleepers
  <2>2. call[u].at = "asleep" <=> Sleeping(u, l)
    BY <1>1 DEF Pending, Sleeping
  <2>3. ASSUME NEW v \in Threads, Sleeping(v, l) PROVE v = u
    <3>1. CASE call[v].op = "accept"
      BY <2>3, <3>1 DEF Accepting, Sleeping
    <3>2. CASE call[v].op = "connect"
      BY <2>3, <3>2, <1>1 DEF IInv, OneOfEach, Pending, Sleeping
    <3> QED BY <2>3, <3>1, <3>2 DEF Sleeping
  <2>4. \A v \in Threads : v \in ToSet(req_available[l]) <=> Sleeping(v, l)
    BY DEF IInv, Sleepers
  <2>5. CASE req_available[l] = << >>
    BY <1>3, <2>1, <2>2, <2>3, <2>4, <2>5, RestOnce
  <2>6. CASE req_available[l] # << >>
    <3>1. /\ Head(req_available[l]) \in Threads /\ Head(req_available[l]) \in ToSet(req_available[l])
          /\ Rest(req_available[l]) \in Seq(Threads) /\ IsInjective(Rest(req_available[l]))
          /\ ToSet(Rest(req_available[l])) = ToSet(req_available[l]) \ {Head(req_available[l])}
      BY <2>1, <2>6, RestOnce
    <3>2. Head(req_available[l]) = u /\ Sleeping(u, l)
      BY <2>3, <2>4, <3>1
    <3> QED BY <2>2, <2>3, <2>4, <2>6, <3>1, <3>2
  <2> QED BY <2>5, <2>6
<1>8. /\ port[l] # NOPORT
      /\ queue' = [queue EXCEPT ![l] = << >>]
      /\ type' = [type EXCEPT ![server] = "SOCKET_PEER", ![client] = "SOCKET_PEER"]
      /\ port' = [port EXCEPT ![server] = port[l]]
      /\ open' = open \cup {server}
      /\ peer' = [peer EXCEPT ![server] = client, ![client] = server]
      /\ read_pipe' = [read_pipe EXCEPT ![server] = p2, ![client] = p1]
      /\ write_pipe' = [write_pipe EXCEPT ![server] = p1, ![client] = p2]
      /\ ends' = [ends EXCEPT ![p1] = Ends, ![p2] = Ends]
      /\ req_available' = [req_available EXCEPT ![l] = Rest(@)]
      /\ UNCHANGED <<PORT_MAP, freed>>
  BY <1>2, <1>4, <1>5, <1>6 DEF Admit, LinkPipes
<1> DEFINE c1 == [call EXCEPT ![t] = NoCall]
           c2 == [c1 EXCEPT ![u].admitted = TRUE]
<1>9. /\ call' = IF req_available[l] = << >> THEN c2 ELSE [c2 EXCEPT ![u].at = "signalled"]
      /\ wild' \in BOOLEAN
  BY <1>2, <1>7 DEF Admit, Signalled, IInv, TypeOK
<1>10. /\ c2 \in [Threads -> CallType] /\ call' \in [Threads -> CallType]
       /\ \A v \in Threads : v # t /\ v # u => call'[v] = call[v]
       /\ call'[t] = NoCall /\ call'[t].op = "none"
       /\ call'[u].op = "connect" /\ call'[u].sock = client /\ call'[u].on = l
       /\ call'[u].admitted /\ call'[u].at \in {"signalled", "expired"}
  <2>1. c1 \in [Threads -> CallType] /\ c1[t] = NoCall /\ \A v \in Threads : v # t => c1[v] = call[v]
    BY DEF IInv, TypeOK, NoCall, CallType
  <2>2. /\ c2 \in [Threads -> CallType] /\ \A v \in Threads : v # u => c2[v] = c1[v]
        /\ c2[u].op = c1[u].op /\ c2[u].sock = c1[u].sock /\ c2[u].on = c1[u].on
        /\ c2[u].at = c1[u].at /\ c2[u].admitted
    <3> HIDE DEF c1
    <3> QED BY <2>1 DEF CallType
  <2>3. /\ c1[u] = call[u] /\ call[u].op = "connect" /\ call[u].sock = client /\ call[u].on = l
        /\ NoCall.op = "none"
    BY <1>1, <1>3, <1>4, <2>1 DEF Pending, NoCall
  <2> HIDE DEF c1, c2
  <2>4. CASE req_available[l] = << >>
    <3>1. call' = c2 /\ call[u].at = "expired"
      BY <1>7, <1>9, <2>4
    <3> QED BY <1>3, <2>1, <2>2, <2>3, <3>1
  <2>5. CASE req_available[l] # << >>
    <3>1. call' = [c2 EXCEPT ![u].at = "signalled"]
      BY <1>9, <2>5
    <3>2. /\ call' \in [Threads -> CallType] /\ \A v \in Threads : v # u => call'[v] = c2[v]
          /\ call'[u].op = c2[u].op /\ call'[u].sock = c2[u].sock /\ call'[u].on = c2[u].on
          /\ call'[u].admitted = c2[u].admitted /\ call'[u].at = "signalled"
      BY <2>2, <3>1 DEF CallType
    <3> QED BY <1>3, <2>1, <2>2, <2>3, <3>2
  <2> QED BY <2>4, <2>5
<1> HIDE DEF c1, c2
<1>11. /\ client # server /\ server \notin open /\ l # server /\ l # client
       /\ read_pipe[server] = NULL /\ write_pipe[server] = NULL
       /\ read_pipe[client] = NULL /\ write_pipe[client] = NULL
       /\ p1 # NULL /\ p2 # NULL
  BY <1>4, <1>5, SocketsAssumption DEF IInv, SocketsOK, Accepting
<1>12. TypeOK'
  <2>1. /\ type' \in [Socks -> Types] /\ port' \in [Socks -> Ports \cup {NOPORT}]
        /\ peer' \in [Socks -> Socks \cup {NULL}] /\ open' \subseteq Socks
        /\ read_pipe' \in [Socks -> Pipes \cup {NULL}] /\ write_pipe' \in [Socks -> Pipes \cup {NULL}]
        /\ PORT_MAP' \in [Ports -> Socks \cup {NULL}]
    BY <1>8 DEF IInv, TypeOK, Types
  <2>2. /\ queue' \in [Socks -> Seq(Threads)] /\ req_available' \in [Socks -> Seq(Threads)]
    BY <1>7, <1>8 DEF IInv, TypeOK
  <2>3. /\ ends' \in [Pipes -> SUBSET Ends] /\ freed' \subseteq Pipes /\ wild' \in BOOLEAN
    BY <1>8, <1>9 DEF IInv, TypeOK
  <2>4. call' \in [Threads -> CallType]
    BY <1>10
  <2> QED BY <2>1, <2>2, <2>3, <2>4 DEF TypeOK, CallType
<1>13. ASSUME NEW v \in Threads, v # u, call[v].op = "connect" PROVE call[v].sock # client
  BY <1>1, <1>4, <1>13 DEF IInv, OneOfEach, Pending
<1>14. CallsOK'
  <2> SUFFICES ASSUME NEW v \in Threads PROVE CallOK(v)'
    BY DEF CallsOK
  <2>1. CASE v = t
    BY <1>10, <2>1 DEF CallOK, Pending
  <2>2. CASE v = u
    <3>1. /\ type'[client] = "SOCKET_PEER" /\ client \in open'
          /\ type'[l] = "SOCKET_LISTENER" /\ l \in open'
      <4>1. CallOK(u)
        BY DEF IInv, CallsOK
      <4>2. l \in open /\ type[l] = "SOCKET_LISTENER"
        BY <1>1, <4>1 DEF CallOK
      <4> QED BY <1>4, <1>8, <1>11, <4>2 DEF IInv, TypeOK
    <3> QED BY <1>10, <2>2, <3>1 DEF CallOK, Pending
  <2>3. CASE v # t /\ v # u
    <3>1. CallOK(v)
      BY DEF IInv, CallsOK
    <3>2. /\ \A s \in Socks : type[s] = "SOCKET_LISTENER" \/ type[s] = "SOCKET_PEER" => type'[s] = type[s]
          /\ \A s \in Socks : s # client /\ type[s] = "SOCKET_UNBOUND" => type'[s] = type[s]
      BY <1>4, <1>5, <1>8 DEF IInv, TypeOK
    <3>3. /\ \A s \in open : s \in open' /\ s \in Socks
          /\ \A s \in open : read_pipe[s] # NULL => read_pipe'[s] = read_pipe[s]
          /\ \A s \in open : write_pipe[s] # NULL => write_pipe'[s] = write_pipe[s]
      BY <1>8, <1>11 DEF IInv, TypeOK
    <3>4. NULL \notin Pipes
      BY SocketsAssumption
    <3> QED BY <1>10, <1>13, <2>3, <3>1, <3>2, <3>3, <3>4 DEF CallOK, Pending
  <2> QED BY <2>1, <2>2, <2>3
<1>15. OneOfEach'
  BY <1>1, <1>4, <1>10, <1>13 DEF IInv, OneOfEach, Pending
<1>16. Requests'
  <2> SUFFICES ASSUME NEW k \in Socks, k # l, queue[k] # << >>
               PROVE  \E v \in Threads : queue'[k] = <<v>> /\ Pending(v)' /\ call'[v].on = k /\ ~ call'[v].admitted
    BY <1>8 DEF Requests, IInv, TypeOK
  <2>1. PICK v \in Threads : queue[k] = <<v>> /\ Pending(v) /\ call[v].on = k /\ ~ call[v].admitted
    BY DEF IInv, Requests
  <2>2. v # u /\ v # t /\ queue'[k] = queue[k]
    BY <1>1, <1>3, <1>8, <2>1 DEF IInv, TypeOK
  <2> QED BY <1>10, <2>1, <2>2 DEF Pending
<1>17. Sleepers'
  <2>1. \A v \in Threads, k \in Socks : Sleeping(v, k)' <=> Sleeping(v, k) /\ v # u
    BY <1>10 DEF Sleeping, Accepting
  <2>2. \A k \in Socks : k # l => ~ Sleeping(u, k) /\ req_available'[k] = req_available[k]
    BY <1>1, <1>8 DEF Sleeping, IInv, TypeOK
  <2>3. req_available'[l] = Rest(req_available[l])
    BY <1>8 DEF IInv, TypeOK
  <2> QED BY <1>7, <2>1, <2>2, <2>3 DEF IInv, Sleepers
<1>18. AcceptsJustified'
  <2> SUFFICES ASSUME NEW v \in Threads, NEW k \in Socks, Waits(v, "accept", k)'
               PROVE  queue'[k] = << >> /\ port'[k] # NOPORT
    BY DEF AcceptsJustified
  <2>1. v # u /\ v # t /\ Waits(v, "accept", k)
    BY <1>10 DEF Waits, In
  <2>2. queue[k] = << >> /\ port[k] # NOPORT /\ k # server
    BY <1>5, <2>1 DEF IInv, AcceptsJustified, CallsOK, CallOK, Waits, In
  <2> QED BY <1>8, <2>2 DEF IInv, TypeOK
<1>19. SocketsOK'
  <2>1. /\ type'[server] = "SOCKET_PEER" /\ type'[client] = "SOCKET_PEER"
        /\ peer'[server] = client /\ peer'[client] = server
        /\ \A s \in Socks : s # server /\ s # client =>
             /\ type'[s] = type[s] /\ peer'[s] = peer[s] /\ port'[s] = port[s]
             /\ read_pipe'[s] = read_pipe[s] /\ write_pipe'[s] = write_pipe[s]
             /\ s \in open' <=> s \in open
    BY <1>8, <1>11 DEF IInv, TypeOK
  <2>2. \A s \in Socks : type[s] = "SOCKET_PEER" => s # server /\ s # client
    BY <1>4, <1>5
  <2> QED BY <1>11, <2>1, <2>2 DEF IInv, SocketsOK
<1>20. PointersCrossed'
  <2>1. /\ read_pipe'[server] = p2 /\ write_pipe'[server] = p1 /\ peer'[server] = client
        /\ read_pipe'[client] = p1 /\ write_pipe'[client] = p2 /\ peer'[client] = server
        /\ \A s \in Socks : s # server /\ s # client =>
             /\ read_pipe'[s] = read_pipe[s] /\ write_pipe'[s] = write_pipe[s] /\ peer'[s] = peer[s]
             /\ read_pipe[s] # p1 /\ read_pipe[s] # p2 /\ write_pipe[s] # p1 /\ write_pipe[s] # p2
    BY <1>6, <1>8, <1>11 DEF IInv, TypeOK, PointersLive
  <2>2. \A s \in Socks : s # server /\ s # client /\ (read_pipe[s] # NULL \/ write_pipe[s] # NULL)
          => peer[s] # server /\ peer[s] # client
    BY <1>4, <1>5 DEF IInv, SocketsOK
  <2>3. \A s, r \in Socks : (read_pipe'[s] # NULL /\ read_pipe'[s] = read_pipe'[r]) => s = r
    BY <1>6, <1>11, <2>1 DEF IInv, PointersCrossed
  <2>4. \A s, r \in Socks : (write_pipe'[s] # NULL /\ write_pipe'[s] = write_pipe'[r]) => s = r
    BY <1>6, <1>11, <2>1 DEF IInv, PointersCrossed
  <2>5. ASSUME NEW s \in Socks, NEW r \in Socks, read_pipe'[s] # NULL, write_pipe'[r] # NULL
        PROVE  read_pipe'[s] = write_pipe'[r] <=> peer'[s] = r
    <3>1. CASE s = server \/ s = client
      BY <1>6, <1>11, <2>1, <3>1
    <3>2. CASE s # server /\ s # client
      <4>1. CASE r = server \/ r = client
        BY <2>1, <2>2, <2>5, <3>2, <4>1
      <4>2. CASE r # server /\ r # client
        BY <2>1, <2>5, <3>2, <4>2 DEF IInv, PointersCrossed
      <4> QED BY <4>1, <4>2
    <3> QED BY <3>1, <3>2
  <2> QED BY <2>3, <2>4, <2>5 DEF PointersCrossed
<1>21. PointersLive'
  <2>1. /\ ends'[p1] = Ends /\ ends'[p2] = Ends
        /\ \A p \in Pipes : p # p1 /\ p # p2 => ends'[p] = ends[p]
        /\ p1 \notin freed /\ p2 \notin freed
    BY <1>6, <1>8 DEF IInv, TypeOK, NewPipes
  <2>2. ASSUME NEW s \in open'
        PROVE  /\ read_pipe'[s] # NULL => "reader" \in ends'[read_pipe'[s]]
               /\ write_pipe'[s] # NULL => "writer" \in ends'[write_pipe'[s]]
    <3>1. s \in Socks
      BY <1>12 DEF TypeOK
    <3>2. CASE s = server \/ s = client
      BY <1>8, <1>11, <2>1, <3>2 DEF IInv, TypeOK, Ends
    <3>3. CASE s # server /\ s # client
      <4>1. /\ s \in open /\ read_pipe'[s] = read_pipe[s] /\ write_pipe'[s] = write_pipe[s]
            /\ read_pipe[s] \in Pipes \cup {NULL} /\ write_pipe[s] \in Pipes \cup {NULL}
            /\ read_pipe[s] # p1 /\ read_pipe[s] # p2 /\ write_pipe[s] # p1 /\ write_pipe[s] # p2
        BY <1>6, <1>8, <3>1, <3>3 DEF IInv, TypeOK, PointersLive
      <4> QED BY <2>1, <4>1 DEF IInv, PointersLive
    <3> QED BY <3>2, <3>3
  <2>3. \A p \in Pipes : p \in NewPipes' => p \in NewPipes /\ p # p1 /\ p # p2
    BY <1>8, <2>1 DEF NewPipes, Ends
  <2>4. ASSUME NEW s \in Socks PROVE read_pipe'[s] \notin NewPipes' /\ write_pipe'[s] \notin NewPipes'
    <3>1. NewPipes' \subseteq Pipes
      BY DEF NewPipes
    <3>2. CASE s = server \/ s = client
      BY <1>8, <1>11, <2>3, <3>2 DEF IInv, TypeOK
    <3>3. CASE s # server /\ s # client
      BY <1>8, <2>3, <3>1, <3>3 DEF IInv, TypeOK, PointersLive
    <3> QED BY <3>2, <3>3
  <2>5. \A p \in freed' : ends'[p] = {}
    BY <1>8, <2>1 DEF IInv, TypeOK, PointersLive
  <2> QED BY <2>2, <2>4, <2>5 DEF PointersLive
<1>22. PortMapExact'
  BY <1>4, <1>5, <1>8, <1>11 DEF IInv, TypeOK, PortMapExact
<1> QED
  BY <1>9, <1>12, <1>14, <1>15, <1>16, <1>17, <1>18, <1>19, <1>20, <1>21, <1>22 DEF IInv

(* One round of Accept.                                                    *)
LEMMA AcceptStep ==
  ASSUME Orderly, IInv, NEW t \in Threads, NEW l \in Socks, Accepting(t, l), AcceptRound(t, l)
  PROVE  IInv'
<1>1. (\A k \in Socks : ~ Sleeping(t, k)) /\ ~ Pending(t)
  BY DEF Accepting, Sleeping, Pending
<1>2. \A k \in Socks : queue[k] # <<t>>
  BY <1>1, NotQueued
<1>3. CASE AcceptClosed(t, l)
  BY <1>1, <1>2, <1>3, ReturnStep DEF AcceptClosed, waitVars, IInv, TypeOK
<1>4. CASE AcceptFails(t, l)
  <2>1. PICK u \in Threads : queue[l] = <<u>>
    BY <1>4 DEF AcceptFails, IInv, Requests
  <2>2. queue' = [queue EXCEPT ![l] = << >>]
    <3>1. Tail(queue[l]) = << >>
      BY <2>1
    <3> QED BY <1>4, <3>1 DEF AcceptFails
  <2>3. queue' \in [Socks -> Seq(Threads)] /\ \A k \in Socks : queue'[k] = queue[k] \/ queue'[k] = << >>
    BY <2>2 DEF IInv, TypeOK
  <2>4. /\ call' = [call EXCEPT ![t] = NoCall] /\ wild' \in BOOLEAN
        /\ UNCHANGED <<scbVars, open, PORT_MAP, req_available, pipeVars>>
    BY <1>4 DEF AcceptFails, IInv, TypeOK
  <2> QED BY <1>1, <1>2, <2>3, <2>4, ReturnStep
<1> QED BY <1>3, <1>4, AcceptWaitsStep, AdmitStep DEF AcceptRound

-----------------------------------------------------------------------------
(* Connect.                                                                *)

(* The signal of Connect reaches the Accept that sleeps, if there is one:  *)
(* no other Connect sleeps on the listener's condition variable.           *)
LEMMA ConnectStep ==
  ASSUME Orderly, IInv, NEW t \in Threads, NEW s \in Socks, NEW p \in Ports, sys_Connect(t, s, p)
  PROVE  IInv'
<1>1. PICK l \in Socks : l = PORT_MAP[p] /\ l \in open /\ type[l] = "SOCKET_LISTENER"
  BY DEF sys_Connect, IInv, TypeOK, PortMapExact
<1> DEFINE w == req_available[l]
           blocked == [call EXCEPT ![t] = Blocked("connect", s, l, "asleep")]
<1>2. /\ call[t].op = "none" /\ s \in open /\ type[s] = "SOCKET_UNBOUND"
      /\ \A u \in Threads : call[u].op = "connect" =>
           /\ call[u].sock # s
           /\ call[u].on = l => call[u].at = "signalled"
  BY <1>1 DEF sys_Connect, Idle, Connectable, OneConnect
<1>21. \A u \in Threads : call[u].op = "connect" => u # t /\ (Pending(u) => call[u].on # l) /\ ~ Sleeping(u, l)
  BY <1>2 DEF Pending, Sleeping
<1>22. /\ queue' = [queue EXCEPT ![l] = Append(@, t)]
       /\ call' = Signalled(blocked, l)
       /\ req_available' = [req_available EXCEPT ![l] = Append(Rest(@), t)]
       /\ UNCHANGED <<type, port, peer, read_pipe, write_pipe, open, PORT_MAP, ends, freed, wild>>
  BY <1>1 DEF sys_Connect, Announce, scbVars, pipeVars
<1>3. /\ w \in Seq(Threads) /\ IsInjective(w)
      /\ Rest(w) \in Seq(Threads) /\ IsInjective(Rest(w))
      /\ w = << >> => Rest(w) = << >> /\ ToSet(w) = {}
      /\ w # << >> => Head(w) \in Threads /\ Head(w) \in ToSet(w) /\ ToSet(Rest(w)) = ToSet(w) \ {Head(w)}
  BY RestOnce DEF IInv, TypeOK, Sleepers
<1>4. ASSUME NEW u \in Threads, Sleeping(u, l)
      PROVE  call[u].op = "accept" /\ u # t /\ w # << >> /\ u = Head(w)
  <2>1. call[u].op = "accept" /\ u # t
    BY <1>2, <1>21, <1>4 DEF Sleeping
  <2>2. u \in ToSet(w)
    BY <1>4 DEF IInv, Sleepers
  <2>3. w # << >> /\ Head(w) \in Threads /\ Sleeping(Head(w), l)
    BY <1>3, <2>2 DEF IInv, Sleepers
  <2>4. call[Head(w)].op = "accept"
    BY <1>21, <2>3 DEF Sleeping
  <2> QED BY <1>4, <2>1, <2>3, <2>4 DEF IInv, OneOfEach, Sleeping
<1>5. /\ w # << >> => Sleeping(Head(w), l)
      /\ \A u \in Threads : u \notin ToSet(Rest(w))
  BY <1>3, <1>4 DEF IInv, Sleepers
<1>6. blocked \in [Threads -> CallType] /\ call \in [Threads -> CallType]
  BY DEF IInv, TypeOK, Blocked, CallType
<1>7. /\ call' \in [Threads -> CallType]
      /\ call'[t] = Blocked("connect", s, l, "asleep")
      /\ \A u \in Threads : u # t /\ ~ Sleeping(u, l) => call'[u] = call[u]
      /\ \A u \in Threads : u # t =>
           /\ call'[u].op = call[u].op /\ call'[u].sock = call[u].sock /\ call'[u].on = call[u].on
           /\ call'[u].admitted = call[u].admitted
           /\ Sleeping(u, l) => call'[u].at = "signalled"
  <2>1. CASE w = << >>
    BY <1>22, <1>4, <1>6, <2>1 DEF Signalled
  <2>2. CASE w # << >>
    <3>1. PICK h \in Threads : h = Head(w) /\ Sleeping(h, l) /\ h # t
      BY <1>3, <1>4, <1>5, <2>2
    <3>2. call' = [blocked EXCEPT ![h].at = "signalled"]
      BY <1>22, <2>2, <3>1 DEF Signalled
    <3>3. /\ call' \in [Threads -> CallType]
          /\ \A v \in Threads : v # h => call'[v] = blocked[v]
          /\ call'[h].op = blocked[h].op /\ call'[h].sock = blocked[h].sock /\ call'[h].on = blocked[h].on
          /\ call'[h].admitted = blocked[h].admitted /\ call'[h].at = "signalled"
      <4> HIDE DEF blocked
      <4>1. blocked \in [Threads -> CallType]
        BY <1>6 DEF blocked
      <4> QED BY <3>2, <4>1 DEF CallType
    <3>4. \A u \in Threads : Sleeping(u, l) => u = h
      BY <1>4, <3>1
    <3>5. blocked[t] = Blocked("connect", s, l, "asleep") /\ \A u \in Threads : u # t => blocked[u] = call[u]
      BY DEF IInv, TypeOK
    <3> HIDE DEF blocked
    <3> QED BY <3>1, <3>3, <3>4, <3>5
  <2> QED BY <2>1, <2>2
<1>8. /\ call'[t].op = "connect" /\ call'[t].sock = s /\ call'[t].on = l
      /\ call'[t].at = "asleep" /\ call'[t].admitted = FALSE
  BY <1>7 DEF Blocked
<1> HIDE DEF w, blocked
<1>9. ASSUME NEW u \in Threads, u # t PROVE Pending(u)' <=> Pending(u)
  BY <1>21, <1>4, <1>7, <1>9 DEF Pending, Sleeping
<1>10. queue[l] = << >> /\ \A k \in Socks : k # l => queue'[k] = queue[k]
  <2>1. \A u \in Threads : ~ (Pending(u) /\ call[u].on = l)
    BY <1>21 DEF Pending
  <2> QED BY <1>22, <2>1 DEF IInv, Requests, TypeOK
<1>11. queue'[l] = <<t>>
  BY <1>22, <1>10 DEF IInv, TypeOK
<1>12. req_available'[l] = Append(Rest(w), t) /\ \A k \in Socks : k # l => req_available'[k] = req_available[k]
  BY <1>22 DEF IInv, TypeOK, w
<1>13. TypeOK'
  <2>1. queue' \in [Socks -> Seq(Threads)] /\ req_available' \in [Socks -> Seq(Threads)]
    BY <1>22, <1>3 DEF IInv, TypeOK, w
  <2> QED BY <1>22, <1>7, <2>1 DEF IInv, TypeOK, CallType
<1>14. CallsOK'
  <2> SUFFICES ASSUME NEW u \in Threads PROVE CallOK(u)'
    BY DEF CallsOK
  <2>1. CASE u = t
    BY <1>1, <1>2, <1>22, <1>8, <2>1 DEF CallOK, Pending
  <2>2. CASE u # t
    <3>1. CASE Sleeping(u, l)
      BY <1>22, <1>4, <1>7, <2>2, <3>1 DEF IInv, CallsOK, CallOK, Pending
    <3>2. CASE ~ Sleeping(u, l)
      BY <1>22, <1>7, <2>2, <3>2 DEF IInv, CallsOK, CallOK, Pending
    <3> QED BY <3>1, <3>2
  <2> QED BY <2>1, <2>2
<1>15. OneOfEach'
  <2>1. \A u \in Threads : Pending(u) => call[u].on # l
    BY <1>21 DEF Pending
  <2>2. ASSUME NEW u \in Threads, NEW v \in Threads
        PROVE  /\ call'[u].op = "accept" /\ call'[v].op = "accept" /\ call'[u].on = call'[v].on => u = v
               /\ call'[u].op = "connect" /\ call'[v].op = "connect" /\ call'[u].sock = call'[v].sock => u = v
    <3>1. CASE u # t /\ v # t
      BY <1>7, <3>1 DEF IInv, OneOfEach
    <3>2. CASE u = t \/ v = t
      BY <1>2, <1>7, <1>8, <3>2
    <3> QED BY <3>1, <3>2
  <2>3. ASSUME NEW u \in Threads, NEW v \in Threads, Pending(u)', Pending(v)', call'[u].on = call'[v].on
        PROVE  u = v
    BY <1>7, <1>8, <1>9, <2>1, <2>3 DEF IInv, OneOfEach
  <2> QED BY <2>2, <2>3 DEF OneOfEach
<1>16. Requests'
  <2> SUFFICES ASSUME NEW k \in Socks, queue'[k] # << >>
               PROVE  \E v \in Threads : queue'[k] = <<v>> /\ Pending(v)' /\ call'[v].on = k /\ ~ call'[v].admitted
    BY DEF Requests
  <2>1. CASE k = l
    BY <1>8, <1>11, <2>1 DEF Pending
  <2>2. CASE k # l
    <3>1. PICK v \in Threads : queue[k] = <<v>> /\ Pending(v) /\ call[v].on = k /\ ~ call[v].admitted
      BY <1>10, <2>2 DEF IInv, Requests
    <3>2. v # t
      BY <1>2, <3>1 DEF Pending
    <3> QED BY <1>7, <1>9, <1>10, <2>2, <3>1, <3>2
  <2> QED BY <2>1, <2>2
<1>17. Sleepers'
  <2>1. IsInjective(Append(Rest(w), t)) /\ ToSet(Append(Rest(w), t)) = ToSet(Rest(w)) \cup {t}
    BY <1>3, <1>5, AppendOnce
  <2>2. \A u \in Threads : Sleeping(u, l)' <=> u = t
    BY <1>7, <1>8 DEF Sleeping
  <2>3. \A u \in Threads, k \in Socks : k # l => (Sleeping(u, k)' <=> Sleeping(u, k))
    BY <1>2, <1>7, <1>8 DEF Sleeping
  <2>4. ASSUME NEW k \in Socks
        PROVE  IsInjective(req_available'[k]) /\ \A u \in Threads : u \in ToSet(req_available'[k]) <=> Sleeping(u, k)'
    <3>1. CASE k = l
      BY <1>5, <1>12, <2>1, <2>2, <3>1
    <3>2. CASE k # l
      BY <1>12, <2>3, <3>2 DEF IInv, Sleepers
    <3> QED BY <3>1, <3>2
  <2> QED BY <2>4 DEF Sleepers
<1>18. AcceptsJustified'
  <2> SUFFICES ASSUME NEW u \in Threads, NEW k \in Socks, Waits(u, "accept", k)'
               PROVE  queue'[k] = << >> /\ port'[k] # NOPORT
    BY DEF AcceptsJustified
  <2>1. u # t /\ call[u].op = "accept" /\ call[u].on = k
    BY <1>7, <1>8 DEF Waits, In
  <2>2. ~ Sleeping(u, l)
    BY <1>7, <2>1 DEF Waits
  <2>3. Waits(u, "accept", k) /\ k # l
    BY <1>7, <2>1, <2>2 DEF Waits, In, Sleeping
  <2> QED BY <1>22, <1>10, <2>3 DEF IInv, AcceptsJustified
<1>19. SocketsOK' /\ PointersCrossed' /\ PointersLive' /\ PortMapExact'
  BY <1>22, SocketFrame DEF scbVars, pipeVars
<1> QED
  BY <1>22, <1>13, <1>14, <1>15, <1>16, <1>17, <1>18, <1>19 DEF IInv

(* Connect returns after a signal, or after its timeout with its request   *)
(* out of the queue.                                                       *)
LEMMA ConnectReturnsStep ==
  ASSUME IInv, NEW t \in Threads, ConnectReturns(t)
  PROVE  IInv'
<1>1. (\A k \in Socks : ~ Sleeping(t, k)) /\ ~ Pending(t)
  BY DEF ConnectReturns, Sleeping, Pending
<1>2. \A k \in Socks : queue[k] # <<t>>
  BY <1>1, NotQueued
<1> QED BY <1>1, <1>2, ReturnStep DEF ConnectReturns, waitVars, IInv, TypeOK

(* A Connect that timed out takes its request back.                        *)
LEMMA TimesOutStep ==
  ASSUME IInv, NEW t \in Threads, ConnectTimesOut(t)
  PROVE  IInv'
<1>1. PICK l \in Socks : l = call[t].on
  BY DEF ConnectTimesOut, IInv, CallsOK, CallOK
<1>2. /\ call[t].op = "connect" /\ call[t].at = "expired" /\ Pending(t)
      /\ \A k \in Socks : ~ Sleeping(t, k)
  BY DEF ConnectTimesOut, IInv, CallsOK, CallOK, Pending, Sleeping
<1>3. /\ UNCHANGED <<scbVars, open, PORT_MAP, req_available, pipeVars>> /\ call' = [call EXCEPT ![t] = NoCall]
      /\ wild' \in BOOLEAN
  BY <1>2 DEF ConnectTimesOut, IInv, TypeOK
<1>4. queue[l] = << >> \/ queue[l] = <<t>>
  BY <1>1, <1>2 DEF IInv, Requests, OneOfEach
<1> DEFINE I == {i \in 1 .. Len(queue[l]) : queue[l][i] = t}
           last == SelectLastInSeq(queue[l], LAMBDA u : u = t)
<1>5. last = IF I # {} THEN Max(I) ELSE 0
  BY DEF SelectLastInSeq
<1>6. queue' = IF last = 0 THEN queue ELSE [queue EXCEPT ![l] = RemoveAt(@, last)]
  BY <1>1 DEF ConnectTimesOut, DropRequest
<1> HIDE DEF last
<1>7. queue' \in [Socks -> Seq(Threads)] /\ queue'[l] = << >> /\ \A k \in Socks : k # l => queue'[k] = queue[k]
  <2>1. CASE queue[l] = << >>
    <3>1. I = {}
      BY <2>1
    <3> QED BY <1>5, <1>6, <2>1, <3>1 DEF IInv, TypeOK
  <2>2. CASE queue[l] = <<t>>
    <3>1. Len(queue[l]) = 1 /\ queue[l][1] = t /\ queue[l] \in Seq(Threads)
      BY <2>2
    <3>2. I = {1}
      BY <3>1
    <3>3. Max({1}) = 1
      BY DEF Max
    <3>4. last = 1
      BY <1>5, <3>2, <3>3
    <3>5. RemoveAt(queue[l], 1) \in Seq(Threads) /\ Len(RemoveAt(queue[l], 1)) = 0
      BY <3>1, RemoveAtElements
    <3>6. RemoveAt(queue[l], 1) = << >>
      BY <3>5, EmptySeq
    <3>7. queue' = [queue EXCEPT ![l] = << >>]
      <4>1. RemoveAt(queue[l], last) = << >> /\ last # 0
        BY <3>4, <3>6
      <4> QED BY <1>6, <4>1
    <3> QED BY <3>7 DEF IInv, TypeOK
  <2> QED BY <1>4, <2>1, <2>2
<1>8. \A k \in Socks : \/ queue'[k] = queue[k] /\ queue[k] # <<t>>
                       \/ queue'[k] = << >>
  <2>1. ASSUME NEW k \in Socks, k # l, queue[k] = <<t>> PROVE FALSE
    <3>1. queue[k] # << >>
      BY <2>1
    <3>2. PICK u \in Threads : queue[k] = <<u>> /\ call[u].on = k
      BY <3>1 DEF IInv, Requests
    <3> QED BY <1>1, <2>1, <3>2
  <2> QED BY <1>7, <2>1
<1> QED BY <1>2, <1>3, <1>7, <1>8, ReturnStep

(* The timeout of a sleeping Connect.                                      *)
LEMMA ExpireStep ==
  ASSUME IInv, NEW t \in Threads, Expire(t)
  PROVE  IInv'
<1>1. PICK l \in Socks : l = call[t].on
  BY DEF Expire, IInv, CallsOK, CallOK
<1>2. /\ call[t].op = "connect" /\ call[t].at = "asleep" /\ Pending(t) /\ Sleeping(t, l)
      /\ call' = [call EXCEPT ![t].at = "expired"]
      /\ req_available' = [req_available EXCEPT ![l] = RemoveFirst(@, t)]
      /\ UNCHANGED <<type, port, peer, read_pipe, write_pipe, open, PORT_MAP, queue, ends, freed, wild>>
  BY <1>1 DEF Expire, Pending, Sleeping, scbVars, pipeVars
<1>3. call \in [Threads -> CallType]
  BY DEF IInv, TypeOK, CallType
<1>4. /\ call' \in [Threads -> CallType]
      /\ \A u \in Threads : u # t => call'[u] = call[u]
      /\ call'[t].op = "connect" /\ call'[t].sock = call[t].sock /\ call'[t].on = call[t].on
      /\ call'[t].admitted = call[t].admitted /\ call'[t].at = "expired"
  BY <1>2, <1>3 DEF CallType
<1>5. \A u \in Threads : Pending(u)' <=> Pending(u)
  BY <1>2, <1>4 DEF Pending
<1>6. /\ RemoveFirst(req_available[l], t) \in Seq(Threads)
      /\ IsInjective(RemoveFirst(req_available[l], t))
      /\ ToSet(RemoveFirst(req_available[l], t)) = ToSet(req_available[l]) \ {t}
  BY RemoveFirstOnce DEF IInv, TypeOK, Sleepers
<1>7. /\ req_available'[l] = RemoveFirst(req_available[l], t)
      /\ \A k \in Socks : k # l => req_available'[k] = req_available[k]
  BY <1>2 DEF IInv, TypeOK
<1>8. TypeOK'
  <2>1. req_available' \in [Socks -> Seq(Threads)]
    BY <1>2, <1>6 DEF IInv, TypeOK
  <2> QED BY <1>2, <1>4, <2>1 DEF IInv, TypeOK, CallType
<1>9. CallsOK'
  <2> SUFFICES ASSUME NEW u \in Threads PROVE CallOK(u)'
    BY DEF CallsOK
  <2>1. CASE u = t
    BY <1>2, <1>4, <1>5, <2>1 DEF IInv, CallsOK, CallOK
  <2>2. CASE u # t
    BY <1>2, <1>4, <1>5, <2>2 DEF IInv, CallsOK, CallOK
  <2> QED BY <2>1, <2>2
<1>10. OneOfEach'
  BY <1>2, <1>4, <1>5 DEF IInv, OneOfEach
<1>11. Requests'
  BY <1>2, <1>4, <1>5 DEF IInv, Requests
<1>12. Sleepers'
  <2>1. \A u \in Threads, k \in Socks : Sleeping(u, k)' <=> Sleeping(u, k) /\ u # t
    BY <1>4 DEF Sleeping
  <2>2. \A k \in Socks : k # l => ~ Sleeping(t, k)
    BY <1>1 DEF Sleeping
  <2>3. ASSUME NEW k \in Socks
        PROVE  IsInjective(req_available'[k]) /\ \A u \in Threads : u \in ToSet(req_available'[k]) <=> Sleeping(u, k)'
    <3>1. CASE k = l
      BY <1>6, <1>7, <2>1, <3>1 DEF IInv, Sleepers
    <3>2. CASE k # l
      BY <1>7, <2>1, <2>2, <3>2 DEF IInv, Sleepers
    <3> QED BY <3>1, <3>2
  <2> QED BY <2>3 DEF Sleepers
<1>13. AcceptsJustified'
  BY <1>2, <1>4 DEF IInv, AcceptsJustified, Waits, In
<1>14. SocketsOK' /\ PointersCrossed' /\ PointersLive' /\ PortMapExact'
  BY <1>2, SocketFrame DEF scbVars, pipeVars
<1> QED BY <1>2, <1>8, <1>9, <1>10, <1>11, <1>12, <1>13, <1>14 DEF IInv

-----------------------------------------------------------------------------
(* Closing.                                                                *)

(* The signal of a closing listener reaches the Accept that sleeps on it.  *)
LEMMA CloseListenerStep ==
  ASSUME Orderly, IInv, NEW s \in Socks, CloseListener(s)
  PROVE  IInv'
<1> DEFINE w == req_available[s]
<1>1. /\ s \in open /\ type[s] = "SOCKET_LISTENER"
      /\ \A t \in Threads : call[t].sock = s => call[t].op \notin {"read", "write"}
      /\ \A t \in Threads : Pending(t) => s # call[t].sock /\ s # call[t].on
  BY DEF CloseListener, MayClose, QuietClose, Pending
<1>2. queue[s] = << >>
  BY <1>1 DEF IInv, Requests
<1>3. /\ queue' = [queue EXCEPT ![s] = << >>]
      /\ PORT_MAP' = [PORT_MAP EXCEPT ![port[s]] = NULL]
      /\ port' = [port EXCEPT ![s] = NOPORT]
      /\ open' = open \ {s}
      /\ req_available' = [req_available EXCEPT ![s] = Rest(@)]
      /\ UNCHANGED <<type, peer, read_pipe, write_pipe, ends, freed, wild>>
  BY <1>2 DEF CloseListener, Unbind, pipeVars, IInv, TypeOK
<1>4. /\ w \in Seq(Threads) /\ IsInjective(w)
      /\ Rest(w) \in Seq(Threads) /\ IsInjective(Rest(w))
      /\ w = << >> => Rest(w) = << >> /\ ToSet(w) = {}
      /\ w # << >> => Head(w) \in Threads /\ Head(w) \in ToSet(w) /\ ToSet(Rest(w)) = ToSet(w) \ {Head(w)}
  BY RestOnce DEF IInv, TypeOK, Sleepers
<1>5. ASSUME NEW u \in Threads, Sleeping(u, s) PROVE call[u].op = "accept" /\ w # << >> /\ u = Head(w)
  <2>1. call[u].op = "accept"
    BY <1>1, <1>5 DEF Sleeping, Pending
  <2>2. u \in ToSet(w)
    BY <1>5 DEF IInv, Sleepers
  <2>3. w # << >> /\ Head(w) \in Threads /\ Sleeping(Head(w), s)
    BY <1>4, <2>2 DEF IInv, Sleepers
  <2>4. call[Head(w)].op = "accept"
    BY <1>1, <2>3 DEF Sleeping, Pending
  <2> QED BY <1>5, <2>1, <2>3, <2>4 DEF IInv, OneOfEach, Sleeping
<1>6. (w # << >> => Sleeping(Head(w), s)) /\ \A u \in Threads : u \notin ToSet(Rest(w))
  BY <1>4, <1>5 DEF IInv, Sleepers
<1>7. call \in [Threads -> CallType]
  BY DEF IInv, TypeOK, CallType
<1>8. /\ call' \in [Threads -> CallType]
      /\ \A u \in Threads : ~ Sleeping(u, s) => call'[u] = call[u]
      /\ \A u \in Threads :
           /\ call'[u].op = call[u].op /\ call'[u].sock = call[u].sock /\ call'[u].on = call[u].on
           /\ call'[u].admitted = call[u].admitted
           /\ Sleeping(u, s) => call'[u].at = "signalled"
  <2>1. call' = Signalled(call, s)
    BY DEF CloseListener, WakeOne
  <2>2. CASE w = << >>
    BY <1>5, <1>7, <2>1, <2>2 DEF Signalled
  <2>3. CASE w # << >>
    <3>1. PICK h \in Threads : h = Head(w) /\ Sleeping(h, s)
      BY <1>4, <1>6, <2>3
    <3>2. call' = [call EXCEPT ![h].at = "signalled"]
      BY <2>1, <2>3, <3>1 DEF Signalled
    <3>3. \A u \in Threads : Sleeping(u, s) => u = h
      BY <1>5, <3>1
    <3>4. /\ call' \in [Threads -> CallType]
          /\ \A v \in Threads : v # h => call'[v] = call[v]
          /\ call'[h].op = call[h].op /\ call'[h].sock = call[h].sock /\ call'[h].on = call[h].on
          /\ call'[h].admitted = call[h].admitted /\ call'[h].at = "signalled"
      BY <1>7, <3>2 DEF CallType
    <3> QED BY <3>1, <3>3, <3>4
  <2> QED BY <2>2, <2>3
<1> HIDE DEF w
<1>9. \A u \in Threads : Pending(u)' <=> Pending(u)
  BY <1>5, <1>8 DEF Pending
<1>10. TypeOK'
  <2>1. queue' \in [Socks -> Seq(Threads)] /\ req_available' \in [Socks -> Seq(Threads)]
    BY <1>3, <1>4 DEF IInv, TypeOK, w
  <2>2. port' \in [Socks -> Ports \cup {NOPORT}] /\ PORT_MAP' \in [Ports -> Socks \cup {NULL}] /\ open' \subseteq Socks
    BY <1>3 DEF IInv, TypeOK
  <2> QED BY <1>3, <1>8, <2>1, <2>2 DEF IInv, TypeOK, CallType
<1>11. CallsOK'
  <2> SUFFICES ASSUME NEW u \in Threads PROVE CallOK(u)'
    BY DEF CallsOK
  <2>1. CASE Sleeping(u, s)
    BY <1>3, <1>5, <1>8, <1>9, <2>1 DEF IInv, CallsOK, CallOK, Pending
  <2>2. CASE ~ Sleeping(u, s)
    BY <1>1, <1>3, <1>8, <1>9, <2>2 DEF IInv, CallsOK, CallOK
  <2> QED BY <2>1, <2>2
<1>12. OneOfEach'
  BY <1>8, <1>9 DEF IInv, OneOfEach
<1>13. Requests'
  BY <1>3, <1>8, <1>9 DEF IInv, TypeOK, Requests
<1>14. Sleepers'
  <2>1. \A u \in Threads, k \in Socks : Sleeping(u, k)' <=> Sleeping(u, k) /\ k # s
    BY <1>8 DEF Sleeping
  <2>2. ASSUME NEW k \in Socks
        PROVE  IsInjective(req_available'[k]) /\ \A u \in Threads : u \in ToSet(req_available'[k]) <=> Sleeping(u, k)'
    <3>1. CASE k = s
      <4>1. req_available'[s] = Rest(w)
        BY <1>3 DEF IInv, TypeOK, w
      <4> QED BY <1>4, <1>6, <2>1, <3>1, <4>1
    <3>2. CASE k # s
      <4>1. req_available'[k] = req_available[k]
        BY <1>3, <3>2 DEF IInv, TypeOK
      <4> QED BY <2>1, <3>2, <4>1 DEF IInv, Sleepers
    <3> QED BY <3>1, <3>2
  <2> QED BY <2>2 DEF Sleepers
<1>15. AcceptsJustified'
  <2> SUFFICES ASSUME NEW u \in Threads, NEW k \in Socks, Waits(u, "accept", k)'
               PROVE  queue'[k] = << >> /\ port'[k] # NOPORT
    BY DEF AcceptsJustified
  <2>1. ~ Sleeping(u, s)
    BY <1>8 DEF Waits
  <2>2. Waits(u, "accept", k) /\ k # s
    BY <1>8, <2>1 DEF Waits, In, Sleeping
  <2> QED BY <1>3, <2>2 DEF IInv, TypeOK, AcceptsJustified
<1>16. SocketsOK'
  BY <1>1, <1>3 DEF IInv, TypeOK, SocketsOK
<1>17. PointersCrossed'
  BY <1>3 DEF IInv, PointersCrossed
<1>18. PointersLive'
  BY <1>3 DEF IInv, PointersLive, NewPipes
<1>19. PortMapExact'
  <2>1. port[s] \in Ports /\ PORT_MAP[port[s]] = s
    BY <1>1 DEF IInv, SocketsOK, PortMapExact
  <2>2. ASSUME NEW p \in Ports, NEW r \in Socks
        PROVE  PORT_MAP'[p] = r <=> r \in open' /\ type'[r] = "SOCKET_LISTENER" /\ port'[r] = p
    <3>1. CASE r = s
      BY <1>3, <2>1, <3>1, SocketsAssumption DEF IInv, TypeOK, PortMapExact
    <3>2. CASE r # s
      BY <1>3, <2>1, <3>2, SocketsAssumption DEF IInv, TypeOK, PortMapExact
    <3> QED BY <3>1, <3>2
  <2> QED BY <2>2 DEF PortMapExact
<1> QED
  BY <1>3, <1>10, <1>11, <1>12, <1>13, <1>14, <1>15, <1>16, <1>17, <1>18, <1>19 DEF IInv

(* Close of an unbound socket.                                             *)
LEMMA CloseUnboundStep ==
  ASSUME Orderly, IInv, NEW s \in Socks, CloseUnbound(s)
  PROVE  IInv'
<1>1. /\ s \in open /\ type[s] = "SOCKET_UNBOUND"
      /\ \A t \in Threads : call[t].sock = s => call[t].op \notin {"read", "write"}
      /\ \A t \in Threads : Pending(t) => s # call[t].sock /\ s # call[t].on
      /\ open' = open \ {s}
      /\ UNCHANGED <<type, port, peer, read_pipe, write_pipe, PORT_MAP, queue, req_available, ends, freed, call, wild>>
  BY DEF CloseUnbound, MayClose, QuietClose, Pending, scbVars, waitVars, pipeVars
<1>2. TypeOK'
  BY <1>1 DEF IInv, TypeOK
<1>3. CallsOK'
  BY <1>1 DEF IInv, CallsOK, CallOK, Pending
<1>4. OneOfEach' /\ Requests' /\ Sleepers'
  BY <1>1, CallFrame DEF waitVars
<1>5. AcceptsJustified'
  BY <1>1 DEF IInv, AcceptsJustified, Waits, In
<1>6. SocketsOK'
  BY <1>1 DEF IInv, SocketsOK
<1>7. PointersCrossed'
  BY <1>1 DEF IInv, PointersCrossed
<1>8. PointersLive'
  BY <1>1 DEF IInv, PointersLive, NewPipes
<1>9. PortMapExact'
  BY <1>1 DEF IInv, PortMapExact
<1> QED BY <1>1, <1>2, <1>3, <1>4, <1>5, <1>6, <1>7, <1>8, <1>9 DEF IInv

(* Closing ends of the two pipes of socket s, which are distinct, closes   *)
(* nothing else and frees a pipe whose last end it closes.                 *)
LEMMA CloseEndsFacts ==
  ASSUME IInv, NEW s \in Socks, NEW closed, closed \subseteq {ReadEnd(s), WriteEnd(s)},
         \A e \in closed : IsOpen(e), CloseEnds(closed)
  PROVE  /\ ends' \in [Pipes -> SUBSET Ends] /\ freed' \subseteq Pipes
         /\ \A p \in Pipes : /\ "reader" \in ends[p] /\ (p = read_pipe[s] => ReadEnd(s) \notin closed)
                                  => "reader" \in ends'[p]
                             /\ "writer" \in ends[p] /\ (p = write_pipe[s] => WriteEnd(s) \notin closed)
                                  => "writer" \in ends'[p]
         /\ \A p \in Pipes : p \in NewPipes' => p \in NewPipes
         /\ \A p \in freed' : ends'[p] = {}
<1> DEFINE R == ReadEnd(s) \in closed
           W == WriteEnd(s) \in closed
<1>1. PICK rp \in Pipes \cup {NULL}, wp \in Pipes \cup {NULL} : rp = read_pipe[s] /\ wp = write_pipe[s]
  BY DEF IInv, TypeOK
<1>2. /\ R => rp \in Pipes /\ "reader" \in ends[rp]
      /\ W => wp \in Pipes /\ "writer" \in ends[wp]
  BY <1>1 DEF IsOpen, ReadEnd, WriteEnd
<1>3. R /\ W => rp # wp
  <2>1. rp # NULL /\ wp # NULL => rp # wp
    <3>1. rp # NULL => type[s] = "SOCKET_PEER"
      BY <1>1 DEF IInv, SocketsOK
    <3>2. type[s] = "SOCKET_PEER" => peer[s] # s
      BY DEF IInv, SocketsOK
    <3> QED BY <1>1, <3>1, <3>2 DEF IInv, PointersCrossed
  <2> QED BY <1>2, <2>1, SocketsAssumption
<1>4. ASSUME NEW p, NEW e
      PROVE  <<p, e>> \in closed <=> (R /\ p = rp /\ e = "reader") \/ (W /\ p = wp /\ e = "writer")
  BY <1>1 DEF ReadEnd, WriteEnd
<1>5. ASSUME NEW p
      PROVE  p \in FreedBy(closed) <=> \/ R /\ p = rp /\ ends[rp] = {"reader"}
                                       \/ W /\ p = wp /\ ends[wp] = {"writer"}
  <2>1. ASSUME NEW d \in closed, ends[d[1]] = {d[2]}, d[1] = p
        PROVE  \/ R /\ p = rp /\ ends[rp] = {"reader"}
               \/ W /\ p = wp /\ ends[wp] = {"writer"}
    BY <1>1, <2>1 DEF ReadEnd, WriteEnd
  <2>2. ASSUME R, p = rp, ends[rp] = {"reader"} PROVE p \in FreedBy(closed)
    BY <1>1, <2>2 DEF ReadEnd, FreedBy
  <2>3. ASSUME W, p = wp, ends[wp] = {"writer"} PROVE p \in FreedBy(closed)
    BY <1>1, <2>3 DEF WriteEnd, FreedBy
  <2> QED BY <2>1, <2>2, <2>3 DEF FreedBy
<1>6. /\ ends' = [p \in Pipes |-> ends[p] \ {e \in Ends : <<p, e>> \in closed}]
      /\ freed' = freed \cup FreedBy(closed)
  BY DEF CloseEnds
<1> HIDE DEF R, W
<1>7. \A p \in Pipes : /\ ends'[p] \subseteq ends[p] /\ ends[p] \subseteq Ends
                       /\ "reader" \in ends'[p] <=> "reader" \in ends[p] /\ ~ (R /\ p = rp)
                       /\ "writer" \in ends'[p] <=> "writer" \in ends[p] /\ ~ (W /\ p = wp)
  BY <1>4, <1>6 DEF IInv, TypeOK, Ends
<1>8. ends' \in [Pipes -> SUBSET Ends] /\ freed' \subseteq Pipes
  BY <1>2, <1>5, <1>6 DEF IInv, TypeOK
<1>9. \A p \in freed' : ends'[p] = {}
  <2>1. ASSUME NEW p \in freed PROVE ends'[p] = {}
    BY <1>7 DEF IInv, TypeOK, PointersLive
  <2>2. ASSUME NEW p \in FreedBy(closed) PROVE ends'[p] = {}
    <3>1. p \in Pipes
      BY <1>6, <1>8
    <3> QED BY <1>5, <1>7, <3>1
  <2> QED BY <1>6, <2>1, <2>2
<1>10. ASSUME NEW p \in Pipes, p \in NewPipes' PROVE p \in NewPipes
  <2>1. ends'[p] = {} /\ p \notin freed /\ p \notin FreedBy(closed)
    BY <1>6, <1>10 DEF NewPipes
  <2>2. ends[p] \subseteq Ends
    BY <1>7
  <2>3. "reader" \notin ends[p]
    <3>1. SUFFICES ASSUME "reader" \in ends[p] PROVE FALSE
      OBVIOUS
    <3>2. R /\ p = rp
      BY <1>7, <2>1, <3>1
    <3>3. "writer" \notin ends[p]
      BY <1>3, <1>7, <2>1, <3>2
    <3>4. ends[p] = {"reader"}
      BY <2>2, <3>1, <3>3 DEF Ends
    <3> QED BY <1>5, <2>1, <3>2, <3>4
  <2>4. "writer" \notin ends[p]
    <3>1. SUFFICES ASSUME "writer" \in ends[p] PROVE FALSE
      OBVIOUS
    <3>2. W /\ p = wp
      BY <1>7, <2>1, <3>1
    <3>3. ends[p] = {"writer"}
      BY <2>2, <2>3, <3>1 DEF Ends
    <3> QED BY <1>5, <2>1, <3>2, <3>3
  <2> QED BY <2>1, <2>2, <2>3, <2>4 DEF NewPipes, Ends
<1> QED BY <1>1, <1>7, <1>8, <1>9, <1>10 DEF R, W

(* What ShutDown and the close of a peer have in common.                   *)
LEMMA EndsStep ==
  ASSUME IInv, NEW s \in Socks, s \in open, type[s] = "SOCKET_PEER",
         NEW closed, closed \subseteq {ReadEnd(s), WriteEnd(s)},
         \A e \in closed : IsOpen(e), CloseEnds(closed),
         open' = open \/ open' = open \ {s},
         read_pipe' = read_pipe \/ read_pipe' = [read_pipe EXCEPT ![s] = NULL],
         write_pipe' = write_pipe \/ write_pipe' = [write_pipe EXCEPT ![s] = NULL],
         s \in open' /\ read_pipe'[s] # NULL => ReadEnd(s) \notin closed,
         s \in open' /\ write_pipe'[s] # NULL => WriteEnd(s) \notin closed,
         \A t \in Threads : call[t].op = "read" /\ call[t].sock = s => s \in open' /\ read_pipe' = read_pipe,
         \A t \in Threads : call[t].op = "write" /\ call[t].sock = s => s \in open' /\ write_pipe' = write_pipe,
         \A t \in Threads : Pending(t) /\ call[t].sock = s => s \in open',
         UNCHANGED <<type, port, peer, PORT_MAP, waitVars, call, wild>>
  PROVE  IInv'
<1>1. /\ ends' \in [Pipes -> SUBSET Ends] /\ freed' \subseteq Pipes
      /\ \A p \in Pipes : /\ "reader" \in ends[p] /\ (p = read_pipe[s] => ReadEnd(s) \notin closed)
                               => "reader" \in ends'[p]
                          /\ "writer" \in ends[p] /\ (p = write_pipe[s] => WriteEnd(s) \notin closed)
                               => "writer" \in ends'[p]
      /\ \A p \in Pipes : p \in NewPipes' => p \in NewPipes
      /\ \A p \in freed' : ends'[p] = {}
  BY CloseEndsFacts
<1>2. /\ \A r \in Socks : r # s =>
           /\ r \in open' <=> r \in open
           /\ read_pipe'[r] = read_pipe[r] /\ write_pipe'[r] = write_pipe[r]
      /\ read_pipe'[s] \in {read_pipe[s], NULL} /\ write_pipe'[s] \in {write_pipe[s], NULL}
      /\ open' \subseteq open
      /\ UNCHANGED <<queue, req_available>>
  BY DEF IInv, TypeOK, waitVars
<1>3. TypeOK'
  BY <1>1, <1>2 DEF IInv, TypeOK
<1>4. CallsOK'
  <2> SUFFICES ASSUME NEW t \in Threads PROVE CallOK(t)'
    BY DEF CallsOK
  <2>1. CallOK(t)
    BY DEF IInv, CallsOK
  <2>2. CASE call[t].op = "read"
    <3>1. call[t].sock \in Socks /\ call[t].sock \in open'
      BY <1>2, <2>1, <2>2 DEF CallOK, IInv, TypeOK
    <3>2. read_pipe'[call[t].sock] = read_pipe[call[t].sock]
      BY <1>2, <2>2, <3>1
    <3> QED BY <2>1, <2>2, <3>1, <3>2 DEF CallOK, Pending
  <2>3. CASE call[t].op = "write"
    <3>1. call[t].sock \in Socks /\ call[t].sock \in open'
      BY <1>2, <2>1, <2>3 DEF CallOK, IInv, TypeOK
    <3>2. write_pipe'[call[t].sock] = write_pipe[call[t].sock]
      BY <1>2, <2>3, <3>1
    <3> QED BY <2>1, <2>3, <3>1, <3>2 DEF CallOK, Pending
  <2>4. CASE call[t].op \notin {"read", "write"}
    <3>1. Pending(t) => /\ call[t].on \in Socks /\ call[t].sock \in Socks
                        /\ call[t].on \in open /\ call[t].sock \in open
                        /\ call[t].on # s
      BY <2>1 DEF CallOK, IInv, TypeOK
    <3>2. Pending(t) => call[t].on \in open' /\ call[t].sock \in open'
      BY <1>2, <3>1
    <3> QED BY <2>1, <2>4, <3>2 DEF CallOK, Pending
  <2> QED BY <2>2, <2>3, <2>4
<1>5. OneOfEach' /\ Requests' /\ Sleepers'
  BY CallFrame
<1>6. AcceptsJustified'
  BY <1>2 DEF IInv, AcceptsJustified, Waits, In
<1>7. SocketsOK'
  BY <1>2 DEF IInv, SocketsOK
<1>8. PointersCrossed'
  BY <1>2 DEF IInv, PointersCrossed
<1>9. PointersLive'
  <2>1. ASSUME NEW r \in open'
        PROVE  /\ read_pipe'[r] # NULL => "reader" \in ends'[read_pipe'[r]]
               /\ write_pipe'[r] # NULL => "writer" \in ends'[write_pipe'[r]]
    <3>1. r \in Socks /\ r \in open /\ read_pipe[r] \in Pipes \cup {NULL} /\ write_pipe[r] \in Pipes \cup {NULL}
      BY <1>2 DEF IInv, TypeOK
    <3>2. /\ read_pipe[r] # NULL => "reader" \in ends[read_pipe[r]]
          /\ write_pipe[r] # NULL => "writer" \in ends[write_pipe[r]]
      BY <3>1 DEF IInv, PointersLive
    <3>3. CASE r = s
      BY <1>1, <1>2, <2>1, <3>1, <3>2, <3>3
    <3>4. CASE r # s
      <4>1. /\ read_pipe[r] # NULL => read_pipe[r] # read_pipe[s]
            /\ write_pipe[r] # NULL => write_pipe[r] # write_pipe[s]
        BY <3>1, <3>4 DEF IInv, PointersCrossed
      <4> QED BY <1>1, <1>2, <3>1, <3>2, <3>4, <4>1
    <3> QED BY <3>3, <3>4
  <2>2. ASSUME NEW r \in Socks PROVE read_pipe'[r] \notin NewPipes' /\ write_pipe'[r] \notin NewPipes'
    <3>1. NewPipes' \subseteq Pipes /\ NULL \notin Pipes
      BY SocketsAssumption DEF NewPipes
    <3>2. read_pipe[r] \notin NewPipes /\ write_pipe[r] \notin NewPipes
      BY DEF IInv, PointersLive
    <3> QED BY <1>1, <1>2, <3>1, <3>2
  <2> QED BY <1>1, <2>1, <2>2 DEF PointersLive
<1>10. PortMapExact'
  BY <1>2 DEF IInv, PortMapExact
<1> QED BY <1>3, <1>4, <1>5, <1>6, <1>7, <1>8, <1>9, <1>10 DEF IInv

(* Close of a connected socket closes the pipe ends it still has.          *)
LEMMA ClosePeerStep ==
  ASSUME Orderly, IInv, NEW s \in Socks, ClosePeer(s)
  PROVE  IInv'
<1> DEFINE closed == {e \in {ReadEnd(s), WriteEnd(s)} : IsOpen(e)}
<1>1. /\ s \in open /\ type[s] = "SOCKET_PEER"
      /\ \A t \in Threads : call[t].sock = s => call[t].op \notin {"read", "write"}
      /\ \A t \in Threads : Pending(t) => call[t].sock # s
      /\ open' = open \ {s} /\ CloseEnds(closed)
      /\ UNCHANGED <<type, port, peer, read_pipe, write_pipe, PORT_MAP, waitVars, call, wild>>
  BY DEF ClosePeer, MayClose, QuietClose, Pending, scbVars
<1>2. closed \subseteq {ReadEnd(s), WriteEnd(s)} /\ (\A e \in closed : IsOpen(e)) /\ s \notin open'
  BY <1>1
<1> HIDE DEF closed
<1> QED BY <1>1, <1>2, EndsStep

(* sys_ShutDown closes the named pipe ends.                                *)
LEMMA ShutDownStep ==
  ASSUME Orderly, IInv, NEW s \in Socks, NEW how \in Modes, sys_ShutDown(s, how)
  PROVE  IInv'
<1> DEFINE closed == ShutDownCloses(s, how)
<1>1. /\ s \in open /\ type[s] = "SOCKET_PEER"
      /\ (\A e \in closed : IsOpen(e)) /\ CloseEnds(closed)
      /\ open' = open
      /\ UNCHANGED <<type, port, peer, PORT_MAP, waitVars, call, wild>>
  BY DEF sys_ShutDown
<1>2. how \in {"SHUTDOWN_READ", "SHUTDOWN_WRITE", "SHUTDOWN_BOTH"}
  BY SocketsAssumption
<1>3. ReadEnd(s) # WriteEnd(s)
  BY DEF ReadEnd, WriteEnd
<1>4. /\ closed \subseteq {ReadEnd(s), WriteEnd(s)}
      /\ how = "SHUTDOWN_READ" => WriteEnd(s) \notin closed
      /\ how = "SHUTDOWN_WRITE" => ReadEnd(s) \notin closed
  BY <1>3 DEF ShutDownCloses
<1>5. /\ read_pipe' = IF how = "SHUTDOWN_WRITE" THEN read_pipe ELSE [read_pipe EXCEPT ![s] = NULL]
      /\ write_pipe' = IF how = "SHUTDOWN_READ" THEN write_pipe ELSE [write_pipe EXCEPT ![s] = NULL]
  BY DEF sys_ShutDown
<1>6. /\ read_pipe'[s] # NULL => how = "SHUTDOWN_WRITE"
      /\ write_pipe'[s] # NULL => how = "SHUTDOWN_READ"
  BY <1>5 DEF IInv, TypeOK
<1>7. /\ \A t \in Threads : call[t].op = "read" /\ call[t].sock = s => how = "SHUTDOWN_WRITE"
      /\ \A t \in Threads : call[t].op = "write" /\ call[t].sock = s => how = "SHUTDOWN_READ"
  BY DEF sys_ShutDown, QuietShutDown
<1> HIDE DEF closed
<1>8. /\ read_pipe' = read_pipe \/ read_pipe' = [read_pipe EXCEPT ![s] = NULL]
      /\ write_pipe' = write_pipe \/ write_pipe' = [write_pipe EXCEPT ![s] = NULL]
      /\ read_pipe'[s] # NULL => ReadEnd(s) \notin closed
      /\ write_pipe'[s] # NULL => WriteEnd(s) \notin closed
      /\ \A t \in Threads : call[t].op = "read" /\ call[t].sock = s => read_pipe' = read_pipe
      /\ \A t \in Threads : call[t].op = "write" /\ call[t].sock = s => write_pipe' = write_pipe
  BY <1>4, <1>5, <1>6, <1>7
<1> QED BY <1>1, <1>4, <1>8, EndsStep

-----------------------------------------------------------------------------
(* Reading and writing.                                                    *)

(* Read and Write of a connected socket go to its pipes.                   *)
LEMMA IOStep ==
  ASSUME IInv, NEW t \in Threads, NEW s \in Socks, socket_read(t, s) \/ socket_write(t, s)
  PROVE  IInv'
<1>1. PICK op \in {"read", "write"}, p \in Pipes :
        /\ call[t].op = "none" /\ s \in open
        /\ call' = [call EXCEPT ![t] = Blocked(op, s, p, "asleep")]
        /\ op = "read" => p = read_pipe[s]
        /\ op = "write" => p = write_pipe[s]
        /\ UNCHANGED <<scbVars, open, PORT_MAP, waitVars, pipeVars, wild>>
  <2>1. CASE socket_read(t, s)
    <3>1. read_pipe[s] \in Pipes
      BY <2>1 DEF socket_read, IsOpen, ReadEnd, IInv, TypeOK
    <3> QED BY <2>1, <3>1 DEF socket_read, Idle
  <2>2. CASE socket_write(t, s)
    <3>1. write_pipe[s] \in Pipes
      BY <2>2 DEF socket_write, IsOpen, WriteEnd, IInv, TypeOK
    <3> QED BY <2>2, <3>1 DEF socket_write, Idle
  <2> QED BY <2>1, <2>2
<1>2. /\ UNCHANGED <<type, port, peer, read_pipe, write_pipe, open, PORT_MAP, queue, req_available, ends, freed, wild>>
      /\ \A u \in Threads : u # t => call'[u] = call[u]
      /\ call'[t].op = op /\ call'[t].sock = s /\ call'[t].on = p
  BY <1>1 DEF IInv, TypeOK, Blocked, scbVars, waitVars, pipeVars
<1>3. TypeOK'
  <2>1. call' \in [Threads -> CallType]
    BY <1>1 DEF IInv, TypeOK, Blocked, CallType
  <2> QED BY <1>2, <2>1 DEF IInv, TypeOK, CallType
<1>4. \A u \in Threads : Pending(u)' <=> Pending(u)
  BY <1>1, <1>2 DEF Pending
<1>5. CallsOK'
  <2> SUFFICES ASSUME NEW u \in Threads PROVE CallOK(u)'
    BY DEF CallsOK
  <2>1. CASE u = t
    BY <1>1, <1>2, <2>1 DEF CallOK, Pending
  <2>2. CASE u # t
    BY <1>2, <2>2 DEF IInv, CallsOK, CallOK, Pending
  <2> QED BY <2>1, <2>2
<1>6. OneOfEach'
  <2>1. \A u \in Threads : call'[u].op \in {"accept", "connect"} => u # t /\ call'[u] = call[u]
    BY <1>1, <1>2
  <2>2. \A u \in Threads : Pending(u)' => call'[u].op = "connect"
    BY DEF Pending
  <2> QED BY <1>4, <2>1, <2>2 DEF IInv, OneOfEach
<1>7. Requests'
  BY <1>1, <1>2, <1>4 DEF IInv, Requests, Pending
<1>8. Sleepers'
  <2>1. \A u \in Threads, k \in Socks : Sleeping(u, k)' <=> Sleeping(u, k)
    BY <1>1, <1>2 DEF Sleeping
  <2> QED BY <1>2, <2>1 DEF IInv, Sleepers
<1>9. AcceptsJustified'
  BY <1>1, <1>2 DEF IInv, AcceptsJustified, Waits, In
<1>10. SocketsOK' /\ PointersCrossed' /\ PointersLive' /\ PortMapExact'
  BY <1>1, SocketFrame
<1> QED BY <1>2, <1>3, <1>5, <1>6, <1>7, <1>8, <1>9, <1>10 DEF IInv

(* A Read or Write that ends was in a pipe that is not freed.              *)
LEMMA EndIOStep ==
  ASSUME IInv, NEW t \in Threads, EndIO(t)
  PROVE  IInv'
<1>1. call[t].op \in {"read", "write"} /\ (\A k \in Socks : ~ Sleeping(t, k)) /\ ~ Pending(t)
  BY DEF EndIO, Sleeping, Pending
<1>2. call[t].on \notin freed
  BY <1>1, SocketsAssumption DEF IInv, CallsOK, CallOK, PointersLive
<1>3. \A k \in Socks : queue[k] # <<t>>
  BY <1>1, NotQueued
<1>4. wild' = wild
  BY <1>2 DEF EndIO, IInv, TypeOK
<1> QED BY <1>1, <1>3, <1>4, ReturnStep DEF EndIO, waitVars, IInv, TypeOK

-----------------------------------------------------------------------------
(* The results.                                                            *)

(* The invariant holds at boot: no socket exists.                          *)
LEMMA InvInit == Init => IInv
<1> SUFFICES ASSUME Init PROVE IInv
  OBVIOUS
<1>1. TypeOK
  <2>1. NoCall \in CallType
    BY DEF NoCall, CallType
  <2>2. call \in [Threads -> CallType]
    BY <2>1 DEF Init
  <2>3. << >> \in Seq(Threads)
    OBVIOUS
  <2> QED BY <2>2, <2>3 DEF Init, TypeOK, Types, CallType
<1>2. \A t \in Threads : call[t].op = "none"
  BY DEF Init, NoCall
<1>3. CallsOK /\ OneOfEach /\ AcceptsJustified
  BY <1>2 DEF CallsOK, CallOK, Pending, OneOfEach, AcceptsJustified, Waits, In
<1>4. Requests
  BY DEF Init, Requests
<1>5. Sleepers
  <2>1. IsInjective(<< >>) /\ ToSet(<< >>) = {}
    BY DEF IsInjective, ToSet
  <2> QED BY <1>2, <2>1 DEF Init, Sleepers, Sleeping
<1>6. SocketsOK /\ PointersCrossed
  BY DEF Init, SocketsOK, PointersCrossed
<1>7. PointersLive
  BY SocketsAssumption DEF Init, PointersLive, NewPipes
<1>8. PortMapExact
  BY SocketsAssumption DEF Init, PortMapExact
<1> QED BY <1>1, <1>3, <1>4, <1>5, <1>6, <1>7, <1>8 DEF IInv

(* One step per system call.                                               *)
LEMMA InvStep ==
  ASSUME Orderly, IInv, [Next]_vars
  PROVE  IInv'
<1>1. ASSUME NEW t \in Threads, NEW l \in Socks, sys_Accept(t, l) PROVE IInv'
  <2>1. Accepting(t, l) /\ AcceptRound(t, l)
    BY <1>1 DEF sys_Accept, Idle, OneAccept, In, Accepting
  <2> QED BY <2>1, AcceptStep
<1>2. ASSUME NEW t \in Threads, WokenAccept(t) PROVE IInv'
  <2>1. PICK l \in Socks : l = call[t].on
    BY <1>2 DEF WokenAccept, IInv, CallsOK, CallOK
  <2>2. Accepting(t, l) /\ AcceptRound(t, l)
    BY <1>2, <2>1 DEF WokenAccept, Accepting, IInv, CallsOK, CallOK, OneOfEach
  <2> QED BY <2>2, AcceptStep
<1>3. ASSUME UNCHANGED vars PROVE IInv'
  <2>1. OneOfEach' /\ Requests' /\ Sleepers' /\ SocketsOK' /\ PointersCrossed' /\ PointersLive' /\ PortMapExact'
    BY <1>3, SocketFrame, CallFrame DEF vars
  <2>2. TypeOK'
    BY <1>3 DEF vars, scbVars, waitVars, pipeVars, IInv, TypeOK
  <2>3. CallsOK'
    BY <1>3 DEF vars, scbVars, IInv, CallsOK, CallOK, Pending
  <2>4. AcceptsJustified'
    BY <1>3 DEF vars, scbVars, waitVars, IInv, AcceptsJustified, Waits, In
  <2> QED BY <2>1, <2>2, <2>3, <2>4 DEF IInv
<1>4. CASE \E p \in 0 .. MAX_PORT + 1 : sys_Socket(p)
  BY <1>4, SocketStep
<1>5. ASSUME NEW s \in Socks,
             \/ sys_Listen(s) \/ CloseListener(s) \/ ClosePeer(s) \/ CloseUnbound(s)
             \/ \E how \in Modes : sys_ShutDown(s, how)
      PROVE  IInv'
  BY <1>5, ListenStep, CloseListenerStep, ClosePeerStep, CloseUnboundStep, ShutDownStep
<1>6. ASSUME NEW t \in Threads, NEW s \in Socks,
             \/ sys_Accept(t, s) \/ socket_read(t, s) \/ socket_write(t, s)
             \/ \E p \in Ports : sys_Connect(t, s, p)
      PROVE  IInv'
  BY <1>1, <1>6, IOStep, ConnectStep
<1>7. ASSUME NEW t \in Threads,
             WokenAccept(t) \/ ConnectReturns(t) \/ Expire(t) \/ ConnectTimesOut(t) \/ EndIO(t)
      PROVE  IInv'
  BY <1>2, <1>7, ConnectReturnsStep, ExpireStep, TimesOutStep, EndIOStep
<1> QED BY <1>3, <1>4, <1>5, <1>6, <1>7 DEF Next

(* The inductive invariant holds in every reachable state, for programs    *)
(* that keep to the rules.                                                 *)
THEOREM Invariance == ASSUME Orderly PROVE Spec => []IInv
<1>1. IInv /\ [Next]_vars => IInv'
  BY InvStep
<1> QED BY <1>1, InvInit, PTL DEF Spec

(* The port map names exactly the open listeners, each socket is the peer  *)
(* of its peer, and the pipes of a connection are crossed, open where a    *)
(* socket points to them and freed only when nobody is in them.            *)
THEOREM SocketsLinked == ASSUME Orderly PROVE Spec => []SocketInvariant
<1>1. ASSUME IInv PROVE PipesCrossed
  <2>1. \A s \in Socks : type[s] = "SOCKET_PEER" => peer[peer[s]] = s
    BY <1>1 DEF IInv, SocketsOK
  <2>2. ASSUME NEW s \in open
        PROVE  /\ read_pipe[s] # NULL => IsOpen(ReadEnd(s))
               /\ write_pipe[s] # NULL => IsOpen(WriteEnd(s))
    BY <1>1 DEF IInv, PointersLive, IsOpen, ReadEnd, WriteEnd
  <2>3. ASSUME NEW s \in open, NEW r \in open
        PROVE  read_pipe[s] # NULL /\ read_pipe[s] = write_pipe[r] <=>
                 peer[s] = r /\ read_pipe[s] # NULL /\ write_pipe[r] # NULL
    <3>1. s \in Socks /\ r \in Socks
      BY <1>1 DEF IInv, TypeOK
    <3> QED BY <1>1, <3>1 DEF IInv, PointersCrossed
  <2>4. \A p \in freed : ends[p] = {}
    BY <1>1 DEF IInv, PointersLive
  <2>5. \A t \in Threads : call[t].op \in {"read", "write"} => ends[call[t].on] # {}
    BY <1>1, SocketsAssumption DEF IInv, CallsOK, CallOK, PointersLive
  <2> QED BY <2>1, <2>2, <2>3, <2>4, <2>5 DEF PipesCrossed
<1>2. IInv => SocketInvariant
  BY <1>1 DEF IInv, SocketInvariant
<1> QED BY <1>2, Invariance, PTL

(* Every request in a queue is that of one Connect still under way there,  *)
(* for an open unconnected socket, whenever timeouts run out.              *)
THEOREM RequestsLive == ASSUME Orderly PROVE Spec => []NoStaleRequest
<1>1. ASSUME IInv, NEW l \in Socks
      PROVE  /\ IsInjective(queue[l])
             /\ \A t \in ToSet(queue[l]) :
                  /\ In(t, "connect", l) /\ ~ call[t].admitted
                  /\ call[t].sock \in open /\ type[call[t].sock] = "SOCKET_UNBOUND"
  <2>1. CASE queue[l] = << >>
    BY <2>1 DEF IsInjective, ToSet
  <2>2. CASE queue[l] # << >>
    <3>1. PICK u \in Threads : queue[l] = <<u>> /\ Pending(u) /\ call[u].on = l /\ ~ call[u].admitted
      BY <1>1, <2>2 DEF IInv, Requests
    <3>2. IsInjective(queue[l]) /\ ToSet(queue[l]) = {u}
      BY <3>1 DEF IsInjective, ToSet
    <3>3. CallOK(u)
      BY <1>1 DEF IInv, CallsOK
    <3> QED BY <3>1, <3>2, <3>3 DEF CallOK, Pending, In
  <2> QED BY <2>1, <2>2
<1>2. IInv => NoStaleRequest
  BY <1>1 DEF NoStaleRequest
<1> QED BY <1>2, Invariance, PTL

(* No Accept sleeps on a request or on a closed listener, and no Connect   *)
(* after it was admitted.                                                  *)
THEOREM NoSleeperForgotten == ASSUME Orderly PROVE Spec => []NobodyForgotten
<1>1. IInv => NobodyForgotten
  BY DEF IInv, AcceptsJustified, CallsOK, CallOK, NobodyForgotten, Waits, In, Pending
<1> QED BY <1>1, Invariance, PTL
=============================================================================
