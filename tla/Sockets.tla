-------------------------------- MODULE Sockets --------------------------------
(***************************************************************************)
(* Socket and SockAddr (src/base/Socket.cpp): objects that own descriptors *)
(* of the process.  Nearly every method is one system call, which is       *)
(* external; what the class adds is who closes the descriptor, the form of *)
(* addresses and of options, and what the caller is given on a failure.    *)
(*                                                                         *)
(* The caller creates and attaches only where there is no descriptor, as   *)
(* UdpSrv.cpp, WebServer.cpp do: Attach does not close.  A descriptor that *)
(* Accept or Handle and Detach gave it is in its hand until it is attached. *)
(***************************************************************************)
EXTENDS Integers, Sequences, FiniteSets, FiniteSetsExt

CONSTANTS
    Obj,            \* Socket objects
    Descriptors,    \* bound: how many the process may have
    Ip,             \* addresses in dotted form that inet_addr can read
    ANY, NOIP,      \* INADDR_ANY, and INADDR_NONE, which is the broadcast address
    EMPTY, BAD,     \* the empty text, and one that is no address
    Port, BYTE,     \* port numbers, below BYTE * BYTE; BYTE is 256
    Milliseconds, Sizes,    \* arguments of SetRecvTimeout and SetRecvBufSize
    MaxCalls        \* bound: calls in a behaviour

INVALID_SOCKET == -1
FD == 0..(Descriptors - 1)

Text == Ip \cup {EMPTY, BAD}
AddressConstants ==
    /\ Port \subseteq 0..(BYTE * BYTE - 1) /\ BYTE \in Nat \ {0}
    /\ {ANY, NOIP, EMPTY, BAD} \cap Ip = {} /\ Cardinality({ANY, NOIP, EMPTY, BAD}) = 4
SocketBounds ==
    Descriptors \in Nat \ {0} /\ Milliseconds \subseteq Int /\ Sizes \subseteq Int /\ MaxCalls \in Nat

VARIABLES
    living,         \* objects between construction and destruction
    m_hSocket,      \* Obj -> FD or INVALID_SOCKET
    hand,           \* descriptors the caller has
    socket,         \* FD -> the system's socket, or CLOSED
    told,           \* the last call: its name, its arguments, what it returned
    calls

vars == <<living, m_hSocket, hand, socket, told, calls>>

-----------------------------------------------------------------------------
(* SockAddr: the port is kept as its bytes are sent.                       *)
htons(port) == <<port \div BYTE, port % BYTE>>
ntohs(bytes) == bytes[1] * BYTE + bytes[2]
inet_addr(ip) == CASE ip \in Ip -> ip [] ip = ANY -> ANY [] OTHER -> NOIP
IpOf(ip) == IF ip = EMPTY THEN ANY ELSE inet_addr(ip)

NoSockAddr == [sin_addr |-> ANY, sin_port |-> <<0, 0>>]
SockAddr(ip, port) == [sin_addr |-> IpOf(ip), sin_port |-> htons(port)]
GetPort(a) == ntohs(a.sin_port)
SetPort(a, port) == [a EXCEPT !.sin_port = htons(port)]
SetIP(a, ip) == [a EXCEPT !.sin_addr = IpOf(ip)]
GetIP(a) == a.sin_addr

(* The time a timeout is given in: seconds and microseconds.               *)
Timeval(ms) ==
    IF ms >= 0 THEN <<ms \div 1000, (ms % 1000) * 1000>>
    ELSE <<-((-ms) \div 1000), -((-ms) % 1000) * 1000>>

-----------------------------------------------------------------------------
(* The system.  Options that were not set are absent.                      *)
NoOptions == [name \in {} |-> 0]
Fresh(type) ==
    [type |-> type, bound |-> NoSockAddr, peer |-> NoSockAddr, listening |-> FALSE, blocked |-> TRUE,
     options |-> NoOptions, waiting |-> <<>>, shut |-> FALSE]
CLOSED == Fresh("closed")
Free == {d \in FD : socket[d] = CLOSED}
Waits(s) == s.blocked /\ "SO_RCVTIMEO" \notin DOMAIN s.options
InUse(a) ==
    \E d \in FD :
        /\ socket[d] # CLOSED /\ socket[d].bound = a
        /\ "SO_REUSEADDR" \notin DOMAIN socket[d].options \/ socket[d].options["SO_REUSEADDR"] = 0

(* setsockopt refuses microseconds that are none; a membership is of a
   group and an interface, and may be given up only when there is one.     *)
Accepts(s, name, value) ==
    CASE name \in {"SO_RCVTIMEO", "SO_SNDTIMEO"} -> 0 <= value[2] /\ value[2] < 1000000
      [] name = "IP_ADD_MEMBERSHIP" -> value[1] \notin {ANY, NOIP} /\ "IP_ADD_MEMBERSHIP" \notin DOMAIN s.options
      [] name = "IP_DROP_MEMBERSHIP" ->
            "IP_ADD_MEMBERSHIP" \in DOMAIN s.options /\ s.options["IP_ADD_MEMBERSHIP"] = value
      [] OTHER -> TRUE
WithOption(options, name, value) ==
    IF name = "IP_DROP_MEMBERSHIP"
    THEN [n \in DOMAIN options \ {"IP_ADD_MEMBERSHIP"} |-> options[n]]
    ELSE [n \in DOMAIN options \cup {name} |-> IF n = name THEN value ELSE options[n]]

-----------------------------------------------------------------------------
Init ==
    /\ living = {} /\ m_hSocket = [o \in Obj |-> INVALID_SOCKET] /\ hand = {}
    /\ socket = [d \in FD |-> CLOSED]
    /\ told = <<"none">> /\ calls = 0

IsValid(o) == m_hSocket[o] # INVALID_SOCKET
Handle(o) == m_hSocket[o]

Call == calls < MaxCalls /\ calls' = calls + 1
MethodCall(o) == Call /\ o \in living

Construct(o) ==
    /\ Call /\ o \notin living /\ living' = living \cup {o}
    /\ m_hSocket' = [m_hSocket EXCEPT ![o] = INVALID_SOCKET]
    /\ told' = <<"none">> /\ UNCHANGED <<hand, socket>>
ConstructFrom(o, s) ==
    /\ Call /\ o \notin living /\ living' = living \cup {o}
    /\ s \in hand /\ hand' = hand \ {s}
    /\ m_hSocket' = [m_hSocket EXCEPT ![o] = s]
    /\ told' = <<"none">> /\ UNCHANGED socket

(* socket() may fail, and does when the process has no more descriptors.   *)
Create(o, type) ==
    /\ MethodCall(o) /\ ~IsValid(o)
    /\ \/ UNCHANGED <<m_hSocket, socket>>
       \/ /\ Free # {}
          /\ socket' = [socket EXCEPT ![Min(Free)] = Fresh(type)]
          /\ m_hSocket' = [m_hSocket EXCEPT ![o] = Min(Free)]
    /\ told' = <<"none">> /\ UNCHANGED <<living, hand>>

Attach(o, s) ==
    /\ MethodCall(o) /\ ~IsValid(o) /\ s \in hand
    /\ hand' = hand \ {s} /\ m_hSocket' = [m_hSocket EXCEPT ![o] = s]
    /\ told' = <<"none">> /\ UNCHANGED <<living, socket>>
Detach(o) ==
    /\ MethodCall(o) /\ IsValid(o)
    /\ hand' = hand \cup {Handle(o)} /\ m_hSocket' = [m_hSocket EXCEPT ![o] = INVALID_SOCKET]
    /\ told' = <<"none">> /\ UNCHANGED <<living, socket>>

CloseOf(o) ==
    /\ socket' = IF IsValid(o) THEN [socket EXCEPT ![Handle(o)] = CLOSED] ELSE socket
    /\ m_hSocket' = [m_hSocket EXCEPT ![o] = INVALID_SOCKET]
Close(o) ==
    MethodCall(o) /\ CloseOf(o) /\ told' = <<"none">> /\ UNCHANGED <<living, hand>>
Destroy(o) ==
    /\ MethodCall(o) /\ CloseOf(o) /\ living' = living \ {o}
    /\ told' = <<"none">> /\ UNCHANGED hand

-----------------------------------------------------------------------------
(* A system call on o's socket: it makes it s, or fails, without a socket
   always and with one when it may.                                        *)
System(o) == socket[Handle(o)]
Becomes(o, s) == socket' = [socket EXCEPT ![Handle(o)] = s]
Outcome(o, name, given, may, s) ==
    /\ MethodCall(o)
    /\ IF IsValid(o) /\ may
       THEN Becomes(o, s) /\ told' = <<name, given, 0>>
       ELSE UNCHANGED socket /\ told' = <<name, given, -1>>
    /\ UNCHANGED <<living, m_hSocket, hand>>
With(o) == IF IsValid(o) THEN System(o) ELSE Fresh("none")

Bind(o, ip, port) ==
    LET a == SockAddr(ip, port) s == With(o) IN
    Outcome(o, "Bind", <<ip, port>>, s.bound = NoSockAddr /\ ~InUse(a), [s EXCEPT !.bound = a])
Listen(o) ==
    LET s == With(o) IN Outcome(o, "Listen", <<>>, s.type = "stream", [s EXCEPT !.listening = TRUE])
Connect(o, ip, port) ==
    LET s == With(o) a == SockAddr(ip, port) IN
    \E answered \in BOOLEAN :
        Outcome(o, "Connect", <<ip, port>>,
                s.type = "datagram" \/ (answered /\ ~s.listening /\ s.peer = NoSockAddr),
                [s EXCEPT !.peer = a])
Shutdown(o) ==
    /\ MethodCall(o) /\ UNCHANGED <<living, m_hSocket, hand>> /\ told' = <<"none">>
    /\ IF IsValid(o) THEN Becomes(o, [System(o) EXCEPT !.shut = TRUE]) ELSE UNCHANGED socket

IoBlocked(o, blocked) ==
    Outcome(o, "IoBlocked", blocked, TRUE, [With(o) EXCEPT !.blocked = blocked])
SetSockOpt(o, asked, name, value) ==
    LET s == With(o) IN
    Outcome(o, name, asked, Accepts(s, name, value), [s EXCEPT !.options = WithOption(@, name, value)])
ReuseAddr(o, reuse) == SetSockOpt(o, reuse, "SO_REUSEADDR", IF reuse THEN 1 ELSE 0)
SetRecvBufSize(o, sz) == SetSockOpt(o, sz, "SO_RCVBUF", sz)
SetSendBufSize(o, sz) == SetSockOpt(o, sz, "SO_SNDBUF", sz)
SetRecvTimeout(o, ms) == SetSockOpt(o, ms, "SO_RCVTIMEO", Timeval(ms))
SetSendTimeout(o, ms) == SetSockOpt(o, ms, "SO_SNDTIMEO", Timeval(ms))
AddMembership(o, multip, localip) ==
    SetSockOpt(o, <<multip, localip>>, "IP_ADD_MEMBERSHIP", <<inet_addr(multip), IpOf(localip)>>)
DropMembership(o, multip, localip) ==
    SetSockOpt(o, <<multip, localip>>, "IP_DROP_MEMBERSHIP", <<inet_addr(multip), IpOf(localip)>>)

(* A datagram, or a connection, from a peer the system knows.              *)
Arrive(d, ip, port) ==
    /\ socket[d] # CLOSED /\ Len(socket[d].waiting) < 1
    /\ socket[d].listening \/ socket[d].type = "datagram"
    /\ socket' = [socket EXCEPT ![d].waiting = Append(@, SockAddr(ip, port))]
    /\ told' = <<"none">> /\ UNCHANGED <<living, m_hSocket, hand, calls>>

(* RecvFrom and Accept copy the address they have to the caller's whether
   the call failed or not: then it is that of SockAddr().  A call that
   would wait for ever is not made, nor one for bytes of a connection, which
   HttpClientSocket models with Recv.                                      *)
Answer(name, o, n, addr) == told' = <<name, IF IsValid(o) THEN System(o).waiting ELSE <<>>, n, addr>>
RecvFrom(o) ==
    /\ IsValid(o) /\ System(o).type = "stream" => System(o).peer = NoSockAddr
    /\ MethodCall(o) /\ UNCHANGED <<living, m_hSocket, hand>>
    /\ IF IsValid(o) /\ System(o).type = "datagram" /\ System(o).waiting # <<>>
       THEN /\ Becomes(o, [System(o) EXCEPT !.waiting = Tail(@)])
            /\ Answer("RecvFrom", o, 1, Head(System(o).waiting))
       ELSE /\ IsValid(o) => System(o).type = "stream" \/ ~Waits(System(o))
            /\ Answer("RecvFrom", o, -1, NoSockAddr) /\ UNCHANGED socket
Accept(o) ==
    /\ MethodCall(o) /\ UNCHANGED <<living, m_hSocket>>
    /\ IF IsValid(o) /\ System(o).listening /\ System(o).waiting # <<>> /\ Free # {}
       THEN /\ LET s == Min(Free) IN
                  /\ socket' = [socket EXCEPT
                        ![Handle(o)].waiting = Tail(@),
                        ![s] = [Fresh("stream") EXCEPT !.peer = Head(System(o).waiting)]]
                  /\ hand' = hand \cup {s}
            /\ Answer("Accept", o, Min(Free), Head(System(o).waiting))
       ELSE /\ IsValid(o) /\ System(o).listening /\ System(o).waiting = <<>> => ~Waits(System(o))
            /\ Answer("Accept", o, -1, NoSockAddr) /\ UNCHANGED <<socket, hand>>

(* SendTo and Send give the system the caller's bytes.                     *)
SendTo(o, ip, port) ==
    Outcome(o, "SendTo", SockAddr(ip, port), With(o).type = "datagram", With(o))
Send(o) ==
    LET s == With(o) IN Outcome(o, "Send", s.peer, s.peer # NoSockAddr /\ ~s.shut, s)
GetPeerName(o) ==
    LET s == With(o) IN Outcome(o, "GetPeerName", s.peer, s.peer # NoSockAddr, s)
GetSockName(o) ==
    LET s == With(o) IN Outcome(o, "GetSockName", s.bound, TRUE, s)

Next ==
    \/ \E o \in Obj :
          \/ Construct(o) \/ Detach(o) \/ Close(o) \/ Destroy(o)
          \/ \E type \in {"datagram", "stream"} : Create(o, type)
          \/ \E s \in hand : ConstructFrom(o, s) \/ Attach(o, s)
          \/ Listen(o) \/ Shutdown(o) \/ RecvFrom(o) \/ Accept(o)
          \/ Send(o) \/ GetPeerName(o) \/ GetSockName(o)
          \/ \E ip \in Text, port \in Port : Bind(o, ip, port) \/ Connect(o, ip, port) \/ SendTo(o, ip, port)
          \/ \E b \in BOOLEAN : IoBlocked(o, b) \/ ReuseAddr(o, b)
          \/ \E sz \in Sizes : SetRecvBufSize(o, sz) \/ SetSendBufSize(o, sz)
          \/ \E ms \in Milliseconds : SetRecvTimeout(o, ms) \/ SetSendTimeout(o, ms)
          \/ \E ip \in Ip \cup {BAD}, local \in Text : AddMembership(o, ip, local) \/ DropMembership(o, ip, local)
    \/ \E d \in FD, ip \in Ip, port \in Port : Arrive(d, ip, port)

Spec == Init /\ [][Next]_vars

-----------------------------------------------------------------------------
(* Every open descriptor is in one place, an object or the caller's hand,
   and what they have is open: none is closed twice, and none is lost, until
   the process has no more (Socket.cpp:51-119).                            *)
Holders(d) == {o \in living : m_hSocket[o] = d}
OneHolder ==
    \A d \in FD :
        Cardinality(Holders(d)) + (IF d \in hand THEN 1 ELSE 0) = IF socket[d] = CLOSED THEN 0 ELSE 1
DeadHoldNothing == \A o \in Obj \ living : ~IsValid(o)

(* An address is what its text and number say, in the bytes the network reads
   (Socket.cpp:10-47); a text that is no address is the broadcast address.  *)
NetworkPort(a) == a.sin_port[1] * BYTE + a.sin_port[2]
AddressesRight ==
    \A ip \in Text, port \in Port :
        LET a == SetPort(SetIP(NoSockAddr, ip), port) IN
        /\ a = SockAddr(ip, port) /\ GetPort(a) = port /\ NetworkPort(a) = port
        /\ GetIP(a) = CASE ip \in Ip -> ip [] ip = EMPTY -> ANY [] ip = BAD -> NOIP

(* What a socket is told it has: a caller that got bytes or a connection got
   the sender's address with them, and no address with a failure; a timeout
   that was accepted is the one that was asked for (Socket.cpp:121-257).   *)
OfSystem(name) == {socket[d] : d \in {d \in FD : socket[d] # CLOSED /\ name \in DOMAIN socket[d].options}}
AnswersRight ==
    /\ told[1] \in {"RecvFrom", "Accept"} =>
          told[4] = IF told[3] < 0 THEN NoSockAddr ELSE Head(told[2])
    /\ told[1] \in {"SO_RCVTIMEO", "SO_SNDTIMEO"} /\ told[3] = 0 /\ told[2] >= 0 =>
          \E s \in OfSystem(told[1]) :
              s.options[told[1]][1] * 1000 + s.options[told[1]][2] \div 1000 = told[2]
    /\ told[1] \in {"SO_RCVTIMEO", "SO_SNDTIMEO"} /\ told[3] = -1 =>
          told[2] < 0 \/ \E o \in living : ~IsValid(o)
=============================================================================
