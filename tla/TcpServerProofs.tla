-------------------------- MODULE TcpServerProofs --------------------------
(***************************************************************************)
(* Proofs about a TCP server, for any set of descriptors, any clients, any *)
(* number of addresses and any size of a batch, on every platform: first   *)
(* who has which descriptor, then what the poller knows of it and reports. *)
(***************************************************************************)
EXTENDS TcpServer, SequenceTheorems, WellFoundedInduction, TLAPS

Places == {"initialize", "getaddrinfo", "socket", "bind", "bound", "unbound", "listen",
           "create", "poll", "dispatch", "destroy", "failed", "freed", "ended", "exit", "killed",
           "undefined"}

\* What is open is another thread's.
HasNothing == \A f \in Fds : fdt[f] \in {"free", "other"}

HasListener ==
  /\ listener \in Fds /\ fdt[listener] = "listener"
  /\ \A f \in Fds \ {listener} : fdt[f] # "listener"

HasPollerOnly ==
  /\ \A f \in Fds : fdt[f] # "poller" => fdt[f] \in {"free", "other"}
  /\ \A f, g \in Fds : fdt[f] = "poller" /\ fdt[g] = "poller" => f = g

\* Who has what, from place to place.
DescriptorsAgree ==
  /\ mpc \in {"initialize", "getaddrinfo"} => listener = INVALID_SOCKET
  /\ mpc \in {"initialize", "getaddrinfo", "socket", "unbound", "failed", "freed", "ended"} =>
       HasNothing
  /\ mpc \in {"bind", "bound", "listen", "create"} =>
       HasListener /\ \A f \in Fds \ {listener} : fdt[f] \in {"free", "other"}
  /\ mpc \in {"poll", "dispatch"} =>
       /\ HasListener
       /\ \A f \in Fds : fdt[f] \in Clients => f \in session_hash
       /\ \A f \in session_hash : fdt[f] \notin {"listener", "poller"}
       /\ \A f, g \in Fds : fdt[f] = "poller" /\ fdt[g] = "poller" => f = g
  /\ mpc \in {"initialize", "getaddrinfo", "socket", "bind", "bound", "unbound", "listen",
             "create", "failed", "freed"} => session_hash = {} /\ left = {}
  /\ \A f \in left : fdt[f] \in {"free", "other"}
  /\ left # {} => mpc # "dispatch" /\ termination_requested
  /\ mpc = "destroy" => HasPollerOnly
  /\ mpc \in {"poll", "dispatch", "destroy"} /\ On("win32") => \A f \in Fds : fdt[f] # "poller"

\* Unless a callback fails, a session has a connection of its own.
SessionsAgree ==
  CallbacksSucceed =>
    /\ hidden = {} /\ left = {}
    /\ mpc \in {"poll", "dispatch"} => \A f \in session_hash : fdt[f] \in Clients
    /\ mpc \notin {"poll", "dispatch", "exit", "killed"} => session_hash = {}
    /\ mpc # "undefined"

SetupAgrees ==
  /\ addr <= Addresses + 1
  /\ mpc \in {"bind", "bound"} => addr <= Addresses
  /\ mpc \in {"failed", "freed"} /\ servinfo => addr <= Addresses
  /\ servinfo => mpc \in {"socket", "bind", "bound", "failed", "freed", "killed"}
  /\ mpc \notin {"initialize", "freed", "killed", "exit", "undefined"} => wsa_started = On("win32")
  /\ mpc = "freed" => ~wsa_started

Types ==
  /\ listener \in Fds \cup {INVALID_SOCKET}
  /\ session_hash \subseteq Fds /\ hidden \subseteq session_hash /\ left \subseteq Fds
  /\ fdt \in [Fds -> Clients \cup {"free", "other", "listener", "poller"}]
  /\ servinfo \in BOOLEAN /\ wsa_started \in BOOLEAN
  /\ addr \in Nat
  /\ mpc \in Places

Inv == Types /\ DescriptorsAgree /\ SessionsAgree /\ SetupAgrees

\* Who waits for accept is a client.
Waiting == backlog \subseteq Clients

-----------------------------------------------------------------------------
LEMMA InitInv == Init => Inv
<1> SUFFICES ASSUME Init PROVE Inv
  OBVIOUS
<1> USE TcpServerAssumption DEF Init
<1>1. servinfo \in BOOLEAN /\ wsa_started \in BOOLEAN
  OBVIOUS
<1>2. Types
  BY <1>1 DEF Types, Places
<1>3. DescriptorsAgree
  BY DEF DescriptorsAgree, HasNothing
<1>4. SessionsAgree /\ SetupAgrees
  BY DEF SessionsAgree, SetupAgrees
<1>5. QED
  BY <1>2, <1>3, <1>4 DEF Inv

LEMMA NotADescriptor == INVALID_SOCKET \notin Fds
  BY TcpServerAssumption DEF INVALID_SOCKET

\* close, of a descriptor or of INVALID_SOCKET.
LEMMA CloseFrees ==
  ASSUME Types, NEW f, Close(f)
  PROVE  /\ \A g \in Fds : fdt'[g] = IF g = f THEN "free" ELSE fdt[g]
         /\ fdt' \in [Fds -> Clients \cup {"free", "other", "listener", "poller"}]
  BY DEF Types, Close, Closed

LEMMA Names ==
  "free" \notin Clients /\ "other" \notin Clients /\ "listener" \notin Clients /\ "poller" \notin Clients
  BY TcpServerAssumption

-----------------------------------------------------------------------------
(* The set-up *)

LEMMA StepSetup ==
  ASSUME Inv, Setup, config' = config
  PROVE  Inv'
<1> USE TcpServerAssumption, NotADescriptor, Names
    DEF Inv, Types, Places, DescriptorsAgree, HasNothing, HasListener, SessionsAgree,
        SetupAgrees, CallbacksSucceed, SetupUnchanged, setupVars, loopVars, hashVars, On
<1>1. CASE Initialize
  BY <1>1 DEF Initialize
<1>2. CASE GetAddrInfo
  <2>1. CASE Fatal
    BY <1>2, <2>1, CloseFrees DEF GetAddrInfo, Fatal
  <2>2. CASE servinfo' = TRUE /\ mpc' = "socket" /\ UNCHANGED <<kernelVars, fdt, addr, listener, wsa_started>>
    BY <1>2, <2>2 DEF GetAddrInfo
  <2>3. QED
    BY <1>2, <2>1, <2>2 DEF GetAddrInfo
<1>3. CASE OpenSocket
  <2>1. CASE SocketFails
    BY <1>3, <2>1 DEF OpenSocket, SocketFails
  <2>2. ASSUME NEW f \in NewFds, fdt' = [fdt EXCEPT ![f] = "listener"], listener' = f,
               mpc' = "bind", UNCHANGED <<kernelVars, servinfo, addr, wsa_started>>
        PROVE  Inv'
    BY <1>3, <2>2 DEF OpenSocket, NewFds
  <2>3. QED
    BY <1>3, <2>1, <2>2 DEF OpenSocket
<1>4. CASE Bind
  <2>1. CASE Fatal
    BY <1>4, <2>1, CloseFrees DEF Bind, Fatal
  <2>2. CASE Close(listener) /\ addr' = addr + 1 /\ mpc' = "socket"
             /\ UNCHANGED <<servinfo, listener, wsa_started>>
    BY <1>4, <2>2, CloseFrees DEF Bind
  <2>3. CASE mpc' = "bound" /\ UNCHANGED <<kernelVars, fdt, setupVars>>
    BY <1>4, <2>3 DEF Bind
  <2>4. QED
    BY <1>4, <2>1, <2>2, <2>3 DEF Bind
<1>5. CASE FreeAddrInfo
  <2>1. /\ servinfo' = FALSE /\ addr' = 1
        /\ UNCHANGED <<fdt, listener, wsa_started, loopVars, termination_requested>>
    BY <1>5 DEF FreeAddrInfo
  <2>2. \/ mpc = "bound" /\ mpc' = "listen"
        \/ mpc = "socket" /\ mpc' = "unbound"
    BY <1>5 DEF FreeAddrInfo
  <2>3. Types'
    BY <2>1, <2>2
  <2>4. SetupAgrees'
    BY <2>1, <2>2
  <2>5. DescriptorsAgree' /\ SessionsAgree'
    BY <2>1, <2>2
  <2>6. QED
    BY <2>3, <2>4, <2>5
<1>6. CASE FailedToBind
  BY <1>6, CloseFrees DEF FailedToBind, Fatal
<1>7. CASE Listen
  <2>1. CASE Fatal
    BY <1>7, <2>1, CloseFrees DEF Listen, Fatal
  <2>2. CASE mpc' = "create" /\ UNCHANGED <<kernelVars, fdt, setupVars>>
    BY <1>7, <2>2 DEF Listen
  <2>3. QED
    BY <1>7, <2>1, <2>2 DEF Listen
<1>8. CASE CreatePoller
  <2>1. mpc = "create" /\ UNCHANGED <<listener, loopVars, termination_requested, servinfo, addr, wsa_started>>
    BY <1>8 DEF CreatePoller, OpenPoller
  <2>2. \/ On("win32") /\ mpc' = "poll" /\ fdt' = fdt
        \/ mpc' = "exit" /\ fdt' = fdt
        \/ ~On("win32") /\ mpc' = "poll"
             /\ \E f \in Fds : fdt[f] = "free" /\ fdt' = [fdt EXCEPT ![f] = "poller"]
    BY <1>8 DEF CreatePoller, OpenPoller, NewFds
  <2>3. Types' /\ SessionsAgree' /\ SetupAgrees'
    BY <2>1, <2>2
  <2>4. CASE fdt' = fdt /\ (mpc' = "exit" \/ (On("win32") /\ mpc' = "poll"))
    <3>1. DescriptorsAgree'
      BY <2>1, <2>4
    <3>2. QED
      BY <2>3, <3>1
  <2>5. ASSUME NEW f \in Fds, ~On("win32"), mpc' = "poll", fdt[f] = "free",
               fdt' = [fdt EXCEPT ![f] = "poller"]
        PROVE  Inv'
    <3>1. f # listener /\ \A g \in Fds : fdt'[g] = "poller" => g = f
      BY <2>1, <2>5
    <3>2. \A g \in Fds : fdt'[g] \notin Clients
      BY <2>1, <2>5
    <3>3. DescriptorsAgree'
      BY <2>1, <2>5, <3>1, <3>2
    <3>4. QED
      BY <2>3, <3>3
  <2>6. QED
    BY <2>2, <2>4, <2>5
<1>9. CASE FreeServer
  BY <1>9 DEF FreeServer
<1>10. QED
  BY <1>1, <1>2, <1>3, <1>4, <1>5, <1>6, <1>7, <1>8, <1>9 DEF Setup

-----------------------------------------------------------------------------
(* The server at work, and its end *)

LEMMA AcceptStep ==
  ASSUME HandleNewConnection, Waiting
  PROVE  \E c \in Clients, f \in NewFds :
           /\ fdt' = [fdt EXCEPT ![f] = c]
           /\ Goes(~Full)
           /\ \/ Full /\ session_hash' = session_hash /\ hidden' = hidden
              \/ /\ ~Full
                 /\ session_hash' = session_hash \cup {f}
                 /\ hidden' = hidden \cup (session_hash \cap {f})
<1>1. PICK c \in backlog, f \in NewFds :
        /\ fdt' = [fdt EXCEPT ![f] = c]
        /\ Goes(~Full)
        /\ IF Full THEN UNCHANGED <<pollerVars, session_hash, hidden>>
           ELSE /\ \E sent, gone \in BOOLEAN : AddConnection(f, sent \/ gone)
                /\ session_hash' = session_hash \cup {f}
                /\ hidden' = hidden \cup (session_hash \cap {f})
  BY Zenon DEF HandleNewConnection
<1>2. \/ Full /\ session_hash' = session_hash /\ hidden' = hidden
      \/ /\ ~Full
         /\ session_hash' = session_hash \cup {f}
         /\ hidden' = hidden \cup (session_hash \cap {f})
  BY <1>1
<1>3. QED
  BY <1>1, <1>2 DEF Waiting

\* A number that is released: it is free, and where it had two sessions one stays.
LEMMA ReleaseFrees ==
  ASSUME Inv, NEW f \in session_hash, ReleaseConnection(f)
  PROVE  /\ f \in Fds
         /\ \A g \in Fds : fdt'[g] = IF g = f THEN "free" ELSE fdt[g]
         /\ fdt' \in [Fds -> Clients \cup {"free", "other", "listener", "poller"}]
         /\ session_hash' = session_hash \/ session_hash' = session_hash \ {f}
         /\ f \notin hidden => session_hash' = session_hash \ {f}
         /\ hidden' = hidden \ {f} /\ hidden' \subseteq session_hash'
<1>1. f \in Fds /\ hidden \subseteq session_hash /\ Types
  BY DEF Inv, Types
<1>2. Close(f) /\ session_hash' = session_hash \ ({f} \ hidden) /\ hidden' = hidden \ {f}
  BY DEF ReleaseConnection
<1>3. /\ \A g \in Fds : fdt'[g] = IF g = f THEN "free" ELSE fdt[g]
      /\ fdt' \in [Fds -> Clients \cup {"free", "other", "listener", "poller"}]
  BY <1>1, <1>2, CloseFrees
<1>4. QED
  BY <1>1, <1>2, <1>3

\* Nobody's descriptor but the one of a session is closed for it.
LEMMA StepIterate ==
  ASSUME Inv, Waiting, config' = config, Iterate
  PROVE  Inv'
<1> USE TcpServerAssumption, NotADescriptor, Names
    DEF Inv, Types, Places, DescriptorsAgree, HasNothing, HasListener, SessionsAgree, SetupAgrees,
        CallbacksSucceed, setupVars, On
<1>1. CASE PollerWait
  <2>1. /\ mpc = "poll" /\ mpc' \in {"poll", "dispatch"} /\ ~termination_requested
        /\ UNCHANGED <<fdt, setupVars, session_hash, hidden, left, termination_requested>>
    BY <1>1 DEF PollerWait, hashVars
  <2>2. QED
    BY <2>1
<1>2. CASE HandleNewConnection
  <2>1. PICK c \in Clients, f \in NewFds :
          /\ fdt' = [fdt EXCEPT ![f] = c]
          /\ Goes(~Full)
          /\ \/ Full /\ session_hash' = session_hash /\ hidden' = hidden
             \/ /\ ~Full
                /\ session_hash' = session_hash \cup {f}
                /\ hidden' = hidden \cup (session_hash \cap {f})
    BY <1>2, AcceptStep
  <2>2. f \in Fds /\ fdt[f] = "free" /\ f # listener
    BY <1>2 DEF NewFds, HandleNewConnection, Dispatch
  <2>3. mpc = "dispatch" /\ left = {} /\ UNCHANGED <<setupVars, left, termination_requested>>
    BY <1>2 DEF HandleNewConnection, Dispatch
  <2>4. CASE Full
    <3>1. mpc' = "exit" /\ session_hash' = session_hash /\ hidden' = hidden
      BY <2>1, <2>4 DEF Goes
    <3>2. QED
      BY <2>1, <2>2, <2>3, <3>1
  <2>5. CASE ~Full
    <3>1. /\ mpc' \in {"poll", "dispatch"} /\ session_hash' = session_hash \cup {f}
          /\ hidden' = hidden \cup (session_hash \cap {f})
      BY <2>1, <2>5 DEF Goes
    <3>2. Types' /\ SetupAgrees'
      BY <2>1, <2>2, <2>3, <3>1
    <3>3. DescriptorsAgree'
      BY <2>1, <2>2, <2>3, <3>1
    <3>4. SessionsAgree'
      BY <2>1, <2>2, <2>3, <3>1
    <3>5. QED
      BY <3>2, <3>3, <3>4
  <2>6. QED
    BY <2>4, <2>5
<1>3. CASE AcceptFails \/ HandleNewData
  <2>1. /\ mpc = "dispatch" /\ mpc' \in {"poll", "dispatch"}
        /\ UNCHANGED <<fdt, setupVars, session_hash, hidden, left, termination_requested>>
    BY <1>3 DEF AcceptFails, HandleNewData, Dispatch, Goes, hashVars
  <2>2. QED
    BY <2>1
<1>4. CASE HandleDisconnect
  <2> DEFINE f == Head(events).fd
  <2>1. /\ mpc = "dispatch" /\ mpc' \in {"poll", "dispatch", "exit"} /\ left = {}
        /\ UNCHANGED <<setupVars, left, termination_requested>>
    BY <1>4 DEF HandleDisconnect, Dispatch, Goes
  <2>2. CASE f \notin session_hash
    <3>1. UNCHANGED <<fdt, session_hash, hidden>>
      BY <1>4, <2>2 DEF HandleDisconnect
    <3>2. QED
      BY <2>1, <3>1
  <2>3. CASE f \in session_hash
    <3>1. ReleaseConnection(f)
      BY <1>4, <2>3 DEF HandleDisconnect
    <3> HIDE DEF f
    <3>2. /\ \A g \in Fds : fdt'[g] = IF g = f THEN "free" ELSE fdt[g]
          /\ fdt' \in [Fds -> Clients \cup {"free", "other", "listener", "poller"}]
          /\ session_hash' = session_hash \/ session_hash' = session_hash \ {f}
          /\ f \notin hidden => session_hash' = session_hash \ {f}
          /\ hidden' = hidden \ {f} /\ hidden' \subseteq session_hash' /\ f \in Fds
      BY <2>3, <3>1, ReleaseFrees
    <3>3. f # listener
      BY <2>1, <2>3
    <3>4. Types' /\ SetupAgrees'
      BY <2>1, <3>2
    <3>5. DescriptorsAgree'
      BY <2>1, <2>3, <3>2, <3>3
    <3>6. SessionsAgree'
      BY <2>1, <2>3, <3>2
    <3>7. QED
      BY <3>4, <3>5, <3>6
  <2>4. QED
    BY <2>2, <2>3
<1>5. QED
  BY <1>1, <1>2, <1>3, <1>4 DEF Iterate

LEMMA StepFinalize ==
  ASSUME Inv, config' = config, FinalizeConnection \/ CloseListener \/ PollerDestroy
  PROVE  Inv'
<1> USE TcpServerAssumption, NotADescriptor, Names
    DEF Inv, Types, Places, DescriptorsAgree, HasNothing, HasListener, HasPollerOnly, SessionsAgree,
        SetupAgrees, CallbacksSucceed, setupVars, On
<1>1. CASE FinalizeConnection
  <2>1. PICK f \in session_hash :
          /\ ReleaseConnection(f)
          /\ \/ left' = left /\ mpc' \in {"poll", "exit"}
             \/ f \in hidden /\ left' = left \cup {f} /\ mpc' \in {"poll", "exit", "undefined"}
    BY <1>1 DEF FinalizeConnection
  <2>2. /\ \A g \in Fds : fdt'[g] = IF g = f THEN "free" ELSE fdt[g]
        /\ fdt' \in [Fds -> Clients \cup {"free", "other", "listener", "poller"}]
        /\ session_hash' = session_hash \/ session_hash' = session_hash \ {f}
        /\ f \notin hidden => session_hash' = session_hash \ {f}
        /\ hidden' = hidden \ {f} /\ hidden' \subseteq session_hash' /\ f \in Fds
    BY <2>1, ReleaseFrees
  <2>3. /\ mpc = "poll" /\ termination_requested /\ mpc' \in {"poll", "exit", "undefined"}
        /\ UNCHANGED <<setupVars, termination_requested>>
    BY <1>1, <2>1 DEF FinalizeConnection
  <2>4. f # listener
    BY <2>3
  <2>5. Types' /\ SetupAgrees'
    BY <2>1, <2>2, <2>3
  <2>6. /\ HasListener' /\ left' \subseteq left \cup {f}
        /\ \A g \in Fds : fdt'[g] \in Clients => g \in session_hash'
        /\ \A g \in session_hash' : fdt'[g] \notin {"listener", "poller"}
        /\ \A g, h \in Fds : fdt'[g] = "poller" /\ fdt'[h] = "poller" => g = h
    BY <2>1, <2>2, <2>3, <2>4
  <2>7. (\A g \in left' : fdt'[g] \in {"free", "other"}) /\ (On("win32") => \A g \in Fds : fdt'[g] # "poller")
    BY <2>2, <2>3, <2>6
  <2>8. DescriptorsAgree'
    BY <2>2, <2>3, <2>6, <2>7
  <2>9. SessionsAgree'
    <3>1. CallbacksSucceed' => CallbacksSucceed /\ f \notin hidden
      BY <2>1
    <3>2. f \notin hidden => left' = left /\ mpc' \in {"poll", "exit"} /\ session_hash' = session_hash \ {f}
      BY <2>1, <2>2
    <3>3. CallbacksSucceed => hidden = {} /\ left = {} /\ \A g \in session_hash : fdt[g] \in Clients
      BY <2>3
    <3>4. CallbacksSucceed' => hidden' = {} /\ left' = {} /\ \A g \in session_hash' : fdt'[g] \in Clients
      BY ONLY <2>2, <3>1, <3>2, <3>3, Types DEF Types
    <3>5. mpc' = "undefined" => ~CallbacksSucceed'
      BY ONLY <3>1, <3>2
    <3>6. QED
      BY ONLY <2>3, <3>4, <3>5 DEF SessionsAgree
  <2>10. QED
    BY <2>5, <2>8, <2>9
<1>2. CASE CloseListener
  <2>1. /\ mpc = "poll" /\ mpc' = "destroy" /\ session_hash \subseteq left /\ Close(listener)
        /\ UNCHANGED <<setupVars, session_hash, hidden, left, termination_requested>>
    BY <1>2 DEF CloseListener, loopVars, hashVars
  <2>2. /\ \A g \in Fds : fdt'[g] = IF g = listener THEN "free" ELSE fdt[g]
        /\ fdt' \in [Fds -> Clients \cup {"free", "other", "listener", "poller"}]
    BY <2>1, CloseFrees
  <2>3. HasPollerOnly'
    BY <2>1, <2>2
  <2>4. Types' /\ SessionsAgree' /\ SetupAgrees'
    BY <2>1, <2>2
  <2>5. QED
    BY <2>1, <2>2, <2>3, <2>4
<1>3. CASE PollerDestroy
  <2>1. /\ mpc = "destroy" /\ mpc' = "ended"
        /\ UNCHANGED <<setupVars, session_hash, hidden, left, termination_requested>>
    BY <1>3 DEF PollerDestroy, loopVars, hashVars
  <2>2. \E f : /\ \A g \in Fds : fdt'[g] = IF g = f THEN "free" ELSE fdt[g]
               /\ fdt' \in [Fds -> Clients \cup {"free", "other", "listener", "poller"}]
               /\ ~On("win32") => f \in Fds /\ fdt[f] = "poller"
    <3>1. CASE On("win32")
      <4>1. Close(fs_socket)
        BY <1>3, <3>1 DEF PollerDestroy
      <4>2. QED
        BY <3>1, <4>1, CloseFrees
    <3>2. CASE ~On("win32")
      <4>1. PICK f \in Fds : fdt[f] = "poller" /\ Close(f)
        BY <1>3, <3>2 DEF PollerDestroy, ClosePoller
      <4>2. QED
        BY <4>1, CloseFrees
    <3>3. QED
      BY <3>1, <3>2
  <2>3. HasNothing'
    BY <2>1, <2>2
  <2>4. Types' /\ SessionsAgree' /\ SetupAgrees'
    BY <2>1, <2>2
  <2>5. QED
    BY <2>1, <2>2, <2>3, <2>4
<1>4. QED
  BY <1>1, <1>2, <1>3

\* Other threads open and close descriptors of their own; clients touch none.
LEMMA StepEnvironment ==
  ASSUME Inv, config' = config, Environment, ~Exited
  PROVE  Inv'
<1> USE TcpServerAssumption, NotADescriptor, Names
    DEF Inv, Types, Places, DescriptorsAgree, HasNothing, HasListener, HasPollerOnly, SessionsAgree,
        SetupAgrees, CallbacksSucceed, setupVars, loopVars, hashVars, On
<1>1. CASE OtherOpens
  <2>1. PICK f \in Fds : fdt[f] = "free" /\ fdt' = [fdt EXCEPT ![f] = "other"]
    BY <1>1 DEF OtherOpens, NewFds
  <2>2. UNCHANGED <<setupVars, loopVars, termination_requested, mpc>>
    BY <1>1 DEF OtherOpens
  <2>3. QED
    BY <2>1, <2>2
<1>2. ASSUME NEW f \in Fds, OtherCloses(f) PROVE Inv'
  <2>1. fdt[f] = "other" /\ fdt' = [fdt EXCEPT ![f] = "free"]
    BY <1>2 DEF OtherCloses, Close, Closed
  <2>2. UNCHANGED <<setupVars, loopVars, termination_requested, mpc>>
    BY <1>2 DEF OtherCloses
  <2>3. QED
    BY <2>1, <2>2
<1>3. CASE Terminate
  <2>1. UNCHANGED <<fdt, setupVars, loopVars>> /\ mpc' \in {mpc, "killed"} /\ termination_requested'
    BY <1>3 DEF Terminate
  <2>2. QED
    BY <2>1
<1>4. ASSUME NEW c \in Clients, Connect(c) \/ Abort(c) PROVE Inv'
  <2>1. UNCHANGED <<fdt, setupVars, loopVars, termination_requested, mpc>>
    BY <1>4 DEF Connect, Abort, Kernel
  <2>2. QED
    BY <2>1
<1>5. ASSUME NEW f \in Fds, ClientSends(f) \/ ClientCloses(f) \/ WorkerReceives(f) \/ OtherGets(f)
      PROVE  Inv'
  <2>1. UNCHANGED <<fdt, setupVars, loopVars, termination_requested, mpc>>
    BY <1>5 DEF ClientSends, ClientCloses, WorkerReceives, OtherGets, Kernel
  <2>2. QED
    BY <2>1
<1>6. ASSUME NEW f \in Fds, CallbackFails(f), ~Exited PROVE Inv'
  <2>1. /\ f \in session_hash /\ ~CallbacksSucceed /\ Close(f)
        /\ UNCHANGED <<setupVars, loopVars, termination_requested, mpc>>
    BY <1>6 DEF CallbackFails
  <2>2. /\ \A g \in Fds : fdt'[g] = IF g = f THEN "free" ELSE fdt[g]
        /\ fdt' \in [Fds -> Clients \cup {"free", "other", "listener", "poller"}]
    BY <2>1, CloseFrees
  <2>3. mpc \in {"poll", "dispatch", "destroy", "ended"}
    BY <1>6, <2>1 DEF Exited
  <2>4. Types' /\ SessionsAgree' /\ SetupAgrees'
    BY <2>1, <2>2
  <2>5. DescriptorsAgree'
    BY <2>1, <2>2, <2>3
  <2>6. QED
    BY <2>4, <2>5
<1>7. QED
  BY <1>1, <1>2, <1>3, <1>4, <1>5, <1>6 DEF Environment

-----------------------------------------------------------------------------
(* The theorems *)

LEMMA ConfigIsKept == [Next]_vars => config' = config
<1> SUFFICES ASSUME [Next]_vars PROVE config' = config
  OBVIOUS
<1> USE DEF vars, setupVars
<1>1. CASE Setup
  BY <1>1 DEF Setup, Initialize, GetAddrInfo, OpenSocket, Bind, FreeAddrInfo, FailedToBind,
              Listen, CreatePoller, FreeServer, SetupUnchanged
<1>2. CASE Iterate \/ FinalizeConnection \/ CloseListener \/ PollerDestroy
  BY <1>2 DEF Iterate, PollerWait, HandleNewConnection, AcceptFails, HandleNewData, HandleDisconnect,
              Dispatch, FinalizeConnection, CloseListener, PollerDestroy
<1>3. CASE Environment
  BY <1>3 DEF Environment, Connect, Abort, ClientSends, ClientCloses, WorkerReceives, CallbackFails,
              OtherCloses, OtherGets, OtherOpens, Terminate, Kernel
<1>4. CASE UNCHANGED vars
  BY <1>4
<1>5. QED
  BY <1>1, <1>2, <1>3, <1>4 DEF Next, MainThread

LEMMA WaitingHolds == Spec => []Waiting
<1> USE DEF Waiting
<1>1. Init => Waiting
  BY DEF Init
<1>2. Waiting /\ [Next]_vars => Waiting'
  <2> SUFFICES ASSUME Waiting, [Next]_vars PROVE Waiting'
    OBVIOUS
  <2>1. CASE Setup
    BY <2>1 DEF Setup, Initialize, GetAddrInfo, OpenSocket, Bind, FreeAddrInfo, FailedToBind,
                Listen, CreatePoller, FreeServer, SetupUnchanged
  <2>2. CASE Iterate \/ FinalizeConnection \/ CloseListener \/ PollerDestroy
    BY <2>2 DEF Iterate, PollerWait, HandleNewConnection, AcceptFails, HandleNewData, HandleDisconnect,
                FinalizeConnection, CloseListener, PollerDestroy
  <2>3. CASE Environment
    BY <2>3 DEF Environment, Connect, Abort, ClientSends, ClientCloses, WorkerReceives,
                CallbackFails, OtherCloses, OtherGets, OtherOpens, Terminate
  <2>4. CASE UNCHANGED vars
    BY <2>4 DEF vars
  <2>5. QED
    BY <2>1, <2>2, <2>3, <2>4 DEF Next, MainThread
<1>3. QED
  BY <1>1, <1>2, PTL DEF Spec

LEMMA StepInv == Inv /\ Waiting /\ [Next]_vars => Inv'
<1> SUFFICES ASSUME Inv, Waiting, [Next]_vars PROVE Inv'
  OBVIOUS
<1>1. config' = config
  BY ConfigIsKept
<1>2. CASE UNCHANGED vars
  BY <1>2
     DEF vars, setupVars, loopVars, hashVars, Inv, Types, DescriptorsAgree, HasNothing, HasListener,
         HasPollerOnly, SessionsAgree, SetupAgrees, CallbacksSucceed, On
<1>3. QED
  BY <1>1, <1>2, StepSetup, StepIterate, StepFinalize, StepEnvironment DEF Next, MainThread

\* Who has which descriptor is known at every place of the set-up, the loop and
\* the tear-down, and where a callback has failed it is still known that a session
\* never has the number of the listener or of the poller (tcp_server.c:34-116,
\* server.c:18-26, 51-54, 81-171).
THEOREM InvHolds == Spec => []Inv
  BY InitInv, WaitingHolds, StepInv, PTL DEF Spec

\* Whatever fails, callbacks included, a server that was not created or was
\* destroyed leaves no descriptor open (tcp_server.c:34-44, 69-86, 171-188; server.c:167-177).
THEOREM EverythingIsClosed == Spec => []NothingIsLeftOpen
<1>1. Inv => NothingIsLeftOpen
  BY DEF Inv, Types, DescriptorsAgree, HasNothing, SetupAgrees, NothingIsLeftOpen
<1>2. QED
  BY <1>1, InvHolds, PTL

\* Unless a callback fails, a descriptor that another thread may have is closed only
\* where no address could be bound and, on Windows, in poller_destroy
\* (tcp_server.c:79, 89; server.c:175; win32/poller.c:35).
THEOREM ClosesNothingElse == Spec => ClosesItsOwn
<1> DEFINE Own == \A f \in Fds : CallbacksSucceed /\ fdt[f] = "other" /\ fdt'[f] # "other" =>
                     \/ OtherCloses(f)
                     \/ mpc = "unbound"
                     \/ mpc = "destroy" /\ On("win32")
<1>1. Inv /\ [Next]_vars => [Own]_vars
  <2> SUFFICES ASSUME Inv, Next, CallbacksSucceed, NEW f \in Fds, fdt[f] = "other", fdt'[f] # "other",
                      mpc # "unbound", ~(mpc = "destroy" /\ On("win32"))
               PROVE  OtherCloses(f)
    OBVIOUS
  <2> USE NotADescriptor, Names DEF Inv, Types, DescriptorsAgree, HasListener, SessionsAgree
  <2>1. ASSUME NEW g, Close(g), g \in Fds => fdt[g] # "other" PROVE FALSE
    BY <2>1, CloseFrees
  <2>2. CASE Setup
    <3>1. CASE Fatal
      <4>1. mpc \in {"getaddrinfo", "bind", "listen"}
        BY <2>2, <3>1
           DEF Setup, Initialize, GetAddrInfo, OpenSocket, SocketFails, Bind, FreeAddrInfo,
               FailedToBind, Listen, CreatePoller, OpenPoller, FreeServer, Fatal
      <4>2. QED
        BY <2>1, <3>1, <4>1 DEF Fatal
    <3>2. CASE ~Fatal
      BY <2>1, <2>2, <3>2
         DEF Setup, Initialize, GetAddrInfo, OpenSocket, SocketFails, Bind, FreeAddrInfo,
             FailedToBind, Listen, CreatePoller, OpenPoller, FreeServer, NewFds
    <3>3. QED
      BY <3>1, <3>2
  <2>3. CASE PollerWait \/ HandleNewConnection \/ AcceptFails \/ HandleNewData
    BY <2>3 DEF PollerWait, HandleNewConnection, AcceptFails, HandleNewData, NewFds
  <2>4. CASE HandleDisconnect \/ FinalizeConnection
    <3>1. mpc \in {"poll", "dispatch"}
      BY <2>4 DEF HandleDisconnect, FinalizeConnection, Dispatch
    <3>2. \A g \in session_hash : ~Close(g)
      BY <2>1, <3>1
    <3>3. QED
      BY <2>4, <3>2 DEF HandleDisconnect, FinalizeConnection, ReleaseConnection
  <2>5. CASE CloseListener
    BY <2>1, <2>5 DEF CloseListener
  <2>6. CASE PollerDestroy
    BY <2>1, <2>6 DEF PollerDestroy, ClosePoller
  <2>7. CASE Environment
    <3>1. ASSUME NEW g \in Fds, OtherCloses(g) PROVE g = f
      BY <3>1 DEF OtherCloses, Close, Closed
    <3>2. CASE OtherOpens
      BY <3>2 DEF OtherOpens, NewFds
    <3>3. QED
      BY <2>7, <3>1, <3>2
         DEF Environment, Connect, Abort, ClientSends, ClientCloses, WorkerReceives, CallbackFails,
             CallbacksSucceed, OtherGets, Terminate, Kernel
  <2>8. CASE UNCHANGED vars
    BY <2>8 DEF vars
  <2>9. QED
    BY <2>2, <2>3, <2>4, <2>5, <2>6, <2>7, <2>8 DEF Next, MainThread, Iterate
<1>2. QED
  BY <1>1, InvHolds, PTL DEF Spec, ClosesItsOwn

-----------------------------------------------------------------------------
(* Recursive functions on 0 .. L *)

\* A set that holds zero and with every number the next holds them all.
LEMMA Induction ==
  ASSUME NEW S, 0 \in S, \A n \in S : n + 1 \in S
  PROVE  Nat \subseteq S
<1> SUFFICES ASSUME Nat \ S # {} PROVE FALSE
  OBVIOUS
<1>1. PICK x \in Nat \ S : \A y \in Nat \ S : ~(<<y, x>> \in OpToRel(<, Nat))
  BY NatLessThanWellFounded, WFMin
<1>2. \A y \in Nat : y < x => <<y, x>> \in OpToRel(<, Nat)
  BY DEF OpToRel
<1>3. \A y \in Nat : y < x => y \in S
  BY <1>1, <1>2
<1>4. x # 0 /\ x - 1 \in Nat /\ x - 1 < x /\ (x - 1) + 1 = x
  OBVIOUS
<1>5. QED
  BY <1>3, <1>4

\* What a function may do with its value before, for every argument.
Steps(L, V) == [1 .. L -> [V -> V]]

Solves(g, L, V, base, step) ==
  /\ g \in [0 .. L -> V]
  /\ g[0] = base
  /\ \A n \in 1 .. L : g[n] = step[n][g[n - 1]]

\* A recursive function on 0 .. L has a solution.
LEMMA Recursion ==
  ASSUME NEW L \in Nat, NEW V, NEW base \in V, NEW step \in Steps(L, V)
  PROVE  \E g : Solves(g, L, V, base, step)
<1> USE DEF Steps, Solves
<1> DEFINE All == {m \in Nat : m <= L => \E g : Solves(g, m, V, base, step)}
<1>1. 0 \in All
  <2>1. Solves([n \in 0 .. 0 |-> base], 0, V, base, step)
    OBVIOUS
  <2>2. QED
    BY <2>1
<1>2. ASSUME NEW m \in All PROVE m + 1 \in All
  <2> SUFFICES ASSUME m + 1 <= L PROVE \E h : Solves(h, m + 1, V, base, step)
    OBVIOUS
  <2>1. PICK g : Solves(g, m, V, base, step)
    OBVIOUS
  <2> DEFINE h == [n \in 0 .. m + 1 |-> IF n = m + 1 THEN step[m + 1][g[m]] ELSE g[n]]
  <2>2. step[m + 1] \in [V -> V] /\ g[m] \in V
    BY <2>1
  <2>3. h \in [0 .. m + 1 -> V]
    BY <2>1, <2>2
  <2>4. h[m + 1] = step[m + 1][g[m]] /\ \A n \in 0 .. m : h[n] = g[n]
    OBVIOUS
  <2>9. m \in Nat
    OBVIOUS
  <2> HIDE DEF h, All
  <2>5. h[0] = base
    BY <2>1, <2>4, <2>9
  <2>6. ASSUME NEW n \in 1 .. m + 1 PROVE h[n] = step[n][h[n - 1]]
    <3>1. n - 1 \in 0 .. m /\ h[n - 1] = g[n - 1]
      BY <2>4, <2>9
    <3>2. CASE n = m + 1
      BY <2>4, <2>9, <3>1, <3>2
    <3>3. CASE n # m + 1
      BY <2>1, <2>4, <2>9, <3>1, <3>3
    <3>4. QED
      BY <3>2, <3>3
  <2>7. QED
    BY <2>3, <2>5, <2>6
<1>3. L \in All
  <2> HIDE DEF All
  <2>1. QED
    BY <1>1, <1>2, Induction
<1>4. QED
  BY <1>3

-----------------------------------------------------------------------------
(* The elements that stay in a queue: Among *)

\* What Among selects, from one element to the next.
LEMMA AmongRecursion ==
  ASSUME NEW X, NEW s \in Seq(X), NEW S
  PROVE  \E kept :
           /\ Among(s, S) = kept[Len(s)]
           /\ kept[0] = <<>>
           /\ \A n \in 1 .. Len(s) :
                kept[n] = IF s[n] \in S THEN Append(kept[n - 1], s[n]) ELSE kept[n - 1]
<1> DEFINE L == Len(s)
           After(n, t) == IF s[n] \in S THEN Append(t, s[n]) ELSE t
           F(g) == [n \in 0 .. L |-> IF n = 0 THEN <<>>
                                     ELSE IF s[n] \in S THEN Append(g[n - 1], s[n]) ELSE g[n - 1]]
           step == [n \in 1 .. L |-> [t \in Seq(X) |-> After(n, t)]]
<1>1. L \in Nat /\ <<>> \in Seq(X) /\ \A n \in 1 .. L : s[n] \in X
  OBVIOUS
<1>2. step \in [1 .. L -> [Seq(X) -> Seq(X)]]
  BY <1>1
<1>3. /\ \A n \in 1 .. L : \A t \in Seq(X) : step[n][t] = After(n, t)
      /\ \A g, n : g[n] = After(n, g[n - 1]) <=>
                    g[n] = IF s[n] \in S THEN Append(g[n - 1], s[n]) ELSE g[n - 1]
  OBVIOUS
<1>4. Among(s, S) = (CHOOSE h : h = F(h))[L]
  BY DEF Among
<1>5. \A g : g = F(g) <=> /\ g = [n \in 0 .. L |-> g[n]] /\ g[0] = <<>>
                          /\ \A n \in 1 .. L : g[n] = After(n, g[n - 1])
  <2> SUFFICES ASSUME NEW g PROVE g = F(g) <=> /\ g = [n \in 0 .. L |-> g[n]] /\ g[0] = <<>>
                          /\ \A n \in 1 .. L : g[n] = After(n, g[n - 1])
    OBVIOUS
  <2>1. ASSUME g = F(g) PROVE /\ g = [n \in 0 .. L |-> g[n]] /\ g[0] = <<>>
                              /\ \A n \in 1 .. L : g[n] = After(n, g[n - 1])
    <3>1. \A n \in 0 .. L : g[n] = IF n = 0 THEN <<>> ELSE After(n, g[n - 1])
      BY <2>1
    <3>2. g = [n \in 0 .. L |-> g[n]]
      BY <2>1
    <3>4. 0 \in 0 .. L /\ \A n \in 1 .. L : n \in 0 .. L /\ n # 0
      BY <1>1
    <3> HIDE DEF L, After, F
    <3>3. QED
      BY <3>1, <3>2, <3>4
  <2>2. ASSUME g = [n \in 0 .. L |-> g[n]], g[0] = <<>>,
               \A n \in 1 .. L : g[n] = After(n, g[n - 1])
        PROVE  g = F(g)
    <3>1. \A n \in 0 .. L : g[n] = IF n = 0 THEN <<>> ELSE After(n, g[n - 1])
      BY <1>1, <2>2
    <3>2. F(g) = [n \in 0 .. L |-> IF n = 0 THEN <<>> ELSE After(n, g[n - 1])]
      OBVIOUS
    <3> HIDE DEF L, After, F
    <3>3. QED
      BY <2>2, <3>1, <3>2
  <2>3. QED
    BY <2>1, <2>2
<1> DEFINE V == Seq(X)
           base == <<>>
<1>0. base \in V /\ L \in Nat /\ step \in Steps(L, V)
  BY <1>1, <1>2 DEF Steps
<1> HIDE DEF L, step, After, F, base, V
<1>6. PICK g : Solves(g, L, V, base, step)
  BY <1>0, Recursion, Zenon
<1>7. \A n \in 1 .. L : n - 1 \in 0 .. L /\ g[n] = After(n, g[n - 1])
  <2>1. \A n \in 1 .. L : n - 1 \in 0 .. L
    BY <1>1
  <2>2. QED
    BY <2>1, <1>3, <1>6 DEF V, Solves
<1>8. g = F(g)
  BY <1>5, <1>6, <1>7 DEF base, Solves
<1> DEFINE kept == CHOOSE h : h = F(h)
<1>9. kept = F(kept)
  BY <1>8
<1> HIDE DEF kept
<1>10. QED
  BY <1>4, <1>5, <1>9 DEF L, After, kept

Selects(t, s, n, S) ==
  /\ Len(t) <= n
  /\ \A j \in 1 .. Len(t) : \E i \in 1 .. n : t[j] = s[i] /\ s[i] \in S
  /\ \A i \in 1 .. n : s[i] \in S => \E j \in 1 .. Len(t) : t[j] = s[i]
  /\ IsInjective(s) => \A j, k \in 1 .. Len(t) : t[j] = t[k] => j = k
  /\ n >= 1 /\ s[1] \in S => Len(t) >= 1 /\ t[1] = s[1]

LEMMA SelectsNext ==
  ASSUME NEW X, NEW s \in Seq(X), NEW S, NEW n \in 0 .. Len(s) - 1,
         NEW t \in Seq(X), Selects(t, s, n, S),
         NEW u, u = IF s[n + 1] \in S THEN Append(t, s[n + 1]) ELSE t
  PROVE  u \in Seq(X) /\ Selects(u, s, n + 1, S)
<1>0. n + 1 \in 1 .. Len(s) /\ s[n + 1] \in X /\ DOMAIN s = 1 .. Len(s)
  OBVIOUS
<1>1. CASE s[n + 1] \notin S
  <2>1. u = t
    BY <1>1
  <2>2. \A i \in 1 .. n + 1 : s[i] \in S => i \in 1 .. n
    BY <1>1
  <2>3. QED
    BY <2>1, <2>2 DEF Selects
<1>2. CASE s[n + 1] \in S
  <2>1. u = Append(t, s[n + 1])
    BY <1>2
  <2>2. /\ u \in Seq(X) /\ Len(u) = Len(t) + 1
        /\ \A j \in 1 .. Len(t) : u[j] = t[j]
        /\ u[Len(t) + 1] = s[n + 1]
    BY <1>0, <2>1, AppendProperties
  <2>3. Len(u) <= n + 1
    BY <2>2 DEF Selects
  <2>4. \A j \in 1 .. Len(u) : \E i \in 1 .. n + 1 : u[j] = s[i] /\ s[i] \in S
    BY <1>2, <2>2 DEF Selects
  <2>5. \A i \in 1 .. n + 1 : s[i] \in S => \E j \in 1 .. Len(u) : u[j] = s[i]
    <3> SUFFICES ASSUME NEW i \in 1 .. n + 1, s[i] \in S
                 PROVE  \E j \in 1 .. Len(u) : u[j] = s[i]
      OBVIOUS
    <3>1. CASE i = n + 1
      BY <2>2, <3>1
    <3>2. CASE i # n + 1
      <4>1. PICK j \in 1 .. Len(t) : t[j] = s[i]
        BY <3>2 DEF Selects
      <4>2. QED
        BY <2>2, <4>1
    <3>3. QED
      BY <3>1, <3>2
  <2>6. IsInjective(s) => \A j, k \in 1 .. Len(u) : u[j] = u[k] => j = k
    <3> SUFFICES ASSUME IsInjective(s)
                 PROVE  \A j, k \in 1 .. Len(u) : u[j] = u[k] => j = k
      OBVIOUS
    <3>1. \A j, k \in 1 .. Len(t) : u[j] = u[k] => j = k
      BY <2>2 DEF Selects
    <3>2. \A j \in 1 .. Len(t) : u[j] # u[Len(t) + 1]
      <4> SUFFICES ASSUME NEW j \in 1 .. Len(t), u[j] = u[Len(t) + 1]
                   PROVE  FALSE
        OBVIOUS
      <4>1. PICK i \in 1 .. n : t[j] = s[i]
        BY DEF Selects
      <4>2. s[i] = s[n + 1]
        BY <2>2, <4>1
      <4>3. i \in DOMAIN s /\ n + 1 \in DOMAIN s /\ i # n + 1
        BY <1>0
      <4>4. QED
        BY <4>2, <4>3 DEF IsInjective
    <3>3. TAKE j, k \in 1 .. Len(u)
    <3>4. HAVE u[j] = u[k]
    <3>5. /\ j \in 1 .. Len(t) \/ j = Len(t) + 1
          /\ k \in 1 .. Len(t) \/ k = Len(t) + 1
      BY <2>2
    <3>6. QED
      BY <3>1, <3>2, <3>4, <3>5
  <2>7. s[1] \in S => Len(u) >= 1 /\ u[1] = s[1]
    <3>1. CASE n = 0
      BY <2>2, <3>1 DEF Selects
    <3>2. CASE n # 0
      BY <2>2, <3>2 DEF Selects
    <3>3. QED
      BY <3>1, <3>2
  <2>8. QED
    BY <2>2, <2>3, <2>4, <2>5, <2>6, <2>7 DEF Selects
<1>3. QED
  BY <1>1, <1>2

LEMMA AmongProperties ==
  ASSUME NEW X, NEW s \in Seq(X), NEW S
  PROVE  /\ Among(s, S) \in Seq(X)
         /\ Len(Among(s, S)) <= Len(s)
         /\ ToSet(Among(s, S)) = ToSet(s) \cap S
         /\ IsInjective(s) => IsInjective(Among(s, S))
         /\ s # <<>> /\ s[1] \in S => Among(s, S) # <<>> /\ Among(s, S)[1] = s[1]
<1>0. Len(s) \in Nat /\ DOMAIN s = 1 .. Len(s)
  OBVIOUS
<1>1. PICK kept :
        /\ Among(s, S) = kept[Len(s)]
        /\ kept[0] = <<>>
        /\ \A n \in 1 .. Len(s) :
             kept[n] = IF s[n] \in S THEN Append(kept[n - 1], s[n]) ELSE kept[n - 1]
  BY AmongRecursion
<1> DEFINE All == {n \in Nat : n <= Len(s) => kept[n] \in Seq(X) /\ Selects(kept[n], s, n, S)}
<1>2. 0 \in All
  <2>1. kept[0] = <<>>
    BY <1>0, <1>1
  <2>2. Selects(<<>>, s, 0, S)
    BY DEF Selects
  <2>3. <<>> \in Seq(X) /\ 0 \in Nat
    BY EmptySeq
  <2>4. QED
    BY <2>1, <2>2, <2>3
<1>3. ASSUME NEW n \in All PROVE n + 1 \in All
  <2> SUFFICES ASSUME n + 1 <= Len(s)
               PROVE  kept[n + 1] \in Seq(X) /\ Selects(kept[n + 1], s, n + 1, S)
    OBVIOUS
  <2>1. kept[n + 1] = IF s[n + 1] \in S THEN Append(kept[n], s[n + 1]) ELSE kept[n]
    <3>1. n + 1 \in 1 .. Len(s) /\ n + 1 # 0 /\ (n + 1) - 1 = n
      BY <1>0
    <3> HIDE DEF All
    <3>2. QED
      BY <1>1, <3>1
  <2>2. n \in 0 .. Len(s) - 1 /\ kept[n] \in Seq(X) /\ Selects(kept[n], s, n, S)
    BY <1>0
  <2>3. QED
    BY <2>1, <2>2, SelectsNext
<1>4. kept[Len(s)] \in Seq(X) /\ Selects(kept[Len(s)], s, Len(s), S)
  <2> HIDE DEF All
  <2>1. Len(s) \in All
    BY <1>0, <1>2, <1>3, Induction
  <2>2. QED
    BY <2>1 DEF All
<1> DEFINE t == Among(s, S)
<1>5. t \in Seq(X) /\ Selects(t, s, Len(s), S) /\ DOMAIN t = 1 .. Len(t)
  BY <1>1, <1>4
<1> HIDE DEF t
<1>6. ToSet(t) = ToSet(s) \cap S
  <2>1. \A j \in 1 .. Len(t) : \E i \in 1 .. Len(s) : t[j] = s[i] /\ s[i] \in S
    BY <1>5 DEF Selects
  <2>2. \A i \in 1 .. Len(s) : s[i] \in S => \E j \in 1 .. Len(t) : t[j] = s[i]
    BY <1>5 DEF Selects
  <2>3. ToSet(t) = {t[j] : j \in 1 .. Len(t)} /\ ToSet(s) = {s[i] : i \in 1 .. Len(s)}
    BY <1>0, <1>5 DEF ToSet
  <2>4. QED
    BY <2>1, <2>2, <2>3
<1>7. IsInjective(s) => IsInjective(t)
  BY <1>5 DEF Selects, IsInjective
<1>8. s # <<>> /\ s[1] \in S => t # <<>> /\ t[1] = s[1]
  BY <1>0, <1>5 DEF Selects
<1>9. QED
  BY <1>5, <1>6, <1>7, <1>8 DEF t, Selects

-----------------------------------------------------------------------------
(* What poller_wait reports: poller.c of every platform *)

EventTypes == {"PT_NEW_CONNECTION", "PT_NEW_DATA", "PT_DISCONNECTED"}
Events == [type : EventTypes, fd : Fds]

\* One event or none.
LEMMA WhenProperties ==
  ASSUME NEW p, NEW e \in Events
  PROVE  /\ When(p, e) \in Seq(Events) /\ Len(When(p, e)) <= 1
         /\ \A j \in 1 .. Len(When(p, e)) : When(p, e)[j] = e
         /\ ~p => Len(When(p, e)) = 0
<1>1. CASE p
  <2>1. When(p, e) = <<e>>
    BY <1>1 DEF When
  <2>2. /\ When(p, e) \in Seq(Events) /\ Len(When(p, e)) <= 1
        /\ \A j \in 1 .. Len(When(p, e)) : When(p, e)[j] = e
    BY <2>1
  <2>3. QED
    BY <1>1, <2>2, Zenon
<1>2. CASE ~p
  <2>1. When(p, e) = <<>>
    BY <1>2 DEF When
  <2>2. QED
    BY <2>1, EmptySeq
<1>3. QED
  BY <1>1, <1>2

\* What is reported of a descriptor is about it, and one thing unless it is a
\* connection on Windows.
LEMMA NewsProperties ==
  ASSUME NEW f \in Fds
  PROVE  /\ News(f) \in Seq(Events)
         /\ Len(News(f)) <= IF On("win32") /\ f # fs_socket THEN 2 ELSE 1
         /\ \A j \in 1 .. Len(News(f)) :
              /\ News(f)[j].fd = f
              /\ News(f)[j].type = "PT_NEW_CONNECTION" <=> f = fs_socket
              /\ News(f)[j].type = "PT_DISCONNECTED" => f \in hungup
<1> DEFINE gone == When(f \in hungup, Event("PT_DISCONNECTED", f))
           data == When(f \in readable, Event("PT_NEW_DATA", f))
           conn == When(f \in readable, Event("PT_NEW_CONNECTION", f))
<1>0. ASSUME NEW type \in EventTypes
      PROVE  Event(type, f) \in Events /\ Event(type, f).fd = f /\ Event(type, f).type = type
  BY DEF Event, Events
<1>1. /\ gone \in Seq(Events) /\ Len(gone) <= 1
      /\ \A j \in 1 .. Len(gone) : gone[j].fd = f /\ gone[j].type = "PT_DISCONNECTED"
      /\ f \notin hungup => Len(gone) = 0
  BY <1>0, WhenProperties DEF EventTypes
<1>2. /\ data \in Seq(Events) /\ Len(data) <= 1
      /\ \A j \in 1 .. Len(data) : data[j].fd = f /\ data[j].type = "PT_NEW_DATA"
  BY <1>0, WhenProperties DEF EventTypes
<1>3. /\ conn \in Seq(Events) /\ Len(conn) <= 1
      /\ \A j \in 1 .. Len(conn) : conn[j].fd = f /\ conn[j].type = "PT_NEW_CONNECTION"
  BY <1>0, WhenProperties DEF EventTypes
<1>4. News(f) = IF f = fs_socket THEN conn
                ELSE IF On("win32") THEN gone \o data
                ELSE IF f \in hungup THEN gone ELSE data
  BY DEF News
<1> HIDE DEF gone, data, conn
<1>5. /\ gone \o data \in Seq(Events)
      /\ Len(gone \o data) = Len(gone) + Len(data)
      /\ \A i \in 1 .. Len(gone) + Len(data) :
            (gone \o data)[i] = IF i <= Len(gone) THEN gone[i] ELSE data[i - Len(gone)]
  BY <1>1, <1>2, ConcatProperties
<1>6. CASE f = fs_socket
  BY <1>3, <1>4, <1>6
<1>7. CASE f # fs_socket /\ ~On("win32")
  BY <1>1, <1>2, <1>4, <1>7
<1>8. CASE f # fs_socket /\ On("win32")
  <2> DEFINE both == gone \o data
  <2>1. News(f) = both
    BY <1>4, <1>8
  <2>2. both \in Seq(Events) /\ Len(both) <= 2
    BY <1>1, <1>2, <1>5
  <2>3. ASSUME NEW j \in 1 .. Len(both)
        PROVE  /\ both[j].fd = f
               /\ both[j].type # "PT_NEW_CONNECTION"
               /\ both[j].type = "PT_DISCONNECTED" => f \in hungup
    <3>1. CASE j <= Len(gone)
      BY <1>1, <1>2, <1>5, <3>1
    <3>2. CASE ~(j <= Len(gone))
      <4>1. j - Len(gone) \in 1 .. Len(data)
        BY <1>1, <1>2, <1>5, <3>2
      <4>2. QED
        BY <1>1, <1>2, <1>5, <3>2, <4>1
    <3>3. QED
      BY <3>1, <3>2
  <2> HIDE DEF both
  <2>4. QED
    BY <1>8, <2>1, <2>2, <2>3
<1>9. QED
  BY <1>6, <1>7, <1>8

\* The loop of WSAPoll's poller_wait, from one descriptor to the next.
LEMMA ScanRecursion ==
  ASSUME poll_fds \in Seq(Fds)
  PROVE  \E out :
           /\ Scan = out[Len(poll_fds)]
           /\ out[0] = <<>>
           /\ \A n \in 1 .. Len(poll_fds) :
                out[n] = IF Len(out[n - 1]) < config.evt_sz THEN out[n - 1] \o News(poll_fds[n])
                         ELSE out[n - 1]
<1> DEFINE L == Len(poll_fds)
           After(n, t) == IF Len(t) < config.evt_sz THEN t \o News(poll_fds[n]) ELSE t
           F(g) == [n \in 0 .. L |-> IF n = 0 THEN <<>> ELSE After(n, g[n - 1])]
           step == [n \in 1 .. L |-> [t \in Seq(Events) |-> After(n, t)]]
<1>1. L \in Nat /\ <<>> \in Seq(Events) /\ \A n \in 1 .. L : poll_fds[n] \in Fds
  OBVIOUS
<1>2. step \in [1 .. L -> [Seq(Events) -> Seq(Events)]]
  <2>1. \A n \in 1 .. L : News(poll_fds[n]) \in Seq(Events)
    BY <1>1, NewsProperties
  <2>2. ASSUME NEW n \in 1 .. L, NEW t \in Seq(Events) PROVE After(n, t) \in Seq(Events)
    BY <2>1, ConcatProperties
  <2> HIDE DEF After
  <2>3. QED
    BY <2>2
<1>3. \A n \in 1 .. L : \A t \in Seq(Events) : step[n][t] = After(n, t)
  OBVIOUS
<1>4. Scan = (CHOOSE h : h = F(h))[L]
  BY DEF Scan
<1>5. \A g : g = F(g) <=> /\ g = [n \in 0 .. L |-> g[n]] /\ g[0] = <<>>
                          /\ \A n \in 1 .. L : g[n] = After(n, g[n - 1])
  <2> HIDE DEF After
  <2> SUFFICES ASSUME NEW g PROVE g = F(g) <=> /\ g = [n \in 0 .. L |-> g[n]] /\ g[0] = <<>>
                          /\ \A n \in 1 .. L : g[n] = After(n, g[n - 1])
    OBVIOUS
  <2>1. ASSUME g = F(g) PROVE /\ g = [n \in 0 .. L |-> g[n]] /\ g[0] = <<>>
                              /\ \A n \in 1 .. L : g[n] = After(n, g[n - 1])
    <3>1. \A n \in 0 .. L : g[n] = IF n = 0 THEN <<>> ELSE After(n, g[n - 1])
      BY <2>1
    <3>2. g = [n \in 0 .. L |-> g[n]]
      BY <2>1
    <3>3. 0 \in 0 .. L /\ \A n \in 1 .. L : n \in 0 .. L /\ n # 0
      BY <1>1
    <3> HIDE DEF L, F
    <3>4. QED
      BY <3>1, <3>2, <3>3
  <2>2. ASSUME g = [n \in 0 .. L |-> g[n]], g[0] = <<>>,
               \A n \in 1 .. L : g[n] = After(n, g[n - 1])
        PROVE  g = F(g)
    <3>1. \A n \in 0 .. L : g[n] = IF n = 0 THEN <<>> ELSE After(n, g[n - 1])
      BY <1>1, <2>2
    <3>2. F(g) = [n \in 0 .. L |-> IF n = 0 THEN <<>> ELSE After(n, g[n - 1])]
      OBVIOUS
    <3> HIDE DEF L, F
    <3>3. QED
      BY <2>2, <3>1, <3>2
  <2>3. QED
    BY <2>1, <2>2
<1> DEFINE V == Seq(Events)
           base == <<>>
<1>6. base \in V /\ L \in Nat /\ step \in Steps(L, V)
  BY <1>1, <1>2 DEF Steps
<1> HIDE DEF L, step, After, F, base, V
<1>7. PICK g : Solves(g, L, V, base, step)
  BY <1>6, Recursion, Zenon
<1>8. \A n \in 1 .. L : g[n] = After(n, g[n - 1])
  <2>1. \A n \in 1 .. L : n - 1 \in 0 .. L
    BY <1>1
  <2>2. QED
    BY <2>1, <1>3, <1>7 DEF V, Solves
<1>9. g = F(g)
  BY <1>5, <1>7, <1>8 DEF base, Solves
<1> DEFINE out == CHOOSE h : h = F(h)
<1>10. out = F(out)
  BY <1>9
<1> HIDE DEF out
<1>11. QED
  BY <1>4, <1>5, <1>10 DEF L, After, out

\* The events of a batch of n descriptors: each is about one of them, and the
\* listener, which comes first, is reported first or not at all.
Reports(t, n) ==
  /\ Len(t) <= config.evt_sz + 1
  /\ \A j \in 1 .. Len(t) :
       /\ \E i \in 1 .. n : t[j].fd = poll_fds[i]
       /\ t[j].type = "PT_NEW_CONNECTION" <=> t[j].fd = fs_socket
       /\ t[j].fd = fs_socket => j = 1
       /\ t[j].type = "PT_DISCONNECTED" => t[j].fd \in hungup
  /\ n = 0 => Len(t) = 0

\* The loop goes on to the next of the descriptors.
LEMMA ReportsNext ==
  ASSUME poll_fds \in Seq(Fds), IsInjective(poll_fds), poll_fds[1] = fs_socket,
         config.evt_sz \in Nat \ {0},
         NEW n \in 0 .. Len(poll_fds) - 1,
         NEW t \in Seq(Events), Reports(t, n),
         NEW u, u = IF Len(t) < config.evt_sz THEN t \o News(poll_fds[n + 1]) ELSE t
  PROVE  u \in Seq(Events) /\ Reports(u, n + 1)
<1> DEFINE f == poll_fds[n + 1]
           k == News(f)
<1>1. f \in Fds /\ n + 1 \in 1 .. Len(poll_fds) /\ DOMAIN poll_fds = 1 .. Len(poll_fds)
  OBVIOUS
<1>2. /\ k \in Seq(Events) /\ Len(k) <= 2 /\ (f = fs_socket => Len(k) <= 1)
      /\ \A j \in 1 .. Len(k) :
           /\ k[j].fd = f
           /\ k[j].type = "PT_NEW_CONNECTION" <=> f = fs_socket
           /\ k[j].type = "PT_DISCONNECTED" => f \in hungup
  BY <1>1, NewsProperties
<1>3. f = fs_socket => n = 0
  BY <1>1 DEF IsInjective
<1> HIDE DEF k
<1>4. CASE ~(Len(t) < config.evt_sz)
  <2>1. u = t
    BY <1>4
  <2>2. \A i \in 1 .. n : i \in 1 .. n + 1
    OBVIOUS
  <2>3. n # 0 /\ n + 1 # 0
    BY <1>4 DEF Reports
  <2>4. QED
    BY <2>1, <2>2, <2>3 DEF Reports
<1>5. CASE Len(t) < config.evt_sz
  <2>1. u = t \o k
    BY <1>5 DEF k
  <2>2. /\ u \in Seq(Events) /\ Len(u) = Len(t) + Len(k)
        /\ \A i \in 1 .. Len(t) + Len(k) : u[i] = IF i <= Len(t) THEN t[i] ELSE k[i - Len(t)]
    <3>1. /\ t \o k \in Seq(Events) /\ Len(t \o k) = Len(t) + Len(k)
          /\ \A i \in 1 .. Len(t) + Len(k) :
               (t \o k)[i] = IF i <= Len(t) THEN t[i] ELSE k[i - Len(t)]
      BY <1>2, ConcatProperties
    <3>2. QED
      BY <2>1, <3>1
  <2>3. Len(u) <= config.evt_sz + 1
    BY <1>2, <1>5, <2>2
  <2>4. ASSUME NEW j \in 1 .. Len(u)
        PROVE  /\ \E i \in 1 .. n + 1 : u[j].fd = poll_fds[i]
               /\ u[j].type = "PT_NEW_CONNECTION" <=> u[j].fd = fs_socket
               /\ u[j].fd = fs_socket => j = 1
               /\ u[j].type = "PT_DISCONNECTED" => u[j].fd \in hungup
    <3>1. CASE j <= Len(t)
      <4>1. j \in 1 .. Len(t) /\ u[j] = t[j]
        BY <2>2, <3>1
      <4>2. QED
        BY <4>1 DEF Reports
    <3>2. CASE ~(j <= Len(t))
      <4>1. j - Len(t) \in 1 .. Len(k) /\ u[j] = k[j - Len(t)]
        BY <1>2, <2>2, <3>2
      <4>2. /\ u[j].fd = f
            /\ u[j].type = "PT_NEW_CONNECTION" <=> f = fs_socket
            /\ u[j].type = "PT_DISCONNECTED" => f \in hungup
        BY <1>2, <4>1
      <4>3. n + 1 \in 1 .. n + 1
        OBVIOUS
      <4>4. f = fs_socket => j = 1
        <5>1. f = fs_socket => Len(t) = 0 /\ Len(k) <= 1
          BY <1>2, <1>3 DEF Reports
        <5>2. QED
          BY <2>2, <5>1
      <4>5. QED
        BY <4>2, <4>3, <4>4
    <3>3. QED
      BY <3>1, <3>2
  <2>5. QED
    BY <2>2, <2>3, <2>4 DEF Reports
<1>6. QED
  BY <1>4, <1>5

\* What WSAPoll's poller_wait reports altogether.
LEMMA ScanProperties ==
  ASSUME poll_fds \in Seq(Fds), IsInjective(poll_fds), poll_fds[1] = fs_socket,
         config.evt_sz \in Nat \ {0}
  PROVE  /\ Scan \in Seq(Events)
         /\ Len(Scan) <= config.evt_sz + 1
         /\ \A j \in 1 .. Len(Scan) :
              /\ Scan[j].fd \in Registered
              /\ Scan[j].type = "PT_NEW_CONNECTION" <=> Scan[j].fd = fs_socket
              /\ Scan[j].fd = fs_socket => j = 1
              /\ Scan[j].type = "PT_DISCONNECTED" => Scan[j].fd \in hungup
<1>0. Len(poll_fds) \in Nat /\ DOMAIN poll_fds = 1 .. Len(poll_fds)
  OBVIOUS
<1>1. PICK out :
        /\ Scan = out[Len(poll_fds)]
        /\ out[0] = <<>>
        /\ \A n \in 1 .. Len(poll_fds) :
             out[n] = IF Len(out[n - 1]) < config.evt_sz THEN out[n - 1] \o News(poll_fds[n])
                      ELSE out[n - 1]
  BY ScanRecursion
<1> DEFINE All == {n \in Nat : n <= Len(poll_fds) => out[n] \in Seq(Events) /\ Reports(out[n], n)}
<1>2. 0 \in All
  <2>1. Reports(<<>>, 0)
    BY DEF Reports
  <2>2. QED
    BY <1>1, <2>1, EmptySeq
<1>3. ASSUME NEW n \in All PROVE n + 1 \in All
  <2> SUFFICES ASSUME n + 1 <= Len(poll_fds)
               PROVE  out[n + 1] \in Seq(Events) /\ Reports(out[n + 1], n + 1)
    OBVIOUS
  <2>1. n + 1 \in 1 .. Len(poll_fds) /\ (n + 1) - 1 = n /\ n \in 0 .. Len(poll_fds) - 1
    BY <1>0
  <2>2. out[n] \in Seq(Events) /\ Reports(out[n], n)
    BY <1>0
  <2> HIDE DEF All
  <2>3. out[n + 1] = IF Len(out[n]) < config.evt_sz THEN out[n] \o News(poll_fds[n + 1]) ELSE out[n]
    BY <1>1, <2>1
  <2>4. QED
    BY <2>1, <2>2, <2>3, ReportsNext
<1>4. out[Len(poll_fds)] \in Seq(Events) /\ Reports(out[Len(poll_fds)], Len(poll_fds))
  <2> HIDE DEF All
  <2>1. Len(poll_fds) \in All
    BY <1>0, <1>2, <1>3, Induction
  <2>2. QED
    BY <2>1 DEF All
<1>5. Scan \in Seq(Events) /\ Reports(Scan, Len(poll_fds))
  BY <1>1, <1>4
<1>6. \A i \in 1 .. Len(poll_fds) : poll_fds[i] \in Registered
  BY <1>0 DEF Registered, ToSet
<1>7. QED
  BY <1>5, <1>6 DEF Reports

\* The first elements of a sequence.
LEMMA FittingProperties ==
  ASSUME NEW s \in Seq(Fds), config.evt_sz \in Nat
  PROVE  /\ Fitting(s) \in Seq(Fds) /\ (IsInjective(s) => IsInjective(Fitting(s)))
         /\ Len(Fitting(s)) <= config.evt_sz /\ Len(Fitting(s)) <= Len(s)
         /\ \A i \in 1 .. Len(Fitting(s)) : Fitting(s)[i] = s[i]
<1>0. Len(s) \in Nat /\ DOMAIN s = 1 .. Len(s) /\ \A i \in 1 .. Len(s) : s[i] \in Fds
  OBVIOUS
<1> DEFINE t == SubSeq(s, 1, config.evt_sz)
<1>1. CASE Len(s) <= config.evt_sz
  BY <1>0, <1>1 DEF Fitting
<1>2. CASE ~(Len(s) <= config.evt_sz)
  <2>1. Fitting(s) = t
    BY <1>2 DEF Fitting
  <2>2. /\ t \in Seq(Fds) /\ Len(t) = config.evt_sz
        /\ \A i \in 1 .. config.evt_sz : t[i] = s[i]
    <3>1. \A i \in 1 .. config.evt_sz : s[i] \in Fds
      BY <1>0, <1>2
    <3>2. 1 \in Int /\ config.evt_sz \in Int
      OBVIOUS
    <3>3. /\ t \in Seq(Fds) /\ Len(t) = IF 1 <= config.evt_sz THEN config.evt_sz - 1 + 1 ELSE 0
          /\ \A i \in 1 .. config.evt_sz - 1 + 1 : t[i] = s[1 + i - 1]
      BY <3>1, <3>2, SubSeqProperties
    <3>4. config.evt_sz - 1 + 1 = config.evt_sz /\ \A i \in 1 .. config.evt_sz : 1 + i - 1 = i
      OBVIOUS
    <3>5. QED
      BY <3>3, <3>4
  <2> HIDE DEF t
  <2>3. IsInjective(s) => IsInjective(t)
    BY <1>0, <1>2, <2>2 DEF IsInjective
  <2>4. QED
    BY <1>2, <1>0, <2>1, <2>2, <2>3
<1>3. QED
  BY <1>1, <1>2

\* What is registered with the poller, as far as poller_wait needs it.
Wellformed ==
  /\ poll_fds \in Seq(Fds) /\ IsInjective(poll_fds)
  /\ poll_fds # <<>> /\ poll_fds[1] = fs_socket
  /\ queue \in Seq(Fds) /\ IsInjective(queue)
  /\ ToSet(queue) \subseteq Registered

\* What is ready in the queue of the kernel.
LEMMA LiveProperties ==
  ASSUME Wellformed
  PROVE  /\ Live \in Seq(Fds) /\ IsInjective(Live)
         /\ \A i \in 1 .. Len(Live) : Live[i] \in ToSet(queue) /\ HasNews(Live[i])
<1> DEFINE S == {f \in ToSet(queue) : HasNews(f)}
<1>1. Live = Among(queue, S)
  BY DEF Live
<1> HIDE DEF S
<1>2. Live \in Seq(Fds) /\ IsInjective(Live) /\ ToSet(Live) = ToSet(queue) \cap S
  BY <1>1, AmongProperties DEF Wellformed
<1>3. \A i \in 1 .. Len(Live) : Live[i] \in ToSet(Live)
  BY <1>2 DEF ToSet
<1>4. QED
  BY <1>2, <1>3 DEF S

\* The queue after poller_wait.
LEMMA RestProperties ==
  ASSUME Wellformed, config.evt_sz \in Nat
  PROVE  Rest \in Seq(Fds) /\ IsInjective(Rest) /\ ToSet(Rest) \subseteq ToSet(queue)
<1> DEFINE taken == Fitting(Live)
           S == {f \in ToSet(taken) : On("bsd") \/ f = fs_socket}
           late == SubSeq(Live, Len(taken) + 1, Len(Live))
           again == Among(taken, S)
<1>1. Rest = late \o again
  BY DEF Rest
<1>2. /\ Live \in Seq(Fds) /\ IsInjective(Live)
      /\ Len(Live) \in Nat /\ DOMAIN Live = 1 .. Len(Live)
      /\ \A i \in 1 .. Len(Live) : Live[i] \in ToSet(queue) /\ Live[i] \in Fds
  BY LiveProperties
<1>3. /\ taken \in Seq(Fds) /\ IsInjective(taken) /\ Len(taken) \in Nat /\ Len(taken) <= Len(Live)
      /\ \A i \in 1 .. Len(taken) : taken[i] = Live[i]
      /\ DOMAIN taken = 1 .. Len(taken)
  BY <1>2, FittingProperties
<1> HIDE DEF taken, S
<1>4. again \in Seq(Fds) /\ IsInjective(again) /\ ToSet(again) \subseteq ToSet(taken)
  BY <1>3, AmongProperties
<1>5. \A i \in 1 .. Len(again) : \E k \in 1 .. Len(taken) : again[i] = Live[k]
  <2> HIDE DEF again
  <2>1. \A i \in 1 .. Len(again) : again[i] \in ToSet(taken)
    BY <1>4 DEF ToSet
  <2>2. QED
    BY <2>1, <1>3 DEF ToSet
<1>6. /\ late \in Seq(Fds) /\ Len(late) = Len(Live) - Len(taken)
      /\ \A i \in 1 .. Len(late) : late[i] = Live[Len(taken) + i]
  <2>1. \A i \in Len(taken) + 1 .. Len(Live) : Live[i] \in Fds
    BY <1>2, <1>3
  <2>2. /\ late \in Seq(Fds)
        /\ Len(late) = IF Len(taken) + 1 <= Len(Live) THEN Len(Live) - (Len(taken) + 1) + 1 ELSE 0
        /\ \A i \in 1 .. Len(Live) - (Len(taken) + 1) + 1 : late[i] = Live[Len(taken) + 1 + i - 1]
    BY <2>1, <1>2, <1>3, SubSeqProperties
  <2> HIDE DEF late
  <2>3. Len(late) = Len(Live) - Len(taken) /\ Len(Live) - (Len(taken) + 1) + 1 = Len(late)
    <3>1. Len(Live) \in Nat /\ Len(taken) \in Nat /\ Len(taken) <= Len(Live)
      BY <1>2, <1>3
    <3>2. Len(late) = IF Len(taken) + 1 <= Len(Live) THEN Len(Live) - (Len(taken) + 1) + 1 ELSE 0
      BY <2>2
    <3>3. CASE Len(taken) + 1 <= Len(Live)
      BY <3>1, <3>2, <3>3
    <3>4. CASE ~(Len(taken) + 1 <= Len(Live))
      BY <3>1, <3>2, <3>4
    <3>5. QED
      BY <3>3, <3>4
  <2>4. \A i \in 1 .. Len(late) : Len(taken) + 1 + i - 1 = Len(taken) + i
    BY <1>3
  <2>5. QED
    BY <2>2, <2>3, <2>4
<1> HIDE DEF late, again
<1>16. Len(late) \in Nat /\ Len(again) \in Nat /\ DOMAIN again = 1 .. Len(again)
  BY <1>4, <1>6
<1>7. /\ Rest \in Seq(Fds) /\ Len(Rest) = Len(late) + Len(again)
      /\ \A i \in 1 .. Len(late) + Len(again) :
           Rest[i] = IF i <= Len(late) THEN late[i] ELSE again[i - Len(late)]
  BY <1>1, <1>4, <1>6, ConcatProperties
<1>8. \A i \in 1 .. Len(Rest) : i <= Len(late) => /\ Len(taken) + i \in 1 .. Len(Live)
                                                 /\ Rest[i] = Live[Len(taken) + i]
  BY <1>2, <1>3, <1>4, <1>6, <1>7
<1>9. ASSUME NEW i \in 1 .. Len(Rest), ~(i <= Len(late))
      PROVE  /\ i - Len(late) \in 1 .. Len(again) /\ Rest[i] = again[i - Len(late)]
             /\ \E k \in 1 .. Len(taken) : k \in 1 .. Len(Live) /\ Rest[i] = Live[k]
  <2>1. i - Len(late) \in 1 .. Len(again) /\ Rest[i] = again[i - Len(late)]
    BY <1>7, <1>9, <1>16
  <2>2. QED
    BY <2>1, <1>5, <1>2, <1>3
<1>10. \A i \in 1 .. Len(Rest) : \E k \in 1 .. Len(Live) : Rest[i] = Live[k]
  BY <1>8, <1>9
<1>11. ASSUME NEW i \in 1 .. Len(Rest), NEW j \in 1 .. Len(Rest), Rest[i] = Rest[j], i < j
       PROVE  FALSE
  <2>1. CASE j <= Len(late)
    <3>1. i <= Len(late)
      BY <2>1, <1>11, <1>16
    <3>2. /\ Len(taken) + i \in 1 .. Len(Live) /\ Rest[i] = Live[Len(taken) + i]
          /\ Len(taken) + j \in 1 .. Len(Live) /\ Rest[j] = Live[Len(taken) + j]
      BY <2>1, <3>1, <1>8
    <3>3. Len(taken) + i = Len(taken) + j
      BY <3>2, <1>2, <1>11 DEF IsInjective
    <3>4. QED
      BY <3>3, <1>3, <1>11
  <2>2. CASE ~(j <= Len(late)) /\ i <= Len(late)
    <3>1. PICK k \in 1 .. Len(taken) : k \in 1 .. Len(Live) /\ Rest[j] = Live[k]
      BY <2>2, <1>9
    <3>2. Len(taken) + i \in 1 .. Len(Live) /\ Rest[i] = Live[Len(taken) + i]
      BY <2>2, <1>8
    <3>3. k = Len(taken) + i
      BY <3>1, <3>2, <1>2, <1>11 DEF IsInjective
    <3>4. QED
      BY <3>1, <3>3, <1>3
  <2>3. CASE ~(i <= Len(late))
    <3>1. ~(j <= Len(late))
      BY <2>3, <1>11, <1>6, <1>2, <1>3
    <3>2. /\ i - Len(late) \in 1 .. Len(again) /\ Rest[i] = again[i - Len(late)]
          /\ j - Len(late) \in 1 .. Len(again) /\ Rest[j] = again[j - Len(late)]
      BY <2>3, <3>1, <1>9
    <3>3. i - Len(late) = j - Len(late)
      BY <3>2, <1>4, <1>11, <1>16 DEF IsInjective
    <3>4. QED
      BY <3>3, <1>11, <1>6, <1>2, <1>3
  <2>4. QED
    BY <2>1, <2>2, <2>3
<1>12. DOMAIN Rest = 1 .. Len(Rest)
  BY <1>7
<1>13. IsInjective(Rest)
  BY <1>11, <1>12 DEF IsInjective
<1>14. ToSet(Rest) \subseteq ToSet(queue)
  BY <1>2, <1>10, <1>12 DEF ToSet
<1>15. QED
  BY <1>7, <1>13, <1>14

\* On epoll and kqueue every descriptor is reported once; on Windows the
\* listener is reported first.
LEMMA BatchProperties ==
  ASSUME Wellformed, config \in Configs
  PROVE  /\ Batch \in Seq(Events)
         /\ Len(Batch) <= config.evt_sz + (IF On("win32") THEN 1 ELSE 0)
         /\ \A j \in 1 .. Len(Batch) :
              /\ Batch[j].fd \in Registered
              /\ Batch[j].type = "PT_NEW_CONNECTION" <=> Batch[j].fd = fs_socket
              /\ On("win32") /\ Batch[j].fd = fs_socket => j = 1
              /\ Batch[j].type = "PT_DISCONNECTED" => Batch[j].fd \in hungup
         /\ ~On("win32") => \A i, j \in 1 .. Len(Batch) : Batch[i].fd = Batch[j].fd => i = j
<1>0. config.evt_sz \in Nat \ {0}
  BY PollerAssumption
<1>1. CASE On("win32")
  <2>1. Batch = Scan
    BY <1>1 DEF Batch
  <2>2. QED
    BY <1>0, <1>1, <2>1, ScanProperties DEF Wellformed
<1>2. CASE ~On("win32")
  <2> DEFINE taken == Fitting(Live)
             first(n) == News(taken[n])[1]
             all == [n \in 1 .. Len(taken) |-> first(n)]
  <2>1. Batch = all
    BY <1>2 DEF Batch, Taken
  <2>2. /\ Live \in Seq(Fds) /\ IsInjective(Live)
        /\ \A i \in 1 .. Len(Live) : Live[i] \in ToSet(queue) /\ HasNews(Live[i])
    BY LiveProperties
  <2>3. /\ taken \in Seq(Fds) /\ IsInjective(taken) /\ Len(taken) \in Nat
        /\ Len(taken) <= config.evt_sz /\ DOMAIN taken = 1 .. Len(taken)
        /\ \A i \in 1 .. Len(taken) : taken[i] \in ToSet(queue) /\ HasNews(taken[i]) /\ taken[i] \in Fds
    <3>1. /\ taken \in Seq(Fds) /\ IsInjective(taken)
          /\ Len(taken) <= config.evt_sz /\ Len(taken) <= Len(Live)
          /\ \A i \in 1 .. Len(taken) : taken[i] = Live[i]
      BY <1>0, <2>2, FittingProperties
    <3> HIDE DEF taken
    <3>2. QED
      BY <2>2, <3>1
  <2> HIDE DEF taken
  <2>4. ASSUME NEW n \in 1 .. Len(taken)
        PROVE  /\ first(n) \in Events /\ first(n).fd = taken[n]
               /\ first(n).type = "PT_NEW_CONNECTION" <=> taken[n] = fs_socket
               /\ first(n).type = "PT_DISCONNECTED" => taken[n] \in hungup
    <3>1. /\ News(taken[n]) \in Seq(Events) /\ News(taken[n]) # <<>>
          /\ \A j \in 1 .. Len(News(taken[n])) :
               /\ News(taken[n])[j].fd = taken[n]
               /\ News(taken[n])[j].type = "PT_NEW_CONNECTION" <=> taken[n] = fs_socket
               /\ News(taken[n])[j].type = "PT_DISCONNECTED" => taken[n] \in hungup
      BY <2>3, NewsProperties DEF HasNews
    <3>2. 1 \in 1 .. Len(News(taken[n])) /\ News(taken[n])[1] \in Events
      BY <3>1
    <3>3. QED
      BY <3>1, <3>2
  <2> HIDE DEF first
  <2>5. all \in Seq(Events) /\ Len(all) = Len(taken) /\ \A n \in 1 .. Len(taken) : all[n] = first(n)
    BY <2>3, <2>4
  <2> HIDE DEF all
  <2>6. \A j \in 1 .. Len(all) : /\ all[j].fd \in Registered
                                 /\ all[j].type = "PT_NEW_CONNECTION" <=> all[j].fd = fs_socket
                                 /\ all[j].type = "PT_DISCONNECTED" => all[j].fd \in hungup
    <3> SUFFICES ASSUME NEW j \in 1 .. Len(all)
                 PROVE  /\ all[j].fd \in Registered
                        /\ all[j].type = "PT_NEW_CONNECTION" <=> all[j].fd = fs_socket
                        /\ all[j].type = "PT_DISCONNECTED" => all[j].fd \in hungup
      OBVIOUS
    <3>1. j \in 1 .. Len(taken) /\ all[j] = first(j)
      BY <2>5
    <3>2. taken[j] \in Registered
      BY <2>3, <3>1 DEF Wellformed
    <3>3. QED
      BY <2>4, <3>1, <3>2
  <2>7. \A i, j \in 1 .. Len(all) : all[i].fd = all[j].fd => i = j
    BY <2>3, <2>4, <2>5 DEF IsInjective
  <2>8. Len(all) <= config.evt_sz + 0
    BY <1>0, <2>3, <2>5
  <2>9. QED
    BY <1>2, <2>1, <2>5, <2>6, <2>7, <2>8
<1>3. QED
  BY <1>1, <1>2

-----------------------------------------------------------------------------
(* What is registered *)

\* One element less.
LEMMA WithoutProperties ==
  ASSUME NEW s \in Seq(Fds), NEW f
  PROVE  /\ Without(s, f) \in Seq(Fds)
         /\ IsInjective(s) =>
              /\ IsInjective(Without(s, f))
              /\ ToSet(Without(s, f)) = ToSet(s) \ {f}
              /\ s # <<>> /\ s[1] # f => Without(s, f) # <<>> /\ Without(s, f)[1] = s[1]
<1>0. Len(s) \in Nat /\ DOMAIN s = 1 .. Len(s) /\ \A n \in 1 .. Len(s) : s[n] \in Fds
  OBVIOUS
<1>1. CASE f \notin ToSet(s)
  BY <1>1 DEF Without
<1>2. CASE f \in ToSet(s)
  <2> DEFINE i == CHOOSE n \in DOMAIN s : s[n] = f /\ \A m \in DOMAIN s : s[m] = f => n <= m
             t == [n \in 1 .. Len(s) - 1 |-> IF n < i THEN s[n] ELSE s[n + 1]]
  <2>1. Without(s, f) = t
    BY <1>2 DEF Without
  <2>2. Len(s) - 1 \in Nat
    BY <1>0, <1>2 DEF ToSet
  <2>3. IsInjective(s) => i \in 1 .. Len(s) /\ s[i] = f
    <3> SUFFICES ASSUME IsInjective(s)
                 PROVE  \E n \in DOMAIN s : s[n] = f /\ \A m \in DOMAIN s : s[m] = f => n <= m
      BY <1>0
    <3>1. PICK n \in DOMAIN s : s[n] = f
      BY <1>2 DEF ToSet
    <3>2. \A m \in DOMAIN s : s[m] = f => m = n
      BY <3>1 DEF IsInjective
    <3>3. QED
      BY <1>0, <3>1, <3>2
  <2> HIDE DEF i
  <2>4. \A n \in 1 .. Len(s) - 1 : s[n] \in Fds /\ s[n + 1] \in Fds
    BY <1>0
  <2>5. t \in Seq(Fds) /\ Len(t) = Len(s) - 1 /\ DOMAIN t = 1 .. Len(s) - 1
    BY <2>2, <2>4
  <2>6. \A n \in 1 .. Len(s) - 1 : t[n] = IF n < i THEN s[n] ELSE s[n + 1]
    OBVIOUS
  <2> HIDE DEF t
  <2>7. ASSUME IsInjective(s)
        PROVE  /\ IsInjective(t) /\ ToSet(t) = ToSet(s) \ {f}
               /\ s[1] # f => t # <<>> /\ t[1] = s[1]
    <3>1. i \in 1 .. Len(s) /\ s[i] = f /\ \A m, n \in 1 .. Len(s) : s[m] = s[n] => m = n
      BY <1>0, <2>3, <2>7 DEF IsInjective
    <3>2. IsInjective(t)
      BY <1>0, <2>5, <2>6, <3>1 DEF IsInjective
    <3>3. ASSUME NEW n \in 1 .. Len(s) - 1 PROVE t[n] \in ToSet(s) \ {f}
      BY <1>0, <2>6, <3>1 DEF ToSet
    <3>4. ASSUME NEW g \in ToSet(s), g # f PROVE \E n \in 1 .. Len(s) - 1 : t[n] = g
      <4>1. PICK m \in 1 .. Len(s) : s[m] = g
        BY <1>0 DEF ToSet
      <4>2. CASE m < i
        BY <1>0, <2>6, <3>1, <4>1, <4>2
      <4>3. CASE m > i
        <5>1. m - 1 \in 1 .. Len(s) - 1 /\ ~(m - 1 < i) /\ (m - 1) + 1 = m
          BY <1>0, <3>1, <4>3
        <5>2. t[m - 1] = s[(m - 1) + 1]
          BY <2>6, <5>1
        <5>3. QED
          BY <4>1, <5>1, <5>2
      <4>4. QED
        BY <1>0, <3>1, <3>4, <4>1, <4>2, <4>3
    <3>5. ToSet(t) = ToSet(s) \ {f}
      BY <2>5, <3>3, <3>4 DEF ToSet
    <3>6. s[1] # f => t # <<>> /\ t[1] = s[1]
      BY <1>0, <2>5, <2>6, <3>1
    <3>7. QED
      BY <3>2, <3>5, <3>6
  <2>8. QED
    BY <2>1, <2>5, <2>7
<1>3. QED
  BY <1>1, <1>2

\* poller_remove_connection.
LEMMA Removes ==
  ASSUME Wellformed, NEW f, f # fs_socket, RemoveConnection(f)
  PROVE  Wellformed' /\ Registered' = Registered \ {f}
<1> DEFINE p == Without(poll_fds, f)
           q == Among(queue, ToSet(queue) \ {f})
<1>1. poll_fds' = p /\ queue' = q /\ fs_socket' = fs_socket
  BY DEF RemoveConnection
<1>2. 1 \in DOMAIN poll_fds /\ poll_fds[1] = fs_socket
  BY DEF Wellformed
<1>3. /\ p \in Seq(Fds) /\ IsInjective(p) /\ ToSet(p) = ToSet(poll_fds) \ {f}
      /\ p # <<>> /\ p[1] = fs_socket
  BY <1>2, WithoutProperties DEF Wellformed
<1>4. q \in Seq(Fds) /\ IsInjective(q) /\ ToSet(q) \subseteq ToSet(queue) \ {f}
  BY AmongProperties DEF Wellformed
<1> HIDE DEF p, q
<1>5. QED
  BY <1>1, <1>3, <1>4 DEF Wellformed, Registered

\* A new element at the end.
LEMMA AppendsOne ==
  ASSUME NEW s \in Seq(Fds), IsInjective(s), NEW f \in Fds, f \notin ToSet(s)
  PROVE  /\ Append(s, f) \in Seq(Fds) /\ IsInjective(Append(s, f))
         /\ ToSet(Append(s, f)) = ToSet(s) \cup {f}
         /\ Append(s, f) # <<>> /\ (s # <<>> => Append(s, f)[1] = s[1])
<1> DEFINE t == Append(s, f)
<1>1. Len(s) \in Nat /\ DOMAIN s = 1 .. Len(s)
  OBVIOUS
<1>2. /\ t \in Seq(Fds) /\ t # <<>> /\ Len(t) = Len(s) + 1
      /\ \A i \in 1 .. Len(s) : t[i] = s[i]
      /\ t[Len(s) + 1] = f
  BY AppendProperties
<1>3. DOMAIN t = 1 .. Len(s) + 1
  BY <1>2
<1> HIDE DEF t
<1>4. \A i \in DOMAIN t : i \in 1 .. Len(s) \/ i = Len(s) + 1
  BY <1>1, <1>3
<1>5. \A i \in 1 .. Len(s) : s[i] \in ToSet(s) /\ s[i] # f
  BY <1>1 DEF ToSet
<1>6. IsInjective(t)
  BY <1>1, <1>2, <1>4, <1>5 DEF IsInjective
<1>7. ToSet(t) = ToSet(s) \cup {f}
  <2>1. \A x \in ToSet(t) : x \in ToSet(s) \cup {f}
    BY <1>2, <1>4, <1>5 DEF ToSet
  <2>2. \A x \in ToSet(s) : x \in ToSet(t)
    <3>1. \A i \in 1 .. Len(s) : i \in DOMAIN t
      BY <1>1, <1>3
    <3>2. QED
      BY <1>1, <1>2, <3>1 DEF ToSet
  <2>3. f \in ToSet(t)
    <3>1. Len(s) + 1 \in DOMAIN t
      BY <1>1, <1>3
    <3>2. QED
      BY <1>2, <3>1 DEF ToSet
  <2>4. QED
    BY <2>1, <2>2, <2>3
<1>8. s # <<>> => t[1] = s[1]
  BY <1>1, <1>2
<1>9. QED
  BY <1>2, <1>6, <1>7, <1>8 DEF t

\* poller_add_connection.
LEMMA Adds ==
  ASSUME Wellformed, NEW f \in Fds, f \notin Registered, NEW news, AddConnection(f, news)
  PROVE  Wellformed' /\ Registered' = Registered \cup {f}
<1>1. /\ poll_fds' = Append(poll_fds, f) /\ fs_socket' = fs_socket
      /\ queue' = queue \/ queue' = Append(queue, f)
  BY DEF AddConnection
<1>2. f \notin ToSet(queue) /\ f \notin ToSet(poll_fds)
  BY DEF Wellformed, Registered
<1>3. /\ poll_fds' \in Seq(Fds) /\ IsInjective(poll_fds') /\ ToSet(poll_fds') = ToSet(poll_fds) \cup {f}
      /\ poll_fds' # <<>> /\ poll_fds'[1] = fs_socket
  BY <1>1, <1>2, AppendsOne DEF Wellformed
<1>4. queue' \in Seq(Fds) /\ IsInjective(queue') /\ ToSet(queue') \subseteq ToSet(queue) \cup {f}
  BY <1>1, <1>2, AppendsOne DEF Wellformed
<1>5. QED
  BY <1>1, <1>3, <1>4 DEF Wellformed, Registered

\* The kernel puts a registered descriptor into its queue.
LEMMA Queues ==
  ASSUME Wellformed, NEW f \in Fds, queue' = Queued(f), UNCHANGED <<fs_socket, poll_fds>>
  PROVE  Wellformed' /\ Registered' = Registered
<1>1. \/ queue' = queue
      \/ f \in Registered /\ f \notin ToSet(queue) /\ queue' = Append(queue, f)
  BY DEF Queued
<1>2. Registered' = Registered
  BY DEF Registered
<1>3. queue \in Seq(Fds) /\ IsInjective(queue) /\ ToSet(queue) \subseteq Registered
  BY DEF Wellformed
<1>4. queue' \in Seq(Fds) /\ IsInjective(queue') /\ ToSet(queue') \subseteq Registered
  <2>1. CASE queue' = queue
    BY ONLY <1>3, <2>1
  <2>2. CASE f \in Registered /\ f \notin ToSet(queue) /\ queue' = Append(queue, f)
    <3>1. queue' \in Seq(Fds) /\ IsInjective(queue') /\ ToSet(queue') = ToSet(queue) \cup {f}
      BY <1>3, <2>2, AppendsOne
    <3>2. QED
      BY ONLY <1>3, <2>2, <3>1
  <2>3. QED
    BY ONLY <1>1, <2>1, <2>2
<1>5. QED
  BY <1>2, <1>4 DEF Wellformed, Registered

-----------------------------------------------------------------------------
(* What poller_wait returns whatever is registered, and as often as it may be *)

LEMMA ScanFits ==
  ASSUME poll_fds \in Seq(Fds), config.evt_sz \in Nat \ {0}
  PROVE  Scan \in Seq(Events) /\ Len(Scan) <= config.evt_sz + 1
<1> DEFINE Fits(t) == t \in Seq(Events) /\ Len(t) <= config.evt_sz + 1
<1>0. Len(poll_fds) \in Nat /\ \A n \in 1 .. Len(poll_fds) : poll_fds[n] \in Fds
  OBVIOUS
<1>1. PICK out :
        /\ Scan = out[Len(poll_fds)]
        /\ out[0] = <<>>
        /\ \A n \in 1 .. Len(poll_fds) :
             out[n] = IF Len(out[n - 1]) < config.evt_sz THEN out[n - 1] \o News(poll_fds[n])
                      ELSE out[n - 1]
  BY ScanRecursion
<1> DEFINE All == {n \in Nat : n <= Len(poll_fds) => Fits(out[n])}
<1>2. 0 \in All
  <2>1. <<>> \in Seq(Events) /\ Len(<<>>) = 0 /\ 0 <= config.evt_sz + 1
    OBVIOUS
  <2>2. QED
    BY <1>1, <2>1
<1>3. ASSUME NEW n \in All PROVE n + 1 \in All
  <2> SUFFICES ASSUME n + 1 <= Len(poll_fds) PROVE Fits(out[n + 1])
    OBVIOUS
  <2>1. n + 1 \in 1 .. Len(poll_fds) /\ (n + 1) - 1 = n /\ Fits(out[n])
    BY <1>0
  <2> HIDE DEF All
  <2>2. out[n + 1] = IF Len(out[n]) < config.evt_sz THEN out[n] \o News(poll_fds[n + 1]) ELSE out[n]
    BY <1>1, <2>1
  <2>3. News(poll_fds[n + 1]) \in Seq(Events) /\ Len(News(poll_fds[n + 1])) <= 2
    BY <1>0, <2>1, NewsProperties
  <2>4. CASE Len(out[n]) < config.evt_sz
    <3>1. out[n + 1] \in Seq(Events) /\ Len(out[n + 1]) = Len(out[n]) + Len(News(poll_fds[n + 1]))
      BY <2>1, <2>2, <2>3, <2>4, ConcatProperties
    <3>2. Len(out[n]) \in Nat /\ Len(News(poll_fds[n + 1])) \in Nat
      BY <2>1, <2>3
    <3>3. \A a, b, e \in Nat : a < e /\ b <= 2 => a + b <= e + 1
      OBVIOUS
    <3>4. Len(out[n + 1]) <= config.evt_sz + 1
      BY <2>3, <2>4, <3>1, <3>2, <3>3
    <3>5. QED
      BY <3>1, <3>4
  <2>5. CASE ~(Len(out[n]) < config.evt_sz)
    BY <2>1, <2>2, <2>5
  <2>6. QED
    BY <2>4, <2>5
<1>4. Len(poll_fds) \in All
  <2> HIDE DEF All
  <2>1. QED
    BY <1>0, <1>2, <1>3, Induction
<1>5. QED
  BY <1>0, <1>1, <1>4

LEMMA TakenFits ==
  ASSUME queue \in Seq(Fds), config.evt_sz \in Nat \ {0}
  PROVE  /\ Live \in Seq(Fds) /\ Taken \in Seq(Fds)
         /\ Len(Taken) <= config.evt_sz /\ Len(Taken) <= Len(Live)
         /\ \A n \in 1 .. Len(Taken) : Taken[n] \in Fds /\ HasNews(Taken[n])
<1> DEFINE S == {f \in ToSet(queue) : HasNews(f)}
<1>1. Live = Among(queue, S)
  BY DEF Live
<1> HIDE DEF S
<1>2. Live \in Seq(Fds) /\ ToSet(Live) = ToSet(queue) \cap S
  BY <1>1, AmongProperties
<1>3. \A i \in 1 .. Len(Live) : HasNews(Live[i]) /\ Live[i] \in Fds
  <2>1. \A i \in 1 .. Len(Live) : Live[i] \in ToSet(Live) /\ Live[i] \in Fds
    BY <1>2 DEF ToSet
  <2>2. QED
    BY <1>2, <2>1 DEF S
<1>4. /\ Taken \in Seq(Fds) /\ Len(Taken) <= config.evt_sz /\ Len(Taken) <= Len(Live)
      /\ \A i \in 1 .. Len(Taken) : Taken[i] = Live[i]
  BY <1>2, FittingProperties DEF Taken
<1>5. \A n \in 1 .. Len(Taken) : n \in 1 .. Len(Live)
  BY <1>2, <1>4
<1>6. QED
  BY <1>2, <1>3, <1>4, <1>5

LEMMA BatchFits ==
  ASSUME poll_fds \in Seq(Fds), queue \in Seq(Fds), config \in Configs
  PROVE  /\ Batch \in Seq(Events)
         /\ Len(Batch) <= config.evt_sz + (IF On("win32") THEN 1 ELSE 0)
<1>0. config.evt_sz \in Nat \ {0}
  BY PollerAssumption
<1>1. CASE On("win32")
  BY <1>0, <1>1, ScanFits DEF Batch
<1>2. CASE ~On("win32")
  <2> DEFINE all == [n \in 1 .. Len(Taken) |-> News(Taken[n])[1]]
  <2>1. Batch = all
    BY <1>2 DEF Batch
  <2>2. \A n \in 1 .. Len(Taken) : News(Taken[n])[1] \in Events
    <3> SUFFICES ASSUME NEW n \in 1 .. Len(Taken) PROVE News(Taken[n])[1] \in Events
      OBVIOUS
    <3>1. News(Taken[n]) \in Seq(Events) /\ News(Taken[n]) # <<>>
      BY <1>0, TakenFits, NewsProperties DEF HasNews
    <3>2. QED
      BY <3>1
  <2>3. Taken \in Seq(Fds) /\ Len(Taken) <= config.evt_sz
    BY <1>0, TakenFits
  <2>4. all \in Seq(Events) /\ Len(all) = Len(Taken)
    BY <2>2, <2>3
  <2> HIDE DEF all
  <2>5. QED
    BY <1>0, <1>2, <2>1, <2>3, <2>4
<1>3. QED
  BY <1>1, <1>2

LEMMA RestFits ==
  ASSUME queue \in Seq(Fds), config.evt_sz \in Nat \ {0}
  PROVE  Rest \in Seq(Fds)
<1> DEFINE S == {f \in ToSet(Taken) : On("bsd") \/ f = fs_socket}
           late == SubSeq(Live, Len(Taken) + 1, Len(Live))
<1>1. Rest = late \o Among(Taken, S)
  BY DEF Rest, Taken
<1>2. Live \in Seq(Fds) /\ Taken \in Seq(Fds) /\ Len(Taken) <= Len(Live)
  BY TakenFits
<1> HIDE DEF S
<1>3. late \in Seq(Fds)
  BY <1>2
<1>4. Among(Taken, S) \in Seq(Fds)
  BY <1>2, AmongProperties
<1> HIDE DEF late
<1>5. QED
  BY <1>1, <1>3, <1>4, ConcatProperties

-----------------------------------------------------------------------------
(* The registry and the events *)

Owners == Clients \cup {"free", "other", "listener", "poller"}

\* Where nothing is registered yet.
Before == {"initialize", "getaddrinfo", "socket", "bind", "bound", "unbound", "listen",
           "create", "failed", "freed"}

IsNewConnection(n) == events[n].type = "PT_NEW_CONNECTION"
IsDeparture(n) == events[n].type = "PT_DISCONNECTED"

\* What is registered, from the first poll to the last.
PollerAgrees ==
  /\ fs_socket \in Fds \cup {INVALID_SOCKET}
  /\ poll_fds \in Seq(Fds) /\ queue \in Seq(Fds)
  /\ mpc \in Before => poll_fds = <<>> /\ events = <<>>
  /\ mpc = "exit" => Full \/ poll_fds = <<>>
  /\ Running => /\ Wellformed
                /\ fs_socket = listener
                /\ Registered = session_hash \cup {listener}

\* An event is about the connection that has its descriptor.
Fresh ==
  \A n \in DOMAIN events : events[n].fd \in session_hash => events[n].of = fdt[events[n].fd]

\* The events that are left of a batch. On Windows there may be two about a
\* connection, but no connection is accepted after its first one was released:
\* the listener's event comes before them all. Who is reported as gone has gone.
EventsAgree ==
  /\ Fresh
  /\ events \in Seq([type : EventTypes, fd : Fds, of : Owners])
  /\ mpc = "poll" => events = <<>>
  /\ mpc = "dispatch" => events # <<>>
  /\ Running => \A n \in DOMAIN events :
       /\ IsNewConnection(n) <=> events[n].fd = listener
       /\ On("win32") /\ IsNewConnection(n) => n = 1
       /\ IsDeparture(n) /\ events[n].fd \in session_hash => events[n].fd \in hungup
  /\ Running /\ ~On("win32") => \A m, n \in DOMAIN events : events[m].fd = events[n].fd => m = n
  /\ Running /\ (~On("win32") \/ \E n \in DOMAIN events : IsNewConnection(n)) =>
       \A n \in DOMAIN events : events[n].fd \in session_hash \cup {listener}

\* The state is what it can be, and the events fit their array, whatever fails.
KernelAgrees ==
  /\ config \in Configs
  /\ readable \subseteq Fds /\ hungup \subseteq Fds
  /\ termination_requested \in BOOLEAN
  /\ addr >= 1
  /\ fs_socket \in Fds \cup {INVALID_SOCKET}
  /\ poll_fds \in Seq(Fds) /\ queue \in Seq(Fds)
  /\ events \in Seq([type : EventTypes, fd : Fds, of : Owners])
  /\ Len(events) <= config.evt_sz + (IF On("win32") THEN 1 ELSE 0)
  /\ mpc = "dispatch" => events # <<>>

RegistryInv == PollerAgrees /\ EventsAgree /\ KernelAgrees

-----------------------------------------------------------------------------
(* Every step keeps the types *)

\* The events that are left after one.
LEMMA TailProperties ==
  ASSUME NEW S, NEW s \in Seq(S), s # <<>>
  PROVE  /\ Tail(s) \in Seq(S) /\ Len(Tail(s)) = Len(s) - 1
         /\ DOMAIN s = 1 .. Len(s) /\ Head(s) = s[1] /\ 1 \in DOMAIN s
         /\ \A n \in DOMAIN Tail(s) : n \in Nat /\ n >= 1 /\ n + 1 \in DOMAIN s /\ Tail(s)[n] = s[n + 1]
  OBVIOUS

\* Whoever owns a descriptor.
LEMMA OwnersOf ==
  ASSUME Inv, NEW f \in Fds
  PROVE  fdt[f] \in Owners
  BY DEF Inv, Types, Owners

\* After an event the server goes on or exits.
LEMMA GoesOn ==
  ASSUME NEW on, Goes(on)
  PROVE  /\ mpc' \in {"exit", IF Len(events) = 1 THEN "poll" ELSE "dispatch"}
         /\ on <=> mpc' # "exit"
  BY DEF Goes

\* What touches neither the events nor what is registered.
LEMMA QuietKernel ==
  ASSUME KernelAgrees, UNCHANGED <<config, events>>, mpc' = "dispatch" => mpc = "dispatch",
         readable' \subseteq Fds, hungup' \subseteq Fds, termination_requested' \in BOOLEAN,
         addr' >= 1, fs_socket' \in Fds \cup {INVALID_SOCKET},
         poll_fds' \in Seq(Fds), queue' \in Seq(Fds)
  PROVE  KernelAgrees'
  BY DEF KernelAgrees, On

\* One event is taken.
LEMMA DispatchKernel ==
  ASSUME KernelAgrees, NEW type, Dispatch(type), config' = config,
         mpc' \in {"exit", IF Len(events) = 1 THEN "poll" ELSE "dispatch"},
         readable' \subseteq Fds, hungup' \subseteq Fds,
         fs_socket' \in Fds \cup {INVALID_SOCKET}, poll_fds' \in Seq(Fds), queue' \in Seq(Fds)
  PROVE  KernelAgrees'
<1> DEFINE EV == [type : EventTypes, fd : Fds, of : Owners]
           limit == config.evt_sz + (IF On("win32") THEN 1 ELSE 0)
<1>1. /\ events \in Seq(EV) /\ events # <<>> /\ events' = Tail(events) /\ Len(events) <= limit
      /\ UNCHANGED <<addr, termination_requested>>
  BY DEF Dispatch, setupVars, KernelAgrees
<1>2. limit \in Nat /\ limit' = limit
  BY PollerAssumption DEF KernelAgrees, On
<1> HIDE DEF EV, limit
<1>3. events' \in Seq(EV) /\ Len(events') = Len(events) - 1 /\ Len(events) \in Nat
  BY <1>1, TailProperties
<1>4. Len(events') <= limit'
  BY <1>1, <1>2, <1>3
<1>5. mpc' = "dispatch" => events' # <<>>
  <2>1. mpc' = "dispatch" => Len(events) # 1
    OBVIOUS
  <2>2. mpc' = "dispatch" => Len(events') # 0
    BY <1>3, <2>1
  <2>3. Len(<<>>) = 0
    OBVIOUS
  <2>4. QED
    BY <2>2, <2>3
<1>6. termination_requested' \in BOOLEAN
  BY <1>1 DEF KernelAgrees
<1>7. QED
  BY <1>1, <1>3, <1>4, <1>5, <1>6 DEF KernelAgrees, EV, limit

LEMMA SetupKernel ==
  ASSUME Inv, KernelAgrees, Setup, config' = config
  PROVE  KernelAgrees'
<1>1. /\ readable' \subseteq readable /\ hungup' \subseteq hungup
      /\ UNCHANGED <<termination_requested, events>> /\ mpc' # "dispatch"
  BY DEF Setup, Initialize, GetAddrInfo, OpenSocket, SocketFails, Bind, FreeAddrInfo, FailedToBind,
         Listen, CreatePoller, OpenPoller, FreeServer, SetupUnchanged, Fatal, Close, kernelVars, loopVars
<1>2. addr' = addr \/ addr' = addr + 1 \/ addr' = 1
  BY DEF Setup, Initialize, GetAddrInfo, OpenSocket, SocketFails, Bind, FreeAddrInfo, FailedToBind,
         Listen, CreatePoller, FreeServer, SetupUnchanged, Fatal, setupVars
<1>3. addr' >= 1
  BY <1>2 DEF KernelAgrees, Inv, Types
<1>4. \/ UNCHANGED pollerVars
      \/ /\ mpc = "create" /\ fs_socket' = listener /\ poll_fds' = <<listener>>
         /\ queue' = <<listener>> \/ queue' = <<>>
  BY DEF Setup, Initialize, GetAddrInfo, OpenSocket, Bind, FreeAddrInfo, FailedToBind, Listen,
         CreatePoller, OpenPoller, PollerCreate, FreeServer, SetupUnchanged
<1>5. mpc = "create" => listener \in Fds
  BY DEF Inv, DescriptorsAgree, HasListener
<1>6. fs_socket' \in Fds \cup {INVALID_SOCKET} /\ poll_fds' \in Seq(Fds) /\ queue' \in Seq(Fds)
  <2>1. CASE UNCHANGED pollerVars
    BY <2>1 DEF KernelAgrees, pollerVars
  <2>2. listener \in Fds => <<listener>> \in Seq(Fds) /\ <<>> \in Seq(Fds)
    OBVIOUS
  <2>3. QED
    BY <1>4, <1>5, <2>1, <2>2
<1>7. termination_requested' \in BOOLEAN
  BY <1>1 DEF KernelAgrees
<1>8. readable' \subseteq Fds /\ hungup' \subseteq Fds
  BY <1>1 DEF KernelAgrees
<1>9. QED
  BY <1>1, <1>3, <1>6, <1>7, <1>8, QuietKernel

LEMMA WaitKernel ==
  ASSUME Inv, KernelAgrees, PollerWait, config' = config
  PROVE  KernelAgrees'
<1> DEFINE b == Batch
           EV == [type : EventTypes, fd : Fds, of : Owners]
           e == [n \in DOMAIN b |-> [type |-> b[n].type, fd |-> b[n].fd, of |-> fdt[b[n].fd]]]
<1>1. /\ events' = e /\ queue' = Rest /\ mpc' = IF events' = <<>> THEN "poll" ELSE "dispatch"
      /\ UNCHANGED <<fs_socket, poll_fds, readable, hungup, addr, termination_requested>>
  BY DEF PollerWait, kernelVars, setupVars
<1>2. b \in Seq(Events) /\ Len(b) <= config.evt_sz + (IF On("win32") THEN 1 ELSE 0)
  BY BatchFits DEF KernelAgrees
<1> HIDE DEF b
<1>3. DOMAIN b = 1 .. Len(b) /\ Len(b) \in Nat /\ \A n \in DOMAIN b : b[n] \in Events
  BY <1>2
<1>4. \A n \in DOMAIN b : e[n] \in EV
  BY <1>3, OwnersOf DEF Events
<1>5. e \in [1 .. Len(b) -> EV]
  BY <1>3, <1>4
<1> HIDE DEF e, EV
<1>6. e \in Seq(EV) /\ Len(e) = Len(b)
  BY <1>3, <1>5
<1>7. queue' \in Seq(Fds)
  BY <1>1, RestFits, PollerAssumption DEF KernelAgrees
<1>8. termination_requested' \in BOOLEAN
  BY <1>1 DEF KernelAgrees
<1>9. /\ events' \in Seq(EV) /\ Len(events') <= config.evt_sz + (IF On("win32") THEN 1 ELSE 0)
      /\ mpc' = "dispatch" => events' # <<>>
  BY <1>1, <1>2, <1>6
<1>10. QED
  BY <1>1, <1>7, <1>8, <1>9 DEF KernelAgrees, EV, On

\* What poller_remove_connection leaves.
LEMMA RemovedKernel ==
  ASSUME KernelAgrees, NEW f, RemoveConnection(f)
  PROVE  poll_fds' \in Seq(Fds) /\ queue' \in Seq(Fds) /\ fs_socket' = fs_socket
  BY WithoutProperties, AmongProperties DEF RemoveConnection, KernelAgrees

LEMMA IterateKernel ==
  ASSUME Inv, Waiting, KernelAgrees, Iterate, config' = config
  PROVE  KernelAgrees'
<1>0. /\ readable \subseteq Fds /\ hungup \subseteq Fds /\ poll_fds \in Seq(Fds) /\ queue \in Seq(Fds)
      /\ fs_socket \in Fds \cup {INVALID_SOCKET}
  BY DEF KernelAgrees
<1>1. CASE HandleNewConnection
  <2>1. PICK f \in NewFds, sent \in BOOLEAN, gone \in BOOLEAN :
          /\ readable' \subseteq readable \cup {f} /\ hungup' \subseteq hungup \cup {f}
          /\ Goes(~Full)
          /\ UNCHANGED pollerVars \/ AddConnection(f, sent \/ gone)
    <3>1. PICK c \in backlog, f \in NewFds, sent \in BOOLEAN, gone \in BOOLEAN :
            /\ fdt' = [fdt EXCEPT ![f] = c]
            /\ readable' = (IF backlog = {c} THEN readable \ {fs_socket} ELSE readable)
                           \cup (IF sent THEN {f} ELSE {})
            /\ hungup' = IF gone THEN hungup \cup {f} ELSE hungup
            /\ Goes(~Full)
            /\ IF Full THEN UNCHANGED <<pollerVars, session_hash, hidden>>
               ELSE AddConnection(f, sent \/ gone) /\ session_hash' = session_hash \cup {f}
      BY ONLY <1>1, Zenon DEF HandleNewConnection
    <3>2. readable' \subseteq readable \cup {f} /\ hungup' \subseteq hungup \cup {f}
      BY <3>1
    <3>3. UNCHANGED pollerVars \/ AddConnection(f, sent \/ gone)
      BY <3>1
    <3>4. QED
      BY <3>1, <3>2, <3>3
  <2>2. f \in Fds /\ Append(poll_fds, f) \in Seq(Fds) /\ Append(queue, f) \in Seq(Fds)
    BY <1>0 DEF NewFds
  <2>3. poll_fds' \in Seq(Fds) /\ queue' \in Seq(Fds) /\ fs_socket' = fs_socket
    BY <1>0, <2>1, <2>2 DEF AddConnection, pollerVars
  <2>4. readable' \subseteq Fds /\ hungup' \subseteq Fds
    BY <1>0, <2>1, <2>2
  <2>5. QED
    BY <1>0, <1>1, <2>1, <2>3, <2>4, GoesOn, DispatchKernel DEF HandleNewConnection
<1>2. ASSUME NEW type, Dispatch(type), Goes(TRUE), UNCHANGED <<pollerVars, kernelVars>>
      PROVE  KernelAgrees'
  BY <1>0, <1>2, GoesOn, DispatchKernel DEF pollerVars, kernelVars
<1>3. CASE AcceptFails \/ HandleNewData
  BY <1>2, <1>3 DEF AcceptFails, HandleNewData
<1>4. CASE HandleDisconnect
  <2> DEFINE f == Head(events).fd
  <2>1. CASE f \notin session_hash
    BY <1>2, <1>4, <2>1 DEF HandleDisconnect
  <2>2. CASE f \in session_hash
    <3>1. RemoveConnection(f) /\ Close(f) /\ Goes(f \in Registered) /\ Dispatch("PT_DISCONNECTED")
      BY <1>4, <2>2 DEF HandleDisconnect, ReleaseConnection
    <3>2. readable' \subseteq Fds /\ hungup' \subseteq Fds
      BY <1>0, <3>1 DEF Close
    <3>3. poll_fds' \in Seq(Fds) /\ queue' \in Seq(Fds) /\ fs_socket' = fs_socket
      BY <3>1, RemovedKernel
    <3> HIDE DEF f
    <3>4. QED
      BY <1>0, <3>1, <3>2, <3>3, GoesOn, DispatchKernel
  <2>3. QED
    BY <2>1, <2>2
<1>5. QED
  BY <1>1, <1>3, <1>4, WaitKernel DEF Iterate

LEMMA FinalizeKernel ==
  ASSUME KernelAgrees, FinalizeConnection \/ CloseListener \/ PollerDestroy, config' = config
  PROVE  KernelAgrees'
<1>1. UNCHANGED <<events, termination_requested, addr>> /\ mpc' # "dispatch"
  BY DEF FinalizeConnection, CloseListener, PollerDestroy, setupVars, loopVars
<1>2. \/ UNCHANGED pollerVars
      \/ \E f : RemoveConnection(f)
  BY DEF FinalizeConnection, CloseListener, PollerDestroy, ReleaseConnection
<1>3. poll_fds' \in Seq(Fds) /\ queue' \in Seq(Fds) /\ fs_socket' = fs_socket
  BY <1>2, RemovedKernel DEF KernelAgrees, pollerVars
<1>4. readable' \subseteq readable /\ hungup' \subseteq hungup
  BY DEF FinalizeConnection, CloseListener, PollerDestroy, ReleaseConnection, ClosePoller, Close
<1>5. termination_requested' \in BOOLEAN
  BY <1>1 DEF KernelAgrees
<1>6. /\ addr' >= 1 /\ fs_socket' \in Fds \cup {INVALID_SOCKET}
      /\ readable' \subseteq Fds /\ hungup' \subseteq Fds
  BY <1>1, <1>3, <1>4 DEF KernelAgrees
<1>7. QED
  BY <1>1, <1>3, <1>5, <1>6, QuietKernel

LEMMA EnvironmentKernel ==
  ASSUME Inv, KernelAgrees, Environment, config' = config
  PROVE  KernelAgrees'
<1> DEFINE Calm == \/ UNCHANGED pollerVars
                   \/ \E f \in Fds : queue' = Queued(f) /\ UNCHANGED <<fs_socket, poll_fds>>
           Kept == readable' \subseteq Fds /\ hungup' \subseteq Fds /\ termination_requested' \in BOOLEAN
<1>0. /\ readable \subseteq Fds /\ hungup \subseteq Fds /\ poll_fds \in Seq(Fds) /\ queue \in Seq(Fds)
      /\ fs_socket \in Fds \cup {INVALID_SOCKET} /\ termination_requested \in BOOLEAN
  BY DEF KernelAgrees
<1>1. UNCHANGED <<events, addr>> /\ (mpc' = "dispatch" => mpc = "dispatch")
  BY DEF Environment, Connect, Abort, ClientSends, ClientCloses, WorkerReceives, CallbackFails,
         OtherCloses, OtherGets, OtherOpens, Terminate, Kernel, setupVars, loopVars
<1>2. ASSUME Kept, fs_socket' = fs_socket, poll_fds' \in Seq(Fds), queue' \in Seq(Fds)
      PROVE  KernelAgrees'
  BY <1>0, <1>1, <1>2, QuietKernel DEF KernelAgrees
<1>3. ASSUME Kept, Calm PROVE KernelAgrees'
  <2>1. \A f \in Fds : Queued(f) \in Seq(Fds)
    BY <1>0, AppendProperties DEF Queued
  <2>2. QED
    BY <1>0, <1>2, <1>3, <2>1 DEF pollerVars
<1>4. CASE OtherOpens
  BY <1>0, <1>3, <1>4 DEF OtherOpens, kernelVars
<1>5. CASE Terminate
  <2>1. termination_requested' \in BOOLEAN /\ UNCHANGED <<pollerVars, readable, hungup>>
    BY <1>5 DEF Terminate, kernelVars
  <2>2. QED
    BY <1>0, <1>3, <2>1
<1>6. ASSUME NEW c \in Clients, Connect(c) \/ Abort(c) PROVE KernelAgrees'
  <2>1. Connect(c) => listener \in Fds
    BY DEF Connect, Inv, DescriptorsAgree, HasListener
  <2>2. termination_requested' = termination_requested
    BY <1>6 DEF Connect, Abort, Kernel
  <2>3. readable' \subseteq Fds /\ hungup' \subseteq Fds
    BY <1>0, <1>6, <2>1 DEF Connect, Abort
  <2>4. Calm
    BY <1>6, <2>1 DEF Connect, Abort, Kernel
  <2>5. QED
    BY <1>0, <1>3, <2>2, <2>3, <2>4
<1>7. ASSUME NEW f \in Fds,
             ClientSends(f) \/ ClientCloses(f) \/ WorkerReceives(f) \/ OtherCloses(f) \/ OtherGets(f)
      PROVE  KernelAgrees'
  <2>1. termination_requested' = termination_requested
    BY <1>7 DEF ClientSends, ClientCloses, WorkerReceives, OtherCloses, OtherGets, Kernel
  <2>2. readable' \subseteq Fds /\ hungup' \subseteq Fds
    BY <1>0, <1>7 DEF ClientSends, ClientCloses, WorkerReceives, OtherCloses, OtherGets, Close
  <2>3. Calm
    BY <1>7 DEF ClientSends, ClientCloses, WorkerReceives, OtherCloses, OtherGets, Kernel
  <2>4. QED
    BY <1>0, <1>3, <2>1, <2>2, <2>3
<1>8. ASSUME NEW f \in Fds, CallbackFails(f) PROVE KernelAgrees'
  <2>1. /\ readable' \subseteq Fds /\ hungup' \subseteq Fds
        /\ termination_requested' = termination_requested
    BY <1>0, <1>8 DEF CallbackFails, Close
  <2>2. UNCHANGED pollerVars \/ RemoveConnection(f)
    BY <1>8 DEF CallbackFails, ClosedUnder
  <2>3. poll_fds' \in Seq(Fds) /\ queue' \in Seq(Fds) /\ fs_socket' = fs_socket
    BY <1>0, <2>2, RemovedKernel DEF pollerVars
  <2>4. QED
    BY <1>0, <1>2, <2>1, <2>3
<1>9. QED
  BY <1>4, <1>5, <1>6, <1>7, <1>8 DEF Environment

LEMMA InitKernel == Init => KernelAgrees
<1> SUFFICES ASSUME Init PROVE KernelAgrees
  OBVIOUS
<1> USE DEF Init
<1>1. config.evt_sz \in Nat
  BY PollerAssumption
<1>2. termination_requested \in BOOLEAN
  OBVIOUS
<1>3. QED
  BY <1>1, <1>2 DEF KernelAgrees, On

LEMMA StepKernel == Inv /\ Waiting /\ KernelAgrees /\ [Next]_vars => KernelAgrees'
<1> SUFFICES ASSUME Inv, Waiting, KernelAgrees, [Next]_vars PROVE KernelAgrees'
  OBVIOUS
<1>1. config' = config
  BY ConfigIsKept
<1>2. CASE UNCHANGED vars
  <2>1. termination_requested' \in BOOLEAN
    BY <1>2 DEF vars, KernelAgrees
  <2>2. QED
    BY <1>2, <2>1 DEF vars, pollerVars, kernelVars, setupVars, loopVars, KernelAgrees, On
<1>3. QED
  BY <1>1, <1>2, SetupKernel, IterateKernel, FinalizeKernel, EnvironmentKernel DEF Next, MainThread

LEMMA KernelHolds == Spec => []KernelAgrees
  BY InitKernel, InvHolds, WaitingHolds, StepKernel, PTL DEF Spec

-----------------------------------------------------------------------------
(* Every step keeps the registry true, unless a callback fails *)

LEMMA InitRegistry == Init => RegistryInv
<1> SUFFICES ASSUME Init PROVE RegistryInv
  OBVIOUS
<1> USE DEF Init
<1>1. PollerAgrees
  BY DEF PollerAgrees, Running
<1>2. EventsAgree
  BY DEF EventsAgree, Running, Fresh
<1>3. QED
  BY <1>1, <1>2, InitKernel DEF RegistryInv

\* Before and after the server runs no event waits for anyone.
LEMMA RegistrySetup ==
  ASSUME Inv, RegistryInv, KernelAgrees', Setup, config' = config
  PROVE  RegistryInv'
<1> DEFINE Quiet == UNCHANGED <<fs_socket, poll_fds, queue, events, session_hash>>
<1>0. /\ mpc \in Before /\ poll_fds = <<>> /\ events = <<>> /\ session_hash = {}
      /\ config.evt_sz \in Nat
  <2>1. mpc \in Before
    BY DEF Setup, Initialize, GetAddrInfo, OpenSocket, Bind, FreeAddrInfo, FailedToBind, Listen,
           CreatePoller, FreeServer, Before
  <2>2. session_hash = {}
    BY <2>1 DEF Inv, DescriptorsAgree, Before
  <2>3. QED
    BY <2>1, <2>2, PollerAssumption DEF RegistryInv, PollerAgrees, KernelAgrees
<1>1. KernelAgrees'
  OBVIOUS
<1>2. CASE Quiet /\ mpc' \in Before
  BY <1>0, <1>1, <1>2
     DEF RegistryInv, PollerAgrees, EventsAgree, Fresh, Before, Running, On
<1>3. CASE Quiet /\ mpc' = "exit"
  BY <1>0, <1>1, <1>3
     DEF RegistryInv, PollerAgrees, EventsAgree, Fresh, Before, Running, On
<1>4. CASE CreatePoller /\ mpc' = "poll"
  <2>1. /\ fs_socket' = listener /\ poll_fds' = <<listener>>
        /\ queue' = <<listener>> \/ queue' = <<>>
        /\ UNCHANGED <<listener, session_hash, events>>
    BY <1>4 DEF CreatePoller, OpenPoller, PollerCreate, setupVars, loopVars, hashVars
  <2>2. listener \in Fds
    <3>1. mpc = "create"
      BY <1>4 DEF CreatePoller
    <3>2. QED
      BY <3>1 DEF Inv, DescriptorsAgree, HasListener
  <2>3. Wellformed' /\ Registered' = {listener}
    <3>1. ASSUME NEW s, s = <<listener>> \/ s = <<>>
          PROVE  s \in Seq(Fds) /\ IsInjective(s) /\ ToSet(s) \subseteq {listener}
      <4>1. CASE s = <<>>
        BY <4>1 DEF ToSet, IsInjective
      <4>2. CASE s = <<listener>>
        <5>1. s \in Seq(Fds) /\ DOMAIN s = {1} /\ s[1] = listener
          BY <2>2, <4>2
        <5>2. QED
          BY <5>1 DEF ToSet, IsInjective
      <4>3. QED
        BY <3>1, <4>1, <4>2
    <3>2. <<listener>> # <<>> /\ <<listener>>[1] = listener /\ ToSet(<<listener>>) = {listener}
      BY DEF ToSet
    <3>3. /\ poll_fds' \in Seq(Fds) /\ IsInjective(poll_fds')
          /\ queue' \in Seq(Fds) /\ IsInjective(queue') /\ ToSet(queue') \subseteq {listener}
      BY <2>1, <3>1
    <3>4. QED
      BY <2>1, <3>2, <3>3 DEF Wellformed, Registered
  <2>4. PollerAgrees'
    BY <1>0, <1>4, <2>1, <2>2, <2>3 DEF PollerAgrees, Before, Running, Wellformed
  <2>5. EventsAgree'
    BY <1>0, <1>4, <2>1 DEF EventsAgree, Fresh, Running, RegistryInv
  <2>6. QED
    BY <1>1, <2>4, <2>5 DEF RegistryInv
<1>5. QED
  <2>1. ~CreatePoller => Quiet /\ mpc' \in Before
    BY DEF Setup, Initialize, GetAddrInfo, OpenSocket, SocketFails, Bind, FreeAddrInfo, FailedToBind,
           Listen, CreatePoller, FreeServer, SetupUnchanged, Fatal, Before, pollerVars, loopVars, hashVars
  <2>2. CreatePoller => mpc' = "poll" \/ (Quiet /\ mpc' = "exit")
    BY DEF CreatePoller, OpenPoller, pollerVars, loopVars, hashVars
  <2>3. QED
    BY <1>2, <1>3, <1>4, <2>1, <2>2

\* A new batch is about what is registered, and so about who is open.
LEMMA RegistryWait ==
  ASSUME Inv, RegistryInv, KernelAgrees', PollerWait, config' = config
  PROVE  RegistryInv'
<1> DEFINE b == Batch
           EV == [type : EventTypes, fd : Fds, of : Owners]
           e == [n \in DOMAIN b |-> [type |-> b[n].type, fd |-> b[n].fd, of |-> fdt[b[n].fd]]]
<1>0. mpc = "poll" /\ Wellformed /\ config \in Configs /\ config.evt_sz \in Nat
      /\ fs_socket = listener /\ Registered = session_hash \cup {listener}
  BY PollerAssumption DEF PollerWait, RegistryInv, KernelAgrees, PollerAgrees, Running
<1>1. /\ events' = e /\ queue' = Rest /\ mpc' = IF events' = <<>> THEN "poll" ELSE "dispatch"
      /\ UNCHANGED <<fs_socket, poll_fds, readable, hungup, fdt, listener, session_hash>>
  BY DEF PollerWait, kernelVars, setupVars, hashVars
<1>2. /\ b \in Seq(Events)
      /\ \A j \in 1 .. Len(b) :
           /\ b[j].fd \in Registered
           /\ b[j].type = "PT_NEW_CONNECTION" <=> b[j].fd = fs_socket
           /\ On("win32") /\ b[j].fd = fs_socket => j = 1
           /\ b[j].type = "PT_DISCONNECTED" => b[j].fd \in hungup
      /\ ~On("win32") => \A i, j \in 1 .. Len(b) : b[i].fd = b[j].fd => i = j
  BY <1>0, BatchProperties
<1> HIDE DEF b
<1>3. DOMAIN b = 1 .. Len(b) /\ Len(b) \in Nat /\ \A n \in DOMAIN b : b[n] \in Events
  BY <1>2
<1>4. \A n \in DOMAIN b : e[n].type = b[n].type /\ e[n].fd = b[n].fd /\ e[n].of = fdt[b[n].fd]
                          /\ e[n] \in EV
  BY <1>3, OwnersOf DEF Events
<1>5. e \in Seq(EV) /\ DOMAIN e = DOMAIN b /\ Len(e) = Len(b)
  <2>1. e \in [1 .. Len(b) -> EV]
    BY <1>3, <1>4
  <2> HIDE DEF e, EV
  <2>2. QED
    BY <1>3, <2>1
<1> HIDE DEF e
<1>6. Wellformed' /\ Registered' = Registered
  BY <1>0, <1>1, RestProperties DEF Wellformed, Registered
<1>7. PollerAgrees'
  BY <1>0, <1>1, <1>6 DEF PollerAgrees, Before, Running, Wellformed, RegistryInv
<1>8. Fresh'
  BY <1>1, <1>4, <1>5 DEF Fresh
<1>9. EventsAgree'
  <2>1. events' = e
    BY <1>1
  <2>2. mpc' \in {"poll", "dispatch"} /\ (mpc' = "poll" <=> e = <<>>)
    BY <1>1
  <2>3. e \in Seq([type : EventTypes, fd : Fds, of : Owners])
    BY <1>5 DEF EV
  <2>4. \A n \in DOMAIN e : /\ e[n].type = "PT_NEW_CONNECTION" <=> e[n].fd = listener
                            /\ On("win32") /\ e[n].fd = listener => n = 1
                            /\ e[n].fd \in session_hash \cup {listener}
                            /\ e[n].type = "PT_DISCONNECTED" => e[n].fd \in hungup
    BY <1>0, <1>2, <1>3, <1>4, <1>5
  <2>5. ~On("win32") => \A m, n \in DOMAIN e : e[m].fd = e[n].fd => m = n
    BY <1>2, <1>3, <1>4, <1>5
  <2>6. UNCHANGED <<listener, session_hash, config, hungup>>
    BY <1>1
  <2>7. QED
    BY <1>8, <2>1, <2>2, <2>3, <2>4, <2>5, <2>6
       DEF EventsAgree, IsNewConnection, IsDeparture, Running, On
<1>10. QED
  BY <1>7, <1>9 DEF RegistryInv

\* An event is taken from the batch. What it does to the others depends on who
\* has their descriptors then.
LEMMA NextEvent ==
  ASSUME EventsAgree, events # <<>>, events' = Tail(events),
         UNCHANGED <<config, listener>>,
         mpc = "dispatch", mpc' \in {"exit", IF Len(events) = 1 THEN "poll" ELSE "dispatch"},
         mpc' # "exit" /\ ~On("win32") =>
           \A n \in DOMAIN events' : events'[n].fd \in session_hash \cup {listener}
                                    => events'[n].fd \in session_hash' \cup {listener},
         \A n \in DOMAIN events' : events'[n].fd \in session_hash' =>
           /\ events'[n].fd \in session_hash /\ fdt'[events'[n].fd] = fdt[events'[n].fd]
           /\ events'[n].fd \in hungup => events'[n].fd \in hungup'
  PROVE  EventsAgree'
<1> DEFINE EV == [type : EventTypes, fd : Fds, of : Owners]
<1>1. /\ events' \in Seq(EV) /\ Len(events') = Len(events) - 1
      /\ DOMAIN events = 1 .. Len(events)
      /\ \A n \in DOMAIN events' : n \in Nat /\ n >= 1 /\ n + 1 \in DOMAIN events /\ events'[n] = events[n + 1]
  <2>1. events \in Seq(EV)
    BY DEF EventsAgree
  <2> HIDE DEF EV
  <2>2. QED
    BY <2>1, TailProperties
<1> HIDE DEF EV
<1>2. Len(events) \in Nat /\ Len(events) # 0
  BY <1>1
<1>3. Fresh'
  <2> SUFFICES ASSUME NEW n \in DOMAIN events', events'[n].fd \in session_hash'
               PROVE  events'[n].of = fdt'[events'[n].fd]
    BY DEF Fresh
  <2>1. n + 1 \in DOMAIN events /\ events'[n] = events[n + 1]
    BY <1>1
  <2>2. events'[n].fd \in session_hash /\ fdt'[events'[n].fd] = fdt[events'[n].fd]
    OBVIOUS
  <2>3. QED
    BY <2>1, <2>2 DEF EventsAgree, Fresh
<1>4. /\ mpc' = "poll" => events' = <<>>
      /\ mpc' = "dispatch" => events' # <<>>
  <2>1. CASE Len(events) = 1
    <3>1. Len(events') = 0 /\ mpc' \in {"exit", "poll"}
      BY <1>1, <2>1
    <3>2. QED
      BY <1>1, <3>1
  <2>2. CASE Len(events) # 1
    <3>1. Len(events') # 0 /\ mpc' \in {"exit", "dispatch"}
      BY <1>1, <1>2, <2>2
    <3>2. QED
      BY <3>1
  <2>3. QED
    BY <2>1, <2>2
<1>5. \A n \in DOMAIN events' :
        /\ IsNewConnection(n)' <=> events'[n].fd = listener
        /\ On("win32") => ~IsNewConnection(n)'
        /\ IsDeparture(n)' /\ events'[n].fd \in session_hash' => events'[n].fd \in hungup'
  <2> SUFFICES ASSUME NEW n \in DOMAIN events'
               PROVE  /\ IsNewConnection(n)' <=> events'[n].fd = listener
                      /\ On("win32") => ~IsNewConnection(n)'
                      /\ IsDeparture(n)' /\ events'[n].fd \in session_hash'
                           => events'[n].fd \in hungup'
    OBVIOUS
  <2>1. n >= 1 /\ n \in Nat /\ n + 1 \in DOMAIN events /\ events'[n] = events[n + 1]
    BY <1>1
  <2>2. /\ events[n + 1].type = "PT_NEW_CONNECTION" <=> events[n + 1].fd = listener
        /\ On("win32") /\ events[n + 1].type = "PT_NEW_CONNECTION" => n + 1 = 1
        /\ events[n + 1].type = "PT_DISCONNECTED" /\ events[n + 1].fd \in session_hash
             => events[n + 1].fd \in hungup
    BY <2>1 DEF EventsAgree, Running, IsNewConnection, IsDeparture
  <2>3. QED
    BY <2>1, <2>2 DEF IsNewConnection, IsDeparture
<1>6. ~On("win32") => \A m, n \in DOMAIN events' : events'[m].fd = events'[n].fd => m = n
  <2> SUFFICES ASSUME ~On("win32"), NEW m \in DOMAIN events', NEW n \in DOMAIN events',
                      events'[m].fd = events'[n].fd
               PROVE  m = n
    OBVIOUS
  <2>1. /\ m \in Nat /\ m + 1 \in DOMAIN events /\ events'[m] = events[m + 1]
        /\ n \in Nat /\ n + 1 \in DOMAIN events /\ events'[n] = events[n + 1]
    BY <1>1
  <2>2. m + 1 = n + 1
    BY <2>1 DEF EventsAgree, Running
  <2>3. QED
    BY <2>1, <2>2
<1>7. Running' /\ (~On("win32") \/ \E n \in DOMAIN events' : IsNewConnection(n)') =>
        \A n \in DOMAIN events' : events'[n].fd \in session_hash' \cup {listener}
  <2> SUFFICES ASSUME Running', ~On("win32") \/ \E n \in DOMAIN events' : IsNewConnection(n)',
                      NEW n \in DOMAIN events'
               PROVE  events'[n].fd \in session_hash' \cup {listener}
    OBVIOUS
  <2>1. ~On("win32")
    BY <1>5
  <2>2. n + 1 \in DOMAIN events /\ events'[n] = events[n + 1]
    BY <1>1
  <2>3. events[n + 1].fd \in session_hash \cup {listener}
    BY <2>1, <2>2 DEF EventsAgree, Running
  <2>4. mpc' # "exit"
    BY DEF Running
  <2>5. QED
    BY <2>1, <2>2, <2>3, <2>4
<1>8. QED
  BY <1>1, <1>3, <1>4, <1>5, <1>6, <1>7 DEF EventsAgree, EV, On, IsNewConnection, IsDeparture

\* accept, with or without room for the connection.
LEMMA RegistryAccept ==
  ASSUME Inv, Waiting, RegistryInv, CallbacksSucceed, KernelAgrees', HandleNewConnection,
         config' = config
  PROVE  RegistryInv'
<1>0. /\ mpc = "dispatch" /\ Wellformed
      /\ fs_socket = listener /\ Registered = session_hash \cup {listener}
      /\ events # <<>> /\ events' = Tail(events) /\ Head(events).type = "PT_NEW_CONNECTION"
      /\ UNCHANGED listener
  BY DEF HandleNewConnection, Dispatch, RegistryInv, KernelAgrees, PollerAgrees, EventsAgree, Running,
         setupVars
<1>1. PICK c \in backlog, f \in NewFds, sent \in BOOLEAN, gone \in BOOLEAN :
        /\ fdt' = [fdt EXCEPT ![f] = c]
        /\ readable' = (IF backlog = {c} THEN readable \ {fs_socket} ELSE readable)
                       \cup (IF sent THEN {f} ELSE {})
        /\ hungup' = IF gone THEN hungup \cup {f} ELSE hungup
        /\ Goes(~Full)
        /\ IF Full THEN UNCHANGED <<pollerVars, session_hash, hidden>>
           ELSE AddConnection(f, sent \/ gone) /\ session_hash' = session_hash \cup {f}
  BY Zenon DEF HandleNewConnection
<1>2. /\ f \in Fds /\ fdt[f] = "free" /\ f # listener /\ f \notin session_hash
      /\ \A g \in Fds : g # f => fdt'[g] = fdt[g]
  BY <1>0, <1>1, Names DEF NewFds, Inv, Types, DescriptorsAgree, HasListener, SessionsAgree
<1>3. f \notin Registered
  BY <1>0, <1>2
<1>4. /\ Head(events) = events[1] /\ 1 \in DOMAIN events
      /\ events \in Seq([type : EventTypes, fd : Fds, of : Owners])
      /\ \A n \in DOMAIN events' : events'[n].fd \in Fds /\ n + 1 \in DOMAIN events /\ events'[n] = events[n + 1]
  <2> DEFINE EV == [type : EventTypes, fd : Fds, of : Owners]
  <2>1. events \in Seq(EV)
    BY DEF RegistryInv, EventsAgree
  <2>2. \A x \in EV : x.fd \in Fds
    OBVIOUS
  <2> HIDE DEF EV
  <2>3. /\ Head(events) = events[1] /\ 1 \in DOMAIN events /\ Tail(events) \in Seq(EV)
        /\ \A n \in DOMAIN Tail(events) : n + 1 \in DOMAIN events /\ Tail(events)[n] = events[n + 1]
    BY <1>0, <2>1, TailProperties
  <2>4. \A n \in DOMAIN Tail(events) : Tail(events)[n] \in EV
    BY <2>3
  <2>5. QED
    BY <1>0, <2>1, <2>2, <2>3, <2>4 DEF EV
<1>5. \A n \in DOMAIN events : events[n].fd \in session_hash \cup {listener}
  BY <1>0, <1>4 DEF RegistryInv, EventsAgree, IsNewConnection, Running
<1>6. \A n \in DOMAIN events' : events'[n].fd # f /\ events'[n].fd \in Fds
  BY <1>2, <1>4, <1>5
<1>7. mpc' \in {"exit", IF Len(events) = 1 THEN "poll" ELSE "dispatch"} /\ (~Full <=> mpc' # "exit")
  BY <1>1, GoesOn
<1>8. EventsAgree'
  <2>1. session_hash' = session_hash \/ session_hash' = session_hash \cup {f}
    BY <1>1
  <2>2. \A n \in DOMAIN events' : events'[n].fd \in session_hash' =>
           /\ events'[n].fd \in session_hash /\ fdt'[events'[n].fd] = fdt[events'[n].fd]
           /\ events'[n].fd \in hungup => events'[n].fd \in hungup'
    BY <1>1, <1>2, <1>6, <2>1
  <2>3. \A n \in DOMAIN events' : events'[n].fd \in session_hash \cup {listener}
                                    => events'[n].fd \in session_hash' \cup {listener}
    BY <2>1
  <2>4. EventsAgree
    BY DEF RegistryInv
  <2>5. QED
    BY <1>0, <1>7, <2>2, <2>3, <2>4, NextEvent
<1>9. PollerAgrees'
  <2>1. CASE Full
    <3>1. UNCHANGED <<fs_socket, poll_fds, queue, session_hash>> /\ mpc' = "exit" /\ Full'
      BY <1>1, <1>7, <2>1 DEF pollerVars, Full, On
    <3>2. QED
      BY <1>0, <3>1 DEF RegistryInv, PollerAgrees, Before, Running
  <2>2. CASE ~Full
    <3>1. AddConnection(f, sent \/ gone) /\ session_hash' = session_hash \cup {f}
      BY <1>1, <2>2
    <3>2. Wellformed' /\ Registered' = Registered \cup {f} /\ fs_socket' = fs_socket
      BY <1>0, <1>2, <1>3, <3>1, Adds DEF AddConnection
    <3>3. mpc' \in {"poll", "dispatch"}
      BY <1>7, <2>2
    <3>4. QED
      BY <1>0, <1>2, <3>1, <3>2, <3>3 DEF PollerAgrees, Before, Running, Wellformed
  <2>3. QED
    BY <2>1, <2>2
<1>10. QED
  BY <1>8, <1>9 DEF RegistryInv

\* An event that changes nothing of what is registered.
LEMMA RegistryIdle ==
  ASSUME Inv, RegistryInv, KernelAgrees', mpc = "dispatch", events' = Tail(events), Goes(TRUE),
         UNCHANGED <<config, pollerVars, kernelVars, fdt, listener, session_hash>>
  PROVE  RegistryInv'
<1> USE DEF pollerVars, kernelVars
<1>0. /\ events # <<>>
      /\ mpc' \in {"poll", "dispatch"}
      /\ mpc' \in {"exit", IF Len(events) = 1 THEN "poll" ELSE "dispatch"}
  BY GoesOn DEF RegistryInv, EventsAgree, Goes
<1>1. EventsAgree'
  BY <1>0, NextEvent DEF RegistryInv
<1>2. PollerAgrees'
  BY <1>0 DEF RegistryInv, PollerAgrees, Before, Running, Wellformed, Registered
<1>3. QED
  BY <1>1, <1>2 DEF RegistryInv

\* A connection is released; no event that is left is about it.
LEMMA RegistryDisconnect ==
  ASSUME Inv, RegistryInv, CallbacksSucceed, KernelAgrees', HandleDisconnect, config' = config
  PROVE  RegistryInv'
<1> DEFINE f == Head(events).fd
<1>0. /\ mpc = "dispatch" /\ Wellformed
      /\ fs_socket = listener /\ Registered = session_hash \cup {listener}
      /\ events # <<>> /\ events' = Tail(events)
      /\ UNCHANGED listener
  BY DEF HandleDisconnect, Dispatch, RegistryInv, KernelAgrees, PollerAgrees, EventsAgree, Running,
         setupVars
<1>1. CASE f \notin session_hash
  <2>1. Goes(TRUE) /\ UNCHANGED <<pollerVars, kernelVars, fdt, session_hash>>
    BY <1>1 DEF HandleDisconnect
  <2>2. QED
    BY <1>0, <2>1, RegistryIdle
<1>2. CASE f \in session_hash
  <2>1. /\ Goes(f \in Registered) /\ session_hash' = session_hash \ {f}
        /\ RemoveConnection(f) /\ Close(f)
    BY <1>2 DEF HandleDisconnect, ReleaseConnection, Inv, SessionsAgree
  <2>2. /\ f \in Fds /\ f # listener /\ f \in Registered
        /\ \A g \in Fds : g # f => fdt'[g] = fdt[g]
    <3>1. f \in Fds /\ f # listener
      BY <1>0, <1>2, Names DEF Inv, Types, DescriptorsAgree, HasListener
    <3> HIDE DEF f
    <3>2. \A g \in Fds : fdt'[g] = IF g = f THEN "free" ELSE fdt[g]
      BY <2>1, CloseFrees DEF Inv
    <3>3. QED
      BY <1>0, <1>2, <3>1, <3>2
  <2>3. mpc' # "exit" /\ mpc' \in {"exit", IF Len(events) = 1 THEN "poll" ELSE "dispatch"}
    BY <2>1, <2>2, GoesOn
  <2>4. /\ f = events[1].fd /\ 1 \in DOMAIN events
        /\ \A n \in DOMAIN events' : events'[n].fd \in Fds /\ n \in Nat /\ n >= 1
                                     /\ n + 1 \in DOMAIN events /\ events'[n] = events[n + 1]
    <3> DEFINE EV == [type : EventTypes, fd : Fds, of : Owners]
    <3>1. events \in Seq(EV)
      BY DEF RegistryInv, EventsAgree
    <3>2. \A x \in EV : x.fd \in Fds
      OBVIOUS
    <3> HIDE DEF EV
    <3>3. /\ Head(events) = events[1] /\ 1 \in DOMAIN events /\ Tail(events) \in Seq(EV)
          /\ \A n \in DOMAIN Tail(events) : n \in Nat /\ n >= 1 /\ n + 1 \in DOMAIN events
                                             /\ Tail(events)[n] = events[n + 1]
      BY <1>0, <3>1, TailProperties
    <3>4. \A n \in DOMAIN Tail(events) : Tail(events)[n] \in EV
      BY <3>3
    <3>5. QED
      BY <1>0, <3>2, <3>3, <3>4
  <2> HIDE DEF f
  <2>5. ~On("win32") => \A n \in DOMAIN events' : events'[n].fd # f
    <3>1. ASSUME ~On("win32"), NEW n \in DOMAIN events', events'[n].fd = f PROVE FALSE
      <4>1. n + 1 \in DOMAIN events /\ events[n + 1].fd = events[1].fd /\ n >= 1 /\ n \in Nat
        BY <2>4, <3>1
      <4>2. n + 1 = 1
        BY <1>0, <2>4, <3>1, <4>1 DEF RegistryInv, EventsAgree, Running
      <4>3. QED
        BY <4>1, <4>2
    <3>2. QED
      BY <3>1
  <2>6. EventsAgree'
    <3>1. \A n \in DOMAIN events' : events'[n].fd \in session_hash' =>
             /\ events'[n].fd \in session_hash /\ fdt'[events'[n].fd] = fdt[events'[n].fd]
             /\ events'[n].fd \in hungup => events'[n].fd \in hungup'
      BY <2>1, <2>2, <2>4 DEF Close
    <3>2. ~On("win32") => \A n \in DOMAIN events' : events'[n].fd \in session_hash \cup {listener}
                                    => events'[n].fd \in session_hash' \cup {listener}
      BY <2>1, <2>5
    <3>3. EventsAgree
      BY DEF RegistryInv
    <3>4. QED
      BY <1>0, <2>3, <3>1, <3>2, <3>3, NextEvent
  <2>7. Wellformed' /\ Registered' = Registered \ {f} /\ fs_socket' = fs_socket
    BY <1>0, <2>1, <2>2, Removes DEF RemoveConnection
  <2>8. PollerAgrees'
    BY <1>0, <2>1, <2>2, <2>3, <2>7 DEF PollerAgrees, Before, Running, Wellformed
  <2>9. QED
    BY <2>6, <2>8 DEF RegistryInv
<1>3. QED
  BY <1>1, <1>2

\* The server closes what is left.
LEMMA RegistryFinalize ==
  ASSUME Inv, RegistryInv, CallbacksSucceed, KernelAgrees',
         FinalizeConnection \/ CloseListener \/ PollerDestroy, config' = config
  PROVE  RegistryInv'
<1>0. UNCHANGED <<events, listener>> /\ mpc # "dispatch" /\ mpc' # "dispatch"
  BY DEF FinalizeConnection, CloseListener, PollerDestroy, setupVars, loopVars
<1>1. KernelAgrees'
  OBVIOUS
<1>2. CASE FinalizeConnection
  <2>1. PICK f \in session_hash :
          ReleaseConnection(f) /\ mpc' = IF f \in Registered THEN "poll" ELSE "exit"
    BY <1>2 DEF FinalizeConnection, Inv, SessionsAgree
  <2>2. /\ mpc = "poll" /\ Wellformed /\ fs_socket = listener /\ events = <<>>
        /\ Registered = session_hash \cup {listener}
    BY <1>2 DEF FinalizeConnection, RegistryInv, PollerAgrees, EventsAgree, Running
  <2>3. f # listener /\ f \in Registered
    BY <2>2, Names DEF Inv, Types, DescriptorsAgree, HasListener
  <2>4. RemoveConnection(f) /\ session_hash' = session_hash \ {f} /\ mpc' = "poll"
    BY <2>1, <2>3 DEF ReleaseConnection, Inv, SessionsAgree
  <2>5. Wellformed' /\ Registered' = Registered \ {f} /\ fs_socket' = fs_socket
    BY <2>2, <2>3, <2>4, Removes DEF RemoveConnection
  <2>6. PollerAgrees'
    BY <1>0, <2>2, <2>3, <2>4, <2>5 DEF PollerAgrees, Before, Running, Wellformed
  <2>7. EventsAgree'
    BY <1>0, <2>2, <2>4 DEF RegistryInv, EventsAgree, Fresh, On
  <2>8. QED
    BY <1>1, <2>6, <2>7 DEF RegistryInv
<1>3. CASE CloseListener \/ PollerDestroy
  <2>1. /\ mpc \in {"poll", "destroy"} /\ mpc' \in {"destroy", "ended"}
        /\ session_hash' = {} /\ UNCHANGED <<fs_socket, poll_fds, queue>>
    BY <1>3 DEF CloseListener, PollerDestroy, Inv, SessionsAgree, pollerVars, loopVars, hashVars
  <2>2. PollerAgrees'
    BY <2>1 DEF RegistryInv, PollerAgrees, Before, Running
  <2>3. EventsAgree'
    BY <1>0, <2>1 DEF RegistryInv, EventsAgree, Fresh, Running, On
  <2>4. QED
    BY <1>1, <2>2, <2>3 DEF RegistryInv
<1>4. QED
  BY <1>2, <1>3

\* What clients, workers and other threads do reaches the poller through the
\* queue of the kernel only.
LEMMA RegistryEnvironment ==
  ASSUME Inv, RegistryInv, CallbacksSucceed, KernelAgrees', Environment, ~Exited, config' = config
  PROVE  RegistryInv'
<1> DEFINE Stays == /\ UNCHANGED <<fs_socket, poll_fds, events, listener, session_hash>>
                    /\ \A f \in session_hash : fdt'[f] = fdt[f]
                    /\ \A f \in session_hash : f \in hungup => f \in hungup'
                    /\ mpc' \in {mpc, "killed"}
           Calm == UNCHANGED queue \/ \E f \in Fds : queue' = Queued(f)
<1>1. Stays /\ Calm => RegistryInv'
  <2> SUFFICES ASSUME Stays, Calm PROVE RegistryInv'
    OBVIOUS
  <2>1. KernelAgrees'
    OBVIOUS
  <2>2. EventsAgree'
    BY DEF RegistryInv, EventsAgree, Fresh, Running, On, IsNewConnection, IsDeparture
  <2>3. CASE Running
    <3>1. Wellformed /\ fs_socket = listener /\ Registered = session_hash \cup {listener}
      BY <2>3 DEF RegistryInv, PollerAgrees
    <3>2. Wellformed' /\ Registered' = Registered
      <4>1. CASE UNCHANGED queue
        BY <3>1, <4>1 DEF Wellformed, Registered
      <4>2. ASSUME NEW f \in Fds, queue' = Queued(f) PROVE Wellformed' /\ Registered' = Registered
        BY <3>1, <4>2, Queues
      <4>3. QED
        BY <4>1, <4>2
    <3>3. PollerAgrees'
      BY <2>3, <3>1, <3>2 DEF RegistryInv, PollerAgrees, Before, Running, Wellformed
    <3>4. QED
      BY <2>1, <2>2, <3>3 DEF RegistryInv
  <2>4. CASE ~Running
    <3>1. queue' \in Seq(Fds)
      BY AppendProperties DEF Queued, RegistryInv, PollerAgrees
    <3>2. ~Running'
      BY <2>4 DEF Running
    <3>3. mpc' # "exit"
      BY DEF Exited
    <3>4. PollerAgrees'
      BY <3>1, <3>2, <3>3 DEF RegistryInv, PollerAgrees, Before
    <3>5. QED
      BY <2>1, <2>2, <3>4 DEF RegistryInv
  <2>5. QED
    BY <2>3, <2>4
<1>2. ASSUME NEW f \in session_hash PROVE f \in Fds /\ fdt[f] \notin {"free", "other"}
  BY Names DEF Inv, Types, SessionsAgree, Places, Exited
<1>3. CASE OtherOpens
  <2>1. PICK f \in NewFds : fdt' = [fdt EXCEPT ![f] = "other"]
    BY <1>3 DEF OtherOpens
  <2>2. Stays
    BY <1>2, <1>3, <2>1
       DEF OtherOpens, NewFds, pollerVars, kernelVars, setupVars, loopVars, hashVars, Inv, Types
  <2>3. Calm
    BY <1>3 DEF OtherOpens, pollerVars
  <2>4. QED
    BY <1>1, <2>2, <2>3
<1>4. ASSUME NEW f \in Fds, OtherCloses(f) PROVE RegistryInv'
  <2>1. fdt[f] = "other" /\ fdt' = [fdt EXCEPT ![f] = "free"] /\ hungup' = hungup \ {f}
    BY <1>4 DEF OtherCloses, Close, Closed
  <2>2. Stays
    BY <1>2, <1>4, <2>1 DEF OtherCloses, pollerVars, setupVars, loopVars, hashVars, Inv, Types
  <2>3. Calm
    BY <1>4 DEF OtherCloses, pollerVars
  <2>4. QED
    BY <1>1, <2>2, <2>3
<1>5. CASE Terminate
  BY <1>1, <1>5 DEF Terminate, pollerVars, kernelVars, setupVars, loopVars, hashVars
<1>6. ASSUME NEW c \in Clients, Connect(c) \/ Abort(c) PROVE RegistryInv'
  <2>1. Stays
    BY <1>6 DEF Connect, Abort, Kernel, pollerVars, setupVars, loopVars, hashVars
  <2>2. Connect(c) => listener \in Fds
    BY DEF Connect, Inv, DescriptorsAgree, HasListener
  <2>3. Calm
    BY <1>6, <2>2 DEF Connect, Abort, Kernel, pollerVars
  <2>4. QED
    BY <1>1, <2>1, <2>3
<1>7. ASSUME NEW f \in Fds,
             ClientSends(f) \/ ClientCloses(f) \/ WorkerReceives(f) \/ OtherGets(f)
      PROVE  RegistryInv'
  <2>1. Stays
    BY <1>7 DEF ClientSends, ClientCloses, WorkerReceives, OtherGets, Kernel, pollerVars, setupVars,
                loopVars, hashVars
  <2>2. Calm
    BY <1>7 DEF ClientSends, ClientCloses, WorkerReceives, OtherGets, Kernel, pollerVars
  <2>3. QED
    BY <1>1, <2>1, <2>2
<1>8. ASSUME NEW f \in Fds PROVE ~CallbackFails(f)
  BY DEF CallbackFails, CallbacksSucceed
<1>9. QED
  BY <1>3, <1>4, <1>5, <1>6, <1>7, <1>8 DEF Environment

LEMMA StepRegistry ==
  Inv /\ Waiting /\ KernelAgrees' /\ CallbacksSucceed /\ RegistryInv /\ [Next]_vars => RegistryInv'
<1> SUFFICES ASSUME Inv, Waiting, KernelAgrees', CallbacksSucceed, RegistryInv, [Next]_vars
             PROVE  RegistryInv'
  OBVIOUS
<1>1. config' = config
  BY ConfigIsKept
<1>2. CASE UNCHANGED vars
  <2> USE <1>2 DEF vars, pollerVars, kernelVars, setupVars, loopVars, hashVars
  <2>1. PollerAgrees'
    BY DEF RegistryInv, PollerAgrees, Wellformed, Registered, Running, Full, On
  <2>2. EventsAgree'
    BY DEF RegistryInv, EventsAgree, Fresh, IsNewConnection, IsDeparture, Running, On
  <2>3. QED
    BY <2>1, <2>2 DEF RegistryInv
<1>3. CASE AcceptFails \/ HandleNewData
  <2>1. /\ mpc = "dispatch" /\ events' = Tail(events) /\ Goes(TRUE)
        /\ UNCHANGED <<config, pollerVars, kernelVars, fdt, listener, session_hash>>
    BY <1>3 DEF AcceptFails, HandleNewData, Dispatch, setupVars, hashVars
  <2>2. QED
    BY <2>1, RegistryIdle
<1>4. QED
  BY <1>1, <1>2, <1>3, RegistrySetup, RegistryWait, RegistryAccept, RegistryDisconnect,
     RegistryFinalize, RegistryEnvironment
     DEF Next, MainThread, Iterate

-----------------------------------------------------------------------------
(* The theorems about the poller *)

\* The inductive invariant of the poller: unless a callback fails, what
\* poller_add_connection and poller_remove_connection made of it agrees with the
\* table of the sessions, and the events left of a batch are about what is
\* registered (server.c:51-54, 81-152).
THEOREM RegistryInvHolds == Spec => [](CallbacksSucceed => RegistryInv)
<1>1. Init => (CallbacksSucceed => RegistryInv)
  BY InitRegistry
<1>2. Inv /\ Waiting /\ KernelAgrees' /\ [Next]_vars /\ (CallbacksSucceed => RegistryInv)
        => (CallbacksSucceed => RegistryInv)'
  BY ConfigIsKept, StepRegistry DEF CallbacksSucceed
<1>3. QED
  BY <1>1, <1>2, InvHolds, WaitingHolds, KernelHolds, PTL DEF Spec

\* Every accepted connection has a session and the listener is open, whatever
\* fails; unless a callback fails, what is registered with the poller, what has a
\* session and what is an open connection is one and the same, and so no
\* poller_remove_connection meets a descriptor that it does not know
\* (server.c:51-54, 81-87, 116-123; win32/poller.c:41, 61).
THEOREM RegistryIsTrue == Spec => []RegistryMatches
<1>1. Inv /\ Waiting /\ KernelAgrees /\ (CallbacksSucceed => RegistryInv) => RegistryMatches
  <2> SUFFICES ASSUME Inv, Waiting, KernelAgrees, CallbacksSucceed => RegistryInv
               PROVE  RegistryMatches
    OBVIOUS
  <2>1. servinfo \in BOOLEAN /\ wsa_started \in BOOLEAN
    BY DEF Inv, Types
  <2>2. termination_requested \in BOOLEAN
    BY DEF KernelAgrees
  <2>3. {servinfo, termination_requested, wsa_started} \subseteq BOOLEAN
    BY <2>1, <2>2, Zenon
  <2>4. {listener, fs_socket} \subseteq Fds \cup {INVALID_SOCKET}
    BY DEF Inv, Types, KernelAgrees
  <2>5. addr \in 1 .. Addresses + 1
    BY TcpServerAssumption DEF Inv, Types, SetupAgrees, KernelAgrees
  <2>6. ASSUME NEW s \in Seq(Fds) PROVE ToSet(s) \subseteq Fds
    BY DEF ToSet
  <2>7. Registered \cup ToSet(queue) \subseteq Fds
    BY <2>6 DEF KernelAgrees, Registered
  <2>8. TypeOK
    BY <2>3, <2>4, <2>5, <2>7
       DEF TypeOK, Inv, Types, KernelAgrees, Waiting
  <2>9. ASSUME Running
        PROVE  fdt[listener] = "listener" /\ {f \in Fds : fdt[f] \in Clients} \subseteq session_hash
    BY <2>9 DEF Inv, Types, DescriptorsAgree, HasListener, Running
  <2>10. ASSUME Running, CallbacksSucceed
         PROVE  /\ IsInjective(poll_fds) /\ IsInjective(queue)
                /\ Registered = session_hash \cup {listener}
                /\ ToSet(queue) \subseteq Registered
                /\ session_hash = {f \in Fds : fdt[f] \in Clients}
    BY <2>10
       DEF RegistryInv, PollerAgrees, Wellformed, Inv, Types, DescriptorsAgree, SessionsAgree, Running
  <2>11. CallbacksSucceed /\ mpc = "exit" => Full \/ poll_fds = <<>>
    BY DEF RegistryInv, PollerAgrees
  <2>12. QED
    BY <2>8, <2>9, <2>10, <2>11 DEF RegistryMatches
<1>2. QED
  BY <1>1, InvHolds, WaitingHolds, KernelHolds, RegistryInvHolds, PTL

\* Unless a callback fails, no event of a batch is about an earlier connection of its
\* descriptor when the server comes to it; whatever fails, the events fit their
\* array but for one more on Windows (server.c:51-54, 138-152;
\* win32/poller.c:73-86).
THEOREM NoEventIsStale == Spec => []EventsAreFresh
<1>1. KernelAgrees /\ (CallbacksSucceed => RegistryInv) => EventsAreFresh
  BY DEF KernelAgrees, RegistryInv, EventsAgree, Fresh, EventsAreFresh
<1>2. QED
  BY <1>1, KernelHolds, RegistryInvHolds, PTL
-----------------------------------------------------------------------------
(* The promise about the connections *)

\* As long as the process lives the connections are those with a session, unless a
\* callback fails.
Alive == mpc \notin {"exit", "killed", "undefined"}

AllServed == \A f \in Fds : fdt[f] \in Clients <=> f \in session_hash

LEMMA OpenIsServed == Inv /\ CallbacksSucceed /\ Alive => AllServed
<1> SUFFICES ASSUME Inv, CallbacksSucceed, Alive PROVE AllServed
  OBVIOUS
<1> USE Names DEF Inv, Types, Places, DescriptorsAgree, SessionsAgree, Alive, AllServed
<1>1. CASE mpc \in {"poll", "dispatch"}
  BY <1>1
<1>2. CASE mpc \in {"bind", "bound", "listen", "create"}
  BY <1>2 DEF HasListener
<1>3. CASE mpc = "destroy"
  BY <1>3 DEF HasPollerOnly
<1>4. CASE mpc \in {"initialize", "getaddrinfo", "socket", "unbound", "failed", "freed", "ended"}
  BY <1>4 DEF HasNothing
<1>5. QED
  BY <1>1, <1>2, <1>3, <1>4

\* So descriptors that are given to others do not count.
LEMMA SameConnections ==
  ASSUME Inv, Inv', CallbacksSucceed, UNCHANGED config,
         Alive, UNCHANGED fdt \/ Alive', UNCHANGED session_hash,
         \A f \in session_hash : f \in hungup' <=> f \in hungup
  PROVE  Sock' = Sock
<1>1. AllServed
  BY OpenIsServed
<1>2. CASE UNCHANGED fdt
  BY <1>1, <1>2 DEF Sock, AllServed
<1>3. CASE Alive'
  <2>1. (Inv /\ CallbacksSucceed /\ Alive => AllServed)'
    BY OpenIsServed, PTL
  <2>2. AllServed'
    BY <1>3, <2>1 DEF CallbacksSucceed
  <2>3. QED
    BY <1>1, <2>2 DEF Sock, AllServed
<1>4. QED
  BY <1>2, <1>3

\* accept is Accept, with the table of the sessions or, where the array is full,
\* without.
LEMMA AcceptIsAccept ==
  ASSUME Inv, CallbacksSucceed, Waiting, HandleNewConnection
  PROVE  \E f \in Fds : Conn!Accept(f)
<1>1. PICK c \in backlog, f \in NewFds, sent \in BOOLEAN, gone \in BOOLEAN :
        /\ fdt' = [fdt EXCEPT ![f] = c]
        /\ hungup' = IF gone THEN hungup \cup {f} ELSE hungup
        /\ session_hash' \in {session_hash, session_hash \cup {f}}
  BY Zenon DEF HandleNewConnection
<1>2. /\ f \in Fds /\ fdt[f] = "free" /\ c \in Clients /\ mpc = "dispatch"
      /\ UNCHANGED termination_requested
      /\ fdt \in [Fds -> Clients \cup {"free", "other", "listener", "poller"}]
  BY <1>1 DEF NewFds, Waiting, HandleNewConnection, Dispatch, Inv, Types
<1> DEFINE state == IF f \in hungup' THEN "hup" ELSE "open"
<1>3. Sock' = [Sock EXCEPT ![f] = state]
  BY <1>1, <1>2 DEF Sock
<1>4. Sock[f] = "closed" /\ state \in {"open", "hup"}
  BY <1>2, Names DEF Sock
<1>5. {g \in Fds : Sock[g] # "closed"} \subseteq session_hash
  BY <1>2, OpenIsServed DEF Sock, Alive, AllServed
<1> HIDE DEF state
<1>6. Conn!Accept(f)
  BY <1>1, <1>2, <1>3, <1>4, <1>5 DEF Conn!Accept
<1>7. QED
  BY <1>2, <1>6

\* A connection that is released is not the server's any more, nor is its socket
\* open.
LEMMA ReleaseIsRelease ==
  ASSUME Inv, CallbacksSucceed, Running, NEW f \in session_hash, ReleaseConnection(f),
         f \in hungup \/ termination_requested, UNCHANGED termination_requested
  PROVE  Conn!Release(f)
<1>1. f \in Fds /\ fdt[f] \in Clients
  BY OpenIsServed DEF Inv, Types, Running, Alive, AllServed
<1>2. Sock[f] \in {"open", "hup"} /\ (f \in hungup => Sock[f] = "hup")
  BY <1>1 DEF Sock
<1>3. /\ \A g \in Fds : fdt'[g] = IF g = f THEN "free" ELSE fdt[g]
      /\ hungup' = hungup \ {f} /\ session_hash' = session_hash \ {f}
  BY CloseFrees DEF ReleaseConnection, Close, Inv, SessionsAgree
<1>4. Sock' = [Sock EXCEPT ![f] = "closed"]
  BY <1>1, <1>3, Names DEF Sock
<1>5. QED
  BY <1>2, <1>3, <1>4 DEF Conn!Release

LEMMA StepConnections ==
  ASSUME Inv, Inv', CallbacksSucceed, UNCHANGED config, Waiting, RegistryInv, Next, Alive,
         ~UNCHANGED Conn!vars
  PROVE  Conn!Next
<1>0. \A f \in session_hash : f \in Fds
  BY DEF Inv, Types
<1>1. ASSUME UNCHANGED <<session_hash, termination_requested>>,
             UNCHANGED fdt \/ Alive',
             \A f \in session_hash : f \in hungup' <=> f \in hungup
      PROVE  FALSE
  BY <1>1, SameConnections DEF Conn!vars
<1>2. CASE Setup
  <2>1. session_hash = {} /\ UNCHANGED <<session_hash, termination_requested>>
    BY <1>2
       DEF Setup, Initialize, GetAddrInfo, OpenSocket, Bind, FreeAddrInfo, FailedToBind, Listen,
           CreatePoller, FreeServer, SetupUnchanged, loopVars, hashVars, Inv, DescriptorsAgree
  <2>2. UNCHANGED fdt \/ Alive'
    BY <1>2
       DEF Alive, Setup, Initialize, GetAddrInfo, OpenSocket, SocketFails, Bind, FreeAddrInfo, FailedToBind,
           Listen, CreatePoller, OpenPoller, FreeServer, Fatal
  <2>3. QED
    BY <1>1, <2>1, <2>2
<1>3. CASE PollerWait \/ AcceptFails \/ HandleNewData
  <2>1. UNCHANGED <<session_hash, termination_requested, fdt, hungup>>
    BY <1>3 DEF PollerWait, AcceptFails, HandleNewData, Dispatch, kernelVars, hashVars
  <2>2. QED
    BY <1>1, <2>1
<1>4. CASE HandleNewConnection
  BY <1>4, AcceptIsAccept, Zenon DEF Conn!Next
<1>5. CASE HandleDisconnect
  <2>1. PICK f : f = Head(events).fd
    OBVIOUS
  <2>2. CASE f \notin session_hash
    <3>1. UNCHANGED <<session_hash, termination_requested, fdt, hungup>>
      BY <1>5, <2>1, <2>2 DEF HandleDisconnect, Dispatch, kernelVars
    <3>2. QED
      BY <1>1, <3>1
  <2>3. CASE f \in session_hash
    <3>1. /\ ReleaseConnection(f) /\ UNCHANGED termination_requested
          /\ Running /\ events # <<>> /\ Head(events).type = "PT_DISCONNECTED"
      BY <1>5, <2>1, <2>3
         DEF HandleDisconnect, Dispatch, Running, RegistryInv, EventsAgree
    <3>2. Head(events) = events[1] /\ 1 \in DOMAIN events
      <4> DEFINE EV == [type : EventTypes, fd : Fds, of : Owners]
      <4>1. events \in Seq(EV)
        BY DEF RegistryInv, EventsAgree
      <4> HIDE DEF EV
      <4>2. QED
        BY <3>1, <4>1, TailProperties
    <3>3. f \in hungup
      BY <2>1, <2>3, <3>1, <3>2 DEF RegistryInv, EventsAgree, IsDeparture
    <3>4. Conn!Release(f)
      BY <2>3, <3>1, <3>3, ReleaseIsRelease
    <3>5. QED
      BY <1>0, <2>3, <3>4, Zenon DEF Conn!Next
  <2>4. QED
    BY <2>2, <2>3
<1>6. CASE FinalizeConnection
  <2>1. PICK f \in session_hash : ReleaseConnection(f)
    BY <1>6 DEF FinalizeConnection
  <2>2. Running /\ termination_requested /\ UNCHANGED termination_requested
    BY <1>6 DEF FinalizeConnection, Running
  <2>3. Conn!Release(f)
    BY <2>1, <2>2, ReleaseIsRelease
  <2>4. QED
    BY <1>0, <2>1, <2>3, Zenon DEF Conn!Next
<1>7. CASE CloseListener \/ PollerDestroy
  <2>1. /\ session_hash = {} /\ UNCHANGED <<session_hash, termination_requested>>
        /\ Alive'
    BY <1>7 DEF Alive, CloseListener, PollerDestroy, loopVars, hashVars, Inv, SessionsAgree
  <2>2. QED
    BY <1>1, <2>1
<1>8. ASSUME NEW c \in Clients, Connect(c) \/ Abort(c) PROVE FALSE
  <2>1. UNCHANGED <<session_hash, termination_requested, fdt, hungup>>
    BY <1>8 DEF Connect, Abort, Kernel, loopVars, hashVars
  <2>2. QED
    BY <1>1, <2>1
<1>9. ASSUME NEW f \in Fds,
             ClientSends(f) \/ WorkerReceives(f) \/ OtherCloses(f) \/ OtherGets(f) \/ CallbackFails(f)
      PROVE  FALSE
  <2>1. UNCHANGED <<session_hash, termination_requested>> /\ Alive'
    BY <1>9
       DEF Alive, ClientSends, WorkerReceives, OtherCloses, OtherGets, CallbackFails, Kernel, loopVars,
           hashVars
  <2>2. ~CallbackFails(f)
    BY DEF CallbackFails, CallbacksSucceed
  <2>3. fdt[f] = "other" => f \notin session_hash
    BY OpenIsServed, Names DEF AllServed
  <2>4. ~OtherGets(f)
    BY <2>3 DEF OtherGets
  <2>5. \A g \in session_hash : g \in hungup' <=> g \in hungup
    BY <1>9, <2>2, <2>3, <2>4 DEF ClientSends, WorkerReceives, OtherCloses, Close, Kernel
  <2>6. QED
    BY <1>1, <2>1, <2>5
<1>10. ASSUME NEW f \in Fds, ClientCloses(f) PROVE Conn!Next
  <2>1. /\ fdt[f] \in Clients /\ f \notin hungup /\ hungup' = hungup \cup {f}
        /\ UNCHANGED <<session_hash, termination_requested, fdt>>
    BY <1>10 DEF ClientCloses, Kernel, loopVars, hashVars
  <2>2. Sock[f] = "open" /\ Sock' = [Sock EXCEPT ![f] = "hup"]
    BY <2>1 DEF Sock
  <2>3. Conn!Leave(f)
    BY <2>1, <2>2 DEF Conn!Leave
  <2>4. QED
    BY <2>3, Zenon DEF Conn!Next
<1>11. CASE OtherOpens
  <2>1. UNCHANGED <<session_hash, termination_requested, hungup>> /\ Alive'
    BY <1>11 DEF Alive, OtherOpens, loopVars, hashVars, kernelVars
  <2>2. QED
    BY <1>1, <2>1
<1>12. CASE Terminate
  <2>1. /\ ~termination_requested /\ termination_requested' = TRUE
        /\ UNCHANGED <<session_hash, fdt, hungup>>
    BY <1>12 DEF Terminate, loopVars, hashVars, kernelVars
  <2>2. Sock' = Sock
    BY <2>1 DEF Sock
  <2>3. Conn!Terminate
    BY <2>1, <2>2, Zenon DEF Conn!Terminate
  <2>4. QED
    BY <2>3, Zenon DEF Conn!Next
<1>13. QED
  BY <1>2, <1>3, <1>4, <1>5, <1>6, <1>7, <1>8, <1>9, <1>10, <1>11, <1>12
     DEF Next, MainThread, Iterate, Environment, Exited, Alive

\* Unless a callback fails, every step of the server is a step of Connections or
\* leaves it alone, on every platform: no descriptor is taken from a client that is
\* still there, although numbers are used again in the middle of a batch
\* (server.c:51-54, 81-171).
THEOREM ServesConnections == Spec => ConnectionPromise
<1>1. Init => Conn!Init
  <2> SUFFICES ASSUME Init PROVE Conn!Init
    OBVIOUS
  <2>1. Sock = [f \in Fds |-> "closed"]
    BY Names DEF Init, Sock
  <2>2. QED
    BY <2>1 DEF Init, Conn!Init
<1>2. Inv /\ Inv' /\ Waiting /\ (CallbacksSucceed => RegistryInv) /\ [Next]_vars
        => [CallbacksSucceed => Conn!Next]_(Conn!vars)
  <2> SUFFICES ASSUME Inv, Inv', Waiting, CallbacksSucceed => RegistryInv, [Next]_vars,
                      ~UNCHANGED Conn!vars, CallbacksSucceed
               PROVE  Conn!Next
    OBVIOUS
  <2>1. CASE UNCHANGED vars
    BY <2>1 DEF vars, kernelVars, loopVars, hashVars, Conn!vars, Sock
  <2>2. CASE Next /\ ~Exited
    BY <2>2, ConfigIsKept, StepConnections DEF Exited, Alive
  <2>3. QED
    BY <2>1, <2>2 DEF Next
<1>3. QED
  BY <1>1, <1>2, InvHolds, WaitingHolds, RegistryInvHolds, PTL DEF Spec, ConnectionPromise
=============================================================================
