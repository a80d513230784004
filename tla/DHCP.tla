------------------------------- MODULE DHCP -------------------------------
(***************************************************************************)
(* DHCP as DHCPClient.cc and DHCPServer.cc implement it: clients on one    *)
(* network with one server, a network that loses and delays messages, and  *)
(* nodes that stop and start again.                                        *)
(*                                                                         *)
(* A transaction id is a random number that a client draws anew for every  *)
(* message it sends and compares with every answer.  Ids are taken to be   *)
(* unique, so what is left of an id is whose it is (the field client) and  *)
(* whether that client has drawn another one since (the field latest).     *)
(***************************************************************************)
EXTENDS Integers

CONSTANTS
    Clients,    \* the clients, each with a MAC address of its own
    MaxPool     \* the largest pool of addresses a server may have

ASSUME DHCPAssumption == MaxPool \in Nat

Addrs       == 1 .. MaxPool
Unspecified == 0

States      == {"IDLE", "SELECTING", "REQUESTING", "BOUND", "RENEWING",
                "REBINDING", "REBOOTING"}
Timers      == {"start", "TO", "T1", "T2", "lease"}
Requests    == {"DISCOVER", "REQUEST", "REBOOT", "RENEW"}
Replies     == {"OFFER", "ACK", "NAK"}

VARIABLES
    maxNumOfClients,  \* the size of the pool, a parameter of the server that
                      \* no step changes
    up,           \* client -> isOperational
    clientState,  \* client -> its state
    lease,        \* client -> the address of its lease, Unspecified for NULL
    addr,         \* client -> the address its interface is configured with
    timers,       \* client -> the timers that are scheduled
    leased,       \* the server's table: pairs of an address and its owner
    serverUp,     \* the server's isOperational
    net,          \* the messages in flight
    forgot        \* history: the server has lost a lease by stopping

vars == <<maxNumOfClients, up, clientState, lease, addr, timers, leased,
          serverUp, net, forgot>>
clientVars == <<up, clientState, lease, addr, timers>>
serverVars == <<maxNumOfClients, leased, serverUp, forgot>>

Messages ==
    [type : Requests \union Replies, client : Clients,
     ip : Addrs \union {Unspecified}, latest : BOOLEAN]

TypeOK ==
    /\ maxNumOfClients \in 0 .. MaxPool
    /\ up \in [Clients -> BOOLEAN]
    /\ clientState \in [Clients -> States]
    /\ lease \in [Clients -> Addrs \union {Unspecified}]
    /\ addr \in [Clients -> Addrs \union {Unspecified}]
    /\ timers \in [Clients -> SUBSET Timers]
    /\ leased \subseteq Addrs \X Clients
    /\ serverUp \in BOOLEAN
    /\ net \subseteq Messages
    /\ forgot \in BOOLEAN

Init ==
    /\ maxNumOfClients \in 0 .. MaxPool
    /\ up = [c \in Clients |-> TRUE]
    /\ clientState = [c \in Clients |-> "IDLE"]
    /\ lease = [c \in Clients |-> Unspecified]
    /\ addr = [c \in Clients |-> Unspecified]
    /\ timers = [c \in Clients |-> {"start"}]
    /\ leased = {}
    /\ serverUp = TRUE
    /\ net = {}
    /\ forgot = FALSE

---------------------------------------------------------------------------
(* The client.                                                             *)

\* A client sends a message with a new transaction id; msgs is what is left of
\* the network.
sendToUDP(c, type, ip, msgs) ==
    net' = {[m EXCEPT !.latest = m.latest /\ m.client # c] : m \in msgs}
           \union {[type |-> type, client |-> c, ip |-> ip, latest |-> TRUE]}

\* scheduleTimerTO replaces the response timeout of the client.
scheduleTimerTO(c) == timers' = [timers EXCEPT ![c] = @ \union {"TO"}]

\* initClient starts the discovery again, whatever the client has.
initClient(c, msgs) ==
    /\ sendToUDP(c, "DISCOVER", Unspecified, msgs)
    /\ timers' = [timers EXCEPT ![c] = {"TO"}]
    /\ clientState' = [clientState EXCEPT ![c] = "SELECTING"]

\* A client that still has a lease asks for it again.
initRebootedClient(c) ==
    /\ sendToUDP(c, "REBOOT", lease[c], net)
    /\ timers' = [timers EXCEPT ![c] = (@ \ {"start"}) \union {"TO"}]
    /\ clientState' = [clientState EXCEPT ![c] = "REBOOTING"]

StartDHCP(c) ==
    /\ "start" \in timers[c]
    /\ IF lease[c] # Unspecified THEN initRebootedClient(c)
                                 ELSE initClient(c, net)
    /\ UNCHANGED <<up, lease, addr, serverVars>>

\* WAIT_OFFER and WAIT_ACK: no answer came in time.  The address stays as it is.
ResponseTimeout(c) ==
    /\ "TO" \in timers[c]
    /\ initClient(c, net)
    /\ UNCHANGED <<up, lease, addr, serverVars>>

\* T1: ask the server to extend the lease.
T1Timeout(c) ==
    /\ "T1" \in timers[c]
    /\ clientState' = [clientState EXCEPT ![c] = "RENEWING"]
    /\ timers' = [timers EXCEPT ![c] = (@ \ {"T1"}) \union {"TO"}]
    /\ sendToUDP(c, "RENEW", lease[c], net)
    /\ UNCHANGED <<up, lease, addr, serverVars>>

\* T2 comes after T1 (0.875 and 0.5 of the lease time) and asks any server.
T2Timeout(c) ==
    /\ "T2" \in timers[c]
    /\ "T1" \notin timers[c]
    /\ clientState[c] = "RENEWING"
    /\ clientState' = [clientState EXCEPT ![c] = "REBINDING"]
    /\ timers' = [timers EXCEPT ![c] = {"TO"}]
    /\ sendToUDP(c, "RENEW", lease[c], net)
    /\ UNCHANGED <<up, lease, addr, serverVars>>

\* bindLease: the interface gets the address of the lease.
bindLease(c) == addr' = [addr EXCEPT ![c] = lease[c]]

\* unboundLease: the interface loses its address.
unboundLease(c) == addr' = [addr EXCEPT ![c] = Unspecified]

\* Mutant: only the first acknowledgement configures the interface.
handleDHCPACKNoRebind(c, m) ==
    /\ addr' = IF clientState[c] = "REQUESTING"
               THEN [addr EXCEPT ![c] = lease[c]] ELSE addr
    /\ timers' = [timers EXCEPT ![c] = (@ \ {"TO"}) \union {"T1", "T2", "lease"}]
    /\ clientState' = [clientState EXCEPT ![c] = "BOUND"]
    /\ net' = net \ {m}
    /\ UNCHANGED lease

\* Mutant: the response timeout is not cancelled.
handleDHCPACKKeepsTimeout(c, m) ==
    /\ bindLease(c)
    /\ timers' = [timers EXCEPT ![c] = @ \union {"T1", "T2", "lease"}]
    /\ clientState' = [clientState EXCEPT ![c] = "BOUND"]
    /\ net' = net \ {m}
    /\ UNCHANGED lease

\* handleDHCPACK: the lease is bound, and T1, T2 and the end of the lease are timed.
handleDHCPACK(c, m) ==
    /\ bindLease(c)
    /\ timers' = [timers EXCEPT ![c] = (@ \ {"TO"}) \union {"T1", "T2", "lease"}]
    /\ clientState' = [clientState EXCEPT ![c] = "BOUND"]
    /\ net' = net \ {m}
    /\ UNCHANGED lease

\* The first offer is accepted.
RecordOffer(c, m) ==
    /\ lease' = [lease EXCEPT ![c] = m.ip]
    /\ clientState' = [clientState EXCEPT ![c] = "REQUESTING"]
    /\ scheduleTimerTO(c)
    /\ sendToUDP(c, "REQUEST", m.ip, net \ {m})
    /\ UNCHANGED addr

\* A refused client starts again, without its address if it was using one.
handleDHCPNAK(c, m) ==
    /\ initClient(c, net \ {m})
    /\ IF clientState[c] \in {"RENEWING", "REBINDING"}
       THEN unboundLease(c) ELSE UNCHANGED addr
    /\ UNCHANGED lease

\* handleDHCPMessage acts on an answer to the client's last message only, and
\* only on the types its state waits for.  UDP has closed the socket of a node
\* that stopped: until the start timer opens it again nothing is received.
Relevant(c, m) ==
    /\ up[c]
    /\ "start" \notin timers[c]
    /\ m.latest
    /\ \/ clientState[c] = "SELECTING" /\ m.type = "OFFER"
       \/ /\ clientState[c] \in {"REQUESTING", "RENEWING", "REBINDING", "REBOOTING"}
          /\ m.type \in {"ACK", "NAK"}

ClientReceives(c, m) ==
    /\ m \in net
    /\ m.client = c
    /\ Relevant(c, m)
    /\ \/ m.type = "OFFER" /\ RecordOffer(c, m)
       \/ m.type = "ACK" /\ handleDHCPACK(c, m)
       \/ m.type = "NAK" /\ handleDHCPNAK(c, m)
    /\ UNCHANGED <<up, serverVars>>

\* NF_L2_ASSOCIATED: the interface has joined a wireless network (again).  Before
\* the socket is open the send of initClient is an error of the simulation.
Associated(c) ==
    /\ up[c]
    /\ "start" \notin timers[c]
    /\ initClient(c, net)
    /\ UNCHANGED <<up, lease, addr, serverVars>>

\* Shutdown and crash: stopApp, and the interface table resets the interface.
ClientStop(c) ==
    /\ up[c]
    /\ up' = [up EXCEPT ![c] = FALSE]
    /\ timers' = [timers EXCEPT ![c] = {}]
    /\ addr' = [addr EXCEPT ![c] = Unspecified]
    /\ UNCHANGED <<clientState, lease, net, serverVars>>

ClientStart(c) ==
    /\ ~up[c]
    /\ up' = [up EXCEPT ![c] = TRUE]
    /\ timers' = [timers EXCEPT ![c] = {"start"}]
    /\ UNCHANGED <<clientState, lease, addr, net, serverVars>>

---------------------------------------------------------------------------
(* The server.                                                             *)

\* The server answers with the transaction id of the message it answers.
Reply(m, type, ip) ==
    net' = (net \ {m}) \union {[m EXCEPT !.type = type, !.ip = ip]}

\* Mutant: the owner is not compared.
getLeaseByMacAny(c) == {a \in Addrs : \E d \in Clients : <<a, d>> \in leased}

getLeaseByMac(c) == {a \in Addrs : <<a, c>> \in leased}

Pool == 1 .. maxNumOfClients

Available(a) == \A c \in Clients : <<a, c>> \notin leased

\* Mutant: the first address of the pool, free or not.
getAvailableLeaseAny(a) == \A b \in Pool : Available(b) => a <= b

\* getAvailableLease: the first address of the pool that is not in the table.
getAvailableLease(a) ==
    /\ Available(a)
    /\ \A b \in Pool : Available(b) => a <= b

\* Mutant: a client that comes back gets another address.
processDiscoverMoves(m) ==
    \/ \E a \in Pool :
          /\ getAvailableLease(a)
          /\ leased' = (leased \ (Addrs \X {m.client})) \union {<<a, m.client>>}
          /\ Reply(m, "OFFER", a)
    \/ /\ \A a \in Pool : ~Available(a)
       /\ net' = net \ {m}
       /\ UNCHANGED leased

\* DHCPDISCOVER: offer the lease the client has, or a new one, or be silent.
processDiscover(m) ==
    \/ \E a \in getLeaseByMac(m.client) :
          Reply(m, "OFFER", a) /\ UNCHANGED leased
    \/ /\ getLeaseByMac(m.client) = {}
       /\ \E a \in Pool :
             /\ getAvailableLease(a)
             /\ leased' = leased \union {<<a, m.client>>}
             /\ Reply(m, "OFFER", a)
    \/ /\ getLeaseByMac(m.client) = {}
       /\ \A a \in Pool : ~Available(a)
       /\ net' = net \ {m}
       /\ UNCHANGED leased

\* DHCPREQUEST that names this server: the answer to an offer.
processRequest(m) ==
    /\ Reply(m, IF m.ip \in getLeaseByMac(m.client) THEN "ACK" ELSE "NAK",
             IF m.ip \in getLeaseByMac(m.client) THEN m.ip ELSE Unspecified)
    /\ UNCHANGED leased

\* DHCPREQUEST after a reboot: silence about an unknown address.  Whose lease
\* it is, is not looked at.
processInitReboot(m) ==
    /\ IF Available(m.ip) THEN net' = net \ {m} ELSE Reply(m, "ACK", m.ip)
    /\ UNCHANGED leased

\* DHCPREQUEST with the client's address: renewing and rebinding.
processRenew(m) ==
    /\ Reply(m, IF Available(m.ip) THEN "NAK" ELSE "ACK",
             IF Available(m.ip) THEN Unspecified ELSE m.ip)
    /\ UNCHANGED leased

processDHCPMessage(m) ==
    /\ m \in net
    /\ serverUp
    /\ \/ m.type = "DISCOVER" /\ processDiscover(m)
       \/ m.type = "REQUEST" /\ processRequest(m)
       \/ m.type = "REBOOT" /\ processInitReboot(m)
       \/ m.type = "RENEW" /\ processRenew(m)
    /\ UNCHANGED <<clientVars, maxNumOfClients, serverUp, forgot>>

\* Shutdown and crash: the table is cleared.
ServerStop ==
    /\ serverUp
    /\ serverUp' = FALSE
    /\ leased' = {}
    /\ forgot' = (forgot \/ leased # {})
    /\ UNCHANGED <<clientVars, maxNumOfClients, net>>

ServerStart ==
    /\ ~serverUp
    /\ serverUp' = TRUE
    /\ UNCHANGED <<clientVars, maxNumOfClients, leased, net, forgot>>

\* The network loses a message, or it reaches nobody who waits for it.
Lose(m) ==
    /\ m \in net
    /\ net' = net \ {m}
    /\ UNCHANGED <<clientVars, serverVars>>

Next ==
    \/ \E c \in Clients :
          \/ StartDHCP(c) \/ ResponseTimeout(c) \/ T1Timeout(c) \/ T2Timeout(c)
          \/ Associated(c) \/ ClientStop(c) \/ ClientStart(c)
          \/ \E m \in net : ClientReceives(c, m)
    \/ \E m \in net : processDHCPMessage(m) \/ Lose(m)
    \/ ServerStop \/ ServerStart

Spec == Init /\ [][Next]_vars

---------------------------------------------------------------------------
\* No two clients use one address, as long as the server has not lost its
\* table: offers, acknowledgements and renewals that are late or repeated never
\* give a client the address of another.
NoDuplicateAddress ==
    ~forgot => \A c, d \in Clients :
                  c # d /\ addr[c] # Unspecified => addr[c] # addr[d]

\* The table of the server is one to one, also after restarts: a client holds at
\* most one address, however often it asks, so the pool is never used up by
\* clients that come back.
OneLeasePerClient ==
    \A a, b \in Addrs, c, d \in Clients :
        <<a, c>> \in leased /\ <<b, d>> \in leased => (a = b <=> c = d)

\* A client that runs is never left without a timer that moves it on, and T2
\* cannot come in a state in which handleTimer throws.  The timer of the lease is
\* never the only one: T2 cancels it, so the lease does not run out before the
\* client has asked again.
TimersMatchState ==
    \A c \in Clients :
        LET t == timers[c] IN
        /\ ~up[c] => t = {}
        /\ "start" \in t => t = {"start"}
        /\ up[c] /\ "start" \notin t =>
              CASE clientState[c] = "BOUND"    -> t = {"T1", "T2", "lease"}
                [] clientState[c] = "RENEWING" -> t = {"TO", "T2", "lease"}
                [] OTHER                       -> t = {"TO"}

\* A client whose state says that it has an address has configured its interface
\* with the address of its lease, after reboots and renewals too.
BoundHasAddress ==
    \A c \in Clients :
        /\ up[c] /\ "start" \notin timers[c]
        /\ clientState[c] \in {"BOUND", "RENEWING", "REBINDING"}
        => addr[c] = lease[c] /\ addr[c] # Unspecified

\* An interface that has an address never gets another one without losing the
\* first, unless the server has lost its table in between: connections of the
\* host survive renewals, timeouts and roaming.
AddressStable ==
    [][\A c \in Clients :
          ~forgot /\ addr[c] # Unspecified => addr'[c] \in {addr[c], Unspecified}]_vars

=============================================================================
