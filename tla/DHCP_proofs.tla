---------------------------- MODULE DHCP_proofs ----------------------------
(***************************************************************************)
(* Proofs about DHCP, for any number of clients and any pool of addresses, *)
(* with lost and delayed messages and with nodes that stop and start.      *)
(***************************************************************************)
EXTENDS DHCP, TLAPS

HoldingStates == {"REQUESTING", "BOUND", "RENEWING", "REBINDING", "REBOOTING"}

\* A client in a state that works with its lease has one.
LeaseInHand == \A c \in Clients : clientState[c] \in HoldingStates => lease[c] \in Addrs

\* An offer names an address.
OffersAddress == \A m \in net : m.type = "OFFER" => m.ip \in Addrs

\* What clients hold and what is offered to them is theirs in the table.
LeasesKnown ==
    ~forgot => \A c \in Clients : lease[c] # Unspecified => <<lease[c], c>> \in leased

OffersKnown ==
    ~forgot => \A m \in net : m.type = "OFFER" => <<m.ip, m.client>> \in leased

\* Until the server forgets, an interface has the address of its lease or none.
UsesOwnLease ==
    ~forgot => \A c \in Clients : addr[c] # Unspecified => addr[c] = lease[c]

ClientInv == TypeOK /\ OffersAddress /\ LeaseInHand /\ TimersMatchState /\ BoundHasAddress

DhcpInv ==
    /\ ClientInv
    /\ OneLeasePerClient
    /\ LeasesKnown
    /\ OffersKnown
    /\ UsesOwnLease

---------------------------------------------------------------------------
\* A client's message is well formed, and the ones it makes out of date stay so.
LEMMA SendTyped ==
    ASSUME NEW c \in Clients, NEW type \in Requests,
           NEW ip \in Addrs \union {Unspecified}, NEW msgs \in SUBSET Messages,
           sendToUDP(c, type, ip, msgs)
    PROVE  /\ net' \subseteq Messages
           /\ \A n \in net' : n.type = "OFFER" =>
                 \E m \in msgs : m.type = "OFFER" /\ m.ip = n.ip /\ m.client = n.client
<1> DEFINE Old(m) == [m EXCEPT !.latest = m.latest /\ m.client # c]
           New == [type |-> type, client |-> c, ip |-> ip, latest |-> TRUE]
<1>1. \A m \in msgs : /\ Old(m) \in Messages
                      /\ Old(m).type = m.type
                      /\ Old(m).ip = m.ip
                      /\ Old(m).client = m.client
  BY DEF Messages
<1>2. New \in Messages /\ New.type # "OFFER"
  BY DEF Messages, Requests
<1>3. net' = {Old(m) : m \in msgs} \union {New}
  BY DEF sendToUDP
<1> HIDE DEF Old, New
<1> QED
  BY <1>1, <1>2, <1>3

\* A server's answer is well formed.
LEMMA ReplyTyped ==
    ASSUME NEW m \in Messages, net \subseteq Messages,
           NEW type \in Replies, NEW ip \in Addrs \union {Unspecified},
           Reply(m, type, ip)
    PROVE  /\ net' \subseteq Messages
           /\ \A n \in net' : n \in net \/ (n.type = type /\ n.ip = ip /\ n.client = m.client)
<1> DEFINE New == [m EXCEPT !.type = type, !.ip = ip]
<1>1. New \in Messages /\ New.type = type /\ New.ip = ip /\ New.client = m.client
  BY DEF Messages
<1>2. net' = (net \ {m}) \union {New}
  BY DEF Reply
<1> HIDE DEF New
<1> QED
  BY <1>1, <1>2

---------------------------------------------------------------------------
\* initClient, called by a client that runs, leaves the discovery timeout only.
LEMMA InitClientKeeps ==
    ASSUME ClientInv, NEW c \in Clients, NEW msgs \in SUBSET net,
           up[c], initClient(c, msgs), up' = up, lease' = lease,
           addr' = addr \/ addr' = [addr EXCEPT ![c] = Unspecified],
           UNCHANGED serverVars
    PROVE  ClientInv'
<1> USE DEF ClientInv
<1>1. /\ timers' = [timers EXCEPT ![c] = {"TO"}]
      /\ clientState' = [clientState EXCEPT ![c] = "SELECTING"]
      /\ sendToUDP(c, "DISCOVER", Unspecified, msgs)
  BY DEF initClient
<1>2. msgs \in SUBSET Messages
  BY DEF TypeOK
<1>3. /\ net' \subseteq Messages
      /\ \A n \in net' : n.type = "OFFER" =>
            \E m \in msgs : m.type = "OFFER" /\ m.ip = n.ip /\ m.client = n.client
  BY <1>1, <1>2, SendTyped DEF Requests
<1>4. TypeOK'
  BY <1>1, <1>3 DEF TypeOK, States, Timers, serverVars
<1>5. OffersAddress'
  BY <1>3 DEF OffersAddress
<1>6. LeaseInHand'
  BY <1>1 DEF LeaseInHand, HoldingStates, TypeOK
<1>7. TimersMatchState'
  BY <1>1 DEF TimersMatchState, TypeOK
<1>8. BoundHasAddress'
  BY <1>1 DEF BoundHasAddress, TypeOK
<1> QED
  BY <1>4, <1>5, <1>6, <1>7, <1>8

\* A request of a client that runs: new state, new timers, its lease as it was.
LEMMA RequestKeeps ==
    ASSUME ClientInv, NEW c \in Clients, NEW type \in Requests, NEW s \in States,
           up[c], lease[c] \in Addrs,
           sendToUDP(c, type, lease[c], net),
           clientState' = [clientState EXCEPT ![c] = s],
           NEW t \in SUBSET Timers, timers' = [timers EXCEPT ![c] = t],
           "start" \notin t,
           \/ s = "REBOOTING" /\ t = {"TO"}
           \/ s = "RENEWING" /\ t = {"TO", "T2", "lease"} /\ addr[c] = lease[c]
           \/ s = "REBINDING" /\ t = {"TO"} /\ addr[c] = lease[c],
           UNCHANGED <<up, lease, addr, serverVars>>
    PROVE  ClientInv'
<1> USE DEF ClientInv
<1>1. /\ net' \subseteq Messages
      /\ \A n \in net' : n.type = "OFFER" =>
            \E m \in net : m.type = "OFFER" /\ m.ip = n.ip /\ m.client = n.client
  BY SendTyped DEF TypeOK
<1>2. TypeOK'
  BY <1>1 DEF TypeOK, serverVars
<1>3. OffersAddress'
  BY <1>1 DEF OffersAddress
<1>4. LeaseInHand'
  BY DEF LeaseInHand, TypeOK
<1>5. TimersMatchState'
  BY DEF TimersMatchState, TypeOK
<1>6. BoundHasAddress'
  BY DEF BoundHasAddress, TypeOK, Addrs, Unspecified
<1> QED
  BY <1>2, <1>3, <1>4, <1>5, <1>6

\* A step that leaves the clients alone and takes messages away, or adds an offer
\* of an address, another answer, keeps the part of the invariant about clients.
LEMMA ServerKeepsClients ==
    ASSUME ClientInv, UNCHANGED clientVars,
           maxNumOfClients' = maxNumOfClients,
           leased' \subseteq Addrs \X Clients, serverUp' \in BOOLEAN,
           forgot' \in BOOLEAN, net' \subseteq Messages,
           \A n \in net' : n \in net \/ (n.type = "OFFER" => n.ip \in Addrs)
    PROVE  ClientInv'
<1> USE DEF ClientInv, clientVars
<1>1. TypeOK'
  BY DEF TypeOK
<1>2. OffersAddress'
  BY DEF OffersAddress
<1>3. LeaseInHand' /\ TimersMatchState' /\ BoundHasAddress'
  BY DEF LeaseInHand, TimersMatchState, BoundHasAddress
<1> QED
  BY <1>1, <1>2, <1>3

\* The answers of the server are well formed and its table stays one.
LEMMA ServerTyped ==
    ASSUME TypeOK, NEW m \in net, processDHCPMessage(m)
    PROVE  /\ net' \subseteq Messages
           /\ leased' \subseteq Addrs \X Clients
           /\ \A n \in net' : n \in net \/ (n.type = "OFFER" => n.ip \in Addrs)
<1> USE DHCPAssumption DEF TypeOK
<1>0. m \in Messages
  OBVIOUS
<1>1. CASE m.type = "DISCOVER" /\ processDiscover(m)
  <2>1. CASE \E a \in getLeaseByMac(m.client) : Reply(m, "OFFER", a) /\ UNCHANGED leased
    <3>1. PICK a \in Addrs : Reply(m, "OFFER", a) /\ UNCHANGED leased
      BY <2>1 DEF getLeaseByMac
    <3> QED
      BY <1>0, <3>1, ReplyTyped DEF Replies
  <2>2. CASE \E a \in Pool : /\ getAvailableLease(a)
                            /\ leased' = leased \union {<<a, m.client>>}
                            /\ Reply(m, "OFFER", a)
    <3>1. PICK a \in Addrs : /\ leased' = leased \union {<<a, m.client>>}
                             /\ Reply(m, "OFFER", a)
      BY <2>2 DEF Pool, Addrs
    <3>2. m.client \in Clients
      BY <1>0 DEF Messages
    <3> QED
      BY <1>0, <3>1, <3>2, ReplyTyped DEF Replies
  <2>3. CASE net' = net \ {m} /\ UNCHANGED leased
    BY <2>3
  <2> QED
    BY <1>1, <2>1, <2>2, <2>3 DEF processDiscover
<1>2. CASE m.type = "REQUEST" /\ processRequest(m)
  <2>1. \E type \in {"ACK", "NAK"}, ip \in Addrs \union {Unspecified} :
           Reply(m, type, ip) /\ UNCHANGED leased
    BY <1>0, <1>2 DEF processRequest, Messages
  <2> QED
    BY <1>0, <2>1, ReplyTyped DEF Replies
<1>3. CASE m.type = "REBOOT" /\ processInitReboot(m)
  <2>1. CASE net' = net \ {m} /\ UNCHANGED leased
    BY <2>1
  <2>2. CASE Reply(m, "ACK", m.ip) /\ UNCHANGED leased
    BY <1>0, <2>2, ReplyTyped DEF Replies, Messages
  <2> QED
    BY <1>3, <2>1, <2>2 DEF processInitReboot
<1>4. CASE m.type = "RENEW" /\ processRenew(m)
  <2>1. \E type \in {"ACK", "NAK"}, ip \in Addrs \union {Unspecified} :
           Reply(m, type, ip) /\ UNCHANGED leased
    BY <1>0, <1>4 DEF processRenew, Messages
  <2> QED
    BY <1>0, <2>1, ReplyTyped DEF Replies
<1> QED
  BY <1>1, <1>2, <1>3, <1>4 DEF processDHCPMessage

\* A client that receives an answer keeps its part of the invariant.
LEMMA ReceiveKeepsClients ==
    ASSUME ClientInv, NEW c \in Clients, NEW m \in net, ClientReceives(c, m)
    PROVE  ClientInv'
<1> USE DEF ClientInv
<1>0. /\ up[c] /\ "start" \notin timers[c]
      /\ m \in Messages
      /\ UNCHANGED <<up, serverVars>>
      /\ clientState[c] \in {"SELECTING", "REQUESTING", "RENEWING", "REBINDING", "REBOOTING"}
  BY DEF ClientReceives, Relevant, TypeOK
<1>1. CASE m.type = "OFFER" /\ RecordOffer(c, m)
  <2>1. /\ lease' = [lease EXCEPT ![c] = m.ip]
        /\ clientState' = [clientState EXCEPT ![c] = "REQUESTING"]
        /\ timers' = [timers EXCEPT ![c] = @ \union {"TO"}]
        /\ sendToUDP(c, "REQUEST", m.ip, net \ {m})
        /\ addr' = addr
        /\ clientState[c] = "SELECTING"
    BY <1>1 DEF RecordOffer, scheduleTimerTO, ClientReceives, Relevant
  <2>2. m.ip \in Addrs
    BY <1>1 DEF OffersAddress
  <2>3. /\ net' \subseteq Messages
        /\ \A n \in net' : n.type = "OFFER" =>
              \E o \in net : o.type = "OFFER" /\ o.ip = n.ip /\ o.client = n.client
    BY <2>1, <2>2, SendTyped DEF TypeOK, Requests
  <2>4. timers[c] = {"TO"}
    BY <1>0, <2>1 DEF TimersMatchState
  <2>5. TypeOK'
    BY <1>0, <2>1, <2>2, <2>3 DEF TypeOK, serverVars, States, Timers
  <2>6. OffersAddress'
    BY <2>3 DEF OffersAddress
  <2>7. LeaseInHand'
    BY <2>1, <2>2 DEF LeaseInHand, TypeOK
  <2>8. TimersMatchState'
    BY <1>0, <2>1, <2>4 DEF TimersMatchState, TypeOK
  <2>9. BoundHasAddress'
    BY <1>0, <2>1 DEF BoundHasAddress, TypeOK
  <2> QED
    BY <2>5, <2>6, <2>7, <2>8, <2>9
<1>2. CASE m.type = "ACK" /\ handleDHCPACK(c, m)
  <2>1. /\ addr' = [addr EXCEPT ![c] = lease[c]]
        /\ timers' = [timers EXCEPT ![c] = (@ \ {"TO"}) \union {"T1", "T2", "lease"}]
        /\ clientState' = [clientState EXCEPT ![c] = "BOUND"]
        /\ net' = net \ {m}
        /\ lease' = lease
        /\ clientState[c] \in {"REQUESTING", "RENEWING", "REBINDING", "REBOOTING"}
    BY <1>2 DEF handleDHCPACK, bindLease, ClientReceives, Relevant
  <2>2. lease[c] \in Addrs
    BY <2>1 DEF LeaseInHand, HoldingStates
  <2>3. TypeOK'
    BY <1>0, <2>1, <2>2 DEF TypeOK, serverVars, States, Timers
  <2>4. OffersAddress'
    BY <2>1 DEF OffersAddress
  <2>5. LeaseInHand'
    BY <2>1, <2>2 DEF LeaseInHand, TypeOK
  <2>6. timers[c] = {"TO"} \/ timers[c] = {"TO", "T2", "lease"}
    BY <1>0, <2>1 DEF TimersMatchState
  <2>7. timers'[c] = {"T1", "T2", "lease"}
    BY <2>1, <2>6 DEF TypeOK
  <2>8. TimersMatchState'
    BY <1>0, <2>1, <2>7 DEF TimersMatchState, TypeOK
  <2>9. BoundHasAddress'
    BY <1>0, <2>1, <2>2 DEF BoundHasAddress, TypeOK, Addrs, Unspecified
  <2> QED
    BY <2>3, <2>4, <2>5, <2>8, <2>9
<1>3. CASE m.type = "NAK" /\ handleDHCPNAK(c, m)
  BY <1>0, <1>3, InitClientKeeps DEF handleDHCPNAK, unboundLease
<1> QED
  BY <1>1, <1>2, <1>3 DEF ClientReceives

\* Every step keeps the part of the invariant about clients.
LEMMA ClientInvStep == ClientInv /\ [Next]_vars => ClientInv'
<1> SUFFICES ASSUME ClientInv, [Next]_vars PROVE ClientInv'
  OBVIOUS
<1> USE DEF ClientInv
<1>1. ASSUME NEW c \in Clients, StartDHCP(c) PROVE ClientInv'
  <2>1. up[c] /\ timers[c] = {"start"}
    BY <1>1 DEF StartDHCP, TimersMatchState
  <2>2. CASE lease[c] = Unspecified
    BY <1>1, <2>1, <2>2, InitClientKeeps DEF StartDHCP
  <2>3. CASE lease[c] # Unspecified
    <3>1. /\ sendToUDP(c, "REBOOT", lease[c], net)
          /\ timers' = [timers EXCEPT ![c] = (@ \ {"start"}) \union {"TO"}]
          /\ clientState' = [clientState EXCEPT ![c] = "REBOOTING"]
          /\ UNCHANGED <<up, lease, addr, serverVars>>
      BY <1>1, <2>3 DEF StartDHCP, initRebootedClient
    <3>2. timers' = [timers EXCEPT ![c] = {"TO"}]
      BY <2>1, <3>1 DEF TypeOK
    <3>3. lease[c] \in Addrs
      BY <2>3 DEF TypeOK
    <3> QED
      BY <2>1, <3>1, <3>2, <3>3, RequestKeeps DEF Requests, States, Timers
  <2> QED
    BY <2>2, <2>3
<1>2. ASSUME NEW c \in Clients, ResponseTimeout(c) PROVE ClientInv'
  <2>1. up[c]
    BY <1>2 DEF ResponseTimeout, TimersMatchState
  <2> QED
    BY <1>2, <2>1, InitClientKeeps DEF ResponseTimeout
<1>3. ASSUME NEW c \in Clients, T1Timeout(c) PROVE ClientInv'
  <2>1. /\ up[c] /\ "start" \notin timers[c]
        /\ clientState[c] = "BOUND"
        /\ timers[c] = {"T1", "T2", "lease"}
    BY <1>3 DEF T1Timeout, TimersMatchState
  <2>2. lease[c] \in Addrs /\ addr[c] = lease[c]
    BY <2>1 DEF LeaseInHand, HoldingStates, BoundHasAddress
  <2>3. timers' = [timers EXCEPT ![c] = {"TO", "T2", "lease"}]
    BY <1>3, <2>1 DEF T1Timeout, TypeOK
  <2> QED
    BY <1>3, <2>1, <2>2, <2>3, RequestKeeps DEF T1Timeout, Requests, States, Timers
<1>4. ASSUME NEW c \in Clients, T2Timeout(c) PROVE ClientInv'
  <2>1. /\ up[c] /\ "start" \notin timers[c]
        /\ clientState[c] = "RENEWING"
    BY <1>4 DEF T2Timeout, TimersMatchState
  <2>2. lease[c] \in Addrs /\ addr[c] = lease[c]
    BY <2>1 DEF LeaseInHand, HoldingStates, BoundHasAddress
  <2> QED
    BY <1>4, <2>1, <2>2, RequestKeeps DEF T2Timeout, Requests, States, Timers
<1>5. ASSUME NEW c \in Clients, Associated(c) PROVE ClientInv'
  BY <1>5, InitClientKeeps DEF Associated
<1>6. ASSUME NEW c \in Clients, ClientStop(c) PROVE ClientInv'
  <2>1. TypeOK' /\ OffersAddress' /\ LeaseInHand'
    BY <1>6 DEF ClientStop, TypeOK, OffersAddress, LeaseInHand, serverVars
  <2>2. TimersMatchState'
    BY <1>6 DEF ClientStop, TypeOK, TimersMatchState
  <2>3. BoundHasAddress'
    BY <1>6 DEF ClientStop, TypeOK, BoundHasAddress
  <2> QED
    BY <2>1, <2>2, <2>3
<1>7. ASSUME NEW c \in Clients, ClientStart(c) PROVE ClientInv'
  <2>1. TypeOK' /\ OffersAddress' /\ LeaseInHand'
    BY <1>7 DEF ClientStart, TypeOK, OffersAddress, LeaseInHand, serverVars, Timers
  <2>2. TimersMatchState'
    BY <1>7 DEF ClientStart, TypeOK, TimersMatchState
  <2>3. BoundHasAddress'
    BY <1>7 DEF ClientStart, TypeOK, BoundHasAddress
  <2> QED
    BY <2>1, <2>2, <2>3
<1>8. ASSUME NEW c \in Clients, NEW m \in net, ClientReceives(c, m) PROVE ClientInv'
  BY <1>8, ReceiveKeepsClients
<1>9. ASSUME NEW m \in net, processDHCPMessage(m) PROVE ClientInv'
  <2>1. UNCHANGED <<clientVars, maxNumOfClients, serverUp, forgot>>
    BY <1>9 DEF processDHCPMessage
  <2> QED
    BY <1>9, <2>1, ServerTyped, ServerKeepsClients DEF TypeOK
<1>10. ASSUME NEW m \in net, Lose(m) PROVE ClientInv'
  BY <1>10, ServerKeepsClients DEF Lose, TypeOK, serverVars
<1>11. CASE ServerStop
  BY <1>11, ServerKeepsClients DEF ServerStop, TypeOK
<1>12. CASE ServerStart
  BY <1>12, ServerKeepsClients DEF ServerStart, TypeOK
<1>13. CASE UNCHANGED vars
  BY <1>13, ServerKeepsClients DEF vars, clientVars, TypeOK
<1> QED
  BY <1>1, <1>2, <1>3, <1>4, <1>5, <1>6, <1>7, <1>8, <1>9, <1>10, <1>11, <1>12, <1>13
  DEF Next

---------------------------------------------------------------------------
\* How the table of the server changes in a step: not at all, by an address that
\* nobody had for a client that had none, or by losing everything.
TableKept   == leased' = leased /\ forgot' = forgot
TableGrows  == \E a \in Addrs, c \in Clients :
                  /\ Available(a) /\ getLeaseByMac(c) = {}
                  /\ leased' = leased \union {<<a, c>>}
                  /\ forgot' = forgot
TableLost   == leased' = {} /\ (forgot \/ leased # {} => forgot')

\* Every step changes the table in one of these ways (DHCPServer::processDHCPMessage
\* and stopApp are the only places that write it).
LEMMA TableSteps ==
    ASSUME TypeOK, [Next]_vars
    PROVE  TableKept \/ TableGrows \/ TableLost
<1> USE DHCPAssumption DEF TypeOK
<1>1. CASE ServerStop
  BY <1>1 DEF ServerStop, TableLost
<1>2. ASSUME NEW m \in net, processDHCPMessage(m)
      PROVE  TableKept \/ TableGrows
  <2>1. forgot' = forgot /\ m.client \in Clients
    BY <1>2 DEF processDHCPMessage, Messages
  <2>2. CASE leased' = leased
    BY <2>1, <2>2 DEF TableKept
  <2>3. CASE m.type = "DISCOVER" /\ processDiscover(m) /\ leased' # leased
    <3>1. PICK a \in Pool : /\ getAvailableLease(a)
                            /\ getLeaseByMac(m.client) = {}
                            /\ leased' = leased \union {<<a, m.client>>}
      BY <2>3 DEF processDiscover
    <3>2. a \in Addrs /\ Available(a)
      BY <3>1 DEF Pool, Addrs, getAvailableLease
    <3> QED
      BY <2>1, <3>1, <3>2 DEF TableGrows
  <2> QED
    BY <1>2, <2>2, <2>3 DEF processDHCPMessage, processRequest, processInitReboot, processRenew
<1>3. CASE \E c \in Clients :
             \/ StartDHCP(c) \/ ResponseTimeout(c) \/ T1Timeout(c) \/ T2Timeout(c)
             \/ Associated(c) \/ ClientStop(c) \/ ClientStart(c)
             \/ \E m \in net : ClientReceives(c, m)
  BY <1>3 DEF StartDHCP, ResponseTimeout, T1Timeout, T2Timeout, Associated, ClientStop,
              ClientStart, ClientReceives, serverVars, TableKept
<1>4. CASE ServerStart \/ (\E m \in net : Lose(m)) \/ UNCHANGED vars
  BY <1>4 DEF ServerStart, Lose, vars, serverVars, TableKept
<1> QED
  BY <1>1, <1>2, <1>3, <1>4 DEF Next

\* How the leases, interfaces and offers change: a client takes over an offer made
\* to it, or configures its lease, or loses its address, or the server offers what
\* its table, after the step, says.
LeasesFrom ==
    \A c \in Clients :
        \/ lease'[c] = lease[c]
        \/ \E m \in net : m.type = "OFFER" /\ m.client = c /\ lease'[c] = m.ip
AddrsFrom ==
    \A c \in Clients :
        \/ addr'[c] = addr[c] /\ (lease'[c] = lease[c] \/ \E m \in net :
                m.type = "OFFER" /\ m.client = c /\ lease'[c] = m.ip)
        \/ addr'[c] = Unspecified
        \/ addr'[c] = lease[c] /\ lease'[c] = lease[c]
OffersFrom ==
    \A n \in net' : n.type = "OFFER" =>
        \/ \E m \in net : m.type = "OFFER" /\ m.ip = n.ip /\ m.client = n.client
        \/ <<n.ip, n.client>> \in leased'

\* A client that sends takes nothing over and offers nothing.
LEMMA ClientStepsFrom ==
    ASSUME ClientInv, NEW c \in Clients,
           \/ StartDHCP(c) \/ ResponseTimeout(c) \/ T1Timeout(c) \/ T2Timeout(c)
           \/ Associated(c)
    PROVE  LeasesFrom /\ AddrsFrom /\ OffersFrom
<1> USE DEF ClientInv
<1>1. UNCHANGED <<lease, addr>>
  BY DEF StartDHCP, ResponseTimeout, T1Timeout, T2Timeout, Associated
<1>2. LeasesFrom /\ AddrsFrom
  BY <1>1 DEF LeasesFrom, AddrsFrom
<1>3. \E type \in Requests, ip \in Addrs \union {Unspecified} : sendToUDP(c, type, ip, net)
  BY DEF StartDHCP, ResponseTimeout, T1Timeout, T2Timeout, Associated, initClient,
         initRebootedClient, TypeOK, Requests
<1>4. net \in SUBSET Messages
  BY DEF TypeOK
<1>5. OffersFrom
  BY <1>3, <1>4, SendTyped DEF OffersFrom
<1> QED
  BY <1>2, <1>5

\* A client that receives an answer takes over what was offered to it, at most.
LEMMA ReceiveFrom ==
    ASSUME ClientInv, NEW c \in Clients, NEW m \in net, ClientReceives(c, m)
    PROVE  LeasesFrom /\ AddrsFrom /\ OffersFrom
<1> USE DEF ClientInv
<1>0. m \in Messages /\ m.client = c
  BY DEF ClientReceives, TypeOK
<1>1. CASE m.type = "OFFER" /\ RecordOffer(c, m)
  <2>1. /\ lease' = [lease EXCEPT ![c] = m.ip]
        /\ sendToUDP(c, "REQUEST", m.ip, net \ {m})
        /\ addr' = addr
    BY <1>1 DEF RecordOffer
  <2>2. LeasesFrom /\ AddrsFrom
    BY <1>0, <1>1, <2>1 DEF LeasesFrom, AddrsFrom, TypeOK
  <2>3. m.ip \in Addrs \union {Unspecified} /\ "REQUEST" \in Requests /\ net \ {m} \in SUBSET Messages
    BY <1>0 DEF TypeOK, Messages, Requests
  <2>4. OffersFrom
    BY <2>1, <2>3, SendTyped DEF OffersFrom
  <2> QED
    BY <2>2, <2>4
<1>2. CASE m.type = "ACK" /\ handleDHCPACK(c, m)
  BY <1>2 DEF handleDHCPACK, bindLease, LeasesFrom, AddrsFrom, OffersFrom, TypeOK
<1>3. CASE m.type = "NAK" /\ handleDHCPNAK(c, m)
  <2>1. /\ lease' = lease
        /\ addr' = addr \/ addr' = [addr EXCEPT ![c] = Unspecified]
        /\ sendToUDP(c, "DISCOVER", Unspecified, net \ {m})
    BY <1>3 DEF handleDHCPNAK, unboundLease, initClient
  <2>2. LeasesFrom /\ AddrsFrom
    BY <2>1 DEF LeasesFrom, AddrsFrom, TypeOK
  <2>3. "DISCOVER" \in Requests /\ net \ {m} \in SUBSET Messages
    BY DEF TypeOK, Requests
  <2>4. OffersFrom
    BY <2>1, <2>3, SendTyped DEF OffersFrom
  <2> QED
    BY <2>2, <2>4
<1> QED
  BY <1>1, <1>2, <1>3 DEF ClientReceives

\* The server offers what its table says after the step.
LEMMA ServerFrom ==
    ASSUME ClientInv, NEW m \in net, processDHCPMessage(m)
    PROVE  LeasesFrom /\ AddrsFrom /\ OffersFrom
<1> USE DHCPAssumption DEF ClientInv
<1>0. m \in Messages /\ m.client \in Clients /\ m.ip \in Addrs \union {Unspecified}
  BY DEF TypeOK, Messages
<1>1. LeasesFrom /\ AddrsFrom
  BY DEF processDHCPMessage, clientVars, LeasesFrom, AddrsFrom
<1>2. ASSUME m.type = "DISCOVER", processDiscover(m) PROVE OffersFrom
  <2>1. CASE net' = net \ {m}
    BY <2>1 DEF OffersFrom
  <2>2. CASE \E a \in Addrs : Reply(m, "OFFER", a) /\ <<a, m.client>> \in leased'
    <3>1. PICK a \in Addrs : Reply(m, "OFFER", a) /\ <<a, m.client>> \in leased'
      BY <2>2
    <3> QED
      BY <1>0, <3>1, ReplyTyped DEF OffersFrom, TypeOK, Replies
  <2> QED
    BY <1>2, <2>1, <2>2 DEF processDiscover, getLeaseByMac, Pool, Addrs, TypeOK
<1>3. ASSUME m.type # "DISCOVER" PROVE OffersFrom
  <2>1. CASE net' = net \ {m}
    BY <2>1 DEF OffersFrom
  <2>2. CASE \E type \in {"ACK", "NAK"}, ip \in Addrs \union {Unspecified} : Reply(m, type, ip)
    BY <1>0, <2>2, ReplyTyped DEF OffersFrom, TypeOK, Replies
  <2> QED
    BY <1>0, <1>3, <2>1, <2>2
    DEF processDHCPMessage, processRequest, processInitReboot, processRenew
<1> QED
  BY <1>1, <1>2, <1>3 DEF processDHCPMessage

\* Every step changes leases, interfaces and offers in one of these ways.
LEMMA StepsFrom ==
    ASSUME ClientInv, [Next]_vars
    PROVE  LeasesFrom /\ AddrsFrom /\ OffersFrom
<1>1. CASE \E c \in Clients : ClientStop(c) \/ ClientStart(c)
  BY <1>1 DEF ClientStop, ClientStart, ClientInv, TypeOK, LeasesFrom, AddrsFrom, OffersFrom
<1>2. CASE ServerStart \/ ServerStop \/ (\E m \in net : Lose(m)) \/ UNCHANGED vars
  BY <1>2 DEF ServerStart, ServerStop, Lose, vars, clientVars, LeasesFrom, AddrsFrom, OffersFrom
<1> QED
  BY <1>1, <1>2, ClientStepsFrom, ReceiveFrom, ServerFrom DEF Next

---------------------------------------------------------------------------
\* The invariant holds when the simulation starts.
LEMMA DhcpInvInit == Init => DhcpInv
<1> SUFFICES ASSUME Init PROVE DhcpInv
  OBVIOUS
<1> USE DHCPAssumption DEF Init
<1>1. TypeOK
  BY DEF TypeOK, States, Timers, Addrs
<1>2. OffersAddress /\ LeaseInHand
  BY DEF OffersAddress, LeaseInHand, HoldingStates
<1>3. TimersMatchState /\ BoundHasAddress
  BY DEF TimersMatchState, BoundHasAddress
<1>4. OneLeasePerClient
  BY DEF OneLeasePerClient
<1>5. LeasesKnown /\ OffersKnown /\ UsesOwnLease
  BY DEF LeasesKnown, OffersKnown, UsesOwnLease
<1> QED
  BY <1>1, <1>2, <1>3, <1>4, <1>5 DEF DhcpInv, ClientInv

\* The invariant is inductive: the clients look after their own state, and an
\* address that is offered, leased or in use stays with its owner because the
\* table only grows, until the server forgets it.
LEMMA DhcpInvStep == DhcpInv /\ [Next]_vars => DhcpInv'
<1> SUFFICES ASSUME DhcpInv, [Next]_vars PROVE DhcpInv'
  OBVIOUS
<1> USE DEF DhcpInv
<1>1. ClientInv'
  BY ClientInvStep
<1>2. /\ TableKept \/ TableGrows \/ TableLost
      /\ LeasesFrom /\ AddrsFrom /\ OffersFrom
      /\ TypeOK
  BY TableSteps, StepsFrom DEF ClientInv
<1>3. OneLeasePerClient'
  <2>1. CASE TableKept
    BY <2>1 DEF TableKept, OneLeasePerClient
  <2>2. CASE TableGrows
    BY <2>2 DEF TableGrows, OneLeasePerClient, Available, getLeaseByMac
  <2>3. CASE TableLost
    BY <2>3 DEF TableLost, OneLeasePerClient
  <2> QED
    BY <1>2, <2>1, <2>2, <2>3
<1>4. ~forgot' => ~forgot /\ leased \subseteq leased'
  BY <1>2 DEF TableKept, TableGrows, TableLost
<1>5. LeasesKnown'
  BY <1>2, <1>4 DEF LeasesKnown, LeasesFrom, OffersKnown
<1>6. OffersKnown'
  BY <1>2, <1>4 DEF OffersKnown, OffersFrom
<1>7. UsesOwnLease'
  <2> SUFFICES ASSUME ~forgot', NEW c \in Clients, addr'[c] # Unspecified
               PROVE  addr'[c] = lease'[c]
    BY DEF UsesOwnLease
  <2>1. CASE addr'[c] = lease[c] /\ lease'[c] = lease[c]
    BY <2>1
  <2>2. CASE addr'[c] = addr[c]
    <3>1. addr[c] = lease[c] /\ <<lease[c], c>> \in leased
      BY <1>4, <2>2 DEF UsesOwnLease, LeasesKnown
    <3>2. ASSUME NEW m \in net, m.type = "OFFER", m.client = c, lease'[c] = m.ip
          PROVE  m.ip = lease[c]
      <4>1. <<m.ip, c>> \in leased
        BY <1>4, <3>2 DEF OffersKnown
      <4>2. m.ip \in Addrs /\ lease[c] \in Addrs
        BY <1>2, <3>1, <4>1 DEF TypeOK
      <4> QED
        BY <3>1, <4>1, <4>2 DEF OneLeasePerClient
    <3> QED
      BY <1>2, <2>2, <3>1, <3>2 DEF AddrsFrom, LeasesFrom
  <2> QED
    BY <1>2, <2>1, <2>2 DEF AddrsFrom
<1> QED
  BY <1>1, <1>3, <1>5, <1>6, <1>7

\* The inductive invariant holds in every reachable state.
THEOREM DhcpInvariant == Spec => []DhcpInv
<1>1. Init => DhcpInv
  BY DhcpInvInit
<1>2. DhcpInv /\ [Next]_vars => DhcpInv'
  BY DhcpInvStep
<1> QED
  BY <1>1, <1>2, PTL DEF Spec

\* The type invariant: in particular no address from outside the pool is used.
THEOREM TypeCorrect == Spec => []TypeOK
<1>1. DhcpInv => TypeOK
  BY DEF DhcpInv, ClientInv
<1> QED
  BY <1>1, DhcpInvariant, PTL

\* For any number of clients and any pool: as long as the server keeps its table,
\* no two clients use one address (handleDHCPACK, processDHCPMessage).
THEOREM AddressesUnique == Spec => []NoDuplicateAddress
<1>1. DhcpInv => NoDuplicateAddress
  <2> SUFFICES ASSUME DhcpInv, ~forgot, NEW c \in Clients, NEW d \in Clients, c # d,
                      addr[c] # Unspecified, addr[c] = addr[d]
               PROVE  FALSE
    BY DEF NoDuplicateAddress
  <2>1. addr[c] \in Addrs
    BY DEF DhcpInv, ClientInv, TypeOK
  <2>2. <<addr[c], c>> \in leased /\ <<addr[c], d>> \in leased
    BY DEF DhcpInv, UsesOwnLease, LeasesKnown
  <2> QED
    BY <2>1, <2>2 DEF DhcpInv, OneLeasePerClient
<1> QED
  BY <1>1, DhcpInvariant, PTL

\* The table of the server is one to one, whatever is lost, late or restarted.
THEOREM TableOneToOne == Spec => []OneLeasePerClient
<1>1. DhcpInv => OneLeasePerClient
  BY DEF DhcpInv
<1> QED
  BY <1>1, DhcpInvariant, PTL

\* Every client that runs has the timers of its state, and T2 never meets the state
\* in which DHCPClient::handleTimer throws.
THEOREM TimersRight == Spec => []TimersMatchState
<1>1. DhcpInv => TimersMatchState
  BY DEF DhcpInv, ClientInv
<1> QED
  BY <1>1, DhcpInvariant, PTL

\* A client in a bound state has configured the address of its lease.
THEOREM BoundConfigured == Spec => []BoundHasAddress
<1>1. DhcpInv => BoundHasAddress
  BY DEF DhcpInv, ClientInv
<1> QED
  BY <1>1, DhcpInvariant, PTL

\* An address is given up before another one is taken, while the server remembers.
THEOREM AddressKept == Spec => AddressStable
<1> DEFINE Kept == \A c \in Clients :
          ~forgot /\ addr[c] # Unspecified => addr'[c] \in {addr[c], Unspecified}
<1>1. DhcpInv /\ [Next]_vars => [Kept]_vars
  <2> SUFFICES ASSUME DhcpInv, [Next]_vars, NEW c \in Clients,
                      ~forgot, addr[c] # Unspecified
               PROVE  addr'[c] \in {addr[c], Unspecified}
    OBVIOUS
  <2>1. AddrsFrom
    BY StepsFrom DEF DhcpInv
  <2>2. addr[c] = lease[c]
    BY DEF DhcpInv, UsesOwnLease
  <2> QED
    BY <2>1, <2>2 DEF AddrsFrom
<1> QED
  BY <1>1, DhcpInvariant, PTL DEF Spec, AddressStable
=============================================================================
