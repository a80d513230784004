-------------------------------- MODULE ARP --------------------------------
(***************************************************************************)
(* The ARP cache of every host of one IEEE 802 LAN                         *)
(* (src/networklayer/arp/ARP.cc), with globalARP = false.                  *)
(*                                                                         *)
(* A host has one interface on the LAN; its IPv4 address and its MAC       *)
(* address are both written as the host itself.  Remote is a set of        *)
(* addresses that are not on the LAN: ProxyFor[h] are those host h can     *)
(* route through another interface, which it answers for when              *)
(* respondToProxyARP is set.                                               *)
(*                                                                         *)
(* Every handler of the simulated module runs to completion before the     *)
(* next event, so one handler is one action.  The LAN may lose and reorder *)
(* ARP packets.  Simulation time is abstracted to the two moments ARP      *)
(* looks at: the firing of a request timer, and the moment at which        *)
(* lastUpdate + cacheTimeout falls behind simTime().                       *)
(***************************************************************************)
EXTENDS Naturals, FiniteSets, Functions

CONSTANTS
    Host,        \* hosts of the LAN (address and MAC address of each)
    Remote,      \* addresses that no host of the LAN owns
    ProxyFor,    \* ProxyFor[h]: remote addresses h answers for
    retryCount,  \* module parameter: "number of times ARP will attempt ..."
    Unspecified  \* MACAddress::UNSPECIFIED_ADDRESS

ASSUME ArpAssumption ==
    /\ Host \cap Remote = {}
    /\ Unspecified \notin Host
    /\ ProxyFor \in [Host -> SUBSET Remote]
    /\ retryCount \in Nat

VARIABLES
    isUp,      \* isUp[h]: the protocol is running
    arpCache,  \* arpCache[h]: a map from IPv4 addresses to entries
    timer,     \* timer[h][a]: scheduled timeout self-messages of entry a
    lan        \* ARP packets on their way, one element per receiver

arpVars == <<isUp, arpCache, timer, lan>>

Addr == Host \cup Remote

\* struct ARPCacheEntry.  fresh stands for lastUpdate + cacheTimeout >= now.
Entry == [pending : BOOLEAN, macAddress : Host \cup {Unspecified},
          numRetries : Nat, fresh : BOOLEAN]

ArpPacket == [opcode : {"REQUEST", "REPLY"}, srcMAC : Host, srcIP : Addr,
              destIP : Addr, to : Host]

-----------------------------------------------------------------------------
\* std::map operations on a cache.
Put(cache, a, e) ==
    [x \in DOMAIN cache \cup {a} |-> IF x = a THEN e ELSE cache[x]]

Erase(cache, a) == Restrict(cache, DOMAIN cache \ {a})

EmptyCache == [a \in {} |-> 0]

NoTimers == [a \in Addr |-> 0]

\* ARP::addressRecognized: an address of this node, or one it is a proxy for.
addressRecognized(h, a) == a = h \/ a \in ProxyFor[h]

\* The entry of a is under resolution.
Pending(h, a) == a \in DOMAIN arpCache[h] /\ arpCache[h][a].pending

\* ARP::getMACAddressFor: in the cache, not pending, and not expired yet.
getMACAddressFor(h, a) ==
    IF a \in DOMAIN arpCache[h] /\ ~arpCache[h][a].pending /\ arpCache[h][a].fresh
    THEN arpCache[h][a].macAddress
    ELSE Unspecified

\* ARP::sendARPRequest: a broadcast, heard by every other host of the LAN.
Requests(h, a) ==
    {[opcode |-> "REQUEST", srcMAC |-> h, srcIP |-> h, destIP |-> a, to |-> r] :
        r \in Host \ {h}}

\* Mutant: the protocol fields are swapped and the hardware fields are not.
ReplyUnswapped(p) ==
    [opcode |-> "REPLY", srcMAC |-> p.srcMAC, srcIP |-> p.destIP,
     destIP |-> p.srcIP, to |-> p.srcMAC]

\* The answer processARPPacket makes of request p by swapping its fields.
Reply(p) ==
    [opcode |-> "REPLY", srcMAC |-> p.to, srcIP |-> p.destIP,
     destIP |-> p.srcIP, to |-> p.srcMAC]

PendingEntry ==
    [pending |-> TRUE, macAddress |-> Unspecified, numRetries |-> 0, fresh |-> FALSE]

ResolvedEntry(mac) ==
    [pending |-> FALSE, macAddress |-> mac, numRetries |-> 0, fresh |-> TRUE]

ArpInit ==
    /\ isUp = [h \in Host |-> TRUE]
    /\ arpCache = [h \in Host |-> EmptyCache]
    /\ timer = [h \in Host |-> NoTimers]
    /\ lan = {}

-----------------------------------------------------------------------------
\* ARP::initiateARPResolution on the entry of address a.
initiateARPResolution(h, a) ==
    /\ arpCache' = [arpCache EXCEPT ![h] = Put(@, a, PendingEntry)]
    /\ timer' = [timer EXCEPT ![h][a] = @ + 1]
    /\ lan' = lan \cup Requests(h, a)

\* Mutant: entry->pending is not looked at.
startAddressResolutionTwice(h, a) ==
    /\ initiateARPResolution(h, a)
    /\ UNCHANGED isUp

\* ARP::startAddressResolution, called by IPv4 on the host's own thread of
\* control.  An entry that is already pending is left alone; an expired or a
\* still valid one is resolved again.
startAddressResolution(h, a) ==
    /\ IF Pending(h, a)
       THEN UNCHANGED <<arpCache, timer, lan>>
       ELSE initiateARPResolution(h, a)
    /\ UNCHANGED isUp

\* Mutant: one retry too many (compare before counting).
ResolutionFailsLate(h, a) == arpCache[h][a].numRetries >= retryCount

\* The last retry of the resolution of a has gone unanswered.
ResolutionFails(h, a) == arpCache[h][a].numRetries + 1 >= retryCount

\* Mutant: a retry is not counted.
requestTimedOutUncounted(h, a) ==
    /\ timer[h][a] > 0
    /\ isUp[h]
    /\ IF ResolutionFails(h, a)
       THEN /\ arpCache' = [arpCache EXCEPT ![h] = Erase(@, a)]
            /\ timer' = [timer EXCEPT ![h][a] = @ - 1]
            /\ UNCHANGED lan
       ELSE /\ lan' = lan \cup Requests(h, a)
            /\ UNCHANGED <<arpCache, timer>>
    /\ UNCHANGED isUp

\* ARP::requestTimedOut: retry, or emit failedARPResolution and throw the
\* entry out of the cache.
requestTimedOut(h, a) ==
    /\ timer[h][a] > 0
    /\ isUp[h]
    /\ IF ResolutionFails(h, a)
       THEN /\ arpCache' = [arpCache EXCEPT ![h] = Erase(@, a)]
            /\ timer' = [timer EXCEPT ![h][a] = @ - 1]
            /\ UNCHANGED lan
       ELSE /\ arpCache' = [arpCache EXCEPT ![h][a].numRetries = @ + 1]
            /\ lan' = lan \cup Requests(h, a)
            /\ UNCHANGED timer
    /\ UNCHANGED isUp

\* processARPPacket updates (or adds) the sender's entry of packet p, and so
\* emits completedARPResolution: the sender is known, or p is meant for us.
Learns(p) ==
    \/ p.srcIP \in DOMAIN arpCache[p.to]
    \/ addressRecognized(p.to, p.destIP)

\* ARP::updateARPCache: a pending resolution ends here, with its timer.
updateARPCache(h, a, mac) ==
    /\ arpCache' = [arpCache EXCEPT ![h] = Put(@, a, ResolvedEntry(mac))]
    /\ timer' =
         IF Pending(h, a)
         THEN [timer EXCEPT ![h][a] = @ - 1]
         ELSE timer

\* ARP::processARPPacket, the recipe of RFC 826: learn the sender, answer a
\* request for an address of ours, drop everything else.
processARPPacket(p) ==
    /\ p \in lan
    /\ isUp[p.to]
    /\ IF Learns(p)
       THEN updateARPCache(p.to, p.srcIP, p.srcMAC)
       ELSE UNCHANGED <<arpCache, timer>>
    /\ lan' = (lan \ {p}) \cup
              (IF p.opcode = "REQUEST" /\ addressRecognized(p.to, p.destIP)
               THEN {Reply(p)} ELSE {})
    /\ UNCHANGED isUp

\* ARP::handleMessageWhenDown: a packet for a stopped protocol is dropped.
handleMessageWhenDown(p) ==
    /\ p \in lan
    /\ ~isUp[p.to]
    /\ lan' = lan \ {p}
    /\ UNCHANGED <<isUp, arpCache, timer>>

\* ARP::start, at stage NETWORK_LAYER of NodeStartOperation.
start(h) ==
    /\ ~isUp[h]
    /\ isUp' = [isUp EXCEPT ![h] = TRUE]
    /\ UNCHANGED <<arpCache, timer, lan>>

\* Mutant: only the entries under resolution are deleted.
flushPending(h) ==
    /\ arpCache' = [arpCache EXCEPT ![h] =
                      Restrict(@, {a \in DOMAIN @ : ~Pending(h, a)})]
    /\ timer' = [timer EXCEPT ![h] =
                   [a \in Addr |-> IF Pending(h, a) THEN @[a] - 1 ELSE @[a]]]

\* ARP::flush: delete every entry, and cancel the timer of a pending one.
flush(h) ==
    /\ arpCache' = [arpCache EXCEPT ![h] = EmptyCache]
    /\ timer' = [timer EXCEPT ![h] =
                   [a \in Addr |-> IF Pending(h, a) THEN @[a] - 1 ELSE @[a]]]

\* ARP::stop, at stage NETWORK_LAYER of a shutdown and on a crash.
stop(h) ==
    /\ isUp[h]
    /\ isUp' = [isUp EXCEPT ![h] = FALSE]
    /\ flush(h)
    /\ UNCHANGED lan

\* Time passes: the entry of a was last updated more than cacheTimeout ago.
EntryExpires(h, a) ==
    /\ a \in DOMAIN arpCache[h]
    /\ arpCache[h][a].fresh
    /\ arpCache' = [arpCache EXCEPT ![h][a].fresh = FALSE]
    /\ UNCHANGED <<isUp, timer, lan>>

\* The LAN loses a packet (external: collisions, a full queue, radio loss).
PacketLost(p) ==
    /\ p \in lan
    /\ lan' = lan \ {p}
    /\ UNCHANGED <<isUp, arpCache, timer>>

ArpTypeOK ==
    /\ isUp \in [Host -> BOOLEAN]
    /\ DOMAIN arpCache = Host
    /\ \A h \in Host : /\ DOMAIN arpCache[h] \subseteq Addr
                      /\ \A a \in DOMAIN arpCache[h] : arpCache[h][a] \in Entry
    /\ timer \in [Host -> [Addr -> Nat]]
    /\ lan \in SUBSET ArpPacket

(***************************************************************************)
(* Safety.                                                                 *)
(***************************************************************************)

\* The hosts whose MAC address is a right answer to the question "who has a".
Answerers(a) == {h \in Host : addressRecognized(h, a)}

\* A request timer is scheduled exactly for the entries under resolution, one
\* for each: ARP::requestTimedOut never runs on a deleted or a resolved entry,
\* and no resolution is left without the timer that ends it.
OneTimerPerResolution ==
    \A h \in Host, a \in Addr :
        timer[h][a] = IF Pending(h, a) THEN 1 ELSE 0

\* A stopped ARP has no cache entry (the assertion of ARP::start) and no timer
\* (a self-message to a stopped ARP is a runtime error, handleMessageWhenDown).
QuietWhenDown ==
    \A h \in Host : ~isUp[h] =>
        /\ DOMAIN arpCache[h] = {}
        /\ \A a \in Addr : timer[h][a] = 0

\* Whatever was lost, late or answered twice, a resolved entry holds the MAC
\* address of the owner of the address or of a proxy for it.
MacIsRight ==
    \A h \in Host : \A a \in DOMAIN arpCache[h] :
        ~arpCache[h][a].pending => arpCache[h][a].macAddress \in Answerers(a)

\* A resolution sends at most retryCount requests (always the first one):
\* 1 + numRetries requests have left when numRetries is in the entry.
RequestsBounded ==
    \A h \in Host : \A a \in DOMAIN arpCache[h] :
        arpCache[h][a].numRetries + 1 <= IF retryCount > 1 THEN retryCount ELSE 1

=============================================================================
