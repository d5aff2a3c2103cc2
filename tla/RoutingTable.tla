----------------------------- MODULE RoutingTable -----------------------------
(***************************************************************************)
(* hub/routing_table.rs: the hub's map from party to platform. Every       *)
(* operation takes the RwLock once, so each is one step; what a caller     *)
(* computed under one lock may be stale by the time it takes the next.     *)
(***************************************************************************)
EXTENDS Integers, Sequences, FiniteSets

CONSTANTS
    Platforms,      \* platform ids, numbered in the order the BTreeMap keeps
    Registrations   \* the ConnectedPlatform values an upsert may carry

Interfaces == {"SENDER", "RECEIVER"}
EmspLike == {"EMSP", "NSP", "NAP", "OTHER", "SCSP"}
Roles == {"CPO"} \cup EmspLike
Statuses == {"CONNECTED", "OFFLINE", "PLANNED", "SUSPENDED"}

ASSUME RoutingTableAssumption ==
    /\ Platforms \subseteq Nat \ {0}
    /\ IsFiniteSet(Platforms)
    /\ \A r \in Registrations :
        /\ DOMAIN r = {"parties", "serves", "version", "status"}
        /\ r.status \in Statuses
        /\ r.serves \subseteq Interfaces
        /\ Len(r.parties) \in Nat /\ DOMAIN r.parties = 1..Len(r.parties)
        /\ \A i \in DOMAIN r.parties : r.parties[i].role \in Roles

VARIABLE table      \* RoutingTable.platforms: the registered ids and their records

Hosts(r, party) == \E i \in DOMAIN r.parties : r.parties[i].party = party

Reachable(r) == r.status = "CONNECTED"

(* Peer.endpoint_url is known: the platform advertised this interface. *)
Implements(r, interface) == interface \in r.serves

(* v2_3_0/types.rs: the roles that are `opposite' for a Broadcast Push *)
ReceivesBroadcastFrom(role, from) ==
    IF from = "CPO" THEN role \in EmspLike ELSE role = "CPO"

-----------------------------------------------------------------------------

Upsert(p, r) ==
    table' = [q \in DOMAIN table \cup {p} |-> IF q = p THEN r ELSE table[q]]

Remove(p) ==
    /\ p \in DOMAIN table
    /\ table' = [q \in DOMAIN table \ {p} |-> table[q]]

SetStatus(p, s) ==
    /\ p \in DOMAIN table
    /\ table' = [table EXCEPT ![p].status = s]

-----------------------------------------------------------------------------

Hosting(party) == {p \in DOMAIN table : Hosts(table[p], party)}

(* values().find(): the first platform, in id order, that hosts the party *)
PlatformOf(party) ==
    CHOOSE p \in Hosting(party) : \A q \in Hosting(party) : p <= q

(* mutant: whoever is known is called *)
Lookup_AnyStatus(party) == IF Hosting(party) = {} THEN 4001 ELSE 1000

(* with_platform(): 4001 for a stranger, 4003 for a platform that is not    *)
(* connected, otherwise its closure runs -- 1000 here.                     *)
Lookup(party) ==
    IF Hosting(party) = {} THEN 4001
    ELSE IF ~Reachable(table[PlatformOf(party)]) THEN 4003
    ELSE 1000

(* The (platform, slot) pairs both fan-outs draw from. *)
Slots(interface) ==
    LET serving == {p \in DOMAIN table :
                      Reachable(table[p]) /\ Implements(table[p], interface)}
    IN  UNION {{[platform |-> p, slot |-> i, party |-> table[p].parties[i].party] :
                  i \in DOMAIN table[p].parties} : p \in serving}

BroadcastTargets(sender, senderRole) ==
    {t \in Slots("RECEIVER") :
        /\ t.party # sender
        /\ ReceivesBroadcastFrom(table[t.platform].parties[t.slot].role, senderRole)}

GetAllSources(requester) == {t \in Slots("SENDER") : t.party # requester}

(* The order a fan-out's calls and results have: platforms by id, then the  *)
(* parties as the platform lists them.                                     *)
Before(s, t) ==
    s.platform < t.platform \/ (s.platform = t.platform /\ s.slot < t.slot)
=============================================================================
