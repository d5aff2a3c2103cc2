------------------------------ MODULE HubProofs ------------------------------
(***************************************************************************)
(* What the hub promises about one message, for any number of platforms,   *)
(* parties, registrations, requests, concurrent calls and table changes.   *)
(***************************************************************************)
EXTENDS Hub, FiniteSetTheorems, TLAPS

-----------------------------------------------------------------------------
(* Finite sets have first elements. *)

(* An order on a finite set has a least element in every part of it.        *)
LEMMA FiniteMinimum ==
    ASSUME NEW L, IsFiniteSet(L), NEW R,
           \A x, y, z \in L : <<x, y>> \in R /\ <<y, z>> \in R => <<x, z>> \in R,
           \A x \in L : <<x, x>> \notin R,
           NEW T \in SUBSET L, T # {}
    PROVE  \E m \in T : \A x \in T : <<x, m>> \notin R
<1> DEFINE Below(t) == {s \in L : <<s, t>> \in R}
           D == {Below(t) : t \in T}
<1>1. IsWellFoundedOn(StrictSubsetOrdering(L), FiniteSubsetsOf(L))
  BY FS_StrictSubsetOrderingWellFounded
<1>2. D \subseteq FiniteSubsetsOf(L) /\ D # {}
  <2>1. ASSUME NEW t \in T PROVE Below(t) \in FiniteSubsetsOf(L)
    BY FS_Subset DEF FiniteSubsetsOf
  <2>2. PICK t \in T : TRUE
    OBVIOUS
  <2>3. Below(t) \in D
    OBVIOUS
  <2>4. \A e \in D : \E u \in T : e = Below(u)
    OBVIOUS
  <2> HIDE DEF D, Below
  <2> QED
    BY <2>1, <2>3, <2>4
<1>3. PICK d \in D : \A e \in D : <<e, d>> \notin StrictSubsetOrdering(L)
  <2> HIDE DEF D
  <2> QED
    BY <1>1, <1>2, WFMin
<1>4. PICK m \in T : d = Below(m)
  OBVIOUS
<1>5. ASSUME NEW x \in T, <<x, m>> \in R PROVE FALSE
  <2>1. Below(x) \subseteq Below(m) /\ x \in Below(m) /\ x \notin Below(x)
    BY <1>5
  <2>2. Below(x) \in D /\ Below(x) \in SUBSET L /\ Below(m) \in SUBSET L
    OBVIOUS
  <2>3. <<Below(x), d>> \in StrictSubsetOrdering(L)
    BY <2>1, <2>2, <1>4 DEF StrictSubsetOrdering
  <2> QED
    BY <1>3, <2>2, <2>3
<1> QED
  BY <1>5

(* The smallest of finitely many numbers.                                   *)
LEMMA LeastNumber ==
    ASSUME NEW S \in SUBSET Nat, IsFiniteSet(S), S # {}
    PROVE  \E m \in S : \A n \in S : m <= n
<1> DEFINE R == {e \in S \X S : e[1] < e[2]}
<1>1. \A x, y \in S : <<x, y>> \in R <=> x < y
  OBVIOUS
<1>2. \A x, y, z \in S : <<x, y>> \in R /\ <<y, z>> \in R => <<x, z>> \in R
  BY <1>1
<1>3. \A x \in S : <<x, x>> \notin R
  BY <1>1
<1> HIDE DEF R
<1>4. \A T \in SUBSET S : T # {} => \E m \in T : \A x \in T : <<x, m>> \notin R
  BY <1>2, <1>3, FiniteMinimum
<1>5. PICK m \in S : \A x \in S : <<x, m>> \notin R
  BY <1>4
<1>6. \A n \in S : m \in Nat /\ n \in Nat /\ ~(n < m)
  BY <1>1, <1>5
<1> QED
  BY <1>6

-----------------------------------------------------------------------------

(* A record upsert() may have put in the table and set_status() changed.    *)
RecordOK(r) ==
    /\ DOMAIN r = {"parties", "serves", "version", "status"}
    /\ r.status \in Statuses
    /\ r.version \in Versions
    /\ Len(r.parties) \in Nat /\ DOMAIN r.parties = 1..Len(r.parties)

TableOK ==
    /\ DOMAIN table \subseteq Platforms
    /\ \A p \in DOMAIN table : RecordOK(table[p])

LegType(leg) ==
    /\ DOMAIN leg = {"state", "platform", "theirs", "code", "attempt", "sent", "back"}
    /\ leg.state \in {"waiting", "found", "sent", "done"}
    /\ leg.attempt \in Nat
    /\ leg.platform \in Platforms \cup {0}
    /\ leg.theirs \in Versions \cup {"none"}
    /\ leg.code \in Codes \cup {0}
    /\ leg.sent \in Versions \cup {"none"}
    /\ leg.back \in Versions \cup {"none"}

(* A call that waits has done nothing; one that is done has a code, and     *)
(* success only from a platform it was sent to.                            *)
LegOK(leg) ==
    /\ LegType(leg)
    /\ leg.state = "waiting" => leg = Waiting
    /\ leg.state \in {"found", "sent"} =>
         leg.theirs \in Versions /\ leg.platform # 0 /\ leg.back = "none"
    /\ leg.state = "done" => leg.code \in Codes /\ (leg.code = 1000 => leg.platform # 0)

(* What NoMisreadDocument says of one call.                                 *)
NoMisread(leg) ==
    ~Verbatim =>
        /\ request.body # "foreign" => Reads(request.body, leg.sent, leg.theirs)
        /\ request.answer # "foreign" => Reads(request.answer, leg.back, request.version)

(* What AskedByOneTable says of one call.                                   *)
AskedInTime(leg, t) ==
    /\ leg.platform # 0 =>
        \E T \in held : Asked(T, leg.platform, t) /\ T[leg.platform].version = leg.theirs
    /\ (leg.platform = 0 /\ leg.code \in {4001, 4003}) =>
        \E T \in held : \/ \A p \in DOMAIN T : ~Hosts(T[p], t.party)
                        \/ \E p \in DOMAIN T : Hosts(T[p], t.party) /\ ~Asked(T, p, t)

(* The targets are finitely many, in one order, none of them the sender.    *)
TargetsOK ==
    /\ IsFiniteSet(DOMAIN legs)
    /\ \A t \in DOMAIN legs : t.platform \in Nat /\ t.slot \in Nat
    /\ \A s, t \in DOMAIN legs : s = t \/ Before(s, t) \/ Before(t, s)
    /\ FanOut => \A t \in DOMAIN legs : t.party # request.from

LegsOK == \A t \in DOMAIN legs : LegOK(legs[t])

PhaseOK ==
    /\ changes \in 0..MaxChanges
    /\ request \in Requests
    /\ phase \in {"idle", "relaying", "told"}
    /\ scenario \in {"none", "open", "direct", "getall", "broadcast", "refused"}
    /\ told \in [Policies -> IF phase = "told" THEN Codes ELSE {0}]
    /\ phase = "told" => \A t \in DOMAIN legs : legs[t].state = "done"
    /\ ~FanOut => \E t : DOMAIN legs \subseteq {t}

(* The table there is, is one there was since the message came.             *)
TableHeld == table \in held

HubInv == TableOK /\ TargetsOK /\ LegsOK /\ PhaseOK /\ TableHeld

-----------------------------------------------------------------------------
(* The first and the last of some of the targets.                           *)
LEMMA FirstAndLast ==
    ASSUME TargetsOK, NEW T \in SUBSET DOMAIN legs, T # {}
    PROVE  /\ \E m \in T : \A t \in T : m = t \/ Before(m, t)
           /\ \E m \in T : \A t \in T : m = t \/ Before(t, m)
<1> DEFINE L == DOMAIN legs
           R == {e \in L \X L : Before(e[1], e[2])}
           Q == {e \in L \X L : Before(e[2], e[1])}
<1>1. \A x, y \in L : (<<x, y>> \in R <=> Before(x, y)) /\ (<<x, y>> \in Q <=> Before(y, x))
  OBVIOUS
<1>2. \A x, y, z \in L : Before(x, y) /\ Before(y, z) => Before(x, z)
  BY DEF TargetsOK, Before
<1>3. \A x \in L : ~Before(x, x)
  BY DEF TargetsOK, Before
<1>4. IsFiniteSet(L) /\ T \in SUBSET L
  BY DEF TargetsOK
<1>5. \E m \in T : \A t \in T : <<t, m>> \notin R
  <2>1. /\ \A x, y, z \in L : <<x, y>> \in R /\ <<y, z>> \in R => <<x, z>> \in R
        /\ \A x \in L : <<x, x>> \notin R
    BY <1>1, <1>2, <1>3
  <2> HIDE DEF R, L
  <2> QED
    BY <1>4, <2>1, FiniteMinimum
<1>6. \E m \in T : \A t \in T : <<t, m>> \notin Q
  <2>1. /\ \A x, y, z \in L : <<x, y>> \in Q /\ <<y, z>> \in Q => <<x, z>> \in Q
        /\ \A x \in L : <<x, x>> \notin Q
    BY <1>1, <1>2, <1>3
  <2> HIDE DEF Q, L
  <2> QED
    BY <1>4, <2>1, FiniteMinimum
<1>7. \A s, t \in T : s = t \/ Before(s, t) \/ Before(t, s)
  BY DEF TargetsOK
<1> QED
  BY <1>1, <1>5, <1>6, <1>7, <1>4

-----------------------------------------------------------------------------
(* The routing table. *)

(* The platform looked up hosts the party.                                  *)
LEMMA PlatformHosts ==
    ASSUME TableOK, NEW party, Hosting(party) # {}
    PROVE  PlatformOf(party) \in Hosting(party)
<1>1. Hosting(party) \in SUBSET Nat /\ Hosting(party) \in SUBSET Platforms
  BY RoutingTableAssumption DEF Hosting, TableOK
<1>2. IsFiniteSet(Hosting(party))
  BY <1>1, FS_Subset, RoutingTableAssumption
<1> QED
  BY <1>1, <1>2, LeastNumber DEF PlatformOf

(* A party that may be called is hosted by a connected platform.            *)
LEMMA LookupSucceeds ==
    ASSUME TableOK, NEW party, Lookup(party) = 1000
    PROVE  /\ PlatformOf(party) \in DOMAIN table
           /\ Hosts(table[PlatformOf(party)], party)
           /\ Reachable(table[PlatformOf(party)])
<1>1. Hosting(party) # {} /\ Reachable(table[PlatformOf(party)])
  BY DEF Lookup
<1> QED
  BY <1>1, PlatformHosts DEF Hosting

(* What a fan-out may draw from is finite and in one order.                 *)
LEMMA SlotsOK ==
    ASSUME TableOK, NEW interface
    PROVE  /\ IsFiniteSet(Slots(interface))
           /\ \A t \in Slots(interface) : t.platform \in Nat /\ t.slot \in Nat
           /\ \A s, t \in Slots(interface) : s = t \/ Before(s, t) \/ Before(t, s)
<1> DEFINE Serving == {p \in DOMAIN table : Reachable(table[p]) /\ Implements(table[p], interface)}
           At(p, i) == [platform |-> p, slot |-> i, party |-> table[p].parties[i].party]
           Of(p) == {At(p, i) : i \in DOMAIN table[p].parties}
           All == {Of(p) : p \in Serving}
<1>1. Slots(interface) = UNION All
  BY Zenon DEF Slots
<1>2. \A p \in Serving : p \in Nat /\ DOMAIN table[p].parties = 1..Len(table[p].parties)
                         /\ Len(table[p].parties) \in Nat
  BY RoutingTableAssumption DEF TableOK, RecordOK
<1>3. ASSUME NEW p \in Serving PROVE IsFiniteSet(Of(p))
  <2> DEFINE I == DOMAIN table[p].parties
             f == [i \in I |-> At(p, i)]
  <2>1. IsFiniteSet(I)
    BY <1>2, FS_Interval
  <2>2. f \in Surjection(I, Of(p))
    BY DEF Surjection
  <2> QED
    BY <2>1, <2>2, FS_Surjection
<1>4. IsFiniteSet(All)
  <2> DEFINE f == [p \in Serving |-> Of(p)]
  <2>1. IsFiniteSet(Serving)
    BY FS_Subset, RoutingTableAssumption DEF TableOK
  <2>2. f \in Surjection(Serving, All)
    <3> HIDE DEF Serving, Of
    <3> QED
      BY DEF Surjection
  <2> QED
    BY <2>1, <2>2, FS_Surjection
<1>5. IsFiniteSet(UNION All)
  <2>1. \A S \in All : IsFiniteSet(S)
    BY <1>3
  <2> HIDE DEF All
  <2> QED
    BY <1>4, <2>1, FS_UNION
<1>6. \A t \in UNION All : \E p \in Serving : \E i \in DOMAIN table[p].parties : t = At(p, i)
  OBVIOUS
<1>7. \A t \in UNION All : t.platform \in Nat /\ t.slot \in Nat
  BY <1>2, <1>6
<1>8. ASSUME NEW s \in UNION All, NEW t \in UNION All
      PROVE  s = t \/ Before(s, t) \/ Before(t, s)
  <2>1. PICK p \in Serving : \E i \in DOMAIN table[p].parties : s = At(p, i)
    BY <1>6
  <2>6. PICK i \in DOMAIN table[p].parties : s = At(p, i)
    BY <2>1
  <2>2. PICK q \in Serving : \E j \in DOMAIN table[q].parties : t = At(q, j)
    BY <1>6
  <2>7. PICK j \in DOMAIN table[q].parties : t = At(q, j)
    BY <2>2
  <2> HIDE DEF All, Serving
  <2>3. p \in Nat /\ q \in Nat /\ i \in Nat /\ j \in Nat
    BY <1>2
  <2>4. CASE p = q /\ i = j
    BY <2>6, <2>7, <2>4
  <2>5. CASE p # q \/ i # j
    BY <2>6, <2>7, <2>3, <2>5 DEF Before
  <2> QED
    BY <2>4, <2>5
<1> QED
  BY <1>1, <1>5, <1>7, <1>8

-----------------------------------------------------------------------------
(* The invariant. *)

LEMMA HubInit == Init => HubInv
<1> SUFFICES ASSUME Init PROVE HubInv
  OBVIOUS
<1>1. TableOK
  BY HubAssumption, RoutingTableAssumption DEF Init, TableOK, RecordOK
<1>2. DOMAIN legs = {}
  BY DEF Init, Nowhere
<1>3. TargetsOK /\ LegsOK
  BY <1>2, FS_EmptySet DEF TargetsOK, LegsOK
<1>4. PhaseOK
  BY <1>2, HubAssumption DEF Init, PhaseOK, Untold
<1>5. TableHeld
  BY DEF Init, TableHeld
<1> QED
  BY <1>1, <1>3, <1>4, <1>5 DEF HubInv

LEMMA HubTableChanges ==
    ASSUME HubInv, TableChanges
    PROVE  HubInv'
<1>1. TargetsOK' /\ LegsOK'
  BY DEF TableChanges, HubInv, TargetsOK, LegsOK, LegOK, FanOut, Before
<1>2. PhaseOK'
  BY HubAssumption DEF TableChanges, HubInv, PhaseOK, FanOut
<1>3. TableOK'
  <2>1. PICK p \in Platforms :
          \/ \E r \in Registrations : Upsert(p, r)
          \/ Remove(p)
          \/ \E s \in {"CONNECTED", "OFFLINE"} : SetStatus(p, s)
    BY DEF TableChanges
  <2>2. TableOK
    BY DEF HubInv
  <2>3. CASE \E r \in Registrations : Upsert(p, r)
    <3>1. PICK r \in Registrations : Upsert(p, r)
      BY <2>3
    <3>2. RecordOK(r)
      BY HubAssumption, RoutingTableAssumption DEF RecordOK
    <3>3. /\ DOMAIN table' = DOMAIN table \cup {p}
          /\ \A q \in DOMAIN table' : table'[q] = IF q = p THEN r ELSE table[q]
      BY <3>1 DEF Upsert
    <3> QED
      BY <2>2, <3>2, <3>3 DEF TableOK, RecordOK
  <2>4. CASE Remove(p)
    <3>1. /\ DOMAIN table' \subseteq DOMAIN table
          /\ \A q \in DOMAIN table' : table'[q] = table[q]
      BY <2>4 DEF Remove
    <3> QED
      BY <2>2, <3>1 DEF TableOK, RecordOK
  <2>5. CASE \E s \in {"CONNECTED", "OFFLINE"} : SetStatus(p, s)
    <3>1. PICK s \in {"CONNECTED", "OFFLINE"} : SetStatus(p, s)
      BY <2>5
    <3>2. /\ DOMAIN table' = DOMAIN table
          /\ \A q \in DOMAIN table :
               table'[q] = IF q = p THEN [table[q] EXCEPT !.status = s] ELSE table[q]
      BY <3>1 DEF SetStatus
    <3>3. RecordOK([table[p] EXCEPT !.status = s])
      BY <2>2, <3>1 DEF SetStatus, TableOK, RecordOK, Statuses
    <3> QED
      BY <2>2, <3>2, <3>3 DEF TableOK, RecordOK
  <2> QED
    BY <2>1, <2>3, <2>4, <2>5
<1>4. TableHeld'
  BY DEF TableChanges, TableHeld
<1> QED
  BY <1>1, <1>2, <1>3, <1>4 DEF HubInv

(* A new message: its targets are drawn from the table of this moment.      *)
LEMMA HubAccept ==
    ASSUME HubInv, NEW r \in Requests, Accept(r)
    PROVE  HubInv'
<1>1. TableOK'
  BY DEF Accept, HubInv, TableOK
<1>2. \A t \in DOMAIN legs' : legs'[t] = Waiting
  BY DEF Accept
<1>3. LegsOK'
  <2>1. LegOK(Waiting)
    BY DEF LegOK, LegType, Waiting, Codes
  <2> QED
    BY <1>2, <2>1 DEF LegsOK
<1>4. scenario' = ScenarioOf(r) /\ request' = r
  BY DEF Accept
<1>5. scenario' \in {"open", "direct", "getall", "broadcast", "refused"}
  BY <1>4 DEF ScenarioOf
<1>6. ASSUME NEW interface, DOMAIN legs' \in SUBSET Slots(interface),
             \A t \in DOMAIN legs' : t.party # r.from
      PROVE  TargetsOK'
  <2>1. IsFiniteSet(DOMAIN legs')
    BY <1>6, SlotsOK, FS_Subset DEF HubInv
  <2>2. /\ \A t \in DOMAIN legs' : t.platform \in Nat /\ t.slot \in Nat
        /\ \A s, t \in DOMAIN legs' : s = t \/ Before(s, t) \/ Before(t, s)
    BY <1>6, SlotsOK DEF HubInv
  <2> QED
    BY <2>1, <2>2, <1>4, <1>6 DEF TargetsOK, Before
<1>7. ~FanOut' => \E party : DOMAIN legs' \subseteq {[platform |-> 0, slot |-> 0, party |-> party]}
  <2>1. CASE scenario' = "direct"
    BY <1>4, <2>1 DEF Accept
  <2>2. CASE scenario' = "open"
    BY <1>4, <2>2 DEF Accept
  <2>3. CASE scenario' = "refused"
    BY <1>4, <2>3 DEF Accept
  <2> QED
    BY <1>5, <2>1, <2>2, <2>3 DEF FanOut
<1>8. TargetsOK'
  <2>1. CASE scenario' = "broadcast"
    <3>1. DOMAIN legs' = BroadcastTargets(r.from, r.role)
      BY <1>4, <2>1 DEF Accept
    <3> QED
      BY <3>1, <1>6 DEF BroadcastTargets
  <2>2. CASE scenario' = "getall"
    <3>1. DOMAIN legs' = GetAllSources(r.from)
      BY <1>4, <2>2 DEF Accept
    <3> QED
      BY <3>1, <1>6 DEF GetAllSources
  <2>3. CASE ~FanOut'
    <3>1. PICK party : DOMAIN legs' \subseteq {[platform |-> 0, slot |-> 0, party |-> party]}
      BY <1>7, <2>3
    <3> DEFINE one == [platform |-> 0, slot |-> 0, party |-> party]
    <3>2. IsFiniteSet({one})
      BY FS_Singleton
    <3>3. IsFiniteSet(DOMAIN legs')
      BY <3>1, <3>2, FS_Subset
    <3>4. \A t \in DOMAIN legs' : t = one
      BY <3>1
    <3>5. \A t \in DOMAIN legs' : t.platform \in Nat /\ t.slot \in Nat
      BY <3>4
    <3> QED
      BY <2>3, <3>3, <3>4, <3>5 DEF TargetsOK
  <2> QED
    BY <2>1, <2>2, <2>3 DEF FanOut
<1>9. ~FanOut' => \E t : DOMAIN legs' \subseteq {t}
  BY <1>7
<1>10. PhaseOK'
  BY <1>4, <1>5, <1>9 DEF Accept, HubInv, PhaseOK, Untold
<1>11. TableHeld'
  BY DEF Accept, TableHeld
<1> QED
  BY <1>1, <1>3, <1>8, <1>10, <1>11 DEF HubInv

OneLeg(t, leg) ==
    /\ DOMAIN legs' = DOMAIN legs
    /\ \A s \in DOMAIN legs : legs'[s] = IF s = t THEN leg ELSE legs[s]

(* A step of one call leaves the targets and the sender alone.              *)
LEMMA HubLegStep ==
    ASSUME HubInv, phase = "relaying", NEW t \in DOMAIN legs, NEW leg,
           LegOK(leg), OneLeg(t, leg),
           UNCHANGED <<table, changes, request, phase, scenario, told, held>>
    PROVE  HubInv'
<1>1. DOMAIN legs' = DOMAIN legs
  BY DEF OneLeg
<1>2. \A s \in DOMAIN legs : legs'[s] = IF s = t THEN leg ELSE legs[s]
  BY DEF OneLeg
<1>3. TableOK'
  BY DEF HubInv, TableOK
<1>4. TargetsOK'
  BY <1>1 DEF HubInv, TargetsOK, FanOut
<1>5. LegsOK'
  BY <1>1, <1>2 DEF HubInv, LegsOK
<1>6. PhaseOK'
  BY <1>1 DEF HubInv, PhaseOK, FanOut
<1>7. TableHeld'
  BY DEF HubInv, TableHeld
<1> QED
  BY <1>3, <1>4, <1>5, <1>6, <1>7 DEF HubInv

(* What carrying a document may come to.                                    *)
LEMMA CarryTypes ==
    ASSUME NEW payload, NEW whole, NEW from \in Versions, NEW to \in Versions,
           NEW undecoded \in {2001, 4000}
    PROVE  /\ Carry(payload, whole, from, to, undecoded).code \in {1000, 2001, 4000}
           /\ Carry(payload, whole, from, to, undecoded).doc \in Versions \cup {"none"}
           /\ ~Verbatim /\ payload # "foreign" =>
                Reads(payload, Carry(payload, whole, from, to, undecoded).doc, to)
  BY DEF Carry, Reads, Unnamed

LEMMA CarryRequestTypes ==
    ASSUME NEW r \in Requests, NEW theirs \in Versions
    PROVE  /\ CarryRequest(r, theirs).code \in {1000, 2001, 4000}
           /\ CarryRequest(r, theirs).doc \in Versions \cup {"none"}
           /\ ~Verbatim /\ r.body # "foreign" =>
                Reads(r.body, CarryRequest(r, theirs).doc, theirs)
<1>1. r.version \in Versions
  BY HubAssumption
<1>2. Reads(r.body, "none", theirs)
  BY DEF Reads
<1> QED
  BY <1>1, <1>2, CarryTypes DEF CarryRequest

LEMMA CarryResponseTypes ==
    ASSUME NEW r \in Requests, NEW theirs \in Versions, NEW data
    PROVE  /\ CarryResponse(r, theirs, data).code \in {1000, 2001, 4000}
           /\ CarryResponse(r, theirs, data).doc \in Versions \cup {"none"}
           /\ ~Verbatim /\ r.answer # "foreign" =>
                Reads(r.answer, CarryResponse(r, theirs, data).doc, r.version)
<1>1. r.version \in Versions
  BY HubAssumption
<1>2. Reads(r.answer, "none", r.version)
  BY DEF Reads
<1> QED
  BY <1>1, <1>2, CarryTypes DEF CarryResponse

(* What a call that enters the window becomes.                              *)
LEMMA LegStartsAs ==
    ASSUME HubInv, NEW t \in DOMAIN legs, LegStarts(t)
    PROVE  \E leg :
             /\ OneLeg(t, leg)
             /\ LegOK(leg)
             /\ NoMisread(leg)
             /\ legs[t].state = "waiting" /\ leg.state \in {"found", "done"}
             /\ AskedInTime(leg, t)
<1> DEFINE found == Lookup(t.party)
           p == PlatformOf(t.party)
           carried == CarryRequest(request, table[p].version)
           ended(code) == [Waiting EXCEPT !.state = "done", !.code = code]
           sent == [Waiting EXCEPT !.state = "found", !.platform = p,
                      !.theirs = table[p].version, !.sent = carried.doc]
           leg == IF found # 1000 THEN ended(found)
                  ELSE IF ~Implements(table[p], request.interface) THEN ended(4001)
                  ELSE IF carried.code # 1000 THEN ended(carried.code)
                  ELSE sent
<1>1. legs' = [legs EXCEPT ![t] = leg]
  BY DEF LegStarts
<1>2. OneLeg(t, leg)
  <2> HIDE DEF leg
  <2> QED
    BY <1>1 DEF OneLeg
<1>3. legs[t].state = "waiting"
  BY DEF LegStarts, MayEnter
<1>4. ASSUME NEW code \in Codes, code # 1000
      PROVE  /\ LegOK(ended(code)) /\ NoMisread(ended(code))
             /\ ended(code).state = "done" /\ ended(code).platform = 0 /\ ended(code).code = code
  <2>1. /\ LegOK(ended(code)) /\ ended(code).state = "done" /\ ended(code).platform = 0
        /\ ended(code).code = code /\ ended(code).sent = "none" /\ ended(code).back = "none"
    BY <1>4 DEF LegOK, LegType, Waiting, Codes
  <2> HIDE DEF ended
  <2> QED
    BY <2>1 DEF NoMisread, Reads
<1>5. found \in {1000, 4001, 4003} /\ table \in held
  BY DEF Lookup, HubInv, TableHeld
<1>6. CASE found # 1000
  <2>1. leg = ended(found) /\ found \in Codes
    BY <1>5, <1>6 DEF Codes
  <2>2. \/ \A q \in DOMAIN table : ~Hosts(table[q], t.party)
        \/ \E q \in DOMAIN table : Hosts(table[q], t.party) /\ ~Asked(table, q, t)
    <3>1. CASE Hosting(t.party) = {}
      BY <3>1 DEF Hosting
    <3>2. CASE Hosting(t.party) # {}
      <4>1. p \in DOMAIN table /\ Hosts(table[p], t.party) /\ ~Reachable(table[p])
        BY <1>6, <3>2, PlatformHosts DEF Lookup, Hosting, HubInv
      <4> QED
        BY <4>1 DEF Asked
    <3> QED
      BY <3>1, <3>2
  <2> HIDE DEF leg, ended, found
  <2>3. /\ LegOK(leg) /\ NoMisread(leg) /\ leg.state = "done" /\ leg.platform = 0
    BY <1>4, <1>6, <2>1
  <2>4. AskedInTime(leg, t)
    BY <1>5, <2>2, <2>3 DEF AskedInTime
  <2> QED
    BY <1>2, <1>3, <2>3, <2>4
<1>7. CASE found = 1000 /\ ~Implements(table[p], request.interface)
  <2>1. leg = ended(4001) /\ 4001 \in Codes
    BY <1>7 DEF Codes
  <2>2. p \in DOMAIN table /\ Hosts(table[p], t.party) /\ ~Asked(table, p, t)
    BY <1>7, LookupSucceeds DEF Asked, HubInv
  <2> HIDE DEF leg, ended, found, p
  <2>3. /\ LegOK(leg) /\ NoMisread(leg) /\ leg.state = "done" /\ leg.platform = 0
    BY <1>4, <2>1
  <2>4. AskedInTime(leg, t)
    BY <1>5, <2>2, <2>3 DEF AskedInTime
  <2> QED
    BY <1>2, <1>3, <2>3, <2>4
<1>8. CASE found = 1000 /\ Implements(table[p], request.interface)
  <2>1. /\ p \in DOMAIN table /\ p \in Platforms /\ p # 0 /\ table[p].version \in Versions
        /\ Asked(table, p, t)
    BY <1>8, LookupSucceeds, RoutingTableAssumption DEF HubInv, TableOK, RecordOK, Asked
  <2>2. /\ carried.code \in {1000, 2001, 4000}
        /\ carried.doc \in Versions \cup {"none"}
        /\ ~Verbatim /\ request.body # "foreign" =>
             Reads(request.body, carried.doc, table[p].version)
    BY <2>1, CarryRequestTypes DEF HubInv, PhaseOK
  <2>3. CASE carried.code # 1000
    <3>1. leg = ended(carried.code) /\ carried.code \in Codes /\ carried.code \notin {4001, 4003}
      BY <1>8, <2>2, <2>3 DEF Codes
    <3> HIDE DEF carried, leg, ended
    <3>2. /\ LegOK(leg) /\ NoMisread(leg) /\ leg.state = "done" /\ leg.platform = 0
          /\ leg.code \notin {4001, 4003}
      BY <1>4, <2>3, <3>1
    <3>3. AskedInTime(leg, t)
      BY <3>2 DEF AskedInTime
    <3> QED
      BY <1>2, <1>3, <3>2, <3>3
  <2>4. CASE carried.code = 1000
    <3>1. leg = sent
      BY <1>8, <2>4
    <3> HIDE DEF carried, leg
    <3>2. LegOK(sent)
      BY <2>1, <2>2 DEF LegOK, LegType, Waiting
    <3>3. /\ sent.theirs = table[p].version /\ sent.sent = carried.doc /\ sent.platform = p
          /\ sent.state = "found" /\ sent.back = "none"
      BY DEF Waiting
    <3> HIDE DEF sent
    <3>4. NoMisread(sent)
      BY <2>2, <3>3 DEF NoMisread, Reads
    <3>5. AskedInTime(sent, t)
      BY <1>5, <2>1, <3>3 DEF AskedInTime
    <3> QED
      BY <1>2, <1>3, <3>1, <3>2, <3>3, <3>4, <3>5
  <2> QED
    BY <2>3, <2>4
<1> QED
  BY <1>6, <1>7, <1>8

(* What a call becomes that is sent, refused by the URL policy or retried.  *)
LEMMA LegGoesAs ==
    ASSUME HubInv, NEW t \in DOMAIN legs, LegSends(t) \/ LegRefused(t) \/ LegRetries(t)
    PROVE  \E leg :
             /\ OneLeg(t, leg)
             /\ LegOK(leg)
             /\ leg.sent = legs[t].sent /\ leg.theirs = legs[t].theirs /\ leg.back = "none"
             /\ leg.platform = legs[t].platform /\ leg.platform # 0
             /\ legs[t].state \in {"found", "sent"} /\ leg.state \in {"sent", "done"}
<1> DEFINE made(leg) ==
             /\ OneLeg(t, leg)
             /\ LegOK(leg)
             /\ leg.sent = legs[t].sent /\ leg.theirs = legs[t].theirs /\ leg.back = "none"
             /\ leg.platform = legs[t].platform /\ leg.platform # 0
             /\ legs[t].state \in {"found", "sent"} /\ leg.state \in {"sent", "done"}
<1>1. LegOK(legs[t])
  BY DEF HubInv, LegsOK
<1>2. CASE LegSends(t)
  <2> DEFINE leg == [legs[t] EXCEPT !.state = "sent", !.attempt = 1]
  <2>1. legs[t].state = "found"
    BY <1>2 DEF LegSends
  <2>2. LegOK(leg) /\ leg.sent = legs[t].sent /\ leg.theirs = legs[t].theirs
        /\ leg.back = "none" /\ leg.platform = legs[t].platform /\ leg.platform # 0
        /\ leg.state = "sent"
    BY <1>1, <2>1 DEF LegOK, LegType
  <2>3. legs' = [legs EXCEPT ![t].state = "sent", ![t].attempt = 1]
    BY <1>2 DEF LegSends
  <2>4. OneLeg(t, leg)
    BY <2>3 DEF OneLeg
  <2> HIDE DEF leg
  <2> QED
    BY <2>1, <2>2, <2>4
<1>3. CASE LegRefused(t)
  <2> DEFINE leg == [legs[t] EXCEPT !.state = "done", !.code = 3000]
  <2>1. legs[t].state = "found"
    BY <1>3 DEF LegRefused
  <2>2. LegOK(leg) /\ leg.sent = legs[t].sent /\ leg.theirs = legs[t].theirs
        /\ leg.back = "none" /\ leg.platform = legs[t].platform /\ leg.platform # 0
        /\ leg.state = "done"
    BY <1>1, <2>1 DEF LegOK, LegType, Codes
  <2>3. legs' = [legs EXCEPT ![t].state = "done", ![t].code = 3000]
    BY <1>3 DEF LegRefused
  <2>4. OneLeg(t, leg)
    BY <2>3 DEF OneLeg
  <2> HIDE DEF leg
  <2> QED
    BY <2>1, <2>2, <2>4
<1>4. CASE LegRetries(t)
  <2> DEFINE leg == [legs[t] EXCEPT !.attempt = @ + 1]
  <2>1. legs' = [legs EXCEPT ![t] = leg] /\ legs[t].state = "sent"
    BY <1>4 DEF LegRetries
  <2>2. LegOK(leg) /\ leg.sent = legs[t].sent /\ leg.theirs = legs[t].theirs
        /\ leg.back = "none" /\ leg.platform = legs[t].platform /\ leg.platform # 0
        /\ leg.state = "sent"
    BY <1>1, <2>1 DEF LegOK, LegType
  <2> HIDE DEF leg
  <2>3. OneLeg(t, leg)
    BY <2>1 DEF OneLeg
  <2> QED
    BY <2>1, <2>2, <2>3
<1> QED
  BY <1>2, <1>3, <1>4

(* What a call that failed becomes.                                         *)
LEMMA LegFailsAs ==
    ASSUME HubInv, NEW t \in DOMAIN legs, NEW code \in {2000, 2001, 4002, 4003},
           LegFails(t, code)
    PROVE  \E leg :
             /\ OneLeg(t, leg)
             /\ LegOK(leg)
             /\ leg.sent = legs[t].sent /\ leg.theirs = legs[t].theirs /\ leg.back = "none"
             /\ leg.platform = legs[t].platform /\ leg.platform # 0
             /\ legs[t].state = "sent" /\ leg.state = "done"
<1> DEFINE leg == [legs[t] EXCEPT !.state = "done", !.code = code]
<1>1. legs[t].state = "sent" /\ LegOK(legs[t])
  BY DEF LegFails, HubInv, LegsOK
<1>2. OneLeg(t, leg)
  BY DEF LegFails, OneLeg
<1>3. LegOK(leg) /\ leg.sent = legs[t].sent /\ leg.theirs = legs[t].theirs
      /\ leg.back = "none" /\ leg.state = "done"
      /\ leg.platform = legs[t].platform /\ leg.platform # 0
  BY <1>1 DEF LegOK, LegType, Codes
<1> HIDE DEF leg
<1> QED
  BY <1>1, <1>2, <1>3

(* What a call that was answered becomes.                                   *)
LEMMA LegAnswersAs ==
    ASSUME HubInv, NEW t \in DOMAIN legs, NEW status \in {1000, 3000}, NEW data,
           LegAnswers(t, status, data)
    PROVE  \E leg :
             /\ OneLeg(t, leg)
             /\ LegOK(leg)
             /\ leg.sent = legs[t].sent /\ leg.theirs = legs[t].theirs
             /\ ~Verbatim /\ request.answer # "foreign" =>
                  Reads(request.answer, leg.back, request.version)
             /\ leg.platform = legs[t].platform /\ leg.platform # 0
             /\ legs[t].state = "sent" /\ leg.state = "done"
<1> DEFINE carried == CarryResponse(request, legs[t].theirs, data)
           code == IF carried.code # 1000 THEN carried.code ELSE status
           leg == [legs[t] EXCEPT !.state = "done", !.code = code, !.back = carried.doc]
<1>1. legs[t].state = "sent" /\ LegOK(legs[t])
  BY DEF LegAnswers, HubInv, LegsOK
<1>2. legs[t].theirs \in Versions
  BY <1>1 DEF LegOK
<1>3. /\ carried.code \in {1000, 2001, 4000}
      /\ carried.doc \in Versions \cup {"none"}
      /\ ~Verbatim /\ request.answer # "foreign" =>
           Reads(request.answer, carried.doc, request.version)
  BY <1>2, CarryResponseTypes DEF HubInv, PhaseOK
<1>4. legs' = [legs EXCEPT ![t].state = "done", ![t].code = code, ![t].back = carried.doc]
  BY DEF LegAnswers
<1> HIDE DEF carried
<1>5. OneLeg(t, leg)
  BY <1>4 DEF OneLeg
<1>6. code \in Codes
  BY <1>3 DEF Codes
<1> HIDE DEF code
<1>7. LegOK(leg) /\ leg.sent = legs[t].sent /\ leg.theirs = legs[t].theirs
      /\ leg.back = carried.doc /\ leg.state = "done"
      /\ leg.platform = legs[t].platform /\ leg.platform # 0
  BY <1>1, <1>3, <1>6 DEF LegOK, LegType
<1> HIDE DEF leg
<1> QED
  BY <1>1, <1>3, <1>5, <1>7

(* The failure that is reported is one, and the first of them.              *)
LEMMA FirstFailureFails ==
    ASSUME HubInv, \E u \in DOMAIN legs : legs[u].code # 1000
    PROVE  /\ FirstFailure \in DOMAIN legs
           /\ legs[FirstFailure].code # 1000
           /\ \A s \in DOMAIN legs :
                legs[s].code # 1000 => s = FirstFailure \/ Before(FirstFailure, s)
<1> DEFINE T == {u \in DOMAIN legs : legs[u].code # 1000}
<1>1. \E m \in T : \A t \in T : m = t \/ Before(m, t)
  <2>1. T \in SUBSET DOMAIN legs
    OBVIOUS
  <2>2. T # {}
    OBVIOUS
  <2> HIDE DEF T
  <2> QED
    BY <2>1, <2>2, FirstAndLast DEF HubInv
<1>2. \E t \in DOMAIN legs :
        /\ legs[t].code # 1000
        /\ \A s \in DOMAIN legs : legs[s].code # 1000 => s = t \/ Before(t, s)
  BY <1>1
<1> QED
  BY <1>2 DEF FirstFailure

LEMMA AggregateTypes ==
    ASSUME HubInv, \A t \in DOMAIN legs : legs[t].state = "done", NEW policy
    PROVE  Aggregate(policy) \in Codes
<1>1. \A t \in DOMAIN legs : legs[t].code \in Codes
  BY DEF HubInv, LegsOK, LegOK
<1>2. CASE \E u \in DOMAIN legs : legs[u].code # 1000
  <2>1. legs[FirstFailure].code \in Codes
    BY <1>1, <1>2, FirstFailureFails
  <2>2. 4003 \in Codes /\ 1000 \in Codes
    BY DEF Codes
  <2> QED
    BY <2>1, <2>2 DEF Aggregate
<1>3. CASE \A u \in DOMAIN legs : legs[u].code = 1000
  <2>1. {t \in DOMAIN legs : legs[t].code = 1000} = DOMAIN legs
    BY <1>3
  <2> QED
    BY <2>1 DEF Aggregate, Codes
<1> QED
  BY <1>2, <1>3

LEMMA HubTell ==
    ASSUME HubInv, Tell
    PROVE  HubInv'
<1>1. \A t \in DOMAIN legs : legs[t].state = "done" /\ legs[t].code \in Codes
  BY DEF Tell, HubInv, LegsOK, LegOK
<1>2. \A policy \in Policies : Aggregate(policy) \in Codes
  BY <1>1, AggregateTypes
<1>3. told' \in [Policies -> Codes]
  <2> DEFINE answer(policy) ==
        CASE FanOut -> Aggregate(policy)
          [] scenario = "refused" -> 2001
          [] OTHER -> IF DOMAIN legs = {} THEN 4001
                      ELSE LET t == CHOOSE t \in DOMAIN legs : TRUE IN legs[t].code
  <2>1. ASSUME NEW policy \in Policies PROVE answer(policy) \in Codes
    <3>1. FanOut => scenario # "refused"
      BY DEF FanOut
    <3>2. 2001 \in Codes /\ 4001 \in Codes
      BY DEF Codes
    <3>3. DOMAIN legs # {} => (CHOOSE t \in DOMAIN legs : TRUE) \in DOMAIN legs
      OBVIOUS
    <3>4. CASE FanOut
      <4>1. answer(policy) = Aggregate(policy)
        BY <3>1, <3>4
      <4> QED
        BY <1>2, <4>1
    <3>5. CASE ~FanOut /\ scenario = "refused"
      <4>1. answer(policy) = 2001
        BY <3>5
      <4> QED
        BY <3>2, <4>1
    <3>6. CASE ~FanOut /\ scenario # "refused" /\ DOMAIN legs = {}
      <4>1. answer(policy) = 4001
        BY <3>6
      <4> QED
        BY <3>2, <4>1
    <3>7. CASE ~FanOut /\ scenario # "refused" /\ DOMAIN legs # {}
      <4>1. answer(policy) = legs[CHOOSE t \in DOMAIN legs : TRUE].code
        BY <3>7
      <4> QED
        BY <1>1, <3>3, <3>7, <4>1
    <3> HIDE DEF answer
    <3> QED
      BY <3>4, <3>5, <3>6, <3>7
  <2>2. told' = [policy \in Policies |-> answer(policy)]
    BY DEF Tell
  <2> HIDE DEF answer
  <2> QED
    BY <2>1, <2>2
<1>4. PhaseOK'
  <2>1. phase' = "told" /\ UNCHANGED <<changes, request, scenario, legs>>
    BY DEF Tell
  <2>2. FanOut' <=> FanOut
    BY <2>1 DEF FanOut
  <2> HIDE DEF FanOut
  <2> QED
    BY <1>1, <1>3, <2>1, <2>2 DEF HubInv, PhaseOK
<1>5. TableOK' /\ TargetsOK' /\ LegsOK' /\ TableHeld'
  BY DEF Tell, HubInv, TableOK, TargetsOK, LegsOK, FanOut, TableHeld
<1> QED
  BY <1>4, <1>5 DEF HubInv

(* The ways a call moves, as one.                                           *)
LEMMA RelayAs ==
    ASSUME HubInv, Relays
    PROVE  /\ phase = "relaying"
           /\ UNCHANGED <<table, changes, request, phase, scenario, told, held>>
           /\ \E t \in DOMAIN legs : \E leg :
                /\ OneLeg(t, leg)
                /\ LegOK(leg)
                /\ legs[t].state # "done" /\ leg.state # "waiting"
                /\ NoMisreadDocument => NoMisread(leg)
                /\ AskedByOneTable => AskedInTime(leg, t)
                /\ legs[t].state = "waiting" => LegStarts(t)
<1>1. PICK t \in DOMAIN legs :
        \/ LegStarts(t) \/ LegSends(t) \/ LegRefused(t) \/ LegRetries(t)
        \/ \E code \in {2000, 2001, 4002, 4003} : LegFails(t, code)
        \/ \E data \in {"none", "object", "garbled"} : LegAnswers(t, 1000, data)
        \/ LegAnswers(t, 3000, "none")
  BY DEF Relays
<1>2. NoMisreadDocument => NoMisread(legs[t])
  BY DEF NoMisreadDocument, NoMisread
<1>3. AskedByOneTable => AskedInTime(legs[t], t)
  BY DEF AskedByOneTable, AskedInTime
<1>4. CASE LegStarts(t)
  <2>1. phase = "relaying" /\ UNCHANGED <<table, changes, request, phase, scenario, told, held>>
    BY <1>4 DEF LegStarts
  <2> QED
    BY <1>4, <2>1, LegStartsAs
<1>5. ASSUME NEW leg, LegOK(leg), leg.sent = legs[t].sent, leg.theirs = legs[t].theirs,
             leg.platform = legs[t].platform, leg.platform # 0,
             ~Verbatim /\ request.answer # "foreign" =>
                Reads(request.answer, leg.back, request.version)
      PROVE  /\ NoMisreadDocument => NoMisread(leg)
             /\ AskedByOneTable => AskedInTime(leg, t)
  <2>1. NoMisreadDocument => NoMisread(leg)
    BY <1>2, <1>5 DEF NoMisread
  <2>2. AskedByOneTable => AskedInTime(leg, t)
    BY <1>3, <1>5 DEF AskedInTime
  <2> QED
    BY <2>1, <2>2
<1>6. Reads(request.answer, "none", request.version)
  BY DEF Reads
<1>7. CASE LegSends(t) \/ LegRefused(t) \/ LegRetries(t)
  <2>1. phase = "relaying" /\ UNCHANGED <<table, changes, request, phase, scenario, told, held>>
    BY <1>7 DEF LegSends, LegRefused, LegRetries
  <2>2. PICK leg :
             /\ OneLeg(t, leg)
             /\ LegOK(leg)
             /\ leg.sent = legs[t].sent /\ leg.theirs = legs[t].theirs /\ leg.back = "none"
             /\ leg.platform = legs[t].platform /\ leg.platform # 0
             /\ legs[t].state \in {"found", "sent"} /\ leg.state \in {"sent", "done"}
    BY <1>7, LegGoesAs
  <2> QED
    BY <1>5, <1>6, <2>1, <2>2
<1>8. CASE \E code \in {2000, 2001, 4002, 4003} : LegFails(t, code)
  <2>1. PICK code \in {2000, 2001, 4002, 4003} : LegFails(t, code)
    BY <1>8
  <2>2. phase = "relaying" /\ UNCHANGED <<table, changes, request, phase, scenario, told, held>>
    BY <2>1 DEF LegFails
  <2>3. PICK leg :
             /\ OneLeg(t, leg)
             /\ LegOK(leg)
             /\ leg.sent = legs[t].sent /\ leg.theirs = legs[t].theirs /\ leg.back = "none"
             /\ leg.platform = legs[t].platform /\ leg.platform # 0
             /\ legs[t].state = "sent" /\ leg.state = "done"
    BY <2>1, LegFailsAs
  <2> QED
    BY <1>5, <1>6, <2>2, <2>3
<1>9. CASE \E status \in {1000, 3000}, data \in {"none", "object", "garbled"} :
             LegAnswers(t, status, data)
  <2>1. PICK status \in {1000, 3000}, data \in {"none", "object", "garbled"} :
             LegAnswers(t, status, data)
    BY <1>9
  <2>2. phase = "relaying" /\ UNCHANGED <<table, changes, request, phase, scenario, told, held>>
    BY <2>1 DEF LegAnswers
  <2>3. PICK leg :
             /\ OneLeg(t, leg)
             /\ LegOK(leg)
             /\ leg.sent = legs[t].sent /\ leg.theirs = legs[t].theirs
             /\ ~Verbatim /\ request.answer # "foreign" =>
                  Reads(request.answer, leg.back, request.version)
             /\ leg.platform = legs[t].platform /\ leg.platform # 0
             /\ legs[t].state = "sent" /\ leg.state = "done"
    BY <2>1, LegAnswersAs
  <2> QED
    BY <1>5, <2>2, <2>3
<1> QED
  BY <1>1, <1>4, <1>7, <1>8, <1>9

LEMMA HubRelays ==
    ASSUME HubInv, Relays
    PROVE  HubInv'
<1>1. PICK t \in DOMAIN legs : \E leg : OneLeg(t, leg) /\ LegOK(leg)
  BY RelayAs
<1>2. PICK leg : OneLeg(t, leg) /\ LegOK(leg)
  BY <1>1
<1> QED
  BY <1>2, RelayAs, HubLegStep

LEMMA HubNext == HubInv /\ [Next]_hvars => HubInv'
<1> SUFFICES ASSUME HubInv, [Next]_hvars PROVE HubInv'
  OBVIOUS
<1>1. CASE UNCHANGED hvars
  BY <1>1 DEF hvars, HubInv, TableOK, TargetsOK, LegsOK, PhaseOK, FanOut, TableHeld
<1> QED
  BY <1>1, HubTableChanges, HubAccept, HubRelays, HubTell DEF Next

LEMMA HubInvariant == Spec => []HubInv
  BY HubInit, HubNext, PTL DEF Spec

-----------------------------------------------------------------------------

(* Every variable of the hub keeps its type: a call has one of the codes    *)
(* the hub knows, and a message that was answered was answered with one.    *)
THEOREM HubTypes == Spec => []TypeOK
<1>1. HubInv => TypeOK
  BY DEF HubInv, TableOK, RecordOK, LegsOK, LegOK, LegType, PhaseOK, TypeOK
<1> QED
  BY <1>1, HubInvariant, PTL

(* Under Unbridgeable::Refuse no document that for_endpoint() names a kind  *)
(* for crosses the hub in a version its reader does not speak, whatever the *)
(* versions, and however the records change between the lookup, the send,   *)
(* the retries and the answer.                                             *)
THEOREM HubNoMisread == Spec => []NoMisreadDocument
<1>1. Init => NoMisreadDocument
  BY DEF Init, Nowhere, NoMisreadDocument
<1>2. HubInv /\ NoMisreadDocument /\ [Next]_hvars => NoMisreadDocument'
  <2> SUFFICES ASSUME HubInv, NoMisreadDocument, [Next]_hvars PROVE NoMisreadDocument'
    OBVIOUS
  <2>1. CASE UNCHANGED <<legs, request>>
    BY <2>1 DEF NoMisreadDocument
  <2>2. ASSUME NEW r \in Requests, Accept(r) PROVE NoMisreadDocument'
    <3>1. \A t \in DOMAIN legs' : legs'[t] = Waiting
      BY <2>2 DEF Accept
    <3> QED
      BY <3>1 DEF NoMisreadDocument, Waiting, Reads
  <2>3. CASE Relays
    <3>1. UNCHANGED request
      BY <2>3, RelayAs
    <3>2. PICK t \in DOMAIN legs : \E leg : OneLeg(t, leg) /\ NoMisread(leg)
      BY <2>3, RelayAs
    <3>3. PICK leg : OneLeg(t, leg) /\ NoMisread(leg)
      BY <3>2
    <3> QED
      BY <3>1, <3>3 DEF OneLeg, NoMisread, NoMisreadDocument
  <2> QED
    BY <2>1, <2>2, <2>3 DEF Next, TableChanges, Tell, hvars
<1> QED
  BY <1>1, <1>2, HubInvariant, PTL DEF Spec

(* Whoever is asked was, in one table since the message came, connected,    *)
(* host of the party, server of the interface and speaker of the version    *)
(* the body was carried to; whoever is told to be unknown or unconnected    *)
(* was so in one of them -- for any number of changes between the target    *)
(* list, the lookup, the send and its retries.                             *)
THEOREM HubAsksByOneTable == Spec => []AskedByOneTable
<1>1. Init => AskedByOneTable
  BY DEF Init, Nowhere, AskedByOneTable
<1>2. HubInv /\ AskedByOneTable /\ [Next]_hvars => AskedByOneTable'
  <2> SUFFICES ASSUME HubInv, AskedByOneTable, [Next]_hvars PROVE AskedByOneTable'
    OBVIOUS
  <2>1. CASE UNCHANGED <<legs, request>> /\ held \subseteq held'
    BY <2>1 DEF AskedByOneTable, Asked
  <2>2. ASSUME NEW r \in Requests, Accept(r) PROVE AskedByOneTable'
    <3>1. \A t \in DOMAIN legs' : legs'[t].platform = 0 /\ legs'[t].code = 0
      BY <2>2 DEF Accept, Waiting
    <3> QED
      BY <3>1 DEF AskedByOneTable
  <2>3. CASE Relays
    <3>1. UNCHANGED <<request, held>>
      BY <2>3, RelayAs
    <3>2. PICK t \in DOMAIN legs : \E leg : OneLeg(t, leg) /\ AskedInTime(leg, t)
      BY <2>3, RelayAs
    <3>3. PICK leg : OneLeg(t, leg) /\ AskedInTime(leg, t)
      BY <3>2
    <3>4. \A s \in DOMAIN legs : AskedInTime(legs[s], s)
      BY DEF AskedByOneTable, AskedInTime
    <3>5. \A s \in DOMAIN legs' : AskedInTime(legs'[s], s)
      <4>1. \A s \in DOMAIN legs : legs'[s] = IF s = t THEN leg ELSE legs[s]
        BY <3>3 DEF OneLeg
      <4>2. DOMAIN legs' = DOMAIN legs
        BY <3>3 DEF OneLeg
      <4> QED
        BY <3>3, <3>4, <4>1, <4>2
    <3> DEFINE asked(T, p, u) == /\ p \in DOMAIN T
                                 /\ Hosts(T[p], u.party) /\ Reachable(T[p])
                                 /\ Implements(T[p], request'.interface)
               named(s) == \E T \in held' : asked(T, legs'[s].platform, s)
                                           /\ T[legs'[s].platform].version = legs'[s].theirs
               unnamed(s) == \E T \in held' :
                                 \/ \A p \in DOMAIN T : ~Hosts(T[p], s.party)
                                 \/ \E p \in DOMAIN T : Hosts(T[p], s.party) /\ ~asked(T, p, s)
    <3> SUFFICES ASSUME NEW s \in DOMAIN legs'
                 PROVE  /\ legs'[s].platform # 0 => named(s)
                        /\ (legs'[s].platform = 0 /\ legs'[s].code \in {4001, 4003}) => unnamed(s)
      BY DEF AskedByOneTable, Asked
    <3>6. AskedInTime(legs'[s], s)
      BY <3>5
    <3>7. request' = request /\ held' = held
      BY <3>1
    <3> QED
      BY <3>6, <3>7 DEF AskedInTime, Asked
  <2> QED
    BY <2>1, <2>2, <2>3 DEF Next, TableChanges, Tell, hvars
<1> QED
  BY <1>1, <1>2, HubInvariant, PTL DEF Spec

-----------------------------------------------------------------------------
(* The window of a fan-out. *)

Between(s, t) == {u \in DOMAIN legs : ~Before(u, s) /\ Before(u, t)}

(* The half of FanOutBounded that is inductive: who is Window places behind *)
(* a call that is not done has not been asked.                             *)
WindowInv ==
    \A s, t \in DOMAIN legs :
        (/\ Before(s, t)
         /\ Cardinality(Between(s, t)) >= Window
         /\ legs[t].state # "waiting") => legs[s].state = "done"

LEMMA WindowType == Window \in Nat /\ Window >= 1
  BY HubAssumption DEF Window

(* A call only enters when what is not done ahead of it is less than the    *)
(* window: all from the first of them on are not yielded.                   *)
LEMMA EntersBehindDone ==
    ASSUME HubInv, NEW s \in DOMAIN legs, NEW t \in DOMAIN legs, Before(s, t),
           MayEnter(t), Cardinality(Between(s, t)) >= Window
    PROVE  legs[s].state = "done"
<1> SUFFICES ASSUME legs[s].state # "done" PROVE FALSE
  OBVIOUS
<1> DEFINE Ahead == {u \in DOMAIN legs : Before(u, t) /\ ~Yielded(u)}
<1>1. \A u \in Between(s, t) : s = u \/ Before(s, u)
  BY DEF Between, HubInv, TargetsOK
<1>2. Between(s, t) \in SUBSET Ahead
  BY <1>1 DEF Between, Yielded
<1>3. IsFiniteSet(DOMAIN legs) /\ Ahead \in SUBSET DOMAIN legs
  BY DEF HubInv, TargetsOK
<1>4. IsFiniteSet(Ahead)
  BY <1>3, FS_Subset
<1>5. Cardinality(Between(s, t)) <= Cardinality(Ahead) /\ IsFiniteSet(Between(s, t))
  BY <1>2, <1>4, FS_Subset
<1>6. Cardinality(Ahead) < Window
  BY DEF MayEnter
<1>7. Cardinality(Ahead) \in Nat /\ Cardinality(Between(s, t)) \in Nat
  BY <1>4, <1>5, FS_CardinalityType
<1> HIDE DEF Ahead
<1> QED
  BY <1>5, <1>6, <1>7, WindowType

LEMMA WindowNext ==
    ASSUME HubInv, WindowInv, [Next]_hvars
    PROVE  WindowInv'
<1>1. CASE UNCHANGED legs
  BY <1>1 DEF WindowInv, Between
<1>2. ASSUME NEW r \in Requests, Accept(r) PROVE WindowInv'
  BY <1>2 DEF Accept, WindowInv, Waiting
<1>3. CASE Relays
  <2>1. PICK e \in DOMAIN legs : \E leg :
                /\ OneLeg(e, leg)
                /\ legs[e].state # "done" /\ leg.state # "waiting"
                /\ legs[e].state = "waiting" => LegStarts(e)
    BY <1>3, RelayAs
  <2>2. PICK leg :
                /\ OneLeg(e, leg)
                /\ legs[e].state # "done" /\ leg.state # "waiting"
                /\ legs[e].state = "waiting" => LegStarts(e)
    BY <2>1
  <2>3. /\ DOMAIN legs' = DOMAIN legs
        /\ \A s \in DOMAIN legs : legs'[s] = IF s = e THEN leg ELSE legs[s]
    BY <2>2 DEF OneLeg
  <2> SUFFICES ASSUME NEW s \in DOMAIN legs, NEW t \in DOMAIN legs, Before(s, t),
                      Cardinality(Between(s, t)) >= Window, legs'[t].state # "waiting"
               PROVE  legs'[s].state = "done"
    BY <2>3 DEF WindowInv, Between
  <2>4. s # t
    BY DEF HubInv, TargetsOK, Before
  <2>5. CASE t = e /\ legs[e].state = "waiting"
    <3>1. MayEnter(e)
      BY <2>2, <2>5 DEF LegStarts
    <3>2. legs[s].state = "done"
      BY <2>5, <3>1, EntersBehindDone
    <3> QED
      BY <2>3, <2>4, <2>5, <3>2
  <2>6. CASE t # e \/ legs[e].state # "waiting"
    <3>1. legs[t].state # "waiting"
      BY <2>3, <2>6
    <3>2. legs[s].state = "done"
      BY <3>1 DEF WindowInv
    <3> QED
      BY <2>2, <2>3, <3>2
  <2> QED
    BY <2>2, <2>5, <2>6
<1> QED
  BY <1>1, <1>2, <1>3 DEF Next, TableChanges, Tell, hvars

(* From the first call that is out to the last there is room for Window.    *)
LEMMA OutFitWindow ==
    ASSUME HubInv, WindowInv
    PROVE  Cardinality(Out) <= Window
<1>1. IsFiniteSet(DOMAIN legs) /\ Out \in SUBSET DOMAIN legs
  BY DEF HubInv, TargetsOK, Out
<1>2. IsFiniteSet(Out)
  BY <1>1, FS_Subset
<1>3. CASE Out = {}
  BY <1>3, FS_EmptySet, WindowType
<1>4. CASE Out # {}
  <2>1. PICK s \in Out : \A u \in Out : s = u \/ Before(s, u)
    BY <1>1, <1>4, FirstAndLast DEF HubInv
  <2>2. PICK t \in Out : \A u \in Out : t = u \/ Before(u, t)
    BY <1>1, <1>4, FirstAndLast DEF HubInv
  <2>3. s \in DOMAIN legs /\ t \in DOMAIN legs /\ legs[s].state \in {"found", "sent"} /\ legs[t].state \in {"found", "sent"}
    BY DEF Out
  <2>4. Between(s, t) \in SUBSET DOMAIN legs
    BY DEF Between
  <2>5. IsFiniteSet(Between(s, t)) /\ Cardinality(Between(s, t)) \in Nat
    BY <1>1, <2>4, FS_Subset, FS_CardinalityType
  <2>6. Cardinality(Between(s, t)) < Window
    <3>1. CASE s = t
      <4>1. Between(s, t) = {}
        BY <3>1 DEF Between
      <4> QED
        BY <4>1, FS_EmptySet, WindowType
    <3>2. CASE Before(s, t)
      BY <2>3, <2>5, <3>2, WindowType DEF WindowInv
    <3> QED
      BY <2>2, <3>1, <3>2
  <2>7. Out \in SUBSET (Between(s, t) \cup {t})
    <3>1. ASSUME NEW u \in Out, u # t PROVE u \in Between(s, t)
      <4>1. Before(u, t) /\ (s = u \/ Before(s, u))
        BY <2>1, <2>2, <3>1
      <4>2. ~Before(u, s)
        BY <4>1, <1>1, <2>3 DEF HubInv, TargetsOK, Before
      <4> QED
        BY <1>1, <4>1, <4>2 DEF Between
    <3> QED
      BY <3>1
  <2>8. /\ IsFiniteSet(Between(s, t) \cup {t})
        /\ Cardinality(Between(s, t) \cup {t}) <= Cardinality(Between(s, t)) + 1
    BY <2>5, FS_AddElement
  <2>9. /\ Cardinality(Out) <= Cardinality(Between(s, t) \cup {t})
        /\ Cardinality(Out) \in Nat /\ Cardinality(Between(s, t) \cup {t}) \in Nat
    BY <1>2, <2>7, <2>8, FS_Subset, FS_CardinalityType
  <2> QED
    BY <2>5, <2>6, <2>8, <2>9, WindowType
<1> QED
  BY <1>3, <1>4

(* A fan-out never has more calls running than with_concurrency() allows,    *)
(* and reaches no target before the one a window ahead of it is done, for   *)
(* every number of platforms and parties and every window.                 *)
THEOREM HubFanOutBounded == Spec => []FanOutBounded
<1>1. Init => WindowInv
  BY DEF Init, Nowhere, WindowInv
<1>2. HubInv /\ WindowInv => FanOutBounded
  BY OutFitWindow DEF FanOutBounded, WindowInv, Between
<1>3. Spec => [](HubInv /\ WindowInv)
  BY <1>1, WindowNext, HubInvariant, PTL DEF Spec
<1> QED
  BY <1>2, <1>3, PTL

-----------------------------------------------------------------------------
(* What the sender is told. *)

LEMMA AggregateTells ==
    ASSUME HubInv, \A t \in DOMAIN legs : legs[t].state = "done", DOMAIN legs # {},
           NEW policy \in Policies
    PROVE  LET accepted == {t \in DOMAIN legs : legs[t].platform # 0 /\ legs[t].code = 1000}
           IN  /\ policy = "FirstErrorWins" => (Aggregate(policy) = 1000 <=> accepted = DOMAIN legs)
               /\ policy = "AnySuccess" => (Aggregate(policy) = 1000 <=> accepted # {})
               /\ Aggregate(policy) # 1000 =>
                    \E t \in DOMAIN legs :
                        /\ legs[t].code = Aggregate(policy)
                        /\ \A s \in DOMAIN legs : Before(s, t) => s \in accepted
<1> DEFINE accepted == {t \in DOMAIN legs : legs[t].platform # 0 /\ legs[t].code = 1000}
           succeeded == {t \in DOMAIN legs : legs[t].code = 1000}
<1>1. accepted = succeeded
  BY DEF HubInv, LegsOK, LegOK
<1>2. CASE succeeded = DOMAIN legs
  <2>1. succeeded # {}
    BY <1>2
  <2>2. Aggregate(policy) = 1000
    BY SMTT(40), <1>2 DEF Aggregate
  <2>3. accepted = DOMAIN legs /\ accepted # {}
    BY <1>1, <1>2, <2>1
  <2> HIDE DEF accepted, succeeded
  <2>4. /\ policy = "FirstErrorWins" => (Aggregate(policy) = 1000 <=> accepted = DOMAIN legs)
        /\ policy = "AnySuccess" => (Aggregate(policy) = 1000 <=> accepted # {})
        /\ Aggregate(policy) # 1000 =>
             \E t \in DOMAIN legs :
                 /\ legs[t].code = Aggregate(policy)
                 /\ \A s \in DOMAIN legs : Before(s, t) => s \in accepted
    BY <2>2, <2>3
  <2> QED
    BY <2>4 DEF accepted
<1>3. CASE succeeded # DOMAIN legs
  <2>1. /\ FirstFailure \in DOMAIN legs
        /\ legs[FirstFailure].code # 1000
        /\ \A s \in DOMAIN legs :
             legs[s].code # 1000 => s = FirstFailure \/ Before(FirstFailure, s)
    BY <1>3, FirstFailureFails
  <2>2. Aggregate(policy) =
          IF policy = "AlwaysSucceed" \/ (policy = "AnySuccess" /\ succeeded # {})
          THEN 1000 ELSE legs[FirstFailure].code
    BY <1>3 DEF Aggregate
  <2>3. \A s \in DOMAIN legs : Before(s, FirstFailure) => s \in succeeded
    BY <2>1 DEF HubInv, TargetsOK, Before
  <2>4. "FirstErrorWins" # "AnySuccess" /\ "FirstErrorWins" # "AlwaysSucceed"
        /\ "AnySuccess" # "AlwaysSucceed"
    OBVIOUS
  <2>5. accepted # DOMAIN legs /\ accepted = succeeded
    BY <1>1, <1>3
  <2> HIDE DEF accepted, succeeded
  <2>6. policy = "FirstErrorWins" => (Aggregate(policy) = 1000 <=> accepted = DOMAIN legs)
    BY <2>1, <2>2, <2>4, <2>5
  <2>7. policy = "AnySuccess" => (Aggregate(policy) = 1000 <=> accepted # {})
    BY <2>1, <2>2, <2>4, <2>5
  <2>8. Aggregate(policy) # 1000 =>
          \E t \in DOMAIN legs :
              /\ legs[t].code = Aggregate(policy)
              /\ \A s \in DOMAIN legs : Before(s, t) => s \in accepted
    BY <2>1, <2>2, <2>3, <2>5
  <2> USE DEF accepted
  <2> QED
    BY <2>6, <2>7, <2>8
<1> QED
  BY <1>2, <1>3

(* Under each policy a fan-out reports success only for what the policy     *)
(* means by it, and otherwise the code of the earliest target that failed.  *)
THEOREM HubTellsTheTruth == Spec => []ToldTheTruth
<1>1. Init => ToldTheTruth
  BY DEF Init, ToldTheTruth
<1>2. HubInv /\ ToldTheTruth /\ [Next]_hvars => ToldTheTruth'
  <2> SUFFICES ASSUME HubInv, ToldTheTruth, [Next]_hvars PROVE ToldTheTruth'
    OBVIOUS
  <2>1. CASE UNCHANGED <<request, phase, scenario, legs, told>>
    BY <2>1 DEF ToldTheTruth, FanOut
  <2>2. CASE phase' = "relaying"
    BY <2>2 DEF ToldTheTruth
  <2>3. CASE Tell
    <3>1. (\A t \in DOMAIN legs : legs[t].state = "done") /\ UNCHANGED <<scenario, legs>>
      BY <2>3 DEF Tell
    <3>2. FanOut => \A policy \in Policies : told'[policy] = Aggregate(policy)
      <4> SUFFICES ASSUME FanOut PROVE \A policy \in Policies : told'[policy] = Aggregate(policy)
        OBVIOUS
      <4> DEFINE answer(policy) ==
            CASE FanOut -> Aggregate(policy)
              [] scenario = "refused" -> 2001
              [] OTHER -> IF DOMAIN legs = {} THEN 4001
                          ELSE LET t == CHOOSE t \in DOMAIN legs : TRUE IN legs[t].code
      <4>1. told' = [policy \in Policies |-> answer(policy)]
        BY <2>3 DEF Tell
      <4>2. scenario # "refused"
        BY DEF FanOut
      <4>3. \A policy \in Policies : answer(policy) = Aggregate(policy)
        BY <4>2
      <4> HIDE DEF answer
      <4> QED
        BY <4>1, <4>3
    <3>3. "FirstErrorWins" \in Policies /\ "AnySuccess" \in Policies
      BY DEF Policies
    <3> SUFFICES ASSUME FanOut, DOMAIN legs # {}
                 PROVE  LET accepted == {t \in DOMAIN legs : legs[t].platform # 0
                                                             /\ legs[t].code = 1000}
                        IN  /\ told'["FirstErrorWins"] = 1000 <=> accepted = DOMAIN legs
                            /\ told'["AnySuccess"] = 1000 <=> accepted # {}
                            /\ \A policy \in Policies : told'[policy] # 1000 =>
                                \E t \in DOMAIN legs :
                                    /\ legs[t].code = told'[policy]
                                    /\ \A s \in DOMAIN legs : Before(s, t) => s \in accepted
      BY <3>1 DEF ToldTheTruth, FanOut
    <3> DEFINE accepted == {t \in DOMAIN legs : legs[t].platform # 0 /\ legs[t].code = 1000}
    <3>4. \A policy \in Policies :
            /\ policy = "FirstErrorWins" => (Aggregate(policy) = 1000 <=> accepted = DOMAIN legs)
            /\ policy = "AnySuccess" => (Aggregate(policy) = 1000 <=> accepted # {})
            /\ Aggregate(policy) # 1000 =>
                 \E t \in DOMAIN legs :
                     /\ legs[t].code = Aggregate(policy)
                     /\ \A s \in DOMAIN legs : Before(s, t) => s \in accepted
      BY <3>1, AggregateTells
    <3> HIDE DEF accepted
    <3>5. /\ told'["FirstErrorWins"] = 1000 <=> accepted = DOMAIN legs
          /\ told'["AnySuccess"] = 1000 <=> accepted # {}
      BY <3>2, <3>3, <3>4
    <3>6. \A policy \in Policies : told'[policy] # 1000 =>
            \E t \in DOMAIN legs :
                /\ legs[t].code = told'[policy]
                /\ \A s \in DOMAIN legs : Before(s, t) => s \in accepted
      BY <3>2, <3>4
    <3> USE DEF accepted
    <3> QED
      BY <3>5, <3>6
  <2>4. Relays => phase' = "relaying"
    BY RelayAs
  <2>5. \A r \in Requests : Accept(r) => phase' = "relaying"
    BY DEF Accept
  <2> QED
    BY <2>1, <2>2, <2>3, <2>4, <2>5 DEF Next, TableChanges, hvars
<1> QED
  BY <1>1, <1>2, HubInvariant, PTL DEF Spec
=============================================================================
