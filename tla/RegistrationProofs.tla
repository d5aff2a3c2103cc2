------------------------- MODULE RegistrationProofs -------------------------
(***************************************************************************)
(* What registration promises, for any number of platforms, tokens and     *)
(* requests under way, of a server whose operator invites no platform that *)
(* is registered already.                                                  *)
(***************************************************************************)
EXTENDS Registration, FiniteSetTheorems, SequenceTheorems, TLAPS

-----------------------------------------------------------------------------
(* Numbers. *)

(* A set of numbers has a smallest one.                                     *)
LEMMA LeastNumber ==
    ASSUME NEW S \in SUBSET Nat, S # {}
    PROVE  \E m \in S : \A n \in S : m <= n
<1> DEFINE D == {0..n : n \in S}
<1>1. IsWellFoundedOn(StrictSubsetOrdering(Nat), FiniteSubsetsOf(Nat))
  BY FS_StrictSubsetOrderingWellFounded
<1>2. D \subseteq FiniteSubsetsOf(Nat) /\ D # {}
  <2>1. ASSUME NEW n \in S PROVE 0..n \in FiniteSubsetsOf(Nat)
    BY FS_Interval DEF FiniteSubsetsOf
  <2> QED
    BY <2>1
<1>3. PICK d \in D : \A e \in D : <<e, d>> \notin StrictSubsetOrdering(Nat)
  <2> HIDE DEF D
  <2> QED
    BY <1>1, <1>2, WFMin
<1>4. PICK m \in S : d = 0..m
  OBVIOUS
<1>5. ASSUME NEW n \in S, n < m PROVE FALSE
  <2>1. 0..n \subseteq 0..m /\ m \in 0..m /\ m \notin 0..n /\ 0..m \subseteq Nat
    BY <1>5
  <2>2. <<0..n, d>> \in StrictSubsetOrdering(Nat)
    BY <1>4, <2>1 DEF StrictSubsetOrdering
  <2> QED
    BY <1>3, <2>2
<1> QED
  BY <1>5

(* What holds of 0, and of i + 1 where it holds of i, holds up to n.        *)
LEMMA UpTo ==
    ASSUME NEW n \in Nat, NEW S, 0 \in S,
           \A i \in 0..n : i < n /\ i \in S => i + 1 \in S
    PROVE  \A i \in 0..n : i \in S
<1> DEFINE Bad == {i \in 0..n : i \notin S}
<1>1. CASE Bad # {}
  <2>1. PICK m \in Bad : \A i \in Bad : m <= i
    <3>1. Bad \in SUBSET Nat
      OBVIOUS
    <3> HIDE DEF Bad
    <3> QED
      BY <1>1, <3>1, LeastNumber
  <2>2. m - 1 \in 0..n /\ m - 1 < n /\ m - 1 \notin Bad
    BY <2>1
  <2> QED
    BY <2>2
<1> QED
  BY <1>1

-----------------------------------------------------------------------------
(* The token store's list. *)

EntryType == [token : Tokens, platform : Platforms, role : Roles]

(* No platform has two places in the list.                                  *)
OneEach(list) == \A i, j \in DOMAIN list : list[i].platform = list[j].platform => i = j

(* The recursive function of Without is one.                                *)
LEMMA KeptIs ==
    ASSUME NEW list \in Seq(EntryType), NEW t
    PROVE  \E kept :
             /\ Without(list, t) = kept[Len(list)]
             /\ kept[0] = <<>>
             /\ \A n \in 1..Len(list) :
                  kept[n] = IF list[n].token = t THEN kept[n - 1]
                            ELSE Append(kept[n - 1], list[n])
<1> DEFINE N == Len(list)
           G(f, n) == IF n = 0 THEN <<>>
                      ELSE IF list[n].token = t THEN f[n - 1]
                      ELSE Append(f[n - 1], list[n])
           Good == {m \in 0..N : \E f : f = [n \in 0..m |-> G(f, n)]}
           kept == CHOOSE f : f = [n \in 0..N |-> G(f, n)]
<1>1. N \in Nat
  OBVIOUS
<1>2. 0 \in Good
  <2> DEFINE f == [n \in 0..0 |-> <<>>]
  <2>1. f = [n \in 0..0 |-> G(f, n)]
    OBVIOUS
  <2>2. 0 \in 0..N
    BY <1>1
  <2> HIDE DEF f, N, G
  <2> QED
    BY <2>1, <2>2
<1>3. ASSUME NEW m \in 0..N, m < N, m \in Good PROVE m + 1 \in Good
  <2>1. PICK f : f = [n \in 0..m |-> G(f, n)]
    BY <1>3
  <2> DEFINE g == [n \in 0..(m + 1) |-> G(f, n)]
  <2>2. ASSUME NEW n \in 0..m PROVE g[n] = f[n]
    <3>1. n \in 0..(m + 1)
      BY <1>1
    <3>2. g[n] = G(f, n)
      BY <3>1
    <3> HIDE DEF G, g
    <3>3. f[n] = G(f, n)
      BY <2>1
    <3> QED
      BY <3>2, <3>3
  <2>3. ASSUME NEW n \in 0..(m + 1) PROVE G(f, n) = G(g, n)
    <3>1. n = 0 \/ n - 1 \in 0..m
      BY <1>1
    <3> HIDE DEF g
    <3> QED
      BY <2>2, <3>1
  <2>4. g = [n \in 0..(m + 1) |-> G(g, n)]
    <3>1. g = [n \in 0..(m + 1) |-> G(f, n)]
      OBVIOUS
    <3> HIDE DEF g, G
    <3> QED
      BY <2>3, <3>1
  <2>5. m + 1 \in 0..N
    BY <1>1, <1>3
  <2> HIDE DEF g
  <2> QED
    BY <2>4, <2>5
<1>4. \E f : f = [n \in 0..N |-> G(f, n)]
  <2>1. N \in 0..N
    BY <1>1
  <2> HIDE DEF N, G
  <2>2. \A i \in 0..N : i \in Good
    <3> HIDE DEF Good
    <3> QED
      BY <1>1, <1>2, <1>3, UpTo
  <2> QED
    BY <2>1, <2>2
<1>5. kept = [n \in 0..N |-> G(kept, n)]
  <2> HIDE DEF N, G
  <2> QED
    BY <1>4
<1>6. Without(list, t) = kept[Len(list)]
  BY DEF Without
<1> HIDE DEF kept
<1>7. kept[0] = <<>>
  BY <1>1, <1>5
<1>8. ASSUME NEW n \in 1..N
      PROVE  kept[n] = IF list[n].token = t THEN kept[n - 1] ELSE Append(kept[n - 1], list[n])
  <2>1. n \in 0..N /\ n # 0
    BY <1>1
  <2> QED
    BY <1>5, <2>1
<1> QED
  BY <1>6, <1>7, <1>8

(* push: the new pair comes last.                                           *)
LEMMA AppendKeeps ==
    ASSUME NEW list \in Seq(EntryType), NEW e \in EntryType
    PROVE  /\ Append(list, e) \in Seq(EntryType)
           /\ Known(Append(list, e)) = Known(list) \cup {e}
           /\ OneEach(list) /\ (\A x \in Known(list) : x.platform # e.platform)
                => OneEach(Append(list, e))
<1> DEFINE longer == Append(list, e)
<1>1. /\ Len(list) \in Nat /\ DOMAIN list = 1..Len(list)
      /\ DOMAIN longer = 1..(Len(list) + 1)
      /\ longer[Len(list) + 1] = e
      /\ \A i \in DOMAIN list : longer[i] = list[i]
  OBVIOUS
<1>2. longer \in Seq(EntryType)
  OBVIOUS
<1> HIDE DEF longer
<1>3. \A i \in DOMAIN longer : i \in DOMAIN list \/ i = Len(list) + 1
  BY <1>1
<1>4. DOMAIN list \subseteq DOMAIN longer /\ Len(list) + 1 \in DOMAIN longer
  BY <1>1
<1>5. Known(longer) = Known(list) \cup {e}
  BY <1>1, <1>3, <1>4 DEF Known
<1>6. ASSUME OneEach(list), \A x \in Known(list) : x.platform # e.platform
      PROVE  OneEach(longer)
  <2>1. \A i \in DOMAIN list : longer[i].platform # e.platform
    BY <1>1, <1>6 DEF Known
  <2>2. \A i, j \in DOMAIN list : longer[i].platform = longer[j].platform => i = j
    BY <1>1, <1>6 DEF OneEach
  <2> QED
    BY <1>1, <1>3, <2>1, <2>2 DEF OneEach
<1> QED
  BY <1>2, <1>5, <1>6 DEF longer

(* retain keeps the pairs of the other tokens, and their order: a list with *)
(* one place for each platform stays one.                                  *)
LEMMA WithoutKeeps ==
    ASSUME NEW list \in Seq(EntryType), NEW t
    PROVE  /\ Without(list, t) \in Seq(EntryType)
           /\ Known(Without(list, t)) = {e \in Known(list) : e.token # t}
           /\ OneEach(list) => OneEach(Without(list, t))
<1> DEFINE N == Len(list)
           Left(m) == {list[i] : i \in {j \in 1..m : list[j].token # t}}
<1>1. N \in Nat /\ DOMAIN list = 1..N /\ \A i \in 1..N : list[i] \in EntryType
  OBVIOUS
<1>2. PICK kept :
        /\ Without(list, t) = kept[Len(list)]
        /\ kept[0] = <<>>
        /\ \A n \in 1..Len(list) :
             kept[n] = IF list[n].token = t THEN kept[n - 1] ELSE Append(kept[n - 1], list[n])
  BY KeptIs
<1> DEFINE Fine(m) == /\ kept[m] \in Seq(EntryType)
                      /\ Known(kept[m]) = Left(m)
                      /\ OneEach(list) => OneEach(kept[m])
           Good == {m \in 0..N : Fine(m)}
<1>3. 0 \in Good
  <2>1. kept[0] \in Seq(EntryType) /\ DOMAIN kept[0] = {}
    BY <1>2
  <2>2. Known(kept[0]) = {} /\ Left(0) = {}
    BY <2>1 DEF Known
  <2>3. OneEach(kept[0])
    BY <2>1 DEF OneEach
  <2> QED
    BY <1>1, <2>1, <2>2, <2>3
<1>4. ASSUME NEW m \in 0..N, m < N, m \in Good PROVE m + 1 \in Good
  <2> DEFINE k == m + 1
  <2>1. k \in 1..N /\ k - 1 = m /\ k \in 0..N
    BY <1>1, <1>4
  <2>2. Fine(m)
    BY <1>4
  <2>3. CASE list[k].token = t
    <3>1. kept[k] = kept[m]
      BY <1>2, <2>1, <2>3
    <3>2. Left(k) = Left(m)
      BY <1>1, <2>1, <2>3
    <3> HIDE DEF Left, k
    <3> QED
      BY <2>1, <2>2, <3>1, <3>2
  <2>4. CASE list[k].token # t
    <3>1. kept[k] = Append(kept[m], list[k])
      BY <1>2, <2>1, <2>4
    <3>2. Left(k) = Left(m) \cup {list[k]}
      <4>1. {j \in 1..k : list[j].token # t} = {j \in 1..m : list[j].token # t} \cup {k}
        BY <1>1, <2>1, <2>4
      <4> HIDE DEF k
      <4> QED
        BY <4>1
    <3> HIDE DEF k, N
    <3>3. list[k] \in EntryType /\ kept[m] \in Seq(EntryType)
      BY <1>1, <2>1, <2>2
    <3>4. kept[k] \in Seq(EntryType)
      BY <3>1, <3>3, AppendKeeps
    <3>5. Known(kept[k]) = Known(kept[m]) \cup {list[k]}
      BY <3>1, <3>3, AppendKeeps
    <3>6. ASSUME OneEach(list) PROVE OneEach(kept[k])
      <4>1. \A e \in Left(m) : e.platform # list[k].platform
        BY <1>1, <2>1, <3>6 DEF OneEach
      <4> HIDE DEF Left
      <4>2. OneEach(kept[m]) /\ \A e \in Known(kept[m]) : e.platform # list[k].platform
        BY <2>2, <3>6, <4>1
      <4> QED
        BY <3>1, <3>3, <4>2, AppendKeeps
    <3> HIDE DEF Left
    <3>7. Fine(k)
      BY <2>2, <3>2, <3>4, <3>5, <3>6
    <3> HIDE DEF Fine
    <3> QED
      BY <2>1, <3>7 DEF k
  <2> QED
    BY <2>3, <2>4
<1>5. \A m \in 0..N : m \in Good
  <2> HIDE DEF N, Good
  <2> QED
    BY <1>1, <1>3, <1>4, UpTo
<1>6. Fine(N) /\ Without(list, t) = kept[N]
  <2>1. N \in 0..N
    BY <1>1
  <2>2. Without(list, t) = kept[N]
    BY <1>2
  <2> HIDE DEF Fine, N
  <2> QED
    BY <1>5, <2>1, <2>2
<1>7. Left(N) = {e \in Known(list) : e.token # t}
  BY <1>1 DEF Known
<1> QED
  BY <1>6, <1>7

(* remove: one place less, and the others in their order.                   *)
LEMMA RemoveAtKeeps ==
    ASSUME NEW list \in Seq(EntryType), OneEach(list), NEW p \in DOMAIN list
    PROVE  /\ Seqs!RemoveAt(list, p) \in Seq(EntryType)
           /\ Known(Seqs!RemoveAt(list, p)) = Known(list) \ {list[p]}
           /\ OneEach(Seqs!RemoveAt(list, p))
<1> DEFINE N == Len(list)
           shorter == Seqs!RemoveAt(list, p)
           at(i) == IF i < p THEN i ELSE i + 1
<1>1. N \in Nat /\ DOMAIN list = 1..N /\ p \in 1..N
  OBVIOUS
<1>2. /\ shorter \in Seq(EntryType)
      /\ DOMAIN shorter = 1..(N - 1)
      /\ \A i \in 1..(N - 1) : shorter[i] = list[at(i)]
  <2> DEFINE front == SubSeq(list, 1, p - 1)
             back == SubSeq(list, p + 1, N)
  <2>1. /\ front \in Seq(EntryType) /\ Len(front) = p - 1
        /\ \A i \in 1..(p - 1) : front[i] = list[i]
    BY <1>1
  <2>2. /\ back \in Seq(EntryType) /\ Len(back) = N - p
        /\ \A i \in 1..(N - p) : back[i] = list[i + p]
    BY <1>1
  <2>3. shorter = front \o back
    BY DEF Seqs!RemoveAt
  <2> HIDE DEF front, back, shorter, N, at
  <2>6. /\ shorter \in Seq(EntryType) /\ Len(shorter) = Len(front) + Len(back)
        /\ \A i \in 1..(Len(front) + Len(back)) :
             shorter[i] = IF i <= Len(front) THEN front[i] ELSE back[i - Len(front)]
    BY <2>1, <2>2, <2>3, ConcatProperties
  <2>4. shorter \in Seq(EntryType) /\ Len(shorter) = N - 1 /\ DOMAIN shorter = 1..(N - 1)
    BY <1>1, <2>1, <2>2, <2>6
  <2>5. ASSUME NEW i \in 1..(N - 1) PROVE shorter[i] = list[at(i)]
    <3>1. CASE i < p
      <4>1. i \in 1..(p - 1) /\ at(i) = i
        BY <1>1, <3>1 DEF at
      <4>2. shorter[i] = front[i]
        BY <1>1, <2>1, <2>2, <2>6, <4>1
      <4> QED
        BY <2>1, <4>1, <4>2
    <3>2. CASE i >= p
      <4>1. i - (p - 1) \in 1..(N - p) /\ at(i) = i + 1 /\ (i - (p - 1)) + p = i + 1
        BY <1>1, <3>2 DEF at
      <4>3. /\ i \in 1..(Len(front) + Len(back)) /\ i > Len(front)
            /\ i - Len(front) = i - (p - 1)
        BY <1>1, <2>1, <2>2, <3>2
      <4>2. shorter[i] = back[i - Len(front)]
        BY <2>1, <2>2, <2>6, <4>3
      <4> QED
        BY <2>2, <4>1, <4>2, <4>3
    <3> QED
      BY <1>1, <3>1, <3>2
  <2> QED
    BY <2>4, <2>5
<1> HIDE DEF shorter, N
<1>3. \A i \in 1..(N - 1) : at(i) \in 1..N /\ at(i) # p
  BY <1>1
<1>4. \A i, j \in 1..(N - 1) : at(i) = at(j) => i = j
  BY <1>1
<1>5. \A k \in 1..N : k # p => \E i \in 1..(N - 1) : at(i) = k
  <2> SUFFICES ASSUME NEW k \in 1..N, k # p PROVE \E i \in 1..(N - 1) : at(i) = k
    OBVIOUS
  <2>1. CASE k < p
    BY <1>1, <2>1
  <2>2. CASE k > p
    <3>1. k - 1 \in 1..(N - 1) /\ at(k - 1) = k
      BY <1>1, <2>2
    <3> QED
      BY <3>1
  <2> QED
    BY <1>1, <2>1, <2>2
<1> HIDE DEF at
<1>6. OneEach(shorter)
  BY <1>1, <1>2, <1>3, <1>4 DEF OneEach
<1>7. Known(shorter) = Known(list) \ {list[p]}
  <2>1. \A k \in 1..N : k # p => list[k] # list[p]
    BY <1>1 DEF OneEach
  <2>2. Known(list) \ {list[p]} = {list[k] : k \in 1..N \ {p}}
    BY <1>1, <2>1 DEF Known
  <2>3. Known(shorter) = {list[at(i)] : i \in 1..(N - 1)}
    BY <1>2 DEF Known
  <2> QED
    BY <1>3, <1>5, <2>2, <2>3
<1> QED
  BY <1>2, <1>6, <1>7 DEF shorter

(* resolve: the caller is one of the list, by its token, or nobody.         *)
LEMMA ResolveFinds ==
    ASSUME NEW list \in Seq(EntryType), NEW t
    PROVE  \/ /\ Resolve(list, t) \in Known(list)
              /\ Resolve(list, t).token = t
              /\ Resolve(list, t) # Unknown
           \/ /\ \A e \in Known(list) : e.token # t
              /\ Resolve(list, t) = Unknown
<1> DEFINE Places == {i \in DOMAIN list : list[i].token = t}
<1>1. DOMAIN list = 1..Len(list) /\ Len(list) \in Nat /\ Known(list) \subseteq EntryType
  BY DEF Known
<1>2. CASE \E e \in Known(list) : e.token = t
  <2>1. Places # {}
    BY <1>2 DEF Known
  <2>2. Places \in SUBSET Nat /\ IsFiniteSet(Places)
    <3>1. IsFiniteSet(1..Len(list))
      BY <1>1, FS_Interval
    <3> QED
      BY <1>1, <3>1, FS_Subset
  <2>3. PICK m \in Places : \A n \in Places : m <= n
    BY <2>1, <2>2, LeastNumber
  <2>4. \E i \in DOMAIN list :
          /\ list[i].token = t
          /\ \A j \in 1..(i - 1) : list[j].token # t
    BY <1>1, <2>3
  <2>5. Resolve(list, t) \in Known(list) /\ Resolve(list, t).token = t
    BY <1>2, <2>4 DEF Resolve, Known
  <2>6. \A e \in EntryType : e # Unknown
    BY DEF EntryType, Unknown, Roles
  <2> QED
    BY <1>1, <2>5, <2>6
<1>3. CASE \A e \in Known(list) : e.token # t
  BY <1>3 DEF Resolve
<1> QED
  BY <1>2, <1>3

-----------------------------------------------------------------------------
(* The invariant. *)

(* The token a platform stands in the store with.                          *)
Standing(p) ==
    IF server[p].state = "registered" THEN Entry(server[p].token, p, "C")
    ELSE Entry(server[p].invitation, p, "A")

Expected == {p \in Platforms : server[p].state # "unregistered"}

(* One place for each platform the server expects, with what it gave it.   *)
EntriesOK ==
    /\ OneEach(entries)
    /\ Known(entries) = {Standing(p) : p \in Expected}

(* What a platform was given is what the state of its registration says.   *)
ServerOK ==
    \A p \in Platforms :
        /\ server[p].token # NoToken <=> server[p].state = "registered"
        /\ server[p].invitation # NoToken <=> server[p].state = "bootstrapped"

Given(p) == {server[p].invitation, server[p].token} \ {NoToken}
From(s, p) == requests[s] # Free /\ requests[s].from = p
Holds(p, t) ==
    \/ t \in {client[p].invitation, client[p].peer, client[p].flow.token}
    \/ \E s \in Slots : From(s, p) /\ t \in {requests[s].token, requests[s].reply}

(* No platform holds, or has in a message, what another was given.          *)
OwnedOK ==
    \A p, q \in Platforms : \A t \in Given(q) : t \in Given(p) \/ Holds(p, t) => p = q

SpentOK == \A p \in Platforms : Given(p) \cap spent = {}

(* A handler runs for the platform that called, and answers as its method. *)
RequestsOK ==
    \A s \in Slots :
        /\ requests[s].stage = "handled" => requests[s].as = requests[s].from
        /\ requests[s].stage = "answered" =>
              requests[s].reply \in {"error"} \cup
                  (IF requests[s].method = "DELETE" THEN {"done"} ELSE Tokens)

(* The token p uses is the one of its registration.                        *)
InStep(p, t) == server[p].state = "registered" /\ t = server[p].token

Succeeded(s) == requests[s].stage = "answered" /\ requests[s].reply # "error"

(* There is no request but the one that is waited for, and what the platform *)
(* uses, or is about to use, is in step with the server.                   *)
InOrder(p) ==
    /\ \A s \in Slots : From(s, p) => client[p].call = s
    /\ client[p].call = NoSlot =>
          (client[p].peer # NoToken => InStep(p, client[p].peer))
    /\ \A s \in Slots : From(s, p) =>
          IF Succeeded(s)
          THEN requests[s].method # "DELETE" => InStep(p, requests[s].reply)
          ELSE client[p].peer # NoToken => InStep(p, client[p].peer)

(* Only a mishap gets a platform out of order.                              *)
QuietOK == \A p \in Platforms : ~mishap[p] => InOrder(p)

RegInv == TypeOK /\ EntriesOK /\ ServerOK /\ OwnedOK /\ SpentOK /\ RequestsOK /\ QuietOK

ClientType ==
    [peer : Drawn, invitation : Drawn, call : Slots \cup {NoSlot},
     flow : [at : {"none", "new", "discovered", "selected"}, token : Drawn]]

RequestType ==
    [stage : {"sent", "handled", "answered"}, from : Platforms,
     method : {"POST", "PUT", "DELETE"}, token : Tokens, as : Platforms \cup {NoToken},
     reply : Drawn \cup {"error", "done"}]

-----------------------------------------------------------------------------
(* Drawn tokens, and answers. *)

(* Free is no request.                                                      *)
LEMMA FreeIsNoRequest ==
    /\ Free \notin RequestType
    /\ Free.stage = "free"
    /\ TypeOK => requests \in [Slots -> {Free} \cup RequestType]
<1>1. \A r \in RequestType : r.stage # "free"
  BY DEF RequestType
<1>2. Free.stage = "free"
  BY DEF Free
<1> QED
  BY <1>1, <1>2 DEF TypeOK, RequestType

(* A drawn token is nobody's.                                               *)
LEMMA DrawnIsNobodys ==
    ASSUME TypeOK, NEW t \in Tokens, Unused(t)
    PROVE  /\ \A p \in Platforms : ~Holds(p, t) /\ t \notin Given(p)
           /\ \A e \in Known(entries) : e.token # t
BY DEF Unused, Holds, Given, From

(* Nothing is handed on to another platform.                                *)
LEMMA OwnedKept ==
    ASSUME OwnedOK,
           \A p \in Platforms : Given(p)' \subseteq Given(p),
           \A p \in Platforms : \A t : Holds(p, t)' => Holds(p, t) \/ t = NoToken
    PROVE  OwnedOK'
<1>1. \A q \in Platforms : NoToken \notin Given(q)'
  BY DEF Given
<1> QED
  BY <1>1 DEF OwnedOK

(* Nor is a token that is drawn for one.                                    *)
LEMMA OwnedDrawn ==
    ASSUME OwnedOK, TypeOK, NEW o \in Platforms, NEW t \in Tokens, Unused(t),
           \A p \in Platforms : Given(p)' \subseteq Given(p) \cup (IF p = o THEN {t} ELSE {}),
           \A p \in Platforms : \A u : Holds(p, u)' => Holds(p, u) \/ (p = o /\ u = t)
    PROVE  OwnedOK'
<1>1. \A p \in Platforms : ~Holds(p, t) /\ t \notin Given(p)
  BY DrawnIsNobodys
<1>2. SUFFICES ASSUME NEW p \in Platforms, NEW q \in Platforms, NEW u \in Given(q)',
                      u \in Given(p)' \/ Holds(p, u)'
               PROVE  p = q
  BY DEF OwnedOK
<1>3. u \in Given(q) \/ (q = o /\ u = t)
  OBVIOUS
<1>4. u \in Given(p) \/ Holds(p, u) \/ (p = o /\ u = t)
  BY <1>2
<1> QED
  BY <1>1, <1>3, <1>4 DEF OwnedOK

(* The answer reaches who still waits for it, and changes nothing else.     *)
LEMMA AnswerIs ==
    ASSUME TypeOK, NEW s \in Slots, requests[s] # Free, NEW reply \in Drawn \cup {"error", "done"},
           Answer(s, reply)
    PROVE  /\ requests' \in [Slots -> {Free} \cup RequestType]
           /\ \A u \in Slots : u # s => requests'[u] = requests[u]
           /\ \/ requests'[s] = Free /\ client[requests[s].from].call # s
              \/ /\ requests'[s] # Free
                 /\ requests'[s] = [requests[s] EXCEPT !.stage = "answered", !.reply = reply]
<1> DEFINE r == requests[s]
           answered == [r EXCEPT !.stage = "answered", !.reply = reply]
<1>1. r \in RequestType /\ requests \in [Slots -> {Free} \cup RequestType]
  BY FreeIsNoRequest
<1>2. answered \in RequestType
  BY <1>1 DEF RequestType
<1>3. answered # Free
  BY <1>2, FreeIsNoRequest
<1>4. requests' = [requests EXCEPT ![s] = IF client[r.from].call = s THEN answered ELSE Free]
  BY DEF Answer
<1> HIDE DEF answered
<1> QED
  BY <1>1, <1>2, <1>3, <1>4 DEF answered

(* What does not touch a platform leaves it in order.                       *)
LEMMA OrderKept ==
    ASSUME NEW p \in Platforms, InOrder(p),
           server'[p] = server[p],
           client'[p].peer = client[p].peer, client'[p].call = client[p].call,
           \A s \in Slots : From(s, p)' =>
               /\ From(s, p)
               /\ Succeeded(s)' <=> Succeeded(s)
               /\ Succeeded(s)' => /\ requests'[s].reply = requests[s].reply
                                   /\ requests'[s].method = requests[s].method
    PROVE  InOrder(p)'
BY DEF InOrder, InStep

LEMMA RegInit == Init => RegInv
<1> SUFFICES ASSUME Init PROVE RegInv
  OBVIOUS
<1>1. TypeOK
  BY RegistrationAssumption DEF Init, TypeOK, Drawn, States, NoFlow
<1>2. EntriesOK
  <2>1. Known(entries) = {} /\ Expected = {}
    BY DEF Init, Known, Expected
  <2>2. OneEach(entries)
    BY DEF Init, OneEach
  <2> QED
    BY <2>1, <2>2 DEF EntriesOK
<1>3. ServerOK
  BY DEF Init, ServerOK
<1>4. OwnedOK /\ SpentOK
  <2>1. \A p \in Platforms : Given(p) = {}
    BY DEF Init, Given
  <2> QED
    BY <2>1 DEF OwnedOK, SpentOK
<1>5. RequestsOK
  BY DEF Init, RequestsOK, Free
<1>6. QuietOK
  BY DEF Init, QuietOK, InOrder, From
<1> QED
  BY <1>1, <1>2, <1>3, <1>4, <1>5, <1>6 DEF RegInv

-----------------------------------------------------------------------------
(* The client's steps. *)

(* Begin and Discover move a handshake with a token the platform holds.     *)
LEMMA RegHandshake ==
    ASSUME RegInv, NEW p \in Platforms, Begin(p) \/ Discover(p)
    PROVE  RegInv'
<1>1. UNCHANGED <<entries, server, requests, spent, mishap>>
  BY DEF Begin, Discover
<1> DEFINE Flows == [at : {"none", "new", "discovered", "selected"}, token : Drawn]
<1>7. client \in [Platforms -> ClientType]
  BY DEF RegInv, TypeOK, ClientType
<1>8. \E flow \in Flows :
         /\ flow.token \in {client[p].peer, client[p].invitation, client[p].flow.token, NoToken}
         /\ client' = [client EXCEPT ![p].flow = flow]
  <2>1. client[p].flow \in Flows
    BY <1>7 DEF ClientType
  <2>2. CASE Begin(p)
    <3>1. PICK t \in {client[p].invitation, client[p].peer} \ {NoToken} :
            client' = [client EXCEPT ![p].flow = [at |-> "new", token |-> t]]
      BY <2>2 DEF Begin
    <3>2. t \in Drawn
      BY <1>7 DEF ClientType
    <3>3. [at |-> "new", token |-> t] \in Flows
      BY <3>2
    <3> QED
      BY <3>1, <3>3
  <2>3. CASE Discover(p) /\ client' = [client EXCEPT ![p].flow = NoFlow]
    <3>1. NoFlow \in Flows /\ NoFlow.token = NoToken
      BY DEF NoFlow, Drawn
    <3> QED
      BY <2>3, <3>1
  <2>4. CASE Discover(p) /\ client' # [client EXCEPT ![p].flow = NoFlow]
    <3> DEFINE flow == [client[p].flow EXCEPT !.at = FollowsOn[@]]
    <3>1. client[p].flow.at \in DOMAIN FollowsOn
      BY <2>4 DEF Discover
    <3>2. FollowsOn[client[p].flow.at] \in {"discovered", "selected"}
      BY <3>1 DEF FollowsOn
    <3>3. flow \in Flows /\ flow.token = client[p].flow.token
      BY <2>1, <3>2
    <3>4. client' = [client EXCEPT ![p].flow = flow]
      BY <1>7, <2>4 DEF Discover
    <3> QED
      BY <3>3, <3>4
  <2> QED
    BY <2>2, <2>3, <2>4
<1>2. /\ client' \in [Platforms -> ClientType]
      /\ \A q \in Platforms :
           /\ client'[q].peer = client[q].peer /\ client'[q].call = client[q].call
           /\ client'[q].invitation = client[q].invitation
           /\ client'[q].flow.token \in {client[q].peer, client[q].invitation,
                                         client[q].flow.token, NoToken}
  BY <1>7, <1>8 DEF ClientType
<1>3. TypeOK'
  BY <1>1, <1>2 DEF RegInv, TypeOK, ClientType
<1>4. EntriesOK' /\ ServerOK' /\ SpentOK' /\ RequestsOK'
  BY <1>1 DEF RegInv, EntriesOK, ServerOK, SpentOK, RequestsOK, Standing, Expected, Given
<1>5. OwnedOK'
  <2>1. \A q \in Platforms : Given(q)' = Given(q)
    BY <1>1 DEF Given
  <2>2. \A q \in Platforms : \A t : Holds(q, t)' => Holds(q, t) \/ t = NoToken
    BY <1>1, <1>2 DEF Holds, From
  <2> QED
    BY <2>1, <2>2, OwnedKept DEF RegInv
<1>6. QuietOK'
  BY <1>1, <1>2, OrderKept DEF RegInv, QuietOK, From, Succeeded
<1> QED
  BY <1>3, <1>4, <1>5, <1>6 DEF RegInv

LEMMA RegGiveUp ==
    ASSUME RegInv, NEW p \in Platforms, GiveUp(p)
    PROVE  RegInv'
<1>1. /\ UNCHANGED <<entries, server, requests, spent>>
      /\ client' = [client EXCEPT ![p].call = NoSlot]
      /\ mishap' = [mishap EXCEPT ![p] = TRUE]
  BY DEF GiveUp
<1>2. client \in [Platforms -> ClientType] /\ mishap \in [Platforms -> BOOLEAN]
  BY DEF RegInv, TypeOK, ClientType
<1>3. /\ client' \in [Platforms -> ClientType] /\ mishap' \in [Platforms -> BOOLEAN]
      /\ \A q \in Platforms :
           /\ client'[q].peer = client[q].peer
           /\ client'[q].invitation = client[q].invitation
           /\ client'[q].flow = client[q].flow
           /\ q # p => client'[q] = client[q] /\ mishap'[q] = mishap[q]
      /\ mishap'[p]
  BY <1>1, <1>2 DEF ClientType
<1>4. TypeOK'
  BY <1>1, <1>3 DEF RegInv, TypeOK, ClientType
<1>5. EntriesOK' /\ ServerOK' /\ SpentOK' /\ RequestsOK'
  BY <1>1 DEF RegInv, EntriesOK, ServerOK, SpentOK, RequestsOK, Standing, Expected, Given
<1>6. OwnedOK'
  <2>1. \A q \in Platforms : Given(q)' = Given(q)
    BY <1>1 DEF Given
  <2>2. \A q \in Platforms : \A t : Holds(q, t)' => Holds(q, t)
    BY <1>1, <1>3 DEF Holds, From
  <2> QED
    BY <2>1, <2>2, OwnedKept DEF RegInv
<1>7. QuietOK'
  BY <1>1, <1>3, OrderKept DEF RegInv, QuietOK, From, Succeeded
<1> QED
  BY <1>4, <1>5, <1>6, <1>7 DEF RegInv

(* A call with a token the platform holds.                                  *)
LEMMA RegSends ==
    ASSUME RegInv, NEW p \in Platforms, NEW method \in {"POST", "PUT", "DELETE"},
           NEW t \in {client[p].peer, client[p].flow.token}, Sends(p, method, t)
    PROVE  RegInv'
<1> DEFINE new == [stage |-> "sent", from |-> p, method |-> method, token |-> t,
                   as |-> NoToken, reply |-> NoToken]
<1>1. PICK s \in Slots :
        /\ requests[s] = Free
        /\ requests' = [requests EXCEPT ![s] = new]
        /\ client' = [client EXCEPT ![p].call = s, ![p].flow = NoFlow]
  BY DEF Sends
<1>2. /\ UNCHANGED <<entries, server, spent, mishap>>
      /\ client[p].call = NoSlot /\ t # NoToken
  BY DEF Sends
<1>3. /\ client \in [Platforms -> ClientType]
      /\ requests \in [Slots -> {Free} \cup RequestType]
  BY FreeIsNoRequest DEF RegInv, TypeOK, ClientType
<1>4. NoFlow \in [at : {"none", "new", "discovered", "selected"}, token : Drawn]
  BY DEF NoFlow, Drawn
<1>5. /\ client' \in [Platforms -> ClientType]
      /\ client'[p].call = s
      /\ \A q \in Platforms :
           /\ client'[q].peer = client[q].peer
           /\ client'[q].invitation = client[q].invitation
           /\ client'[q].flow.token \in {client[q].flow.token, NoToken}
           /\ q # p => client'[q].call = client[q].call
  BY <1>1, <1>3, <1>4 DEF ClientType, NoFlow
<1>6. t \in Tokens
  BY <1>2, <1>3 DEF ClientType, Drawn
<1>7. new \in RequestType /\ new # Free
  <2>1. new \in RequestType
    BY <1>6 DEF RequestType, Drawn
  <2> QED
    BY <2>1, FreeIsNoRequest
<1>8. /\ requests' \in [Slots -> {Free} \cup RequestType]
      /\ requests'[s] = new
      /\ \A u \in Slots : u # s => requests'[u] = requests[u]
  <2> HIDE DEF new
  <2> QED
    BY <1>1, <1>3, <1>7
<1>9. TypeOK'
  BY <1>2, <1>5, <1>8 DEF RegInv, TypeOK, ClientType, RequestType
<1>10. EntriesOK' /\ ServerOK' /\ SpentOK'
  BY <1>2 DEF RegInv, EntriesOK, ServerOK, SpentOK, Standing, Expected, Given
<1>11. RequestsOK'
  BY <1>8 DEF RegInv, RequestsOK
<1>12. OwnedOK'
  <2>1. \A q \in Platforms : Given(q)' = Given(q)
    BY <1>2 DEF Given
  <2>2. Holds(p, t)
    BY DEF Holds
  <2>3. ASSUME NEW q \in Platforms, NEW u, Holds(q, u)' PROVE Holds(q, u) \/ u = NoToken
    <3>1. CASE u \in {client'[q].invitation, client'[q].peer, client'[q].flow.token}
      BY <1>5, <3>1 DEF Holds
    <3>2. CASE \E v \in Slots : From(v, q)' /\ u \in {requests'[v].token, requests'[v].reply}
      BY <1>8, <2>2, <3>2 DEF Holds, From
    <3> QED
      BY <2>3, <3>1, <3>2 DEF Holds
  <2> QED
    BY <2>1, <2>3, OwnedKept DEF RegInv
<1>13. QuietOK'
  <2> SUFFICES ASSUME NEW q \in Platforms, ~mishap'[q] PROVE InOrder(q)'
    BY DEF QuietOK
  <2>1. InOrder(q)
    BY <1>2 DEF RegInv, QuietOK
  <2>2. CASE q # p
    BY <1>2, <1>5, <1>8, <2>1, <2>2, OrderKept DEF From, Succeeded
  <2>3. CASE q = p
    <3>1. \A u \in Slots : ~From(u, p)
      BY <1>2, <2>1, <2>3, RegistrationAssumption DEF InOrder
    <3>2. \A u \in Slots : From(u, p)' => u = s
      BY <1>8, <3>1 DEF From
    <3>3. client[p].peer # NoToken => InStep(p, client[p].peer)
      BY <1>2, <2>1, <2>3 DEF InOrder
    <3>4. client'[p].peer # NoToken => InStep(p, client[p].peer)'
      BY <1>2, <1>5, <3>3 DEF InStep
    <3>5. ~Succeeded(s)'
      BY <1>8 DEF Succeeded
    <3> QED
      BY <1>5, <2>3, <3>2, <3>4, <3>5, RegistrationAssumption DEF InOrder
  <2> QED
    BY <2>2, <2>3
<1> QED
  BY <1>9, <1>10, <1>11, <1>12, <1>13 DEF RegInv

LEMMA RegCalls ==
    ASSUME RegInv, NEW p \in Platforms,
           Register(p) \/ (\E t \in Tokens : UpdateWith(p, t)) \/ Unregister(p)
    PROVE  RegInv'
BY RegSends DEF Register, UpdateWith, Unregister

LEMMA RegReceive ==
    ASSUME RegInv, NEW p \in Platforms, Receive(p)
    PROVE  RegInv'
<1> DEFINE s == client[p].call
           r == requests[s]
           taken == IF r.reply = "error" THEN client[p].peer
                    ELSE IF r.method = "DELETE" THEN NoToken ELSE r.reply
<1>1. /\ UNCHANGED <<entries, server, spent, mishap>>
      /\ s # NoSlot /\ r.stage = "answered" /\ r.from = p
      /\ requests' = [requests EXCEPT ![s] = Free]
  BY DEF Receive
<1>2. /\ client \in [Platforms -> ClientType]
      /\ requests \in [Slots -> {Free} \cup RequestType]
  BY FreeIsNoRequest DEF RegInv, TypeOK, ClientType
<1>3. s \in Slots /\ r # Free /\ r \in RequestType /\ From(s, p)
  BY <1>1, <1>2, FreeIsNoRequest DEF ClientType, From
<1>4. taken \in Drawn /\ (taken # NoToken => taken \in {client[p].peer, r.reply})
  BY <1>1, <1>2, <1>3 DEF RegInv, RequestsOK, Drawn, ClientType
<1>5. \E kept \in {client[p].invitation, NoToken} :
        client' = [client EXCEPT ![p].call = NoSlot, ![p].peer = taken, ![p].invitation = kept]
  BY DEF Receive
<1> HIDE DEF taken, r, s
<1>6. /\ client' \in [Platforms -> ClientType]
      /\ \A q \in Platforms : q # p => client'[q] = client[q]
      /\ client'[p].call = NoSlot
      /\ client'[p].peer = taken
      /\ client'[p].invitation \in {client[p].invitation, NoToken}
      /\ client'[p].flow = client[p].flow
  <2>1. PICK kept \in {client[p].invitation, NoToken} :
          client' = [client EXCEPT ![p].call = NoSlot, ![p].peer = taken, ![p].invitation = kept]
    BY <1>5
  <2> DEFINE c == [client[p] EXCEPT !.call = NoSlot, !.peer = taken, !.invitation = kept]
  <2>2. client[p] \in ClientType /\ kept \in Drawn
    BY <1>2 DEF ClientType, Drawn
  <2>3. /\ c \in ClientType /\ c.call = NoSlot /\ c.peer = taken
        /\ c.invitation = kept /\ c.flow = client[p].flow
    BY <1>4, <2>2 DEF ClientType
  <2>4. client' = [client EXCEPT ![p] = c]
    BY <1>2, <2>1, <2>2 DEF ClientType
  <2> HIDE DEF c
  <2>5. client' \in [Platforms -> ClientType]
    BY <1>2, <2>3, <2>4
  <2>6. client'[p] = c /\ \A q \in Platforms : q # p => client'[q] = client[q]
    BY <1>2, <2>4
  <2> QED
    BY <2>3, <2>5, <2>6
<1>7. /\ requests' \in [Slots -> {Free} \cup RequestType]
      /\ requests'[s] = Free
      /\ \A u \in Slots : u # s => requests'[u] = requests[u]
  BY <1>1, <1>2, <1>3
<1>8. TypeOK'
  BY <1>1, <1>6, <1>7 DEF RegInv, TypeOK, ClientType, RequestType
<1>9. EntriesOK' /\ ServerOK' /\ SpentOK'
  BY <1>1 DEF RegInv, EntriesOK, ServerOK, SpentOK, Standing, Expected, Given
<1>10. RequestsOK'
  BY <1>7, FreeIsNoRequest DEF RegInv, RequestsOK
<1>11. OwnedOK'
  <2>1. \A q \in Platforms : Given(q)' = Given(q)
    BY <1>1 DEF Given
  <2>2. Holds(p, client[p].peer) /\ Holds(p, r.reply)
    BY <1>3 DEF Holds, r
  <2>3. ASSUME NEW q \in Platforms, NEW u, Holds(q, u)' PROVE Holds(q, u) \/ u = NoToken
    <3>1. CASE u \in {client'[q].invitation, client'[q].peer, client'[q].flow.token}
      BY <1>4, <1>6, <2>2, <3>1 DEF Holds
    <3>2. CASE \E v \in Slots : From(v, q)' /\ u \in {requests'[v].token, requests'[v].reply}
      BY <1>7, <3>2 DEF Holds, From
    <3> QED
      BY <2>3, <3>1, <3>2 DEF Holds
  <2> QED
    BY <2>1, <2>3, OwnedKept DEF RegInv
<1>12. QuietOK'
  <2> SUFFICES ASSUME NEW q \in Platforms, ~mishap'[q] PROVE InOrder(q)'
    BY DEF QuietOK
  <2>1. InOrder(q)
    BY <1>1 DEF RegInv, QuietOK
  <2>2. CASE q # p
    BY <1>1, <1>6, <1>7, <2>1, <2>2, OrderKept DEF From, Succeeded
  <2>3. CASE q = p
    <3>1. \A u \in Slots : ~From(u, p)'
      BY <1>7, <2>1, <2>3 DEF InOrder, From, s
    <3>2. IF r.reply # "error" THEN r.method # "DELETE" => InStep(p, r.reply)
          ELSE client[p].peer # NoToken => InStep(p, client[p].peer)
      BY <1>1, <1>3, <2>1, <2>3 DEF InOrder, Succeeded, r
    <3>3. taken # NoToken => InStep(p, taken)
      BY <3>2 DEF taken
    <3>4. client'[p].peer # NoToken => InStep(p, client[p].peer)'
      BY <1>1, <1>6, <3>3 DEF InStep
    <3> QED
      BY <2>3, <3>1, <3>4 DEF InOrder
  <2> QED
    BY <2>2, <2>3
<1> QED
  BY <1>8, <1>9, <1>10, <1>11, <1>12 DEF RegInv

-----------------------------------------------------------------------------
(* The network and the server. *)

LEMMA RegLose ==
    ASSUME RegInv, NEW s \in Slots, Lose(s)
    PROVE  RegInv'
<1>1. /\ UNCHANGED <<entries, server, client, spent, mishap>>
      /\ requests \in [Slots -> {Free} \cup RequestType]
      /\ requests' = [requests EXCEPT ![s] = Free]
  BY FreeIsNoRequest DEF Lose, RegInv, TypeOK
<1>2. /\ requests' \in [Slots -> {Free} \cup RequestType]
      /\ requests'[s] = Free
      /\ \A u \in Slots : u # s => requests'[u] = requests[u]
  BY <1>1
<1>3. TypeOK'
  BY <1>1, <1>2 DEF RegInv, TypeOK, RequestType
<1>4. EntriesOK' /\ ServerOK' /\ SpentOK'
  BY <1>1 DEF RegInv, EntriesOK, ServerOK, SpentOK, Standing, Expected, Given
<1>5. RequestsOK'
  BY <1>2, FreeIsNoRequest DEF RegInv, RequestsOK
<1>6. OwnedOK'
  <2>1. \A q \in Platforms : Given(q)' = Given(q)
    BY <1>1 DEF Given
  <2>2. \A q \in Platforms : \A t : Holds(q, t)' => Holds(q, t)
    BY <1>1, <1>2 DEF Holds, From
  <2> QED
    BY <2>1, <2>2, OwnedKept DEF RegInv
<1>7. QuietOK'
  BY <1>1, <1>2, OrderKept DEF RegInv, QuietOK, From, Succeeded
<1> QED
  BY <1>3, <1>4, <1>5, <1>6, <1>7 DEF RegInv

(* An error, told to who still waits.                                       *)
LEMMA RegRefuses ==
    ASSUME RegInv, NEW s \in Slots, requests[s].stage \in {"sent", "handled"},
           Answer(s, "error"), UNCHANGED <<entries, server, client, spent, mishap>>
    PROVE  RegInv'
<1> DEFINE answered == [requests[s] EXCEPT !.stage = "answered", !.reply = "error"]
<1>1. requests[s] # Free /\ requests[s] \in RequestType
  BY FreeIsNoRequest DEF RegInv
<1>2. /\ requests' \in [Slots -> {Free} \cup RequestType]
      /\ \A u \in Slots : u # s => requests'[u] = requests[u]
      /\ requests'[s] = Free \/ (requests'[s] # Free /\ requests'[s] = answered)
  BY <1>1, AnswerIs DEF RegInv
<1>3. /\ answered.stage = "answered" /\ answered.reply = "error"
      /\ answered.from = requests[s].from /\ answered.method = requests[s].method
      /\ answered.token = requests[s].token
  BY <1>1 DEF RequestType
<1> HIDE DEF answered
<1>4. TypeOK'
  BY <1>2 DEF RegInv, TypeOK, RequestType
<1>5. EntriesOK' /\ ServerOK' /\ SpentOK'
  BY DEF RegInv, EntriesOK, ServerOK, SpentOK, Standing, Expected, Given
<1>6. RequestsOK'
  BY <1>2, <1>3, FreeIsNoRequest DEF RegInv, RequestsOK
<1>7. OwnedOK'
  <2>1. \A q \in Platforms : Given(q)' = Given(q) /\ "error" \notin Given(q)
    BY RegistrationAssumption DEF Given, RegInv, TypeOK, Drawn, NoToken
  <2>2. ASSUME NEW q \in Platforms, NEW u, Holds(q, u)' PROVE Holds(q, u) \/ u = "error"
    <3>1. CASE u \in {client'[q].invitation, client'[q].peer, client'[q].flow.token}
      BY <3>1 DEF Holds
    <3>2. CASE \E v \in Slots : From(v, q)' /\ u \in {requests'[v].token, requests'[v].reply}
      BY <1>1, <1>2, <1>3, <3>2 DEF Holds, From
    <3> QED
      BY <2>2, <3>1, <3>2 DEF Holds
  <2> QED
    BY <2>1, <2>2 DEF RegInv, OwnedOK
<1>8. QuietOK'
  <2>1. ~Succeeded(s) /\ ~Succeeded(s)'
    BY <1>2, <1>3, FreeIsNoRequest DEF Succeeded
  <2>2. \A q \in Platforms, u \in Slots : From(u, q)' =>
          From(u, q) /\ (u = s \/ requests'[u] = requests[u])
    BY <1>1, <1>2, <1>3 DEF From
  <2>3. \A u \in Slots : u # s => (Succeeded(u)' <=> Succeeded(u))
    BY <1>2 DEF Succeeded
  <2> QED
    BY <2>1, <2>2, <2>3, OrderKept DEF RegInv, QuietOK
<1> QED
  BY <1>4, <1>5, <1>6, <1>7, <1>8 DEF RegInv

(* Whoever is in the store is a platform, with what it was given.           *)
LEMMA KnownStands ==
    ASSUME RegInv, NEW e \in Known(entries)
    PROVE  \E p \in Expected : e = Standing(p) /\ e.platform = p /\ e.token \in Given(p)
<1>1. PICK p \in Expected : e = Standing(p)
  BY DEF RegInv, EntriesOK
<1>2. server[p].state \in States
  BY DEF Expected, RegInv, TypeOK
<1> QED
  BY <1>1, <1>2 DEF Expected, Standing, Entry, Given, RegInv, ServerOK, States

LEMMA RegAuthenticate ==
    ASSUME RegInv, NEW s \in Slots, Authenticate(s)
    PROVE  RegInv'
<1> DEFINE r == requests[s]
           who == Resolve(entries, r.token)
<1>1. r.stage = "sent" /\ UNCHANGED <<entries, server, client, spent, mishap>>
  BY DEF Authenticate
<1>2. r # Free /\ r \in RequestType /\ requests \in [Slots -> {Free} \cup RequestType]
  BY <1>1, FreeIsNoRequest DEF RegInv
<1>3. CASE ~Admits(entries, r.token, "credentials")
  BY <1>1, <1>3, RegRefuses DEF Authenticate
<1>4. CASE Admits(entries, r.token, "credentials")
  <2>1. entries \in Seq(EntryType)
    BY DEF RegInv, TypeOK, EntryType
  <2>2. who \in Known(entries) /\ who.token = r.token
    BY <1>4, <2>1, ResolveFinds DEF Admits
  <2>3. PICK p \in Expected : who.platform = p /\ r.token \in Given(p)
    BY <2>2, KnownStands
  <2>4. p = r.from
    <3>1. Holds(r.from, r.token) /\ r.from \in Platforms /\ p \in Platforms
      BY <1>2 DEF Holds, From, RequestType, Expected
    <3> QED
      BY <2>3, <3>1 DEF RegInv, OwnedOK
  <2> DEFINE handled == [r EXCEPT !.stage = "handled", !.as = r.from]
  <2>5. /\ handled \in RequestType
        /\ handled.stage = "handled" /\ handled.as = handled.from
        /\ handled.from = r.from /\ handled.token = r.token /\ handled.reply = r.reply
    BY <1>2 DEF RequestType
  <2>6. requests' = [requests EXCEPT ![s] = handled]
    BY <1>2, <1>4, <2>3, <2>4 DEF Authenticate, RequestType
  <2> HIDE DEF handled, r, who
  <2>7. /\ requests' \in [Slots -> {Free} \cup RequestType]
        /\ requests'[s] = handled
        /\ \A u \in Slots : u # s => requests'[u] = requests[u]
    BY <1>2, <2>5, <2>6
  <2>8. TypeOK'
    BY <1>1, <2>7 DEF RegInv, TypeOK, RequestType
  <2>9. EntriesOK' /\ ServerOK' /\ SpentOK'
    BY <1>1 DEF RegInv, EntriesOK, ServerOK, SpentOK, Standing, Expected, Given
  <2>10. RequestsOK'
    BY <2>5, <2>7 DEF RegInv, RequestsOK
  <2>11. OwnedOK'
    <3>1. \A q \in Platforms : Given(q)' = Given(q)
      BY <1>1 DEF Given
    <3>2. \A q \in Platforms : \A t : Holds(q, t)' => Holds(q, t)
      BY <1>1, <1>2, <2>5, <2>7 DEF Holds, From, r
    <3> QED
      BY <3>1, <3>2, OwnedKept DEF RegInv
  <2>12. QuietOK'
    <3>1. ~Succeeded(s) /\ ~Succeeded(s)'
      BY <1>1, <2>5, <2>7 DEF Succeeded, r
    <3>2. \A q \in Platforms, u \in Slots : From(u, q)' =>
            From(u, q) /\ (u = s \/ requests'[u] = requests[u])
      BY <1>2, <2>5, <2>7 DEF From, r
    <3>3. \A u \in Slots : u # s => (Succeeded(u)' <=> Succeeded(u))
      BY <2>7 DEF Succeeded
    <3> QED
      BY <1>1, <3>1, <3>2, <3>3, OrderKept DEF RegInv, QuietOK
  <2> QED
    BY <2>8, <2>9, <2>10, <2>11, <2>12 DEF RegInv
<1> QED
  BY <1>3, <1>4

LEMMA RegHandleRefuses ==
    ASSUME RegInv, NEW s \in Slots, HandleRefuses(s)
    PROVE  RegInv'
BY RegRefuses DEF HandleRefuses

-----------------------------------------------------------------------------
(* What the server makes of its store. *)

(* The token that is thrown away is one platform's.                         *)
LEMMA Removed ==
    ASSUME RegInv, NEW p \in Platforms, NEW t,
           t = IF server[p].state = "registered" THEN server[p].token ELSE server[p].invitation
    PROVE  /\ Remove(entries, t) \in Seq(EntryType)
           /\ OneEach(Remove(entries, t))
           /\ Known(Remove(entries, t)) = {Standing(q) : q \in Expected \ {p}}
<1>1. entries \in Seq(EntryType) /\ OneEach(entries)
  BY DEF RegInv, TypeOK, EntryType, EntriesOK
<1>2. ASSUME NEW q \in Expected, q # p PROVE Standing(q).token # t
  <2>1. Standing(q).token \in Given(q)
    BY DEF Expected, Standing, Entry, Given, RegInv, ServerOK, TypeOK, States
  <2>2. t # NoToken => t \in Given(p)
    BY DEF Given
  <2> QED
    BY <1>2, <2>1, <2>2 DEF RegInv, OwnedOK, Given, Expected
<1>3. Standing(p).token = t
  BY DEF Standing, Entry
<1>4. {e \in Known(entries) : e.token # t} = {Standing(q) : q \in Expected \ {p}}
  BY <1>2, <1>3 DEF RegInv, EntriesOK
<1> QED
  BY <1>1, <1>4, WithoutKeeps DEF Remove

(* A drawn token takes the place of an invitation.                          *)
LEMMA Inserted ==
    ASSUME RegInv, NEW p \in Platforms, server[p].state # "registered",
           NEW t \in Tokens, Unused(t), NEW role \in Roles
    PROVE  LET list == Insert(Remove(entries, server[p].invitation), t, p, role)
           IN  /\ list \in Seq(EntryType)
               /\ OneEach(list)
               /\ Known(list) = {Standing(q) : q \in Expected \ {p}} \cup {Entry(t, p, role)}
<1> DEFINE left == Remove(entries, server[p].invitation)
           others == {Standing(q) : q \in Expected \ {p}}
<1>1. left \in Seq(EntryType) /\ OneEach(left) /\ Known(left) = others
  BY Removed
<1>2. others \subseteq Known(entries)
  BY DEF RegInv, EntriesOK
<1>3. \A e \in others : e.token # t /\ e.platform # p
  <2>1. \A e \in others : e.token # t
    BY <1>2, DrawnIsNobodys DEF RegInv
  <2>2. \A e \in others : e.platform # p
    BY DEF Standing, Entry
  <2> QED
    BY <2>1, <2>2
<1> HIDE DEF left, others
<1>4. /\ Without(left, t) \in Seq(EntryType) /\ OneEach(Without(left, t))
      /\ Known(Without(left, t)) = others
  <2>1. {e \in Known(left) : e.token # t} = others
    BY <1>1, <1>3
  <2> QED
    BY <1>1, <2>1, WithoutKeeps
<1>5. Entry(t, p, role) \in EntryType /\ Entry(t, p, role).platform = p
  BY DEF Entry, EntryType
<1>6. LET list == Append(Without(left, t), Entry(t, p, role))
      IN  /\ list \in Seq(EntryType)
          /\ OneEach(list)
          /\ Known(list) = others \cup {Entry(t, p, role)}
  BY <1>3, <1>4, <1>5, AppendKeeps
<1> QED
  BY <1>6 DEF Insert, left, others

(* A drawn token takes the place of the one in use, with its scope.         *)
LEMMA Rotated ==
    ASSUME RegInv, NEW p \in Platforms, server[p].state = "registered",
           NEW t \in Tokens
    PROVE  LET list == Rotate(entries, p, t)
           IN  /\ list \in Seq(EntryType)
               /\ OneEach(list)
               /\ Known(list) = {Standing(q) : q \in Expected \ {p}} \cup {Entry(t, p, "C")}
<1> DEFINE others == {Standing(q) : q \in Expected \ {p}}
           place == CHOOSE i \in PlacesOf(entries, p) : \A j \in PlacesOf(entries, p) : i <= j
           left == Seqs!RemoveAt(entries, place)
<1>1. entries \in Seq(EntryType) /\ OneEach(entries)
      /\ Known(entries) = {Standing(q) : q \in Expected}
  BY DEF RegInv, TypeOK, EntryType, EntriesOK
<1>2. \A q \in Expected : Standing(q).platform = q
  BY DEF Standing, Entry
<1>3. p \in Expected /\ Standing(p) \in Known(entries)
  BY <1>1 DEF Expected
<1>4. PICK k \in DOMAIN entries : entries[k] = Standing(p)
  BY <1>3 DEF Known
<1>5. PlacesOf(entries, p) = {k}
  BY <1>1, <1>2, <1>3, <1>4 DEF PlacesOf, OneEach
<1>6. place = k
  <2>1. k \in Nat
    BY <1>1, <1>4
  <2> QED
    BY <1>5, <2>1
<1>7. entries[place].role = "C"
  <2>1. Standing(p).role = "C"
    BY DEF Standing, Entry
  <2> HIDE DEF place
  <2> QED
    BY <1>4, <1>6, <2>1
<1>8. Rotate(entries, p, t) = Append(left, Entry(t, p, "C"))
  BY <1>5, <1>7 DEF Rotate
<1>9. left \in Seq(EntryType) /\ OneEach(left) /\ Known(left) = Known(entries) \ {Standing(p)}
  BY <1>1, <1>4, <1>6, RemoveAtKeeps
<1>10. Known(left) = others /\ \A e \in others : e.platform # p
  BY <1>1, <1>2, <1>3, <1>9
<1> HIDE DEF left, others
<1>11. Entry(t, p, "C") \in EntryType /\ Entry(t, p, "C").platform = p
  BY DEF Entry, EntryType, Roles
<1>12. LET list == Append(left, Entry(t, p, "C"))
       IN  /\ list \in Seq(EntryType)
           /\ OneEach(list)
           /\ Known(list) = others \cup {Entry(t, p, "C")}
  BY <1>9, <1>10, <1>11, AppendKeeps
<1> QED
  BY <1>8, <1>12 DEF others

(* The list has what the platform is given, in the place of what it had.    *)
LEMMA StandsInstead ==
    ASSUME RegInv, NEW p \in Platforms,
           OneEach(entries)',
           \A q \in Platforms : q # p => server'[q] = server[q],
           Known(entries)' = {Standing(q) : q \in Expected \ {p}}
               \cup (IF server'[p].state = "unregistered" THEN {} ELSE {Standing(p)'})
    PROVE  EntriesOK'
<1>1. \A q \in Platforms : q # p => Standing(q)' = Standing(q) /\ (q \in Expected' <=> q \in Expected)
  BY DEF Standing, Expected
<1>2. p \in Expected' <=> server'[p].state # "unregistered"
  BY DEF Expected
<1>3. Expected \subseteq Platforms /\ Expected' \subseteq Platforms
  BY DEF Expected
<1> DEFINE old == {Standing(q) : q \in Expected \ {p}}
           new == {Standing(q)' : q \in Expected'}
<1>4. new = old \cup (IF server'[p].state = "unregistered" THEN {} ELSE {Standing(p)'})
  <2> HIDE DEF Standing, Expected
  <2> QED
    BY <1>1, <1>2, <1>3
<1> QED
  BY <1>4 DEF EntriesOK

(* What was taken from one platform is nobody else's.                       *)
LEMMA SpentKept ==
    ASSUME RegInv, NEW p \in Platforms,
           \A q \in Platforms : q # p => Given(q)' = Given(q),
           spent' \subseteq spent \cup Given(p),
           Given(p)' \cap spent' = {}
    PROVE  SpentOK'
BY DEF RegInv, SpentOK, OwnedOK

(* A handler that succeeds answers with what it did.                        *)
LEMMA Answered ==
    ASSUME RegInv, NEW s \in Slots, requests[s].stage = "handled",
           NEW p \in Platforms, p = requests[s].as,
           NEW reply \in Tokens \cup {"done"}, Answer(s, reply), UNCHANGED <<client, mishap>>,
           requests[s].method = "DELETE" <=> reply = "done",
           \A q \in Platforms : q # p => server'[q] = server[q],
           reply # "done" => Unused(reply) /\ InStep(p, reply)',
           Given(p)' \subseteq {reply} \ {"done"}
    PROVE  /\ requests' \in [Slots -> {Free} \cup RequestType]
           /\ RequestsOK' /\ OwnedOK' /\ QuietOK'
<1> DEFINE r == requests[s]
           answered == [r EXCEPT !.stage = "answered", !.reply = reply]
<1>1. r # Free /\ r \in RequestType /\ r.from = p
  BY FreeIsNoRequest DEF RegInv, RequestsOK
<1>2. /\ requests' \in [Slots -> {Free} \cup RequestType]
      /\ \A u \in Slots : u # s => requests'[u] = requests[u]
      /\ requests'[s] = Free \/ (requests'[s] # Free /\ requests'[s] = answered)
  BY <1>1, AnswerIs DEF RegInv, Drawn
<1>3. /\ answered.stage = "answered" /\ answered.reply = reply
      /\ answered.from = p /\ answered.method = r.method /\ answered.token = r.token
  BY <1>1 DEF RequestType
<1> HIDE DEF answered, r
<1>4. RequestsOK'
  BY <1>2, <1>3, FreeIsNoRequest DEF RegInv, RequestsOK, r
<1>5. \A u \in Slots, q \in Platforms : From(u, q)' =>
        From(u, q) /\ (IF u = s THEN q = p /\ requests'[s] = answered
                       ELSE requests'[u] = requests[u])
  BY <1>1, <1>2, <1>3 DEF From, r
<1>6. \A q \in Platforms : q # p => Given(q)' = Given(q)
  BY DEF Given
<1>7. ASSUME NEW q \in Platforms, NEW t, Holds(q, t)'
      PROVE  Holds(q, t) \/ (q = p /\ t = reply)
  <2>1. CASE t \in {client'[q].invitation, client'[q].peer, client'[q].flow.token}
    BY <2>1 DEF Holds
  <2>2. CASE \E v \in Slots : From(v, q)' /\ t \in {requests'[v].token, requests'[v].reply}
    BY <1>3, <1>5, <2>2 DEF Holds, r
  <2> QED
    BY <1>7, <2>1, <2>2 DEF Holds
<1>8. OwnedOK'
  <2>1. CASE reply # "done"
    <3>1. reply \in Tokens /\ Unused(reply)
      BY <2>1
    <3>2. \A q \in Platforms : Given(q)' \subseteq Given(q) \cup (IF q = p THEN {reply} ELSE {})
      BY <1>6
    <3> QED
      BY <1>7, <3>1, <3>2, OwnedDrawn DEF RegInv
  <2>2. CASE reply = "done"
    <3>1. \A q \in Platforms : Given(q)' \subseteq Given(q) /\ "done" \notin Given(q)'
      BY <1>6, <2>2, RegistrationAssumption DEF Given, RegInv, TypeOK, Drawn, NoToken
    <3> QED
      BY <1>7, <2>2, <3>1 DEF RegInv, OwnedOK
  <2> QED
    BY <2>1, <2>2
<1>9. QuietOK'
  <2> SUFFICES ASSUME NEW q \in Platforms, ~mishap'[q] PROVE InOrder(q)'
    BY DEF QuietOK
  <2>1. InOrder(q)
    BY DEF RegInv, QuietOK
  <2>2. CASE q # p
    BY <1>5, <2>1, <2>2, OrderKept DEF Succeeded
  <2>3. CASE q = p
    <3>1. From(s, p) /\ client[p].call = s
      BY <1>1, <2>1, <2>3 DEF InOrder, From, r
    <3>2. \A u \in Slots : From(u, p)' => u = s
      BY <1>5, <2>1, <2>3, <3>1 DEF InOrder
    <3>3. From(s, p)' => /\ requests'[s].reply = reply
                         /\ requests'[s].method = requests[s].method
                         /\ Succeeded(s)'
      BY <1>3, <1>5, RegistrationAssumption DEF Succeeded, r
    <3>4. requests[s].method # "DELETE" => InStep(p, reply)'
      OBVIOUS
    <3> QED
      BY <2>3, <3>1, <3>2, <3>3, <3>4, RegistrationAssumption DEF InOrder, InStep
  <2> QED
    BY <2>2, <2>3
<1> QED
  BY <1>2, <1>4, <1>8, <1>9

LEMMA RegPost ==
    ASSUME RegInv, NEW s \in Slots, NEW t \in Tokens, HandlePost(s, t),
           NEW p \in Platforms, p = requests[s].as
    PROVE  RegInv'
<1> DEFINE new == [state |-> "registered", invitation |-> NoToken, token |-> t]
<1>1. /\ requests[s].stage = "handled" /\ requests[s].method = "POST"
      /\ server[p].state # "registered"
      /\ Unused(t) /\ Answer(s, t)
      /\ entries' = Insert(Remove(entries, server[p].invitation), t, p, "C")
      /\ server' = [server EXCEPT ![p] = new]
      /\ spent' = (spent \cup {server[p].invitation}) \ {t, NoToken}
      /\ UNCHANGED <<client, mishap>>
  BY DEF HandlePost, Handles, AcceptsPost
<1>2. t # NoToken /\ t # "done"
  BY RegistrationAssumption
<1>3. new \in [state : States, invitation : Drawn, token : Drawn]
  BY DEF States, Drawn
<1>4. /\ server' \in [Platforms -> [state : States, invitation : Drawn, token : Drawn]]
      /\ server'[p] = new
      /\ \A q \in Platforms : q # p => server'[q] = server[q]
  <2> HIDE DEF new
  <2> QED
    BY <1>1, <1>2, <1>3 DEF RegInv, TypeOK
<1>5. Given(p)' = {t} /\ \A q \in Platforms : q # p => Given(q)' = Given(q)
  BY <1>2, <1>4 DEF Given
<1>6. /\ entries' \in Seq(EntryType) /\ OneEach(entries)'
      /\ Known(entries)' = {Standing(q) : q \in Expected \ {p}} \cup {Entry(t, p, "C")}
  <2> DEFINE list == Insert(Remove(entries, server[p].invitation), t, p, "C")
  <2>4. "C" \in Roles
    BY DEF Roles
  <2>1. /\ list \in Seq(EntryType) /\ OneEach(list)
        /\ Known(list) = {Standing(q) : q \in Expected \ {p}} \cup {Entry(t, p, "C")}
    BY <1>1, <2>4, Inserted
  <2>2. entries' = list
    BY <1>1
  <2> HIDE DEF list
  <2>3. OneEach(entries)' /\ Known(entries)' = Known(list)
    BY <2>1, <2>2 DEF OneEach, Known
  <2> QED
    BY <2>1, <2>2, <2>3
<1>7. EntriesOK'
  <2>1. Standing(p)' = Entry(t, p, "C")
    BY <1>4 DEF Standing, Entry
  <2> QED
    BY <1>2, <1>4, <1>6, <2>1, StandsInstead
<1>8. ServerOK'
  BY <1>2, <1>4 DEF RegInv, ServerOK
<1>9. SpentOK'
  <2>1. spent' \subseteq spent \cup Given(p) /\ Given(p)' \cap spent' = {}
    BY <1>1, <1>5 DEF Given
  <2> QED
    BY <1>2, <1>5, <2>1, SpentKept
<1>10. /\ requests' \in [Slots -> {Free} \cup RequestType]
       /\ RequestsOK' /\ OwnedOK' /\ QuietOK'
  <2>1. InStep(p, t)'
    BY <1>4 DEF InStep
  <2> QED
    BY <1>1, <1>2, <1>4, <1>5, <2>1, Answered
<1>11. TypeOK'
  BY <1>1, <1>4, <1>6, <1>10 DEF RegInv, TypeOK, RequestType, EntryType, Drawn
<1> QED
  BY <1>7, <1>8, <1>9, <1>10, <1>11 DEF RegInv

LEMMA RegPut ==
    ASSUME RegInv, NEW s \in Slots, NEW t \in Tokens, HandlePut(s, t),
           NEW p \in Platforms, p = requests[s].as
    PROVE  RegInv'
<1>1. /\ requests[s].stage = "handled" /\ requests[s].method = "PUT"
      /\ server[p].state = "registered"
      /\ Unused(t) /\ Answer(s, t)
      /\ entries' = Rotate(entries, p, t)
      /\ server' = [server EXCEPT ![p].token = t]
      /\ spent' = (spent \cup {server[p].token}) \ {t}
      /\ UNCHANGED <<client, mishap>>
  BY DEF HandlePut, Handles, AcceptsPutOrDelete
<1>2. t # NoToken /\ t # "done"
  BY RegistrationAssumption
<1>3. server[p].token # NoToken /\ server[p].invitation = NoToken
  BY <1>1, <1>2 DEF RegInv, ServerOK
<1>4. /\ server' \in [Platforms -> [state : States, invitation : Drawn, token : Drawn]]
      /\ server'[p].state = "registered" /\ server'[p].token = t
      /\ server'[p].invitation = NoToken
      /\ \A q \in Platforms : q # p => server'[q] = server[q]
  BY <1>1, <1>2, <1>3 DEF RegInv, TypeOK, Drawn
<1>5. Given(p)' = {t} /\ \A q \in Platforms : q # p => Given(q)' = Given(q)
  BY <1>2, <1>4 DEF Given
<1>6. /\ entries' \in Seq(EntryType) /\ OneEach(entries)'
      /\ Known(entries)' = {Standing(q) : q \in Expected \ {p}} \cup {Entry(t, p, "C")}
  <2> DEFINE list == Rotate(entries, p, t)
  <2>1. /\ list \in Seq(EntryType) /\ OneEach(list)
        /\ Known(list) = {Standing(q) : q \in Expected \ {p}} \cup {Entry(t, p, "C")}
    BY <1>1, Rotated
  <2>2. entries' = list
    BY <1>1
  <2> HIDE DEF list
  <2>3. OneEach(entries)' /\ Known(entries)' = Known(list)
    BY <2>1, <2>2 DEF OneEach, Known
  <2> QED
    BY <2>1, <2>2, <2>3
<1>7. EntriesOK'
  <2>1. Standing(p)' = Entry(t, p, "C")
    BY <1>4 DEF Standing, Entry
  <2> QED
    BY <1>2, <1>4, <1>6, <2>1, StandsInstead
<1>8. ServerOK'
  BY <1>2, <1>4 DEF RegInv, ServerOK
<1>9. SpentOK'
  <2>1. spent' \subseteq spent \cup Given(p) /\ Given(p)' \cap spent' = {}
    BY <1>1, <1>3, <1>5 DEF Given
  <2> QED
    BY <1>2, <1>5, <2>1, SpentKept
<1>10. /\ requests' \in [Slots -> {Free} \cup RequestType]
       /\ RequestsOK' /\ OwnedOK' /\ QuietOK'
  <2>1. InStep(p, t)'
    BY <1>4 DEF InStep
  <2> QED
    BY <1>1, <1>2, <1>4, <1>5, <2>1, Answered
<1>11. TypeOK'
  <2>1. spent' \subseteq Tokens
    BY <1>1, <1>2, <1>3 DEF RegInv, TypeOK, Drawn
  <2> QED
    BY <1>1, <1>4, <1>6, <1>10, <2>1 DEF RegInv, TypeOK, RequestType, EntryType
<1> QED
  BY <1>7, <1>8, <1>9, <1>10, <1>11 DEF RegInv

(* A registration ends, by its platform or by hand.                         *)
LEMMA Ended ==
    ASSUME RegInv, NEW p \in Platforms, server[p].state = "registered",
           entries' = Remove(entries, server[p].token),
           server' = [server EXCEPT ![p].state = "unregistered", ![p].token = NoToken],
           spent' = spent \cup {server[p].token}
    PROVE  /\ entries' \in Seq(EntryType) /\ EntriesOK' /\ ServerOK' /\ SpentOK'
           /\ server' \in [Platforms -> [state : States, invitation : Drawn, token : Drawn]]
           /\ server'[p].state = "unregistered"
           /\ \A q \in Platforms : q # p => server'[q] = server[q]
           /\ spent' \subseteq Tokens
           /\ Given(p)' = {}
<1>1. server[p].token # NoToken /\ server[p].invitation = NoToken
  BY DEF RegInv, ServerOK
<1>2. /\ server' \in [Platforms -> [state : States, invitation : Drawn, token : Drawn]]
      /\ server'[p].state = "unregistered" /\ server'[p].token = NoToken
      /\ server'[p].invitation = NoToken
      /\ \A q \in Platforms : q # p => server'[q] = server[q]
  BY <1>1 DEF RegInv, TypeOK, Drawn, States
<1>3. Given(p)' = {} /\ \A q \in Platforms : q # p => Given(q)' = Given(q)
  BY <1>2 DEF Given
<1>4. /\ entries' \in Seq(EntryType) /\ OneEach(entries)'
      /\ Known(entries)' = {Standing(q) : q \in Expected \ {p}}
  <2> DEFINE list == Remove(entries, server[p].token)
  <2>1. /\ list \in Seq(EntryType) /\ OneEach(list)
        /\ Known(list) = {Standing(q) : q \in Expected \ {p}}
    BY Removed
  <2>2. entries' = list
    OBVIOUS
  <2> HIDE DEF list
  <2>3. OneEach(entries)' /\ Known(entries)' = Known(list)
    BY <2>1, <2>2 DEF OneEach, Known
  <2> QED
    BY <2>1, <2>2, <2>3
<1>5. EntriesOK'
  BY <1>2, <1>4, StandsInstead
<1>6. ServerOK'
  BY <1>2 DEF RegInv, ServerOK
<1>7. SpentOK'
  <2>1. spent' \subseteq spent \cup Given(p)
    BY <1>1 DEF Given
  <2> QED
    BY <1>3, <2>1, SpentKept
<1>8. spent' \subseteq Tokens
  BY <1>1 DEF RegInv, TypeOK, Drawn
<1> QED
  BY <1>2, <1>3, <1>4, <1>5, <1>6, <1>7, <1>8

LEMMA RegDelete ==
    ASSUME RegInv, NEW s \in Slots, HandleDelete(s),
           NEW p \in Platforms, p = requests[s].as
    PROVE  RegInv'
<1>1. /\ requests[s].stage = "handled" /\ requests[s].method = "DELETE"
      /\ server[p].state = "registered" /\ Answer(s, "done")
      /\ entries' = Remove(entries, server[p].token)
      /\ server' = [server EXCEPT ![p].state = "unregistered", ![p].token = NoToken]
      /\ spent' = spent \cup {server[p].token}
      /\ UNCHANGED <<client, mishap>>
  BY DEF HandleDelete, Handles, AcceptsPutOrDelete
<1>2. /\ entries' \in Seq(EntryType) /\ EntriesOK' /\ ServerOK' /\ SpentOK'
      /\ server' \in [Platforms -> [state : States, invitation : Drawn, token : Drawn]]
      /\ \A q \in Platforms : q # p => server'[q] = server[q]
      /\ spent' \subseteq Tokens
      /\ Given(p)' = {}
  BY <1>1, Ended
<1>3. /\ requests' \in [Slots -> {Free} \cup RequestType]
      /\ RequestsOK' /\ OwnedOK' /\ QuietOK'
  BY <1>1, <1>2, Answered
<1>4. TypeOK'
  BY <1>1, <1>2, <1>3 DEF RegInv, TypeOK, RequestType, EntryType
<1> QED
  BY <1>2, <1>3, <1>4 DEF RegInv

(* By hand: whose registration it is finds out, and that is a mishap.       *)
LEMMA RegReset ==
    ASSUME RegInv, NEW p \in Platforms, Reset(p)
    PROVE  RegInv'
<1>1. /\ server[p].state = "registered"
      /\ entries' = Remove(entries, server[p].token)
      /\ server' = [server EXCEPT ![p].state = "unregistered", ![p].token = NoToken]
      /\ spent' = spent \cup {server[p].token}
      /\ mishap' = [mishap EXCEPT ![p] = TRUE]
      /\ UNCHANGED <<client, requests>>
  BY DEF Reset
<1>2. /\ entries' \in Seq(EntryType) /\ EntriesOK' /\ ServerOK' /\ SpentOK'
      /\ server' \in [Platforms -> [state : States, invitation : Drawn, token : Drawn]]
      /\ \A q \in Platforms : q # p => server'[q] = server[q]
      /\ spent' \subseteq Tokens
      /\ Given(p)' = {}
  BY <1>1, Ended
<1>3. /\ mishap' \in [Platforms -> BOOLEAN] /\ mishap'[p]
      /\ \A q \in Platforms : q # p => mishap'[q] = mishap[q]
  BY <1>1 DEF RegInv, TypeOK
<1>4. TypeOK' /\ RequestsOK'
  BY <1>1, <1>2, <1>3 DEF RegInv, TypeOK, EntryType, RequestsOK
<1>5. OwnedOK'
  <2>1. \A q \in Platforms : Given(q)' \subseteq Given(q)
    BY <1>2 DEF Given
  <2>2. \A q \in Platforms : \A t : Holds(q, t)' => Holds(q, t)
    BY <1>1 DEF Holds, From
  <2> QED
    BY <2>1, <2>2, OwnedKept DEF RegInv
<1>6. QuietOK'
  BY <1>1, <1>2, <1>3, OrderKept DEF RegInv, QuietOK, From, Succeeded
<1> QED
  BY <1>2, <1>4, <1>5, <1>6 DEF RegInv

(* Only a platform that is not registered is invited.                       *)
LEMMA RegInvite ==
    ASSUME ~Reinvites, RegInv, NEW p \in Platforms, NEW t \in Tokens, Invite(p, t)
    PROVE  RegInv'
<1>1. /\ Unused(t) /\ server[p].state # "registered"
      /\ entries' = Insert(Remove(entries, server[p].invitation), t, p, "A")
      /\ client' = [client EXCEPT ![p].invitation = t]
      /\ spent' = (spent \cup {server[p].invitation}) \ {t, NoToken}
      /\ UNCHANGED <<requests, mishap>>
  BY DEF Invite
<1>2. t # NoToken /\ server[p].token = NoToken
  BY <1>1, RegistrationAssumption DEF RegInv, ServerOK
<1>3. /\ server' \in [Platforms -> [state : States, invitation : Drawn, token : Drawn]]
      /\ server'[p].state = "bootstrapped" /\ server'[p].invitation = t
      /\ server'[p].token = NoToken
      /\ \A q \in Platforms : q # p => server'[q] = server[q]
  <2>1. server' = [server EXCEPT ![p].invitation = t, ![p].state = "bootstrapped"]
    BY <1>1 DEF Invite, RegInv, TypeOK
  <2> DEFINE new == [server[p] EXCEPT !.invitation = t, !.state = "bootstrapped"]
             Type == [state : States, invitation : Drawn, token : Drawn]
  <2>2. server \in [Platforms -> Type] /\ server[p] \in Type
    BY DEF RegInv, TypeOK
  <2>3. server' = [server EXCEPT ![p] = new]
    BY <2>1, <2>2
  <2>4. /\ new \in Type
        /\ new.state = "bootstrapped" /\ new.invitation = t /\ new.token = NoToken
    BY <1>2, <2>2 DEF States, Drawn
  <2> HIDE DEF new, Type
  <2>5. server' \in [Platforms -> Type] /\ server'[p] = new
    BY <2>2, <2>3, <2>4
  <2>6. \A q \in Platforms : q # p => server'[q] = server[q]
    BY <2>2, <2>3
  <2> QED
    BY <2>4, <2>5, <2>6 DEF Type
<1>4. client \in [Platforms -> ClientType]
  BY DEF RegInv, TypeOK, ClientType
<1>5. /\ client' \in [Platforms -> ClientType]
      /\ client'[p].invitation = t
      /\ \A q \in Platforms :
           /\ client'[q].peer = client[q].peer
           /\ client'[q].call = client[q].call
           /\ client'[q].flow = client[q].flow
           /\ q # p => client'[q].invitation = client[q].invitation
  BY <1>1, <1>4 DEF ClientType, Drawn
<1>6. Given(p)' = {t} /\ \A q \in Platforms : q # p => Given(q)' = Given(q)
  BY <1>2, <1>3 DEF Given
<1>7. /\ entries' \in Seq(EntryType) /\ OneEach(entries)'
      /\ Known(entries)' = {Standing(q) : q \in Expected \ {p}} \cup {Entry(t, p, "A")}
  <2> DEFINE list == Insert(Remove(entries, server[p].invitation), t, p, "A")
  <2>1. "A" \in Roles
    BY DEF Roles
  <2>2. /\ list \in Seq(EntryType) /\ OneEach(list)
        /\ Known(list) = {Standing(q) : q \in Expected \ {p}} \cup {Entry(t, p, "A")}
    BY <1>1, <2>1, Inserted
  <2>3. entries' = list
    BY <1>1
  <2> HIDE DEF list
  <2>4. OneEach(entries)' /\ Known(entries)' = Known(list)
    BY <2>2, <2>3 DEF OneEach, Known
  <2> QED
    BY <2>2, <2>3, <2>4
<1>8. EntriesOK'
  <2>1. Standing(p)' = Entry(t, p, "A")
    BY <1>3 DEF Standing, Entry
  <2> QED
    BY <1>3, <1>7, <2>1, StandsInstead
<1>9. ServerOK'
  BY <1>2, <1>3 DEF RegInv, ServerOK
<1>10. SpentOK'
  <2>1. spent' \subseteq spent \cup Given(p) /\ Given(p)' \cap spent' = {}
    BY <1>1, <1>6 DEF Given
  <2> QED
    BY <1>6, <2>1, SpentKept
<1>11. TypeOK' /\ RequestsOK'
  <2>1. spent' \subseteq Tokens
    BY <1>1 DEF RegInv, TypeOK, Drawn
  <2> QED
    BY <1>1, <1>3, <1>5, <1>7, <2>1 DEF RegInv, TypeOK, EntryType, ClientType, RequestsOK
<1>12. OwnedOK'
  <2>1. \A q \in Platforms : Given(q)' \subseteq Given(q) \cup (IF q = p THEN {t} ELSE {})
    BY <1>6
  <2>2. ASSUME NEW q \in Platforms, NEW u, Holds(q, u)'
        PROVE  Holds(q, u) \/ (q = p /\ u = t)
    <3>1. CASE u \in {client'[q].invitation, client'[q].peer, client'[q].flow.token}
      BY <1>5, <3>1 DEF Holds
    <3>2. CASE \E v \in Slots : From(v, q)' /\ u \in {requests'[v].token, requests'[v].reply}
      BY <1>1, <3>2 DEF Holds, From
    <3> QED
      BY <2>2, <3>1, <3>2 DEF Holds
  <2> QED
    BY <1>1, <2>1, <2>2, OwnedDrawn DEF RegInv
<1>13. QuietOK'
  <2> SUFFICES ASSUME NEW q \in Platforms, ~mishap'[q] PROVE InOrder(q)'
    BY DEF QuietOK
  <2>1. InOrder(q)
    BY <1>1 DEF RegInv, QuietOK
  <2>2. \A u \in Slots : (From(u, q)' <=> From(u, q)) /\ (Succeeded(u)' <=> Succeeded(u))
    BY <1>1 DEF From, Succeeded
  <2>3. CASE q # p
    BY <1>1, <1>3, <1>5, <2>1, <2>2, <2>3, OrderKept
  <2>4. CASE q = p
    <3>1. \A u : ~InStep(p, u)
      BY <1>1 DEF InStep
    <3> QED
      BY <1>1, <1>5, <2>1, <2>2, <2>4, <3>1 DEF InOrder
  <2> QED
    BY <2>3, <2>4
<1> QED
  BY <1>8, <1>9, <1>10, <1>11, <1>12, <1>13 DEF RegInv

LEMMA RegNext == ~Reinvites /\ RegInv /\ [Next]_rvars => RegInv'
<1> SUFFICES ASSUME ~Reinvites, RegInv, [Next]_rvars PROVE RegInv'
  OBVIOUS
<1>1. CASE UNCHANGED rvars
  <2>1. UNCHANGED <<entries, server, client, requests, spent, mishap>>
    BY <1>1 DEF rvars
  <2>2. TypeOK' /\ EntriesOK' /\ ServerOK' /\ SpentOK' /\ RequestsOK'
    BY <2>1 DEF RegInv, TypeOK, EntriesOK, ServerOK, SpentOK, RequestsOK, Standing, Expected, Given
  <2>3. OwnedOK'
    BY <2>1 DEF RegInv, OwnedOK, Holds, From, Given
  <2>4. QuietOK'
    BY <2>1 DEF RegInv, QuietOK, InOrder, InStep, Succeeded, From
  <2> QED
    BY <2>2, <2>3, <2>4 DEF RegInv
<1>2. CASE \E p \in Platforms :
             \/ \E t \in Tokens : Invite(p, t) \/ UpdateWith(p, t)
             \/ Reset(p)
             \/ Begin(p) \/ Discover(p) \/ Register(p) \/ Unregister(p)
             \/ Receive(p) \/ GiveUp(p)
  BY <1>2, RegInvite, RegReset, RegHandshake, RegCalls, RegReceive, RegGiveUp
<1>3. CASE \E s \in Slots :
             \/ Lose(s) \/ Authenticate(s) \/ HandleRefuses(s) \/ HandleDelete(s)
             \/ \E t \in Tokens : HandlePost(s, t) \/ HandlePut(s, t)
  <2>1. PICK s \in Slots :
          \/ Lose(s) \/ Authenticate(s) \/ HandleRefuses(s) \/ HandleDelete(s)
          \/ \E t \in Tokens : HandlePost(s, t) \/ HandlePut(s, t)
    BY <1>3
  <2>2. CASE requests[s].stage = "handled"
    <3>1. requests[s].as \in Platforms
      BY <2>2, FreeIsNoRequest DEF RegInv, RequestsOK, RequestType
    <3> QED
      BY <2>1, <3>1, RegLose, RegAuthenticate, RegHandleRefuses, RegDelete, RegPost, RegPut
  <2>3. CASE requests[s].stage # "handled"
    BY <2>1, <2>3, RegLose, RegAuthenticate
       DEF HandleRefuses, HandleDelete, HandlePost, HandlePut, Handles
  <2> QED
    BY <2>2, <2>3
<1> QED
  BY <1>1, <1>2, <1>3 DEF Next

LEMMA RegInvariant ==
    ASSUME ~Reinvites
    PROVE  Spec => []RegInv
<1>1. Init => RegInv
  BY RegInit
<1>2. RegInv /\ [Next]_rvars => RegInv'
  BY RegNext
<1> QED
  BY <1>1, <1>2, PTL DEF Spec

-----------------------------------------------------------------------------
(* What follows. *)

(* A token lets its platform in where its state does, and no other does.    *)
LEMMA AdmitsStanding ==
    ASSUME RegInv, NEW t, NEW module
    PROVE  /\ Admits(entries, t, module) =>
                \E p \in Expected :
                    /\ Resolve(entries, t) = Standing(p)
                    /\ Standing(p).platform = p /\ t \in Given(p) /\ t = Standing(p).token
                    /\ MayAccess(Standing(p).role, module)
           /\ \A p \in Expected :
                t = Standing(p).token /\ MayAccess(Standing(p).role, module)
                    => Admits(entries, t, module)
<1>1. entries \in Seq(EntryType)
  BY DEF RegInv, TypeOK, EntryType
<1>2. ASSUME Resolve(entries, t) # Unknown
      PROVE  \E p \in Expected :
               /\ Resolve(entries, t) = Standing(p)
               /\ Standing(p).platform = p /\ t \in Given(p) /\ t = Standing(p).token
  <2>1. Resolve(entries, t) \in Known(entries) /\ Resolve(entries, t).token = t
    BY <1>1, <1>2, ResolveFinds
  <2>2. PICK p \in Expected : /\ Resolve(entries, t) = Standing(p)
                              /\ Resolve(entries, t).platform = p
                              /\ Resolve(entries, t).token \in Given(p)
    BY <2>1, KnownStands
  <2> HIDE DEF Expected, Standing, Given
  <2> QED
    BY <2>1, <2>2
<1>3. ASSUME Admits(entries, t, module)
      PROVE  \E p \in Expected :
               /\ Resolve(entries, t) = Standing(p)
               /\ Standing(p).platform = p /\ t \in Given(p) /\ t = Standing(p).token
               /\ MayAccess(Standing(p).role, module)
  BY <1>2, <1>3 DEF Admits
<1>4. ASSUME NEW p \in Expected, t = Standing(p).token, MayAccess(Standing(p).role, module)
      PROVE  Admits(entries, t, module)
  <2>1. Standing(p) \in Known(entries)
    BY DEF RegInv, EntriesOK
  <2>2. Resolve(entries, t) # Unknown
    BY <1>1, <1>4, <2>1, ResolveFinds
  <2>3. PICK q \in Expected : /\ Resolve(entries, t) = Standing(q)
                              /\ t \in Given(q)
    BY <1>2, <2>2
  <2>4. t \in Given(p)
    <3>1. PICK o \in Expected : /\ Standing(p) = Standing(o)
                                /\ Standing(p).platform = o
                                /\ Standing(p).token \in Given(o)
      BY <2>1, KnownStands
    <3>2. Standing(p).platform = p
      BY DEF Standing, Entry
    <3> QED
      BY <1>4, <3>1, <3>2
  <2>5. q = p
    BY <2>3, <2>4 DEF RegInv, OwnedOK, Expected
  <2> QED
    BY <1>4, <2>2, <2>3, <2>5 DEF Admits
<1> QED
  BY <1>3, <1>4

(* Every variable has its type, of any platforms, tokens and slots.         *)
THEOREM RegistrationTypes ==
    ASSUME ~Reinvites
    PROVE  Spec => []TypeOK
<1>1. RegInv => TypeOK
  BY DEF RegInv
<1> QED
  BY <1>1, RegInvariant, PTL

(* The integrator's state and the token store never part: a platform that   *)
(* is registered reaches the modules with the one token it was given.       *)
THEOREM StoreAndStateAgree ==
    ASSUME ~Reinvites
    PROVE  Spec => []StoreAgrees
<1>1. RegInv => StoreAgrees
  <2> SUFFICES ASSUME RegInv, NEW p \in Platforms
               PROVE  /\ server[p].state = "registered" => Admits(entries, server[p].token, "locations")
                      /\ \A t \in Tokens :
                           Admits(entries, t, "locations") /\ Resolve(entries, t).platform = p
                               => t = server[p].token
    BY DEF StoreAgrees
  <2>1. ASSUME server[p].state = "registered"
        PROVE  Admits(entries, server[p].token, "locations")
    <3>1. p \in Expected /\ server[p].token = Standing(p).token /\ Standing(p).role = "C"
      BY <2>1 DEF Expected, Standing, Entry
    <3>2. MayAccess("C", "locations")
      BY DEF MayAccess
    <3> QED
      BY <3>1, <3>2, AdmitsStanding
  <2>2. ASSUME NEW t \in Tokens, Admits(entries, t, "locations"), Resolve(entries, t).platform = p
        PROVE  t = server[p].token
    <3>1. PICK q \in Expected :
            /\ Resolve(entries, t) = Standing(q)
            /\ Standing(q).platform = q /\ t \in Given(q) /\ t = Standing(q).token
            /\ MayAccess(Standing(q).role, "locations")
      BY <2>2, AdmitsStanding
    <3>2. q = p
      BY <2>2, <3>1
    <3>3. Standing(p).role # "A"
      BY <3>1, <3>2 DEF MayAccess
    <3>4. server[p].state = "registered"
      BY <3>3 DEF Standing, Entry
    <3> QED
      BY <3>1, <3>2, <3>4 DEF Standing, Entry
  <2> QED
    BY <2>1, <2>2
<1> QED
  BY <1>1, RegInvariant, PTL

(* A token that was replaced, used up or taken back lets nobody in again.   *)
THEOREM SpentTokensStayDead ==
    ASSUME ~Reinvites
    PROVE  Spec => []SpentStaysDead
<1>1. RegInv => SpentStaysDead
  <2> SUFFICES ASSUME RegInv, NEW t \in spent, Admits(entries, t, "versions") PROVE FALSE
    BY DEF SpentStaysDead
  <2>1. PICK p \in Expected : t \in Given(p)
    BY AdmitsStanding
  <2> QED
    BY <2>1 DEF RegInv, SpentOK, Expected
<1> QED
  BY <1>1, RegInvariant, PTL

(* No order of calls that were all answered locks their platform out.       *)
THEOREM AnsweredCallsLockNobodyOut ==
    ASSUME ~Reinvites
    PROVE  Spec => []NoSilentLockout
<1>1. RegInv => NoSilentLockout
  <2> SUFFICES ASSUME RegInv, NEW p \in Platforms,
                      client[p].peer # NoToken, client[p].call = NoSlot, ~mishap[p]
               PROVE  Admits(entries, client[p].peer, "locations")
    BY DEF NoSilentLockout
  <2>1. server[p].state = "registered" /\ client[p].peer = server[p].token
    BY DEF RegInv, QuietOK, InOrder, InStep
  <2>2. p \in Expected /\ client[p].peer = Standing(p).token /\ Standing(p).role = "C"
    BY <2>1 DEF Expected, Standing, Entry
  <2>3. MayAccess("C", "locations")
    BY DEF MayAccess
  <2> QED
    BY <2>2, <2>3, AdmitsStanding
<1> QED
  BY <1>1, RegInvariant, PTL
=============================================================================
