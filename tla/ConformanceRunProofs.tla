------------------------ MODULE ConformanceRunProofs ------------------------
(***************************************************************************)
(* What the conformance runner may say and what it must: that a peer       *)
(* without fault is told of a failure only where its objects changed       *)
(* between two requests, and that a peer with one fault, left alone, is    *)
(* told of it, for all peers, lists and page sizes.                        *)
(***************************************************************************)
EXTENDS ConformanceRun, FiniteSetTheorems, FunctionTheorems, SequenceTheorems, TLAPS

-----------------------------------------------------------------------------
(* Numbers.                                                                 *)

(* A set of numbers has a smallest one.                                     *)
LEMMA LeastNumber ==
    ASSUME NEW S \in SUBSET Nat, S # {}
    PROVE  \E m \in S : \A n \in S : m <= n
<1> DEFINE D == {0..n : n \in S}
<1>1. IsWellFoundedOn(StrictSubsetOrdering(Nat), FiniteSubsetsOf(Nat))
  BY FS_StrictSubsetOrderingWellFounded
<1>2. D \subseteq FiniteSubsetsOf(Nat) /\ D # {}
  <2>1. ASSUME NEW n \in S PROVE 0..n \in FiniteSubsetsOf(Nat)
    BY FS_Interval DEF FiniteSubsetsOf
  <2> QED
    BY <2>1
<1>3. PICK d \in D : \A e \in D : <<e, d>> \notin StrictSubsetOrdering(Nat)
  <2> HIDE DEF D
  <2> QED
    BY <1>1, <1>2, WFMin
<1>4. PICK m \in S : d = 0..m
  OBVIOUS
<1>5. ASSUME NEW n \in S, n < m PROVE FALSE
  <2>1. 0..n \subseteq 0..m /\ m \in 0..m /\ m \notin 0..n /\ 0..m \subseteq Nat
    BY <1>5
  <2>2. <<0..n, d>> \in StrictSubsetOrdering(Nat)
    BY <1>4, <2>1 DEF StrictSubsetOrdering
  <2> QED
    BY <1>3, <2>2
<1> QED
  BY <1>5

(* What holds of 0, and of i + 1 where it holds of i, holds up to n.        *)
LEMMA UpTo ==
    ASSUME NEW n \in Nat, NEW S, 0 \in S,
           \A i \in 0..n : i < n /\ i \in S => i + 1 \in S
    PROVE  \A i \in 0..n : i \in S
<1> DEFINE Bad == {i \in 0..n : i \notin S}
<1>1. CASE Bad # {}
  <2>1. PICK m \in Bad : \A i \in Bad : m <= i
    <3>1. Bad \in SUBSET Nat
      OBVIOUS
    <3> HIDE DEF Bad
    <3> QED
      BY <1>1, <3>1, LeastNumber
  <2>2. m - 1 \in 0..n /\ m - 1 < n /\ m - 1 \notin Bad
    BY <2>1
  <2> QED
    BY <2>2
<1> QED
  BY <1>1

-----------------------------------------------------------------------------
(* Pages.                                                                   *)

(* The recursive function in ChangedSince is the one its equation defines.  *)
LEMMA ChangedSinceIs ==
    ASSUME list \in Seq(Object), NEW date \in Nat
    PROVE  \E kept : /\ ChangedSince(date) = kept[Len(list)]
                     /\ kept[0] = <<>>
                     /\ \A n \in 1..Len(list) :
                          kept[n] = IF list[n].stamp >= date
                                    THEN Append(kept[n - 1], list[n]) ELSE kept[n - 1]
<1> DEFINE N == Len(list)
           G(f, n) == IF n = 0 THEN <<>>
                      ELSE IF list[n].stamp >= date
                           THEN Append(f[n - 1], list[n]) ELSE f[n - 1]
           Good == {m \in 0..N : \E f : f = [n \in 0..m |-> G(f, n)]}
           kept == CHOOSE f : f = [n \in 0..N |-> G(f, n)]
<1>1. N \in Nat
  OBVIOUS
<1>2. 0 \in Good
  <2>1. [n \in 0..0 |-> <<>>] = [n \in 0..0 |-> G([m \in 0..0 |-> <<>>], n)]
    OBVIOUS
  <2>2. 0 \in 0..N
    BY <1>1
  <2> HIDE DEF N, G
  <2> QED
    BY <2>1, <2>2
<1>3. ASSUME NEW m \in 0..N, m < N, m \in Good PROVE m + 1 \in Good
  <2>1. PICK f : f = [n \in 0..m |-> G(f, n)]
    BY <1>3
  <2> DEFINE g == [n \in 0..(m + 1) |-> G(f, n)]
  <2>2. ASSUME NEW n \in 0..m PROVE g[n] = f[n]
    <3>1. n \in 0..(m + 1)
      BY <1>1
    <3>2. g[n] = G(f, n)
      BY <3>1
    <3> HIDE DEF G, g
    <3>3. f[n] = G(f, n)
      BY <2>1
    <3> QED
      BY <3>2, <3>3
  <2>3. ASSUME NEW n \in 0..(m + 1) PROVE G(f, n) = G(g, n)
    <3>1. n = 0 \/ n - 1 \in 0..m
      BY <1>1
    <3> HIDE DEF g
    <3> QED
      BY <2>2, <3>1
  <2>4. g = [n \in 0..(m + 1) |-> G(g, n)]
    <3>1. g = [n \in 0..(m + 1) |-> G(f, n)]
      OBVIOUS
    <3> HIDE DEF g, G
    <3> QED
      BY <2>3, <3>1
  <2>5. m + 1 \in 0..N
    BY <1>1, <1>3
  <2> HIDE DEF g
  <2> QED
    BY <2>4, <2>5
<1>4. \E f : f = [n \in 0..N |-> G(f, n)]
  <2>1. N \in 0..N
    BY <1>1
  <2> HIDE DEF N, G
  <2>2. \A i \in 0..N : i \in Good
    <3> HIDE DEF Good
    <3> QED
      BY <1>1, <1>2, <1>3, UpTo
  <2> QED
    BY <2>1, <2>2
<1>5. kept = [n \in 0..N |-> G(kept, n)]
  <2> HIDE DEF N, G
  <2> QED
    BY <1>4
<1>6. ChangedSince(date) = kept[Len(list)]
  BY DEF ChangedSince
<1> HIDE DEF kept
<1>7. kept[0] = <<>>
  BY <1>1, <1>5
<1>8. ASSUME NEW n \in 1..N PROVE kept[n] = G(kept, n) /\ n # 0
  <2>1. n \in 0..N /\ n # 0
    BY <1>1
  <2> HIDE DEF G, N
  <2> QED
    BY <1>5, <2>1
<1> QED
  BY <1>6, <1>7, <1>8

(* Objects, each no older than the date asked for; from 0 on, all of them.  *)
LEMMA ChangedSinceKeeps ==
    ASSUME list \in Seq(Object), NEW date \in Nat
    PROVE  /\ ChangedSince(date) \in Seq(Object)
           /\ \A i \in DOMAIN ChangedSince(date) : ChangedSince(date)[i].stamp >= date
           /\ date = 0 => ChangedSince(date) = list
<1> DEFINE N == Len(list)
<1>1. /\ N \in Nat /\ DOMAIN list = 1..N
      /\ \A n \in 1..N : list[n] \in Object /\ list[n].stamp \in Nat
  <2>1. N \in Nat /\ DOMAIN list = 1..N /\ \A n \in 1..N : list[n] \in Object
    OBVIOUS
  <2>2. \A o \in Object : o.stamp \in Nat
    BY DEF Object
  <2> HIDE DEF N
  <2> QED
    BY <2>1, <2>2
<1>2. PICK kept : /\ ChangedSince(date) = kept[N]
                  /\ kept[0] = <<>>
                  /\ \A n \in 1..N :
                          kept[n] = IF list[n].stamp >= date
                                    THEN Append(kept[n - 1], list[n]) ELSE kept[n - 1]
  BY ChangedSinceIs
<1> DEFINE Kept(s) == s \in Seq(Object) /\ \A i \in DOMAIN s : s[i].stamp >= date
           All(s, n) == date = 0 => Len(s) = n /\ \A i \in 1..n : s[i] = list[i]
           Good == {n \in 0..N : Kept(kept[n]) /\ All(kept[n], n)}
<1> HIDE DEF N
<1>3. 0 \in Good
  <2>1. 0 \in 0..N
    BY <1>1
  <2>2. Kept(<<>>) /\ All(<<>>, 0)
    OBVIOUS
  <2> HIDE DEF Kept, All
  <2> QED
    BY <1>2, <2>1, <2>2
<1>4. ASSUME NEW n \in 0..N, n < N, n \in Good PROVE n + 1 \in Good
  <2>1. n + 1 \in 1..N /\ (n + 1) - 1 = n /\ n \in Nat
    BY <1>1, <1>4
  <2> DEFINE e == list[n + 1]
             s == kept[n]
             t == kept[n + 1]
  <2>2. e \in Object /\ e.stamp \in Nat /\ Kept(s) /\ All(s, n)
    BY <1>1, <1>4, <2>1
  <2>3. t = IF e.stamp >= date THEN Append(s, e) ELSE s
    BY <1>2, <2>1
  <2> HIDE DEF e, s, t
  <2>4. CASE e.stamp >= date
    <3>1. t = Append(s, e) /\ s \in Seq(Object) /\ t \in Seq(Object) /\ Len(t) = Len(s) + 1
          /\ Len(s) \in Nat
      BY <2>2, <2>3, <2>4
    <3>2. \A i \in 1..Len(t) : t[i] = IF i = Len(s) + 1 THEN e ELSE s[i]
      BY <3>1
    <3>3. Kept(t)
      BY <2>2, <2>4, <3>1, <3>2
    <3>4. All(t, n + 1)
      BY <2>1, <2>2, <3>1, <3>2 DEF e
    <3> QED
      BY <2>1, <3>3, <3>4 DEF t
  <2>5. CASE ~(e.stamp >= date)
    <3>1. t = s /\ date # 0
      BY <2>2, <2>3, <2>5
    <3> QED
      BY <2>1, <2>2, <3>1 DEF t
  <2> QED
    BY <2>4, <2>5
<1>5. N \in Good
  <2>1. N \in 0..N
    BY <1>1
  <2> HIDE DEF Good
  <2> QED
    BY <1>1, <1>3, <1>4, <2>1, UpTo
<1>6. Kept(kept[N]) /\ All(kept[N], N)
  BY <1>5
<1>7. date = 0 => kept[N] = list
  BY <1>1, <1>6, SeqEqual DEF N
<1> QED
  BY <1>2, <1>6, <1>7

(* What a page is taken from, and how much of it.                           *)
Matching(from) == IF Has("ignores_date_from") THEN list ELSE ChangedSince(from)
Start(offset) == IF Has("ignores_offset") THEN 0 ELSE offset
Size(limit, from) ==
    IF Has("ignores_limit") THEN Len(Matching(from))
    ELSE IF limit < peer.limit THEN limit ELSE peer.limit

ListsOK == list \in Seq(Object) /\ peer.limit \in Nat \ {0}

(* What a page is taken from: all objects, or those new enough.             *)
LEMMA MatchingIs ==
    ASSUME ListsOK, NEW from \in Nat
    PROVE  /\ Matching(from) \in Seq(Object)
           /\ from = 0 => Matching(from) = list
           /\ ~Has("ignores_date_from") =>
                \A i \in DOMAIN Matching(from) : Matching(from)[i].stamp >= from
  BY ChangedSinceKeeps DEF Matching, ListsOK

(* A page holds what is left after its start, up to its size.               *)
PageOK(offset, limit, from) ==
    LET m == Matching(from)
        s == Start(offset)
        z == Size(limit, from)
        p == PageOf(offset, limit, from)
    IN  /\ p.items \in Seq(Object)
        /\ Len(p.items) = IF s + z < Len(m) THEN z ELSE IF s < Len(m) THEN Len(m) - s ELSE 0
        /\ \A i \in 1..Len(p.items) : s + i \in 1..Len(m) /\ p.items[i] = m[s + i]
        /\ p.limit = (IF Has("no_limit") THEN 0 ELSE peer.limit)
        /\ p.total = (IF Has("no_total") THEN -1 ELSE Len(m))
        /\ (p.next # "none") = ((s + z < Len(m)) # Has("wrong_link"))
        /\ p.next # "none" => p.next = IF Has("link_away") THEN "elsewhere" ELSE "here"

(* Every page is such a page.                                               *)
LEMMA PageIs ==
    ASSUME ListsOK, NEW offset \in Nat, NEW limit \in Nat \ {0}, NEW from \in Nat
    PROVE  PageOK(offset, limit, from)
<1> DEFINE m == Matching(from)
           s == Start(offset)
           z == Size(limit, from)
           end == IF s + z < Len(m) THEN s + z ELSE Len(m)
           more == (end < Len(m)) # Has("wrong_link")
           p == PageOf(offset, limit, from)
<1>1. p = [items |-> SubSeq(m, s + 1, end),
           limit |-> IF Has("no_limit") THEN 0 ELSE peer.limit,
           total |-> IF Has("no_total") THEN -1 ELSE Len(m),
           next |-> IF ~more THEN "none" ELSE IF Has("link_away") THEN "elsewhere" ELSE "here"]
  BY DEF PageOf, Matching, Start, Size
<1>2. m \in Seq(Object) /\ Len(m) \in Nat
  BY MatchingIs
<1>3. s \in Nat /\ z \in Nat
  BY <1>2 DEF Start, Size, ListsOK
<1> HIDE DEF m, s, z, p
<1>4. end \in Nat /\ end <= Len(m) /\ (end < Len(m) <=> s + z < Len(m))
  BY <1>2, <1>3
<1> HIDE DEF end
<1>5. p.items = SubSeq(m, s + 1, end)
  BY <1>1
<1>6. /\ p.items \in Seq(Object)
      /\ Len(p.items) = IF s + 1 <= end THEN end - (s + 1) + 1 ELSE 0
      /\ \A i \in 1..(end - (s + 1) + 1) : p.items[i] = m[(s + 1) + i - 1]
  <2>1. \A i \in (s + 1)..end : i \in 1..Len(m)
    BY <1>2, <1>3, <1>4
  <2>2. \A i \in (s + 1)..end : m[i] \in Object
    BY <1>2, <2>1
  <2> QED
    BY <1>2, <1>3, <1>4, <1>5, <2>2, SubSeqProperties
<1>7. Len(p.items) = IF s + z < Len(m) THEN z ELSE IF s < Len(m) THEN Len(m) - s ELSE 0
  BY <1>2, <1>3, <1>4, <1>6 DEF end
<1>8. \A i \in 1..Len(p.items) : s + i \in 1..Len(m) /\ p.items[i] = m[s + i]
  <2> SUFFICES ASSUME NEW i \in 1..Len(p.items) PROVE s + i \in 1..Len(m) /\ p.items[i] = m[s + i]
    OBVIOUS
  <2>1. s + 1 <= end /\ i \in 1..(end - (s + 1) + 1)
    BY <1>3, <1>4, <1>6
  <2>2. p.items[i] = m[(s + 1) + i - 1] /\ (s + 1) + i - 1 = s + i
    BY <1>3, <1>6, <2>1
  <2>3. s + i \in 1..Len(m)
    BY <1>2, <1>3, <1>4, <2>1
  <2> QED
    BY <2>2, <2>3
<1>9. p.limit = (IF Has("no_limit") THEN 0 ELSE peer.limit)
      /\ p.total = (IF Has("no_total") THEN -1 ELSE Len(m))
      /\ p.next = IF ~more THEN "none" ELSE IF Has("link_away") THEN "elsewhere" ELSE "here"
  BY <1>1
<1>10. more = ((s + z < Len(m)) # Has("wrong_link"))
  BY <1>4
<1>11. more \in BOOLEAN
  OBVIOUS
<1> HIDE DEF more
<1>12. /\ (p.next # "none") = more
       /\ p.next # "none" => p.next = IF Has("link_away") THEN "elsewhere" ELSE "here"
  BY <1>9, <1>11
<1> QED
  BY <1>6, <1>7, <1>8, <1>9, <1>10, <1>12 DEF m, s, z, p, PageOK

-----------------------------------------------------------------------------
(* What a peer lists.                                                       *)

(* The five modules the runner pulls.                                       *)
LEMMA PullableIs ==
    /\ DOMAIN Pullable = 1..5 /\ Len(Pullable) = 5
    /\ ToSet(Pullable) = {"locations", "sessions", "cdrs", "tariffs", "tokens"}
<1>1. DOMAIN Pullable = 1..5 /\ Len(Pullable) = 5
  BY DEF Pullable
<1>2. ToSet(Pullable) = {"locations", "sessions", "cdrs", "tariffs", "tokens"}
  BY <1>1 DEF ToSet, Pullable
<1> QED
  BY <1>1, <1>2

(* The versions the runner knows.                                           *)
LEMMA SupportedIs ==
    /\ DOMAIN Supported = 1..3 /\ ToSet(Supported) = {"2.1.1", "2.2.1", "2.3.0"}
    /\ Supported[1] = "2.1.1" /\ Supported[2] = "2.2.1" /\ Supported[3] = "2.3.0"
<1>1. /\ DOMAIN Supported = 1..3
      /\ Supported[1] = "2.1.1" /\ Supported[2] = "2.2.1" /\ Supported[3] = "2.3.0"
  BY DEF Supported
<1> QED
  BY <1>1 DEF ToSet

PeerOK ==
    peer \in [faults : Faulty, version : ToSet(Supported), modules : Offered,
              limit : ServerLimits]

(* What a peer is made of.                                                  *)
LEMMA PeerIs ==
    ASSUME PeerOK
    PROVE  /\ peer.faults \subseteq DOMAIN NameOf /\ peer.version \in {"2.1.1", "2.2.1", "2.3.0"}
           /\ peer.modules \subseteq ToSet(Pullable) /\ IsFiniteSet(peer.modules)
           /\ peer.limit \in Nat \ {0}
<1>1. /\ peer.faults \in Faulty /\ peer.modules \in Offered /\ peer.limit \in ServerLimits
      /\ peer.version \in {"2.1.1", "2.2.1", "2.3.0"}
  BY SupportedIs DEF PeerOK
<1>2. ToSet(Pullable) = {"locations", "sessions", "cdrs", "tariffs", "tokens"}
  BY PullableIs
<1>3. IsFiniteSet(ToSet(Pullable))
  <2> DEFINE n == Len(Pullable)
  <2>1. n \in Int /\ 1 \in Int /\ DOMAIN Pullable = 1..n
    BY PullableIs
  <2>2. Pullable \in [1..n -> ToSet(Pullable)]
    BY <2>1 DEF ToSet, Pullable
  <2> HIDE DEF n
  <2>3. IsFiniteSet(1..n)
    BY <2>1, FS_Interval
  <2>4. Pullable \in Surjection(1..n, ToSet(Pullable))
    BY <2>1, <2>2 DEF ToSet, Surjection
  <2> QED
    BY <2>3, <2>4, FS_Surjection
<1> QED
  BY <1>1, <1>3, FS_Subset, ConformanceAssumption, FaultsAreNamed

(* What two sequences hold together.                                        *)
LEMMA ToSetOfTwo ==
    ASSUME NEW X, NEW s \in Seq(X), NEW t \in Seq(X)
    PROVE  s \o t \in Seq(X) /\ ToSet(s \o t) = ToSet(s) \cup ToSet(t)
<1>1. /\ s \o t \in Seq(X) /\ Len(s \o t) = Len(s) + Len(t) /\ Len(s) \in Nat /\ Len(t) \in Nat
      /\ \A i \in 1..(Len(s) + Len(t)) : (s \o t)[i] = IF i <= Len(s) THEN s[i]
                                                       ELSE t[i - Len(s)]
  BY ConcatProperties
<1>2. /\ ToSet(s) = {s[i] : i \in 1..Len(s)} /\ ToSet(t) = {t[i] : i \in 1..Len(t)}
      /\ ToSet(s \o t) = {(s \o t)[i] : i \in 1..(Len(s) + Len(t))}
  BY <1>1 DEF ToSet
<1> DEFINE st == s \o t
<1> HIDE DEF st
<1>3. ASSUME NEW i \in 1..Len(s) PROVE \E j \in 1..(Len(s) + Len(t)) : st[j] = s[i]
  BY <1>1 DEF st
<1>4. ASSUME NEW i \in 1..Len(t) PROVE \E j \in 1..(Len(s) + Len(t)) : st[j] = t[i]
  <2>1. Len(s) + i \in 1..(Len(s) + Len(t)) /\ ~(Len(s) + i <= Len(s)) /\ (Len(s) + i) - Len(s) = i
    BY <1>1
  <2>2. st[Len(s) + i] = t[i]
    BY <1>1, <2>1 DEF st
  <2> QED
    BY <2>1, <2>2
<1>5. ASSUME NEW i \in 1..(Len(s) + Len(t))
      PROVE  \/ \E j \in 1..Len(s) : st[i] = s[j]
             \/ \E j \in 1..Len(t) : st[i] = t[j]
  <2>1. i <= Len(s) \/ i - Len(s) \in 1..Len(t)
    BY <1>1
  <2> QED
    BY <1>1, <2>1 DEF st
<1>6. ToSet(st) = {st[i] : i \in 1..(Len(s) + Len(t))}
  BY <1>2 DEF st
<1>7. ToSet(st) = ToSet(s) \cup ToSet(t)
  BY <1>2, <1>3, <1>4, <1>5, <1>6
<1> QED
  BY <1>1, <1>7 DEF st

(* A set as a sequence: each element once.                                  *)
LEMMA SetToSeqIs ==
    ASSUME NEW S, IsFiniteSet(S)
    PROVE  /\ SetToSeq(S) \in Seq(S) /\ ToSet(SetToSeq(S)) = S
           /\ \A i, j \in DOMAIN SetToSeq(S) : SetToSeq(S)[i] = SetToSeq(S)[j] => i = j
<1> DEFINE n == Cardinality(S)
           q == SetToSeq(S)
<1>1. n \in Nat /\ ExistsBijection(1..n, S)
  BY FS_CardinalityType
<1>2. \E f \in [1..n -> S] : IsInjective(f)
  <2>1. PICK f \in Bijection(1..n, S) : TRUE
    BY <1>1 DEF ExistsBijection
  <2>2. f \in [1..n -> S] /\ \A a, b \in 1..n : f[a] = f[b] => a = b
    BY <2>1 DEF Bijection, Injection, IsInjective
  <2> QED
    BY <2>2 DEF IsInjective
<1>3. q \in [1..n -> S] /\ IsInjective(q)
  BY <1>2 DEF SetToSeq
<1> HIDE DEF q, n
<1>4. IsFiniteSet(1..n) /\ Cardinality(1..n) = n
  BY <1>1, FS_Interval
<1>5. q \in Injection(1..n, S)
  BY <1>3 DEF Injection
<1>6. q \in Surjection(1..n, S)
  BY <1>4, <1>5, FS_Injection DEF n
<1>7. q \in Seq(S) /\ DOMAIN q = 1..n
  BY <1>1, <1>3
<1>8. ToSet(q) = S
  BY <1>3, <1>6, <1>7 DEF ToSet, Surjection
<1> QED
  BY <1>3, <1>7, <1>8 DEF q, IsInjective

Url ==
    IF Has("relative_url") THEN "relative" ELSE IF Has("private_url") THEN "private" ELSE "public"

(* An endpoint has the URL all of them have.                                *)
LEMMA EndpointIs ==
    ASSUME NEW identifier, NEW role
    PROVE  LET e == Endpoint(identifier, role)
           IN  e.identifier = identifier /\ e.role = role /\ e.url = Url
  BY DEF Endpoint, Url

(* The Sender interfaces, and what stands before them.                      *)
Senders == {Endpoint(m, "SENDER") : m \in peer.modules}
Heading ==
    (IF Has("no_credentials") THEN <<>> ELSE <<Endpoint("credentials", "SENDER")>>)
         \o (IF Has("endpoint_twice") THEN <<Endpoint("commands", "RECEIVER")>> ELSE <<>>)
         \o (IF Has("unknown_module") THEN <<Endpoint("payments", "SENDER")>> ELSE <<>>)
         \o <<Endpoint("commands", "RECEIVER")>>

HeadingSet ==
    (IF Has("no_credentials") THEN {} ELSE {Endpoint("credentials", "SENDER")})
         \cup (IF Has("endpoint_twice") THEN {Endpoint("commands", "RECEIVER")} ELSE {})
         \cup (IF Has("unknown_module") THEN {Endpoint("payments", "SENDER")} ELSE {})
         \cup {Endpoint("commands", "RECEIVER")}

(* What the heading of the list holds.                                      *)
LEMMA HeadingIs ==
    ASSUME NEW X, HeadingSet \subseteq X
    PROVE  Heading \in Seq(X) /\ ToSet(Heading) = HeadingSet
<1> DEFINE c == Endpoint("credentials", "SENDER")
           k == Endpoint("commands", "RECEIVER")
           p == Endpoint("payments", "SENDER")
<1>1. k \in X /\ (~Has("no_credentials") => c \in X) /\ (Has("unknown_module") => p \in X)
  BY DEF HeadingSet
<1> HIDE DEF c, k, p
<1> DEFINE s1 == IF Has("no_credentials") THEN <<>> ELSE <<c>>
           s2 == IF Has("endpoint_twice") THEN <<k>> ELSE <<>>
           s3 == IF Has("unknown_module") THEN <<p>> ELSE <<>>
           s4 == <<k>>
<1>2. s1 \in Seq(X) /\ ToSet(s1) = IF Has("no_credentials") THEN {} ELSE {c}
  BY <1>1 DEF ToSet
<1>3. s2 \in Seq(X) /\ ToSet(s2) = IF Has("endpoint_twice") THEN {k} ELSE {}
  BY <1>1 DEF ToSet
<1>4. s3 \in Seq(X) /\ ToSet(s3) = IF Has("unknown_module") THEN {p} ELSE {}
  BY <1>1 DEF ToSet
<1>5. s4 \in Seq(X) /\ ToSet(s4) = {k}
  BY <1>1 DEF ToSet
<1> DEFINE s12 == s1 \o s2
           s123 == s12 \o s3
<1>6. Heading = s123 \o s4
  BY DEF Heading, c, k, p
<1> HIDE DEF s1, s2, s3, s4
<1>7. s12 \in Seq(X) /\ ToSet(s12) = ToSet(s1) \cup ToSet(s2)
  BY <1>2, <1>3, ToSetOfTwo
<1> HIDE DEF s12
<1>8. s123 \in Seq(X) /\ ToSet(s123) = ToSet(s12) \cup ToSet(s3)
  BY <1>4, <1>7, ToSetOfTwo
<1> HIDE DEF s123
<1>9. Heading \in Seq(X) /\ ToSet(Heading) = ToSet(s123) \cup ToSet(s4)
  BY <1>5, <1>6, <1>8, ToSetOfTwo
<1>10. HeadingSet = ToSet(s1) \cup ToSet(s2) \cup ToSet(s3) \cup ToSet(s4)
  BY <1>2, <1>3, <1>4, <1>5 DEF HeadingSet, c, k, p
<1> QED
  BY <1>7, <1>8, <1>9, <1>10

(* There are finitely many Sender interfaces.                               *)
LEMMA SendersAreFinite ==
    ASSUME PeerOK
    PROVE  IsFiniteSet(Senders)
<1> DEFINE f == [m \in peer.modules |-> Endpoint(m, "SENDER")]
<1>1. f \in Surjection(peer.modules, Senders)
  BY DEF Surjection, Senders
<1> QED
  BY <1>1, PeerIs, FS_Surjection

(* The endpoints are the heading and the Sender interfaces.                 *)
LEMMA ListedIs ==
    ASSUME PeerOK, ~Has("no_endpoints")
    PROVE  /\ EndpointsListed \in Seq(HeadingSet \cup Senders)
           /\ ToSet(EndpointsListed) = HeadingSet \cup Senders
           /\ EndpointsListed = Heading \o SetToSeq(Senders)
<1> DEFINE X == HeadingSet \cup Senders
<1>1. EndpointsListed = Heading \o SetToSeq(Senders)
  BY DEF EndpointsListed, Heading, Senders
<1>2. SetToSeq(Senders) \in Seq(Senders) /\ ToSet(SetToSeq(Senders)) = Senders
  BY SendersAreFinite, SetToSeqIs
<1>3. Senders \subseteq X /\ HeadingSet \subseteq X
  OBVIOUS
<1> HIDE DEF X
<1>4. Heading \in Seq(X) /\ ToSet(Heading) = HeadingSet
  BY <1>3, HeadingIs
<1>5. SetToSeq(Senders) \in Seq(X)
  <2> DEFINE q == SetToSeq(Senders)
  <2>1. q \in Seq(Senders)
    BY <1>2
  <2> HIDE DEF q
  <2>2. q \in Seq(X)
    BY <1>3, <2>1
  <2> QED
    BY <2>2 DEF q
<1>6. EndpointsListed \in Seq(X) /\ ToSet(EndpointsListed) = HeadingSet \cup Senders
  BY <1>1, <1>2, <1>4, <1>5, ToSetOfTwo
<1> QED
  BY <1>1, <1>6 DEF X

(* A URL that is wrong is wrong in every endpoint.                          *)
LEMMA AllHaveTheUrl ==
    ASSUME PeerOK, NEW e \in ToSet(EndpointsListed)
    PROVE  e.url = Url
<1>1. CASE Has("no_endpoints")
  BY <1>1 DEF EndpointsListed, ToSet
<1>2. CASE ~Has("no_endpoints")
  <2>1. e \in HeadingSet \cup Senders
    BY <1>2, ListedIs
  <2>2. \A i, r : Endpoint(i, r).url = Url
    BY EndpointIs
  <2> QED
    BY <2>1, <2>2 DEF HeadingSet, Senders
<1> QED
  BY <1>1, <1>2

(* A module is offered where an endpoint of it is listed.                   *)
LEMMA OffersIs ==
    ASSUME PeerOK, NEW identifier
    PROVE  /\ Offers(identifier) <=> \E e \in ToSet(EndpointsListed) : e.identifier = identifier
           /\ identifier \in ToSet(Pullable) /\ ~Has("no_endpoints") =>
                (Offers(identifier) <=> identifier \in peer.modules)
<1>1. Offers(identifier) <=> \E e \in ToSet(EndpointsListed) : e.identifier = identifier
  BY DEF Offers, ToSet
<1>2. ASSUME identifier \in ToSet(Pullable), ~Has("no_endpoints")
      PROVE  Offers(identifier) <=> identifier \in peer.modules
  <2>1. Offers(identifier) <=> \E e \in HeadingSet \cup Senders : e.identifier = identifier
    BY <1>1, <1>2, ListedIs
  <2>2. \A i, r : Endpoint(i, r).identifier = i
    BY EndpointIs
  <2>3. identifier \notin {"credentials", "commands", "payments"}
    BY <1>2, PullableIs
  <2>4. \A e \in HeadingSet : e.identifier # identifier
    BY <2>2, <2>3 DEF HeadingSet
  <2> QED
    BY <2>1, <2>2, <2>4 DEF Senders
<1> QED
  BY <1>1, <1>2

(* The Sender interface of a module is found.                               *)
LEMMA UrlOfIs ==
    ASSUME PeerOK, NEW identifier \in peer.modules, ~Has("no_endpoints")
    PROVE  UrlOf(identifier) = Url
<1> DEFINE L == EndpointsListed
           I == {i \in 1..Len(L) : L[i].identifier = identifier /\ L[i].role = "SENDER"}
<1>1. L \in Seq(HeadingSet \cup Senders) /\ ToSet(L) = HeadingSet \cup Senders
  BY ListedIs
<1>2. Len(L) \in Nat /\ DOMAIN L = 1..Len(L)
  BY <1>1
<1>3. I # {}
  <2>1. Endpoint(identifier, "SENDER") \in ToSet(L)
    BY <1>1 DEF Senders
  <2>2. PICK i \in 1..Len(L) : L[i] = Endpoint(identifier, "SENDER")
    BY <1>2, <2>1 DEF ToSet
  <2>3. L[i].identifier = identifier /\ L[i].role = "SENDER"
    BY <2>2, EndpointIs
  <2> HIDE DEF L
  <2> QED
    BY <2>3
<1>4. I \in SUBSET Nat /\ IsFiniteSet(I) /\ I \subseteq DOMAIN L
  <2>1. IsFiniteSet(1..Len(L))
    BY <1>2, FS_Interval
  <2> HIDE DEF L
  <2> QED
    BY <1>2, <2>1, FS_Subset
<1>5. UrlOf(identifier) = L[CHOOSE m \in I : \A n \in I : m <= n].url
  BY <1>3 DEF UrlOf, SelectInSeq, Min
<1> HIDE DEF L, I
<1>6. PICK i \in I : UrlOf(identifier) = L[i].url
  <2>1. \E m \in I : \A n \in I : m <= n
    BY <1>3, <1>4, LeastNumber
  <2> QED
    BY <1>5, <2>1
<1>7. L[i] \in ToSet(L)
  BY <1>4 DEF ToSet
<1> QED
  BY <1>6, <1>7, AllHaveTheUrl DEF L

-----------------------------------------------------------------------------
(* What each check reports.                                                 *)

Common == {v \in ToSet(VersionsListed) : v.version \in ToSet(Supported)}

(* What an entry of GET /versions says.                                     *)
LEMMA EntryIs ==
    ASSUME NEW version
    PROVE  /\ Entry(version).version = version
           /\ Entry(version).url = IF Has("version_url") THEN "private" ELSE "public"
  BY DEF Entry

(* A peer lists nothing, one version nobody knows, its own twice, or three. *)
LEMMA VersionsAre ==
    ASSUME PeerOK
    PROVE  LET own == Entry(peer.version)
               V == VersionsListed
           IN  /\ Has("no_versions") => V = <<>> /\ Common = {}
               /\ ~Has("no_versions") /\ Has("alien") => Common = {}
               /\ ~Has("no_versions") /\ ~Has("alien") =>
                    /\ V # <<>> /\ own \in Common /\ Common \subseteq {Entry("2.1.1"), own}
                    /\ Best(V) = own
               /\ ~Has("no_versions") /\ ~Has("alien") /\ Has("version_twice") =>
                    1 \in DOMAIN V /\ 2 \in DOMAIN V /\ V[1].version = V[2].version
               /\ ~Has("no_versions") /\ ~Has("alien") /\ ~Has("version_twice") =>
                    \A i, j \in DOMAIN V : V[i].version = V[j].version => i = j
               /\ \A v \in ToSet(V) : v.url = IF Has("version_url") THEN "private" ELSE "public"
<1> DEFINE own == Entry(peer.version)
           old == Entry("2.1.1")
           odd == Entry("9.9")
           url == IF Has("version_url") THEN "private" ELSE "public"
           V == VersionsListed
<1>1. /\ own.version = peer.version /\ old.version = "2.1.1" /\ odd.version = "9.9"
      /\ own.url = url /\ old.url = url /\ odd.url = url
      /\ peer.version \in {"2.1.1", "2.2.1", "2.3.0"}
  BY EntryIs, PeerIs
<1>2. V = IF Has("no_versions") THEN <<>> ELSE IF Has("alien") THEN <<odd>>
          ELSE IF Has("version_twice") THEN <<own, own>>
          ELSE IF peer.version = "2.1.1" THEN <<old, odd>> ELSE <<old, own, odd>>
  BY DEF VersionsListed
<1> HIDE DEF own, old, odd, url, V
<1>3. CASE Has("no_versions")
  <2>1. V = <<>> /\ ToSet(V) = {}
    BY <1>2, <1>3 DEF ToSet
  <2> QED
    BY <1>3, <2>1 DEF V, Common
<1>4. CASE ~Has("no_versions") /\ Has("alien")
  <2>1. ToSet(V) = {odd}
    BY <1>2, <1>4 DEF ToSet
  <2> QED
    BY <1>1, <1>4, <2>1, SupportedIs DEF V, Common, url
<1>5. CASE ~Has("no_versions") /\ ~Has("alien")
  <2>1. CASE Has("version_twice")
    <3>1. ToSet(V) = {own} /\ V # <<>> /\ DOMAIN V = 1..2 /\ V[1] = own /\ V[2] = own
      BY <1>2, <1>5, <2>1 DEF ToSet
    <3>2. Common = {own}
      BY <1>1, <3>1, SupportedIs DEF Common, V
    <3>3. Best(V) = own
      BY <1>1, <3>1, SupportedIs DEF Best
    <3> QED
      BY <1>1, <1>5, <2>1, <3>1, <3>2, <3>3 DEF V, url, own
  <2>2. CASE ~Has("version_twice") /\ peer.version = "2.1.1"
    <3>0. own = old
      BY <2>2 DEF own, old
    <3>1. /\ ToSet(V) = {own, odd} /\ V # <<>> /\ DOMAIN V = 1..2 /\ V[1] = own /\ V[2] = odd
      BY <1>2, <1>5, <2>2, <3>0 DEF ToSet
    <3>2. Common = {own}
      BY <1>1, <3>1, SupportedIs DEF Common, V
    <3>3. Best(V) = own
      <4> DEFINE Newest(v) ==
                     /\ v.version \in ToSet(Supported)
                     /\ \A w \in ToSet(V) : \A i, j \in DOMAIN Supported :
                          v.version = Supported[i] /\ w.version = Supported[j] => j <= i
      <4>1. Newest(own)
        BY <1>1, <3>1, SupportedIs
      <4>2. ~Newest(odd)
        BY <1>1, SupportedIs
      <4>3. Best(V) = CHOOSE v \in ToSet(V) : Newest(v)
        BY DEF Best
      <4> HIDE DEF Newest
      <4> QED
        BY <3>1, <4>1, <4>2, <4>3
    <3>4. \A i, j \in DOMAIN V : V[i].version = V[j].version => i = j
      BY <1>1, <2>2, <3>1
    <3> QED
      BY <1>1, <1>5, <2>2, <3>1, <3>2, <3>3, <3>4 DEF V, url, own, old
  <2>3. CASE ~Has("version_twice") /\ peer.version # "2.1.1"
    <3>1. /\ ToSet(V) = {old, own, odd} /\ V # <<>> /\ DOMAIN V = 1..3
          /\ V[1] = old /\ V[2] = own /\ V[3] = odd
      BY <1>2, <1>5, <2>3 DEF ToSet
    <3>2. own \in Common /\ Common \subseteq {old, own}
      BY <1>1, <3>1, SupportedIs DEF Common, V
    <3>3. Best(V) = own
      <4> DEFINE Newest(v) ==
                     /\ v.version \in ToSet(Supported)
                     /\ \A w \in ToSet(V) : \A i, j \in DOMAIN Supported :
                          v.version = Supported[i] /\ w.version = Supported[j] => j <= i
      <4>1. Newest(own)
        BY <1>1, <3>1, SupportedIs
      <4>2. ~Newest(odd)
        BY <1>1, SupportedIs
      <4>3. ~Newest(old)
        <5>1. \E j \in {2, 3} : own.version = Supported[j]
          BY <1>1, <2>3, SupportedIs
        <5> QED
          BY <1>1, <3>1, <5>1, SupportedIs
      <4>4. Best(V) = CHOOSE v \in ToSet(V) : Newest(v)
        BY DEF Best
      <4> HIDE DEF Newest
      <4> QED
        BY <3>1, <4>1, <4>2, <4>3, <4>4
    <3>4. \A i, j \in DOMAIN V : V[i].version = V[j].version => i = j
      BY <1>1, <2>3, <3>1
    <3> QED
      BY <1>1, <1>5, <2>3, <3>1, <3>2, <3>3, <3>4 DEF V, url, own, old
  <2> QED
    BY <2>1, <2>2, <2>3
<1> QED
  BY <1>3, <1>4, <1>5

(* What the check of GET /versions reports.                                 *)
LEMMA VersionsTold ==
    ASSUME CheckVersions
    PROVE  /\ Has("unreachable") => Check("versions.get", "fail") \in report' /\ at' = "done"
           /\ ~Has("unreachable") =>
                /\ Asserted("headers.request_id", ~Has("no_ids")) \in report'
                /\ Asserted("versions.status", ~Has("versions_status")) \in report'
                /\ Asserted("headers.timestamp", ~Has("clock")) \in report'
           /\ ~Has("unreachable") /\ Has("no_versions_data") =>
                Check("versions.data", "fail") \in report' /\ at' = "done"
           /\ ~Has("unreachable") /\ ~Has("no_versions_data") =>
                /\ Asserted("versions.nonempty", VersionsListed # <<>>) \in report'
                /\ Asserted("versions.unique",
                       \A i, j \in DOMAIN VersionsListed :
                           VersionsListed[i].version = VersionsListed[j].version => i = j)
                     \in report'
                /\ (\E v \in ToSet(VersionsListed) : ~Usable(v.url)) =>
                      Check("versions.url", "fail") \in report'
                /\ Asserted("versions.common", Common # {}) \in report'
                /\ at' = IF Common = {} THEN "done" ELSE "details"
<1>1. CASE Has("unreachable")
  BY <1>1 DEF CheckVersions, Reports
<1>2. CASE ~Has("unreachable")
  <2> DEFINE V == VersionsListed
             unique == \A i, j \in DOMAIN V : V[i].version = V[j].version => i = j
             head == EchoedIds \cup {Asserted("versions.status", ~Has("versions_status")),
                                     Asserted("headers.timestamp", ~Has("clock"))}
             body == {Asserted("versions.nonempty", V # <<>>), Asserted("versions.unique", unique)}
                        \cup When(\E v \in ToSet(V) : ~Usable(v.url), "versions.url", "fail")
  <2>1. IF Has("no_versions_data")
        THEN Reports(head \cup {Check("versions.data", "fail")}, "done")
        ELSE Reports(head \cup body \cup {Asserted("versions.common", Common # {})},
                     IF Common = {} THEN "done" ELSE "details")
    BY <1>2 DEF CheckVersions, Common
  <2>2. /\ Asserted("headers.request_id", ~Has("no_ids")) \in head
        /\ Asserted("versions.status", ~Has("versions_status")) \in head
        /\ Asserted("headers.timestamp", ~Has("clock")) \in head
    BY DEF EchoedIds
  <2>3. /\ Asserted("versions.nonempty", V # <<>>) \in body
        /\ Asserted("versions.unique", unique) \in body
        /\ (\E v \in ToSet(V) : ~Usable(v.url)) => Check("versions.url", "fail") \in body
    BY DEF When
  <2> HIDE DEF head, body, unique, V
  <2>4. CASE Has("no_versions_data")
    BY <1>2, <2>1, <2>2, <2>4 DEF Reports
  <2>5. CASE ~Has("no_versions_data")
    BY <1>2, <2>1, <2>2, <2>3, <2>5 DEF Reports, V, unique
  <2> QED
    BY <2>4, <2>5
<1> QED
  BY <1>1, <1>2

(* What the check of the version details reports.                           *)
LEMMA DetailsTold ==
    ASSUME CheckDetails
    PROVE  LET unread == ~Usable(Best(VersionsListed).url) \/ Has("no_details")
           IN  /\ unread => Check("details.get", "fail") \in report' /\ at' = "done"
               /\ ~unread /\ Has("no_details_data") =>
                    Check("details.data", "fail") \in report' /\ at' = "done"
               /\ ~unread /\ ~Has("no_details_data") /\ DetailsDecode =>
                    /\ Asserted("headers.request_id", ~Has("no_ids")) \in report'
                    /\ Asserted("details.version", ~Has("other_version")) \in report'
                    /\ at' = "endpoints"
  BY DEF CheckDetails, Reports, EchoedIds

(* What the check of the endpoints reports.                                 *)
LEMMA EndpointsTold ==
    ASSUME CheckEndpoints
    PROVE  LET L == EndpointsListed
               version == Best(VersionsListed).version
           IN  /\ Asserted("endpoints.nonempty", L # <<>>) \in report'
               /\ Asserted("endpoints.credentials", Offers("credentials")) \in report'
               /\ Asserted("endpoints.unique", ~Twice(L)) \in report'
               /\ (\E e \in ToSet(L) : ~ExistsIn(e.identifier, version)) =>
                      Check("endpoints.known", "warn") \in report'
               /\ (\E e \in ToSet(L) : ~Absolute(e.url)) =>
                      Check("endpoints.absolute", "fail") \in report'
               /\ (\E e \in ToSet(L) : ~Usable(e.url)) =>
                      Check("endpoints.reachable", "fail") \in report'
               /\ at' = "authentication"
  BY DEF CheckEndpoints, Reports, When

(* What the two tokens tried report.                                        *)
LEMMA AuthenticationTold ==
    ASSUME CheckAuthentication
    PROVE  LET tried == SelectInSeq(Pullable, Offers)
               outcome(lets) ==
                   IF ~Usable(UrlOf(Pullable[tried])) \/ Has("garbles_refusal") THEN "warn"
                   ELSE IF Has(lets) THEN "fail" ELSE "pass"
           IN  /\ tried # 0 => Check("auth.empty", outcome("lets_anyone_in")) \in report'
                               /\ Check("auth.wrong", outcome("lets_strangers_in")) \in report'
               /\ at' = "page"
  BY DEF CheckAuthentication, Reports

(* What the check of a first page reports.                                  *)
LEMMA PageTold ==
    ASSUME CheckPage
    PROVE  LET page == PageOf(0, PageLimit, 0)
               count == Len(page.items)
           IN  /\ first' = page /\ at' = "offset"
               /\ Asserted("module.limit", count <= PageLimit) \in report'
               /\ (IF page.limit = 0 THEN Check("module.xlimit", "warn")
                   ELSE Asserted("module.xlimit", count <= page.limit)) \in report'
               /\ (IF page.total < 0 THEN Check("module.total", "warn")
                   ELSE Asserted("module.link", (page.total > count) = (page.next # "none")))
                     \in report'
               /\ Check("module.objects", IF ObjectsConform(page.items) THEN "pass" ELSE "warn")
                     \in report'
               /\ page.next # "none" => Asserted("module.link_host", page.next = "here") \in report'
  BY DEF CheckPage, Reports

(* Whom the runner tries its tokens on.                                     *)
LEMMA TriedIs ==
    ASSUME PeerOK
    PROVE  LET tried == SelectInSeq(Pullable, Offers)
           IN  /\ tried # 0 => tried \in 1..5 /\ Offers(Pullable[tried])
               /\ (\E i \in 1..5 : Offers(Pullable[i])) => tried # 0
<1> DEFINE I == {i \in 1..Len(Pullable) : Offers(Pullable[i])}
           tried == SelectInSeq(Pullable, Offers)
<1>1. tried = IF I # {} THEN CHOOSE m \in I : \A n \in I : m <= n ELSE 0
  BY DEF SelectInSeq, Min
<1>2. I \subseteq 1..5 /\ \A i \in 1..5 : i \in I <=> Offers(Pullable[i])
  BY PullableIs
<1>3. I \in SUBSET Nat /\ IsFiniteSet(I) /\ 0 \notin I
  <2> DEFINE n == Len(Pullable)
  <2>1. n \in Int /\ 1 \in Int
    BY PullableIs
  <2> HIDE DEF n
  <2>2. IsFiniteSet(1..n)
    BY <2>1, FS_Interval
  <2> QED
    BY <1>2, <2>2, FS_Subset DEF n
<1> HIDE DEF I, tried
<1>4. I # {} => tried \in I
  BY <1>1, <1>3, LeastNumber
<1> QED
  BY <1>1, <1>2, <1>3, <1>4 DEF tried

-----------------------------------------------------------------------------
(* The course of a run.                                                    *)

RunInv ==
    /\ PeerOK
    /\ list \in Seq(Object) /\ changes \in Nat /\ module \in 1..6
    /\ at \in {"versions", "details", "endpoints", "authentication", "page", "offset",
               "date_from", "done"}
    /\ at \in {"versions", "details", "endpoints", "authentication"} => module = 1
    /\ at \in {"page", "offset", "date_from"} => module \in 1..5
    /\ at \in {"offset", "date_from"} =>
          /\ Offers(Pullable[module])
          /\ first.items \in Seq(Object)
          /\ ~shifted => first = PageOf(0, PageLimit, 0)
    /\ changes = 0 => ~shifted

(* A run starts with no module examined.                                    *)
LEMMA RunInit == Init => RunInv
<1> SUFFICES ASSUME Init PROVE RunInv
  OBVIOUS
<1>1. list \in Seq(Object) /\ 1 \in 1..6 /\ 0 \in Nat
  BY ConformanceAssumption DEF Init
<1> QED
  BY <1>1 DEF Init, RunInv, PeerOK

(* While peer and list stay, so does what the peer answers.                 *)
LEMMA StillAnswers ==
    ASSUME UNCHANGED <<peer, list>>
    PROVE  /\ PeerOK' = PeerOK /\ \A x : Offers(x)' = Offers(x)
           /\ PageOf(0, PageLimit, 0)' = PageOf(0, PageLimit, 0)
           /\ EndpointsListed' = EndpointsListed /\ VersionsListed' = VersionsListed
<1>1. PeerOK' = PeerOK
  BY DEF PeerOK
<1>2. EndpointsListed' = EndpointsListed /\ VersionsListed' = VersionsListed
  BY DEF EndpointsListed, VersionsListed, Endpoint, Entry, Has
<1>3. \A x : Offers(x)' = Offers(x)
  BY <1>2 DEF Offers
<1>4. PageOf(0, PageLimit, 0)' = PageOf(0, PageLimit, 0)
  BY DEF PageOf, ChangedSince, Has
<1> QED
  BY <1>1, <1>2, <1>3, <1>4

(* The peer's objects stay objects when they change.                        *)
LEMMA RunChange ==
    ASSUME RunInv, ObjectsChange
    PROVE  RunInv'
<1> DEFINE newest == 1 + Len(list) + changes
<1>1. list \in Seq(Object) /\ changes \in Nat /\ newest \in Nat
  BY DEF RunInv
<1>2. list' \in Seq(Object)
  <2>1. CASE list' = Append(list, [id |-> newest, stamp |-> newest])
    <3>1. [id |-> newest, stamp |-> newest] \in Object
      BY <1>1 DEF Object
    <3> QED
      BY <1>1, <2>1, <3>1
  <2>2. ASSUME NEW i \in DOMAIN list, list' = RemoveAt(list, i) PROVE list' \in Seq(Object)
    <3>1. i \in 1..Len(list) /\ Len(list) \in Nat
      BY <1>1
    <3>2. SubSeq(list, 1, i - 1) \in Seq(Object) /\ SubSeq(list, i + 1, Len(list)) \in Seq(Object)
      BY <1>1, <3>1, SubSeqProperties
    <3> QED
      BY <2>2, <3>2, ConcatProperties DEF RemoveAt
  <2>3. ASSUME NEW i \in DOMAIN list, list' = [list EXCEPT ![i].stamp = newest]
        PROVE  list' \in Seq(Object)
    <3>1. list[i] \in Object /\ i \in 1..Len(list)
      BY <1>1
    <3> DEFINE o == [list[i] EXCEPT !.stamp = newest]
    <3>2. o \in Object
      BY <1>1, <3>1 DEF Object
    <3>3. list' = [list EXCEPT ![i] = o]
      BY <2>3
    <3> HIDE DEF o
    <3> QED
      BY <1>1, <3>1, <3>2, <3>3
  <2> QED
    BY <2>1, <2>2, <2>3 DEF ObjectsChange
<1>3. /\ changes' = changes + 1 /\ shifted' = TRUE
      /\ UNCHANGED <<peer, at, module, first, report>>
  BY DEF ObjectsChange
<1>4. PeerOK' /\ Offers(Pullable[module])' = Offers(Pullable[module])
  <2>1. EndpointsListed' = EndpointsListed
    BY <1>3 DEF EndpointsListed, Endpoint, Has
  <2> QED
    BY <1>3, <2>1 DEF RunInv, PeerOK, Offers
<1> QED
  BY <1>1, <1>2, <1>3, <1>4 DEF RunInv

(* Every step keeps to the course.                                          *)
LEMMA RunStep == RunInv /\ [Next]_cvars => RunInv'
<1> SUFFICES ASSUME RunInv, [Next]_cvars PROVE RunInv'
  OBVIOUS
<1>1. CASE ObjectsChange
  BY <1>1, RunChange
<1>2. CASE UNCHANGED <<peer, list, changes, module, first, shifted>>
            /\ (CheckVersions \/ CheckDetails \/ CheckEndpoints \/ CheckAuthentication)
  <2>1. /\ at \in {"versions", "details", "endpoints", "authentication"}
        /\ at' \in {"details", "endpoints", "authentication", "page", "done"}
    BY <1>2 DEF CheckVersions, CheckDetails, CheckEndpoints, CheckAuthentication, Reports
  <2> QED
    BY <1>2, <2>1, StillAnswers DEF RunInv
<1>3. CASE SkipModule \/ PageFails \/ CheckDateFrom
  <2>1. /\ at \in {"page", "date_from"} /\ NextModule
        /\ UNCHANGED <<peer, list, changes, first, shifted>>
    BY <1>3 DEF SkipModule, PageFails, CheckDateFrom
  <2>2. module \in 1..5 /\ module' = module + 1 /\ at' = IF module = 5 THEN "done" ELSE "page"
    BY <2>1, PullableIs DEF NextModule, RunInv
  <2> QED
    BY <2>1, <2>2, StillAnswers DEF RunInv
<1>4. CASE CheckPage
  <2>1. /\ at = "page" /\ at' = "offset" /\ first' = PageOf(0, PageLimit, 0) /\ shifted' = FALSE
        /\ UNCHANGED <<peer, list, changes, module>> /\ Offers(Pullable[module])
    BY <1>4, PageTold DEF CheckPage
  <2>2. first'.items \in Seq(Object)
    <3>1. ListsOK /\ 0 \in Nat /\ PageLimit \in Nat \ {0}
      BY PeerIs, ConformanceAssumption DEF RunInv, ListsOK
    <3> QED
      BY <2>1, <3>1, PageIs DEF PageOK
  <2> QED
    BY <2>1, <2>2, StillAnswers DEF RunInv
<1>5. CASE CheckOffset
  <2>1. /\ at = "offset" /\ at' = "date_from"
        /\ UNCHANGED <<peer, list, changes, module, first, shifted>>
    BY <1>5 DEF CheckOffset, Reports
  <2> QED
    BY <2>1, StillAnswers DEF RunInv
<1>6. CASE UNCHANGED cvars
  <2>1. UNCHANGED <<peer, list, changes, module, first, shifted, at>>
    BY <1>6 DEF cvars
  <2> QED
    BY <2>1, StillAnswers DEF RunInv
<1> QED
  BY <1>1, <1>2, <1>3, <1>4, <1>5, <1>6 DEF Next, CheckVersions, CheckDetails, CheckEndpoints,
     CheckAuthentication

(* The course of a run: where it is, and what its first page came from.     *)
THEOREM RunInvariance == Spec => []RunInv
<1> QED
  BY RunInit, RunStep, PTL DEF Spec

-----------------------------------------------------------------------------
(* A peer without fault.                                                    *)

(* A check has its name and its outcome.                                    *)
LEMMA CheckIs ==
    ASSUME NEW id, NEW outcome
    PROVE  Check(id, outcome).id = id /\ Check(id, outcome).outcome = outcome
  BY DEF Check

(* What is so is reported as passed.                                        *)
LEMMA PassIs ==
    ASSUME NEW id, NEW ok, ok
    PROVE  Asserted(id, ok).outcome = "pass"
  BY DEF Check, Asserted

(* One of the objects seen is the newest.                                   *)
LEMMA NewestIs ==
    ASSUME NEW s \in Seq(Object), s # <<>>
    PROVE  LET stamps == {o.stamp : o \in ToSet(s)}
               newest == CHOOSE n \in stamps : \A o \in ToSet(s) : o.stamp <= n
           IN  newest \in Nat /\ \A o \in ToSet(s) : o.stamp <= newest
<1> DEFINE N == Len(s)
           Top(n, i) == \A j \in 1..n : s[j].stamp <= s[i].stamp
           Good == {n \in 0..N : n = 0 \/ \E i \in 1..n : Top(n, i)}
           stamps == {o.stamp : o \in ToSet(s)}
<1>1. /\ N \in Nat /\ N # 0 /\ ToSet(s) = {s[i] : i \in 1..N}
      /\ \A i \in 1..N : s[i].stamp \in Nat
  <2>1. N \in Nat /\ N # 0 /\ DOMAIN s = 1..N /\ \A i \in 1..N : s[i] \in Object
    OBVIOUS
  <2>2. \A o \in Object : o.stamp \in Nat
    BY DEF Object
  <2> HIDE DEF N
  <2> QED
    BY <2>1, <2>2 DEF ToSet
<1> HIDE DEF N
<1>2. 0 \in Good
  BY <1>1
<1>3. ASSUME NEW n \in 0..N, n < N, n \in Good PROVE n + 1 \in Good
  <2>1. n + 1 \in 1..N /\ n \in Nat /\ n + 1 # 0 /\ 1..(n + 1) \subseteq 1..N
    BY <1>1, <1>3
  <2> SUFFICES \E k \in 1..(n + 1) : Top(n + 1, k)
    BY <2>1
  <2>2. CASE n = 0
    <3>1. 1 \in 1..(n + 1) /\ Top(n + 1, 1)
      BY <1>1, <2>1, <2>2
    <3> HIDE DEF Top
    <3> QED
      BY <3>1
  <2>3. CASE n # 0
    <3>1. PICK i \in 1..n : Top(n, i)
      BY <1>3, <2>3
    <3>2. i \in 1..N /\ s[i].stamp \in Nat /\ s[n + 1].stamp \in Nat /\ i \in 1..(n + 1)
      BY <1>1, <2>1
    <3>3. \A j \in 1..(n + 1) : j \in 1..n \/ j = n + 1
      BY <2>1
    <3>4. \A j \in 1..(n + 1) : s[j].stamp \in Nat
      BY <1>1, <2>1
    <3>5. CASE s[n + 1].stamp <= s[i].stamp
      <4>1. Top(n + 1, i)
        BY <3>1, <3>3, <3>5
      <4> HIDE DEF Top
      <4> QED
        BY <3>2, <4>1
    <3>6. CASE s[i].stamp <= s[n + 1].stamp
      <4>1. Top(n + 1, n + 1)
        BY <3>1, <3>2, <3>3, <3>4, <3>6
      <4>2. n + 1 \in 1..(n + 1)
        BY <2>1
      <4> HIDE DEF Top
      <4> QED
        BY <4>1, <4>2
    <3>7. s[n + 1].stamp <= s[i].stamp \/ s[i].stamp <= s[n + 1].stamp
      BY <3>2
    <3> HIDE DEF Top
    <3> QED
      BY <3>5, <3>6, <3>7
  <2> QED
    BY <2>2, <2>3
<1>4. N \in Good
  <2>1. N \in 0..N
    BY <1>1
  <2> HIDE DEF Good
  <2> QED
    BY <1>1, <1>2, <1>3, <2>1, UpTo
<1>5. PICK i \in 1..N : Top(N, i)
  BY <1>1, <1>4
<1>6. s[i].stamp \in stamps /\ stamps \subseteq Nat
  BY <1>1
<1>7. \A o \in ToSet(s) : o.stamp <= s[i].stamp
  BY <1>1, <1>5
<1> HIDE DEF stamps
<1> QED
  BY <1>6, <1>7 DEF stamps

(* The first page of a module.                                              *)
LEMMA FirstPageIs ==
    ASSUME RunInv
    PROVE  LET p == PageOf(0, PageLimit, 0)
               size == Size(PageLimit, 0)
               count == Len(p.items)
           IN  /\ p.items \in Seq(Object) /\ size \in Nat /\ Len(list) \in Nat
               /\ size = IF Has("ignores_limit") THEN Len(list)
                         ELSE IF PageLimit < peer.limit THEN PageLimit ELSE peer.limit
               /\ count = IF size < Len(list) THEN size ELSE Len(list)
               /\ \A i \in 1..count : i \in 1..Len(list) /\ p.items[i] = list[i]
               /\ p.limit = (IF Has("no_limit") THEN 0 ELSE peer.limit)
               /\ p.total = (IF Has("no_total") THEN -1 ELSE Len(list))
               /\ (p.next # "none") = ((size < Len(list)) # Has("wrong_link"))
               /\ p.next # "none" => p.next = IF Has("link_away") THEN "elsewhere" ELSE "here"
<1> DEFINE p == PageOf(0, PageLimit, 0)
           size == Size(PageLimit, 0)
           m == Matching(0)
           s == Start(0)
           L == Len(list)
<1>1. ListsOK /\ 0 \in Nat /\ PageLimit \in Nat \ {0} /\ peer.limit \in Nat \ {0} /\ L \in Nat
  BY PeerIs, ConformanceAssumption DEF RunInv, ListsOK
<1>2. m = list /\ s = 0
  BY <1>1, MatchingIs DEF Start
<1>3. size \in Nat /\ size = IF Has("ignores_limit") THEN L
                              ELSE IF PageLimit < peer.limit THEN PageLimit ELSE peer.limit
  BY <1>1, <1>2 DEF Size
<1>4. PageOK(0, PageLimit, 0)
  BY <1>1, PageIs
<1>5. /\ p.items \in Seq(Object)
      /\ Len(p.items) = IF s + size < Len(m) THEN size ELSE IF s < Len(m) THEN Len(m) - s ELSE 0
      /\ \A i \in 1..Len(p.items) : s + i \in 1..Len(m) /\ p.items[i] = m[s + i]
      /\ p.limit = (IF Has("no_limit") THEN 0 ELSE peer.limit)
      /\ p.total = (IF Has("no_total") THEN -1 ELSE Len(m))
      /\ (p.next # "none") = ((s + size < Len(m)) # Has("wrong_link"))
      /\ p.next # "none" => p.next = IF Has("link_away") THEN "elsewhere" ELSE "here"
  BY <1>4 DEF PageOK
<1> HIDE DEF p, size, m, s
<1>6. Len(p.items) = IF size < L THEN size ELSE L
  BY <1>1, <1>2, <1>3, <1>5
<1>7. \A i \in 1..Len(p.items) : i \in 1..L /\ p.items[i] = list[i]
  <2>1. \A i \in 1..Len(p.items) : 0 + i = i
    OBVIOUS
  <2> QED
    BY <1>2, <1>5, <2>1
<1>8. 0 + size = size
  BY <1>3
<1>9. /\ p.total = (IF Has("no_total") THEN -1 ELSE L)
      /\ (p.next # "none") = ((size < L) # Has("wrong_link"))
  BY <1>2, <1>5, <1>8
<1> QED
  BY <1>1, <1>3, <1>5, <1>6, <1>7, <1>9 DEF p, size

(* Of a peer without fault: its endpoints, which are all different.         *)
LEMMA FaultlessEndpoints ==
    ASSUME PeerOK, peer.faults = {}
    PROVE  /\ EndpointsListed # <<>> /\ Offers("credentials") /\ ~Twice(EndpointsListed)
           /\ Url = "public"
<1> DEFINE c == Endpoint("credentials", "SENDER")
           k == Endpoint("commands", "RECEIVER")
           q == SetToSeq(Senders)
           L == EndpointsListed
<1>1. \A f : ~Has(f)
  BY DEF Has
<1>2. Url = "public"
  BY <1>1 DEF Url
<1>3. Heading = <<c, k>>
  <2>1. Heading = <<c>> \o <<>> \o <<>> \o <<k>>
    BY <1>1 DEF Heading
  <2> HIDE DEF c, k
  <2>2. <<c>> \o <<>> = <<c>>
    OBVIOUS
  <2> DEFINE s == <<c>> \o <<k>>
  <2>3. Len(s) = 2 /\ s[1] = c /\ s[2] = k /\ s \in Seq({c, k}) /\ <<c, k>> \in Seq({c, k})
    OBVIOUS
  <2>4. Len(<<c, k>>) = 2 /\ <<c, k>>[1] = c /\ <<c, k>>[2] = k
    OBVIOUS
  <2>5. DOMAIN s = 1..2 /\ DOMAIN <<c, k>> = 1..2
    BY <2>3, <2>4
  <2>6. s = [i \in 1..2 |-> s[i]] /\ <<c, k>> = [i \in 1..2 |-> <<c, k>>[i]]
    <3> DEFINE t == <<c, k>>
    <3>1. s = [i \in DOMAIN s |-> s[i]] /\ t = [i \in DOMAIN t |-> t[i]]
      BY <2>3, <2>4
    <3> HIDE DEF s, t
    <3> QED
      BY <2>5, <3>1 DEF t
  <2>7. s = <<c, k>>
    <3> DEFINE t == <<c, k>>
    <3>1. \A i \in 1..2 : s[i] = t[i]
      <4> HIDE DEF s, t
      <4> QED
        BY <2>3, <2>4 DEF t
    <3> HIDE DEF s, t
    <3> QED
      BY <2>6, <3>1 DEF t
  <2> QED
    BY <2>1, <2>2, <2>7
<1>4. /\ q \in Seq(Senders) /\ ToSet(q) = Senders
      /\ \A i, j \in DOMAIN q : q[i] = q[j] => i = j
  BY SendersAreFinite, SetToSeqIs
<1>5. c.identifier = "credentials" /\ k.identifier = "commands"
  BY EndpointIs
<1>6. ASSUME NEW e \in Senders, NEW f \in Senders
      PROVE  /\ e.identifier \notin {"credentials", "commands"}
             /\ e.identifier = f.identifier => e = f
  <2>1. \A m : Endpoint(m, "SENDER").identifier = m
    BY EndpointIs
  <2>2. peer.modules \cap {"credentials", "commands"} = {}
    BY PeerIs, PullableIs
  <2> QED
    BY <2>1, <2>2 DEF Senders
<1>7. L = <<c, k>> \o q /\ ToSet(L) = HeadingSet \cup Senders
  BY <1>1, <1>3, ListedIs
<1>8. c \in ToSet(L)
  BY <1>1, <1>7 DEF HeadingSet
<1>9. Offers("credentials")
  BY <1>5, <1>8, OffersIs
<1> HIDE DEF c, k, q, L
<1>10. /\ Len(q) \in Nat /\ DOMAIN q = 1..Len(q) /\ DOMAIN L = 1..(2 + Len(q))
       /\ L[1] = c /\ L[2] = k /\ \A i \in 3..(2 + Len(q)) : L[i] = q[i - 2] /\ i - 2 \in DOMAIN q
  BY <1>4, <1>7
<1>11. L # <<>>
  BY <1>10
<1>12. \A i \in DOMAIN q : q[i] \in Senders
  BY <1>4
<1>13. ASSUME NEW i \in DOMAIN L, NEW j \in DOMAIN L, i # j,
              L[i].identifier = L[j].identifier
       PROVE  FALSE
  <2>1. (i = 1 \/ i = 2 \/ i \in 3..(2 + Len(q))) /\ (j = 1 \/ j = 2 \/ j \in 3..(2 + Len(q)))
    BY <1>10
  <2>2. CASE i \in 3..(2 + Len(q)) /\ j \in 3..(2 + Len(q))
    <3>1. L[i] = q[i - 2] /\ L[j] = q[j - 2] /\ i - 2 \in DOMAIN q /\ j - 2 \in DOMAIN q
          /\ i - 2 # j - 2
      BY <1>10, <1>13, <2>2
    <3> QED
      BY <1>4, <1>6, <1>12, <1>13, <3>1
  <2>3. CASE i \notin 3..(2 + Len(q)) /\ j \notin 3..(2 + Len(q))
    BY <1>5, <1>10, <1>13, <2>1, <2>3
  <2>4. CASE i \in 3..(2 + Len(q)) /\ j \notin 3..(2 + Len(q))
    <3>1. L[i] \in Senders /\ L[j] \in {c, k}
      BY <1>10, <1>12, <2>1, <2>4
    <3> QED
      BY <1>5, <1>6, <1>13, <3>1
  <2>5. CASE i \notin 3..(2 + Len(q)) /\ j \in 3..(2 + Len(q))
    <3>1. L[j] \in Senders /\ L[i] \in {c, k}
      BY <1>10, <1>12, <2>1, <2>5
    <3> QED
      BY <1>5, <1>6, <1>13, <3>1
  <2> QED
    BY <2>2, <2>3, <2>4, <2>5
<1>14. ~Twice(L)
  BY <1>13 DEF Twice
<1> QED
  BY <1>2, <1>9, <1>11, <1>14 DEF L

Unblamed ==
    \A c \in report' \ report :
        c.outcome = "fail" =>
            \/ c.id = "module.offset" /\ shifted
            \/ c.id = "details.get" /\ peer.version = "2.1.1"

(* GET /versions of a peer without fault passes.                            *)
LEMMA FaultlessVersions ==
    ASSUME RunInv, peer.faults = {}, CheckVersions
    PROVE  Unblamed
<1>1. \A f : ~Has(f)
  BY DEF Has
<1> DEFINE V == VersionsListed
           unique == \A i, j \in DOMAIN V : V[i].version = V[j].version => i = j
           usable == ~\E v \in ToSet(V) : ~Usable(v.url)
           common == {v \in ToSet(V) : v.version \in ToSet(Supported)}
<1>2. V # <<>> /\ unique /\ common # {} /\ \A v \in ToSet(V) : v.url = "public"
  BY <1>1, VersionsAre DEF RunInv, Common
<1>3. usable
  BY <1>2 DEF Usable
<1> DEFINE head == EchoedIds \cup {Asserted("versions.status", ~Has("versions_status")),
                                   Asserted("headers.timestamp", ~Has("clock"))}
           body == {Asserted("versions.nonempty", V # <<>>), Asserted("versions.unique", unique)}
                      \cup When(~usable, "versions.url", "fail")
<1>4. report' = report \cup (head \cup body \cup {Asserted("versions.common", common # {})})
  BY <1>1 DEF CheckVersions, Reports
<1>5. \A c \in head : c.outcome = "pass"
  BY <1>1, PassIs DEF EchoedIds
<1>6. \A c \in body : c.outcome = "pass"
  <2> HIDE DEF unique, usable, V
  <2> QED
    BY <1>2, <1>3, PassIs DEF When
<1>7. Asserted("versions.common", common # {}).outcome = "pass"
  <2> HIDE DEF common
  <2> QED
    BY <1>2, PassIs
<1> HIDE DEF head, body, common
<1> QED
  BY <1>4, <1>5, <1>6, <1>7 DEF Unblamed

(* So do its version details, or they are of a version that has no roles,   *)
LEMMA FaultlessDetails ==
    ASSUME RunInv, peer.faults = {}, CheckDetails
    PROVE  Unblamed
<1>1. \A f : ~Has(f)
  BY DEF Has
<1>2. Usable(Best(VersionsListed).url)
  <2>1. Best(VersionsListed) = Entry(peer.version)
    BY <1>1, VersionsAre DEF RunInv
  <2> QED
    BY <1>1, <2>1, EntryIs DEF Usable
<1>3. IF ~DetailsDecode THEN report' = report \cup {Check("details.get", "fail")}
      ELSE report' = report \cup
               (EchoedIds \cup {Asserted("details.version", ~Has("other_version"))})
  BY <1>1, <1>2 DEF CheckDetails, Reports
<1>4. \A c \in EchoedIds \cup {Asserted("details.version", ~Has("other_version"))} :
          c.outcome = "pass"
  BY <1>1, PassIs DEF EchoedIds
<1>5. CASE ~DetailsDecode
  BY <1>3, <1>5, CheckIs DEF DetailsDecode, Unblamed
<1>6. CASE DetailsDecode
  BY <1>3, <1>4, <1>6 DEF Unblamed
<1> QED
  BY <1>5, <1>6

(* and the list of its endpoints.                                           *)
LEMMA FaultlessListing ==
    ASSUME RunInv, peer.faults = {}, CheckEndpoints
    PROVE  Unblamed
<1>1. PeerOK
  BY DEF RunInv
<1>2. /\ EndpointsListed # <<>> /\ Offers("credentials") /\ ~Twice(EndpointsListed)
      /\ Url = "public"
  BY <1>1, FaultlessEndpoints
<1> DEFINE L == EndpointsListed
           version == Best(VersionsListed).version
           relative == \E e \in ToSet(L) : ~Absolute(e.url)
           private == \E e \in ToSet(L) : ~Usable(e.url)
           odd == \E e \in ToSet(L) : ~ExistsIn(e.identifier, version)
           conforms == DetailsConform(version)
<1>3. ~relative /\ ~private
  BY <1>1, <1>2, AllHaveTheUrl DEF Usable, Absolute
<1> DEFINE told == {Asserted("endpoints.nonempty", L # <<>>),
                    Asserted("endpoints.credentials", Offers("credentials")),
                    Asserted("endpoints.unique", ~Twice(L))}
                   \cup When(odd, "endpoints.known", "warn")
                   \cup When(relative, "endpoints.absolute", "fail")
                   \cup When(private, "endpoints.reachable", "fail")
                   \cup When(~conforms, "details.conform", "warn")
<1>4. report' = report \cup told
  BY DEF CheckEndpoints, Reports
<1> HIDE DEF relative, private, odd, conforms
<1>5. \A c \in told : c.outcome \in {"pass", "warn"}
  <2>1. \A c \in {Asserted("endpoints.nonempty", L # <<>>),
                  Asserted("endpoints.credentials", Offers("credentials")),
                  Asserted("endpoints.unique", ~Twice(L))} : c.outcome = "pass"
    BY <1>2, PassIs
  <2>2. \A c \in When(odd, "endpoints.known", "warn")
                     \cup When(~conforms, "details.conform", "warn") :
            c.outcome = "warn"
    BY DEF When, Check
  <2>3. When(relative, "endpoints.absolute", "fail") = {}
        /\ When(private, "endpoints.reachable", "fail") = {}
    BY <1>3 DEF When
  <2> QED
    BY <2>1, <2>2, <2>3
<1> HIDE DEF told
<1> QED
  BY <1>4, <1>5 DEF Unblamed

(* A peer without fault lets in nobody, and a page of it is never refused.  *)
LEMMA FaultlessAnswers ==
    ASSUME PeerOK, peer.faults = {}, NEW i \in 1..5, Offers(Pullable[i])
    PROVE  Usable(UrlOf(Pullable[i])) /\ Answers(UrlOf(Pullable[i]))
<1>1. \A f : ~Has(f)
  BY DEF Has
<1>2. Pullable[i] \in ToSet(Pullable)
  BY PullableIs DEF ToSet
<1>3. Pullable[i] \in peer.modules
  BY <1>1, <1>2, OffersIs
<1>4. UrlOf(Pullable[i]) = Url /\ Url = "public"
  BY <1>1, <1>3, UrlOfIs, FaultlessEndpoints
<1> QED
  BY <1>1, <1>4 DEF Usable, Answers

(* Of a peer without fault no token is let in.                              *)
LEMMA FaultlessAuthentication ==
    ASSUME RunInv, peer.faults = {}, CheckAuthentication
    PROVE  Unblamed
<1>1. \A f : ~Has(f)
  BY DEF Has
<1> DEFINE tried == SelectInSeq(Pullable, Offers)
           url == UrlOf(Pullable[tried])
           outcome(lets) == IF ~Usable(url) \/ Has("garbles_refusal") THEN "warn"
                            ELSE IF Has(lets) THEN "fail" ELSE "pass"
           told == IF tried = 0 THEN {Check("auth.unauthenticated", "skipped")}
                   ELSE {Check("auth.empty", outcome("lets_anyone_in")),
                         Check("auth.wrong", outcome("lets_strangers_in"))}
<1>2. report' = report \cup told
  BY DEF CheckAuthentication, Reports
<1>3. \A lets : outcome(lets) # "fail"
  BY <1>1
<1> HIDE DEF outcome, tried
<1>4. \A c \in told : c.outcome # "fail"
  <2>1. \A id, o : Check(id, o).outcome = o
    BY CheckIs
  <2> QED
    BY <1>3, <2>1
<1> HIDE DEF told
<1> QED
  BY <1>2, <1>4 DEF Unblamed

(* A module skipped is no failure.                                          *)
LEMMA FaultlessSkip ==
    ASSUME SkipModule
    PROVE  Unblamed
<1>1. report' = report \cup {Check("module.page", "skipped")}
  BY DEF SkipModule
<1>2. Check("module.page", "skipped").outcome = "skipped"
  BY CheckIs
<1> QED
  BY <1>1, <1>2 DEF Unblamed

(* The first page of a peer without fault passes.                           *)
LEMMA FaultlessPage ==
    ASSUME RunInv, peer.faults = {}, CheckPage
    PROVE  Unblamed
<1>1. \A f : ~Has(f)
  BY DEF Has
<1> DEFINE p == PageOf(0, PageLimit, 0)
           count == Len(p.items)
           limited == count <= PageLimit
           xlimited == count <= p.limit
           linked == (p.total > count) = (p.next # "none")
           conform == ObjectsConform(p.items)
           here == p.next = "here"
           a == IF p.limit = 0 THEN Check("module.xlimit", "warn")
                ELSE Asserted("module.xlimit", xlimited)
           b == IF p.total < 0 THEN Check("module.total", "warn")
                ELSE Asserted("module.link", linked)
           d == Check("module.objects", IF conform THEN "pass" ELSE "warn")
           e == IF p.next = "none" THEN {} ELSE {Asserted("module.link_host", here)}
<1>2. report' = report \cup ({Check("module.page", "pass"), Asserted("module.limit", limited),
                              a, b, d} \cup e)
  BY DEF CheckPage, Reports
<1>3. limited /\ xlimited /\ linked /\ (p.next # "none" => here)
  <2> DEFINE size == Size(PageLimit, 0)
  <2>0. /\ size \in Nat /\ Len(list) \in Nat
        /\ size = IF Has("ignores_limit") THEN Len(list)
                  ELSE IF PageLimit < peer.limit THEN PageLimit ELSE peer.limit
        /\ count = IF size < Len(list) THEN size ELSE Len(list)
        /\ p.limit = (IF Has("no_limit") THEN 0 ELSE peer.limit)
        /\ p.total = (IF Has("no_total") THEN -1 ELSE Len(list))
        /\ (p.next # "none") = ((size < Len(list)) # Has("wrong_link"))
        /\ p.next # "none" => p.next = IF Has("link_away") THEN "elsewhere" ELSE "here"
    BY FirstPageIs
  <2> HIDE DEF size, p
  <2>1. /\ size \in Nat /\ Len(list) \in Nat
        /\ size = IF PageLimit < peer.limit THEN PageLimit ELSE peer.limit
        /\ count = IF size < Len(list) THEN size ELSE Len(list)
        /\ p.limit = peer.limit /\ p.total = Len(list)
        /\ (p.next # "none") = (size < Len(list))
        /\ p.next # "none" => p.next = "here"
    <3>1. (p.next # "none") = (size < Len(list))
      BY <2>0 DEF Has
    <3> QED
      BY <1>1, <2>0, <3>1
  <2>2. PageLimit \in Nat \ {0} /\ peer.limit \in Nat \ {0}
    BY ConformanceAssumption, PeerIs DEF RunInv
  <2> QED
    BY <2>1, <2>2
<1>4. /\ Check("module.page", "pass").outcome = "pass"
      /\ Asserted("module.limit", limited).outcome = "pass"
  <2> HIDE DEF limited
  <2>1. Check("module.page", "pass").outcome = "pass"
    BY CheckIs
  <2>2. Asserted("module.limit", limited).outcome = "pass"
    BY <1>3, PassIs
  <2> QED
    BY <2>1, <2>2
<1>5. a.outcome # "fail" /\ b.outcome # "fail" /\ d.outcome # "fail"
  <2> HIDE DEF xlimited, linked, conform, p
  <2>1. Asserted("module.xlimit", xlimited).outcome = "pass"
        /\ Asserted("module.link", linked).outcome = "pass"
    BY <1>3, PassIs
  <2>2. \A id : Check(id, "warn").outcome = "warn"
    BY CheckIs
  <2>3. d.outcome = IF conform THEN "pass" ELSE "warn"
    BY CheckIs
  <2> QED
    BY <2>1, <2>2, <2>3
<1>6. \A c \in e : c.outcome # "fail"
  <2> HIDE DEF here, p
  <2> QED
    BY <1>3, PassIs
<1> HIDE DEF a, b, d, e, limited
<1> QED
  BY <1>2, <1>4, <1>5, <1>6 DEF Unblamed

(* Its second object is where it was, unless its objects changed.           *)
LEMMA FaultlessOffset ==
    ASSUME RunInv, peer.faults = {}, CheckOffset
    PROVE  Unblamed
<1>1. \A f : ~Has(f)
  BY DEF Has
<1> DEFINE second == PageOf(1, 1, 0)
           outcome == IF Len(first.items) < 2 THEN "skipped" ELSE OffsetOutcome(second)
<1>2. report' = report \cup {Check("module.offset", outcome)}
  BY <1>1 DEF CheckOffset, Reports
<1>3. at = "offset"
  BY DEF CheckOffset
<1>4. CASE shifted
  BY <1>2, <1>4, CheckIs DEF Unblamed
<1>5. CASE ~shifted
  <2> DEFINE p == PageOf(0, PageLimit, 0)
  <2>0. SUFFICES outcome # "fail"
    <3> HIDE DEF outcome
    <3> QED
      BY <1>2, CheckIs DEF Unblamed
  <2>1. first = p /\ first.items \in Seq(Object)
    BY <1>3, <1>5 DEF RunInv
  <2>2. CASE Len(first.items) < 2
    BY <2>2
  <2>3. CASE ~(Len(first.items) < 2)
    <3>1. \A i \in 1..Len(p.items) : i \in 1..Len(list) /\ p.items[i] = list[i]
      BY FirstPageIs
    <3>2. first.items[2] = list[2]
      <4>1. 2 \in 1..Len(first.items)
        BY <2>1, <2>3
      <4> HIDE DEF p
      <4> QED
        BY <2>1, <3>1, <4>1
    <3>3. ListsOK /\ 0 \in Nat /\ 1 \in Nat /\ 1 \in Nat \ {0}
      BY PeerIs DEF RunInv, ListsOK
    <3>4. PageOK(1, 1, 0)
      BY <3>3, PageIs
    <3>5. second.items \in Seq(Object) /\ \A i \in 1..Len(second.items) :
              second.items[i] = Matching(0)[Start(1) + i]
      BY <3>4 DEF PageOK
    <3>6. Matching(0) = list /\ Start(1) = 1
      BY <1>1, <3>3, MatchingIs DEF Start
    <3>7. CASE second.items = <<>>
      <4> HIDE DEF second
      <4> QED
        BY <2>3, <3>7 DEF OffsetOutcome
    <3>8. CASE second.items # <<>>
      <4> HIDE DEF second
      <4>1. 1 \in 1..Len(second.items)
        BY <3>5, <3>8
      <4>2. second.items[1] = list[2]
        BY <3>5, <3>6, <4>1
      <4> QED
        BY <2>3, <3>2, <4>2 DEF OffsetOutcome
    <3> QED
      BY <3>7, <3>8
  <2> QED
    BY <2>2, <2>3
<1> QED
  BY <1>4, <1>5

(* It sends nothing older than asked for.                                   *)
LEMMA FaultlessDates ==
    ASSUME RunInv, peer.faults = {}, CheckDateFrom
    PROVE  Unblamed
<1>1. \A f : ~Has(f)
  BY DEF Has
<1>2. at = "date_from"
  BY DEF CheckDateFrom
<1> DEFINE newest == CHOOSE n \in {o.stamp : o \in ToSet(first.items)} :
                         \A o \in ToSet(first.items) : o.stamp <= n
           after == Since(newest)
           page == PageOf(0, PageLimit, after)
           ok == \A o \in ToSet(page.items) : o.stamp >= after
           told == IF first.items = <<>> \/ Has("no_stamps")
                   THEN Check("module.date_from", "skipped")
                   ELSE Asserted("module.date_from", ok)
<1>3. report' = report \cup {told}
  BY <1>1 DEF CheckDateFrom
<1>4. first.items # <<>> => ok
  <2> SUFFICES ASSUME first.items # <<>> PROVE ok
    OBVIOUS
  <2>1. first.items \in Seq(Object)
    BY <1>2 DEF RunInv
  <2>2. newest \in Nat
    BY <2>1, NewestIs
  <2>3. after \in Nat
    <3> HIDE DEF newest
    <3> QED
      BY <2>2 DEF Since
  <2> HIDE DEF after
  <2>4. ListsOK /\ 0 \in Nat /\ PageLimit \in Nat \ {0}
    BY PeerIs, ConformanceAssumption DEF RunInv, ListsOK
  <2>5. PageOK(0, PageLimit, after)
    BY <2>3, <2>4, PageIs
  <2> DEFINE m == Matching(after)
             s == Start(0)
  <2>6. page.items \in Seq(Object) /\ \A i \in 1..Len(page.items) :
            s + i \in 1..Len(m) /\ page.items[i] = m[s + i]
    BY <2>5 DEF PageOK
  <2>7. m \in Seq(Object) /\ \A i \in DOMAIN m : m[i].stamp >= after
    BY <1>1, <2>3, <2>4, MatchingIs
  <2> HIDE DEF m, s, page
  <2>8. \A i \in 1..Len(page.items) : page.items[i].stamp >= after
    BY <2>6, <2>7
  <2>9. DOMAIN page.items = 1..Len(page.items)
    BY <2>6
  <2> QED
    BY <2>8, <2>9 DEF ToSet
<1> HIDE DEF ok
<1>5. told.outcome # "fail"
  <2>1. ok => Asserted("module.date_from", ok).outcome = "pass"
    BY PassIs
  <2>2. Check("module.date_from", "skipped").outcome = "skipped"
    BY CheckIs
  <2> QED
    BY <1>1, <1>4, <2>1, <2>2
<1> HIDE DEF told
<1> QED
  BY <1>3, <1>5 DEF Unblamed

(* No step blames a peer without fault for anything else.                   *)
LEMMA FaultlessStep ==
    ASSUME RunInv, [Next]_cvars, peer.faults = {}
    PROVE  Unblamed
<1>1. CASE ObjectsChange \/ UNCHANGED cvars
  BY <1>1 DEF ObjectsChange, cvars, Unblamed
<1>2. ~PageFails
  <2> SUFFICES ASSUME PageFails PROVE FALSE
    OBVIOUS
  <2>1. module \in 1..5 /\ Offers(Pullable[module]) /\ ~Answers(UrlOf(Pullable[module])) /\ PeerOK
    BY DEF PageFails, RunInv
  <2> QED
    BY <2>1, FaultlessAnswers
<1>3. CASE CheckVersions
  BY <1>3, FaultlessVersions
<1>4. CASE CheckDetails
  BY <1>4, FaultlessDetails
<1>5. CASE CheckEndpoints
  BY <1>5, FaultlessListing
<1>6. CASE CheckAuthentication
  BY <1>6, FaultlessAuthentication
<1>7. CASE SkipModule
  BY <1>7, FaultlessSkip
<1>8. CASE CheckPage
  BY <1>8, FaultlessPage
<1>9. CASE CheckOffset
  BY <1>9, FaultlessOffset
<1>10. CASE CheckDateFrom
  BY <1>10, FaultlessDates
<1> QED
  BY <1>1, <1>2, <1>3, <1>4, <1>5, <1>6, <1>7, <1>8, <1>9, <1>10 DEF Next

(* "The peer contradicts the specification" is never said of a peer without *)
(* fault, but that its second object moved, when its objects changed        *)
(* between the two requests that compare it.                                *)
THEOREM NobodyIsBlamed == Spec => BlamelessUnlessShifted
<1>1. RunInv /\ [Next]_cvars => [peer.faults = {} => Unblamed]_cvars
  BY FaultlessStep
<1>2. Spec => [][peer.faults = {} => Unblamed]_cvars
  BY <1>1, RunInvariance, PTL DEF Spec
<1> QED
  BY <1>2 DEF BlamelessUnlessShifted, Unblamed

-----------------------------------------------------------------------------
(* A peer with one fault.                                                   *)

VersionFaults == {"unreachable", "versions_status", "no_ids", "clock", "no_versions_data",
                  "no_versions", "alien", "version_twice", "version_url"}
DetailsFaults == {"no_details", "no_details_data", "other_version"}
EndpointFaults == {"no_endpoints", "no_credentials", "endpoint_twice", "unknown_module",
                   "relative_url", "private_url"}
TokenFaults == {"lets_anyone_in", "lets_strangers_in", "garbles_refusal"}
PageFaults == {"page_fails", "ignores_limit", "no_limit", "no_total", "wrong_link", "link_away",
               "bad_object", "no_stamps"}
OffsetFaults == {"ignores_offset", "refuses_offset"}
DateFaults == {"ignores_date_from", "refuses_date_from"}
OtherFaults == OffsetFaults \cup DateFaults

(* These end a run before its first module.                                 *)
Ending == {"unreachable", "no_versions_data", "no_versions", "alien", "version_url",
           "no_details", "no_details_data"}

(* The faults by where they show.                                           *)
LEMMA FaultsAre ==
    DOMAIN NameOf = VersionFaults \cup DetailsFaults \cup EndpointFaults \cup TokenFaults
                      \cup PageFaults \cup OtherFaults
  BY DEF NameOf, VersionFaults, DetailsFaults, EndpointFaults, TokenFaults, PageFaults, OtherFaults,
     OffsetFaults, DateFaults

(* Nine things make a finite set.                                           *)
LEMMA FewAreFinite ==
    ASSUME NEW a, NEW b, NEW c, NEW d, NEW e, NEW f, NEW g, NEW h, NEW i
    PROVE  IsFiniteSet({a, b, c, d, e, f, g, h, i})
<1> DEFINE S == {{a}, {b}, {c}, {d}, {e}, {f}, {g}, {h}, {i}}
<1>1. /\ IsFiniteSet({a}) /\ IsFiniteSet({b}) /\ IsFiniteSet({c}) /\ IsFiniteSet({d})
      /\ IsFiniteSet({e}) /\ IsFiniteSet({f}) /\ IsFiniteSet({g}) /\ IsFiniteSet({h})
      /\ IsFiniteSet({i})
  BY FS_Singleton
<1>2. IsFiniteSet({a} \cup {b}) /\ IsFiniteSet({c} \cup {d}) /\ IsFiniteSet({e} \cup {f})
      /\ IsFiniteSet({g} \cup {h})
  BY <1>1, FS_Union
<1>3. /\ IsFiniteSet(({a} \cup {b}) \cup ({c} \cup {d}))
      /\ IsFiniteSet(({e} \cup {f}) \cup ({g} \cup {h}))
  BY <1>2, FS_Union
<1>4. IsFiniteSet((({a} \cup {b}) \cup ({c} \cup {d})) \cup (({e} \cup {f}) \cup ({g} \cup {h})))
  BY <1>3, FS_Union
<1>5. IsFiniteSet(((({a} \cup {b}) \cup ({c} \cup {d})) \cup (({e} \cup {f}) \cup ({g} \cup {h})))
                    \cup {i})
  BY <1>1, <1>4, FS_Union
<1>6. {a, b, c, d, e, f, g, h, i}
        = ((({a} \cup {b}) \cup ({c} \cup {d})) \cup (({e} \cup {f}) \cup ({g} \cup {h}))) \cup {i}
  OBVIOUS
<1> QED
  BY <1>5, <1>6

(* A peer has finitely many faults.                                         *)
LEMMA FaultsAreFinite ==
    ASSUME PeerOK
    PROVE  IsFiniteSet(peer.faults)
<1>1. /\ IsFiniteSet(VersionFaults)
      /\ IsFiniteSet({"no_details", "no_details_data", "other_version",
                      "no_endpoints", "no_credentials", "endpoint_twice", "unknown_module",
                      "relative_url", "private_url"})
      /\ IsFiniteSet({"lets_anyone_in", "lets_strangers_in", "garbles_refusal", "page_fails",
                      "ignores_limit", "no_limit", "no_total", "wrong_link", "link_away"})
      /\ IsFiniteSet({"bad_object", "no_stamps", "ignores_offset", "ignores_date_from",
                      "refuses_offset", "refuses_date_from", "clock", "clock", "clock"})
  BY FewAreFinite DEF VersionFaults
<1> DEFINE A == VersionFaults
           B == {"no_details", "no_details_data", "other_version",
                 "no_endpoints", "no_credentials", "endpoint_twice", "unknown_module",
                 "relative_url", "private_url"}
           C == {"lets_anyone_in", "lets_strangers_in", "garbles_refusal", "page_fails",
                 "ignores_limit", "no_limit", "no_total", "wrong_link", "link_away"}
           D == {"bad_object", "no_stamps", "ignores_offset", "ignores_date_from",
                 "refuses_offset", "refuses_date_from", "clock", "clock", "clock"}
<1>2. DOMAIN NameOf \subseteq (A \cup B) \cup (C \cup D)
  BY FaultsAre DEF DetailsFaults, EndpointFaults, TokenFaults, PageFaults, OtherFaults,
     OffsetFaults, DateFaults
<1> HIDE DEF B, C, D
<1>3. IsFiniteSet(A) /\ IsFiniteSet(B) /\ IsFiniteSet(C) /\ IsFiniteSet(D)
  BY <1>1 DEF B, C, D
<1>4. IsFiniteSet((A \cup B) \cup (C \cup D))
  <2>1. IsFiniteSet(A \cup B) /\ IsFiniteSet(C \cup D)
    BY <1>3, FS_Union
  <2> QED
    BY <2>1, FS_Union
<1>5. peer.faults \subseteq (A \cup B) \cup (C \cup D)
  BY <1>2, PeerIs
<1> QED
  BY <1>4, <1>5, FS_Subset

(* What every fault is called by.                                           *)
LEMMA NamesAre ==
    /\ NameOf["unreachable"] = "versions.get" /\ NameOf["versions_status"] = "versions.status"
    /\ NameOf["no_ids"] = "headers.request_id" /\ NameOf["clock"] = "headers.timestamp"
    /\ NameOf["no_versions_data"] = "versions.data" /\ NameOf["no_versions"] = "versions.nonempty"
    /\ NameOf["alien"] = "versions.common" /\ NameOf["version_twice"] = "versions.unique"
    /\ NameOf["version_url"] = "versions.url" /\ NameOf["no_details"] = "details.get"
    /\ NameOf["no_details_data"] = "details.data" /\ NameOf["other_version"] = "details.version"
    /\ NameOf["no_endpoints"] = "endpoints.nonempty"
    /\ NameOf["no_credentials"] = "endpoints.credentials"
    /\ NameOf["endpoint_twice"] = "endpoints.unique" /\ NameOf["unknown_module"] = "endpoints.known"
    /\ NameOf["relative_url"] = "endpoints.absolute"
    /\ NameOf["private_url"] = "endpoints.reachable"
    /\ NameOf["lets_anyone_in"] = "auth.empty" /\ NameOf["lets_strangers_in"] = "auth.wrong"
    /\ NameOf["garbles_refusal"] = "auth.empty" /\ NameOf["page_fails"] = "module.page"
    /\ NameOf["ignores_limit"] = "module.limit" /\ NameOf["no_limit"] = "module.xlimit"
    /\ NameOf["no_total"] = "module.total" /\ NameOf["wrong_link"] = "module.link"
    /\ NameOf["link_away"] = "module.link_host" /\ NameOf["bad_object"] = "module.objects"
    /\ NameOf["no_stamps"] = "module.objects" /\ NameOf["ignores_offset"] = "module.offset"
    /\ NameOf["refuses_offset"] = "module.offset"
    /\ NameOf["ignores_date_from"] = "module.date_from"
    /\ NameOf["refuses_date_from"] = "module.date_from"
  BY DEF NameOf

(* What a fault needs in order to show.                                     *)
LEMMA ShowsIs ==
    ASSUME NEW f, Shows(f)
    PROVE  /\ f \in TokenFaults \cup PageFaults \cup OtherFaults => peer.modules # {}
           /\ f \in NeedsObjects => list # <<>>
           /\ f = "ignores_limit" => Len(list) > PageLimit
           /\ f = "link_away" => Len(list) > PageLimit \/ Len(list) > peer.limit
           /\ f \in OffsetFaults => Len(list) > 1 /\ PageLimit > 1 /\ peer.limit > 1
           /\ f = "unknown_module" => peer.version # "2.3.0"
           /\ peer.version = "2.1.1" => f \in NeedsNoDetails
  BY DEF Shows, NeedsModule, NeedsObjects, TokenFaults, PageFaults, OtherFaults, OffsetFaults,
     DateFaults

(* A check that fails or warns is told of.                                  *)
LEMMA ToldIs ==
    ASSUME NEW id, Check(id, "fail") \in report' \/ Check(id, "warn") \in report'
    PROVE  Reported(id)'
  BY DEF Reported, Check

(* What is not so is reported as failed.                                    *)
LEMMA FailureIs ==
    ASSUME NEW id, NEW ok, ~ok, Asserted(id, ok) \in report'
    PROVE  Reported(id)'
<1>1. Asserted(id, ok) = Check(id, "fail")
  BY DEF Asserted
<1> QED
  BY <1>1, ToldIs

(* What was reported stays so.                                              *)
LEMMA StillReported ==
    ASSUME [Next]_cvars, NEW id, Reported(id)
    PROVE  Reported(id)'
<1>1. report \subseteq report'
  BY DEF Next, cvars, ObjectsChange, CheckVersions, CheckDetails, CheckEndpoints,
     CheckAuthentication, SkipModule, PageFails, CheckPage, CheckOffset, CheckDateFrom, Reports
<1> QED
  BY <1>1 DEF Reported, Check

Only(f) == peer.faults = {f}

(* A peer with one fault has no other.                                      *)
LEMMA OnlyIs ==
    ASSUME NEW f, Only(f)
    PROVE  Has(f) /\ \A g : g # f => ~Has(g)
  BY DEF Only, Has

(* A fault of GET /versions is reported at once.                            *)
LEMMA VersionsFound ==
    ASSUME RunInv, CheckVersions, NEW f \in VersionFaults, Only(f)
    PROVE  Reported(NameOf[f])'
<1>0. PeerOK
  BY DEF RunInv
<1> DEFINE V == VersionsListed
           unique == \A i, j \in DOMAIN V : V[i].version = V[j].version => i = j
<1>1. /\ Has("unreachable") => Check("versions.get", "fail") \in report'
      /\ ~Has("unreachable") =>
           /\ Asserted("headers.request_id", ~Has("no_ids")) \in report'
           /\ Asserted("versions.status", ~Has("versions_status")) \in report'
           /\ Asserted("headers.timestamp", ~Has("clock")) \in report'
      /\ ~Has("unreachable") /\ Has("no_versions_data") =>
           Check("versions.data", "fail") \in report'
      /\ ~Has("unreachable") /\ ~Has("no_versions_data") =>
           /\ Asserted("versions.nonempty", V # <<>>) \in report'
           /\ Asserted("versions.unique", unique) \in report'
           /\ (\E v \in ToSet(V) : ~Usable(v.url)) => Check("versions.url", "fail") \in report'
           /\ Asserted("versions.common", Common # {}) \in report'
  BY VersionsTold
<1>2. Has(f) /\ \A g : g # f => ~Has(g)
  BY OnlyIs
<1>3. CASE f = "unreachable"
  BY <1>1, <1>2, <1>3, ToldIs, NamesAre
<1>4. CASE f = "versions_status"
  BY <1>1, <1>2, <1>4, FailureIs, NamesAre
<1>5. CASE f = "no_ids"
  BY <1>1, <1>2, <1>5, FailureIs, NamesAre
<1>6. CASE f = "clock"
  BY <1>1, <1>2, <1>6, FailureIs, NamesAre
<1>7. CASE f = "no_versions_data"
  BY <1>1, <1>2, <1>7, ToldIs, NamesAre
<1>8. CASE f = "no_versions"
  <2>1. V = <<>>
    BY <1>0, <1>2, <1>8, VersionsAre
  <2>2. Asserted("versions.nonempty", V # <<>>) \in report'
    BY <1>1, <1>2, <1>8
  <2> HIDE DEF V
  <2> QED
    BY <1>8, <2>1, <2>2, FailureIs, NamesAre
<1>9. CASE f = "alien"
  <2>1. Common = {}
    BY <1>0, <1>2, <1>9, VersionsAre
  <2>2. Asserted("versions.common", Common # {}) \in report'
    BY <1>1, <1>2, <1>9
  <2> QED
    BY <1>9, <2>1, <2>2, FailureIs, NamesAre
<1>10. CASE f = "version_twice"
  <2>1. 1 \in DOMAIN V /\ 2 \in DOMAIN V /\ V[1].version = V[2].version
    BY <1>0, <1>2, <1>10, VersionsAre
  <2>2. Asserted("versions.unique", unique) \in report'
    BY <1>1, <1>2, <1>10
  <2>3. ~unique
    <3> HIDE DEF V
    <3> QED
      BY <2>1
  <2> HIDE DEF unique
  <2> QED
    BY <1>10, <2>2, <2>3, FailureIs, NamesAre
<1>11. CASE f = "version_url"
  <2>1. V # <<>> /\ Common # {}
    BY <1>0, <1>2, <1>11, VersionsAre
  <2>2. PICK v \in ToSet(V) : TRUE
    BY <2>1 DEF Common
  <2>3. v.url = "private"
    BY <1>0, <1>2, <1>11, VersionsAre
  <2>4. Check("versions.url", "fail") \in report'
    BY <1>1, <1>2, <1>11, <2>2, <2>3 DEF Usable
  <2> QED
    BY <1>11, <2>4, ToldIs, NamesAre
<1> QED
  BY <1>3, <1>4, <1>5, <1>6, <1>7, <1>8, <1>9, <1>10, <1>11 DEF VersionFaults

(* Whoever does not end the run is asked for the details of its version.    *)
LEMMA VersionsPassed ==
    ASSUME RunInv, CheckVersions, NEW f, f \notin Ending, Only(f)
    PROVE  at' = "details"
<1>1. ~Has("unreachable") /\ ~Has("no_versions_data") /\ ~Has("no_versions") /\ ~Has("alien")
  BY OnlyIs DEF Ending
<1>2. Common # {}
  BY <1>1, VersionsAre DEF RunInv
<1> QED
  BY <1>1, <1>2, VersionsTold

(* The details of a peer are read, unless all that can show in it showed    *)
(* before them.                                                             *)
LEMMA DetailsAreRead ==
    ASSUME NEW f, Shows(f), Only(f), f \notin VersionFaults \cup {"no_details", "no_details_data"}
    PROVE  DetailsDecode
<1>1. CASE peer.version = "2.1.1"
  <2>1. f \in NeedsNoDetails
    BY <1>1, ShowsIs
  <2>2. f = "no_endpoints"
    BY <2>1 DEF NeedsNoDetails, VersionFaults
  <2>3. Has("no_endpoints")
    BY <2>2, OnlyIs
  <2> QED
    BY <2>3 DEF DetailsDecode, EndpointsListed
<1>2. CASE peer.version # "2.1.1"
  BY <1>2 DEF DetailsDecode
<1> QED
  BY <1>1, <1>2

(* A fault of the version details is reported when they are read.           *)
LEMMA DetailsFound ==
    ASSUME RunInv, CheckDetails, NEW f \in DetailsFaults, Only(f), Shows(f)
    PROVE  Reported(NameOf[f])'
<1>1. Has(f) /\ \A g : g # f => ~Has(g)
  BY OnlyIs
<1>2. Best(VersionsListed) = Entry(peer.version)
  BY <1>1, VersionsAre DEF RunInv, DetailsFaults
<1>3. Usable(Best(VersionsListed).url)
  BY <1>1, <1>2, EntryIs DEF Usable, DetailsFaults
<1>4. CASE f = "no_details"
  BY <1>1, <1>4, DetailsTold, ToldIs, NamesAre
<1>5. CASE f = "no_details_data"
  BY <1>1, <1>3, <1>5, DetailsTold, ToldIs, NamesAre
<1>6. CASE f = "other_version"
  <2>1. DetailsDecode
    BY <1>6, DetailsAreRead DEF VersionFaults
  <2> QED
    BY <1>1, <1>3, <1>6, <2>1, DetailsTold, FailureIs, NamesAre
<1> QED
  BY <1>4, <1>5, <1>6 DEF DetailsFaults

(* Whoever does not end the run is asked for its endpoints.                 *)
LEMMA DetailsPassed ==
    ASSUME RunInv, CheckDetails, NEW f, f \notin Ending \cup VersionFaults, Only(f), Shows(f)
    PROVE  at' = "endpoints"
<1>1. /\ ~Has("no_versions") /\ ~Has("alien") /\ ~Has("version_url") /\ ~Has("no_details")
      /\ ~Has("no_details_data")
  BY OnlyIs DEF Ending
<1>2. Best(VersionsListed) = Entry(peer.version)
  BY <1>1, VersionsAre DEF RunInv
<1>3. Usable(Best(VersionsListed).url)
  BY <1>1, <1>2, EntryIs DEF Usable
<1>4. DetailsDecode
  BY DetailsAreRead DEF Ending
<1> QED
  BY <1>1, <1>3, <1>4, DetailsTold

(* An endpoint listed twice is found so.                                    *)
LEMMA ListedTwice ==
    ASSUME PeerOK, Has("endpoint_twice"), \A g : g # "endpoint_twice" => ~Has(g)
    PROVE  Twice(EndpointsListed)
<1> DEFINE c == Endpoint("credentials", "SENDER")
           k == Endpoint("commands", "RECEIVER")
           X == HeadingSet \cup Senders
           q == SetToSeq(Senders)
           s == <<c>> \o <<k>>
           h == s \o <<k>>
           L == EndpointsListed
<1>1. c \in X /\ k \in X
  BY DEF HeadingSet
<1>2. q \in Seq(Senders)
  BY SendersAreFinite, SetToSeqIs
<1>3. L = Heading \o q
  BY ListedIs
<1>4. Heading = h
  <2>1. Heading = <<c>> \o <<k>> \o <<>> \o <<k>>
    BY DEF Heading
  <2> HIDE DEF c, k
  <2>2. s \o <<>> = s
    OBVIOUS
  <2> QED
    BY <2>1, <2>2
<1> HIDE DEF c, k, X, q, L
<1>5. Len(s) = 2 /\ s[2] = k /\ s \in Seq({c, k})
  OBVIOUS
<1> HIDE DEF s
<1>6. Len(h) = 3 /\ h[2] = k /\ h[3] = k /\ h \in Seq({c, k})
  <2> DEFINE t == <<k>>
  <2>1. t \in Seq({c, k}) /\ Len(t) = 1 /\ t[1] = k
    OBVIOUS
  <2>2. h = s \o t
    OBVIOUS
  <2> HIDE DEF h, t
  <2>3. /\ h \in Seq({c, k}) /\ Len(h) = Len(s) + Len(t)
        /\ \A i \in 1..(Len(s) + Len(t)) : h[i] = IF i <= Len(s) THEN s[i] ELSE t[i - Len(s)]
    BY <1>5, <2>1, <2>2, ConcatProperties
  <2>4. Len(h) = 3 /\ 2 \in 1..3 /\ 3 \in 1..3
    BY <1>5, <2>1, <2>3
  <2>5. h[2] = s[2]
    BY <1>5, <2>1, <2>3, <2>4
  <2>6. h[3] = t[1]
    BY <1>5, <2>1, <2>3, <2>4
  <2> QED
    BY <1>5, <2>1, <2>3, <2>4, <2>5, <2>6
<1> HIDE DEF h
<1>7. h \in Seq(X) /\ q \in Seq(X)
  <2>1. Senders \subseteq X
    BY DEF X
  <2> QED
    BY <1>1, <1>2, <1>6, <2>1
<1>8. Len(q) \in Nat /\ DOMAIN L = 1..(3 + Len(q)) /\ L[2] = k /\ L[3] = k
  <2>1. L = h \o q
    BY <1>3, <1>4
  <2>2. /\ L \in Seq(X) /\ Len(L) = Len(h) + Len(q) /\ Len(q) \in Nat
        /\ \A i \in 1..(Len(h) + Len(q)) : L[i] = IF i <= Len(h) THEN h[i] ELSE q[i - Len(h)]
    BY <1>7, <2>1, ConcatProperties
  <2>3. 2 \in 1..(Len(h) + Len(q)) /\ 3 \in 1..(Len(h) + Len(q))
    BY <1>6, <2>2
  <2>4. L[2] = h[2] /\ L[3] = h[3]
    BY <1>6, <2>2, <2>3
  <2> QED
    BY <1>6, <2>2, <2>4
<1>9. 2 \in DOMAIN L /\ 3 \in DOMAIN L
  BY <1>8
<1> QED
  BY <1>8, <1>9 DEF Twice, L

(* A fault of the list of endpoints is reported when it is read.            *)
LEMMA EndpointsFound ==
    ASSUME RunInv, CheckEndpoints, NEW f \in EndpointFaults, Only(f), Shows(f)
    PROVE  Reported(NameOf[f])'
<1>0. PeerOK
  BY DEF RunInv
<1>1. Has(f) /\ \A g : g # f => ~Has(g)
  BY OnlyIs
<1> DEFINE L == EndpointsListed
           version == Best(VersionsListed).version
<1>2. version = peer.version
  <2>1. Best(VersionsListed) = Entry(peer.version)
    BY <1>0, <1>1, VersionsAre DEF EndpointFaults
  <2> QED
    BY <2>1, EntryIs
<1>3. /\ Asserted("endpoints.nonempty", L # <<>>) \in report'
      /\ Asserted("endpoints.credentials", Offers("credentials")) \in report'
      /\ Asserted("endpoints.unique", ~Twice(L)) \in report'
      /\ (\E e \in ToSet(L) : ~ExistsIn(e.identifier, version)) =>
             Check("endpoints.known", "warn") \in report'
      /\ (\E e \in ToSet(L) : ~Absolute(e.url)) => Check("endpoints.absolute", "fail") \in report'
      /\ (\E e \in ToSet(L) : ~Usable(e.url)) => Check("endpoints.reachable", "fail") \in report'
  BY EndpointsTold
<1>4. \A i, r : Endpoint(i, r).identifier = i
  BY EndpointIs
<1>5. f # "no_endpoints" =>
        ToSet(L) = HeadingSet \cup Senders /\ Endpoint("commands", "RECEIVER") \in ToSet(L)
  BY <1>0, <1>1, ListedIs DEF HeadingSet
<1>6. \A e \in ToSet(L) : e.url = Url
  BY <1>0, AllHaveTheUrl
<1>7. CASE f = "no_endpoints"
  <2>1. L = <<>>
    BY <1>1, <1>7 DEF EndpointsListed
  <2> HIDE DEF L
  <2> QED
    BY <1>3, <1>7, <2>1, FailureIs, NamesAre
<1>8. CASE f = "no_credentials"
  <2>1. ~Offers("credentials")
    <3>1. \A e \in HeadingSet : e.identifier # "credentials"
      BY <1>1, <1>4, <1>8 DEF HeadingSet
    <3>2. \A e \in Senders : e.identifier # "credentials"
      BY <1>0, <1>4, PeerIs, PullableIs DEF Senders
    <3> QED
      BY <1>0, <1>5, <1>8, <3>1, <3>2, OffersIs
  <2> QED
    BY <1>3, <1>8, <2>1, FailureIs, NamesAre
<1>9. CASE f = "endpoint_twice"
  <2>1. Twice(L)
    BY <1>0, <1>1, <1>9, ListedTwice
  <2> QED
    BY <1>3, <1>9, <2>1, FailureIs, NamesAre
<1>10. CASE f = "unknown_module"
  <2>1. Endpoint("payments", "SENDER") \in ToSet(L)
    BY <1>1, <1>5, <1>10 DEF HeadingSet
  <2>2. ~ExistsIn("payments", version)
    BY <1>2, <1>10, ShowsIs DEF ExistsIn
  <2>3. Check("endpoints.known", "warn") \in report'
    BY <1>3, <1>4, <2>1, <2>2
  <2> QED
    BY <1>10, <2>3, ToldIs, NamesAre
<1>11. CASE f = "relative_url"
  <2>1. Url = "relative"
    BY <1>1, <1>11 DEF Url
  <2>2. Check("endpoints.absolute", "fail") \in report'
    BY <1>3, <1>5, <1>6, <1>11, <2>1 DEF Absolute
  <2> QED
    BY <1>11, <2>2, ToldIs, NamesAre
<1>12. CASE f = "private_url"
  <2>1. Url = "private"
    BY <1>1, <1>12 DEF Url
  <2>2. Check("endpoints.reachable", "fail") \in report'
    BY <1>3, <1>5, <1>6, <1>12, <2>1 DEF Usable
  <2> QED
    BY <1>12, <2>2, ToldIs, NamesAre
<1> QED
  BY <1>7, <1>8, <1>9, <1>10, <1>11, <1>12 DEF EndpointFaults

(* A fault in a module shows at a Sender interface, which is reached.       *)
LEMMA SenderIs ==
    ASSUME PeerOK, NEW f \in TokenFaults \cup PageFaults \cup OtherFaults, Only(f)
    PROVE  /\ \A i \in 1..5 : Offers(Pullable[i]) <=> Pullable[i] \in peer.modules
           /\ \A m \in peer.modules : UrlOf(m) = "public"
           /\ peer.modules # {} => \E i \in 1..5 : Pullable[i] \in peer.modules
<1>1. /\ ~Has("no_endpoints") /\ ~Has("relative_url") /\ ~Has("private_url")
  BY OnlyIs DEF TokenFaults, PageFaults, OtherFaults, OffsetFaults, DateFaults
<1>2. \A i \in 1..5 : Pullable[i] \in ToSet(Pullable)
  BY PullableIs DEF ToSet
<1>3. \A i \in 1..5 : Offers(Pullable[i]) <=> Pullable[i] \in peer.modules
  BY <1>1, <1>2, OffersIs
<1>4. \A m \in peer.modules : UrlOf(m) = "public"
  BY <1>1, UrlOfIs DEF Url
<1>5. \A m \in peer.modules : \E i \in 1..5 : m = Pullable[i]
  BY PeerIs, PullableIs DEF ToSet
<1> QED
  BY <1>3, <1>4, <1>5

(* Letting in a wrong token is reported when it is tried.                   *)
LEMMA TokensFound ==
    ASSUME RunInv, CheckAuthentication, NEW f \in TokenFaults, Only(f), peer.modules # {}
    PROVE  Reported(NameOf[f])'
<1>0. PeerOK
  BY DEF RunInv
<1>1. Has(f) /\ \A g : g # f => ~Has(g)
  BY OnlyIs
<1> DEFINE tried == SelectInSeq(Pullable, Offers)
           url == UrlOf(Pullable[tried])
           outcome(lets) == IF ~Usable(url) \/ Has("garbles_refusal") THEN "warn"
                            ELSE IF Has(lets) THEN "fail" ELSE "pass"
<1>2. \E i \in 1..5 : Offers(Pullable[i])
  BY <1>0, SenderIs
<1>3. tried # 0 /\ tried \in 1..5 /\ Offers(Pullable[tried])
  BY <1>0, <1>2, TriedIs
<1>4. /\ Check("auth.empty", outcome("lets_anyone_in")) \in report'
      /\ Check("auth.wrong", outcome("lets_strangers_in")) \in report'
  BY <1>3, AuthenticationTold
<1>5. Usable(url)
  <2> HIDE DEF tried
  <2> QED
    BY <1>0, <1>3, SenderIs DEF Usable
<1> HIDE DEF url
<1>6. CASE f = "lets_anyone_in"
  <2>1. outcome("lets_anyone_in") = "fail"
    BY <1>1, <1>5, <1>6
  <2> QED
    BY <1>4, <1>6, <2>1, ToldIs, NamesAre
<1>7. CASE f = "lets_strangers_in"
  <2>1. outcome("lets_strangers_in") = "fail"
    BY <1>1, <1>5, <1>7
  <2> QED
    BY <1>4, <1>7, <2>1, ToldIs, NamesAre
<1>8. CASE f = "garbles_refusal"
  <2>1. outcome("lets_anyone_in") = "warn"
    BY <1>1, <1>8
  <2> QED
    BY <1>4, <1>8, <2>1, ToldIs, NamesAre
<1> QED
  BY <1>6, <1>7, <1>8 DEF TokenFaults

(* A fault of a page is reported at the first module there is.              *)
LEMMA PageFound ==
    ASSUME RunInv, CheckPage, NEW f \in PageFaults, Only(f), Shows(f)
    PROVE  Reported(NameOf[f])'
<1>0. PeerOK /\ PageLimit \in Nat \ {0} /\ peer.limit \in Nat \ {0}
  BY ConformanceAssumption, PeerIs DEF RunInv
<1>1. Has(f) /\ \A g : g # f => ~Has(g)
  BY OnlyIs
<1> DEFINE p == PageOf(0, PageLimit, 0)
           count == Len(p.items)
           size == Size(PageLimit, 0)
           L == Len(list)
           limited == count <= PageLimit
           linked == (p.total > count) = (p.next # "none")
           here == p.next = "here"
<1>2. /\ Asserted("module.limit", limited) \in report'
      /\ p.limit = 0 => Check("module.xlimit", "warn") \in report'
      /\ p.total < 0 => Check("module.total", "warn") \in report'
      /\ ~(p.total < 0) => Asserted("module.link", linked) \in report'
      /\ ~ObjectsConform(p.items) => Check("module.objects", "warn") \in report'
      /\ p.next # "none" => Asserted("module.link_host", here) \in report'
  <2>1. /\ Asserted("module.limit", limited) \in report'
        /\ (IF p.limit = 0 THEN Check("module.xlimit", "warn")
            ELSE Asserted("module.xlimit", count <= p.limit)) \in report'
        /\ (IF p.total < 0 THEN Check("module.total", "warn")
            ELSE Asserted("module.link", linked)) \in report'
        /\ Check("module.objects", IF ObjectsConform(p.items) THEN "pass" ELSE "warn") \in report'
        /\ p.next # "none" => Asserted("module.link_host", here) \in report'
    BY PageTold
  <2> HIDE DEF p, limited, linked, here
  <2> QED
    BY <2>1
<1>3. /\ p.items \in Seq(Object) /\ size \in Nat /\ L \in Nat
      /\ size = IF Has("ignores_limit") THEN L
                ELSE IF PageLimit < peer.limit THEN PageLimit ELSE peer.limit
      /\ count = IF size < L THEN size ELSE L
      /\ p.limit = (IF Has("no_limit") THEN 0 ELSE peer.limit)
      /\ p.total = (IF Has("no_total") THEN -1 ELSE L)
      /\ (p.next # "none") = ((size < L) # Has("wrong_link"))
      /\ p.next # "none" => p.next = IF Has("link_away") THEN "elsewhere" ELSE "here"
  BY FirstPageIs
<1> HIDE DEF size
<1>4. CASE f = "page_fails"
  BY <1>1, <1>4 DEF CheckPage, Answers
<1>5. CASE f = "ignores_limit"
  <2>1. L > PageLimit
    BY <1>5, ShowsIs
  <2>2. ~limited
    <3> HIDE DEF p, L
    <3> QED
      BY <1>0, <1>1, <1>3, <1>5, <2>1
  <2> HIDE DEF limited
  <2> QED
    BY <1>2, <1>5, <2>2, FailureIs, NamesAre
<1>6. CASE f = "no_limit"
  BY <1>1, <1>2, <1>3, <1>6, ToldIs, NamesAre
<1>7. CASE f = "no_total"
  BY <1>1, <1>2, <1>3, <1>7, ToldIs, NamesAre
<1>8. CASE f = "wrong_link"
  <2>1. p.total = L /\ (p.next # "none") = ~(size < L)
    <3>1. (p.next # "none") = ~(size < L)
      BY <1>1, <1>3, <1>8 DEF Has
    <3> QED
      BY <1>1, <1>3, <1>8, <3>1
  <2>2. ~(p.total < 0) /\ ~linked
    <3> HIDE DEF p, L
    <3> QED
      BY <1>3, <2>1
  <2> HIDE DEF linked
  <2> QED
    BY <1>2, <1>8, <2>2, FailureIs, NamesAre
<1>9. CASE f = "link_away"
  <2>1. L > PageLimit \/ L > peer.limit
    BY <1>9, ShowsIs
  <2>2. size < L
    <3> HIDE DEF p, L
    <3> QED
      BY <1>0, <1>1, <1>3, <1>9, <2>1
  <2>3. p.next # "none"
    <3> HIDE DEF p, L
    <3> QED
      BY <1>1, <1>3, <1>9, <2>2 DEF Has
  <2>4. ~here
    BY <1>1, <1>3, <1>9, <2>3
  <2> HIDE DEF here
  <2> QED
    BY <1>2, <1>9, <2>3, <2>4, FailureIs, NamesAre
<1>10. CASE f \in {"bad_object", "no_stamps"}
  <2>1. list # <<>>
    BY <1>10, ShowsIs DEF NeedsObjects
  <2>2. L # 0
    BY <2>1 DEF RunInv
  <2>3. p.items # <<>>
    <3>1. count # 0
      <4> HIDE DEF p, L
      <4> QED
        BY <1>0, <1>1, <1>3, <1>10, <2>2
    <3> HIDE DEF p
    <3> QED
      BY <3>1
  <2>4. ~ObjectsConform(p.items)
    <3> HIDE DEF p
    <3> QED
      BY <1>1, <1>10, <2>3 DEF ObjectsConform
  <2> QED
    BY <1>2, <1>10, <2>4, ToldIs, NamesAre
<1> QED
  BY <1>4, <1>5, <1>6, <1>7, <1>8, <1>9, <1>10 DEF PageFaults

(* The first of the peer's objects is not its second.                       *)
LEMMA OffsetFound ==
    ASSUME RunInv, CheckOffset, ~shifted, list \in Lists, NEW f \in OffsetFaults, Only(f), Shows(f)
    PROVE  Reported(NameOf[f])'
<1>1. Has(f) /\ \A g : g # f => ~Has(g)
  BY OnlyIs
<1>2. Len(list) > 1 /\ PageLimit > 1 /\ peer.limit > 1
  BY ShowsIs
<1>3. /\ ListsOK /\ 0 \in Nat /\ 1 \in Nat /\ 1 \in Nat \ {0}
      /\ PageLimit \in Nat /\ peer.limit \in Nat
  BY PeerIs, ConformanceAssumption DEF RunInv, ListsOK
<1> DEFINE p == PageOf(0, PageLimit, 0)
           second == PageOf(1, 1, 0)
           outcome == IF Len(first.items) < 2 THEN "skipped"
                      ELSE IF Has("refuses_offset") THEN "fail" ELSE OffsetOutcome(second)
<1>4. Check("module.offset", outcome) \in report'
  BY DEF CheckOffset, Reports
<1>5. first = p
  BY DEF RunInv, CheckOffset
<1>6. p.items \in Seq(Object) /\ Len(p.items) >= 2 /\ p.items[2] = list[2]
  <2> DEFINE size == Size(PageLimit, 0)
  <2>1. /\ p.items \in Seq(Object) /\ size \in Nat /\ Len(list) \in Nat
        /\ size = IF Has("ignores_limit") THEN Len(list)
                  ELSE IF PageLimit < peer.limit THEN PageLimit ELSE peer.limit
        /\ Len(p.items) = IF size < Len(list) THEN size ELSE Len(list)
        /\ \A i \in 1..Len(p.items) : i \in 1..Len(list) /\ p.items[i] = list[i]
    BY FirstPageIs
  <2> HIDE DEF p, size
  <2>2. Len(p.items) >= 2
    BY <1>1, <1>2, <1>3, <2>1 DEF OffsetFaults
  <2> QED
    BY <2>1, <2>2
<1>7. f = "ignores_offset" =>
          second.items \in Seq(Object) /\ second.items # <<>> /\ second.items[1] = list[1]
  <2> SUFFICES ASSUME f = "ignores_offset"
               PROVE  second.items \in Seq(Object) /\ second.items # <<>>
                        /\ second.items[1] = list[1]
    OBVIOUS
  <2>1. PageOK(1, 1, 0)
    BY <1>3, PageIs
  <2> DEFINE m == Matching(0)
             s == Start(1)
             z == Size(1, 0)
  <2>2. /\ second.items \in Seq(Object)
        /\ Len(second.items) = IF s + z < Len(m) THEN z ELSE IF s < Len(m) THEN Len(m) - s ELSE 0
        /\ \A i \in 1..Len(second.items) : s + i \in 1..Len(m) /\ second.items[i] = m[s + i]
    BY <2>1 DEF PageOK
  <2>3. m = list /\ s = 0 /\ z = 1
    <3>1. m = list /\ s = 0
      BY <1>1, <1>3, MatchingIs DEF Start
    <3>2. z = 1
      BY <1>1, <1>2, <1>3 DEF Size
    <3> QED
      BY <3>1, <3>2
  <2> HIDE DEF m, s, z, second
  <2>4. Len(second.items) = 1
    BY <1>2, <1>3, <2>2, <2>3 DEF ListsOK
  <2>5. 1 \in 1..Len(second.items) /\ 0 + 1 = 1
    BY <2>4
  <2> QED
    BY <2>2, <2>3, <2>4, <2>5
<1>8. list[1] # list[2]
  <2>1. \A i, j \in DOMAIN list : list[i].id = list[j].id => i = j
    BY ConformanceAssumption
  <2>2. 1 \in DOMAIN list /\ 2 \in DOMAIN list
    BY <1>2, <1>3 DEF ListsOK
  <2> QED
    BY <2>1, <2>2
<1>9. outcome = "fail"
  <2>1. ~(Len(first.items) < 2) /\ first.items[2] = list[2]
    <3> HIDE DEF p
    <3> QED
      BY <1>5, <1>6
  <2> HIDE DEF second
  <2>2. CASE f = "ignores_offset"
    BY <1>7, <1>8, <2>1, <2>2 DEF OffsetOutcome
  <2>3. CASE f = "refuses_offset"
    BY <1>1, <2>1, <2>3
  <2> QED
    BY <2>2, <2>3 DEF OffsetFaults
<1> HIDE DEF outcome
<1> QED
  BY <1>4, <1>9, ToldIs, NamesAre DEF OffsetFaults

(* Everything is sent, the first object too, which is not new enough.       *)
LEMMA DatesFound ==
    ASSUME RunInv, CheckDateFrom, ~shifted, NEW f \in DateFaults, Only(f), Shows(f)
    PROVE  Reported(NameOf[f])'
<1>1. Has(f) /\ \A g : g # f => ~Has(g)
  BY OnlyIs
<1>2. list # <<>> /\ Len(list) \in Nat /\ Len(list) # 0
  BY ShowsIs DEF NeedsObjects, RunInv, DateFaults
<1>3. ListsOK /\ 0 \in Nat /\ PageLimit \in Nat \ {0} /\ peer.limit \in Nat \ {0}
  BY PeerIs, ConformanceAssumption DEF RunInv, ListsOK
<1> DEFINE p == PageOf(0, PageLimit, 0)
           newest == CHOOSE n \in {o.stamp : o \in ToSet(first.items)} :
                         \A o \in ToSet(first.items) : o.stamp <= n
           after == Since(newest)
           page == PageOf(0, PageLimit, after)
           stays == \A o \in ToSet(page.items) : o.stamp >= after
           ok == ~Has("refuses_date_from") /\ stays
<1>4. first = p
  BY DEF RunInv, CheckDateFrom
<1>5. p.items \in Seq(Object) /\ Len(p.items) # 0 /\ p.items[1] = list[1]
  <2> DEFINE size == Size(PageLimit, 0)
  <2>1. /\ p.items \in Seq(Object) /\ size \in Nat
        /\ size = IF Has("ignores_limit") THEN Len(list)
                  ELSE IF PageLimit < peer.limit THEN PageLimit ELSE peer.limit
        /\ Len(p.items) = IF size < Len(list) THEN size ELSE Len(list)
        /\ \A i \in 1..Len(p.items) : i \in 1..Len(list) /\ p.items[i] = list[i]
    BY FirstPageIs
  <2> HIDE DEF p, size
  <2>2. Len(p.items) # 0
    BY <1>1, <1>2, <1>3, <2>1 DEF DateFaults
  <2> QED
    BY <2>1, <2>2
<1>6. first.items # <<>> /\ first.items \in Seq(Object) /\ list[1] \in ToSet(first.items)
  <2> HIDE DEF p
  <2>1. p.items # <<>> /\ 1 \in DOMAIN p.items
    BY <1>5
  <2>2. p.items[1] \in ToSet(p.items)
    BY <2>1 DEF ToSet
  <2> QED
    BY <1>4, <1>5, <2>1, <2>2
<1>7. newest \in Nat /\ \A o \in ToSet(first.items) : o.stamp <= newest
  BY <1>6, NewestIs
<1>8. Asserted("module.date_from", ok) \in report'
  BY <1>1, <1>6 DEF CheckDateFrom, DateFaults
<1>9. after \in Nat /\ after = newest + 1
  <2> HIDE DEF newest
  <2> QED
    BY <1>7 DEF Since
<1> HIDE DEF newest, after
<1>10. f = "ignores_date_from" => page.items \in Seq(Object) /\ list[1] \in ToSet(page.items)
  <2> SUFFICES ASSUME f = "ignores_date_from"
               PROVE  page.items \in Seq(Object) /\ list[1] \in ToSet(page.items)
    OBVIOUS
  <2>1. PageOK(0, PageLimit, after)
    BY <1>3, <1>9, PageIs
  <2> DEFINE m == Matching(after)
             s == Start(0)
             z == Size(PageLimit, after)
  <2>2. /\ page.items \in Seq(Object)
        /\ Len(page.items) = IF s + z < Len(m) THEN z ELSE IF s < Len(m) THEN Len(m) - s ELSE 0
        /\ \A i \in 1..Len(page.items) : s + i \in 1..Len(m) /\ page.items[i] = m[s + i]
    BY <2>1 DEF PageOK
  <2>3. m = list /\ s = 0 /\ z \in Nat /\ z # 0
    <3>1. m = list /\ s = 0
      BY <1>1 DEF Start, Matching
    <3>2. z \in Nat /\ z # 0
      BY <1>1, <1>3 DEF Size
    <3> QED
      BY <3>1, <3>2
  <2> HIDE DEF m, s, z, page
  <2>4. Len(page.items) # 0 /\ 1 \in 1..Len(page.items) /\ 0 + 1 = 1
    BY <1>2, <2>2, <2>3
  <2>5. page.items[1] = list[1] /\ 1 \in DOMAIN page.items
    BY <2>2, <2>3, <2>4
  <2> QED
    BY <2>2, <2>5 DEF ToSet
<1> HIDE DEF page
<1>11. f = "ignores_date_from" => ~stays
  <2>1. list[1].stamp \in Nat /\ list[1].stamp <= newest
    <3>1. list[1] \in Object
      BY <1>2, <1>3 DEF ListsOK
    <3> QED
      BY <1>6, <1>7, <3>1 DEF Object
  <2>2. ~(list[1].stamp >= after)
    BY <1>7, <1>9, <2>1
  <2> QED
    BY <1>10, <2>2
<1>12. ~ok
  <2> HIDE DEF stays
  <2> QED
    BY <1>1, <1>11 DEF DateFaults
<1> HIDE DEF ok
<1> QED
  BY <1>8, <1>12, FailureIs, NamesAre DEF DateFaults

(* A module up to the current one, and that one if so told, was examined.   *)
Seen(current) ==
    \E i \in 1..5 : Pullable[i] \in peer.modules /\ (i < module \/ (i = module /\ current))

(* When a fault is to have been reported.                                   *)
Due(f) ==
    \/ f \in VersionFaults /\ at # "versions"
    \/ f \in DetailsFaults /\ at \notin {"versions", "details"}
    \/ f \in EndpointFaults /\ at \notin {"versions", "details", "endpoints"}
    \/ f \in TokenFaults /\ at \notin {"versions", "details", "endpoints", "authentication"}
    \/ f \in PageFaults /\ Seen(at \in {"offset", "date_from"})
    \/ f \in OffsetFaults /\ Seen(at = "date_from")
    \/ f \in DateFaults /\ Seen(FALSE)

FoundInv ==
    changes = 0 =>
        /\ list \in Lists
        /\ \A f : Only(f) /\ Shows(f) =>
              /\ Due(f) => Reported(NameOf[f])
              /\ at = "done" /\ f \notin Ending \cup VersionFaults => module = 6

(* Nothing is due before the first request.                                 *)
LEMMA FoundInit == Init => FoundInv
<1> SUFFICES ASSUME Init PROVE FoundInv
  OBVIOUS
<1>1. at = "versions" /\ module = 1 /\ list \in Lists
  BY DEF Init
<1>2. \A f : ~Due(f)
  <2>1. ~Seen(at \in {"offset", "date_from"}) /\ ~Seen(at = "date_from") /\ ~Seen(FALSE)
    BY <1>1 DEF Seen
  <2> QED
    BY <1>1, <2>1 DEF Due
<1> QED
  BY <1>1, <1>2 DEF FoundInv

(* What the invariant asks of a step for one fault.                         *)
Kept(f) ==
    /\ Due(f)' => Reported(NameOf[f])'
    /\ at' = "done" /\ f \notin Ending \cup VersionFaults => module' = 6

(* A fault shows in one place.                                              *)
LEMMA GroupsAreApart ==
    ASSUME NEW f
    PROVE  /\ f \in VersionFaults => f \notin DetailsFaults \cup EndpointFaults \cup TokenFaults
                                                \cup PageFaults \cup OtherFaults
           /\ f \in DetailsFaults => f \notin EndpointFaults \cup TokenFaults
                                                \cup PageFaults \cup OtherFaults
           /\ f \in EndpointFaults => f \notin TokenFaults \cup PageFaults \cup OtherFaults
           /\ f \in TokenFaults => f \notin PageFaults \cup OtherFaults
           /\ f \in PageFaults => f \notin OtherFaults
           /\ f \in Ending => f \in VersionFaults \cup DetailsFaults
           /\ f \in OtherFaults <=> f \in OffsetFaults \cup DateFaults
           /\ f \in OffsetFaults => f \notin DateFaults
  BY DEF VersionFaults, DetailsFaults, EndpointFaults, TokenFaults, PageFaults, OtherFaults, Ending,
     OffsetFaults, DateFaults

(* Before the first module nothing of a module is due.                      *)
LEMMA UnseenYet ==
    ASSUME module' = 1, at' \notin {"offset", "date_from"}
    PROVE  /\ ~Seen(at \in {"offset", "date_from"})' /\ ~Seen(at = "date_from")' /\ ~Seen(FALSE)'
  BY DEF Seen

(* The steps of a run, one by one: GET /versions,                           *)
LEMMA KeptAtVersions ==
    ASSUME RunInv, CheckVersions, NEW f, Only(f)
    PROVE  Kept(f)
<1>1. module = 1 /\ module' = 1 /\ at' \in {"details", "done"}
  BY DEF RunInv, CheckVersions, Reports
<1>2. at' = "done" => f \in Ending
  BY VersionsPassed
<1>3. f \in VersionFaults => Reported(NameOf[f])'
  BY VersionsFound
<1>4. f \in Ending /\ f \notin VersionFaults => at' = "details"
  <2> SUFFICES ASSUME f \in Ending, f \notin VersionFaults PROVE at' = "details"
    OBVIOUS
  <2>1. ~Has("unreachable") /\ ~Has("no_versions_data") /\ ~Has("no_versions") /\ ~Has("alien")
    BY OnlyIs DEF VersionFaults
  <2>2. Common # {}
    BY <2>1, VersionsAre DEF RunInv
  <2> QED
    BY <2>1, <2>2, VersionsTold
<1>5. /\ ~Seen(at \in {"offset", "date_from"})' /\ ~Seen(at = "date_from")' /\ ~Seen(FALSE)'
  BY <1>1, UnseenYet
<1>6. Due(f)' => f \in VersionFaults
  BY <1>1, <1>2, <1>4, <1>5, GroupsAreApart DEF Due
<1> QED
  BY <1>2, <1>3, <1>6 DEF Kept

(* the version details,                                                     *)
LEMMA KeptAtDetails ==
    ASSUME RunInv, CheckDetails, NEW f, Only(f), Shows(f), Due(f) => Reported(NameOf[f]),
           Reported(NameOf[f]) => Reported(NameOf[f])'
    PROVE  Kept(f)
<1>1. module = 1 /\ module' = 1 /\ at = "details" /\ at' \in {"endpoints", "done"}
  BY DEF RunInv, CheckDetails, Reports
<1>2. at' = "done" => f \in Ending \cup VersionFaults
  BY DetailsPassed
<1>3. f \in DetailsFaults => Reported(NameOf[f])'
  BY DetailsFound
<1>4. f \in VersionFaults => Due(f)
  BY <1>1 DEF Due
<1>5. /\ ~Seen(at \in {"offset", "date_from"})' /\ ~Seen(at = "date_from")' /\ ~Seen(FALSE)'
  BY <1>1, UnseenYet
<1>6. Due(f)' => f \in VersionFaults \cup DetailsFaults
  BY <1>1, <1>2, <1>5, GroupsAreApart DEF Due
<1> QED
  BY <1>2, <1>3, <1>4, <1>6 DEF Kept

(* the endpoints,                                                           *)
LEMMA KeptAtEndpoints ==
    ASSUME RunInv, CheckEndpoints, NEW f, Only(f), Shows(f), Due(f) => Reported(NameOf[f]),
           Reported(NameOf[f]) => Reported(NameOf[f])'
    PROVE  Kept(f)
<1>1. module = 1 /\ module' = 1 /\ at = "endpoints" /\ at' = "authentication"
  BY DEF RunInv, CheckEndpoints, Reports
<1>2. f \in EndpointFaults => Reported(NameOf[f])'
  BY EndpointsFound
<1>3. f \in VersionFaults \cup DetailsFaults => Due(f)
  BY <1>1 DEF Due
<1>4. /\ ~Seen(at \in {"offset", "date_from"})' /\ ~Seen(at = "date_from")' /\ ~Seen(FALSE)'
  BY <1>1, UnseenYet
<1>5. Due(f)' => f \in VersionFaults \cup DetailsFaults \cup EndpointFaults
  BY <1>1, <1>4 DEF Due
<1> QED
  BY <1>1, <1>2, <1>3, <1>5 DEF Kept

(* the tokens,                                                              *)
LEMMA KeptAtAuthentication ==
    ASSUME RunInv, CheckAuthentication, NEW f, Only(f), Shows(f), Due(f) => Reported(NameOf[f]),
           Reported(NameOf[f]) => Reported(NameOf[f])'
    PROVE  Kept(f)
<1>1. module = 1 /\ module' = 1 /\ at = "authentication" /\ at' = "page"
  BY DEF RunInv, CheckAuthentication, Reports
<1>2. f \in TokenFaults => Reported(NameOf[f])'
  BY TokensFound, ShowsIs
<1>3. f \in VersionFaults \cup DetailsFaults \cup EndpointFaults => Due(f)
  BY <1>1 DEF Due
<1>4. /\ ~Seen(at \in {"offset", "date_from"})' /\ ~Seen(at = "date_from")' /\ ~Seen(FALSE)'
  BY <1>1, UnseenYet
<1>5. Due(f)' => f \in VersionFaults \cup DetailsFaults \cup EndpointFaults \cup TokenFaults
  BY <1>1, <1>4 DEF Due
<1> QED
  BY <1>1, <1>2, <1>3, <1>5 DEF Kept

(* After the fifth module comes the end.                                    *)
LEMMA EndIsSix ==
    ASSUME RunInv, at \in {"page", "date_from"}, NextModule
    PROVE  /\ module \in 1..5 /\ module' = module + 1
           /\ at' \in {"page", "done"} /\ (at' = "done" => module' = 6)
  BY PullableIs DEF NextModule, RunInv

(* a first page, or none,                                                   *)
LEMMA KeptAtPage ==
    ASSUME RunInv, SkipModule \/ PageFails \/ CheckPage, NEW f, Only(f), Shows(f),
           Due(f) => Reported(NameOf[f]), Reported(NameOf[f]) => Reported(NameOf[f])'
    PROVE  Kept(f)
<1>1. at = "page" /\ module \in 1..5 /\ UNCHANGED peer /\ PeerOK
  BY DEF RunInv, SkipModule, PageFails, CheckPage
<1>2. f \in VersionFaults \cup DetailsFaults \cup EndpointFaults \cup TokenFaults => Due(f)
  BY <1>1 DEF Due
<1>3. SUFFICES ASSUME f \in PageFaults \cup OtherFaults PROVE Kept(f)
  <2>1. at' = "done" => module' = 6
    BY <1>1, EndIsSix DEF SkipModule, PageFails, CheckPage, Reports
  <2>2. f \notin PageFaults \cup OtherFaults =>
            (Due(f)' => f \in VersionFaults \cup DetailsFaults \cup EndpointFaults \cup TokenFaults)
    BY GroupsAreApart DEF Due
  <2> QED
    BY <1>2, <2>1, <2>2 DEF Kept
<1>4. /\ Offers(Pullable[module]) <=> Pullable[module] \in peer.modules
      /\ Offers(Pullable[module]) => UrlOf(Pullable[module]) = "public"
  BY <1>1, <1>3, SenderIs
<1>5. f \notin VersionFaults \cup DetailsFaults \cup EndpointFaults \cup TokenFaults
  BY <1>3, GroupsAreApart
<1>6. CASE SkipModule
  <2>1. ~Offers(Pullable[module]) /\ NextModule
    BY <1>6 DEF SkipModule
  <2>2. module' = module + 1 /\ at' \in {"page", "done"} /\ (at' = "done" => module' = 6)
    BY <1>1, <2>1, EndIsSix
  <2>3. Due(f)' => Due(f)
    <3>1. Seen(FALSE) => Seen(at \in {"offset", "date_from"}) /\ Seen(at = "date_from")
      BY DEF Seen
    <3>2. Seen(at \in {"offset", "date_from"})' \/ Seen(at = "date_from")' \/ Seen(FALSE)'
            => Seen(FALSE)
      BY <1>1, <1>4, <2>1, <2>2 DEF Seen
    <3> QED
      BY <1>5, <3>1, <3>2 DEF Due
  <2> QED
    BY <2>2, <2>3 DEF Kept
<1>7. CASE PageFails
  <2>1. Offers(Pullable[module]) /\ ~Answers(UrlOf(Pullable[module])) /\ NextModule
        /\ Check("module.page", "fail") \in report'
    BY <1>7 DEF PageFails
  <2>2. Has("page_fails")
    BY <1>4, <2>1 DEF Answers, Usable
  <2>3. f = "page_fails"
    BY <2>2, OnlyIs
  <2>4. Reported(NameOf[f])'
    BY <2>1, <2>3, ToldIs, NamesAre
  <2> QED
    BY <1>1, <2>1, <2>4, EndIsSix DEF Kept
<1>8. CASE CheckPage
  <2>1. UNCHANGED <<peer, module>> /\ at' = "offset"
    BY <1>8 DEF CheckPage, Reports
  <2>2. f \in PageFaults => Reported(NameOf[f])'
    BY <1>8, PageFound
  <2>3. f \notin PageFaults => (Due(f)' => Due(f))
    <3>1. Seen(at = "date_from")' \/ Seen(FALSE)' => Seen(FALSE)
      BY <2>1 DEF Seen
    <3>2. Seen(FALSE) => Seen(at = "date_from")
      BY DEF Seen
    <3> QED
      BY <1>5, <3>1, <3>2 DEF Due
  <2> QED
    BY <2>1, <2>2, <2>3 DEF Kept
<1> QED
  BY <1>6, <1>7, <1>8

(* the second object alone,                                                 *)
LEMMA KeptAtOffset ==
    ASSUME RunInv, CheckOffset, ~shifted, list \in Lists, NEW f, Only(f), Shows(f),
           Due(f) => Reported(NameOf[f]), Reported(NameOf[f]) => Reported(NameOf[f])'
    PROVE  Kept(f)
<1>1. UNCHANGED <<peer, module>> /\ at = "offset" /\ at' = "date_from"
  BY DEF CheckOffset, Reports
<1>2. f \in OffsetFaults => Reported(NameOf[f])'
  BY OffsetFound
<1>3. f \notin OffsetFaults => (Due(f)' => Due(f))
  <2>1. Seen(at \in {"offset", "date_from"})' => Seen(at \in {"offset", "date_from"})
    BY <1>1 DEF Seen
  <2>2. Seen(FALSE)' => Seen(FALSE)
    BY <1>1 DEF Seen
  <2> QED
    BY <1>1, <2>1, <2>2 DEF Due
<1> QED
  BY <1>1, <1>2, <1>3 DEF Kept

(* and what is newer than the newest.                                       *)
LEMMA KeptAtDates ==
    ASSUME RunInv, CheckDateFrom, ~shifted, NEW f, Only(f), Shows(f),
           Due(f) => Reported(NameOf[f]), Reported(NameOf[f]) => Reported(NameOf[f])'
    PROVE  Kept(f)
<1>1. UNCHANGED peer /\ at = "date_from" /\ NextModule
  BY DEF CheckDateFrom
<1>2. /\ module \in 1..5 /\ module' = module + 1
      /\ at' \in {"page", "done"} /\ (at' = "done" => module' = 6)
  BY <1>1, EndIsSix
<1>3. f \in DateFaults => Reported(NameOf[f])'
  BY DatesFound
<1>4. f \notin DateFaults => (Due(f)' => Due(f))
  <2>1. Seen(at \in {"offset", "date_from"})' => Seen(at \in {"offset", "date_from"})
    BY <1>1, <1>2 DEF Seen
  <2>2. Seen(at = "date_from")' => Seen(at = "date_from")
    BY <1>1, <1>2 DEF Seen
  <2> QED
    BY <1>1, <2>1, <2>2 DEF Due
<1> QED
  BY <1>2, <1>3, <1>4 DEF Kept

(* What is due has been reported, after every step.                         *)
LEMMA FoundStep == RunInv /\ FoundInv /\ [Next]_cvars => FoundInv'
<1> SUFFICES ASSUME RunInv, FoundInv, [Next]_cvars, changes' = 0 PROVE
        /\ list' \in Lists
        /\ \A f : Only(f)' /\ Shows(f)' =>
              /\ Due(f)' => Reported(NameOf[f])'
              /\ at' = "done" /\ f \notin Ending \cup VersionFaults => module' = 6
  BY DEF FoundInv
<1>1. ~ObjectsChange
  BY DEF ObjectsChange, RunInv
<1>2. UNCHANGED <<peer, list, changes>>
  BY <1>1 DEF Next, cvars, CheckVersions, CheckDetails, CheckEndpoints, CheckAuthentication,
     SkipModule, PageFails, CheckPage, CheckOffset, CheckDateFrom
<1>3. changes = 0 /\ list \in Lists /\ ~shifted
  BY <1>2 DEF FoundInv, RunInv
<1>4. ASSUME NEW f, Only(f)', Shows(f)' PROVE Kept(f)
  <2>1. Only(f) /\ Shows(f)
    BY <1>2, <1>4 DEF Only, Shows
  <2>2. Due(f) => Reported(NameOf[f])
    BY <1>3, <2>1 DEF FoundInv
  <2>3. Reported(NameOf[f]) => Reported(NameOf[f])'
    BY StillReported
  <2>4. CASE UNCHANGED cvars
    <3>1. Due(f)' = Due(f) /\ UNCHANGED <<at, module>>
      BY <2>4 DEF cvars, Due, Seen
    <3>2. at = "done" /\ f \notin Ending \cup VersionFaults => module = 6
      BY <1>3, <2>1 DEF FoundInv
    <3> QED
      BY <2>2, <2>3, <3>1, <3>2 DEF Kept
  <2>5. CASE CheckVersions
    BY <2>1, <2>5, KeptAtVersions
  <2>6. CASE CheckDetails
    BY <2>1, <2>2, <2>3, <2>6, KeptAtDetails
  <2>7. CASE CheckEndpoints
    BY <2>1, <2>2, <2>3, <2>7, KeptAtEndpoints
  <2>8. CASE CheckAuthentication
    BY <2>1, <2>2, <2>3, <2>8, KeptAtAuthentication
  <2>9. CASE SkipModule \/ PageFails \/ CheckPage
    BY <2>1, <2>2, <2>3, <2>9, KeptAtPage
  <2>10. CASE CheckOffset
    BY <1>3, <2>1, <2>2, <2>3, <2>10, KeptAtOffset
  <2>11. CASE CheckDateFrom
    BY <1>3, <2>1, <2>2, <2>3, <2>11, KeptAtDates
  <2> QED
    BY <1>1, <2>4, <2>5, <2>6, <2>7, <2>8, <2>9, <2>10, <2>11 DEF Next
<1> QED
  BY <1>2, <1>3, <1>4 DEF Kept

(* At the end every fault that shows is due.                                *)
LEMMA FoundAtLast == RunInv /\ FoundInv => FaultsAreFound
<1> SUFFICES ASSUME RunInv, FoundInv, at = "done", changes = 0, Cardinality(peer.faults) = 1,
                    NEW f \in peer.faults, Shows(f)
             PROVE  Reported(NameOf[f])
  BY DEF FaultsAreFound
<1>1. PeerOK
  BY DEF RunInv
<1>2. Only(f)
  <2>1. \E x : peer.faults = {x}
    BY <1>1, FaultsAreFinite, FS_Singleton
  <2> QED
    BY <2>1 DEF Only
<1>3. f \in VersionFaults \cup DetailsFaults \cup EndpointFaults \cup TokenFaults
              \cup PageFaults \cup OtherFaults
  BY <1>1, PeerIs, FaultsAre
<1>4. CASE f \in VersionFaults \cup DetailsFaults \cup EndpointFaults \cup TokenFaults
  BY <1>2, <1>4 DEF FoundInv, Due
<1>5. CASE f \in PageFaults \cup OtherFaults
  <2>1. f \notin Ending \cup VersionFaults
    BY <1>5, GroupsAreApart
  <2>2. module = 6
    BY <1>2, <2>1 DEF FoundInv
  <2>3. Seen(FALSE) /\ Seen(at \in {"offset", "date_from"}) /\ Seen(at = "date_from")
    <3>1. peer.modules # {}
      BY <1>5, ShowsIs
    <3>2. PICK i \in 1..5 : Pullable[i] \in peer.modules
      BY <1>1, <1>2, <1>5, <3>1, SenderIs
    <3> QED
      BY <2>2, <3>2 DEF Seen
  <2> QED
    BY <1>2, <1>5, <2>3, GroupsAreApart DEF FoundInv, Due
<1> QED
  BY <1>3, <1>4, <1>5

(* A peer with one fault that can show, left alone while it is examined, is *)
(* told of that fault by name: whatever it offers, however many objects it  *)
(* has and whatever its pages and the runner's hold.                        *)
THEOREM EveryFaultIsFound == Spec => []FaultsAreFound
<1>1. Init => FoundInv
  BY FoundInit
<1>2. RunInv /\ FoundInv /\ [Next]_cvars => FoundInv'
  BY FoundStep
<1> QED
  BY <1>1, <1>2, FoundAtLast, RunInvariance, PTL DEF Spec
=============================================================================
