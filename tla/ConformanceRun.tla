--------------------------- MODULE ConformanceRun ---------------------------
(***************************************************************************)
(* client/conformance.rs: the read-only runner, from GET /versions to the  *)
(* last page, against a peer with faults of its own whose objects may      *)
(* change between two requests. The peer is external: what it answers is   *)
(* what OCPI asks for, but for its faults.                                 *)
(***************************************************************************)
EXTENDS Integers, Sequences, FiniteSets, SequencesExt

CONSTANTS
    Faulty,       \* the sets of faults a peer may have
    Offered,      \* the sets of Sender interfaces a peer may have
    Lists,        \* the objects of every module when the run starts, by page order
    PageLimit,    \* with_page_limit's argument
    ServerLimits, \* the page sizes of the peers
    MaxChanges    \* bound: how often the objects change during the run

Pullable == <<"locations", "sessions", "cdrs", "tariffs", "tokens">>
Supported == <<"2.1.1", "2.2.1", "2.3.0">>    \* in release order

Object == [id : Nat, stamp : Nat]

ASSUME ConformanceAssumption ==
    /\ MaxChanges \in Nat
    /\ PageLimit \in Nat \ {0}
    /\ ServerLimits \subseteq Nat \ {0}
    /\ \A modules \in Offered : modules \subseteq ToSet(Pullable)
    /\ \A objects \in Lists :
          /\ objects \in Seq(Object)
          /\ \A i, j \in DOMAIN objects : objects[i].id = objects[j].id => i = j

VARIABLES
    peer,      \* its faults, newest version, modules and page size
    list,      \* its objects, each with an id and a last_updated
    changes,   \* how often they changed
    at,        \* what the runner does next
    module,    \* the position in Pullable it has reached
    first,     \* the first page of that module
    shifted,   \* the objects changed since that page
    report     \* Report.checks, as the set of outcomes by check

cvars == <<peer, list, changes, at, module, first, shifted, report>>

Has(fault) == fault \in peer.faults

Nothing == [items |-> <<>>, limit |-> 0, total |-> 0, next |-> "none"]

-----------------------------------------------------------------------------
(* What the peer answers. *)

Usable(url) == url = "public"      \* UrlPolicy::check
Absolute(url) == url # "relative"  \* Url::parse

Entry(version) == [version |-> version,
                   url |-> IF Has("version_url") THEN "private" ELSE "public"]

VersionsListed ==
    IF Has("no_versions") THEN <<>>
    ELSE IF Has("alien") THEN <<Entry("9.9")>>
    ELSE IF Has("version_twice") THEN <<Entry(peer.version), Entry(peer.version)>>
    ELSE IF peer.version = "2.1.1" THEN <<Entry("2.1.1"), Entry("9.9")>>
    ELSE <<Entry("2.1.1"), Entry(peer.version), Entry("9.9")>>

Endpoint(identifier, role) ==
    [identifier |-> identifier, role |-> role,
     url |-> IF Has("relative_url") THEN "relative"
             ELSE IF Has("private_url") THEN "private" ELSE "public"]

EndpointsListed ==
    IF Has("no_endpoints") THEN <<>>
    ELSE (IF Has("no_credentials") THEN <<>> ELSE <<Endpoint("credentials", "SENDER")>>)
         \o (IF Has("endpoint_twice") THEN <<Endpoint("commands", "RECEIVER")>> ELSE <<>>)
         \o (IF Has("unknown_module") THEN <<Endpoint("payments", "SENDER")>> ELSE <<>>)
         \o <<Endpoint("commands", "RECEIVER")>>
         \o SetToSeq({Endpoint(m, "SENDER") : m \in peer.modules})

(* Its objects from a date on. *)
ChangedSince(date) ==
    LET kept[n \in 0..Len(list)] ==
            IF n = 0 THEN <<>>
            ELSE IF list[n].stamp >= date THEN Append(kept[n - 1], list[n]) ELSE kept[n - 1]
    IN  kept[Len(list)]

(* A page of them, from an offset on. *)
PageOf(offset, limit, from) ==
    LET matching == IF Has("ignores_date_from") THEN list ELSE ChangedSince(from)
        start == IF Has("ignores_offset") THEN 0 ELSE offset
        size == IF Has("ignores_limit") THEN Len(matching)
                ELSE IF limit < peer.limit THEN limit ELSE peer.limit
        end == IF start + size < Len(matching) THEN start + size ELSE Len(matching)
        more == (end < Len(matching)) # Has("wrong_link")
    IN  [items |-> SubSeq(matching, start + 1, end),
         limit |-> IF Has("no_limit") THEN 0 ELSE peer.limit,
         total |-> IF Has("no_total") THEN -1 ELSE Len(matching),
         next |-> IF ~more THEN "none" ELSE IF Has("link_away") THEN "elsewhere" ELSE "here"]

(* send_page(): refused here, or failed there *)
Answers(url) == Usable(url) /\ ~Has("page_fails")

-----------------------------------------------------------------------------
(* What is reported. *)

Check(id, outcome) == [id |-> id, outcome |-> outcome]
Asserted(id, ok) == Check(id, IF ok THEN "pass" ELSE "fail")
When(condition, id, outcome) == IF condition THEN {Check(id, outcome)} ELSE {}

EchoedIds == {Asserted("headers.request_id", ~Has("no_ids")),
              Asserted("headers.correlation_id", ~Has("no_ids"))}

Best(versions) ==
    CHOOSE v \in ToSet(versions) :
        /\ v.version \in ToSet(Supported)
        /\ \A w \in ToSet(versions) :
            \A i, j \in DOMAIN Supported :
                v.version = Supported[i] /\ w.version = Supported[j] => j <= i

(* version.rs ModuleId::exists_in *)
ExistsIn(identifier, version) ==
    CASE identifier = "payments" -> version = "2.3.0"
      [] identifier \in {"hubclientinfo", "chargingprofiles"} -> version \in {"2.2.1", "2.3.0"}
      [] OTHER -> TRUE

Twice(endpoints) ==
    \E i, j \in DOMAIN endpoints :
        /\ i # j
        /\ endpoints[i].identifier = endpoints[j].identifier
        /\ endpoints[i].role = endpoints[j].role

Offers(identifier) == \E i \in DOMAIN EndpointsListed : EndpointsListed[i].identifier = identifier

UrlOf(identifier) ==
    EndpointsListed[SelectInSeq(EndpointsListed,
                                LAMBDA e : e.identifier = identifier /\ e.role = "SENDER")].url

(* VersionDetails::validate *)
DetailsConform(version) ==
    /\ EndpointsListed # <<>>
    /\ Offers("credentials")
    /\ ~Twice(EndpointsListed)
    /\ \A e \in ToSet(EndpointsListed) : ExistsIn(e.identifier, version)

(* v2_3_0::Endpoint cannot be read without a role, and 2.1.1 knows none.   *)
DetailsDecode == EndpointsListed # <<>> => peer.version # "2.1.1"

(* An object of the peer's version is read as one of 2.3.0: a CDR of an     *)
(* earlier one, whose total_cost has another shape, does not decode.        *)
ObjectsConform(items) ==
    items # <<>> =>
        /\ ~Has("bad_object") /\ ~Has("no_stamps")
        /\ Pullable[module] = "cdrs" => peer.version = "2.3.0"

-----------------------------------------------------------------------------

Init ==
    /\ peer \in [faults : Faulty, version : ToSet(Supported), modules : Offered,
                limit : ServerLimits]
    /\ list \in Lists
    /\ changes = 0
    /\ at = "versions"
    /\ module = 1
    /\ first = Nothing
    /\ shifted = FALSE
    /\ report = {}

(* An object of the peer is added, removed, or updated where it stands.     *)
ObjectsChange ==
    /\ at # "done" /\ changes < MaxChanges
    /\ changes' = changes + 1
    /\ LET newest == 1 + Len(list) + changes    \* later than any stamp so far
       IN  \/ list' = Append(list, [id |-> newest, stamp |-> newest])
           \/ \E i \in DOMAIN list : list' = RemoveAt(list, i)
           \/ \E i \in DOMAIN list : list' = [list EXCEPT ![i].stamp = newest]
    /\ shifted' = TRUE
    /\ UNCHANGED <<peer, at, module, first, report>>

Reports(checks, next) ==
    /\ report' = report \cup checks
    /\ at' = next

CheckVersions ==
    /\ at = "versions"
    /\ IF Has("unreachable") THEN Reports({Check("versions.get", "fail")}, "done")
       ELSE LET listed == VersionsListed
                common == {v \in ToSet(listed) : v.version \in ToSet(Supported)}
                head == EchoedIds \cup {Asserted("versions.status", ~Has("versions_status")),
                                        Asserted("headers.timestamp", ~Has("clock"))}
                body == {Asserted("versions.nonempty", listed # <<>>),
                         Asserted("versions.unique",
                             \A i, j \in DOMAIN listed :
                                 listed[i].version = listed[j].version => i = j)}
                        \cup When(\E v \in ToSet(listed) : ~Usable(v.url), "versions.url", "fail")
            IN  IF Has("no_versions_data")
                THEN Reports(head \cup {Check("versions.data", "fail")}, "done")
                ELSE Reports(head \cup body \cup {Asserted("versions.common", common # {})},
                             IF common = {} THEN "done" ELSE "details")
    /\ UNCHANGED <<peer, list, changes, module, first, shifted>>

CheckDetails ==
    /\ at = "details"
    /\ IF ~Usable(Best(VersionsListed).url) \/ Has("no_details")
       THEN Reports({Check("details.get", "fail")}, "done")
       ELSE IF Has("no_details_data")
            THEN Reports(EchoedIds \cup {Check("details.data", "fail")}, "done")
            ELSE IF ~DetailsDecode THEN Reports({Check("details.get", "fail")}, "done")
            ELSE Reports(EchoedIds \cup {Asserted("details.version", ~Has("other_version"))},
                         "endpoints")
    /\ UNCHANGED <<peer, list, changes, module, first, shifted>>

CheckEndpoints ==
    /\ at = "endpoints"
    /\ LET listed == EndpointsListed
           version == Best(VersionsListed).version
       IN  Reports({Asserted("endpoints.nonempty", listed # <<>>),
                    Asserted("endpoints.credentials", Offers("credentials")),
                    Asserted("endpoints.unique", ~Twice(listed))}
                   \cup When(\E e \in ToSet(listed) : ~ExistsIn(e.identifier, version),
                           "endpoints.known", "warn")
                   \cup When(\E e \in ToSet(listed) : ~Absolute(e.url), "endpoints.absolute", "fail")
                   \cup When(\E e \in ToSet(listed) : ~Usable(e.url), "endpoints.reachable", "fail")
                   \cup When(~DetailsConform(version), "details.conform", "warn"),
                   "authentication")
    /\ UNCHANGED <<peer, list, changes, module, first, shifted>>

(* Two requests to the first Sender interface there is: with an empty token *)
(* and with a wrong one. 401 and 404 will both do.                         *)
CheckAuthentication ==
    /\ at = "authentication"
    /\ LET tried == SelectInSeq(Pullable, Offers)
           outcome(lets) ==
               IF ~Usable(UrlOf(Pullable[tried])) \/ Has("garbles_refusal") THEN "warn"
               ELSE IF Has(lets) THEN "fail" ELSE "pass"
       IN  Reports(IF tried = 0 THEN {Check("auth.unauthenticated", "skipped")}
                   ELSE {Check("auth.empty", outcome("lets_anyone_in")),
                         Check("auth.wrong", outcome("lets_strangers_in"))},
                   "page")
    /\ UNCHANGED <<peer, list, changes, module, first, shifted>>

(* On to the next module, or the end. *)
NextModule ==
    /\ module' = module + 1
    /\ at' = IF module = Len(Pullable) THEN "done" ELSE "page"

SkipModule ==
    /\ at = "page"
    /\ ~Offers(Pullable[module])
    /\ report' = report \cup {Check("module.page", "skipped")}
    /\ NextModule
    /\ UNCHANGED <<peer, list, changes, first, shifted>>

PageFails ==
    /\ at = "page"
    /\ Offers(Pullable[module]) /\ ~Answers(UrlOf(Pullable[module]))
    /\ report' = report \cup {Check("module.page", "fail")}
    /\ NextModule
    /\ UNCHANGED <<peer, list, changes, first, shifted>>

(* The first page of a module, and all that one page can tell.              *)
CheckPage ==
    /\ at = "page"
    /\ Offers(Pullable[module]) /\ Answers(UrlOf(Pullable[module]))
    /\ LET page == PageOf(0, PageLimit, 0)
           count == Len(page.items)
       IN  /\ first' = page
           /\ Reports({Check("module.page", "pass"),
                       Asserted("module.limit", count <= PageLimit),
                       IF page.limit = 0 THEN Check("module.xlimit", "warn")
                       ELSE Asserted("module.xlimit", count <= page.limit),
                       IF page.total < 0 THEN Check("module.total", "warn")
                       ELSE Asserted("module.link", (page.total > count) = (page.next # "none")),
                       Check("module.objects", IF ObjectsConform(page.items) THEN "pass" ELSE "warn")}
                      \cup (IF page.next = "none" THEN {}
                            ELSE {Asserted("module.link_host", page.next = "here")}),
                      "offset")
    /\ shifted' = FALSE
    /\ UNCHANGED <<peer, list, changes, module>>

(* mutant: told apart by last_updated *)
OffsetOutcome_ByStamp(second) ==
    IF second.items = <<>> THEN "warn"
    ELSE IF second.items[1].stamp # first.items[1].stamp THEN "pass" ELSE "fail"

OffsetOutcome(second) ==
    IF second.items = <<>> THEN "warn"
    ELSE IF second.items[1] = first.items[2] THEN "pass" ELSE "fail"

(* offset=1&limit=1 is to bring the second object of the first page.        *)
CheckOffset ==
    /\ at = "offset"
    /\ Reports({Check("module.offset",
                      IF Len(first.items) < 2 THEN "skipped"
                      ELSE IF Has("refuses_offset") THEN "fail"
                      ELSE OffsetOutcome(PageOf(1, 1, 0)))},
               "date_from")
    /\ UNCHANGED <<peer, list, changes, module, first, shifted>>

(* mutant: from the newest object itself *)
Since_Newest(newest) == newest

(* One second past the newest object seen. *)
Since(newest) == newest + 1

(* Whoever sends objects older than asked for does not apply date_from.     *)
CheckDateFrom ==
    /\ at = "date_from"
    /\ report' = report \cup
         {IF first.items = <<>> \/ Has("no_stamps") THEN Check("module.date_from", "skipped")
          ELSE LET after == Since(CHOOSE n \in {o.stamp : o \in ToSet(first.items)} :
                                      \A o \in ToSet(first.items) : o.stamp <= n)
               IN  Asserted("module.date_from",
                       ~Has("refuses_date_from") /\ \A o \in ToSet(PageOf(0, PageLimit, after).items) : o.stamp >= after)}
    /\ NextModule
    /\ UNCHANGED <<peer, list, changes, first, shifted>>

Next ==
    \/ ObjectsChange \/ CheckVersions \/ CheckDetails \/ CheckEndpoints \/ CheckAuthentication
    \/ SkipModule \/ PageFails \/ CheckPage \/ CheckOffset \/ CheckDateFrom

Spec == Init /\ [][Next]_cvars

-----------------------------------------------------------------------------

Reported(id) == Check(id, "fail") \in report \/ Check(id, "warn") \in report

(* What the report is to call each fault by.                                *)
NameOf ==
    [unreachable |-> "versions.get", versions_status |-> "versions.status",
     no_ids |-> "headers.request_id", clock |-> "headers.timestamp",
     no_versions_data |-> "versions.data", no_versions |-> "versions.nonempty",
     alien |-> "versions.common", version_twice |-> "versions.unique",
     version_url |-> "versions.url", no_details |-> "details.get",
     no_details_data |-> "details.data", other_version |-> "details.version",
     no_endpoints |-> "endpoints.nonempty", no_credentials |-> "endpoints.credentials",
     endpoint_twice |-> "endpoints.unique", unknown_module |-> "endpoints.known",
     relative_url |-> "endpoints.absolute", private_url |-> "endpoints.reachable",
     lets_anyone_in |-> "auth.empty", lets_strangers_in |-> "auth.wrong",
     garbles_refusal |-> "auth.empty", page_fails |-> "module.page",
     ignores_limit |-> "module.limit", no_limit |-> "module.xlimit",
     no_total |-> "module.total", wrong_link |-> "module.link",
     link_away |-> "module.link_host", bad_object |-> "module.objects",
     no_stamps |-> "module.objects", ignores_offset |-> "module.offset",
     refuses_offset |-> "module.offset", ignores_date_from |-> "module.date_from",
     refuses_date_from |-> "module.date_from"]

(* Some faults show only in a Sender interface, some only in objects.       *)
NeedsModule ==
    {"lets_anyone_in", "lets_strangers_in", "garbles_refusal", "page_fails", "no_limit",
     "no_total", "wrong_link"}
NeedsObjects == {"bad_object", "no_stamps", "ignores_date_from", "refuses_date_from"}

(* And whatever comes after a peer's version details shows only in one whose *)
(* details the runner can read.                                             *)
NeedsNoDetails ==
    {"unreachable", "versions_status", "no_ids", "clock", "no_versions_data", "no_versions",
     "alien", "version_twice", "version_url", "no_details", "no_details_data", "no_endpoints"}

ASSUME FaultsAreNamed == \A faults \in Faulty : faults \subseteq DOMAIN NameOf

Shows(fault) ==
    /\ peer.version = "2.1.1" => fault \in NeedsNoDetails
    /\ CASE fault \in NeedsModule -> peer.modules # {}
         [] fault \in NeedsObjects -> peer.modules # {} /\ list # <<>>
         [] fault = "ignores_limit" -> peer.modules # {} /\ Len(list) > PageLimit
         [] fault = "link_away" ->
               peer.modules # {} /\ (Len(list) > PageLimit \/ Len(list) > peer.limit)
         [] fault \in {"ignores_offset", "refuses_offset"} ->
               peer.modules # {} /\ Len(list) > 1 /\ PageLimit > 1 /\ peer.limit > 1
         [] fault = "unknown_module" -> peer.version # "2.3.0"
         [] OTHER -> TRUE

(* README "Conformance": a peer with one fault, left alone while it is      *)
(* examined, is told of that fault by name. One whose newest version is     *)
(* 2.1.1 is told only of those that show before its details are read.       *)
FaultsAreFound ==
    (at = "done" /\ changes = 0 /\ Cardinality(peer.faults) = 1) =>
        \A fault \in peer.faults : Shows(fault) => Reported(NameOf[fault])

(* "The peer contradicts the specification": a peer without fault is told   *)
(* of a failure only where two requests were compared and its objects did   *)
(* change between them, or where its details are those of 2.1.1, which the  *)
(* runner cannot read: v2_1_1/mod.rs:44 says that the role their endpoints  *)
(* lack `defaults to SENDER', and no code has it do so.                     *)
BlamelessUnlessShifted ==
    [][peer.faults = {} =>
        \A c \in report' \ report :
            c.outcome = "fail" =>
                \/ c.id = "module.offset" /\ shifted
                \/ c.id = "details.get" /\ peer.version = "2.1.1"]_cvars
=============================================================================
