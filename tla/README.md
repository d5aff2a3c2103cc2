# A TLA+ development for ocpi-kit

ocpi-kit is a Rust implementation of OCPI, the protocol charge point operators
(CPOs) and mobility providers (eMSPs) roam with: clients, servers, a hub between
them, the translation between protocol versions, the tariff arithmetic and the
object models of three versions. This directory models the parts of it whose
correctness depends on the order in which things happen, or on two places of
the code agreeing with each other, checks them with TLC, and proves the most
important results with TLAPS. Paths below are relative to the repository; a
definition's exact source lines are in `PROJECT.json`, under `map`.

## 1. Inventory

| Component | Source | State it keeps | Operations | What is hard about it | Here |
|---|---|---|---|---|---|
| paging client | `src/client/paging.rs`, `src/transport/pagination.rs` | next link, buffer, last total, counters | `next`, `collect_all`, `fetch`, `crawl_adjustment` | the list changes between pages; a failed or dropped `next` | `PageCrawl`, `CrawlSpec` |
| HTTP client | `src/client/http.rs` | none beyond the attempt counter | `send`, `send_page`, retries of GET | timeouts, retries; one HTTP status for many errors | `PageCrawl`, `Replies`, `Hub` |
| resync planner | `src/client/resync.rs` | configuration; the caller keeps `last_success` | `plan`, `incremental`, `splayed_interval` | clock skew, late writes, failed pulls | `Resync` |
| mock server stores | `src/testkit/stores.rs` | a list of objects behind an RwLock | `put`, `get`, `remove`, `page` | one lock per call | `PageCrawl`, `PeerStore` |
| mock peer | `src/testkit/peer.rs` | five stores | the handlers of every interface | get and put are two locks | `PeerStore` |
| routing table | `src/hub/routing_table.rs` | platform id to record | `upsert`, `remove`, `set_status`, lookups | what one lock yields is stale at the next | `RoutingTable` |
| forwarder | `src/hub/forwarder.rs` | the table, a window size, two policies | `scenario`, `relay`, `broadcast`, `get_all`, `open_route`, `aggregate` | concurrent legs, partial failure, versions | `Hub` |
| converters | `src/convert/v2_2_1_v2_3_0.rs`, `mod.rs` | none | `Upgrade` and `Downgrade` of each object | every loss must be reported, at every depth; nothing may drift | `Convert`, `Crossing` |
| bridge of documents | `src/convert/wire.rs` | none | `bridgeable`, `for_endpoint`, `bridge`, `divergent_fields`, `patch_crosses_unchanged` | which documents may cross, and as what | `Wire`, `Convert`, `Hub` |
| validators | `src/v2_*/`, `src/types/validate.rs` | none | `Validate` of each object | two versions judge one object | `Conformance` |
| object models | `src/v2_*/` | values | what serde requires, accepts and keeps | extensions that the other version gives a meaning | `Shapes`, `Objects` |
| registration | `src/client/registration.rs`, `src/client/peer.rs` | typestate with tokens | `discover`, `select`, `register`, `update` | lost answers to POST and PUT | `Registration` |
| token store | `src/server/auth.rs`, `src/transport/auth.rs` | list of tokens and peers | `insert`, `remove`, `rotate`, `resolve`, `check_scope` | long sequences of legal calls | `TokenStore` |
| router | `src/server/router.rs`, `extract.rs`, `error.rs`, `traits.rs` | mounted modules | a mount per interface, extractors, handlers | order of refusals; advertised against mounted | `Routes`, `HandlerTraits`, `Replies`, `Router` |
| edge bridge | `src/server/bridge.rs` | none | a layer over the router | path and interface guessed from the URL | `Router` |
| typed clients | `src/client/modules.rs`, `src/transport/endpoints.rs` | none | a method per endpoint | their URLs, methods and objects against the router's | `Endpoints`, `ModuleClients`, `Router` |
| conformance runner | `src/client/conformance.rs` | a report | probes, one after the other | the peer's objects change under it | `ConformanceRun` |
| tariff engine | `src/tariffs/` | within `price()`: segments, notes, whether the start fee was charged | `price`, `verify_cdr` | boundaries, `step_size`, tax and limits, local time | `Tariffs`, `Pricing`, `TariffReview` |
| tariff lint | `src/tariffs/lint.rs` | none | `lint` | says beside the engine what the engine does | `Lint`, `TariffReview` |
| primitive types | `src/types/` | values | parse, format | data | not modelled, except as objects need them |
| CLI, samples, xtask, fuzz targets, site | `src/bin/ocpi.rs` and others | none | printing, constants | I/O | not modelled |

How they interact. A client builds requests (`modules.rs`), sends them
(`http.rs`), and for lists follows links (`paging.rs`); `resync.rs` decides
which window to ask for. A client writes the canonical version, 2.3.0, and
translates where its peer speaks another (`convert/`); a server does the same at
its edge (`bridge.rs`), before its router matches a path, authenticates the
caller against the token store, decodes the body and calls a handler;
`testkit/peer.rs` is the repository's own set of handlers, over
`testkit/stores.rs`. What a handler refuses travels back as an HTTP status and
an OCPI code (`envelope.rs`, `error.rs`) and is made an error again (`http.rs`).
A hub is a server whose handlers call `forwarder.rs`, which looks parties up in
`routing_table.rs` and acts as a client of each platform. All of it is async:
every `.await` is a place where the rest of the world moves, and the lock-based
stores are shared by handlers on all worker threads.

What makes each correct:

* paging: nothing that stays in the list is skipped; little is repeated; it ends;
* resync: no change falls between two windows, nor out of one;
* stores: an acknowledged write is there, and 201 means created;
* routing: a message goes only to who hosted the party while it was under way,
  connected, serving the interface, and in the version it is written in;
* forwarding: nobody receives a document of a version it does not speak, the
  window holds, the sender is told the truth, and is told;
* conversion: a copy in the other version follows the owner's object whatever
  way it is told; what a crossing loses is reported; losses do not accumulate;
  both versions' validators find the same fault with an object;
* client and server: each call lands at the handler it means, in a version that
  handler reads; no handler runs for who may not ask; the caller learns what the
  handler said;
* registration: both sides agree which token is good;
* conformance: a fault is reported by its name, and nobody is blamed without one;
* pricing: a session is billed what its tariff says of each second of it; the
  tax lines account for the totals; limits hold; notes and lint findings mean
  what they say.

## 2. Modules

| Module | Models | State | Actions |
|---|---|---|---|
| `CrawlSpec` | what a crawl promises | `window`, `delivered`, `status`, ... | `CChurn`, `CDeliver`, `CEnd`, `CFail`, `CRough` |
| `PageCrawl` | `PageStream` with its server and retries | the stream's fields under their names, the list, the GET in flight | `Next*` are the outcomes of `next()`; `Fetch*`, `Retry`, `Dropped` end or repeat the GET; `Depart`, `Arrive`, `Update` move the list |
| `Resync` | pulls planned by `resync.rs`, page by page | clock, pending and stored writes, `last_success`, the running query, what moved since its last page | `Tick`, `WriteBegins`, `WriteStored`, `PullBegins`, `PageArrives`, `PullSucceeds`, `PullFails` |
| `PeerStore` | the mock peer's handlers | the stores, each handler's progress | `Send`; one action per lock taken: `Put*`, `Delete*`, `Read*`, `Write*`, `Get*`; `RefusePatch` |
| `RoutingTable` | the hub's table | `table` | `Upsert`, `Remove`, `SetStatus`, and lookups as operators |
| `Hub` | `forwarder.rs` over the table, and `send_with_headers` of `http.rs` | request, scenario, legs, answer | `TableChanges`, `Accept`, `LegStarts` (the lookup), `LegSends`, `LegRefused`, `LegRetries`, `LegFails`, `LegAnswers`, `Tell` |
| `TokenStore` | `InMemoryTokenStore` and token scopes | none: operators on the list | |
| `Registration` | the handshake over it | the store, the server's `PeerState`s, each platform's handshake and `Peer`, calls under way | client: `Begin`, `Discover`, `Register`, `UpdateWith`, `Unregister`, `Receive`, `GiveUp`; server: `Authenticate`, `Handle*`; operator: `Invite`, `Reset`; network: `Lose` |
| `Wire` | `convert/wire.rs`: kinds, versions, which endpoint carries what, divergent fields | none | |
| `Shapes`, `Objects` | the members of each object in each version; documents as functions from member names | none | |
| `Convert` | every `Upgrade` and `Downgrade`, with its loss report | none | |
| `Conformance` | `Validate` of the objects that differ: the pointers reported | none | |
| `Crossing` | an object, its owner, and a peer on the other version | both documents, what is due | `Edit`, `PatchTaken`, `PatchRefused`, `PutWhole`, `PutBack` |
| `Endpoints`, `ModuleClients` | URLs; every method of every typed client: method, path, handler meant, object sent, object wanted | none | |
| `Routes`, `HandlerTraits`, `Replies` | every route; what each handler gives; errors, codes and statuses in both directions | none | |
| `Router` | one request from a client to a handler and back | what is mounted, token store, the request's stage, body, peer, outcome | `Send`, `EdgeIn`, `Match`, `Authenticate`, `ReadQuery`, `ReadBody`, `EnterContext`, `EnterHandler`, `Handle`, `EdgeOut`, `Receive`, `Close`; others: `Revoke` |
| `ConformanceRun` | the conformance runner and a peer with a fault | the peer, the objects, the runner's place, its report | `Check*` and `PageFails`, one per request; `SkipModule`; `ObjectsChange` |
| `Tariffs` | restrictions, element and tariff selection, `step_size`, rounding, tax | none: operators | |
| `Pricing` | `PricingEngine::price()`, one Charging Period a step | the session so far, segments, notes, the bill; a meter | `PricePeriod` (one turn of the loop), `RefusePeriod` (no tariff), `Finish` (all after the loop) |
| `Lint`, `TariffReview` | `lint()`; `verify_cdr` and lint held against the engine | none | |
| `PageCrawlProofs`, `ResyncProofs`, `HubProofs`, `RouterProofs`, `RegistrationProofs`, `PeerStoreProofs`, `PricingProofs`, `ConformanceRunProofs` | theorems about the module each extends | | |

How they are composed: `Hub` extends `RoutingTable`; `Registration` extends `TokenStore`;
`Router` extends `Replies` (which extends `Wire`) and `TokenStore` and instantiates
`Routes`, `HandlerTraits`, `ModuleClients` (over `Endpoints`) and `Shapes`; `Crossing`
extends `Convert`, `Objects`, `Shapes`, `Wire` and instantiates `Conformance`;
`TariffReview` extends `Pricing` (over `Tariffs`) and `Lint`; `PageCrawl` implements
`CrawlSpec` (the mapping is the `INSTANCE` at its end); `Resync` counts what moves between
two pages and assumes of a pull what `CrawlSpec` promises of a crawl: all of its window
only if the list could be followed. The `MC*` modules give the constants values.

Abstractions worth knowing:

* *Objects of a list are versions, numbered by `last_updated`.* The server sorts
  by that field, so a version's number is its place in line. Two objects of
  equal `last_updated` keep the store's order, which is the same thing.
* *A page is computed and taken in by one step.* Once computed it reads nothing
  of the list, so a change in between is a change after.
* *The hub handles one message at a time.* Two messages share only the table,
  and the table changes freely here; every interleaving of one message's legs
  with table changes is explored.
* *A document at the hub is a version number and what it carries* (`Payloads`): an
  object `for_endpoint` names a kind for, a merge patch of fields both versions agree
  about, a type no version changed, or one `for_endpoint` names no kind for though 2.1.1
  writes it otherwise (`foreign`). What carrying it does -- pass, convert, refuse
  with which code -- is modelled.
* *A store's object is its stamps*: who wrote its body and when it was last updated; a
  Location has EVSEs and these have connectors with stamps of their own. A PATCH names the
  id its object has afterwards, the same or another, and may be refused whatever it is:
  which merge leaves a valid object is data. An answer's body is not modelled, its status
  (200, 201, 404, refused) is.

* *Quantities are whole Wh and seconds, amounts whole units of
  `component_decimals`*, `Cent` of them to the currency's smallest amount. What
  is divided is rounded half away from zero, as the default policy does. The 28
  digits of a decimal are taken for exact; with whole quantities the only
  quotients that do not end are rounded at once.
* *A day is a few seconds long*, and the clock's change within it: windows past
  midnight, days of the week and dates are all met within a session of six
  seconds. A minute of `LocalTime` is a second here.
* *The meter beside the engine is the reference*: it prices each second at the
  component found for that second, and knows how far the energy has come at it.
  The engine sees whole periods only. `steady` says that every period kept, at
  each of its seconds, the components of its first: the CPO split where it SHALL.

* *The `CredentialsHandler` is the integrator's.* The one in `Registration` does
  what the trait's comment asks: 405 by `PeerState`, CREDENTIALS_TOKEN_A thrown
  away on POST, `rotate` on PUT, `remove` on DELETE. What the model can show is
  whether these operations, so used, keep store and registration in step while
  requests overlap. Only CREDENTIALS_TOKEN_A and _C, which the client calls with,
  are modelled; _B and the server's own calls are not.

* *The router serves one request at a time.* Two requests share only the token
  store, and tokens are taken out of it between any two steps. What the
  integrator's handler returns is free among what its trait allows and the
  errors of `Declines`.
* *A document at the router is the object it is and the version it is written
  in*; decoding one object as another is possible where its required members are
  there, which `Shapes` decides.
* *A document in `Convert` is a function from member names to values*; a scalar
  is a model value or a small number. `Null`, `Junk` (a value of a wrong type),
  `Unfit` (a text that is too long) and `Coined` (a value no enum of 2.2.1 has)
  stand for what the versions treat differently. A field is written as `serde`
  writes it: an empty list or an absent option is not there.
* *The peer of the conformance runner is external*: its newest version is 2.1.1, 2.2.1 or
  2.3.0, and what it answers is right but for the one fault it has. Its objects are an id
  and a `last_updated`.

Every constant that only bounds the state space is called a bound where it is
declared (`MaxVersion`, `MaxChanges`, `MaxStamp`, `MaxTime`, `LastWrite`, `Slots`,
`MaxEdits`, `MaxLength`, `MaxPeriods`). The crawl's `MaxPages` and the `MaxAttempts`
of crawl and hub are parameters of the code.

## 3. Runs

| Run | Bounds | Distinct states | What it shows |
|---|---|---|---|
| `crawl` | 3 objects, 5 versions, pages of 1, 7 pages, 2 attempts, a peer that may link a page to itself | 585,853 | the crawl is complete when the totals tell the shift, repeats at most one object a correction, keeps `CrawlInv`, implements `CrawlSpec`, and stops |
| `hub` | 3 platforms on 2.1.1, 2.2.1 and 2.3.0, 6 registrations, 9 requests, 2 attempts, window of 2, one table change per behaviour | 584,538 | no document `for_endpoint` names a kind for is misread, each attempt goes where one table said, the window holds, the sender is told the truth, and every message is answered |
| `hub_patch` | the same, one patch | | finding 1 |
| `peer_store` | 2 handlers, 3 messages of any kind, renaming or not | 153,597 | atomic unless two requests overlap on one object; 201 once per life, unless a PATCH gave an object the id |
| `resync` | overlap 2 = skew 1 + delay 1, 3 writes of 2 objects, begun before the first tick | 220,534 | nothing slips between windows but what a crawl that could not be followed passed over, and everything else is pulled at last |
| `registration` | one platform, 6 tokens, 2 calls under way | 69,978 | store and registration agree, spent tokens stay dead, no lockout without a mishap |
| `registration_rotate` | the same, inviting the registered too | | finding 2 |
| `router` | each module beside credentials, each prefix and version, every typed call and every route of the module, at most one flaw in a request, 3 objects sent for another, an error of every HTTP status and status class from the handler, one token taken back at any moment | 483,999 | calls land, in a version the handler reads; patches agree; no handler runs unguarded; strangers learn nothing; the caller is told what the handler said |
| `router_reach` | the same | | finding 3 |
| `convert` | 73 documents of the 12 kinds, of both versions, right and wrong; up to 7 edits of a kind, 2 of them made | 2,747 | a copy follows, a loss is told, a round trip settles, two validators agree |
| `conformance` | peers of 2.1.1, 2.2.1 and 2.3.0; no fault and each of 33 alone; 3 sets of interfaces; lists of up to 4 objects; pages of 2, servers of 1 and 3; one change under the run | 170,382 | each fault that shows is reported by name; nobody is failed without one, but a 2.1.1 peer for its details |
| `pricing` | 13 sessions under 12 tariffs, 5 kinds of period, up to 3 periods of 1 or 2 seconds | 148,173 | billed as metered; notes mean something; tax lines account for the totals; limits hold; an honest CDR is doubted only where the breakdown says why; a lint finding is true of the bill |

Why the bounds are enough. A crawl's correction compares two consecutive pages, so pages
of one object with two further versions put a change on every side of every page boundary,
twice. In the hub the window of 2 is smaller than a fan-out to three parties, one table
change between any two steps is what a stale snapshot needs -- between the lookup and the
send, and between two attempts, too -- and the platforms include a bridgeable and an
unbridgeable pair. Three messages on two handlers let an object be put, read for a PATCH,
put or renamed over, and written back. In `resync` skew and delay use up the overlap
exactly, the case where an off-by-one shows; three writes of two objects are what makes a
crawl rough (two departures, or one and an arrival between two pages) while an object that
stays is there to be missed. They begin at time 0, are stored as late as 1 and stamped
from -1 to 1, so that a pull planned at 0, 1, 2 or 3 finds each before, in or after its
window. Two calls let one that was given up be handled between any two steps of its
successor, or after it; the six tokens let both calls carry tokens of their own beside the
two in the store (states that hold all six cannot draw another: that bound cuts only
longer chains of lost calls). One platform is enough because the store's operations touch
the entries of one platform only.

A router decides about one request at a time, by rows of a table: one module
mounted beside credentials meets every row, and one flaw at a time shows which
of two refusals comes first when the caller is a stranger, too, since who asks
is not counted as a flaw. Two edits make a patch on top of one that was refused;
a third finds the same two documents again. One change of the objects under a
conformance run lies before, between or after any two of its requests, and no
probe compares more than two answers; authentication is always probed.

A period of two seconds can span a change or not, a change can fall on its end
or inside it, and three periods put one before, one at and one after it. The
tariffs of the runs restrict by clock (with the change to summer time, past
midnight, by date and by day), by energy, by duration and power, and by
reservation; the elements of one tariff differ in step and price, so that the
wrong element, step or rate shows in the amount.

Deadlock is checked for the hub, the registration and the router. The other
systems may stop: a crawl when it ended, a mock peer when all messages are
handled, a resync when its clock ends, a pricing when it has a bill, a crossing
when its owner makes no more edits, a conformance run when every module was
looked at.

Some properties name the places where the code departs from what they say, so
that they hold of everything else: `Gap` and `EdgeBlind` in `Router`,
`Promoted`, `NamelessHub`, `TaxesSayMore` and `OnlyAHub` in `Crossing`, `passed` in
`Resync`, `foreign` in `Hub`, `renamed` in `PeerStore`, `moved` in `Pricing`, the
antecedents of `DoubtsAreNoted`, `LintKeepsWord` and `SpansMeansChange`, and the version
2.1.1 in `ConformanceRun`. Each such place is described below
(section 4).

### Fairness

* `PageCrawl`: `WF(Caller)`, because a caller in a loop calls `next` again, and
  `WF(Answer)`, because `ClientConfig.timeout` ends every attempt. The server
  owes nothing, and a caller may drop the future at any time.
* `Hub`: `WF(Relays)` and `WF(Tell)`: each attempt ends by that timeout and the
  task that holds the fan-out is polled. Table changes are not fair.
* `Resync`: weak fairness of the clock, the server's stores and the polling
  loop; strong fairness of a page's arrival and of a pull's success, since
  `EverythingPulled` is about a connection that comes back, not one that fails
  every time.

## 4. Findings

1. **An agreed merge patch does not cross versions** (`hub_patch`).
   `carry_request` sends every body of a crossing through `ObjectKind::bridge`,
   which decodes a whole object, so a PATCH is always a `2001`. The versions page
   (`site/content/docs/concepts/versions.md:106`) promises that a patch of no
   divergent field crosses unchanged.
2. **`rotate` replaces whichever token comes first** (`registration_rotate`). With
   an invitation outstanding under the same peer id, the second credentials PUT
   removes CREDENTIALS_TOKEN_A, leaves the old token valid and gives the new one
   role A. The test `auth.rs:302` says "the old token stops working".
3. **The Commands Receiver is not where discovery says it is** (`router_reach`).
   `commands_receiver()` mounts `/commands/{command}` without the receiver prefix
   that `version_details()` puts before every Receiver URL, against "a peer's
   discovery can never disagree with what this server actually serves"
   (`router.rs`, on `OcpiRouter`).

Noted without a run of their own:

* *Hub.* A party hosted by an offline and by a connected platform is told `4003`,
  because `with_platform` takes the first that hosts it (`routing_table.rs:121`),
  against the meaning the table at `routing_table.rs:62` gives the code. Hub pages
  say a broadcast that reached nobody is `4003` under every policy, but with
  `AlwaysSucceed` only an empty target list is. `hub/mod.rs` says configuration
  modules are never routed, but nothing looks at the module. The comment in
  `carry_response` that the outbound leg already applied the policy for
  unbridgeable pairs does not hold for a request without a body (it is harmless:
  the same check is made again). The header methods of `transport/routing.rs`'s
  `RoutingScenario` are not used by the forwarder.
  The answer to a command crosses from 2.1.1 as it is: `carry_response` returns a
  document `for_endpoint` names no kind for before it asks `bridgeable`
  (`forwarder.rs:324`), and it names none for a `CommandResponse`, which at 2.1.1 has no
  `timeout` (`v2_1_1/commands.rs:32`), though the README says at line 196 that anything
  involving 2.1.1 is refused rather than relayed. `NoMisreadDocument` excepts what is `foreign`.
* *Resync.* A planned pull may skip what did not change. Two updates between two pages
  take two objects out of a closed window; the total's drop corrects the crawl by one
  (`pagination.rs:225`), `collect_all` ends `Ok`, and `last_success` advances past an
  object that was there all along, against the comment on `plan` (`resync.rs:109`: "catches
  up everything changed since `last_success`"). `incremental` has the same gap when one
  object is updated. `NothingSlips` and `EverythingPulled` except what was so `passed`.
* *Mock peer.* Two concurrent POSTs of a CDR overwrite (`peer.rs:370`): the check
  and the put take the lock separately. `put_evse`, `put_connector` and `patch`
  leave the Location's `last_updated` as it was, though `v2_3_0/locations.rs:119`
  says it covers the EVSEs, so that a pull by `date_from` misses the change.
  Only the PUT of a Location has its id compared with the URL's (`router.rs:513`); any
  other PUT is stored under the id in its body. A PATCH may give an object another id:
  the mock peer stores what the merge leaves (`peer.rs:284`), and its handler may so give
  two EVSEs of one Location one uid, the second of them out of reach, though
  `v2_3_0/locations.rs:244` says of it "Never changed or renamed" (no route of the router
  leads to the PATCH of an EVSE).
* *Router.* `DELETE` of a Tariff is mounted with a slash at its end, where the
  typed client's request is a `405`. There is no route for the PUT of a Connector,
  though `LocationsReceiver` has a method for it, nor for the PATCH of an EVSE or
  a Connector. On a router that translates, the `CommandResult` of START_SESSION
  and RESERVE_NOW is taken for the command and refused. A receiver prefix written
  with a slash is trimmed by the router and not by the edge (`bridge.rs:164`),
  which then translates no Receiver request. The edge reads a body before
  anybody is authenticated; answers made by the edge, by the page query's extractor
  or by axum carry no request ids (`server/error.rs:11` says every answer does).
  A handler that passes on a peer's success code in an error is read as success.
  A caller sees `Unsupported` as a `3000` of the peer, which looks transient.
* *Conversion.* Silent losses, against "A conversion never silently drops anything"
  (`site/content/docs/concepts/versions.md:58`): an extension on a tax amount that is
  folded into `incl_vat`; a HUB role or `hub_party_id` whose party is malformed; any HUB
  role but the first, and the business details of that (`v2_2_1_v2_3_0.rs:956`). An
  extension of 2.2.1 named like a 2.3.0 field becomes it, and is lost by a GET and PUT.
  `Patch::apply` validates the whole copy, so that an object whose copy does not conform
  refuses every patch. An MCS connector keeps its standard as text, which 2.2.1's
  validator refuses; a negative tax makes `incl_vat` less than `excl_vat`; credentials
  with nothing but a HUB role upgrade to an empty list of roles.
* *Conformance runner.* A faultless peer fails `module.offset` when its objects
  change between the two pages compared (`conformance.rs:735`; the comment at line
  75 says a failure contradicts the specification). Objects of any version are
  decoded as 2.3.0's, which warns of right CDRs of 2.2.1. A peer that answers an
  unauthenticated request with HTTP 200 and an OCPI error, or no data, is warned only.
  A 2.1.1 peer without fault fails `details.get` and is not examined further: its
  endpoints have no role, which `v2_3_0::Endpoint` requires, and no code gives it the
  default `v2_1_1/mod.rs:44` speaks of.
* *Tariffs.* Where the limit applied last names no amount after tax, `finish` replaces the
  total after tax by the base with its tax in proportion (`engine.rs:541`) and compares it
  with no limit again. A minimum of 6.00 under a maximum of 7.00 after tax is billed 7.50
  at 25 %, though `v2_3_0/tariffs.rs:63` says that a session "will cost at most this
  amount"; and a maximum before tax can push the total below `min_price.after_taxes`,
  against "the total cost of a Charging Session after taxes can never be lower" quoted at
  `engine.rs:430`. `WithinLimits` excepts both (`moved`). A limit in fractions of a cent
  is rounded like the bill, so that a maximum of half a cent may be passed by half a cent,
  and a maximum after tax that is lower than the base leaves the base: `WithinLimits` says
  so. `build_at_end` goes back one second before the period's end for the time, but counts
  all its energy, so that a split exactly at an energy threshold is told to need review
  (`engine.rs:882`, against the comment at `engine.rs:860`). An honest CDR may be called
  inconsistent where no component prices what was measured (`verify.rs:268`, against
  `site/content/docs/layers/tariffs.md:235`); and `verify.rs:213` looks at whether parking
  and reservation cost nothing, not whether there were any. Lint contradicts the engine in
  three findings. An element it calls unreachable (`lint.rs:53`: "can never price a
  dimension") prices reserved time, which passes an unrestricted element by
  (`engine.rs:961`). A `step_size` it calls unused (`lint.rs:86`: "can never be applied")
  is applied where nobody parked (`engine.rs:289`). An empty range of power (`lint.rs:68`:
  "can never apply") applies where power was measured on both sides of it (`input.rs:77`).
  `finish` does not move the tax with the base when the limit that binds before tax has an
  `after_taxes` that does not bind (`TaxesAccount` holds all the same). The engine's
  comment speaks of a period that is nothing but a reservation, the code takes any period
  with reserved time.

## 5. Proofs

`PageCrawlProofs` proves, for every list, page size, page budget and number of
attempts (`CrawlAssumption`):

* `CrawlInvariance`: `Spec => []CrawlInv`. `CrawlComplete` is not inductive: it
  speaks of the end only. `CrawlInv` says why the end is good: the URL in hand
  `Covers` everything not yet held. Its offset is at most the rank of the first
  missing object plus the departures since the last page. A departure moves an
  object forward by one and adds one to `departed`; the page that arrives resets
  `departed`, and then either nothing had departed, or the total shows the one
  that did and the refetch is one object earlier. `Remembers` ties the remembered
  total to the list, which is what makes the total's drop equal to the shift;
  `OneCursor` and `Over` say that link, request and buffer exclude each other, so
  a failure leaves none. Lemmas about `Rank` (how a departure, an arrival at the
  end and the size of the window bound it) carry the arithmetic.
* `TypeCorrectness`, `Completeness`: its consequences `TypeOK`, `CrawlComplete`.
* `RewindsRepeatOne`: `Spec => []RewindRepeatsOne`. `RepeatInv` counts beside what
  was yielded what may still be: the buffered items not yet delivered, and those that a
  rewound fetch will bring again.
* `Refinement`: `Spec => KeepsPromise`, every step is a step of `CrawlSpec` or a
  stutter, the end being allowed because of `CrawlInv`.

`ResyncProofs` proves, for every overlap with `Skew + Delay <= Overlap`
(`OverlapSuffices`, what the comment on `DEFAULT_OVERLAP` says the default is
for) and any objects and bounds:

* `ResyncInvariance`: `Spec => []ResyncInv`. `NothingSlips` needs to know what a
  running pull cannot see: `LateIsYoung` (what is stored while it runs is stamped
  no earlier than its start less the overlap), which needs `PendingYoung` (a
  write not yet stored is young and its stamp not far behind). What was there when the
  pull began and still is, a smooth crawl brings; a rough one that ends `Ok` puts it into
  `passed`, the one exception the property has (section 4 says how it comes about).
* `NoChangeIsLost`, `ResyncTypes`: the consequences `NothingSlips`, `TypeOK`.

`HubProofs` proves, for every number of platforms, parties, registrations,
requests, concurrent calls and table changes (`HubAssumption`,
`RoutingTableAssumption`):

* `HubTypes`, `HubNoMisread`, `HubTellsTheTruth`: consequences of `HubInv`, whose parts
  are `TableOK` (every record is one that `upsert` or `set_status` may leave), `TargetsOK`
  (targets are finite and in one order, none of them the sender), `LegsOK` (what a call
  that waits, is out or is done has in its fields; a document that was handed on, and not
  `foreign`, was in its reader's version) and `PhaseOK` (a message that was answered has
  no call that is not done, and one that is no fan-out has one call at most). The first
  failure exists because a nonempty set of targets has a first element (`FiniteMinimum`,
  from the library's theorem that strict inclusion of finite sets is well-founded).
* `HubAsksByOneTable`: `Spec => []AskedByOneTable`. `held` is every table there was since
  the message came. What a leg copied from the record at its lookup stands in one of
  them, with the version its body was carried to; sends and retries change nothing of it,
  and an answer is carried back from that version. `Lookup` is 1000 only for a platform
  that hosts the party and is connected, and otherwise names a table that says so.
* `HubFanOutBounded`: with `WindowInv`, its inductive half: who stands a window
  behind a call that is not done has not been asked. That the calls under way then
  fit the window is a count over an interval of places.

`RouterProofs` proves, whatever is mounted, whoever asks with whatever flaws, and
whenever tokens are taken back:

* `GuardedHandlers`: `Spec => []Guarded`. `GuardInv` says what each stage knows:
  from authentication on the caller is one the store had, from the context on he
  has scope and, on an owned path, is the owner; a handler's outcome is there only
  after both.
* `ErrorsAreRead`: for every error of `OcpiError` and every kind of call, writing it
  as a reply and reading the reply back keeps its status code, unless it is a code
  of success.
* `StrangersAreTold`: `Spec => []StrangersTold`, from an invariant (`StrangerInv`) that
  says what a stranger's request can have come to at each stage.
* `NothingIsMisread`, `PatchesAgree`: `Spec => []NoMisread`, `Spec => []PatchAgrees`.
  `CourseInv` says that a request is one of the calls there are and, while it is served,
  that it fits the route it was matched to; `BodyInv` that what has arrived is then the
  object the call sends, in the canonical model, or sent for another by mistake, which
  the decoder refuses. The first needs that the three tables agree: the paths of the
  typed clients (`ModuleClients`, `Endpoints`), the rows of `OcpiRouter` (`Routes`) and
  what the edge reads off a path (`Wire`). `MatchedMeets` shows it line by line and row by
  row: a route a request fits is a row of the module of its call
  (`Found`), for the same interface wherever the edge or the path tells them
  apart, and takes what the call sends (`Meets`). `EdgeReads` is the edge's side, where
  it can tell the interface (`Sighted`: under a prefix with a slash, `EdgeBlind`, it takes
  every path for the Sender's; section 4).
* `OutcomesAreTold`: `Spec => []OutcomeTold`. `AnswerInv` says of an answer on its way back
  what the handler returned, and in which version it stands; `CallsReturn` that what a
  handler returns is what the typed clients' calls expect, and `ErrorsAreRead` the rest.
  It rests on `DeclinesAssumption`: what an application's handler declines with is an
  `OcpiError`, which is the type of its result.
* `CallsAreLanded`: `Spec => []CallsLand`. That what is matched is meant (`MatchedMeets`)
  is half of it; the other half is that something is matched, and that nothing on the way
  to the handler refuses. `OpenLands` proves the first: for every call of a typed client
  but the gaps the request itself shows (`Open`) there is a route of its method at its
  path. The rows of a module have few patterns (`Patterns`), every route under the base of
  an interface has one of them (`RoutesAreFormed`, `Reached`), and a row that a request
  fits lands it if no other pattern that fits beats it (`AimedLands`): most modules have
  no two patterns of one length (`SpacedApart`), charging profiles and payments tell them
  apart by a static segment, which beats a capture (`StaticBeats`). `LandInv` proves the
  second, step by step: while the caller is known, a request with no flaw is answered by
  its handler only, and until then it is the caller's. The invariant needs the store to
  know nobody but those it began with (it only shrinks), and of `BodyInv` that the edge
  has the object for the kind it reads (`EdgePasses`, `ResultsPass`), the decoder the
  object of the row (`BodyPasses`), and a command's handler what its name stands for
  (`HandlerPasses`). A caller whose token is taken back halfway is no longer `Blameless`.

`RegistrationProofs` proves, for any platforms, tokens and number of requests under
way (`RegistrationAssumption`), if no registered platform is invited
(`~Reinvites`; finding 2 is what happens otherwise):

* `StoreAndStateAgree`, `SpentTokensStayDead`, `AnsweredCallsLockNobodyOut` and
  `RegistrationTypes`: consequences of `RegInv`. `EntriesOK` says the token store has
  one place for each platform the server expects, with what it gave it; `OwnedOK` that
  no platform holds, or has in a message, what another was given, which is why a
  handler runs for the platform that called (`RequestsOK`) and why taking a token back
  hits one platform; `SpentOK` that nothing spent is in use; `InOrder` that, short of
  a mishap, a platform has no request but the one it waits for, and what it uses, or an
  answer on its way brings, is the server's token.
* `WithoutKeeps`, `AppendKeeps`, `RemoveAtKeeps`, `ResolveFinds`: what the operations of
  the token store do to the list. `Without` is a recursive function; what it keeps is
  shown for the first n places, as a smallest n for which it were not so cannot be
  (`UpTo`).

`PeerStoreProofs` proves, for any number of handlers, objects and messages
(`PeerStoreAssumption`: nothing that can be deleted is patched):

* `HandlersAreAtomic`, `IdsAreCreatedOnce`: consequences of `StoreInv`. The second counts
  an id once more or less if a PATCH gave it to an object (`renamed`). Its parts are
  `MergesLive` (what will be put back patched is not deleted in between, because
  Tariffs, which alone are deleted, have no PATCH) and `Undisturbed` (as long as no two
  handlers overlapped on one object, what a handler read is what is there). `Stored`
  shows once, for every put and remove, what it leaves alone: handlers that read
  another object.
* `StoresKeepTheirTypes`: `TypeOK`, with what a handler between its get and its put
  holds (`TypeInv`).

`PricingProofs` proves, for every session, tariff, number and kind of periods
(`PricingAssumption`: prices, quantities, limits and the bounds of restrictions are
whole numbers of their units, and the lists are lists):

* `BillsAccount`: `Spec => []TaxesAccount`. The invariant `IInv` says that every segment
  has a price (`AreSegments`), because a segment is made only where a component was
  found (`FoundIs`, `SelectedIs`); so the totals and the lines of tax are whole numbers.
  `LinesComeTo` then shows that the published lines come to what the totals differ by:
  all but the last are rounded shares, and the last is the rest.
* `BillsKeepLimits`: `Spec => []WithinLimits`, for any limits. What is claimed is what
  `finish` does: a total is held at the rounded limit. `RoundsInOrder` and `RoundsNear`
  say that rounding keeps an order and is idempotent on cents, `LiftedIs` what the minimum
  leaves and `HeldBack` what the maximum leaves of that. Where the two cross the maximum
  counts, because it comes last.
* `NoFalseSpans`: `Spec => []SpansMeansChange`. Where no restriction reads the energy,
  the context `Spans` looks at is, but for the energy, the meter's at the last second
  (`EnergyApart`), so that a period steady at each second spans nothing.
* `BillsAreMetered`: `Spec => []BilledAsMetered`, if nobody parks for a negative time
  (`ParkingLasts`). A `Tally` is what the segments of one dimension come to: how much,
  what it is worth, and the last of them. `PeriodTallies` says what a period adds to
  each. `MeterInv` says that in a steady session the meter reads the tallies:
  `SteadyMeter` shows that the seconds of a steady period are each worth the same, so
  that their sum is a product (`ConstantSum`), and `SteadySingle`, `SteadyTime` and
  `SteadyFlat` that the segments of the period come to that product. What is billed is
  then the tally and the surplus of the last segment (`StatedIs`).
* `HonestCdrsPass`: `Spec => []DoubtsAreNoted`. `DoubtInv` compares the tallies with what
  the session consumed: they part only where a note says so.
* `LintIsRight`: `Spec => []LintKeepsWord`, if the tariffs of a session have distinct ids
  and a time zone is a whole number of seconds (`DistinctTariffs`, `ClocksShow`).
  `ReviewInv` keeps, for each segment, the context its component was found in;
  `SelectedBecause` and `AppliedIs` unfold why that component and no other, and every
  finding contradicts it -- as far as `LintKeepsWord` goes: it claims nothing of reserved
  time behind an unrestricted element, of a `step_size` where nobody parked, nor of ranges
  of power and current (section 4).

All rest on what a sum is. `Total` is a fold, which takes its terms in an order
nobody knows: `SumIs` unfolds it once, and `SumTakes` shows that any term may be taken
first, by induction over the subsets of a finite set (`BySubsets`). `SumIn` gives what
all terms, and every sum of two, have in common. `QuotientIs`, `RoundedIs` and
`CentsStay` are what the proofs need of division and rounding.

`ConformanceRunProofs` proves, for every set of peers, lists of objects with distinct ids,
page sizes of the peers and of the runner, and number of changes
(`ConformanceAssumption`; `FaultsAreNamed`: a peer has only faults the module knows):

* `NobodyIsBlamed`: `Spec => BlamelessUnlessShifted`. `RunInvariance` gives the course of a
  run (`RunInv`): the first page the runner compares with is the one the peer would still
  send, unless its objects changed since. `FaultlessStep` then goes through the checks one
  by one: of a peer without fault every one comes out passed, skipped or as a warning, but
  the offset's, which compares `first` with a page of the changed list, and a 2.1.1
  peer's details, where the run ends.
* `EveryFaultIsFound`: `Spec => []FaultsAreFound`. `FoundInv` says which faults are `Due`
  at each point of the run, by the place they show in (`FaultsAre`), and that what is due
  has been reported; `VersionsFound`, `DetailsFound`, `EndpointsFound`, `TokensFound`,
  `PageFound`, `OffsetFound` and `DatesFound` show it for the check that is to find it,
  and `SenderIs` that no fault found later keeps the runner from getting there. At the end
  everything is due, because only a fault of the first two answers ends a run early
  (`Ending`). Of a 2.1.1 peer that is the case, too, so that of its faults only those that
  show before its details are `Due`.
* `ListedIs`, `PageIs`, `MatchingIs`, `NewestIs`: what the lists and pages of the peer
  hold. The order of its Sender interfaces is any (`SetToSeqIs`), and `UrlOf` finds the
  first of them by name. What `ChangedSince` leaves out is shown for the first n objects.

Where an argument is by induction it is over the numbers up to n, or over the subsets of a
finite set: the smallest exception (`FiniteMinimum`, `LeastNumber`) cannot be one (`UpTo`,
`BySubsets`). The modules that need these facts prove them, each for itself: no two of
them extend one specification.

The proofs assume only the named assumptions on constants. Liveness
(`Terminates`, `EveryMessageTold`, `EverythingPulled`) is model-checked only:
fairness and ENABLED are out of the prover's reach. So is what needs induction
over data or a RECURSIVE operator: `Convert`, `Conformance` and `Crossing`, whose
invariants (`TypeOK`, `CopyFollows`, `RoundTripTold`, `Settles`, `JudgedAlike`) say what
the converters and validators make of documents, each read by recursion over its parts.
They are the only invariants of the passing runs that no theorem states.

## 6. Plan

Done: all modules above. What is left, in the order it is worth doing:

1. Two hubs one behind the other: a document that crosses twice.
2. `splayed_interval` and the retry delay as arithmetic with their bounds.
3. `Validate` of the objects that are the same in both versions, bookings and 2.1.1.

## 7. Not modelled

Serialisation and formatting of scalars; headers other than `Authorization`, and
TLS; the wording of messages; loss notes in status messages; the command line
tool, samples, xtask, fuzz targets and site. Of the object models: 2.1.1, and the
rules of the objects that are the same in 2.2.1 and 2.3.0. Of the engine:
`check_range`, which bounds numbers. `PeerRegistry` is a map nothing in `src/`
reads. The mock peer's `credentials` handlers keep no state, as their comment says.

Hazards left out of the list because no property would say more than the code:
a splay of 1.0 may shrink a polling interval to nothing (`resync.rs:145`); nothing
compares the version in fetched details with the one selected
(`registration.rs:193`). Hazards in the list that no property catches say so in a note:
a message overtaken by a newer one is applied as it arrives, a party on two platforms
is told twice, a split at an energy threshold is noted, and an extension of 2.2.1 may
become a field of 2.3.0.
