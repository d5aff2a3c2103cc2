------------------------------ MODULE Pricing ------------------------------
(***************************************************************************)
(* PricingEngine::price() of tariffs/engine.rs: Charging Periods are priced *)
(* one by one, each at the rate of its start, and at the end the step_size  *)
(* is applied to the session as a whole, tax split off or put on top, and   *)
(* the price limits enforced.                                              *)
(*                                                                         *)
(* Beside the engine runs a meter, which prices every second of the same    *)
(* session at the rate of that second: what the tariff says.               *)
(***************************************************************************)
EXTENDS Tariffs

CONSTANTS
    Sessions,    \* start, wanted, expired and the tariffs to price with
    Periods,     \* the Charging Periods of CDRs: volumes of a second, by CdrDimensionType
    MaxLength,   \* bound: seconds a period lasts
    MaxPeriods   \* bound: periods of a session

IsList(s) == Len(s) \in Nat /\ DOMAIN s = 1..Len(s)
IsComponent(c) == c.price \in Int /\ c.vat \in Int \cup {None} /\ c.step_size \in Nat
IsLimit(l) == l = None \/ (l.before_taxes \in Int /\ l.after_taxes \in Int \cup {None})
AreBounds(r) ==
    /\ DOMAIN r.min \subseteq Measures /\ DOMAIN r.max \subseteq Measures
    /\ \A m \in DOMAIN r.min : r.min[m] \in Int
    /\ \A m \in DOMAIN r.max : r.max[m] \in Int
IsTariff(t) ==
    /\ IsList(t.elements)
    /\ \A e \in DOMAIN t.elements :
          LET components == t.elements[e].price_components
          IN  /\ AreBounds(t.elements[e].restrictions)
              /\ IsList(components) /\ \A c \in DOMAIN components : IsComponent(components[c])
    /\ t.from \in Int \cup {None} /\ t.until \in Int \cup {None}
    /\ IsLimit(t.min_price) /\ IsLimit(t.max_price)

ASSUME PricingAssumption ==
    /\ Cent \in Nat \ {0} /\ DayLength \in Nat \ {0} /\ MaxLength \in Nat
    /\ None \notin Int
    /\ \A s \in Sessions :
          /\ s.start \in Int
          /\ IsList(s.tariffs) /\ \A i \in DOMAIN s.tariffs : IsTariff(s.tariffs[i])
    /\ \A p \in Periods : \A t \in DOMAIN p.dimensions : p.dimensions[t] \in Int

VARIABLES
    session,
    starts,      \* of the periods priced so far
    clock,       \* the end of the last one, or None: an open session's is not known
    used,        \* energy_before(index), and what else the periods add up to
    segments,
    flat_charged,
    notes,
    bill,        \* the CostBreakdown, when there is one
    meter,       \* history: what the meter has counted
    steady       \* history: did every period keep to the price of its start?

pvars == <<session, starts, clock, used, segments, flat_charged, notes, bill, meter, steady>>

Pricing == [state |-> "pricing"]
Failed == [state |-> "failed"]

Init ==
    /\ session \in Sessions
    /\ starts = <<>>
    /\ clock = session.start
    /\ used = [d \in Dimensions |-> 0]
    /\ segments = <<>>
    /\ flat_charged = FALSE
    /\ notes = {}
    /\ bill = IF session.tariffs = <<>> THEN Failed ELSE Pricing
    /\ meter = [d \in Dimensions |-> [quantity |-> 0, cost |-> 0, price |-> 0, step |-> 0]]
    /\ steady = TRUE

-----------------------------------------------------------------------------
(* PricedSession::from_cdr(): what of a Charging Period is priced. Time     *)
(* after a reservation is not, and one that expired is reserved time.      *)

PeriodFrom(source) ==
    LET volume(t) == IF t \in DOMAIN source.dimensions THEN source.dimensions[t] ELSE 0
        measure(t) == IF t \in DOMAIN source.dimensions THEN source.dimensions[t] ELSE None
    IN  [energy |-> volume("ENERGY"), charging |-> volume("TIME"), parking |-> volume("PARKING_TIME"),
         reserved |-> volume("RESERVATION_TIME") + volume("RESERVATION_EXPIRES"),
         min |-> [current |-> measure("MIN_CURRENT"), power |-> measure("MIN_POWER")],
         max |-> [current |-> measure("MAX_CURRENT"), power |-> measure("MAX_POWER")],
         tariff_id |-> source.tariff_id]

Kinds == {PeriodFrom(source) : source \in Periods}

-----------------------------------------------------------------------------
(* The loop over the periods.                                              *)

(* What a period consumed, in the order the dimensions are evaluated.      *)
Parts(kind, length) ==
    LET of(d, rate, reserving) == [dimension |-> d, quantity |-> rate * length, reserving |-> reserving]
    IN  <<of("ENERGY", kind.energy, FALSE), of("TIME", kind.charging, FALSE),
          of("TIME", kind.reserved, TRUE), of("PARKING_TIME", kind.parking, FALSE)>>
Quantities(kind, length) == {q \in Seqs!ToSet(Parts(kind, length)) : q.quantity # 0}

AtStart(kind, reserving) ==
    ContextAt(session, kind, clock, used["ENERGY"], reserving)

(* Plausible slip: the instant of the end is taken for the period's last.   *)
AtEnd_Closed(kind, length, end, reserving) ==
    ContextAt(session, kind, end, used["ENERGY"] + kind.energy * length, reserving)

(* The last second before the end, with all that the period consumed.      *)
AtEnd(kind, length, end, reserving) ==
    ContextAt(session, kind, end - 1, used["ENERGY"] + kind.energy * length, reserving)

(* Would another component apply by the end? A second cannot span anything. *)
Spans(tariff, kind, length, end, q) ==
    /\ end # None
    /\ end - 1 > clock
    /\ LET later == FindComponent(tariff, q.dimension, AtEnd(kind, length, end, q.reserving))
       IN  later \notin {None, FindComponent(tariff, q.dimension, AtStart(kind, q.reserving))}

Segment(tariff, found, q) ==
    LET component == Component(tariff, found)
    IN  [dimension |-> q.dimension, quantity |-> q.quantity, start |-> clock,
         reserved |-> q.reserving, price |-> component.price, vat |-> component.vat,
         step_size |-> component.step_size, basis |-> tariff.basis,
         tariff |-> tariff.id, applied |-> found]

Note(code, at, dimension) == [code |-> code, at |-> at, dimension |-> dimension]

(* The start fee, for consumed time or, in a period of reserved time too,   *)
(* for that.                                                               *)
FlatFound(tariff, kind, charging, reserved) ==
    LET found == FindComponent(tariff, "FLAT", charging)
    IN  IF found # None \/ kind.reserved = 0 THEN found
        ELSE FindComponent(tariff, "FLAT", reserved)

FlatAtStart(tariff, kind) ==
    FlatFound(tariff, kind, AtStart(kind, FALSE), AtStart(kind, TRUE))

ChargesFlat(found) == ~flat_charged /\ found # None

FlatSegment(tariff, kind) ==
    LET reserving == FindComponent(tariff, "FLAT", AtStart(kind, FALSE)) = None
    IN  [Segment(tariff, FlatAtStart(tariff, kind),
                 [dimension |-> "FLAT", quantity |-> 1, reserving |-> reserving])
            EXCEPT !.step_size = 0]

Priced(tariff, kind, length) ==
    {q \in Quantities(kind, length) :
        FindComponent(tariff, q.dimension, AtStart(kind, q.reserving)) # None}

(* first_out_of_order(): only the first is noted.                          *)
OutOfOrder ==
    IF starts # <<>> /\ clock <= Seqs!Last(starts) /\ \A n \in notes : n.code # "PeriodsOutOfOrder"
    THEN {clock} ELSE {}

PeriodNotes(tariff, kind, length, end) ==
    LET priced == Priced(tariff, kind, length)
    IN  {Note("NoPriceComponent", clock, q.dimension) : q \in Quantities(kind, length) \ priced}
        \cup {Note("PeriodSpansPriceChange", clock, q.dimension) :
                 q \in {q \in priced : Spans(tariff, kind, length, end, q)}}
        \cup {Note("PeriodsOutOfOrder", at, None) : at \in OutOfOrder}

-----------------------------------------------------------------------------
(* The meter. It knows a period's energy at every second of it.            *)

Seconds(length) == clock..(clock + length - 1)

AtSecond(kind, t, reserving) ==
    ContextAt(session, kind, t, used["ENERGY"] + kind.energy * (t - clock), reserving)

FlatAt(tariff, kind, t) ==
    FlatFound(tariff, kind, AtSecond(kind, t, FALSE), AtSecond(kind, t, TRUE))

(* What is consumed of a dimension in a second, priced: at most two parts,   *)
(* and the reserved one is the last.                                       *)
Metered(tariff, kind, t, dimension) ==
    {q \in Quantities(kind, 1) :
        /\ q.dimension = dimension
        /\ FindComponent(tariff, dimension, AtSecond(kind, t, q.reserving)) # None}

LastPart(parts) == CHOOSE q \in parts : q.reserving \/ \A o \in parts : ~o.reserving

RateAt(tariff, kind, t, q) ==
    Component(tariff, FindComponent(tariff, q.dimension, AtSecond(kind, t, q.reserving)))

MeteredPeriod(tariff, kind, length) ==
    [d \in Dimensions |->
        LET parts(t) == Metered(tariff, kind, t, d)
            counted == {t \in Seconds(length) : parts(t) # {}}
            charged == {t \in Seconds(length) : FlatAt(tariff, kind, t) # None}
            now == Component(tariff, FlatAt(tariff, kind, Least(charged)))
            last == RateAt(tariff, kind, Greatest(counted),
                           LastPart(parts(Greatest(counted))))
        IN  IF d = "FLAT"
            THEN IF meter[d].quantity = 1 \/ charged = {} THEN meter[d]
                 ELSE [quantity |-> 1, cost |-> now.price, price |-> now.price, step |-> 0]
            ELSE IF counted = {} THEN meter[d]
            ELSE [quantity |-> meter[d].quantity
                      + Total(counted, LAMBDA t : Total(parts(t), LAMBDA q : q.quantity)),
                  cost |-> meter[d].cost
                      + Total(counted, LAMBDA t : Total(parts(t),
                            LAMBDA q : q.quantity * RateAt(tariff, kind, t, q).price)),
                  price |-> last.price, step |-> last.step_size]]

(* Is the period priced at each of its seconds as at its first?            *)
KeepsPrice(tariff, kind, length, dimension) ==
    \A t \in Seconds(length) :
        IF dimension = "FLAT"
        THEN FlatAt(tariff, kind, t) = FlatAtStart(tariff, kind)
        ELSE \A q \in Quantities(kind, 1) : q.dimension = dimension =>
                 FindComponent(tariff, dimension, AtSecond(kind, t, q.reserving))
                    = FindComponent(tariff, dimension, AtStart(kind, q.reserving))

-----------------------------------------------------------------------------

TariffOf(kind) == SelectTariff(session.tariffs, session.wanted, kind.tariff_id, clock)

(* One period. The next begins where it ends, or, in a list that lost its   *)
(* order, where it began; a session may not have ended yet.                *)
PricePeriod(kind, length) ==
    LET tariff == TariffOf(kind)
        flat == FlatAtStart(tariff, kind)
        part == Parts(kind, length)
        segmentOf(q) ==
            IF q \in Priced(tariff, kind, length)
            THEN <<Segment(tariff, FindComponent(tariff, q.dimension, AtStart(kind, q.reserving)), q)>>
            ELSE <<>>
        start == ChargesFlat(flat)
    IN  /\ bill = Pricing
        /\ clock # None
        /\ Len(starts) < MaxPeriods
        /\ tariff # None
        /\ segments' = segments \o segmentOf(part[1]) \o segmentOf(part[2]) \o segmentOf(part[3])
                                \o segmentOf(part[4])
                                \o IF start THEN <<FlatSegment(tariff, kind)>> ELSE <<>>
        /\ flat_charged' = (flat_charged \/ start)
        /\ \E end \in {clock + length, clock, None} :
              /\ clock' = end
              /\ notes' = notes \cup PeriodNotes(tariff, kind, length, end)
              /\ steady' = (/\ steady
                            /\ end # clock
                            /\ \A d \in Dimensions : KeepsPrice(tariff, kind, length, d))
        /\ used' = [d \in Dimensions |-> used[d] + Total(
               {q \in Quantities(kind, length) : q.dimension = d}, LAMBDA q : q.quantity)]
        /\ meter' = MeteredPeriod(tariff, kind, length)
        /\ starts' = Append(starts, clock)
        /\ UNCHANGED <<session, bill>>

(* UnknownTariff, or NoActiveTariff: the whole session is not priced.      *)
RefusePeriod(kind) ==
    /\ bill = Pricing
    /\ clock # None
    /\ Len(starts) < MaxPeriods
    /\ TariffOf(kind) = None
    /\ bill' = Failed
    /\ UNCHANGED <<session, starts, clock, used, segments, flat_charged, notes, meter, steady>>
-----------------------------------------------------------------------------
(* quantise_and_cost().                                                    *)

Of(dimension) == {i \in DOMAIN segments : segments[i].dimension = dimension}
Measured(dimension) == Total(Of(dimension), LAMBDA i : segments[i].quantity)

(* Plausible slip: TIME is rounded up though PARKING_TIME follows.         *)
IsQuantised_Both(dimension) == dimension # "FLAT"

(* ENERGY, and of the two times PARKING_TIME if there is any.              *)
IsQuantised(dimension) ==
    \/ dimension \in {"ENERGY", "PARKING_TIME"}
    \/ dimension = "TIME" /\ Of("PARKING_TIME") = {}

(* What is billed beyond what was measured, at the last segment's rate.    *)
Surplus(dimension) ==
    IF Of(dimension) = {} \/ ~IsQuantised(dimension) THEN 0
    ELSE Quantised(Measured(dimension), segments[Greatest(Of(dimension))].step_size) - Measured(dimension)

Billed(i) ==
    segments[i].quantity
        + IF i = Greatest(Of(segments[i].dimension)) THEN Surplus(segments[i].dimension) ELSE 0

Stated(i) == Billed(i) * segments[i].price
Cost(i) == Net(Stated(i), segments[i].vat, segments[i].basis)
TaxOf(i) == Tax(Stated(i), segments[i].vat, segments[i].basis)

-----------------------------------------------------------------------------
(* finish() and present_taxes().                                           *)

RawExcl == Total(DOMAIN segments, LAMBDA i : Cost(i))
RawVat == Total(DOMAIN segments, LAMBDA i : TaxOf(i))

(* A line of tax for each percentage, but for what is no tax at all.       *)
RawLines ==
    LET taxed == {i \in DOMAIN segments :
                     TaxOf(i) # 0 \/ (segments[i].vat # None /\ segments[i].basis # "NOT_APPLICABLE")}
        of(p) == {i \in taxed : segments[i].vat = p}
    IN  [p \in {segments[i].vat : i \in taxed} |->
            [taxable |-> Total(of(p), LAMBDA i : Cost(i)),
             amount |-> Total(of(p), LAMBDA i : TaxOf(i))]]

(* One price limit, below or above: the totals it leaves.                  *)
Limited(totals, limit, name) ==
    LET beyond(total, bound) == IF name = "Minimum" THEN total < bound ELSE total > bound
        hitsExcl == limit # None /\ beyond(totals.excl, limit.before_taxes)
        hitsIncl == limit # None /\ limit.after_taxes # None /\ beyond(totals.incl, limit.after_taxes)
    IN  [excl |-> IF hitsExcl THEN RoundCurrency(limit.before_taxes) ELSE totals.excl,
         incl |-> IF hitsIncl THEN RoundCurrency(limit.after_taxes) ELSE totals.incl,
         limit |-> IF hitsExcl \/ hitsIncl THEN name ELSE totals.limit]

(* Plausible slip: the tax moves with the base though after_taxes is given. *)
Clamped_AlwaysScales(tariff) ==
    LET metered == [excl |-> RoundCurrency(RawExcl), incl |-> RoundCurrency(RawExcl + RawVat), limit |-> None]
        raised == Limited(metered, tariff.min_price, "Minimum")
        held == Limited(raised, tariff.max_price, "Maximum")
        scaled == IF RawExcl = 0 THEN held.excl
                  ELSE Rounded((RawExcl + RawVat) * held.excl, RawExcl, Cent)
    IN  [held EXCEPT !.incl = IF held.limit = None THEN Greatest({@, held.excl})
                              ELSE Greatest({scaled, held.excl})]

(* The totals after min_price and max_price. Where the limit that was       *)
(* applied last says nothing of what is owed after tax, the tax moves with  *)
(* the base, in proportion.                                                *)
Clamped(tariff) ==
    LET metered == [excl |-> RoundCurrency(RawExcl), incl |-> RoundCurrency(RawExcl + RawVat), limit |-> None]
        raised == Limited(metered, tariff.min_price, "Minimum")
        held == Limited(raised, tariff.max_price, "Maximum")
        bound == IF held.limit = "Minimum" THEN tariff.min_price ELSE tariff.max_price
        scaled == IF RawExcl = 0 THEN held.excl
                  ELSE Rounded((RawExcl + RawVat) * held.excl, RawExcl, Cent)
        incl == IF held.limit # None /\ bound.after_taxes = None THEN scaled ELSE held.incl
    IN  [held EXCEPT !.incl = Greatest({incl, held.excl})]

(* Plausible slip: every line is rounded on its own.                       *)
PresentTaxes_Alone(lines, totals) ==
    [p \in DOMAIN lines |-> [lines[p] EXCEPT !.taxable = RoundCurrency(@), !.amount = RoundCurrency(@)]]

(* The lines as they are published, by their percentage: rounded, and what  *)
(* they lack or have too much of what is owed is the last one's.            *)
PresentTaxes(lines, totals) ==
    LET owed == totals.incl - totals.excl
        current == Total(DOMAIN lines, LAMBDA p : lines[p].amount)
        last == Greatest(DOMAIN lines)
        taxable(p) == IF totals.limit = None \/ RawExcl = 0 THEN RoundCurrency(lines[p].taxable)
                      ELSE Rounded(lines[p].taxable * totals.excl, RawExcl, Cent)
        share(p) == Rounded(lines[p].amount * owed, current, Cent)
        amount(p) == IF current = 0 THEN 0
                     ELSE IF p # last THEN share(p)
                     ELSE owed - Total(DOMAIN lines \ {last}, LAMBDA o : share(o))
    IN  IF current = 0 /\ owed # 0
        THEN [p \in {None} |-> [taxable |-> totals.excl, amount |-> owed]]
        ELSE [p \in DOMAIN lines |-> [taxable |-> taxable(p), amount |-> amount(p)]]

BillNotes(totals, incl) ==
    LET code == [TaxIncludedWithoutRate |-> \E s \in Seqs!ToSet(segments) : s.basis = "INCLUDED" /\ s.vat = None,
                 TaxRateIgnored |-> \E s \in Seqs!ToSet(segments) : s.basis = "NOT_APPLICABLE" /\ s.vat # None,
                 MixedTaxBasis |-> \E s, t \in Seqs!ToSet(segments) : s.basis # t.basis,
                 TotalClamped |-> totals.limit # None,
                 NegativeTax |-> totals.limit = None /\ totals.incl > incl,
                 UnattributedTax |-> totals.incl # totals.excl
                     /\ Total(DOMAIN segments, LAMBDA i : TaxOf(i)) = 0]
    IN  {Note(c, None, None) : c \in {c \in DOMAIN code : code[c]}}

(* price() after its loop. The limits are those of the tariff that applies  *)
(* at the session's start.                                                 *)
Finish ==
    LET tariff == SelectByPreference(session.tariffs, session.wanted, session.start)
        totals == Clamped(tariff)
    IN  /\ bill = Pricing
        /\ IF tariff = None
           THEN bill' = Failed /\ UNCHANGED notes
           ELSE /\ bill' = [state |-> "billed",
                            measured |-> [d \in Dimensions |-> Measured(d)],
                            stated |-> [d \in Dimensions |-> Total(Of(d), LAMBDA i : Stated(i))],
                            excl |-> totals.excl, incl |-> totals.incl, limit |-> totals.limit,
                            taxes |-> PresentTaxes(RawLines, totals)]
                /\ notes' = notes \cup BillNotes(totals, RoundCurrency(RawExcl + RawVat))
        /\ UNCHANGED <<session, starts, clock, used, segments, flat_charged, meter, steady>>

(* The total as a CDR says it, in 2.3.0 and in 2.2.1. Tax that no rate      *)
(* explains is not called VAT.                                             *)
ToPrice ==
    [before_taxes |-> bill.excl,
     taxes |-> [p \in DOMAIN bill.taxes |->
                   [name |-> IF p = None THEN "TAX" ELSE "VAT", amount |-> bill.taxes[p].amount]]]
ToOldPrice == [excl_vat |-> bill.excl, incl_vat |-> bill.incl]

Next ==
    \/ \E kind \in Kinds :
          \/ \E length \in 1..MaxLength : PricePeriod(kind, length)
          \/ RefusePeriod(kind)
    \/ Finish

Spec == Init /\ [][Next]_pvars
-----------------------------------------------------------------------------
(* Properties.                                                             *)

IsBilled == bill.state = "billed"

(* What the tariff's words make of the metered session: each second at its  *)
(* price, the step_size once for the energy and once for the times, parking *)
(* taking it where there is any.                                           *)
Owed(dimension) ==
    meter[dimension].cost
        + IF dimension = "FLAT" \/ (dimension = "TIME" /\ meter["PARKING_TIME"].quantity # 0) THEN 0
          ELSE meter[dimension].price
                   * (Quantised(meter[dimension].quantity, meter[dimension].step)
                         - meter[dimension].quantity)

(* A session whose periods were split wherever a price changes is billed    *)
(* what pricing it second by second comes to.                              *)
BilledAsMetered ==
    IsBilled /\ steady => \A d \in Dimensions : bill.stated[d] = Owed(d)

(* "A false positive here would train everybody to ignore the note": where  *)
(* no price depends on the energy used, a period is reported only if it was *)
(* not split where a price changed.                                        *)
SpansMeansChange ==
    (\E n \in notes : n.code = "PeriodSpansPriceChange") /\ steady
        => \E i \in DOMAIN session.tariffs : \E e \in DOMAIN session.tariffs[i].elements :
              LET r == session.tariffs[i].elements[e].restrictions
              IN  "energy" \in DOMAIN r.min \cup DOMAIN r.max

(* A bill says the same in both versions: the tax lines of its 2.3.0 Price  *)
(* account, to the cent, for the difference between the two totals of its   *)
(* 2.2.1 Price, whatever the limits and roundings did to either.            *)
TaxesAccount ==
    IsBilled =>
        LET total == Total(DOMAIN ToPrice.taxes, LAMBDA p : ToPrice.taxes[p].amount)
        IN  /\ ToOldPrice.incl_vat >= ToOldPrice.excl_vat
            /\ ToPrice.before_taxes + total = ToOldPrice.incl_vat
            /\ \A p \in DOMAIN ToPrice.taxes : ToPrice.taxes[p].amount % Cent = 0

(* No session is billed beyond the limits of its tariff, before or after    *)
(* tax, but for rounding: a limit in fractions of a cent is one of its       *)
(* rounded amount. The limits are those of the start, whatever priced the    *)
(* periods. Where they cross, the maximum is; where the maximum after tax is *)
(* below what is owed before it, no tax is owed. What is owed after tax has *)
(* no limit but its base where the one applied last names none: finish()    *)
(* then moves the tax with the base, past what the other says of it.        *)
WithinLimits ==
    IsBilled =>
        LET tariff == SelectByPreference(session.tariffs, session.wanted, session.start)
            min == tariff.min_price
            max == tariff.max_price
            moved == /\ bill.limit # None
                     /\ (IF bill.limit = "Minimum" THEN min ELSE max).after_taxes = None
            cross(f) == max # None /\ max[f] # None /\ min[f] > max[f]
            above(total, f) == min # None /\ min[f] # None /\ ~cross(f) => total >= RoundCurrency(min[f])
            below(total, f) == max # None /\ max[f] # None => total <= RoundCurrency(max[f])
        IN  /\ above(bill.excl, "before_taxes") /\ below(bill.excl, "before_taxes")
            /\ moved \/ /\ above(bill.incl, "after_taxes")
                        /\ below(bill.incl, "after_taxes") \/ bill.incl = bill.excl
=============================================================================
