----------------------------- MODULE MCPricing -----------------------------
(* Short sessions under tariffs that each try one kind of restriction.      *)
(* A day has six seconds, and its clock goes forward by one at instant 4.   *)
EXTENDS TariffReview, TLC

MCOffset == [t \in -1..12 |-> IF t < 4 THEN 0 ELSE 1]

Free == [reservation |-> None, start_time |-> None, end_time |-> None,
         min |-> <<>>, max |-> <<>>, day_of_week |-> {}]
Component1(d, price, step) == [type |-> d, price |-> price, vat |-> None, step_size |-> step]
WithVat(c, vat) == [c EXCEPT !.vat = vat]
Element(r, components) == [restrictions |-> r, price_components |-> components]
Plain(id, elements) ==
    [id |-> id, type |-> None, from |-> None, until |-> None, elements |-> elements,
     basis |-> "EXCLUDED", min_price |-> None, max_price |-> None]
Limit(before, after) == [before_taxes |-> before, after_taxes |-> after]

(* A rate for some hours, then one for the rest of the day.                *)
ByClock == Plain("clock", <<
    Element([Free EXCEPT !.start_time = 2, !.end_time = 4],
            <<Component1("ENERGY", 3, 2), Component1("FLAT", 7, 0)>>),
    Element(Free, <<Component1("ENERGY", 1, 3), Component1("TIME", 1, 4)>>)>>)

(* A night rate past midnight and nothing by day, but parking.             *)
ByNight == Plain("night", <<
    Element([Free EXCEPT !.start_time = 5, !.end_time = 1], <<Component1("ENERGY", 2, 5)>>),
    Element([Free EXCEPT !.start_time = 3], <<Component1("PARKING_TIME", 4, 3)>>),
    Element([Free EXCEPT !.day_of_week = {1}], <<Component1("PARKING_TIME", 1, 2)>>)>>)

ByEnergy == Plain("energy", <<
    Element([Free EXCEPT !.max = [energy |-> 2]], <<Component1("ENERGY", 1, 0)>>),
    Element([Free EXCEPT !.min = [energy |-> 2]], <<Component1("ENERGY", 2, 4)>>)>>)

ByDuration == Plain("duration", <<
    Element([Free EXCEPT !.min = [duration |-> 2, power |-> 2]],
            <<Component1("TIME", 5, 2), Component1("FLAT", 3, 0)>>),
    Element([Free EXCEPT !.max = [duration |-> 4]],
            <<Component1("TIME", 2, 3), Component1("PARKING_TIME", 1, 5)>>),
    Element([Free EXCEPT !.min = [date |-> 1]], <<Component1("PARKING_TIME", 6, 2)>>)>>)

ByReservation == Plain("reservation", <<
    Element([Free EXCEPT !.reservation = "RESERVATION"],
            <<Component1("TIME", 4, 3), Component1("FLAT", 9, 0)>>),
    Element([Free EXCEPT !.reservation = "RESERVATION_EXPIRES", !.start_time = 2],
            <<Component1("TIME", 6, 4)>>),
    Element(Free, <<Component1("TIME", 1, 2), Component1("ENERGY", 1, 1)>>)>>)

(* Three percentages, and totals between two limits, of which one says      *)
(* nothing of what is owed after tax.                                      *)
Taxed == [Plain("taxed", <<
    Element(Free, <<WithVat(Component1("ENERGY", 27, 1), 10), WithVat(Component1("TIME", 13, 2), 25),
                    WithVat(Component1("PARKING_TIME", 8, 0), 0)>>)>>)
    EXCEPT !.min_price = Limit(60, None), !.max_price = Limit(70, 70)]
TaxInside == [Plain("inside", <<
    Element(Free, <<WithVat(Component1("ENERGY", 27, 1), 10), Component1("TIME", 13, 2),
                    WithVat(Component1("PARKING_TIME", 8, 0), -20)>>)>>)
    EXCEPT !.basis = "INCLUDED", !.min_price = Limit(30, 80), !.max_price = Limit(60, None)]

(* What lint() is for: the fallback first, ranges that exclude everything,  *)
(* a dimension priced twice, step sizes that count nothing.                *)
Sloppy == Plain("sloppy", <<
    Element(Free, <<Component1("ENERGY", 2, 2), Component1("ENERGY", 9, 1), Component1("TIME", 1, 2),
                    Component1("FLAT", 5, 3)>>),
    Element([Free EXCEPT !.reservation = "RESERVATION"],
            <<Component1("TIME", 4, 3), Component1("PARKING_TIME", 8, 1)>>),
    Element([Free EXCEPT !.start_time = 2, !.end_time = 2], <<Component1("TIME", 7, 4)>>),
    Element([Free EXCEPT !.min = [duration |-> 2], !.max = [duration |-> 2]],
            <<Component1("PARKING_TIME", 6, 1)>>),
    Element([Free EXCEPT !.min = [power |-> 2], !.max = [power |-> 2]],
            <<Component1("PARKING_TIME", 3, 0)>>),
    Element([Free EXCEPT !.min = [duration |-> 1]], <<Component1("PARKING_TIME", 2, 0)>>)>>)

(* Prices that include a tax nobody names, no price for use, and limits     *)
(* that cross, one of them in fractions of a cent (which is ten here).      *)
FeeOnly == [Plain("fee", <<
    Element([Free EXCEPT !.min = [power |-> 2], !.max = [power |-> 2]], <<Component1("FLAT", 25, 0)>>),
    Element([Free EXCEPT !.start_time = 1], <<Component1("PARKING_TIME", 4, 0)>>)>>)
    EXCEPT !.basis = "INCLUDED", !.min_price = Limit(50, None), !.max_price = Limit(23, 14)]
Over == [Taxed EXCEPT !.id = "over", !.from = 4, !.until = 2]

Untaxed == [Plain("untaxed", <<Element(Free, <<WithVat(Component1("ENERGY", 9, 2), 10)>>)>>)
    EXCEPT !.basis = "NOT_APPLICABLE", !.until = 3, !.max_price = Limit(24, None)]

S(start, wanted, expired, tariffs) ==
    [start |-> start, wanted |-> wanted, expired |-> expired, tariffs |-> tariffs]
MCSessions ==
    {S(0, None, FALSE, <<t>>) : t \in {ByClock, ByNight, ByEnergy, ByDuration, ByReservation, Taxed, TaxInside,
                               Sloppy}}
    \cup {S(1, None, TRUE, <<ByReservation>>),
          S(1, "GREEN", FALSE, <<Untaxed, [Taxed EXCEPT !.type = "GREEN", !.from = 2]>>),
          S(1, None, FALSE, <<Over, FeeOnly>>),
          S(2, None, FALSE, <<>>), S(4, None, FALSE, <<Untaxed>>)}

Period(dimensions) == [dimensions |-> dimensions, tariff_id |-> None]
MCPeriods == {
    Period([ENERGY |-> 1, TIME |-> 1]),
    Period([ENERGY |-> 2, TIME |-> 1, MAX_POWER |-> 2, MIN_POWER |-> 1]),
    Period([PARKING_TIME |-> 1, RESERVATION_OVERTIME |-> 1]),
    Period([TIME |-> 1, RESERVATION_TIME |-> 1, MIN_POWER |-> 1]),
    [Period([ENERGY |-> 1]) EXCEPT !.tariff_id = "taxed"]}
=============================================================================
