------------------------------ MODULE Tariffs ------------------------------
(***************************************************************************)
(* What of a Tariff applies, and what it comes to: the pure operators of   *)
(* tariffs/engine.rs and tariffs/policy.rs.                                *)
(*                                                                         *)
(* Quantities are whole numbers of the units step_size counts (Wh and      *)
(* seconds), and amounts whole numbers of component_decimals, so that      *)
(* round_quantity, round_component of a product and the round_dp(6) before *)
(* the ceiling change nothing. A clock's minute is a second too, of a day  *)
(* DayLength long. What divides is rounded as the code rounds it: half     *)
(* away from zero.                                                         *)
(***************************************************************************)
EXTENDS Integers, Sequences, Folds
Seqs == INSTANCE SequencesExt

CONSTANTS
    None,        \* Option::None
    DayLength,   \* seconds of a day
    Offset,      \* of the Location's time zone, in seconds, by instant
    Cent         \* the currency's smallest amount, in units of amount

Dimensions == {"ENERGY", "TIME", "PARKING_TIME", "FLAT"}

Least(S) == CHOOSE x \in S : \A y \in S : x <= y
Greatest(S) == CHOOSE x \in S : \A y \in S : x >= y
Or(a, b) == IF a = None THEN b ELSE a
SumOf(f) == MapThenFoldSet(+, 0, LAMBDA x : f[x], LAMBDA S : CHOOSE x \in S : TRUE, DOMAIN f)
Total(S, amount(_)) == SumOf([x \in S |-> amount(x)])

-----------------------------------------------------------------------------
(* Restrictions. The minima and maxima of an element are functions of the   *)
(* measures it restricts (a date is one); an element without restrictions  *)
(* is one whose every restriction is absent, which matches the same.       *)

Measures == {"date", "energy", "duration", "current", "power"}

IsWithin(time, start, end) ==
    \/ start = end
    \/ start < end /\ start <= time /\ time < end
    \/ start > end /\ (start <= time \/ time < end)

InWindow(time, start, end) ==
    IF None \in {start, end}
    THEN (start # None => start <= time) /\ (end # None => time < end)
    ELSE IsWithin(time, start, end)

Reserves(reservation, context) ==
    reservation = IF ~context.reserving THEN None
                  ELSE IF context.expired THEN "RESERVATION_EXPIRES" ELSE "RESERVATION"

Matches(r, context) ==
    /\ Reserves(r.reservation, context)
    /\ InWindow(context.time, r.start_time, r.end_time)
    /\ \A m \in DOMAIN r.min : context.lower[m] # None /\ context.lower[m] >= r.min[m]
    /\ \A m \in DOMAIN r.max : context.upper[m] # None /\ context.upper[m] < r.max[m]
    /\ r.day_of_week = {} \/ context.weekday \in r.day_of_week

(* What restrictions are matched against: the session at an instant, with   *)
(* so much energy used, priced for its reserved or for its consumed time.   *)
ContextAt(session, period, at, energy, reserving) ==
    LET local == at + Offset[at]
        day == local \div DayLength
        gone == [date |-> day, energy |-> energy, duration |-> at - session.start]
        bounds(a, b) == [m \in {"current", "power"} |-> Or(a[m], b[m])]
        measured(f) == [m \in Measures |-> IF m \in DOMAIN gone THEN gone[m] ELSE f[m]]
    IN  [time |-> local % DayLength, weekday |-> day % 7,
         lower |-> measured(bounds(period.max, period.min)),
         upper |-> measured(bounds(period.min, period.max)),
         reserving |-> reserving, expired |-> session.expired]

-----------------------------------------------------------------------------
(* Components. The first element that prices the dimension and matches has  *)
(* it; where one does, the component is named by its two indexes.          *)

Prices(element, dimension) ==
    {c \in DOMAIN element.price_components : element.price_components[c].type = dimension}

FindComponent(tariff, dimension, context) ==
    LET found == {e \in DOMAIN tariff.elements :
                     /\ Matches(tariff.elements[e].restrictions, context)
                     /\ Prices(tariff.elements[e], dimension) # {}}
    IN  IF found = {} THEN None
        ELSE <<Least(found), Least(Prices(tariff.elements[Least(found)], dimension))>>

Component(tariff, found) == tariff.elements[found[1]].price_components[found[2]]

(* Which tariff. `wanted` is the tariff type of the session's preference.   *)
IsActiveAt(tariff, at) ==
    /\ tariff.from # None => tariff.from <= at
    /\ tariff.until # None => at < tariff.until

SelectByPreference(tariffs, wanted, at) ==
    LET active == {i \in DOMAIN tariffs : IsActiveAt(tariffs[i], at)}
        liked == {i \in active : wanted # None /\ tariffs[i].type = wanted}
        general == {i \in active : tariffs[i].type = None}
    IN  IF active = {} THEN None
        ELSE tariffs[Least(IF liked # {} THEN liked ELSE IF general # {} THEN general ELSE active)]

SelectTariff(tariffs, wanted, id, at) ==
    LET named == {i \in DOMAIN tariffs : tariffs[i].id = id}
    IN  IF id = None THEN SelectByPreference(tariffs, wanted, at)
        ELSE IF named = {} THEN None ELSE tariffs[Least(named)]

-----------------------------------------------------------------------------
(* Amounts.                                                                *)

(* Quantisation::apply. Quantisation::None is a step_size of 0.            *)
Quantised(quantity, step) ==
    IF step = 0 THEN quantity ELSE ((quantity + step - 1) \div step) * step

(* The multiple of unit nearest to a / b, half away from zero.             *)
Rounded(a, b, unit) ==
    LET n == IF b < 0 THEN -a ELSE a
        d == (IF b < 0 THEN -b ELSE b) * unit
    IN  unit * (IF n >= 0 THEN (2 * n + d) \div (2 * d) ELSE -((d - 2 * n) \div (2 * d)))

RoundCurrency(amount) == Rounded(amount, 1, Cent)

(* What is owed before tax of an amount the tariff states; the rest of it,  *)
(* or what comes on top, is the tax.                                       *)
Net(stated, vat, basis) ==
    IF basis = "INCLUDED" /\ vat \notin {None, -100} THEN Rounded(100 * stated, 100 + vat, 1) ELSE stated

Tax(stated, vat, basis) ==
    IF vat = None \/ basis = "NOT_APPLICABLE" THEN 0
    ELSE IF basis = "INCLUDED" THEN stated - Net(stated, vat, basis) ELSE Rounded(stated * vat, 100, 1)
=============================================================================
