-------------------------------- MODULE Lint --------------------------------
(***************************************************************************)
(* tariffs/lint.rs: what is conspicuous about a Tariff that conforms. A     *)
(* finding is its code, under the part of the document it points at. A      *)
(* TariffRestrictions with nothing in it is no restriction in this model,   *)
(* so that EmptyRestrictions has no place here.                            *)
(***************************************************************************)
EXTENDS Tariffs

Codes(holds) == {code \in DOMAIN holds : holds[code]}

(* is_empty_restriction() *)
IsFallback(element) ==
    LET r == element.restrictions
    IN  /\ r.reservation = None /\ r.start_time = None /\ r.end_time = None
        /\ DOMAIN r.min = {} /\ DOMAIN r.max = {} /\ r.day_of_week = {}

(* `claimed` at an element: does one before it always have the dimension?   *)
IsClaimed(tariff, e, dimension) ==
    \E f \in 1..(e - 1) : /\ IsFallback(tariff.elements[f])
                          /\ Prices(tariff.elements[f], dimension) # {}

PricesAny(tariff, dimensions) ==
    \E e \in DOMAIN tariff.elements : \E d \in dimensions : Prices(tariff.elements[e], d) # {}

(* Plausible slip: whatever an element before it prices is taken.          *)
ComponentFindings_AnyBefore(tariff, e, c) ==
    LET component == tariff.elements[e].price_components[c]
    IN  Codes([UnreachableElement |->
                  \E f \in 1..(e - 1) : Prices(tariff.elements[f], component.type) # {}])

(* Of /elements/e/price_components/c.                                      *)
ComponentFindings(tariff, e, c) ==
    LET element == tariff.elements[e]
        component == element.price_components[c]
        dimension == component.type
    IN  Codes([DuplicateDimension |-> c # Least(Prices(element, dimension)),
               UnreachableElement |-> IsClaimed(tariff, e, dimension),
               FlatStepSize |-> dimension = "FLAT" /\ component.step_size > 1,
               ZeroStepSize |-> dimension # "FLAT" /\ component.step_size = 0,
               UnusedTimeStepSize |-> /\ dimension = "TIME" /\ component.step_size > 1
                                      /\ PricesAny(tariff, {"PARKING_TIME"}),
               ImplausibleVat |-> component.vat # None /\ component.vat \notin 0..100,
               TaxRateWithoutTax |-> component.vat # None /\ tariff.basis = "NOT_APPLICABLE",
               ReservationDimension |-> /\ element.restrictions.reservation # None
                                        /\ dimension \notin {"FLAT", "TIME"}])

(* Of /elements/e/restrictions: the measures whose bounds exclude all.      *)
ImpossibleRestrictions(element) ==
    LET r == element.restrictions
    IN  {m \in DOMAIN r.min \cap DOMAIN r.max : r.min[m] >= r.max[m]}

HasWholeDayWindow(element) ==
    /\ element.restrictions.start_time # None
    /\ element.restrictions.start_time = element.restrictions.end_time

(* Of the tariff as a whole.                                               *)
TariffFindings(tariff) ==
    LET min == tariff.min_price
        max == tariff.max_price
        rates(e) == {c.vat : c \in Seqs!ToSet(tariff.elements[e].price_components)}
    IN  Codes([NothingPricedByUse |-> ~PricesAny(tariff, {"ENERGY", "TIME"}),
               TaxIncludedWithoutRate |-> /\ tariff.basis = "INCLUDED"
                                         /\ \A e \in DOMAIN tariff.elements : rates(e) \subseteq {None},
               PriceLimitsCross |->
                   /\ None \notin {min, max}
                   /\ \/ min.before_taxes > max.before_taxes
                      \/ /\ None \notin {min.after_taxes, max.after_taxes}
                         /\ min.after_taxes > max.after_taxes,
               NeverActive |-> None \notin {tariff.from, tariff.until} /\ tariff.until <= tariff.from])
=============================================================================
