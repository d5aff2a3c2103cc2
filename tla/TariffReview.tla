---------------------------- MODULE TariffReview ----------------------------
(***************************************************************************)
(* What is said about tariffs and bills beside pricing: tariffs/verify.rs,  *)
(* which compares a CDR with the breakdown of its own periods, and lint()   *)
(* of a tariff, held against how the engine then prices by it.             *)
(***************************************************************************)
EXTENDS Pricing, Lint

(* dimension_total() and split_time_cost() of the breakdown.               *)
DimensionTotal(dimension) == Total(Of(dimension), LAMBDA i : Cost(i))
TimeCost(reserved) == Total({i \in Of("TIME") : segments[i].reserved = reserved}, LAMBDA i : Cost(i))

(* Plausible slip: a start fee is always expected in total_fixed_cost.     *)
Attributable_Always == TRUE

(* A start fee beside parking or reserved time may be in any of three costs. *)
Attributable ==
    DimensionTotal("FLAT") = 0 \/ (DimensionTotal("PARKING_TIME") = 0 /\ TimeCost(TRUE) = 0)

(* What verify_cdr() expects of a CDR, figure by figure (Discrepancy).      *)
Computed(from, to) ==
    [TotalBeforeTaxes |-> bill.excl, TotalAfterTaxes |-> bill.incl,
     EnergyCost |-> DimensionTotal("ENERGY"), TimeCost |-> TimeCost(FALSE),
     ParkingCost |-> DimensionTotal("PARKING_TIME"), FixedCost |-> DimensionTotal("FLAT"),
     ReservationCost |-> TimeCost(TRUE),
     EnergyVolume |-> bill.measured["ENERGY"], ParkingVolume |-> bill.measured["PARKING_TIME"],
     TimeVolume |-> to - from]

(* The figures a CDR states that are not what was computed.                *)
Divergences(cdr) ==
    LET computed == Computed(session.start, clock)
        compared == DOMAIN computed \ IF Attributable THEN {}
                                      ELSE {"ParkingCost", "FixedCost", "ReservationCost"}
    IN  {w \in compared : cdr[w] \notin {None, computed[w]}}

(* The CDR of a CPO that adds up its own periods, reads its own clock,      *)
(* prices as the tariff says and counts its start fee where it belongs.     *)
HonestCdr(fee) ==
    LET flat(of) == IF fee = of THEN DimensionTotal("FLAT") ELSE 0
    IN  [Computed(session.start, clock) EXCEPT
            !.FixedCost = flat("fixed"),
            !.ParkingCost = @ + flat("parking"),
            !.ReservationCost = IF TimeCost(TRUE) = 0 /\ fee # "reservation" THEN None
                                ELSE @ + flat("reservation"),
            !.EnergyVolume = used["ENERGY"],
            !.ParkingVolume = used["PARKING_TIME"]]

(* verify_cdr() finds an honest CDR at odds with itself only where the      *)
(* breakdown notes that something of that dimension had no price, and at    *)
(* odds about costs only where parking or the reservation cost nothing but  *)
(* the fee. (That it does so at all contradicts docs/layers/tariffs.md for  *)
(* the first, and for the second verify.rs:213, which leaves alone any      *)
(* session with a FLAT and parking or reserved time.)                       *)
DoubtsAreNoted ==
    IsBilled /\ clock # None =>
        \A fee \in {"fixed", "parking", "reservation"} : \A w \in Divergences(HonestCdr(fee)) :
            \/ /\ w \in {"EnergyVolume", "ParkingVolume"}
               /\ \E n \in notes : /\ n.code = "NoPriceComponent"
                                   /\ n.dimension = IF w = "EnergyVolume" THEN "ENERGY"
                                                    ELSE "PARKING_TIME"
            \/ /\ w \in {"FixedCost", "ParkingCost", "ReservationCost"} /\ fee # "fixed"
               /\ DimensionTotal("PARKING_TIME") = 0 /\ TimeCost(TRUE) = 0

-----------------------------------------------------------------------------

PricedBy(tariff) == {i \in DOMAIN segments : segments[i].tariff = tariff.id}

(* Of an element: what is never applied, and whose step_size or rate never  *)
(* is.                                                                     *)
ElementKeepsWord(tariff, e) ==
    LET element == tariff.elements[e]
        by(c) == {i \in PricedBy(tariff) : segments[i].applied = <<e, c>>}
    IN  /\ \A c \in DOMAIN element.price_components :
             LET codes == ComponentFindings(tariff, e, c)
             IN  /\ codes \cap {"DuplicateDimension", "ReservationDimension"} # {} => by(c) = {}
                 /\ "UnreachableElement" \in codes => \A i \in by(c) : segments[i].reserved
                 /\ codes \cap {"FlatStepSize", "ZeroStepSize"} # {}
                        => \A i \in by(c) : Billed(i) = segments[i].quantity
                 /\ "UnusedTimeStepSize" \in codes /\ Of("PARKING_TIME") # {}
                        => \A i \in by(c) : Billed(i) = segments[i].quantity
                 /\ "TaxRateWithoutTax" \in codes => \A i \in by(c) : TaxOf(i) = 0
        /\ ImpossibleRestrictions(element) \ {"power", "current"} # {}
               => \A c \in DOMAIN element.price_components : by(c) = {}

(* Of the tariff as a whole.                                               *)
TariffKeepsWord(tariff) ==
    LET codes == TariffFindings(tariff)
    IN  /\ "NothingPricedByUse" \in codes =>
               \A i \in PricedBy(tariff) : segments[i].dimension \in {"FLAT", "PARKING_TIME"}
        /\ "TaxIncludedWithoutRate" \in codes => \A i \in PricedBy(tariff) : TaxOf(i) = 0
        /\ "NeverActive" \in codes /\ (\A k \in Kinds : k.tariff_id # tariff.id)
               => PricedBy(tariff) = {}

(* What lint() finds of a tariff is how the engine prices by it. Three of   *)
(* its findings promise too much, and are held to what is true of them:     *)
(* reserved time passes an element without restrictions by, a step_size of  *)
(* charging time counts where nobody parked, and a range of power excludes  *)
(* nothing where the power was measured on both sides of it.                *)
LintKeepsWord ==
    \A tariff \in Seqs!ToSet(session.tariffs) :
        /\ TariffKeepsWord(tariff)
        /\ \A e \in DOMAIN tariff.elements : ElementKeepsWord(tariff, e)
=============================================================================
