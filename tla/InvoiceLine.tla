---------------------------- MODULE InvoiceLine ----------------------------
(***************************************************************************)
(* The money of one invoice line (internal/modules/invoice/domain): the    *)
(* user enters a gross price, the net price is derived from it and the VAT *)
(* is what is left.  Amounts are cents; float64 is exact for the products  *)
(* that occur, so math.Round is rounding half away from zero.              *)
(***************************************************************************)
EXTENDS Integers

\* math.Round(n / d) for d > 0.
RoundDiv(n, d) ==
    IF n >= 0 THEN (2 * n + d) \div (2 * d) ELSE -((2 * (-n) + d) \div (2 * d))

NetFromGross(gross, vatRate) ==
    IF vatRate <= 0 THEN gross ELSE RoundDiv(gross * 100, 100 + vatRate)

\* What Recalculate stores on a line; its totals follow from its prices.
Price(l) == [l EXCEPT !.net = NetFromGross(l.gross, l.vat)]
TotalGross(l) == l.qty * l.gross
TotalPrice(l) == l.qty * l.net
TotalVAT(l) == TotalGross(l) - TotalPrice(l)
=============================================================================
