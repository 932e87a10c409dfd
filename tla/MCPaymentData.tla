--------------------------- MODULE MCPaymentData ---------------------------
(* Values for the constants of PaymentData.  The scales keep the proportions of
   the program's: the rate has fewer digits than the columns, an int64 holds
   about nine times what a column does, and products far exceed both. *)
EXTENDS PaymentData

\* Every text of up to four of these characters: signs, points and digits in
\* any order.
MixedTexts == BoundedSeq({"-", "+", ".", "5"}, 4)

\* The canonical text of n units: with all its fractional digits.
Canonical(scale, n) == formatFixedPoint(n, scale)

\* Amounts and rates about the boundaries of rounding, columns and integers.
Amounts ==
  {Canonical(moneyScale, n) : n \in {0, 1, 2, 4, 5, 15, 99, 100, 995, 999, 1000, 8191, 8192}}
Rates ==
  {Canonical(fxRateScaleDigits, n) : n \in {0, 1, 4, 5, 6, 10, 15, 333, 999, 1000, 8191, 8192}}

\* Texts a client writes less canonically.
Loose == {<<"7">>, <<"0", "0", "7">>, <<"1", ".", "5">>, <<"1", ".", "0", "0", "0">>, << >>}

Good(a, r, t) ==
  [amount |-> a, rate |-> r, currency |-> "supported", fields |-> "valid", at |-> t]

MCRequests ==
  {Good(a, <<"1", ".", "0">>, 5) : a \in MixedTexts \union Loose}
    \union {Good(<<"2", ".", "0", "0">>, r, 6) : r \in MixedTexts \union Loose}
    \union {Good(a, r, 7) : a \in Amounts, r \in Rates}
    \union [amount : {<<"5">>}, rate : {<<"0", ".", "5">>},
            currency : {"supported", "unsupported", "malformed"},
            fields : {"valid", "invalid"}, at : 0 .. 3]
=============================================================================
