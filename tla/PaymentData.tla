---------------------------- MODULE PaymentData ----------------------------
(***************************************************************************)
(* The figures of one payment on their way through the platform: the       *)
(* decimal strings of the request, Money and FXRate in payments-service,   *)
(* the DECIMAL columns of MariaDB, the strings of the two Kafka messages,  *)
(* the checks of payment-processor and the row of ClickHouse.              *)
(*                                                                         *)
(* A text is a sequence of one-character strings.  The scales, the width   *)
(* of int64 and the precision of the columns are parameters, because the   *)
(* program's (2 and 8 digits, 64 bits, 18 digits) are far too large to     *)
(* enumerate.  MariaDB, ClickHouse and shopspring/decimal are external.    *)
(* Surrounding blanks, which TrimSpace removes, are left out.              *)
(***************************************************************************)
EXTENDS Integers, FiniteSets, Sequences, SequencesExt, Functions

CONSTANTS
  Requests,         \* the requests a client may post, see RequestType
  moneyScale,       \* fractional digits of Money
  fxRateScaleDigits,\* fractional digits of FXRate
  IntWidth,         \* bits of an int64
  ColumnDigits,     \* digits of the DECIMAL columns
  TicksPerSecond,   \* instants in a second
  None              \* no value yet

CharOf == <<"0", "1", "2", "3", "4", "5", "6", "7", "8", "9">>

DigitOf == [c \in Range(CharOf) |-> (CHOOSE i \in 1 .. 10 : CharOf[i] = c) - 1]

Chars == Range(CharOf) \union {"-", "+", "."}

\* Currencies by what the services tell apart: supported by the processor, of
\* the right shape only, or neither.  "fields" are the countries, the provider
\* and the idempotency key: well formed or not.
RequestType ==
  [amount : Seq(Chars), rate : Seq(Chars),
   currency : {"supported", "unsupported", "malformed"},
   fields : {"valid", "invalid"}, at : Nat]

TenTo[k \in Nat] == IF k = 0 THEN 1 ELSE 10 * TenTo[k - 1]
TwoTo[k \in Nat] == IF k = 0 THEN 1 ELSE 2 * TwoTo[k - 1]

ASSUME PaymentDataAssumption ==
  /\ Requests \subseteq RequestType
  /\ None \notin Requests
  /\ moneyScale \in Nat \ {0}
  /\ fxRateScaleDigits \in Nat \ {0}
  /\ IntWidth \in Nat \ {0, 1}
  /\ ColumnDigits \in Nat \ {0}
  /\ TenTo[ColumnDigits] <= TwoTo[IntWidth - 1]
  /\ TicksPerSecond \in Nat \ {0}

VARIABLES
  request,    \* the request, or None
  response,   \* the answer to POST, or None
  row,        \* the row of transactions, or None
  event,      \* the message on payments.created, or None
  read,       \* the answer to GET, or None
  outcome,    \* the message on payments.processed or payments.dlq, or None
  fact        \* the row of payments_analytics, or that it was skipped, or None

vars == <<request, response, row, event, read, outcome, fact>>

-----------------------------------------------------------------------------
(* Integers and decimal strings. *)

FXRateScale == TenTo[fxRateScaleDigits]

MaxInt == TwoTo[IntWidth - 1] - 1

\* What an int64 holds of the integer n: its low bits.
Int64(n) == ((n + MaxInt + 1) % TwoTo[IntWidth]) - MaxInt - 1

Failed == [ok |-> FALSE, units |-> 0]
Parsed(n) == [ok |-> TRUE, units |-> n]

Digits(text) == \A i \in DOMAIN text : text[i] \in DOMAIN DigitOf

DigitsValue(text) ==
  LET value[i \in 0 .. Len(text)] ==
        IF i = 0 THEN 0 ELSE 10 * value[i - 1] + DigitOf[text[i]]
  IN  value[Len(text)]

\* strconv.ParseInt(text, 10, 64): one sign of its own, digits, the range.
ParseInt(text) ==
  LET signed == text # << >> /\ Head(text) \in {"-", "+"}
      body == IF signed THEN Tail(text) ELSE text
      units == IF signed /\ Head(text) = "-" THEN -DigitsValue(body)
                                             ELSE DigitsValue(body)
  IN  IF /\ body # << >>
         /\ Digits(body)
         /\ units \in -MaxInt - 1 .. MaxInt
      THEN Parsed(units)
      ELSE Failed

\* Where the first point is, or would be, and what it separates.
Point(text) == LET i == SelectInSeq(text, LAMBDA c : c = ".")
               IN  IF i = 0 THEN Len(text) + 1 ELSE i
IntPart(text) == SubSeq(text, 1, Point(text) - 1)
FracPart(text) == SubSeq(text, Point(text) + 1, Len(text))

\* Mutant: a short fraction is not filled up.
NoZeros(n) == << >>

Zeros(n) == [i \in 1 .. n |-> "0"]

parseFixedPoint(s, scale) ==
  LET negative == s # << >> /\ Head(s) = "-"
      text == IF negative THEN Tail(s) ELSE s
      intPart == IntPart(text)
      fracPart == FracPart(text)
      units == ParseInt(intPart \o fracPart \o Zeros(scale - Len(fracPart)))
  IN  IF \/ intPart = << >>
         \/ Point(text) = Len(text)
         \/ Len(fracPart) > scale
         \/ ~units.ok
      THEN Failed
      ELSE Parsed(IF negative THEN Int64(-units.units) ELSE units.units)

\* The digits of n, at least "least" of them.
Numeral(n, least) ==
  LET size == CHOOSE k \in least .. least + IntWidth :
                /\ n < TenTo[k]
                /\ k = least \/ n >= TenTo[k - 1]
  IN  [i \in 1 .. size |-> CharOf[((n \div TenTo[size - i]) % 10) + 1]]

\* Mutant: the padding stops one digit short and leaves no integer part.
formatWithoutIntPart(units, scale) ==
  LET digits == Numeral(units, scale)
      point == Len(digits) - scale
  IN  SubSeq(digits, 1, point) \o <<".">> \o SubSeq(digits, point + 1, Len(digits))

\* Of the units of a transaction, which are positive.
formatFixedPoint(units, scale) ==
  LET digits == Numeral(units, scale + 1)
      point == Len(digits) - scale
  IN  SubSeq(digits, 1, point) \o <<".">> \o SubSeq(digits, point + 1, Len(digits))

\* Mutant: one digit of the scale too few.
ParseMoneyOneDigitLess(s) == parseFixedPoint(s, moneyScale - 1)

ParseMoney(s) == parseFixedPoint(s, moneyScale)
ParseFXRate(s) == parseFixedPoint(s, fxRateScaleDigits)

\* Mutant: the remainder is dropped.
MultiplyTruncated(m, rate) == Int64((m * rate) \div FXRateScale)

\* The product is exact; only the quotient is cut to an int64.  (Of a negative
\* product Go truncates the quotient; its source or rate is refused anyway.)
Multiply(m, rate) ==
  LET product == m * rate
      quotient == product \div FXRateScale
      remainder == product % FXRateScale
  IN  Int64(IF 2 * remainder >= FXRateScale THEN quotient + 1 ELSE quotient)

-----------------------------------------------------------------------------
(* payments-service. *)

Init ==
  /\ request = None
  /\ response = None
  /\ row = None
  /\ event = None
  /\ read = None
  /\ outcome = None
  /\ fact = None

\* A DECIMAL column of either database holds the units.
FitsColumn(units) == units < TenTo[ColumnDigits]

\* RFC3339 has no fraction of a second.
FormatTime(t) == t - (t % TicksPerSecond)

\* The transaction a request stands for, when both of its figures parse.
NewTransaction(r) ==
  LET amount == ParseMoney(r.amount).units
      rate == ParseFXRate(r.rate).units
  IN  [source |-> amount, destination |-> Multiply(amount, rate), rate |-> rate,
       created |-> r.at]

ParseErrors(r) ==
  {f \in {"source_amount", "fx_rate"} :
     \/ f = "source_amount" /\ ~ParseMoney(r.amount).ok
     \/ f = "fx_rate" /\ ~ParseFXRate(r.rate).ok}

FieldErrors(r) ==
  LET tx == NewTransaction(r)
  IN  {f \in {"source_amount", "destination_amount", "fx_rate", "currency", "fields"} :
         \/ f = "source_amount" /\ tx.source <= 0
         \/ f = "destination_amount" /\ tx.destination <= 0
         \/ f = "fx_rate" /\ tx.rate <= 0
         \/ f = "currency" /\ r.currency = "malformed"
         \/ f = "fields" /\ r.fields = "invalid"}

Errors(r) == IF ParseErrors(r) # {} THEN ParseErrors(r) ELSE FieldErrors(r)

\* Mutant: source and destination change places.
WrittenSwapped(tx) ==
  [source |-> formatFixedPoint(tx.destination, moneyScale),
   destination |-> formatFixedPoint(tx.source, moneyScale),
   rate |-> formatFixedPoint(tx.rate, fxRateScaleDigits),
   created |-> FormatTime(tx.created)]

\* The figures of a transaction as the JSON bodies and messages carry them.
Written(tx) ==
  [source |-> formatFixedPoint(tx.source, moneyScale),
   destination |-> formatFixedPoint(tx.destination, moneyScale),
   rate |-> formatFixedPoint(tx.rate, fxRateScaleDigits),
   created |-> FormatTime(tx.created)]

Answer(r, code) ==
  /\ request' = r
  /\ response' = [code |-> code]
  /\ UNCHANGED <<row, event, read, outcome, fact>>

\* 400: Execute or NewTransaction finds a field it refuses.
Reject(r) == request = None /\ Errors(r) # {} /\ Answer(r, 400)

Columns(tx) == {tx.source, tx.destination, tx.rate}

\* 500: the INSERT fails, because a figure is out of the range of its column.
Overflow(r) ==
  /\ request = None
  /\ Errors(r) = {}
  /\ \E n \in Columns(NewTransaction(r)) : ~FitsColumn(n)
  /\ Answer(r, 500)

\* 201: the payment and its event are stored.
Create(r) ==
  LET tx == NewTransaction(r)
  IN  /\ request = None
      /\ Errors(r) = {}
      /\ \A n \in Columns(tx) : FitsColumn(n)
      /\ request' = r
      /\ response' = [code |-> 201, body |-> Written(tx)]
      /\ row' = tx
      /\ event' = [figures |-> Written(tx), currency |-> r.currency]
      /\ UNCHANGED <<read, outcome, fact>>

\* GET: the strings of the columns are parsed, and then formatted again.
Get ==
  LET source == ParseMoney(formatFixedPoint(row.source, moneyScale))
      destination == ParseMoney(formatFixedPoint(row.destination, moneyScale))
      rate == ParseFXRate(formatFixedPoint(row.rate, fxRateScaleDigits))
  IN  /\ row # None
      /\ read = None
      /\ read' =
           IF source.ok /\ destination.ok /\ rate.ok
           THEN [code |-> 200,
                 body |-> Written([source |-> source.units,
                                   destination |-> destination.units,
                                   rate |-> rate.units, created |-> row.created])]
           ELSE [code |-> 500]
      /\ UNCHANGED <<request, response, row, event, outcome, fact>>

-----------------------------------------------------------------------------
(* payment-processor and analytics-service. *)

\* ^\d+(\.\d+)?$
MatchesDecimal(text) ==
  \E point \in 2 .. Len(text) + 1 :
    /\ Digits(SubSeq(text, 1, point - 1))
    /\ \/ point = Len(text) + 1
       \/ /\ text[point] = "."
          /\ point < Len(text)
          /\ Digits(SubSeq(text, point + 1, Len(text)))

\* Mutant: the first digit has to be the one that is not zero.
isDecimalFromOne(s) == MatchesDecimal(s) /\ s[1] # "0"

isPositiveDecimal(s) ==
  /\ MatchesDecimal(s)
  /\ \E i \in DOMAIN s : s[i] \in DOMAIN DigitOf \ {"0"}

\* DefaultProcessor.Process, or the dead letter when it refuses.
Process ==
  /\ event # None
  /\ outcome = None
  /\ outcome' =
       [figures |-> event.figures,
        status |-> IF /\ event.currency = "supported"
                      /\ isPositiveDecimal(event.figures.source)
                      /\ isPositiveDecimal(event.figures.destination)
                      /\ isPositiveDecimal(event.figures.rate)
                   THEN "completed"
                   ELSE "failed"]
  /\ UNCHANGED <<request, response, row, event, read, fact>>

\* The units a decimal string is worth in a column of "scale" digits.
DecimalUnits(text, scale) ==
  DigitsValue(IntPart(text)) * TenTo[scale]
    + DigitsValue(FracPart(text)) * TenTo[scale - Len(FracPart(text))]

\* toRow and the append to the batch.
Store ==
  LET f == outcome.figures
      stored == [source |-> DecimalUnits(f.source, moneyScale),
                 destination |-> DecimalUnits(f.destination, moneyScale),
                 rate |-> DecimalUnits(f.rate, fxRateScaleDigits),
                 created |-> f.created]
  IN  /\ outcome # None
      /\ fact = None
      /\ fact' = IF /\ \A t \in {f.source, f.destination, f.rate} : MatchesDecimal(t)
                    /\ \A n \in Columns(stored) : FitsColumn(n)
                 THEN [figures |-> stored, status |-> outcome.status]
                 ELSE [skipped |-> TRUE]
      /\ UNCHANGED <<request, response, row, event, read, outcome>>

Next ==
  \/ \E r \in Requests : Reject(r) \/ Overflow(r) \/ Create(r)
  \/ Get
  \/ Process
  \/ Store

Spec == Init /\ [][Next]_vars

-----------------------------------------------------------------------------
(* What the figures have to satisfy, said without the code's algorithms. *)

Plain(text, scale) ==
  /\ MatchesDecimal(text)
  /\ \A i \in DOMAIN text : text[i] = "." => Len(text) - i <= scale

\* The units of a text with at most one point, whatever its signs.
Magnitude(text, scale) ==
  LET place(i) == IF i < Point(text) THEN Point(text) - 1 - i ELSE Point(text) - i
      digits == {i \in DOMAIN text : text[i] \in DOMAIN DigitOf}
  IN  SumFunction([i \in digits |-> DigitOf[text[i]] * TenTo[scale + place(i)]])

Negations(text) == Cardinality({i \in DOMAIN text : text[i] = "-"})

\* amount * rate in minor units, rounded half up, with no limit.
ExactDestination(tx) ==
  (2 * tx.source * tx.rate + FXRateScale) \div (2 * FXRateScale)

\* An accepted text is stored as the number it writes: leading zeros, a missing
\* fraction and even doubled signs ("--5", "+.5", which the parser lets
\* through) never change the amount.
AmountsAsWritten ==
  row # None =>
    /\ row.source = Magnitude(request.amount, moneyScale)
    /\ row.rate = Magnitude(request.rate, fxRateScaleDigits)
    /\ Negations(request.amount) \in {0, 2}
    /\ Negations(request.rate) \in {0, 2}

\* No request is refused without a cause: one whose fields are well formed and
\* whose figures are plain positive decimals gets 201, unless a figure, or the
\* converted amount, does not fit its column (or rounds to zero).
RefusedForACause ==
  request # None /\ response.code # 201 =>
    \/ request.currency = "malformed" \/ request.fields = "invalid"
    \/ ~Plain(request.amount, moneyScale) \/ ~Plain(request.rate, fxRateScaleDigits)
    \/ LET tx == [source |-> Magnitude(request.amount, moneyScale),
                  rate |-> Magnitude(request.rate, fxRateScaleDigits)]
       IN  \E n \in {tx.source, tx.rate, ExactDestination(tx)} :
             n = 0 \/ ~FitsColumn(n)

\* The stored destination amount is the exact conversion rounded half up, up to
\* a multiple of the integers' range: it is exact whenever the result fits.
ConversionExact ==
  row # None => (row.destination - ExactDestination(row)) % TwoTo[IntWidth] = 0

\* GET shows what POST answered, and never finds a stored payment corrupt.
ReadBackIsTheAnswer ==
  read # None => read = [code |-> 200, body |-> response.body]

\* An accepted payment completes unless its currency is one the processor does
\* not support: the strings payments-service writes always pass its checks.
ProcessorAgrees ==
  outcome # None =>
    (outcome.status = "completed" <=> request.currency = "supported")

\* ClickHouse ends up with the figures MariaDB has, for completed and failed
\* payments alike; the time of creation loses its fraction of a second.
DatabasesAgree ==
  fact # None =>
    fact = [figures |-> [row EXCEPT !.created = FormatTime(@)],
            status |-> outcome.status]

\* Violated by the code: the destination amount is the conversion of the source
\* amount (architecture.md, "without rounding error or overflow").
ConversionNeverOverflows ==
  row # None => row.destination = ExactDestination(row)
=============================================================================
