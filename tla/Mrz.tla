--------------------------------- MODULE Mrz ---------------------------------
(***************************************************************************)
(* The machine readable zone, src/protocol/emrtd_mrz.c: reading one, and   *)
(* building from what the user typed the information the keys come from.   *)
(*                                                                         *)
(* A character is a number: 0 to 9 are the digits, 10 to 35 the capital    *)
(* letters, 38 to 63 the small ones, and Filler is '<'.  A zone is the     *)
(* record of the fields that are weighed, each at its printed width; the   *)
(* names, the document type, the issuing state, the nationality and the    *)
(* sex are cut out of the zone and shown, and are left out with the        *)
(* separators that are dropped before the length decides the format.       *)
(***************************************************************************)
EXTENDS Integers, Sequences, FiniteSetsExt

Filler == 36
Small == 38 .. 63
Char == 0 .. 36

DocNumberMax == 20                      \* EMRTD_DOC_NUMBER_MAX
NoDigit == -1                           \* the 0 of emrtd_mrz_check_digit

Value(c) == IF c = Filler THEN 0 ELSE c
Weight(i) == <<7, 3, 1>>[((i - 1) % 3) + 1]

\* mrz_check_digit_ranges over the stretches put end to end: the weight runs on
\* from one to the next.
TotalWeight(chars) ==
    LET upTo[i \in 0 .. Len(chars)] ==
            IF i = 0 THEN 0 ELSE upTo[i - 1] + Value(chars[i]) * Weight(i)
    IN upTo[Len(chars)]
CheckDigit(chars) ==
    IF \E i \in DOMAIN chars : chars[i] \notin Char THEN NoDigit ELSE TotalWeight(chars) % 10

AllFiller(chars) == \A i \in DOMAIN chars : chars[i] = Filler
AllDigits(chars) == \A i \in DOMAIN chars : chars[i] \in 0 .. 9

\* mrz_check_digit_ok: a filler is the right digit of nothing but filler.
CheckDigitOk(chars, printed) ==
    IF printed = Filler THEN AllFiller(chars) ELSE CheckDigit(chars) = printed

\* mrz_copy_compact
Compact(chars) ==
    LET upTo[i \in 0 .. Len(chars)] ==
            IF i = 0 THEN <<>>
            ELSE IF chars[i] # Filler THEN Append(upTo[i - 1], chars[i]) ELSE upTo[i - 1]
    IN upTo[Len(chars)]

\* mrz_document_number: the number, its digit, and whether it goes on in the
\* optional data, which a filler in the place of the digit says.
DocumentNumber(field, printed, optional) ==
    LET fillers == {i \in DOMAIN optional : optional[i] = Filler}
        run == IF fillers = {} THEN Len(optional) ELSE Min(fillers) - 1
        whole == Compact(field) \o SubSeq(optional, 1, run - 1)
    IN IF printed # Filler \/ run < 2
       THEN [number |-> Compact(field), digit |-> printed, extended |-> FALSE]
       ELSE [number |-> SubSeq(whole, 1, Min({Len(whole), DocNumberMax})),
             digit |-> optional[run], extended |-> TRUE]

\* mrz_document_number_ok
DocumentNumberOk(field, doc) ==
    CheckDigitOk(IF doc.extended THEN doc.number ELSE field, doc.digit)

\* A bug for the check to find: TD1 weighs no optional data of the second line.
WeighedShort(z) ==
    CASE z.format = "TD3" ->
             z.number \o <<z.numberDigit>> \o z.birth \o <<z.birthDigit>>
             \o z.expiry \o <<z.expiryDigit>> \o z.optional \o <<z.optionalDigit>>
      [] z.format = "TD2" ->
             z.number \o <<z.numberDigit>> \o z.birth \o <<z.birthDigit>>
             \o z.expiry \o <<z.expiryDigit>> \o z.optional
      [] z.format = "TD1" ->
             z.number \o <<z.numberDigit>> \o z.optional \o z.birth \o <<z.birthDigit>>
             \o z.expiry \o <<z.expiryDigit>>

\* What the composite digit covers, in its order.
Weighed(z) ==
    CASE z.format = "TD3" ->
             z.number \o <<z.numberDigit>> \o z.birth \o <<z.birthDigit>>
             \o z.expiry \o <<z.expiryDigit>> \o z.optional \o <<z.optionalDigit>>
      [] z.format = "TD2" ->
             z.number \o <<z.numberDigit>> \o z.birth \o <<z.birthDigit>>
             \o z.expiry \o <<z.expiryDigit>> \o z.optional
      [] z.format = "TD1" ->
             z.number \o <<z.numberDigit>> \o z.optional \o z.birth \o <<z.birthDigit>>
             \o z.expiry \o <<z.expiryDigit>> \o z.optional2

\* mrz_parse_td1, _td2 and _td3: TD3 has no room for a long number.
Parse(z) ==
    LET doc == DocumentNumber(z.number, z.numberDigit,
                              IF z.format = "TD3" THEN <<>> ELSE z.optional)
    IN [number |-> doc.number, birth |-> z.birth, expiry |-> z.expiry,
        optional |-> Compact(CASE z.format = "TD1" -> z.optional2
                               [] z.format = "TD2" /\ doc.extended -> <<>>
                               [] OTHER -> z.optional),
        valid |-> /\ DocumentNumberOk(z.number, doc)
                  /\ CheckDigitOk(z.birth, z.birthDigit)
                  /\ CheckDigitOk(z.expiry, z.expiryDigit)
                  /\ z.format = "TD3" => CheckDigitOk(z.optional, z.optionalDigit)
                  /\ CheckDigit(Weighed(z)) = z.composite]

Upper(c) == IF c \in Small THEN c - 28 ELSE c
Padded(chars, width) == chars \o [i \in 1 .. width - Len(chars) |-> Filler]

\* emrtd_mrz_information: what the key derivation hashes, <<>> if the input is
\* refused.  A short number is weighed with its padding, a long one whole.
Information(number, birth, expiry) ==
    LET upper == [i \in DOMAIN number |-> Upper(number[i])]
        field == Padded(upper, 9)
    IN IF \/ number = <<>> \/ Len(number) > DocNumberMax
          \/ Len(birth) # 6 \/ ~AllDigits(birth)
          \/ Len(expiry) # 6 \/ ~AllDigits(expiry)
          \/ \E i \in DOMAIN upper : upper[i] \notin Char
          \/ Len(field) + 1 + 2 * 7 > 31
       THEN <<>>
       ELSE field \o <<CheckDigit(field)>> \o birth \o <<CheckDigit(birth)>>
            \o expiry \o <<CheckDigit(expiry)>>

\* emrtd_mrz_format_date: the century a year is shown in.
ShownYear(yy, future) ==
    IF yy <= (IF future THEN 79 ELSE 30) THEN 2000 + yy ELSE 1900 + yy
=============================================================================
