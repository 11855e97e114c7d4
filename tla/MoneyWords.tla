----------------------------- MODULE MoneyWords -----------------------------
(***************************************************************************)
(* MoneyAmountService: an amount of money in Russian and Kazakh words, one *)
(* group of three digits per turn of the loop, the last group first.       *)
(*                                                                         *)
(* A word is the book of the class that holds it and its key there; the    *)
(* books of the genders' units and of a scale's three forms are told apart *)
(* by form.  How digits are grouped by blanks is left out.                 *)
(***************************************************************************)
EXTENDS Integers, Sequences

CONSTANTS
  MwAmounts,  \* the amounts that are put into words
  Scales      \* number of powers of a thousand with a word

ASSUME MwAssumption == MwAmounts \subseteq Nat /\ Scales \in Nat

VARIABLES
  mwAmount,  \* the amount asked for
  mwRest,    \* the amount that is left for the loop
  mwGroup,   \* group_index
  mwRu,      \* the Russian words so far
  mwKk       \* the Kazakh words so far

mwVars == <<mwAmount, mwRest, mwGroup, mwRu, mwKk>>

Word(book, key, form) == [book |-> book, key |-> key, form |-> form]
WordOrNone(book, key, form) == IF key = 0 THEN <<>> ELSE <<Word(book, key, form)>>

Genders == {"masculine", "feminine"}
Forms == {"one", "few", "many"}

(* RU_HUNDREDS, RU_TENS, RU_TEENS, RU_UNITS_* and RU_SCALES; KK_UNITS,     *)
(* KK_TENS, the hundred and KK_SCALES.                                     *)
Book(book, keys, form) == {Word(book, key, form) : key \in keys}

RuWords ==
  Book("hundreds", 1 .. 9, "") \cup Book("tens", 2 .. 9, "") \cup Book("teens", 10 .. 19, "")
  \cup (UNION {Book("units", 1 .. 9, gender) : gender \in Genders})
  \cup (UNION {Book("scale", 1 .. Scales, form) : form \in Forms})
KkWords ==
  Book("units", 1 .. 9, "") \cup Book("tens", 1 .. 9, "") \cup Book("hundred", {1}, "")
  \cup Book("scale", 1 .. Scales, "")

MwTypeOK ==
  /\ mwAmount \in MwAmounts
  /\ mwRest \in 0 .. mwAmount
  /\ mwGroup \in Nat
  /\ mwRu \in Seq(RuWords) /\ mwKk \in Seq(KkWords)

MwInit ==
  /\ mwAmount \in MwAmounts
  /\ mwRest = mwAmount
  /\ mwGroup = 0
  /\ mwRu = <<>>
  /\ mwKk = <<>>

-----------------------------------------------------------------------------
(* Mutant: 10 < rest. *)
IsTeenLate(rest) == rest \in 11 .. 19

IsTeen(rest) == rest \in 10 .. 19

(* triplet_to_words_ru *)
TripletRu(number, gender) ==
  LET rest == number % 100 IN
  WordOrNone("hundreds", number \div 100, "") \o
    IF IsTeen(rest) THEN <<Word("teens", rest, "")>>
    ELSE WordOrNone("tens", rest \div 10, "") \o WordOrNone("units", rest % 10, gender)

(* triplet_to_words_kk: a single hundred is said without the one.          *)
TripletKk(number) ==
  LET hundreds == number \div 100
      rest == number % 100
  IN (IF hundreds > 1 THEN <<Word("units", hundreds, "")>> ELSE <<>>)
     \o (IF hundreds > 0 THEN <<Word("hundred", 1, "")>> ELSE <<>>)
     \o WordOrNone("tens", rest \div 10, "") \o WordOrNone("units", rest % 10, "")

(* plural_form_ru *)
PluralFormRu(number) ==
  IF number % 100 \in 11 .. 14 THEN "many"
  ELSE IF number % 10 = 1 THEN "one"
  ELSE IF number % 10 \in 2 .. 4 THEN "few"
  ELSE "many"

(* RU_SCALES and KK_SCALES have no word for the first group, nor for those *)
(* past their end.                                                         *)
ScaleOf(group) == IF group <= Scales THEN group ELSE 0

GenderOf(group) == IF group = 1 THEN "feminine" ELSE "masculine"

(* The words one turn of the loop of amount_to_words_ru puts before those  *)
(* it has, and the same for amount_to_words_kk.                            *)
GroupRu(number, group) ==
  IF number = 0 THEN <<>>
  ELSE TripletRu(number, GenderOf(group))
       \o WordOrNone("scale", ScaleOf(group), PluralFormRu(number))

GroupKk(number, group) ==
  IF number = 0 THEN <<>>
  ELSE TripletKk(number) \o WordOrNone("scale", ScaleOf(group), "")

SayGroup ==
  /\ mwRest # 0
  /\ mwRu' = GroupRu(mwRest % 1000, mwGroup) \o mwRu
  /\ mwKk' = GroupKk(mwRest % 1000, mwGroup) \o mwKk
  /\ mwRest' = mwRest \div 1000
  /\ mwGroup' = mwGroup + 1
  /\ UNCHANGED mwAmount

MwNext == SayGroup
MwSpec == MwInit /\ [][MwNext]_mwVars

-----------------------------------------------------------------------------
NumberOf(word) ==
  CASE word.book = "hundreds" -> 100 * word.key
    [] word.book = "tens" -> 10 * word.key
    [] OTHER -> word.key

(* The numbers that the scale words stand for, up to the first without one. *)
Thousands[k \in 0 .. (Scales + 1)] == IF k = 0 THEN 1 ELSE 1000 * Thousands[k - 1]

(* How words are read aloud: numbers add up, a hundred multiplies what was *)
(* said of its group, a scale word closes the group.                       *)
ReadWord(read, word) ==
  IF word.book = "scale"
  THEN [total |-> read.total + read.group * Thousands[word.key], group |-> 0]
  ELSE IF word.book = "hundred"
  THEN [read EXCEPT !.group = 100 * (IF @ = 0 THEN 1 ELSE @)]
  ELSE [read EXCEPT !.group = @ + NumberOf(word)]

Silence == [total |-> 0, group |-> 0]

ReadAloud(words) ==
  LET read[i \in 0 .. Len(words)] ==
        IF i = 0 THEN Silence ELSE ReadWord(read[i - 1], words[i])
  IN read

Reading(words) ==
  LET read == ReadAloud(words)[Len(words)] IN read.total + read.group

FormAfter(word) ==
  IF word.book # "units" THEN "many"
  ELSE IF word.key = 1 THEN "one"
  ELSE IF word.key <= 4 THEN "few" ELSE "many"

(* A Russian scale word has the form that the word before it asks for, and *)
(* one and two are feminine before a thousand only.                        *)
Agrees(words) ==
  \A i \in DOMAIN words :
    LET thousands == i < Len(words) /\ words[i + 1].book = "scale" /\ words[i + 1].key = 1 IN
    /\ words[i].book = "scale" => words[i].form = FormAfter(words[i - 1])
    /\ words[i].book = "units" => (words[i].form = "feminine" <=> thousands)

(* The words of an amount below the last scale word's limit, read aloud,   *)
(* are that amount again in either language, and the Russian ones agree    *)
(* with each other (money_amount_service.py:237-344): a slip at a boundary *)
(* puts two different amounts into one contract.                           *)
WordsSayTheAmount ==
  mwRest = 0 /\ mwAmount < Thousands[Scales + 1] =>
    /\ mwRu \in Seq(RuWords) /\ mwKk \in Seq(KkWords)
    /\ Reading(mwRu) = mwAmount /\ Reading(mwKk) = mwAmount
    /\ Agrees(mwRu)
=============================================================================
