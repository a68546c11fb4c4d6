--------------------------- MODULE StringPredicates ---------------------------
(***************************************************************************)
(* The string predicates of src/unnamed/part_001: has_prefix, has_suffix, *)
(* the character classes and their all-characters string versions,       *)
(* is_integer and is_real.  A StringView is a sequence of character codes *)
(* (ASCII); the predicates are pure, so a state is just the arguments of *)
(* one call and the properties compare each predicate, on every string   *)
(* of Inputs, with an independent reference definition.                  *)
(***************************************************************************)
EXTENDS Integers, Sequences

CONSTANTS
    Inputs,     \* the strings given as str
    Patterns    \* the prefixes / suffixes given to has_prefix, has_suffix

ASSUME \A s \in Inputs \cup Patterns : s \in Seq(0..127)

SX == INSTANCE SequencesExt

(* The strings of length at most n over A.                                *)
Strings(A, n) == UNION {[1..k -> A] : k \in 0..n}

(* The characters of the inputs, and the longest input.                   *)
Alphabet == UNION {SX!Range(s) : s \in Inputs}
MaxLen == CHOOSE n \in {Len(s) : s \in Inputs} : \A s \in Inputs : Len(s) <= n

VARIABLES str, pat

vars == <<str, pat>>

(* The character literals the code compares with.                         *)
Minus == 45     \* '-'
Dot   == 46     \* '.'
Zero  == 48     \* '0'
Nine  == 57     \* '9'
UpA   == 65     \* 'A'
UpZ   == 90     \* 'Z'
Under == 95     \* '_'
LowA  == 97     \* 'a'
LowZ  == 122    \* 'z'

MinOf(a, b) == IF a <= b THEN a ELSE b

(* s.compare(pos, n, t) == 0 for a std::basic_string_view: the substring  *)
(* of s at 0-based pos, of length min(n, size() - pos), equals t.         *)
compare_eq(s, pos, n, t) == SubSeq(s, pos + 1, pos + MinOf(n, Len(s) - pos)) = t

(* has_prefix(str, prefix)                                                 *)
has_prefix(s, p) == compare_eq(s, 0, Len(p), p)

(* has_one_of_prefixes(str, prefixes...): the fold "or" over the pack.   *)
has_one_of_prefixes(s, ps) == \E p \in ps : has_prefix(s, p)

(* Mutant: the suffix compared one character too far right.             *)
HasSuffixOffByOne(s, x) == Len(s) >= Len(x) /\ compare_eq(s, Len(s) - Len(x) + 1, Len(x), x)

(* has_suffix(str, suffix)                                                 *)
has_suffix(s, x) == Len(s) >= Len(x) /\ compare_eq(s, Len(s) - Len(x), Len(x), x)

(* has_one_of_suffixes(str, suffixes...)                                  *)
has_one_of_suffixes(s, xs) == \E x \in xs : has_suffix(s, x)

(* Mutant: '9' left out of the digit range.                              *)
IsDigitExclusive(c) == Zero <= c /\ c < Nine

(* is_digit(int c), is_alpha(int c), is_alnum(int c), is_word(int c)      *)
is_digit_c(c) == Zero <= c /\ c <= Nine
is_alpha_c(c) == (UpA <= c /\ c <= UpZ) \/ (LowA <= c /\ c <= LowZ)
is_alnum_c(c) == is_alpha_c(c) \/ is_digit_c(c)
is_word_c(c)  == is_alnum_c(c) \/ c = Under \/ c = Minus

(* The string versions: false for the empty string, otherwise the loop   *)
(* returns false at the first character outside the class.               *)
AllChars(s, class(_)) == s # << >> /\ \A i \in 1..Len(s) : class(s[i])

is_digit(s) == AllChars(s, is_digit_c)
is_alpha(s) == AllChars(s, is_alpha_c)
is_alnum(s) == AllChars(s, is_alnum_c)
is_word(s)  == AllChars(s, is_word_c)

(* if (str[0] == '-') str.remove_prefix(1)                                 *)
WithoutSign(s) == IF s[1] = Minus THEN Tail(s) ELSE s

(* is_integer(str)                                                         *)
is_integer(s) == s # << >> /\ is_digit(WithoutSign(s))

(* str.find('.'): the 0-based position of the first '.', npos if none; *)
(* "npos >= size()" is expressed as a position of at least Len(t).       *)
FindDot(t) == IF SX!SelectInSeq(t, LAMBDA c : c = Dot) = 0 THEN Len(t)
              ELSE SX!SelectInSeq(t, LAMBDA c : c = Dot) - 1

(* Mutant: the fraction taken as substring(dot_pos), dot included.        *)
RealPartsKeepDot(t, dot) ==
    IF dot >= Len(t) THEN is_digit(t)
    ELSE is_digit(SubSeq(t, 1, dot)) /\ is_digit(SubSeq(t, dot + 1, Len(t)))

(* The two halves around the dot: substring(0, dot_pos) and             *)
(* substring(dot_pos + 1).                                                *)
RealParts(t, dot) ==
    IF dot >= Len(t) THEN is_digit(t)
    ELSE is_digit(SubSeq(t, 1, dot)) /\ is_digit(SubSeq(t, dot + 2, Len(t)))

(* is_real(str)                                                            *)
is_real(s) == s # << >> /\ RealParts(WithoutSign(s), FindDot(WithoutSign(s)))

-----------------------------------------------------------------------------
(* Before the first call: an empty str.                                   *)
Init == str = << >> /\ pat \in Patterns

(* The predicates keep no state: each call takes any arguments.          *)
Next == str' \in Inputs /\ pat' \in Patterns

Spec == Init /\ [][Next]_vars

-----------------------------------------------------------------------------
(* Reference definitions                                                   *)

(* The classes of the C locale, as lists of characters.                    *)
DigitSet == {Zero + i : i \in 0..9}
UpperSet == {UpA + i : i \in 0..25}
LowerSet == {LowA + i : i \in 0..25}
WordSet  == DigitSet \cup UpperSet \cup LowerSet \cup {Under, Minus}

NonEmptyOver(S) == str # << >> /\ SX!Range(str) \subseteq S

(* The languages -?[0-9]+ and -?[0-9]+(\.[0-9]+)?, generated from their  *)
(* parts up to MaxLen characters.                                         *)
Digits     == {d \in Strings(DigitSet \cap Alphabet, MaxLen) : d # << >>}
Signs      == {<< >>, <<Minus>>}
IntegerLit == {sg \o d : sg \in Signs, d \in Digits}
RealLit    == IntegerLit \cup {i \o <<Dot>> \o f : i \in IntegerLit, f \in Digits}

(* The character-class predicates accept exactly the non-empty strings   *)
(* of their class: an off-by-one in a range ('0'..'9', 'A'..'Z',        *)
(* 'a'..'z') or a missed empty-string test shows up at the boundary     *)
(* characters of Alphabet.                                                *)
ClassesMatchCLocale ==
    /\ is_digit(str) = NonEmptyOver(DigitSet)
    /\ is_alpha(str) = NonEmptyOver(UpperSet \cup LowerSet)
    /\ is_alnum(str) = NonEmptyOver(DigitSet \cup UpperSet \cup LowerSet)
    /\ is_word(str)  = NonEmptyOver(WordSet)

(* is_integer accepts exactly -?[0-9]+ (its comment: "empty string is    *)
(* not an integer", "sign is not an integer"), and is_real exactly       *)
(* -?[0-9]+(\.[0-9]+)?: no lone sign, no empty part around the dot, no  *)
(* second dot or sign.                                                    *)
NumbersMatchGrammar ==
    /\ is_integer(str) = (str \in IntegerLit)
    /\ is_real(str)    = (str \in RealLit)

(* has_prefix and has_suffix through StringView::compare agree with the  *)
(* sequence definitions, also when the pattern is longer than str, and   *)
(* so do their folds over every pattern.                                   *)
AffixesMatchSequences ==
    /\ has_prefix(str, pat) = SX!IsPrefix(pat, str)
    /\ has_suffix(str, pat) = SX!IsSuffix(pat, str)
    /\ has_one_of_prefixes(str, Patterns) = \E p \in Patterns : SX!IsPrefix(p, str)
    /\ has_one_of_suffixes(str, Patterns) = \E p \in Patterns : SX!IsSuffix(p, str)

=============================================================================
