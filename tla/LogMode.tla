------------------------------- MODULE LogMode -------------------------------
(***************************************************************************)
(* The `mode` of a log definition: what its text makes of f_mode and       *)
(* f_mode_mask, and when the mode of a file is in error.                   *)
(*                                                                         *)
(* The text is numeric, one or two sequences of digits, or in letters, a   *)
(* set of users, an operator and a set of permissions.  A mode is the set  *)
(* of its bits; those of st_mode are sixteen, and no number of the text is *)
(* taken to have more.                                                     *)
(***************************************************************************)
EXTENDS Integers, SequencesExt

Bits == {\o1, \o2, \o4, \o10, \o20, \o40, \o100, \o200, \o400,
         \o1000, \o2000, \o4000, \o10000, \o20000, \o40000, \o100000}

BitsOf(number) == {bit \in Bits : (number \div bit) % 2 = 1}

\* The value of a sequence of digits; '8' passes for one.
Octal(digits) == FoldLeft(LAMBDA n, d : n * 8 + d, 0, digits)

\* Mutant: without a mask, no bit is tested.
NumericUnmasked(digits, mask) ==
    [mode |-> BitsOf(Octal(digits)), mask |-> BitsOf(Octal(mask))]

\* set_mode_mask(): without a mask, or with a null one, every bit is tested.
MaskOr7777(mask) == IF mask = {} THEN BitsOf(\o7777) ELSE mask

Numeric(digits, mask) ==
    [mode |-> BitsOf(Octal(digits)),
     mask |-> MaskOr7777(IF mask = <<>> THEN {} ELSE BitsOf(Octal(mask)))]

\* Whether a user is meant; without one, all of them are.
Meant(who, user) == who = {} \/ "a" \in who \/ user \in who

Flags(who) == (IF Meant(who, "u") THEN \o700 ELSE 0)
              + (IF Meant(who, "g") THEN \o070 ELSE 0)
              + (IF Meant(who, "o") THEN \o007 ELSE 0)

Digit(perms) == (IF "r" \in perms THEN 4 ELSE 0)
                + (IF "w" \in perms THEN 2 ELSE 0)
                + (IF "x" \in perms THEN 1 ELSE 0)

\* The bits `s` and `t` add.
UpperBits(who, perms) ==
    (IF "t" \in perms THEN {\o1000} ELSE {})
    \cup (IF "s" \in perms /\ Meant(who, "u") THEN {\o4000} ELSE {})
    \cup (IF "s" \in perms /\ Meant(who, "g") THEN {\o2000} ELSE {})

\* The permissions times the flags, to repeat them for each user.  With `-` the mode
\* is not zero, which would disable the test.
Letters(who, op, perms) ==
    LET mode == BitsOf(Digit(perms) * Flags(who)) \cup UpperBits(who, perms)
        low == BitsOf(\o777)
    IN  CASE op = "+" -> [mode |-> mode, mask |-> MaskOr7777(mode)]
          [] op = "-" -> [mode |-> (mode \ low) \cup (low \ mode), mask |-> MaskOr7777(mode)]
          [] op = "=" -> [mode |-> mode, mask |-> BitsOf(\o7777)]

\* A text that load_config() refuses: no operator, a mask that is no number...
Refused(text) ==
    \/ text.kind = "letters" /\ text.op \notin {"+", "-", "="}
    \/ text.kind = "numeric" /\ \E d \in ToSet(text.digits \o text.mask) : d \notin 0..8

\* load_config(), for a `mode` that is given.
ParseMode(text) ==
    CASE text.kind = "none" -> [mode |-> {}, mask |-> BitsOf(\o7777)]
      [] text.kind = "numeric" -> Numeric(text.digits, text.mask)
      [] text.kind = "letters" -> Letters(text.who, text.op, text.perms)

\* check_log(): a mode of zero is not tested.
ModeWrong(parsed, stMode) ==
    parsed.mode # {} /\ stMode \cap parsed.mask # parsed.mode

-----------------------------------------------------------------------------
(* What the README of the definitions says *)

Exactly(stMode, mode) == stMode \cap BitsOf(\o7777) = mode

\* Two octal numbers, the mode and the mask.
DocumentedNumeric(text, stMode) ==
    IF text.mask = <<>> THEN Exactly(stMode, BitsOf(Octal(text.digits)))
    ELSE stMode \cap BitsOf(Octal(text.mask)) = BitsOf(Octal(text.digits))

\* The permissions are ANDed with the users; the operator says whether they must be
\* set, must not be set, or are all that may be set.
DocumentedLetters(text, stMode) ==
    LET everyone == [r |-> \o444, w |-> \o222, x |-> \o111]
        bits == (BitsOf(Flags(text.who))
                    \cap UNION {BitsOf(everyone[c]) : c \in text.perms \cap {"r", "w", "x"}})
                \cup UpperBits(text.who, text.perms)
    IN  CASE text.op = "+" -> stMode \cap bits = bits
          [] text.op = "-" -> stMode \cap bits = {}
          [] text.op = "=" -> Exactly(stMode, bits)

\* What the README says a mode means, where the code agrees with it: numbers, and `s`
\* and `t` set by letters, unless the mode is null.  The modes `r`, `w` and `x` make,
\* and those of `-`, are others, and a mode of zero is no mode.
Documented(text) ==
    /\ text.kind = "numeric" =>
            /\ BitsOf(Octal(text.digits)) # {}
            /\ text.mask = <<>> \/ BitsOf(Octal(text.mask)) # {}
    /\ text.kind = "letters" =>
            /\ text.perms \subseteq {"s", "t"}
            /\ text.op = "+" \/ (text.op = "=" /\ UpperBits(text.who, text.perms) # {})

Accepts(text, stMode) ==
    CASE text.kind = "none" -> TRUE
      [] text.kind = "numeric" -> DocumentedNumeric(text, stMode)
      [] text.kind = "letters" -> DocumentedLetters(text, stMode)

=============================================================================
