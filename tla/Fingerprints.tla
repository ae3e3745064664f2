------------------------------ MODULE Fingerprints ------------------------------
(***************************************************************************)
(* The fuzzy fingerprint of a command line                                 *)
(* (app/core/command_normalizer.py, app/core/fingerprint.py).  A token is  *)
(* a flag, a value, or both in one (--flag=value), and a fingerprint is    *)
(* what it hashes.  Command lines are put together from units, a flag with *)
(* its value being one, so that what a fingerprint keeps of a line can be  *)
(* said without the normalizer's scan over its tokens.                     *)
(***************************************************************************)
EXTENDS Integers, Sequences, SequencesExt

CONSTANTS
    Flags,
    Volatile,    \* VOLATILE_FLAGS
    Harmless,    \* HARMLESS_FLAGS
    Words,       \* values that mean something; the first of them is the program
    Entries,     \* those that look like a script or a module
    Dynamics,    \* values that match _is_dynamic_value
    Nothing,     \* no flag, no value
    MaxUnits     \* bound on the length of a command line, in units

ASSUME FingerprintAssumption ==
    /\ Volatile \subseteq Flags /\ Harmless \subseteq Flags /\ Volatile \cap Harmless = {}
    /\ Entries \subseteq Words /\ Words \cap Dynamics = {}
    /\ Nothing \notin Flags \cup Words \cup Dynamics
    /\ MaxUnits \in Nat

VARIABLE commandLine  \* units

Token(flag, value) == [flag |-> flag, value |-> value]
Values == Words \cup Dynamics

\* A bare volatile flag takes the next token, whatever it is, for its value.
Units ==
    {<< Token(Nothing, v) >> : v \in Values}
    \cup {<< Token(f, Nothing) >> : f \in Flags \ Volatile}
    \cup {<< Token(f, v) >> : f \in Flags \ Harmless, v \in Values}
    \cup {<< Token(f, Nothing), t >> : f \in Volatile,
             t \in {Token(Nothing, v) : v \in Values} \cup {Token(g, Nothing) : g \in Flags}}

Tokens(units) == FlattenSeq(units)

-----------------------------------------------------------------------------
(* normalize_command, without its first token: executable and cwd have     *)
(* fields of their own.                                                    *)

NoProfile == [args |-> << >>, flags |-> << >>, entry |-> Nothing, skip |-> FALSE]

IsDynamic(value) == value \in Dynamics

AddFlag(profile, flag, value) == [profile EXCEPT !.flags = Append(@, Token(flag, value))]

AddArg(profile, value) ==
    [profile EXCEPT !.args = Append(@, value),
                    !.entry = IF @ = Nothing /\ value \in Entries THEN value ELSE @]

\* A slip the code avoids: the value of a volatile flag is not passed over.
FuzzyFlagUnskipped(profile, token, last) ==
    IF token.flag \in Volatile THEN AddFlag(profile, token.flag, Nothing)
    ELSE IF IsDynamic(token.value) THEN AddFlag(profile, token.flag, "<dynamic>")
    ELSE AddFlag(profile, token.flag, token.value)

FuzzyFlag(profile, token, last) ==
    IF token.flag \in Volatile
    THEN [AddFlag(profile, token.flag, Nothing) EXCEPT !.skip = token.value = Nothing /\ ~last]
    ELSE IF IsDynamic(token.value) THEN AddFlag(profile, token.flag, "<dynamic>")
    ELSE AddFlag(profile, token.flag, token.value)

IsHarmless(token) == token.flag \in Harmless /\ token.value = Nothing

Fuzzily(profile, token, last) ==
    IF profile.skip THEN [profile EXCEPT !.skip = FALSE]
    ELSE IF token.flag = Nothing
         THEN IF IsDynamic(token.value) THEN profile ELSE AddArg(profile, token.value)
    ELSE IF IsHarmless(token) THEN profile
    ELSE FuzzyFlag(profile, token, last)

Scan(tokens) ==
    LET after[i \in 0..Len(tokens)] ==
            IF i = 0 THEN NoProfile ELSE Fuzzily(after[i - 1], tokens[i], i = Len(tokens))
    IN  after[Len(tokens)]

\* NormalizedCommand, of which FingerprintEngine.apply hashes the arguments and
\* then the flags; those are sorted, that is, told apart as a bag.  The exact
\* fingerprint keeps every value, and the flags in order.
Fuzzy(tokens) ==
    LET profile == Scan(tokens)
    IN  [args |-> profile.args, flags |-> ToBag(profile.flags), entry |-> profile.entry]

-----------------------------------------------------------------------------

FingerprintInit == commandLine = << >>

\* A command line one unit longer.
Extend(unit) == Len(commandLine) < MaxUnits /\ commandLine' = Append(commandLine, unit)

FingerprintNext == \E unit \in Units : Extend(unit)

FingerprintSpec == FingerprintInit /\ [][FingerprintNext]_commandLine

FingerprintTypeOK == commandLine \in Seq(Units) /\ Len(commandLine) <= MaxUnits

-----------------------------------------------------------------------------

\* What a unit is about: a word, or a flag without the value that varies.
Word(unit) ==
    IF unit[1].flag = Nothing /\ ~IsDynamic(unit[1].value) THEN << unit[1].value >> ELSE << >>

Flag(unit) ==
    LET token == unit[1]
    IN  IF token.flag = Nothing \/ IsHarmless(token) THEN << >>
        ELSE IF token.flag \in Volatile THEN << Token(token.flag, Nothing) >>
        ELSE IF IsDynamic(token.value) THEN << Token(token.flag, "<dynamic>") >>
        ELSE << token >>

WordsOf(line) == FlattenSeq([i \in DOMAIN line |-> Word(line[i])])
FlagsOf(line) == FlattenSeq([i \in DOMAIN line |-> Flag(line[i])])

FirstEntry(words) ==
    LET found == {i \in DOMAIN words : words[i] \in Entries}
    IN  IF found = {} THEN Nothing ELSE words[Min(found)]

\* The command line as it is, or with a volatile flag at its end.
Lines == {commandLine} \cup {Append(commandLine, << Token(f, Nothing) >>) : f \in Volatile}

\* The fuzzy fingerprint tells two command lines apart by their words in order
\* and by their flags in any order, without the values that vary between
\* instances: pids, ports, addresses, dates, and whatever follows a volatile
\* flag, be it another flag; and the script is the first word that looks like
\* one.  No two lines that differ in anything else fall together, and no value
\* of one unit leaks into the next.
FuzzyKeepsShapeOnly ==
    \A line \in Lines :
        Fuzzy(Tokens(line)) = [args |-> WordsOf(line), flags |-> ToBag(FlagsOf(line)),
                               entry |-> FirstEntry(WordsOf(line))]
=============================================================================
