----------------------------- MODULE SolMatcher -----------------------------
(***************************************************************************)
(* A Solana candidate tested on both sides of the program: by              *)
(* SolMatcher::matches_counted (src/src/matcher.rs) on the CPU, and by the *)
(* kernel's suffix residue and matches_target_sol_opt                      *)
(* (src/kernels/sol_vanity_optimized.cu) on a device.  The patterns are    *)
(* what validate_pattern accepts and normalize_pattern makes of them.      *)
(*                                                                         *)
(* A text is a sequence of letters; the Base58 alphabet lacks the other    *)
(* case of some.                                                           *)
(***************************************************************************)
EXTENDS Base58, FiniteSets

CONSTANTS
  Letters,     \* letters a pattern may have on the command line
  Alphabet,    \* the Base58 alphabet, by digit
  LowerCase,   \* each letter in lower case
  MaxPrefix,   \* bound: letters of a prefix
  MaxSuffix    \* bound: letters of a suffix

AlphabetFits ==
  /\ Alphabet \in [1 .. Base -> Letters] /\ IsInjective(Alphabet)
  /\ LowerCase \in [Letters -> Letters]
  /\ \A c \in Letters : LowerCase[LowerCase[c]] = LowerCase[c]

VARIABLES
  key,         \* the public key of the candidate
  prefix, suffix, ignore,   \* the patterns and the case option
  cpu, gpu,    \* what each side said: is it a match, was it encoded?
  pc           \* "input", "refused", "cpu", "gpu" or "done"

vars == <<key, prefix, suffix, ignore, cpu, gpu, pc>>

Untested == [match |-> FALSE, encoded |-> FALSE]
Text(digits) == [i \in DOMAIN digits |-> Alphabet[digits[i] + 1]]
Address(k) == Text(Reference(k))
InAlphabet(c) == c \in {Alphabet[i] : i \in 1 .. Base}
Patterns(n) == UNION {[1 .. l -> Letters] : l \in 0 .. n}

-----------------------------------------------------------------------------
(* The command line. *)

\* A letter is in the alphabet or, without case, its other case is.
Valid(pattern, any) ==
  \A i \in DOMAIN pattern :
    \/ InAlphabet(pattern[i])
    \/ any /\ \E c \in Letters : InAlphabet(c) /\ LowerCase[c] = LowerCase[pattern[i]]

Normalize(pattern, any) ==
  IF any THEN [i \in DOMAIN pattern |-> LowerCase[pattern[i]]] ELSE pattern

\* Letters of the alphabet an expected letter stands for (expected_attempts).
Mask(c, any) ==
  {i \in 1 .. Base : IF any THEN LowerCase[Alphabet[i]] = LowerCase[c] ELSE Alphabet[i] = c}

-----------------------------------------------------------------------------
(* The two tests. *)

Equal(a, b, any) ==
  Len(a) = Len(b) /\ \A i \in DOMAIN a : a[i] = b[i] \/ (any /\ LowerCase[a[i]] = LowerCase[b[i]])

\* The last letters the residue knows of, compared from the end.
CpuPrefilter(k, s, any) ==
  \A i \in 1 .. (IF Len(s) < ModDigits THEN Len(s) ELSE ModDigits) :
    Equal(<<Alphabet[LowDigits(Residue(k), Base, ModDigits)[i] + 1]>>, <<s[Len(s) + 1 - i]>>, any)

\* matches_counted
CpuTest(k, p, s, any) ==
  LET a == Address(k) n == Len(a) IN
    IF Len(s) > 0 /\ ~CpuPrefilter(k, s, any) THEN Untested
    ELSE [encoded |-> TRUE,
          match |-> /\ Len(p) <= n /\ Len(s) <= n
                    /\ Equal(SubSeq(a, 1, Len(p)), p, any)
                    /\ Equal(SubSeq(a, n - Len(s) + 1, n), s, any)]

\* ASCII letters in lower case, byte by byte.
Fold(text, any) == IF any THEN [i \in DOMAIN text |-> LowerCase[text[i]]] ELSE text

\* Deviation: the residue is compared without regard to the case option.
GpuPrefilter_Exact(k, s, any) ==
  \A i \in 1 .. (IF Len(s) < ModDigits THEN Len(s) ELSE ModDigits) :
    Alphabet[((Residue(k) \div Powers(Base)[i-1]) % Base) + 1] = s[Len(s) + 1 - i]

\* base58_suffix_match_mod_32
GpuPrefilter(k, s, any) ==
  LET last == Fold(s, any) IN
  \A i \in 1 .. (IF Len(s) < ModDigits THEN Len(s) ELSE ModDigits) :
    Fold(<<Alphabet[((Residue(k) \div Powers(Base)[i-1]) % Base) + 1]>>, any)[1] = last[Len(s) + 1 - i]

\* matches_target_sol_opt
MatchesTarget(a, p, s, any) ==
  /\ Len(p) <= Len(a) /\ Len(s) <= Len(a)
  /\ \A i \in DOMAIN p : Fold(a, any)[i] = Fold(p, any)[i]
  /\ \A i \in DOMAIN s : Fold(a, any)[Len(a) - Len(s) + i] = Fold(s, any)[i]

\* The kernel's two tests of a candidate.
GpuTest(k, p, s, any) ==
  IF Len(s) > 0 /\ ~GpuPrefilter(k, s, any) THEN Untested
  ELSE [encoded |-> TRUE, match |-> MatchesTarget(Address(k), p, s, any)]

-----------------------------------------------------------------------------
(* One candidate of a search. *)

Init ==
  /\ key \in Keys /\ prefix \in Patterns(MaxPrefix) /\ suffix \in Patterns(MaxSuffix)
  /\ ignore \in BOOLEAN /\ cpu = Untested /\ gpu = Untested /\ pc = "input"

\* generate: validate, then normalize; a pattern that is not valid ends it.
Accept ==
  /\ pc = "input" /\ Valid(prefix, ignore) /\ Valid(suffix, ignore)
  /\ prefix' = Normalize(prefix, ignore) /\ suffix' = Normalize(suffix, ignore)
  /\ pc' = "cpu" /\ UNCHANGED <<key, ignore, cpu, gpu>>

Refuse ==
  /\ pc = "input" /\ ~(Valid(prefix, ignore) /\ Valid(suffix, ignore))
  /\ pc' = "refused" /\ UNCHANGED <<key, prefix, suffix, ignore, cpu, gpu>>

TestOnCpu ==
  /\ pc = "cpu" /\ cpu' = CpuTest(key, prefix, suffix, ignore) /\ pc' = "gpu"
  /\ UNCHANGED <<key, prefix, suffix, ignore, gpu>>

TestOnGpu ==
  /\ pc = "gpu" /\ gpu' = GpuTest(key, prefix, suffix, ignore) /\ pc' = "done"
  /\ UNCHANGED <<key, prefix, suffix, ignore, cpu>>

Finished == pc \in {"done", "refused"} /\ UNCHANGED vars

Next == Accept \/ Refuse \/ TestOnCpu \/ TestOnGpu \/ Finished

Spec == Init /\ [][Next]_vars

-----------------------------------------------------------------------------
(* Properties. *)

\* What the user asked for: the address starts and ends with the patterns,
\* letters of either case being one letter when the case is ignored.
Wanted ==
  LET a == Fold(Address(key), ignore) IN
    IsPrefix(Fold(prefix, ignore), a) /\ IsSuffix(Fold(suffix, ignore), a)

\* The CPU reports the candidate exactly if it is what the user asked for: the
\* residue test before the encoding rejects none that is.
CpuExact == pc \in {"gpu", "done"} => (cpu.match <=> Wanted)

\* A device decides every candidate as the CPU does, and encodes the same ones,
\* so that the two report comparable counts.
DeviceAgrees == pc = "done" => gpu = cpu

\* Every letter of an accepted pattern, in the normal form that is searched
\* for, stands for a letter an address may have: no search is hopeless for a
\* letter, and the expected number of attempts is finite.
EveryLetterPossible ==
  pc \in {"cpu", "gpu", "done"} =>
    \A t \in {prefix, suffix} : \A i \in DOMAIN t : Mask(t[i], ignore) # {}
=============================================================================
