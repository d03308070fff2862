----------------------------- MODULE JsonNumber -----------------------------
(***************************************************************************)
(* The packet number as get_pkn (src/04-go-pto-tool/main.go) reads it.     *)
(* gabs.ParseJSON decodes a JSON number into a float64: the decimal is     *)
(* rounded to the nearest float64 with FloatMantissa significant bits      *)
(* (53 in IEEE 754 binary64), ties to even, and uint64(val.(float64)) then *)
(* gives that float's integer value.  Below 2^FloatMantissa the round trip *)
(* is exact; above, neighbouring numbers share one float.                  *)
(***************************************************************************)
EXTENDS Naturals

CONSTANT FloatMantissa

ASSUME FloatMantissaAssumption == FloatMantissa \in Nat \ {0}

\* uint64(float64(n)) for the decimal n: k is the exponent of n's unit in
\* the last place, the least k with n < 2^(FloatMantissa + k).
Float64ToUint64(n) ==
  LET k   == CHOOSE k \in 0 .. n :
               /\ n < 2^(FloatMantissa + k)
               /\ k = 0 \/ n >= 2^(FloatMantissa + k - 1)
      ulp == 2^k
      q   == n \div ulp
      r   == n % ulp
  IN IF 2 * r < ulp \/ (2 * r = ulp /\ q % 2 = 0) THEN q * ulp ELSE (q + 1) * ulp
=============================================================================
