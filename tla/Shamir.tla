------------------------------- MODULE Shamir -------------------------------
(***************************************************************************)
(* The secret sharing of app/custody/shamir.py: polynomials over GF(2^8),  *)
(* one for each byte of the passphrase.  The bytes are independent, so the *)
(* passphrase here is one byte and a share one point.                      *)
(***************************************************************************)
EXTENDS Integers, Sequences, SequencesExt, FiniteSetsExt, Bitwise

Byte == 0..255

\* x * 3, modulo the AES polynomial 0x11b: 3 generates the field.
TimesThree ==
  [x \in Byte |-> LET y == x ^^ (2 * x) IN IF y > 255 THEN y ^^ 283 ELSE y]

Exp == LET power[i \in 0..254] == IF i = 0 THEN 1 ELSE TimesThree[power[i - 1]]
       IN power

Log == [a \in 1..255 |-> CHOOSE i \in 0..254 : Exp[i] = a]

GfMul(a, b) == IF a = 0 \/ b = 0 THEN 0 ELSE Exp[(Log[a] + Log[b]) % 255]

GfDiv(a, b) == IF a = 0 THEN 0 ELSE Exp[(Log[a] - Log[b]) % 255]

\* Horner's method, from the last coefficient to the first.
EvalPoly(coeffs, x) == FoldRight(LAMBDA c, y : GfMul(y, x) ^^ c, coeffs, 0)

\* The n shares of a secret byte, with the random coefficients of the rest.
SplitSecret(secret, coeffs, n) ==
  {[x |-> x, y |-> EvalPoly(<<secret>> \o coeffs, x)] : x \in 1..n}

\* Mutant: a basis of the numerators alone.
NumeratorOnly(share, shares) ==
  FoldSet(GfMul, 1, {s.x : s \in shares \ {share}})

\* Lagrange's interpolation at 0, from shares of different points.
Basis(share, shares) ==
  LET others == {s.x : s \in shares \ {share}} IN
  GfDiv(FoldSet(GfMul, 1, others),
        FoldSet(LAMBDA x, y : GfMul(share.x ^^ x, y), 1, others))

CombineShares(shares) ==
  FoldSet(LAMBDA s, y : GfMul(s.y, Basis(s, shares)) ^^ y, 0, shares)
=============================================================================
