------------------------------- MODULE MCFleet -------------------------------
(* Fleet on small instances, with the secret sharing of Shamir. *)
EXTENDS Fleet, Shamir, TLC

\* The letter P.
MCPassphrase == 80

Deal(coeffs, n) ==
  [threshold |-> Len(coeffs) + 1, shares |-> SplitSecret(MCPassphrase, coeffs, n)]

\* 2-of-3 and 3-of-4.
MCDeals == {Deal(<<201>>, 3), Deal(<<55, 1>>, 4)}

\* CombineShares, computed once for each set of shares.
Combined ==
  {[shares |-> shares, secret |-> CombineShares(shares)] :
     shares \in UNION {SUBSET d.shares : d \in MCDeals}}
MCCombine(shares) == (CHOOSE c \in Combined : c.shares = shares).secret
=============================================================================
