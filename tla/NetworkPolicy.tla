--------------------------- MODULE NetworkPolicy ---------------------------
(***************************************************************************)
(* codecep-server/src/lib/ipAccess.ts on addresses of Width bits (32 in    *)
(* the code).  A rule is a single address (bits = Exact) or a CIDR range   *)
(* of a base address and a prefix length.                                  *)
(***************************************************************************)
EXTENDS Integers

CONSTANTS Width, Exact

ASSUME NetworkAssumption == Width \in Nat \ {0} /\ Exact \notin Nat

\* 2^n.
Pow2[n \in Nat] == IF n = 0 THEN 1 ELSE 2 * Pow2[n - 1]

Address == 0..(Pow2[Width] - 1)

Rule == [base : Address, bits : (0..Width) \cup {Exact}]

\* Variant: one bit too short.
MaskShort(bits) == Pow2[Width] - Pow2[Width - bits + 1]

\* The prefix mask, (all ones << (Width - bits)) in Width bits.
Mask(bits) == Pow2[Width] - Pow2[Width - bits]

\* The & of two words, as the set of the bits both have.
HasBit(x, i) == (x \div Pow2[i]) % 2 = 1

BitAnd(x, y) == {i \in 0..(Width - 1) : HasBit(x, i) /\ HasBit(y, i)}

\* matchesRule, with both ends of the prefix length handled on their own.
MatchesRule(ip, rule) ==
    CASE rule.bits = Exact -> ip = rule.base
      [] rule.bits = 0     -> TRUE
      [] rule.bits = Width -> ip = rule.base
      [] OTHER             -> BitAnd(ip, Mask(rule.bits)) = BitAnd(rule.base, Mask(rule.bits))

\* isNetworkAllowed: off admits everybody; an empty list admits nobody.
IsNetworkAllowed(policy, ip) ==
    ~policy.enabled \/ \E r \in policy.rules : MatchesRule(ip, r)
=============================================================================
