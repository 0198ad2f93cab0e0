-------------------------------- MODULE Popf --------------------------------
(***************************************************************************)
(* Curve points and the programmable once public functions of               *)
(* libOTe/Tools/Popf, on which the base OTs compute.                        *)
(*                                                                         *)
(* A point is a formal integer combination of atoms <<base, e, i>>: a base   *)
(* point times the sender's secret to the e and, for i > 0, the secret i of  *)
(* the receiver. A base is <<tag, number, payload>>. A byte string is a      *)
(* formal sum (XorAlgebra) of atoms <<tag, i, x, payload>>.                 *)
(***************************************************************************)
EXTENDS XorAlgebra, Sequences

Zero == [a \in {} |-> 0]
Coef(p, a) == IF a \in DOMAIN p THEN p[a] ELSE 0
Combine(p, q, k) ==
    LET c(a) == Coef(p, a) + k * Coef(q, a) IN
    [a \in { b \in (DOMAIN p) \cup (DOMAIN q) : c(b) # 0 } |-> c(a)]
Add(p, q) == Combine(p, q, 1)
Sub(p, q) == Combine(p, q, -1)
Times(k, p) == [a \in DOMAIN p |-> k * p[a]]
Point(base) == [a \in {<<base, 0, 0>>} |-> 1]

(* The point times the sender's secret, times secret i of the receiver.     *)
Mapped(p, f) ==
    [b \in { f[a] : a \in DOMAIN p } |-> p[CHOOSE a \in DOMAIN p : f[a] = b]]
BySender(p) == Mapped(p, [a \in DOMAIN p |-> <<a[1], a[2] + 1, a[3]>>])
ByReceiver(p, i) == Mapped(p, [a \in DOMAIN p |-> <<a[1], a[2], i>>])

(* The generators: of the curve, 0, and of its twist, 1. A random point, a   *)
(* point hashed from bytes, a point that a string which encodes none means. *)
Generator(curve) == Point(<<0, curve, {}>>)
RandomPoint(i) == Point(<<1, i, {}>>)
HashedPoint(i, bytes) == Point(<<2, i, bytes>>)
AnyPoint(bytes) == Point(<<3, 0, bytes>>)

Bytes(p, bit) == { <<0, 0, bit, {p}>> }
RandomBytes(i) == { <<1, i, 0, {}>> }
Hash(tag, i, x, bytes) == { <<tag, i, x, bytes>> }

(* curveToBlock and blockToCurve of McRosRoyTwist.h: the unused top bit of   *)
(* the encoding is random, and ignored.                                    *)
PointOf(bytes) ==
    IF Cardinality(bytes) = 1 /\ (CHOOSE a \in bytes : TRUE)[1] = 0
      THEN CHOOSE p \in (CHOOSE a \in bytes : TRUE)[4] : TRUE
      ELSE AnyPoint(bytes)

---------------------------------------------------------------------------
(* Each is programmed for OT i to be y at the bit x, and can be evaluated at *)
(* both bits. y is a point for the kinds on points and a string for others.  *)

Other(x) == 1 - x
(* FeistelPopf: t and s of two rounds, each keyed by i and x.               *)
FeistelH(i, x, f) == [f EXCEPT !.t = Xor(@, Hash(2, i, x, f.s))]
FeistelHPrime(i, x, f) == [f EXCEPT !.s = Xor(@, Hash(3, i, x, f.t))]
FeistelProgram(i, x, y) ==
    FeistelHPrime(i, x, FeistelH(i, x, [t |-> y, s |-> RandomBytes(i)]))
FeistelEvalSwapped(i, x, f) == FeistelHPrime(i, x, FeistelH(i, x, f)).t
FeistelEval(i, x, f) == FeistelH(i, x, FeistelHPrime(i, x, f)).t

(* FeistelMulPopf: the second round adds t times x.                        *)
MulRound(x, f) == [f EXCEPT !.s = Xor(@, BitTimes(x = 1, f.t))]
FeistelMulProgram(i, x, y) == MulRound(x, FeistelH(i, x, [t |-> y, s |-> RandomBytes(i)]))
FeistelMulEval(i, x, f) == FeistelH(i, x, MulRound(x, f)).t

(* FeistelRistPopf and FeistelMulRistPopf: t is the encoding of a point.    *)
RistRound(x, f, i, mul) ==
    IF mul THEN [f EXCEPT !.s = Xor(@, BitTimes(x = 1, Bytes(f.t, 0)))]
           ELSE [f EXCEPT !.s = Xor(@, Hash(3, i, x, Bytes(f.t, 0)))]
RistProgram(i, x, y, mul) ==
    RistRound(x, [t |-> Sub(y, HashedPoint(i, Hash(2, i, x, RandomBytes(i)))), s |-> RandomBytes(i)], i, mul)
RistEval(i, x, f, mul) ==
    LET g == RistRound(x, f, i, mul) IN Add(g.t, HashedPoint(i, Hash(2, i, x, g.s)))

(* EKEPopf: a block cipher keyed by i and x.                               *)
EkeProgram(i, x, y) == Hash(4, i, x, y)
EkeEval(i, x, f) ==
    LET a == CHOOSE b \in f : TRUE IN
    IF a[2] = i /\ a[3] = x THEN a[4] ELSE Hash(5, i, x, f)

(* MRPopf: a pair, the one not chosen masks the other.                      *)
MrProgram(i, x, y) ==
    [j \in {0, 1} |-> IF j = x THEN Xor(y, Hash(6, i, 0, RandomBytes(i))) ELSE RandomBytes(i)]
MrEval(i, x, f) == Xor(f[x], Hash(6, i, 0, f[Other(x)]))

Program(kind, i, x, y) ==
    CASE kind = "feistel" -> FeistelProgram(i, x, y)
      [] kind = "feistelMul" -> FeistelMulProgram(i, x, y)
      [] kind = "rist" -> RistProgram(i, x, y, FALSE)
      [] kind = "ristMul" -> RistProgram(i, x, y, TRUE)
      [] kind = "eke" -> EkeProgram(i, x, y)
      [] kind = "mr" -> MrProgram(i, x, y)
Eval(kind, i, x, f) ==
    CASE kind = "feistel" -> FeistelEval(i, x, f)
      [] kind = "feistelMul" -> FeistelMulEval(i, x, f)
      [] kind = "rist" -> RistEval(i, x, f, FALSE)
      [] kind = "ristMul" -> RistEval(i, x, f, TRUE)
      [] kind = "eke" -> EkeEval(i, x, f)
      [] kind = "mr" -> MrEval(i, x, f)
===========================================================================
