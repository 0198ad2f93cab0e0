------------------------------ MODULE NoisyVole ------------------------------
(***************************************************************************)
(* NoisyVoleSender and NoisyVoleReceiver over a CoeffCtx: from one OT per   *)
(* bit of delta, a and c for the receiver and b for the sender with         *)
(* a = b + c * delta.                                                      *)
(*                                                                         *)
(* An element is a sum of monomials with coefficients modulo q, where a     *)
(* monomial is the tuple of the exponents of an unknown block (by its       *)
(* number), of a noise value (by its number), of the generator of GF(2^128) *)
(* and of the challenge of the malicious check. Integers modulo 2^w have    *)
(* q = 2^w and powerOfTwo a coefficient; GF(2^128) has q = 2 and powerOfTwo *)
(* a power of the generator.                                               *)
(***************************************************************************)
EXTENDS Integers, Sequences, FiniteSets, Functions, TLC

OneMonomial == <<0, 0, 0, 0>>
ZeroElem == << >>
Scalar(q, k) == IF k % q = 0 THEN ZeroElem ELSE OneMonomial :> (k % q)
Unknown(n) == <<n, 0, 0, 0>> :> 1
NoiseVar(n) == <<0, n, 0, 0>> :> 1
Generator(e) == <<0, 0, e, 0>> :> 1
Challenge(e) == <<0, 0, 0, e>> :> 1

Coef(x, m) == IF m \in DOMAIN x THEN x[m] ELSE 0
Terms(q, f) == [m \in { k \in DOMAIN f : f[k] % q # 0 } |-> f[m] % q]
Plus(q, x, y) == Terms(q, [m \in DOMAIN x \cup DOMAIN y |-> Coef(x, m) + Coef(y, m)])
Minus(q, x, y) == Terms(q, [m \in DOMAIN x \cup DOMAIN y |-> Coef(x, m) - Coef(y, m)])
Product(m, n) == <<m[1] + n[1], m[2] + n[2], m[3] + n[3], m[4] + n[4]>>
Times(q, x, y) ==
    LET pairs(m) == { pr \in (DOMAIN x) \X (DOMAIN y) : Product(pr[1], pr[2]) = m } IN
    Terms(q, [m \in { Product(pr[1], pr[2]) : pr \in (DOMAIN x) \X (DOMAIN y) } |->
                FoldFunctionOnSet(+, 0, [pr \in pairs(m) |-> x[pr[1]] * y[pr[2]]], pairs(m))])
Sum(q, f, S) == FoldFunctionOnSet(LAMBDA x, y : Plus(q, x, y), ZeroElem, f, S)

PowerOfTwo(q, i) == IF q = 2 THEN Generator(i) ELSE Scalar(q, 2^i)
BinaryDecomposition(delta, bits) == [i \in 0..(bits - 1) |-> (delta \div 2^i) % 2]
FromBits(q, xb) ==
    Sum(q, [i \in DOMAIN xb |-> IF xb[i] = 1 THEN PowerOfTwo(q, i) ELSE ZeroElem], DOMAIN xb)

---------------------------------------------------------------------------
(* ot[i][k][j]: element j from the seed of message k of OT i. The receiver  *)
(* of the VOLE knows both messages, the sender that of its bit of delta.    *)

NoisyA(q, bits, size, ot) ==
    [j \in 0..(size - 1) |-> Sum(q, [i \in 0..(bits - 1) |-> ot[i][0][j]], 0..(bits - 1))]
NoisyMessage(q, bits, size, ot, c) ==
    [i \in 0..(bits - 1) |-> [j \in 0..(size - 1) |->
        Minus(q, Minus(q, ot[i][0][j], Times(q, PowerOfTwo(q, i), c[j])), ot[i][1][j])]]
NoisyBNoMessage(q, xb, size, ot, msg) ==
    [j \in 0..(size - 1) |-> Sum(q, [i \in DOMAIN xb |-> ot[i][xb[i]][j]], DOMAIN xb)]
NoisyB(q, xb, size, ot, msg) ==
    [j \in 0..(size - 1) |->
        Sum(q, [i \in DOMAIN xb |->
                  IF xb[i] = 1 THEN Plus(q, msg[i][j], ot[i][1][j]) ELSE ot[i][0][j]], DOMAIN xb)]
===========================================================================
