------------------------------ MODULE DpfMult ------------------------------
(***************************************************************************)
(* DpfMult.h: the product of a shared bit x and a shared block y, from one  *)
(* base OT in each direction. p is the party, j the number of the OT and b  *)
(* says which setBaseOts it is from. The OTs and their choice bits are      *)
(* unknowns (Gf2Poly).                                                     *)
(***************************************************************************)
EXTENDS Gf2Poly

OtMessage(p, b, j, c) == Fresh(<<3, p, b, j, c>>)
OtChoice(p, b, j) == BitVar(<<4, p, b, j, 0>>)
OtReceived(p, b, j) ==
    LET m0 == OtMessage(1 - p, b, j, 0) m1 == OtMessage(1 - p, b, j, 1) IN
    BXor(m0, BTimes(OtChoice(p, b, j), BXor(m0, m1)))

(* The party's shares a, b1 and c of a random triple.                      *)
A0(p, b, j) == OtChoice(p, b, j)
B1(p, b, j) == BXor(OtMessage(p, b, j, 0), OtMessage(p, b, j, 1))
TripleC(p, b, j) ==
    BXor(BXor(OtReceived(p, b, j), OtMessage(p, b, j, 0)), BTimes(A0(p, b, j), B1(p, b, j)))

(* What multiply sends.                                                    *)
Theta(p, b, j, y) == BXor(y, B1(p, b, j))
Phi(p, b, j, x) == Xor(x, A0(p, b, j))

(* Its result, from the sums of both parties' theta and phi.               *)
ProductNoCross(p, b, j, theta, phi) ==
    BXor(TripleC(p, b, j), BXor(BTimes(A0(p, b, j), theta), BTimes(phi, B1(p, b, j))))
Product(p, b, j, theta, phi) ==
    BXor(BXor(TripleC(p, b, j), BXor(BTimes(A0(p, b, j), theta), BTimes(phi, B1(p, b, j)))),
         BTimes(PBit(p), BTimes(phi, theta)))
===========================================================================
