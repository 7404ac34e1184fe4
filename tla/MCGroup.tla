------------------------------ MODULE MCGroup ------------------------------
(* The group of a finite field of order Prime, as the instances of the      *)
(* searches use it.                                                           *)
EXTENDS FiniteGroup

CONSTANT Prime

\* The inverses and the powers in the field of order q, as tables.
InverseTable(q) == [a \in 1..(q - 1) |-> CHOOSE b \in 1..(q - 1) : (a * b) % q = 1]
PowerTable(q) == [a \in 1..(q - 1) |->
  LET pow[n \in 0..MaxExp] ==
        IF n = 0 THEN 1
        ELSE LET half == pow[n \div 2] IN (((half * half) % q) * (IF n % 2 = 1 THEN a ELSE 1)) % q
  IN pow]

MCGrp == 1..(Prime - 1)
MCMul(a, b) == (a * b) % Prime
MCInvOf == InverseTable(Prime)
MCInv(a) == MCInvOf[a]
MCPowOf == PowerTable(Prime)
MCPow(a, n) == MCPowOf[a][n]
MCSqrt(n) == CHOOSE k \in 0..n : k * k <= n /\ n < (k + 1) * (k + 1)
=============================================================================
