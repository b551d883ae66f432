------------------------------ MODULE MCFraming ------------------------------
(* An instance of Framing with bytes of two bits: '-', '?', '*' and 0, which *)
(* stands for every other value.  The constants are given in framing.cfg.    *)
EXTENDS Framing

XorTwoBits(a, b) == 2 * (((a \div 2) + (b \div 2)) % 2) + ((a + b) % 2)
==============================================================================
