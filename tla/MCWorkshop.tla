------------------------------ MODULE MCWorkshop ------------------------------
EXTENDS Workshop, TLC

CONSTANTS t1, t2

TechnicianSymmetry == Permutations({t1, t2})
===============================================================================
