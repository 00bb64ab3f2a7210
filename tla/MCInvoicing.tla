---- MODULE MCInvoicing ----
EXTENDS Invoicing, TLC

CONSTANTS i1, i2, e1, e2, p1, p2

Alike == Permutations(Invoices) \cup Permutations(Entries) \cup Permutations(Payments)
====
