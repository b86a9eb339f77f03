---- MODULE MCRsa ----
EXTENDS Rsa
MCKeys == {[n |-> 33, p |-> 3, q |-> 11, e |-> 3, d |-> 7],
           [n |-> 35, p |-> 5, q |-> 7, e |-> 5, d |-> 5]}
====
