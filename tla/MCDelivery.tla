------------------------------ MODULE MCDelivery ------------------------------
\* Instances of Delivery.
EXTENDS Delivery
CONSTANTS w1, w2, p, q

\* One work with two paths, or a second one that shares only one of them.
OneWork == w1 :> {p, q}
TwoWorks == w1 :> {p, q} @@ w2 :> {q}

===============================================================================
