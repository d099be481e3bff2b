---- MODULE MCRegistryGc ----
EXTENDS RegistryGc

TwoRungs   == {1, 2}
ThreeRungs == {1, 2, 4}
====
