---- MODULE MCPageManager ----
EXTENDS PageManager

CONSTANTS a, b

Tuples == {<<a>>, <<b, a>>, <<a, b, b>>}
====
