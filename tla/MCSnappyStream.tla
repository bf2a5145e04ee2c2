---- MODULE MCSnappyStream ----
EXTENDS SnappyStreamInv
====
