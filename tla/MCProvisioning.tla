----------------------------- MODULE MCProvisioning -----------------------------
EXTENDS Provisioning
CONSTANTS c1, c2, b1, x1
===============================================================================
