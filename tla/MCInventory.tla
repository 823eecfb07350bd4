---------------------------- MODULE MCInventory ----------------------------
EXTENDS Inventory

CONSTANTS dev, copy

\* one device and one address a bit away from it
MCNear == {<<dev, copy>>, <<copy, dev>>}
=============================================================================
