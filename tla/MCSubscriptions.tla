-------------------------- MODULE MCSubscriptions --------------------------
EXTENDS Subscriptions
=============================================================================
