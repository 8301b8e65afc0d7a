------------------------- MODULE MCConsentLifecycle -------------------------
EXTENDS ConsentLifecycle, TLC
MCGrants == {{x} : x \in Accts}
=============================================================================
