--------------------------- MODULE MCAckController ---------------------------
EXTENDS AckController
=============================================================================
