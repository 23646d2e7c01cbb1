---------------------------- MODULE MCArcRouting ----------------------------
EXTENDS ArcRouting
=============================================================================
