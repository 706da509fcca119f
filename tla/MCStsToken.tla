----------------------------- MODULE MCStsToken -----------------------------
EXTENDS StsToken
=============================================================================
