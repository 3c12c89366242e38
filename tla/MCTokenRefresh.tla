---------------------------- MODULE MCTokenRefresh ----------------------------
EXTENDS TokenRefresh
================================================================================
