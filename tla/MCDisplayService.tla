-------------------------- MODULE MCDisplayService --------------------------
EXTENDS DisplayService
=============================================================================
