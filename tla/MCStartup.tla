------------------------------ MODULE MCStartup ------------------------------
EXTENDS Startup
=============================================================================
