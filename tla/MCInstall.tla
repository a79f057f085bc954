------------------------------ MODULE MCInstall ------------------------------
EXTENDS Install
===============================================================================
