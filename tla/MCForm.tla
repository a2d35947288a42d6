-------------------------------- MODULE MCForm --------------------------------
EXTENDS Form
===============================================================================
