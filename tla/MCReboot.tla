------------------------------- MODULE MCReboot -------------------------------
EXTENDS Reboot

MCSkews == {-1, 0}
=============================================================================
